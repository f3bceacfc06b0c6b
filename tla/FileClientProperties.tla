-------------------------- MODULE FileClientProperties --------------------------
(***************************************************************************)
(* What a client tells its user.                                           *)
(***************************************************************************)
EXTENDS FileClient

Ended == step = "ended"

\* client.c:194, client.c:131: a GET or LIST that ends with 0 and without a
\* complaint has written exactly the data of the answer, however it was cut
\* into reads, and a PUT that reports success has left its file on the server.
TellsTheTruth ==
  /\ Ended /\ result.exit = 0 /\ result.said = "" =>
       output = SubSeq(Answer, 5, Len(Answer))
  /\ Ended /\ result.said = "success" /\ Verb = "PUT" =>
       stored = SubSeq(command.file.blocks, 1, command.file.size)

\* client.c:341: a file the server has taken in is reported as a failure only
\* when the connection was lost, or when it is empty: send_file takes the end
\* of an empty file for an error, after it has sent the size 0.
StoredIsReported ==
  Ended /\ Verb = "PUT" /\ peer \in {"answered", "closed"} /\ Accepted /\ result.exit # 0 =>
    command.file.size = 0

\* client.c:425, server.c: neither side waits for the other for ever: the
\* client has shut down its side before it waits for the end of the answer.
ClientEnds == step = "header" ~> Ended
=============================================================================
