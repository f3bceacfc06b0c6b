------------------------------ MODULE FileClient ------------------------------
(***************************************************************************)
(* The command-line client of nonstop_networking (client.c) on one         *)
(* connection: it sends its request, shuts down its side, and reads the    *)
(* answer from whatever pieces of it each read() returns.                  *)
(*                                                                         *)
(* The server at the other end answers like FileServer does, closes the    *)
(* connection after the client's shutdown, or is killed with a part of its *)
(* answer sent.  A line and a size are two cells of the byte stream each,  *)
(* so that a read() may end inside them; a block of data is one.           *)
(***************************************************************************)
EXTENDS Integers, SequencesExt

CONSTANTS Commands,  \* the command lines: [verb, name, file]; name is "" when
                     \* there is none, file is what send_file finds
          Stores,    \* what the server has for the name
          Block,     \* what a block of a file holds
          Buffer,    \* MAX_BUF_SIZE in blocks
          Missing    \* no file

ASSUME BufferAssumption == Buffer \in Nat \ {0}
ASSUME CommandAssumption ==
  Commands \subseteq [verb : STRING, name : STRING,
                      file : {Missing} \cup [size : Nat, blocks : Seq(Block)]]
ASSUME StoreAssumption == Stores \subseteq {Missing} \cup Seq(Block)

VARIABLES command,  \* argv
          stored,   \* the file on the server, or Missing
          step,     \* where main() is
          uplink,   \* what the client has sent: "header", a size, blocks
          shut,     \* it has shut down its side
          peer,     \* the server: "serves", "answered", "closed"; "killed", "reset"
          downlink, \* cells that the client has not read
          held,     \* cells in state.inputBuffer
          count,    \* blocks sent, cells of a line or a size, data received
          expected, \* the size the server announced
          output,   \* the file written, or what was printed
          result    \* [exit, said] of a client that has ended

clientVars == <<command, stored, step, uplink, shut, peer, downlink, held, count, expected,
                output, result>>
requestVars == <<command, uplink, shut>>
answerVars == <<stored, peer, downlink, held, expected, output>>

Verb == command.verb
\* A file on the client's disk: what stat() says, and the blocks then read.
File(size, blocks) == [size |-> size, blocks |-> blocks]

Ends(exit, said) ==
  /\ step' = "ended"
  /\ result' = [exit |-> exit, said |-> said]

------------------------------------------------------------------------------
(* The request.                                                             *)

check_args == \/ Verb = "LIST"
              \/ Verb \in {"GET", "PUT", "DELETE"} /\ command.name # ""

Start ==
  /\ step = "start"
  /\ IF ~check_args THEN Ends(1, "help")
     ELSE \/ step' = "header" /\ UNCHANGED result
          \/ Ends(-1, "connection failed")
  /\ UNCHANGED <<requestVars, answerVars, count>>

\* send_all: a send to a server that is gone fails.
Sends(piece) == uplink' = Append(uplink, piece)
Lost == peer \in {"killed", "reset"}
ConnectionLost ==
  /\ step \in {"header", "size", "blocks"} /\ Lost
  /\ Ends(1, "connection closed")
  /\ UNCHANGED <<requestVars, answerVars, count>>

SendHeader ==
  /\ step = "header"
  /\ Sends("header")
  /\ step' = IF Verb = "PUT" THEN "size" ELSE "shutdown"
  /\ UNCHANGED <<command, shut, answerVars, count, result>>

\* send_file: fopen, then the size that stat() gave.
SendSize ==
  /\ step = "size"
  /\ IF command.file = Missing
     THEN Ends(1, "no local file") /\ UNCHANGED uplink
     ELSE Sends(command.file.size) /\ step' = "blocks" /\ UNCHANGED result
  /\ UNCHANGED <<command, shut, answerVars, count>>

\* Mutation: the file is read once more when all of it has been sent.
More_Once(sent) == sent <= command.file.size
More(sent) == sent < command.file.size

\* One turn of the loop of send_file, which reads at least once.
SendBlocks ==
  /\ step = "blocks"
  /\ LET left == SubSeq(command.file.blocks, count + 1, Len(command.file.blocks))
         n == IF Len(left) < Buffer THEN Len(left) ELSE Buffer
     IN IF left = <<>> THEN /\ Ends(1, "error reading file")
                            /\ UNCHANGED <<uplink, count>>
        ELSE /\ uplink' = uplink \o SubSeq(left, 1, n)
             /\ IF More(count + n)
                THEN count' = count + n /\ UNCHANGED step
                ELSE count' = 0 /\ step' = "shutdown"
             /\ UNCHANGED result
  /\ UNCHANGED <<command, shut, answerVars>>

\* Mutation: the client's side stays open.
ShutsDown_Not == UNCHANGED shut
ShutsDown == shut' = TRUE

Shutdown ==
  /\ step = "shutdown"
  /\ IF peer = "reset" THEN Ends(1, "shutdown") /\ UNCHANGED shut
     ELSE step' = "first" /\ ShutsDown /\ UNCHANGED result
  /\ UNCHANGED <<command, uplink, answerVars, count>>

------------------------------------------------------------------------------
(* The server.  A process that ends has its side shut down, too.            *)

Eof == shut \/ step = "ended"
TextLine(word) == << <<word, 1>>, <<word, 2>> >>
Size(n) == << <<"size", n>>, <<"size", n>> >>
Data(blocks) == [i \in DOMAIN blocks |-> <<"data", blocks[i]>>]
OkWith(blocks) == TextLine("OK") \o Size(Len(blocks)) \o Data(blocks)
Error == TextLine("ERROR") \o TextLine("message")

Uploaded == SubSeq(uplink, 3, Len(uplink))
\* A PUT is answered at its end, anything else when its header has arrived.
Asked == IF Verb = "PUT" THEN Eof /\ Len(uplink) > 0 ELSE Len(uplink) = 1
Accepted == Len(uplink) > 1 /\ Len(Uploaded) = uplink[2]
Answer ==
  CASE Verb = "LIST" -> OkWith(IF stored = Missing THEN <<>> ELSE <<command.name>>)
    [] Verb = "GET" -> IF stored = Missing THEN Error ELSE OkWith(stored)
    [] Verb = "DELETE" -> IF stored = Missing THEN Error ELSE TextLine("OK")
    [] Verb = "PUT" -> IF Accepted THEN TextLine("OK") ELSE Error
StoredAfter ==
  CASE Verb = "DELETE" -> Missing
    [] Verb = "PUT" /\ Accepted -> Uploaded
    [] Verb = "PUT" /\ Len(uplink) > 1 /\ ~Accepted -> Missing
    [] OTHER -> stored

PeerAnswers ==
  /\ peer = "serves" /\ Asked
  /\ downlink' = Answer
  /\ stored' = StoredAfter
  /\ peer' = "answered"
  /\ UNCHANGED <<requestVars, step, held, count, expected, output, result>>

PeerCloses ==
  /\ peer = "answered" /\ Eof
  /\ peer' = "closed"
  /\ UNCHANGED <<requestVars, step, count, stored, downlink, held, expected, output, result>>

\* Killed, with a part of what it sent on its way, in front of the end of file
\* or of a reset.
PeerDies ==
  /\ peer \in {"serves", "answered"} /\ step # "start"
  /\ \E n \in 0 .. Len(downlink) : downlink' = SubSeq(downlink, 1, n)
  /\ peer' \in {"killed", "reset"}
  /\ UNCHANGED <<requestVars, step, count, stored, held, expected, output, result>>

------------------------------------------------------------------------------
(* The answer.                                                              *)

\* read() returns from 1 to Buffer blocks, 0 at the end, -1 after a reset.
Arrives == downlink # <<>>
AtEnd == downlink = <<>> /\ peer \in {"closed", "killed"}
IsReset == downlink = <<>> /\ peer = "reset"
Arrived(n) == n \in 1 .. Len(downlink) /\ n <= Buffer + 2

\* The part of main() and read_next() that fills the buffer.
Reading == {"first", "line", "message", "size?", "names", "extra"}
Refill ==
  /\ step \in Reading /\ held = <<>> /\ Arrives
  /\ \E n \in 1 .. Len(downlink) :
       /\ Arrived(n)
       /\ held' = SubSeq(downlink, 1, n)
       /\ downlink' = SubSeq(downlink, n + 1, Len(downlink))
  /\ step' = IF step = "first" THEN "line" ELSE step
  /\ UNCHANGED <<requestVars, count, stored, peer, expected, output, result>>

\* The read of main() has a message of its own.
ReadFails ==
  /\ step \in Reading \cup {"get"} /\ IsReset
  /\ step # "get" => held = <<>>
  /\ IF step = "first" THEN Ends(-1, "read error") ELSE Ends(1, "connection closed")
  /\ UNCHANGED <<requestVars, count, answerVars>>

\* read_next returns the next cell.
NextCell(in) == step = in /\ held # <<>> /\ held' = Tail(held)

\* read_line and print_response_status; a GET opens its file for writing.
Opened == IF Verb \in {"GET", "LIST"} THEN <<>> ELSE output
ReadLine ==
  /\ NextCell("line")
  /\ \/ Head(held)[2] = 1 /\ UNCHANGED <<step, output>>
     \/ Head(held) = <<"ERROR", 2>> /\ step' = "message" /\ UNCHANGED output
     \/ /\ Head(held) = <<"OK", 2>>
        /\ step' = IF Verb \in {"GET", "LIST"} THEN "size?" ELSE "extra"
        /\ output' = Opened
  /\ UNCHANGED <<requestVars, count, stored, peer, downlink, expected, result>>

ReadMessage ==
  /\ NextCell("message")
  /\ IF Head(held)[2] = 1 THEN UNCHANGED <<step, result>> ELSE Ends(1, "error")
  /\ UNCHANGED <<requestVars, count, stored, peer, downlink, expected, output>>

\* write_all
Writes(cells) == output' = output \o cells

\* The rest of the buffer is written, whatever the size is.
AfterSize == count' = Len(held) - 1 /\ Writes(Tail(held)) /\ held' = <<>>

ReadSize ==
  /\ step = "size?" /\ held # <<>>
  /\ expected' = Head(held)[2]
  /\ IF count = 0 THEN count' = 1 /\ held' = Tail(held) /\ UNCHANGED <<step, output>>
     ELSE IF Verb = "GET" THEN step' = "get" /\ AfterSize
     ELSE count' = 0 /\ held' = Tail(held) /\ step' = "names" /\ UNCHANGED output
  /\ UNCHANGED <<requestVars, stored, peer, downlink, result>>

\* The names of a list.
ReadNames ==
  /\ step = "names"
  /\ IF count = expected
     THEN step' = "extra" /\ UNCHANGED <<held, count, output>>
     ELSE /\ NextCell("names")
          /\ output' = Append(output, Head(held))
          /\ count' = count + 1
          /\ UNCHANGED step
  /\ UNCHANGED <<requestVars, stored, peer, downlink, expected, result>>

ReadExtra ==
  /\ NextCell("extra")
  /\ Ends(1, "received too much data")
  /\ UNCHANGED <<requestVars, count, stored, peer, downlink, expected, output>>

\* What the end of the answer means to each reader of it.
EndOf(in) ==
  CASE in \in {"first", "line", "message", "size?"} -> [exit |-> 1, said |-> "invalid response"]
    [] in = "names" -> [exit |-> 1, said |-> "too little data"]
    [] in = "extra" -> [exit |-> 0, said |-> IF Verb = "LIST" THEN "" ELSE "success"]
ReadEnds ==
  /\ step \in Reading /\ held = <<>> /\ AtEnd
  /\ step = "names" => count < expected
  /\ Ends(EndOf(step).exit, EndOf(step).said)
  /\ UNCHANGED <<requestVars, count, answerVars>>

\* The loop of handle_get_response, which reads the socket itself.
GetData ==
  /\ step = "get" /\ Arrives
  /\ \E n \in 1 .. Len(downlink) :
       /\ Arrived(n)
       /\ downlink' = SubSeq(downlink, n + 1, Len(downlink))
       /\ count' = count + n
       /\ IF count + n > expected
          THEN Ends(1, "received too much data") /\ UNCHANGED output
          ELSE Writes(SubSeq(downlink, 1, n)) /\ UNCHANGED <<step, result>>
  /\ UNCHANGED <<requestVars, stored, peer, held, expected>>

\* Mutation: too little data is not looked for.
Complaint_None == ""
\* Too little data is said, and is no failure.
Complaint == IF count < expected THEN "too little data" ELSE ""
GetEnds ==
  /\ step = "get" /\ AtEnd
  /\ Ends(0, Complaint)
  /\ UNCHANGED <<requestVars, count, answerVars>>

------------------------------------------------------------------------------
ClientInit ==
  /\ command \in Commands /\ stored \in Stores
  /\ step = "start" /\ uplink = <<>> /\ shut = FALSE
  /\ peer = "serves" /\ downlink = <<>> /\ held = <<>>
  /\ count = 0 /\ expected = 0 /\ output = <<>>
  /\ result = [exit |-> 0, said |-> ""]

Client == \/ Start \/ ConnectionLost \/ SendHeader \/ SendSize \/ SendBlocks \/ Shutdown
          \/ Refill \/ ReadFails \/ ReadLine \/ ReadMessage \/ ReadSize \/ ReadNames
          \/ ReadExtra \/ ReadEnds \/ GetData \/ GetEnds
Peer == PeerAnswers \/ PeerCloses
ClientNext == Client \/ Peer \/ PeerDies

ClientSpec == ClientInit /\ [][ClientNext]_clientVars
\* Both processes keep running until they end.
ClientFairSpec == ClientSpec /\ WF_clientVars(Client) /\ WF_clientVars(Peer)
=============================================================================
