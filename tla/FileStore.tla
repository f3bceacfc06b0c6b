------------------------------ MODULE FileStore -------------------------------
(***************************************************************************)
(* What the file server promises its clients: one store of whole files,    *)
(* and every request answered at one instant, in some order.  A name may   *)
(* become doubtful, and a client be misled: of these nothing is promised.  *)
(***************************************************************************)
EXTENDS Integers, Sequences

CONSTANTS Client, Name, NULL

VARIABLES request,  \* what each client asks for
          store,    \* the files: a sequence of blocks, or NULL
          answers,  \* <<>>, or the one answer of each client
          closed,   \* no longer serving
          doubtful, \* names of which nothing is known any more
          misled    \* input: clients that may be answered what others ask

File(c) == [i \in 1 .. request[c].size |-> <<c, i>>]
Answer(c, status, body) ==
  /\ ~closed /\ answers[c] = <<>>
  /\ answers' = [answers EXCEPT ![c] = << [status |-> status, body |-> body] >>]
  /\ UNCHANGED <<request, closed, doubtful>>
Asks(c, verb) == request[c].verb = verb
Stored(c) == store[request[c].name] # NULL
Known(c) == request[c].name \notin doubtful
Store(c, file) == Known(c) /\ store' = [store EXCEPT ![request[c].name] = file]

Put(c) ==
  /\ Asks(c, "PUT") /\ request[c].size <= request[c].blocks
  /\ Answer(c, "OK", NULL)
  /\ Store(c, File(c))

\* Too many blocks, or a client that goes away before it has sent all: what
\* the file was before is lost, too.
BadSize(c) ==
  /\ Asks(c, "PUT")
  /\ Answer(c, "BAD_FILE_SIZE", NULL)
  /\ Store(c, NULL)

Get(c) ==
  /\ Asks(c, "GET") /\ Stored(c)
  /\ Answer(c, "OK", store[request[c].name])
  /\ UNCHANGED store

List(c) ==
  /\ Asks(c, "LIST")
  /\ \E some \in SUBSET doubtful : Answer(c, "OK", {n \in Name : store[n] # NULL} \cup some)
  /\ UNCHANGED store

Delete(c) ==
  /\ Asks(c, "DELETE") /\ Stored(c)
  /\ Answer(c, "OK", NULL)
  /\ Store(c, NULL)

NoSuchFile(c) ==
  /\ request[c].verb \in {"GET", "DELETE"} /\ ~Stored(c)
  /\ Answer(c, "NO_SUCH_FILE", NULL)
  /\ UNCHANGED store

\* A request that does not arrive as the server wants it changes nothing.
BadRequest(c) == Answer(c, "BAD_REQUEST", NULL) /\ UNCHANGED store

\* Whoever asks for a doubtful name, or is misled, may be answered anything; no
\* file that is not doubtful changes.
Anyhow(c) ==
  /\ request[c].name \in doubtful \/ c \in misled
  /\ ~closed /\ answers[c] = <<>>
  /\ Len(answers'[c]) = 1 /\ answers' = [answers EXCEPT ![c] = answers'[c]]
  /\ UNCHANGED <<request, store, closed, doubtful>>

\* A name becomes doubtful, for good.
Doubt(n) ==
  /\ doubtful' = doubtful \cup {n}
  /\ store' = [store EXCEPT ![n] = NULL]
  /\ UNCHANGED <<request, answers, closed>>

\* A store that is closed keeps nothing and answers no more.
Close == /\ ~closed /\ closed' = TRUE
         /\ store' = [n \in Name |-> NULL]
         /\ UNCHANGED <<request, answers, doubtful>>

Init == /\ closed = FALSE
        /\ store = [n \in Name |-> NULL]
        /\ answers = [c \in Client |-> <<>>]
        /\ doubtful = {}

Next == \/ Close
        \/ \E c \in Client : \/ Put(c) \/ BadSize(c)
                            \/ Get(c) \/ List(c) \/ Delete(c)
                            \/ NoSuchFile(c) \/ BadRequest(c) \/ Anyhow(c)
        \/ \E n \in Name : Doubt(n)

Spec == Init /\ [][Next]_<<request, store, answers, closed, doubtful>>
=============================================================================
