------------------------- MODULE FileServerProperties -------------------------
(***************************************************************************)
(* What the file server promises, and the store it implements.             *)
(***************************************************************************)
EXTENDS FileServer

\* A descriptor is open exactly as long as its connection; the server never
\* takes more than has arrived, nor puts more in a file than it has counted.
TypeOK ==
  /\ phase \in [Client -> {"new", "backlog", "open", "closed"}]
  /\ \A c \in Client : taken[c] <= sent[c] /\ sent[c] <= Pieces(c)
  /\ conn \in [Fd -> Client \cup {NULL}]
  /\ \A c \in Client : phase[c] = "open" <=> Fds(c) # {}
  /\ ready \subseteq {fd \in Fd : conn[fd] # NULL}
  /\ serving \in Fd \cup {NULL, STOPPED}
  /\ serving \in Fd => conn[serving] # NULL
  /\ sending \in {NULL, serving}
  /\ \A fd \in Fd : session[fd] # NULL =>
        /\ session[fd] \in Session
        /\ session[fd].flushed <= session[fd].written
  /\ directory \subseteq Name
  /\ disk \in [Name -> Client \cup {NULL}]

Writers(n) == {fd \in Fd : /\ session[fd] # NULL
                           /\ session[fd].state = "READING_PUT_DATA"
                           /\ session[fd].name = n}
Whole(c) == [i \in 1 .. request[c].size |-> <<c, i>>]

\* "the server will maintain a copy of all the files in a vector"
\* (NotesOnNonStopNetworking.txt:32): but for the files being uploaded, the
\* vector names the files of the temp directory, all of them and no other.
\* A name is excepted once a connection was reset in the middle of its upload.
ListMatchesDisk ==
  \A n \in Name \ spoilt : Writers(n) = {} => (n \in directory <=> disk[n] # NULL)

\* A file nobody uploads is, block by block, what one client sent in a PUT
\* that was answered OK: nothing of an older or a broken upload is in it, and
\* nothing of another client's request.  Only under a name whose upload was
\* left behind by a reset may the server mix what two clients sent.
FilesAreWhole ==
  \A n \in Name \ spoilt : Writers(n) = {} /\ disk[n] # NULL =>
     \E c \in Client : /\ request[c].verb = "PUT" /\ request[c].name = n
                       /\ inode[disk[n]] = Whole(c)
                       /\ \E r \in DOMAIN replies[c] : replies[c][r].status = "OK"

\* The clients whose connection goes on with a session that another left
\* behind when it was reset.
Misled == {conn[fd] : fd \in {e \in Fd : conn[e] # NULL /\ ~Own(e)}}

\* The edge-triggered loop misses no event and gives every client its turn: as
\* long as send_all always ends (the clients it sends to read, or are reset),
\* a client whose request has arrived whole is answered, whatever others have
\* stopped or were reset in the middle of; unless a signal stops the server,
\* its own connection is reset or has got the session of one that was, or its
\* request ends before the verb does ("G\n" is closed without an answer).
Complete(c) == /\ phase[c] = "open" /\ eof[c] /\ sent[c] = Pieces(c)
               /\ c \notin Misled /\ request[c].verb # "SHORT"
Served ==
  []<>(sending = NULL) =>
    \A c \in Client : Complete(c) ~> (replies[c] # <<>> \/ serving = STOPPED \/ reset[c])

------------------------------------------------------------------------------
(* The store: a file that is being replaced is still the old one.  It makes *)
(* no promise about a name whose upload was left behind.                    *)

StoredFile(n) == IF n \notin directory THEN NULL
                 ELSE IF Writers(n) # {} THEN before[n]
                 ELSE inode[disk[n]]

FS == INSTANCE FileStore WITH
        store <- [n \in Name |-> IF n \in spoilt THEN NULL ELSE StoredFile(n)],
        answers <- replies,
        doubtful <- spoilt,
        misled <- Misled,
        closed <- serving = STOPPED

\* Requests for different files, and lists, do not disturb one another: the
\* server answers as a store of whole files that serves one request at a time.
\* A reset in the middle of a request makes doubtful one name at most, and
\* one client after another: the other clients and files do not notice.
ImplementsStore == FS!Spec
=============================================================================
