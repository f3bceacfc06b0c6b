------------------------------ MODULE FileServer ------------------------------
(***************************************************************************)
(* The file server of nonstop_networking (server.c): one thread, an        *)
(* edge-triggered epoll loop, and a session per descriptor.                *)
(*                                                                         *)
(* A request is a number of pieces, the finest cuts of the byte stream the *)
(* server tells apart: the verb in two, the rest of the header, and for a  *)
(* PUT the size and the blocks of the file.  TCP keeps their order, and a  *)
(* recv takes all that has arrived.  Clients are killed (the server sees   *)
(* an end of file), connections are reset, clients do not read what they   *)
(* are sent, and a signal may end the server, all at any moment.  The      *)
(* order of the names in a list, failing system calls and memory are left  *)
(* out.                                                                    *)
(***************************************************************************)
EXTENDS Integers, Sequences

CONSTANTS Client,    \* each connects once
          Name,      \* names of files
          Fd,        \* the descriptors connections get
          Requests,  \* what the clients ask: functions on Client
          Cuts,      \* bound: the pieces after which a client's request is cut
          Resets,    \* bound: the clients whose connection may be reset
          Deaf,      \* bound: those that may not read what they are sent
          Overlaps,  \* TRUE: requests for one file may overlap
          NULL

VERB == 2            \* pieces of a verb,
HEADER == 3          \* of a header, up to its newline,
SIZE == 4            \* and with the size of a PUT

STOPPED == "stopped" \* instead of a descriptor: the server has exited

\* "OTHER" is none of the four (one that begins with the end of a verb, as
\* "ET", is left out); "SHORT" is too short to tell: "G\n", "DEL\n".
Request == [verb : {"GET", "PUT", "DELETE"}, name : Name, size : Nat, blocks : Nat]
             \cup [verb : {"LIST", "OTHER", "SHORT"}, name : {NULL}, size : {0}, blocks : {0}]
ASSUME RequestAssumption == Requests \subseteq [Client -> Request]
ASSUME CutsAssumption == Cuts \in [Client -> SUBSET Nat]
ASSUME NullAssumption ==
  /\ NULL \notin Client /\ NULL \notin Name /\ NULL \notin Fd
  /\ STOPPED # NULL /\ STOPPED \notin Fd

VARIABLES
  request,   \* what each client asks
  phase,     \* its connection: "new", "backlog", "open" or "closed"
  sent,      \* the pieces that have arrived at the server,
  taken,     \* and those it has received
  eof,       \* the client has shut down its side
  reset,     \* the connection is reset
  replies,   \* what the server has answered
  conn,      \* the client an open descriptor belongs to
  ready,     \* the descriptors epoll has an event for
  session,   \* sock_to_session_hashtable
  serving,   \* the descriptor whose event is handled, NULL in epoll_wait
  sending,   \* the one send_all goes round for, or NULL
  directory, \* the vector of file names
  disk,      \* the files in base_temp_dir: an inode, or NULL
  inode,     \* what is in each inode, named by the client that created it
  before,    \* history: a file as it was when it was opened for writing
  spoilt     \* history: the names whose upload was left behind by a reset

clients == <<request, phase, sent, eof, reset>>
files == <<directory, disk, inode, before>>
vars == <<clients, taken, replies, conn, ready, session, serving, sending, files, spoilt>>

Pieces(c) == CASE request[c].verb = "PUT" -> SIZE + request[c].blocks
               [] request[c].verb = "SHORT" -> VERB - 1
               [] OTHER -> HEADER
Connected(c) == phase[c] \in {"backlog", "open"}
Fds(c) == {fd \in Fd : conn[fd] = c}

------------------------------------------------------------------------------
(* The clients and the network.                                             *)

Conflict(c, d) == /\ request[c].name # NULL /\ request[c].name = request[d].name
                  /\ ~(request[c].verb = "GET" /\ request[d].verb = "GET")

Connect(c) ==
  /\ phase[c] = "new" /\ serving # STOPPED
  /\ Overlaps \/ \A d \in Client : Connected(d) => ~Conflict(c, d)
  /\ phase' = [phase EXCEPT ![c] = "backlog"]
  /\ UNCHANGED <<request, sent, eof, reset, taken, replies, conn, ready, session, serving, sending, files, spoilt>>

\* Something happens on the client's socket: an event, if it is watched.
Event(c) == ready' = ready \cup Fds(c)

Send(c) ==
  /\ Connected(c) /\ ~eof[c] /\ ~reset[c]
  /\ \E n \in sent[c] + 1 .. Pieces(c) :
       /\ n \in Cuts[c] \cup {Pieces(c)}
       /\ sent' = [sent EXCEPT ![c] = n]
  /\ Event(c)
  /\ UNCHANGED <<request, phase, eof, reset, taken, replies, conn, session, serving, sending, files, spoilt>>

\* shutdown(sock, 1) after the request, or the client is killed before.
Shutdown(c) ==
  /\ Connected(c) /\ ~eof[c] /\ ~reset[c]
  /\ eof' = [eof EXCEPT ![c] = TRUE]
  /\ Event(c)
  /\ UNCHANGED <<request, phase, sent, reset, taken, replies, conn, session, serving, sending, files, spoilt>>

\* The network fails, a client that is gone is sent an answer, or one is
\* killed with something unread.
Reset(c) ==
  /\ c \in Resets /\ phase[c] = "open" /\ ~reset[c]
  /\ reset' = [reset EXCEPT ![c] = TRUE]
  /\ Event(c)
  /\ UNCHANGED <<request, phase, sent, eof, taken, replies, conn, session, serving, sending, files, spoilt>>

\* A client reads what the server is sending it, to the end.
Drains(c) ==
  /\ sending # NULL /\ conn[sending] = c /\ ~reset[c]
  /\ sending' = NULL
  /\ UNCHANGED <<clients, taken, replies, conn, ready, session, serving, files, spoilt>>

------------------------------------------------------------------------------
(* The event loop.                                                          *)

Accept(c, fd) ==
  /\ serving = NULL /\ phase[c] = "backlog" /\ conn[fd] = NULL
  /\ conn' = [conn EXCEPT ![fd] = c]
  /\ phase' = [phase EXCEPT ![c] = "open"]
  /\ ready' = IF sent[c] > 0 \/ eof[c] THEN ready \cup {fd} ELSE ready
  /\ UNCHANGED <<request, sent, eof, reset, taken, replies, session, serving, sending, files, spoilt>>

\* epoll_wait reports EPOLLIN.
Serve(fd) ==
  /\ serving = NULL /\ fd \in ready /\ ~reset[conn[fd]]
  /\ serving' = fd
  /\ ready' = ready \ {fd}
  /\ UNCHANGED <<clients, taken, replies, conn, session, sending, files, spoilt>>

State == {"READING_HEADER", "READING_PUT_SIZE", "READING_PUT_DATA", "SENDING_GET", "DONE"}
Uploads == {"READING_PUT_SIZE", "READING_PUT_DATA"}

\* input: the client whose request is at the beginning of the buffer; data:
\* what fwrite was given, flushed of which is in the file.
Session == [state : State, input : Client \cup {NULL}, name : Name \cup {NULL}, size : Int,
            file : Client \cup {NULL}, data : Seq(Client \X Int), written : Nat, flushed : Nat]

NewSession == [state |-> "READING_HEADER", input |-> NULL, name |-> NULL, size |-> 0,
               file |-> NULL, data |-> <<>>, written |-> 0, flushed |-> 0]

\* A descriptor without a session, and a name without a file, are told from
\* those that have one.
ASSUME NothingAssumption == NULL \notin Session /\ NULL \notin Seq(Client \X Int)

\* The table of sessions: what hashtable_ts_get finds, hashtable_ts_insert
\* puts and hashtable_ts_free removes.
Known(fd) == session[fd] # NULL
Becomes(fd, s) == session' = [session EXCEPT ![fd] = s]
Forgotten(fd) == session' = [session EXCEPT ![fd] = NULL]

\* A descriptor that has no session gets one.
Current(fd) == IF Known(fd) THEN session[fd] ELSE NewSession

\* The session began with the request of the client that is served now; if
\* not, it was left behind on the descriptor.
Own(fd) == Current(fd).input \in {NULL, conn[fd]}

\* The descriptor is closed and nothing else: its session stays.
EpollError(fd) ==
  /\ serving = NULL /\ fd \in ready /\ reset[conn[fd]]
  /\ conn' = [conn EXCEPT ![fd] = NULL]
  /\ phase' = [phase EXCEPT ![conn[fd]] = "closed"]
  /\ ready' = ready \ {fd}
  /\ spoilt' = IF Known(fd) /\ session[fd].state \in Uploads
               THEN spoilt \cup {session[fd].name} ELSE spoilt
  /\ UNCHANGED <<request, sent, eof, reset, taken, replies, session, serving, sending, files>>

\* recv fails with EAGAIN: back to epoll_wait.
Again(fd) ==
  /\ serving = fd /\ sending = NULL
  /\ LET c == conn[fd] IN sent[c] = taken[c] /\ ~eof[c] /\ ~reset[c]
  /\ Becomes(fd, Current(fd))
  /\ serving' = NULL
  /\ UNCHANGED <<clients, taken, replies, conn, ready, sending, files, spoilt>>

------------------------------------------------------------------------------
(* recv returns data: Session_processNext in the state the session is in.   *)

\* Mutation: one recv for an event, not until EAGAIN.
Receives_Once(fd, state) ==
  /\ serving = fd /\ sending = NULL
  /\ sent[conn[fd]] > taken[conn[fd]]
  /\ taken' = [taken EXCEPT ![conn[fd]] = sent[conn[fd]]]
  /\ Current(fd).state = state
  /\ serving' = NULL
  /\ UNCHANGED <<clients, conn, ready, spoilt>>

Receives(fd, state) ==
  /\ serving = fd /\ sending = NULL
  /\ sent[conn[fd]] > taken[conn[fd]]
  /\ taken' = [taken EXCEPT ![conn[fd]] = sent[conn[fd]]]
  /\ Current(fd).state = state
  /\ UNCHANGED <<clients, conn, ready, serving, spoilt>>

Answers(c, status, body) ==
  replies' = [replies EXCEPT ![c] = Append(@, [status |-> status, body |-> body])]

\* What recv took is at the beginning of an empty input, or behind the rest.
Input(fd) == IF Current(fd).input = NULL THEN [Current(fd) EXCEPT !.input = conn[fd]]
             ELSE Current(fd)

\* The loop of continue_reading_header ends before the verb does.
HeaderBegins(fd) ==
  /\ Receives(fd, "READING_HEADER") /\ Own(fd)
  /\ sent[conn[fd]] < VERB
  /\ Becomes(fd, Input(fd))
  /\ UNCHANGED <<replies, sending, files>>

\* Mutation: the session goes on reading.
Refuses_Again(fd) ==
  /\ Answers(conn[fd], "BAD_REQUEST", NULL)
  /\ Becomes(fd, Input(fd))
  /\ UNCHANGED <<sending, files>>
Refuses(fd) ==
  /\ Answers(conn[fd], "BAD_REQUEST", NULL)
  /\ Becomes(fd, [Input(fd) EXCEPT !.state = "DONE"])
  /\ UNCHANGED <<sending, files>>

\* TryParse finds its verb and no newline.
BadRequest(fd) ==
  /\ Receives(fd, "READING_HEADER") /\ Own(fd)
  /\ sent[conn[fd]] \in VERB .. HEADER - 1
  /\ Refuses(fd)

\* No verb begins like this: seen at its first letter or when it is whole.
UnknownRequest(fd) ==
  /\ Receives(fd, "READING_HEADER") /\ Own(fd)
  /\ request[conn[fd]].verb = "OTHER"
  /\ Refuses(fd)

\* Behind the beginning of another client's verb no request is one, which is
\* seen as soon as the input is as long as the verb.
JoinedRequest(fd) ==
  /\ Receives(fd, "READING_HEADER") /\ ~Own(fd)
  /\ \/ Refuses(fd)
     \/ /\ sent[conn[fd]] < HEADER \/ request[conn[fd]].verb = "OTHER"
        /\ UNCHANGED <<session, replies, sending, files>>

Parses(fd, verb) ==
  /\ Receives(fd, "READING_HEADER") /\ Own(fd)
  /\ sent[conn[fd]] >= HEADER
  /\ request[conn[fd]].verb = verb

\* send_all of a body: when it is more than the socket's buffer holds it goes
\* round (EAGAIN) until the client has read on, and nobody else is served.
Delivers(fd, empty) ==
  sending' \in IF conn[fd] \in Deaf /\ ~empty THEN {NULL, fd} ELSE {NULL}

\* The connection is reset: send fails, and send_all gives up.
SendFails(fd) ==
  /\ sending = fd /\ reset[conn[fd]]
  /\ sending' = NULL
  /\ UNCHANGED <<clients, taken, replies, conn, ready, session, serving, files, spoilt>>

\* sending_get_response, which does not look at the directory; its state is
\* STATE_SENDING_GET whatever it answered.
Get(fd) ==
  /\ Parses(fd, "GET")
  /\ LET c == conn[fd]
         file == disk[request[c].name]
     IN \/ /\ file = NULL
           /\ Answers(c, "NO_SUCH_FILE", NULL)
           /\ UNCHANGED sending
        \/ /\ file # NULL
           /\ Answers(c, "OK", inode[file])
           /\ Delivers(fd, inode[file] = <<>>)
  /\ Becomes(fd, [Input(fd) EXCEPT !.state = "SENDING_GET"])
  /\ UNCHANGED files

List(fd) ==
  /\ Parses(fd, "LIST")
  /\ Answers(conn[fd], "OK", directory)
  /\ Delivers(fd, directory = {})
  /\ Becomes(fd, [Input(fd) EXCEPT !.state = "DONE"])
  /\ UNCHANGED files

\* The name leaves the directory, then its file is unlinked; with a name that
\* is not there unlink gets an empty path.
Delete(fd) ==
  /\ Parses(fd, "DELETE")
  /\ LET c == conn[fd]
         n == request[c].name
     IN /\ directory' = directory \ {n}
        /\ IF n \in directory /\ disk[n] # NULL
           THEN /\ disk' = [disk EXCEPT ![n] = NULL]
                /\ Answers(c, "OK", NULL)
           ELSE /\ UNCHANGED disk
                /\ Answers(c, "NO_SUCH_FILE", NULL)
  /\ Becomes(fd, [Input(fd) EXCEPT !.state = "DONE"])
  /\ UNCHANGED <<sending, inode, before>>

\* Pieces from + 1 .. to of a request, taken for data: one is a block, and
\* those of a PUT after its size are the blocks 1, 2, ... of its client.
Data(c, from, to) == [i \in 1 .. to - from |-> <<c, from + i - SIZE>>]

\* Blocks from + 1 .. to of the data written at their place in a file; a gap
\* left by a truncation reads as zeros.
Written(content, from, to, data) ==
  [i \in 1 .. (IF to > Len(content) /\ to > from THEN to ELSE Len(content)) |->
     IF i \in from + 1 .. to THEN data[i]
     ELSE IF i <= Len(content) THEN content[i] ELSE NULL]

\* The session of the PUT of client g whose file is f, with the data that came
\* with the size, k blocks of which are already in the file.
\* Mutation: the blocks that came with the size are not counted.
Uploading_NotCounted(g, size, f, data, k) ==
  [state |-> "READING_PUT_DATA", input |-> g, name |-> request[g].name, size |-> size,
   file |-> f, data |-> data, written |-> 0, flushed |-> k]
Uploading(g, size, f, data, k) ==
  [state |-> "READING_PUT_DATA", input |-> g, name |-> request[g].name, size |-> size,
   file |-> f, data |-> data, written |-> Len(data), flushed |-> k]

\* fopen(..., "wb") makes the file or empties the one that is there.  What
\* fwrite leaves in its buffer reaches the file later.
Opens(fd, size, data) ==
  LET g == Input(fd).input
      n == request[g].name
      f == IF disk[n] = NULL THEN g ELSE disk[n]
  IN /\ disk' = [disk EXCEPT ![n] = f]
     /\ before' = [before EXCEPT ![n] = IF disk[n] = NULL THEN <<>> ELSE inode[f]]
     /\ \E k \in 0 .. Len(data) :
          /\ inode' = [inode EXCEPT ![f] = Written(<<>>, 0, k, data)]
          /\ Becomes(fd, Uploading(g, size, f, data, k))
     /\ UNCHANGED directory
OpensOwn(fd) == LET c == conn[fd] IN Opens(fd, request[c].size, Data(c, SIZE, sent[c]))

\* session_start_put, and the part of continue_reading_put that follows.
StartPut(fd) ==
  /\ Parses(fd, "PUT")
  /\ IF sent[conn[fd]] >= SIZE THEN OpensOwn(fd)
     ELSE /\ Becomes(fd, [Input(fd) EXCEPT !.state = "READING_PUT_SIZE",
                                           !.name = request[conn[fd]].name])
          /\ UNCHANGED files
  /\ UNCHANGED <<replies, sending>>

PutSize(fd) ==
  /\ Receives(fd, "READING_PUT_SIZE") /\ Own(fd)
  /\ OpensOwn(fd)
  /\ UNCHANGED <<replies, sending>>

\* The letters of another request end a size: a number never reached.
UNREACHED == -1

\* A request goes on with an upload that was left behind before its size was
\* whole.  It may be too short to be the rest of the size; if not, a piece of
\* it is, and the others are data.
JoinedSize(fd) ==
  /\ Receives(fd, "READING_PUT_SIZE") /\ ~Own(fd)
  /\ LET c == conn[fd]
     IN \/ /\ sent[c] < SIZE
           /\ UNCHANGED <<session, files>>
        \/ Opens(fd, UNREACHED, Data(c, taken[c] + 1, sent[c]))
  /\ UNCHANGED <<replies, sending>>

\* The session does not ask whose data it is.
PutData(fd) ==
  /\ Receives(fd, "READING_PUT_DATA")
  /\ LET c == conn[fd]
         s == session[fd]
         w == s.written + sent[c] - taken[c]
         data == s.data \o Data(c, taken[c], sent[c])
     IN \E k \in s.flushed .. w :
          /\ inode' = [inode EXCEPT ![s.file] = Written(@, s.flushed, k, data)]
          /\ Becomes(fd, [s EXCEPT !.data = data, !.written = w, !.flushed = k])
  /\ UNCHANGED <<replies, sending, directory, disk, before>>

\* A session that has answered reads on and does nothing.
Ignore(fd) ==
  /\ Receives(fd, "DONE") \/ Receives(fd, "SENDING_GET")
  /\ UNCHANGED <<session, replies, sending, files>>

------------------------------------------------------------------------------
(* recv returns 0, or fails because of a reset: done = 1.                   *)

Ends(fd) ==
  /\ serving = fd /\ sending = NULL
  /\ LET c == conn[fd]
     IN /\ sent[c] = taken[c] /\ (eof[c] \/ reset[c])
        /\ phase' = [phase EXCEPT ![c] = "closed"]
  /\ conn' = [conn EXCEPT ![fd] = NULL]
  /\ Forgotten(fd)
  /\ ready' = ready \ {fd}
  /\ serving' = NULL
  /\ UNCHANGED <<request, sent, eof, reset, taken, sending, spoilt>>

EndPutSize(fd) ==
  /\ Ends(fd) /\ Current(fd).state = "READING_PUT_SIZE"
  /\ Answers(conn[fd], "BAD_REQUEST", NULL)
  /\ UNCHANGED files

\* Mutation: more than was announced will do.
AsAnnounced_OrMore(s) == s.written >= s.size
AsAnnounced(s) == s.written = s.size

\* Mutation: the file stays.
Discard_Name(n) ==
  /\ directory' = directory \ {n}
  /\ UNCHANGED disk
Discard(n) ==
  /\ directory' = directory \ {n}
  /\ disk' = [disk EXCEPT ![n] = NULL]

\* sending_put_response: fclose, the answer, and the directory.
EndPut(fd) ==
  /\ Ends(fd) /\ Current(fd).state = "READING_PUT_DATA"
  /\ LET s == session[fd]
     IN /\ inode' = [inode EXCEPT ![s.file] = Written(@, s.flushed, s.written, s.data)]
        /\ \/ /\ AsAnnounced(s)
              /\ Answers(conn[fd], "OK", NULL)
              /\ directory' = directory \cup {s.name}
              /\ UNCHANGED disk
           \/ /\ ~AsAnnounced(s)
              /\ Answers(conn[fd], "BAD_FILE_SIZE", NULL)
              /\ Discard(s.name)
  /\ UNCHANGED before

EndOther(fd) ==
  /\ Ends(fd) /\ Current(fd).state \in {"READING_HEADER", "SENDING_GET", "DONE"}
  /\ UNCHANGED <<replies, files>>

------------------------------------------------------------------------------
(* SIGINT, SIGTERM and SIGHUP interrupt the thread wherever it is; SIGPIPE  *)
(* and SIGCHLD do nothing.                                                  *)

\* remove_directory: every file, those being uploaded too.
RemoveDirectory == disk' = [n \in Name |-> NULL]

\* The process exits: its memory is gone, its connections are closed.
Stop ==
  /\ serving # STOPPED
  /\ RemoveDirectory
  /\ serving' = STOPPED
  /\ sending' = NULL
  /\ directory' = {}
  /\ inode' = [c \in Client |-> <<>>]
  /\ before' = [n \in Name |-> <<>>]
  /\ session' = [fd \in Fd |-> NULL]
  /\ conn' = [fd \in Fd |-> NULL]
  /\ ready' = {}
  /\ phase' = [c \in Client |-> IF Connected(c) THEN "closed" ELSE phase[c]]
  /\ UNCHANGED <<request, sent, eof, reset, taken, replies, spoilt>>

------------------------------------------------------------------------------
\* An empty temporary directory, an empty table and an empty vector.
Initialize ==
  /\ session = [fd \in Fd |-> NULL]
  /\ directory = {}
  /\ disk = [n \in Name |-> NULL]
  /\ inode = [c \in Client |-> <<>>]
  /\ before = [n \in Name |-> <<>>]

\* The server listens and nobody has connected yet.
Init ==
  /\ request \in Requests
  /\ phase = [c \in Client |-> "new"]
  /\ sent = [c \in Client |-> 0]
  /\ taken = sent
  /\ eof = [c \in Client |-> FALSE]
  /\ reset = eof
  /\ replies = [c \in Client |-> <<>>]
  /\ conn = [fd \in Fd |-> NULL]
  /\ ready = {}
  /\ serving = NULL
  /\ sending = NULL
  /\ spoilt = {}
  /\ Initialize

Process(fd) == \/ HeaderBegins(fd) \/ BadRequest(fd) \/ UnknownRequest(fd) \/ JoinedRequest(fd)
               \/ Get(fd) \/ List(fd) \/ Delete(fd)
               \/ StartPut(fd) \/ PutSize(fd) \/ JoinedSize(fd) \/ PutData(fd) \/ Ignore(fd)
Finish(fd) == EndPutSize(fd) \/ EndPut(fd) \/ EndOther(fd)

Server == \E fd \in Fd : \/ \E c \in Client : Accept(c, fd)
                         \/ EpollError(fd) \/ Serve(fd) \/ Again(fd)
                         \/ Process(fd) \/ SendFails(fd) \/ Finish(fd)
Network == \E c \in Client : Connect(c) \/ Send(c) \/ Shutdown(c) \/ Reset(c) \/ Drains(c)

Next == Server \/ Network \/ Stop

Spec == Init /\ [][Next]_vars

\* The server keeps running while no signal stops it.  Clients may stop at
\* any point, and need not read.
FairSpec == Spec /\ WF_vars(Server)
=============================================================================
