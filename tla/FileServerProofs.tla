--------------------------- MODULE FileServerProofs ---------------------------
(***************************************************************************)
(* The file server keeps whole files, and its list of them, and implements *)
(* the store of FileStore when requests for one file do not overlap.       *)
(***************************************************************************)
EXTENDS FileServerProperties, SequenceTheorems, TLAPS

------------------------------------------------------------------------------
(* The types, and what the session of a descriptor tells of its client.     *)

NetType ==
  /\ request \in [Client -> Request]
  /\ phase \in [Client -> {"new", "backlog", "open", "closed"}]
  /\ sent \in [Client -> Nat]
  /\ taken \in [Client -> Nat]
  /\ \A c \in Client : taken[c] <= sent[c] /\ sent[c] <= Pieces(c)
  /\ eof \in [Client -> BOOLEAN]
  /\ reset \in [Client -> BOOLEAN]

ConnType ==
  /\ conn \in [Fd -> Client \cup {NULL}]
  /\ \A c \in Client : phase[c] = "open" <=> \E fd \in Fd : conn[fd] = c
  /\ \A e, fd \in Fd : conn[e] \in Client /\ conn[e] = conn[fd] => e = fd
  /\ ready \subseteq {fd \in Fd : conn[fd] # NULL}
  /\ serving \in Fd \cup {NULL, STOPPED}
  /\ serving \in Fd => conn[serving] # NULL
  /\ sending \in {NULL, serving}

\* A client that has had no turn has no answer.
ReplyType ==
  /\ DOMAIN replies = Client
  /\ \A c \in Client : phase[c] \in {"new", "backlog"} => replies[c] = <<>>

\* An inode is only ever linked under the name its PUT asked for.
FileType ==
  /\ session \in [Fd -> Session \cup {NULL}]
  /\ directory \subseteq Name
  /\ disk \in [Name -> Client \cup {NULL}]
  /\ \A n \in Name : disk[n] # NULL => request[disk[n]].name = n
  /\ DOMAIN inode = Client
  /\ DOMAIN before = Name
  /\ spoilt \subseteq Name

\* The states of a session that has not answered yet.
Reading == {"READING_HEADER", "READING_PUT_SIZE", "READING_PUT_DATA"}

\* The first k blocks of a client's file.
Blocks(c, k) == [i \in 1 .. k |-> <<c, i>>]

\* An upload has the name its input asks for, and a file made for that name.
Carries(s) ==
  /\ s.input \in Client
  /\ request[s.input].verb = "PUT" /\ s.name = request[s.input].name
  /\ s.state = "READING_PUT_DATA" => s.file \in Client /\ request[s.file].name = s.name

\* A session counts what it has received of its own client's request.
Counts(s, c) ==
  /\ s.state = "READING_PUT_SIZE" => taken[c] >= HEADER
  /\ s.state = "READING_PUT_DATA" =>
       /\ s.size = request[c].size /\ taken[c] = SIZE + s.written
       /\ s.data = Blocks(c, s.written)

\* What a session tells of client c, the one of its descriptor: an upload that
\* another client began is one that was left behind.
Told(s, c) ==
  /\ s.flushed <= s.written
  /\ s.state \in Uploads => Carries(s) /\ (s.input # c => s.name \in spoilt)
  /\ s.state \in Reading /\ s.input = c /\ c \in Client => Counts(s, c)

\* A session that reads belongs to a client without an answer; one that was
\* left behind began with a client that has been served.
Tells(fd) ==
  IF session[fd] = NULL THEN conn[fd] # NULL => replies[conn[fd]] = <<>>
  ELSE /\ Told(session[fd], conn[fd])
       /\ session[fd].input # NULL => phase[session[fd].input] \notin {"new", "backlog"}
       /\ session[fd].state \in Reading /\ conn[fd] # NULL => replies[conn[fd]] = <<>>

TypeInv == /\ NetType /\ ConnType /\ ReplyType /\ FileType
           /\ \A fd \in Fd : Tells(fd)

\* What a request says.
LEMMA PutFields ==
  ASSUME NEW r \in Request
  PROVE  /\ r.size \in Nat /\ r.blocks \in Nat
         /\ r.verb \in {"GET", "PUT", "DELETE"} => r.name \in Name
         /\ r.verb \in {"LIST", "OTHER", "SHORT"} => r.name = NULL
         /\ r.verb \in {"GET", "PUT", "DELETE", "LIST", "OTHER", "SHORT"}
BY DEF Request

\* The fields of a session.
LEMMA SessionFields ==
  ASSUME NEW s \in Session
  PROVE  /\ s.state \in State /\ s.input \in Client \cup {NULL}
         /\ s.name \in Name \cup {NULL} /\ s.size \in Int
         /\ s.file \in Client \cup {NULL} /\ s.data \in Seq(Client \X Int)
         /\ s.written \in Nat /\ s.flushed \in Nat
BY DEF Session

\* The states a handler leaves a session in.
LEMMA SessionBecomes ==
  ASSUME NEW s \in Session, NEW v \in State
  PROVE  /\ [s EXCEPT !.state = v] \in Session
         /\ [s EXCEPT !.state = v].state = v
         /\ [s EXCEPT !.state = v].input = s.input
         /\ [s EXCEPT !.state = v].flushed = s.flushed
         /\ [s EXCEPT !.state = v].written = s.written
BY DEF Session

\* accept starts a session that reads a header.
LEMMA NewSessionType ==
  /\ NewSession \in Session /\ NewSession.state = "READING_HEADER"
  /\ NewSession.input = NULL /\ NewSession.flushed <= NewSession.written
<1>1. <<>> \in Seq(Client \X Int)
  OBVIOUS
<1> QED
  BY <1>1 DEF Session, NewSession, State

\* The pieces of a request.
LEMMA PiecesType ==
  ASSUME NEW c, request[c] \in Request
  PROVE  /\ Pieces(c) \in Nat
         /\ request[c].verb = "PUT" => Pieces(c) = SIZE + request[c].blocks
BY PutFields DEF Pieces, SIZE, HEADER, VERB

\* Before the first event everything has its type.
LEMMA InitType == Init => TypeInv
<1> SUFFICES ASSUME Init
             PROVE  TypeInv
  OBVIOUS
<1>1. NetType
  <2>1. request \in [Client -> Request]
    BY RequestAssumption DEF Init
  <2>2. \A c \in Client : Pieces(c) \in Nat
    BY <2>1, PiecesType
  <2> QED
    BY <2>1, <2>2 DEF Init, NetType
<1>2. ConnType
  BY NullAssumption DEF Init, ConnType
<1>3. ReplyType
  BY DEF Init, ReplyType
<1>4. FileType
  BY DEF Init, Initialize, FileType
<1>5. \A fd \in Fd : Tells(fd)
  BY DEF Init, Initialize, Tells
<1> QED
  BY <1>1, <1>2, <1>3, <1>4, <1>5 DEF TypeInv

\* No client waits to be accepted again.
Onward == \A d \in Client : phase'[d] \in {"new", "backlog"} => phase[d] \in {"new", "backlog"}

\* What a step does to one descriptor leaves the sessions of the others alone.
LEMMA TellsStays ==
  ASSUME TypeInv, NEW e \in Fd, request' = request, Onward, spoilt \subseteq spoilt',
         session'[e] = session[e], conn'[e] = conn[e],
         conn[e] \in Client => replies'[conn[e]] = replies[conn[e]] /\ taken'[conn[e]] = taken[conn[e]]
  PROVE  Tells(e)'
<1>0. Tells(e) /\ conn[e] \in Client \cup {NULL} /\ session[e] \in Session \cup {NULL}
  BY DEF TypeInv, ConnType, FileType
<1>1. CASE session[e] = NULL
  BY <1>0, <1>1 DEF Tells
<1>2. CASE session[e] # NULL
  <2>1. PICK s \in Session : s = session[e]
    BY <1>0, <1>2
  <2>2. Told(s, conn[e])'
    <3>1. Told(s, conn[e])
      BY <1>0, <1>2, <2>1 DEF Tells
    <3>2. Carries(s)' <=> Carries(s)
      BY DEF Carries
    <3>3. conn[e] \in Client => (Counts(s, conn[e]) => Counts(s, conn[e])')
      BY DEF Counts, Blocks
    <3> QED
      BY <3>1, <3>2, <3>3 DEF Told
  <2>3. s.input # NULL => phase'[s.input] \notin {"new", "backlog"}
    BY <1>0, <1>2, <2>1, SessionFields DEF Tells, Onward
  <2>4. s.state \in Reading /\ conn[e] # NULL => replies'[conn[e]] = <<>>
    BY <1>0, <1>2, <2>1 DEF Tells
  <2> QED
    BY <1>2, <2>1, <2>2, <2>3, <2>4 DEF Tells
<1> QED
  BY <1>1, <1>2

------------------------------------------------------------------------------
(* The network.                                                             *)

\* Clients connect, send, shut down, read and are killed without touching a
\* session.
LEMMA NetworkKeepsType ==
  ASSUME TypeInv, NEW c \in Client, Connect(c) \/ Send(c) \/ Shutdown(c) \/ Reset(c) \/ Drains(c)
  PROVE  TypeInv'
<1>1. /\ request' = request /\ taken' = taken /\ replies' = replies /\ conn' = conn
      /\ session' = session /\ serving' = serving /\ directory' = directory
      /\ disk' = disk /\ inode' = inode /\ before' = before /\ spoilt' = spoilt
      /\ sending' \in {NULL, sending}
  BY DEF Connect, Send, Shutdown, Reset, Drains, files, clients
<1>2. /\ ready' \subseteq {fd \in Fd : conn[fd] # NULL}
      /\ \A d \in Client : phase'[d] = "open" <=> phase[d] = "open"
      /\ Onward
      /\ phase' \in [Client -> {"new", "backlog", "open", "closed"}]
      /\ eof' \in [Client -> BOOLEAN]
      /\ reset' \in [Client -> BOOLEAN]
  <2> USE NullAssumption DEF Event, Fds, TypeInv, ConnType, NetType, Onward
  <2>1. CASE Connect(c)
    BY <2>1 DEF Connect
  <2>2. CASE Send(c)
    BY <2>2 DEF Send
  <2>3. CASE Shutdown(c)
    BY <2>3 DEF Shutdown
  <2>4. CASE Reset(c)
    BY <2>4 DEF Reset
  <2>5. CASE Drains(c)
    BY <2>5 DEF Drains, clients
  <2> QED
    BY <2>1, <2>2, <2>3, <2>4, <2>5
<1>3. /\ sent' \in [Client -> Nat]
      /\ \A d \in Client : taken[d] <= sent'[d] /\ sent'[d] <= Pieces(d)
  <2>1. \A d \in Client : Pieces(d) \in Nat
    BY PiecesType DEF TypeInv, NetType
  <2>2. CASE Send(c)
    <3>1. PICK n \in sent[c] + 1 .. Pieces(c) : sent' = [sent EXCEPT ![c] = n]
      BY <2>2 DEF Send
    <3> QED
      BY <2>1, <3>1 DEF TypeInv, NetType
  <2>3. CASE sent' = sent
    BY <2>3 DEF TypeInv, NetType
  <2> QED
    BY <2>2, <2>3 DEF Connect, Shutdown, Reset, Drains, clients
<1>4. NetType'
  BY <1>1, <1>2, <1>3 DEF NetType, TypeInv, Pieces
<1>5. ConnType' /\ ReplyType' /\ FileType'
  BY <1>1, <1>2 DEF ConnType, ReplyType, FileType, TypeInv, Onward
<1>6. \A e \in Fd : Tells(e)'
  BY <1>1, <1>2, TellsStays
<1> QED
  BY <1>4, <1>5, <1>6 DEF TypeInv

------------------------------------------------------------------------------
(* The event loop.                                                          *)

\* A connection gets a descriptor, and what session there is on it.
LEMMA AcceptKeepsType ==
  ASSUME TypeInv, NEW fd \in Fd, NEW c \in Client, Accept(c, fd)
  PROVE  TypeInv'
<1>a. /\ conn' = [conn EXCEPT ![fd] = c] /\ conn[fd] = NULL /\ phase[c] = "backlog"
      /\ phase' = [phase EXCEPT ![c] = "open"] /\ serving' = serving /\ sending' = sending
      /\ ready' \subseteq ready \cup {fd}
      /\ request' = request /\ session' = session /\ replies' = replies /\ taken' = taken
      /\ spoilt' = spoilt
      /\ phase \in [Client -> {"new", "backlog", "open", "closed"}]
      /\ ConnType
  BY DEF Accept, TypeInv, NetType
<1>0. NetType' /\ ReplyType' /\ FileType'
  BY DEF Accept, NetType, ReplyType, FileType, TypeInv, Pieces, files
<1>b. \A d \in Client : phase'[d] = "open" <=> \E e \in Fd : conn'[e] = d
  BY <1>a, NullAssumption DEF ConnType
<1>c. \A d, e \in Fd : conn'[d] \in Client /\ conn'[d] = conn'[e] => d = e
  BY <1>a, NullAssumption DEF ConnType
<1>1. ConnType'
  BY <1>a, <1>b, <1>c, NullAssumption DEF ConnType
<1>d. Onward
  BY <1>a DEF Onward
<1>2. \A e \in Fd : e # fd => Tells(e)'
  BY <1>a, <1>d, TellsStays DEF ConnType
<1>3. Tells(fd)'
  <2>0. Tells(fd) /\ conn'[fd] = c /\ replies[c] = <<>> /\ session[fd] \in Session \cup {NULL}
    BY <1>a DEF TypeInv, ConnType, ReplyType, FileType
  <2>1. CASE session[fd] = NULL
    BY <1>a, <2>0, <2>1 DEF Tells
  <2>2. CASE session[fd] # NULL
    <3>1. PICK s \in Session : s = session[fd]
      BY <2>0, <2>2
    <3>2. /\ Told(s, NULL) /\ s.input \in Client \cup {NULL}
          /\ s.input # NULL => phase[s.input] \notin {"new", "backlog"}
      BY <1>a, <2>0, <2>2, <3>1, SessionFields DEF Tells
    <3>3. s.input # c
      BY <1>a, <3>2, NullAssumption
    <3>4. s.state \in Uploads => Carries(s)' /\ s.name \in spoilt'
      <4>1. s.state \in Uploads => Carries(s) /\ s.input # NULL
        BY <3>2, NullAssumption DEF Told, Carries
      <4> QED
        BY <1>a, <3>2, <4>1 DEF Told, Carries
    <3>5. Told(s, c)'
      BY <3>2, <3>3, <3>4 DEF Told
    <3>6. s.input # NULL => phase'[s.input] \notin {"new", "backlog"}
      BY <1>a, <3>2
    <3> QED
      BY <1>a, <2>0, <2>2, <3>1, <3>5, <3>6 DEF Tells
  <2> QED
    BY <2>1, <2>2
<1> QED
  BY <1>0, <1>1, <1>2, <1>3 DEF TypeInv

\* A reset makes the name of an upload doubtful.
LEMMA EpollErrorKeepsType ==
  ASSUME TypeInv, NEW fd \in Fd, EpollError(fd)
  PROVE  TypeInv'
<1>a. /\ conn[fd] \in Client
      /\ conn' = [conn EXCEPT ![fd] = NULL] /\ phase' = [phase EXCEPT ![conn[fd]] = "closed"]
      /\ ready' = ready \ {fd} /\ serving = NULL
      /\ UNCHANGED <<request, sent, eof, reset, taken, replies, session, serving, sending, files>>
      /\ Known(fd) /\ session[fd].state \in Uploads => session[fd].name \in spoilt'
      /\ spoilt \subseteq spoilt'
  <2>1. fd \in ready
    BY DEF EpollError
  <2> QED
    BY <2>1 DEF EpollError, TypeInv, ConnType
<1>b. /\ conn \in [Fd -> Client \cup {NULL}] /\ session[fd] \in Session \cup {NULL} /\ Tells(fd)
      /\ phase \in [Client -> {"new", "backlog", "open", "closed"}]
  BY DEF TypeInv, ConnType, NetType, FileType
<1>c. spoilt' \subseteq Name
  <2>1. CASE Known(fd) /\ session[fd].state \in Uploads
    <3>1. session[fd] # NULL /\ Carries(session[fd]) /\ spoilt' = spoilt \cup {session[fd].name}
      BY <1>b, <2>1 DEF Known, Tells, Told, EpollError
    <3>2. request[session[fd].input] \in Request
      BY <3>1 DEF Carries, TypeInv, NetType
    <3>3. session[fd].name \in Name
      BY <3>1, <3>2, PutFields DEF Carries
    <3> QED
      BY <3>1, <3>3 DEF TypeInv, FileType
  <2>2. CASE ~ (Known(fd) /\ session[fd].state \in Uploads)
    BY <2>2 DEF EpollError, TypeInv, FileType
  <2> QED
    BY <2>1, <2>2
<1>1. NetType' /\ ReplyType' /\ FileType'
  <2>1. NetType'
    BY <1>a DEF NetType, TypeInv, Pieces
  <2>2. ReplyType'
    BY <1>a, <1>b DEF ReplyType, TypeInv
  <2>3. FileType'
    BY <1>a, <1>c DEF FileType, TypeInv, files
  <2> QED
    BY <2>1, <2>2, <2>3
<1>2. ConnType'
  <2>1. conn' \in [Fd -> Client \cup {NULL}] /\ ready' \subseteq {e \in Fd : conn'[e] # NULL}
    BY <1>a, <1>b DEF TypeInv, ConnType
  <2>2. \A e, d \in Fd : conn'[e] \in Client /\ conn'[e] = conn'[d] => e = d
    BY <1>a, <1>b, NullAssumption DEF TypeInv, ConnType
  <2>3. \A d \in Client : phase'[d] = "open" <=> \E e \in Fd : conn'[e] = d
    BY <1>a, <1>b, NullAssumption DEF TypeInv, ConnType
  <2> QED
    BY <1>a, <2>1, <2>2, <2>3, NullAssumption DEF TypeInv, ConnType
<1>d. Onward
  BY <1>a, <1>b DEF Onward
<1>3. \A e \in Fd : e # fd => Tells(e)'
  BY <1>a, <1>d, TellsStays DEF TypeInv, ConnType
<1>4. Tells(fd)'
  <2>1. CASE session[fd] = NULL
    BY <1>a, <1>b, <2>1 DEF Tells
  <2>2. CASE session[fd] # NULL
    <3>1. PICK s \in Session : s = session[fd]
      BY <1>b, <2>2
    <3>2. /\ Told(s, conn[fd]) /\ s.input \in Client \cup {NULL}
          /\ s.input # NULL => phase[s.input] \notin {"new", "backlog"}
      BY <1>b, <2>2, <3>1, SessionFields DEF Tells
    <3>3. s.state \in Uploads => Carries(s)' /\ s.name \in spoilt'
      BY <1>a, <2>2, <3>1, <3>2 DEF Told, Carries, Known
    <3>4. Told(s, NULL)'
      BY <3>2, <3>3, NullAssumption DEF Told
    <3>5. s.input # NULL => phase'[s.input] \notin {"new", "backlog"}
      BY <1>a, <1>b, <3>2
    <3>6. conn'[fd] = NULL /\ session'[fd] = s
      BY <1>a, <1>b, <3>1
    <3> QED
      BY <2>2, <3>1, <3>4, <3>5, <3>6 DEF Tells
  <2> QED
    BY <2>1, <2>2
<1> QED
  BY <1>1, <1>2, <1>3, <1>4 DEF TypeInv

\* The epoll loop: dispatch, events that come again, an answer that ends.
LEMMA LoopKeepsType ==
  ASSUME TypeInv, NEW fd \in Fd, Serve(fd) \/ Again(fd) \/ SendFails(fd)
  PROVE  TypeInv'
<1>1. CASE Serve(fd)
  <2>1. NetType' /\ ConnType' /\ ReplyType' /\ FileType'
    BY <1>1, NullAssumption DEF Serve, NetType, ConnType, ReplyType, FileType, TypeInv, Pieces, files, clients
  <2>2. \A e \in Fd : Tells(e)'
    BY <1>1, TellsStays DEF Serve, clients, Onward
  <2> QED
    BY <2>1, <2>2 DEF TypeInv
<1>2. CASE SendFails(fd)
  <2>1. NetType' /\ ConnType' /\ ReplyType' /\ FileType'
    BY <1>2, NullAssumption DEF SendFails, NetType, ConnType, ReplyType, FileType, TypeInv, Pieces, files, clients
  <2>2. \A e \in Fd : Tells(e)'
    BY <1>2, TellsStays DEF SendFails, clients, Onward
  <2> QED
    BY <2>1, <2>2 DEF TypeInv
<1>4. CASE Again(fd)
  <2>0. /\ request' = request /\ conn' = conn /\ replies' = replies /\ taken' = taken /\ spoilt' = spoilt
        /\ phase' = phase /\ session' = [session EXCEPT ![fd] = Current(fd)]
        /\ conn[fd] \in Client /\ session \in [Fd -> Session \cup {NULL}]
    BY <1>4, NullAssumption DEF Again, clients, Becomes, TypeInv, ConnType, FileType
  <2>1. NetType' /\ ConnType' /\ ReplyType'
    BY <1>4, NullAssumption DEF Again, NetType, ConnType, ReplyType, TypeInv, Pieces, clients
  <2>2. Current(fd) \in Session
    BY <2>0, NewSessionType DEF Current, Known
  <2>3. FileType'
    BY <1>4, <2>0, <2>2 DEF Again, files, FileType, TypeInv
  <2>4. \A e \in Fd : e # fd => Tells(e)'
    BY <2>0, TellsStays DEF Onward
  <2>5. CASE session[fd] = NULL
    <3>1. replies[conn[fd]] = <<>>
      BY <2>0, <2>5, NullAssumption DEF TypeInv, Tells
    <3>2. session'[fd] = NewSession /\ NewSession # NULL
      BY <2>0, <2>5, NewSessionType, NothingAssumption DEF Current, Known
    <3>3. Told(NewSession, conn[fd])'
      BY <2>0, NewSessionType, NullAssumption DEF Told, Uploads
    <3>4. Tells(fd)'
      BY <2>0, <3>1, <3>2, <3>3, NewSessionType DEF Tells
    <3> QED
      BY <2>4, <3>4, <2>1, <2>3 DEF TypeInv
  <2>6. CASE session[fd] # NULL
    <3>1. session'[fd] = session[fd]
      BY <2>0, <2>6 DEF Current, Known
    <3> QED
      BY <2>0, <2>4, <3>1, <2>1, <2>3, TellsStays DEF TypeInv, Onward
  <2> QED
    BY <2>5, <2>6
<1> QED
  BY <1>1, <1>2, <1>4


------------------------------------------------------------------------------
(* A request is processed.                                                  *)

\* A client that had no answer has one.
Answered(c) == replies[c] = <<>> /\ \E r : replies' = [replies EXCEPT ![c] = <<r>>]

\* The one answer of a client without answers, and that it was given now.
LEMMA AnswersFirst ==
  ASSUME NEW c, replies[c] = <<>>, NEW status, NEW body, Answers(c, status, body)
  PROVE  /\ replies' = [replies EXCEPT ![c] = << [status |-> status, body |-> body] >>]
         /\ Answered(c)
<1>1. Append(<<>>, [status |-> status, body |-> body]) = << [status |-> status, body |-> body] >>
  OBVIOUS
<1>2. replies' = [replies EXCEPT ![c] = << [status |-> status, body |-> body] >>]
  BY <1>1 DEF Answers
<1> QED
  BY <1>2 DEF Answered

\* The session that receives, and its client.
LEMMA ReceiverReads ==
  ASSUME TypeInv, NEW fd \in Fd, NEW state, Receives(fd, state)
  PROVE  /\ conn[fd] \in Client /\ request[conn[fd]] \in Request
         /\ sent[conn[fd]] \in Nat /\ taken[conn[fd]] \in Nat /\ taken[conn[fd]] < sent[conn[fd]]
         /\ Current(fd) \in Session /\ Told(Current(fd), conn[fd])
         /\ Current(fd).state = state
         /\ state \in Reading => replies[conn[fd]] = <<>>
         /\ state # "READING_HEADER" => session[fd] = Current(fd) /\ session[fd] # NULL
<1>1. conn[fd] \in Client /\ request[conn[fd]] \in Request /\ Current(fd).state = state
  BY NullAssumption DEF Receives, TypeInv, ConnType, NetType
<1>2. sent[conn[fd]] \in Nat /\ taken[conn[fd]] \in Nat /\ taken[conn[fd]] < sent[conn[fd]]
  BY <1>1 DEF Receives, TypeInv, NetType
<1>3. CASE session[fd] = NULL
  <2>1. Current(fd) = NewSession
    BY <1>3 DEF Current, Known
  <2>2. Told(NewSession, conn[fd])
    BY <1>1, NewSessionType, NullAssumption DEF Told, Uploads
  <2>3. replies[conn[fd]] = <<>>
    BY <1>1, <1>3, NullAssumption DEF TypeInv, Tells
  <2> QED
    BY <1>1, <1>2, <2>1, <2>2, <2>3, NewSessionType
<1>4. CASE session[fd] # NULL
  <2>1. Current(fd) = session[fd]
    BY <1>4 DEF Current, Known
  <2> QED
    BY <1>1, <1>2, <1>4, <2>1, NullAssumption DEF TypeInv, Tells, FileType
<1> QED
  BY <1>3, <1>4

\* Whose request begins the input once the session has received.
LEMMA InputFields ==
  ASSUME NEW fd, Current(fd) \in Session, conn[fd] \in Client
  PROVE  /\ Input(fd) \in Session
         /\ Input(fd).input \in Client \cap {conn[fd], Current(fd).input}
         /\ Own(fd) => Input(fd).input = conn[fd]
         /\ ~ Own(fd) => Input(fd) = Current(fd) /\ Current(fd).input # conn[fd]
         /\ Input(fd).state = Current(fd).state
         /\ Input(fd).flushed = Current(fd).flushed /\ Input(fd).written = Current(fd).written
<1>1. PICK s \in Session : s = Current(fd)
  OBVIOUS
<1>2. s.input \in Client \cup {NULL}
  BY SessionFields
<1>3. CASE s.input = NULL
  <2>1. Input(fd) = [s EXCEPT !.input = conn[fd]]
    BY <1>1, <1>3 DEF Input
  <2> QED
    BY <1>1, <1>3, <2>1 DEF Session, Own
<1>4. CASE s.input # NULL
  <2>1. Input(fd) = s
    BY <1>1, <1>4 DEF Input
  <2> QED
    BY <1>1, <1>2, <1>4, <2>1 DEF Own
<1> QED
  BY <1>3, <1>4

\* recv took all that had come: what this changes, whatever state it found.
LEMMA ReceivesKeepsNet ==
  ASSUME TypeInv, NEW fd \in Fd, NEW state, Receives(fd, state),
         NEW s \in Session, Becomes(fd, s),
         NEW c, c = conn[fd],
         replies' = replies \/ Answered(c),
         s.input \in {c, Current(fd).input}, Told(s, c)',
         s.state \in Reading => replies' = replies /\ replies[c] = <<>>,
         sending' \in {NULL, fd}, FileType'
  PROVE  TypeInv'
<1>1. /\ c \in Client /\ serving = fd /\ phase[c] = "open"
      /\ taken' = [taken EXCEPT ![c] = sent[c]] /\ sent[c] > taken[c]
      /\ UNCHANGED <<clients, conn, ready, serving, spoilt>>
  BY NullAssumption DEF Receives, TypeInv, ConnType
<1>2. NetType' /\ ConnType'
  BY <1>1 DEF NetType, ConnType, TypeInv, clients, Pieces
<1>3. /\ DOMAIN replies' = Client
      /\ \A d \in Client : d # c => replies'[d] = replies[d]
      /\ replies[c] # <<>> => replies'[c] # <<>>
  <2>1. CASE replies' = replies
    BY <2>1 DEF TypeInv, ReplyType
  <2>2. CASE Answered(c)
    <3>1. PICK r : replies' = [replies EXCEPT ![c] = <<r>>]
      BY <2>2 DEF Answered
    <3> QED
      BY <3>1, <1>1 DEF TypeInv, ReplyType
  <2> QED
    BY <2>1, <2>2
<1>4. ReplyType'
  BY <1>1, <1>3 DEF ReplyType, TypeInv, clients
<1>5. ASSUME NEW e \in Fd, e # fd
      PROVE  Tells(e)'
  <2>1. /\ session'[e] = session[e] /\ conn'[e] = conn[e] /\ request' = request /\ Onward
        /\ spoilt \subseteq spoilt'
    BY <1>1, <1>5 DEF Becomes, TypeInv, FileType, clients, Onward
  <2>2. conn[e] \in Client => conn[e] # c
    BY <1>1, <1>5 DEF TypeInv, ConnType
  <2>3. conn[e] \in Client => replies'[conn[e]] = replies[conn[e]] /\ taken'[conn[e]] = taken[conn[e]]
    BY <1>1, <1>3, <2>2 DEF TypeInv, NetType
  <2> QED
    BY <2>1, <2>3, TellsStays
<1>6. Tells(fd)'
  <2>1. session'[fd] = s /\ conn'[fd] = c /\ s # NULL
    BY <1>1, NothingAssumption DEF Becomes, TypeInv, FileType
  <2>2. s.input # NULL => phase'[s.input] \notin {"new", "backlog"}
    <3>1. CASE s.input = c
      BY <1>1, <3>1 DEF clients
    <3>2. CASE s.input = Current(fd).input /\ session[fd] = NULL
      BY <3>2, NewSessionType DEF Current, Known
    <3>3. CASE s.input = Current(fd).input /\ session[fd] # NULL
      BY <1>1, <3>3 DEF Current, Known, TypeInv, Tells, clients
    <3> QED
      BY <3>1, <3>2, <3>3
  <2> QED
    BY <2>1, <2>2 DEF Tells
<1> QED
  BY <1>2, <1>4, <1>5, <1>6 DEF TypeInv

\* Pieces of a client's request, as data.
LEMMA DataType ==
  ASSUME NEW c \in Client, NEW from \in Nat, NEW to \in Nat, from <= to
  PROVE  Data(c, from, to) \in Seq(Client \X Int) /\ Len(Data(c, from, to)) = to - from
<1>1. \A i \in 1 .. to - from : <<c, from + i - SIZE>> \in Client \X Int
  BY DEF SIZE
<1> QED
  BY <1>1 DEF Data

\* What follows the size of a PUT are the blocks from the first on, and what
\* follows so many blocks are the next ones.
LEMMA DataBlocks ==
  ASSUME NEW c, NEW j \in Nat, NEW k \in Nat, j <= k
  PROVE  /\ Data(c, SIZE, SIZE + k) = Blocks(c, k)
         /\ Blocks(c, j) \o Data(c, SIZE + j, SIZE + k) = Blocks(c, k)
         /\ Len(Blocks(c, k)) = k
<1>1. Data(c, SIZE, SIZE + k) = Blocks(c, k)
  BY DEF Data, Blocks, SIZE
<1>2. Len(Blocks(c, j)) = j /\ \A i \in 1 .. j : Blocks(c, j)[i] = <<c, i>>
  BY DEF Blocks
<1>3. /\ Len(Data(c, SIZE + j, SIZE + k)) = k - j
      /\ \A i \in 1 .. k - j : Data(c, SIZE + j, SIZE + k)[i] = <<c, i + j>>
  BY DEF Data, SIZE
<1>4. Blocks(c, j) \in Seq({c} \X Nat) /\ Data(c, SIZE + j, SIZE + k) \in Seq({c} \X Nat)
  BY DEF Blocks, Data, SIZE
<1>5. PICK p \in Seq({c} \X Nat) : p = Blocks(c, j)
  BY <1>4
<1>6. PICK q \in Seq({c} \X Nat) : q = Data(c, SIZE + j, SIZE + k)
  BY <1>4
<1>7. /\ Len(p) = j /\ Len(q) = k - j
      /\ \A i \in 1 .. j : p[i] = <<c, i>>
      /\ \A i \in 1 .. k - j : q[i] = <<c, i + j>>
  <2>1. Len(p) = j /\ \A i \in 1 .. j : p[i] = <<c, i>>
    BY <1>2, <1>5
  <2>2. Len(q) = k - j /\ \A i \in 1 .. k - j : q[i] = <<c, i + j>>
    BY <1>3, <1>6
  <2> QED
    BY <2>1, <2>2
<1>8. PICK r \in Seq({c} \X Nat) : r = p \o q
  BY ConcatProperties
<1>9. Len(r) = k /\ \A i \in 1 .. k : r[i] = IF i <= j THEN p[i] ELSE q[i - j]
  <2>1. /\ Len(r) = Len(p) + Len(q)
        /\ \A i \in 1 .. Len(p) + Len(q) : r[i] = IF i <= Len(p) THEN p[i] ELSE q[i - Len(p)]
    BY <1>8, ConcatProperties, Zenon
  <2>2. Len(p) = j /\ Len(q) = k - j
    BY <1>7
  <2>3. Len(p) + Len(q) = k
    BY <2>2
  <2> QED
    BY <2>1, <2>2, <2>3, Zenon
<1>10. r = Blocks(c, k)
  <2>1. ASSUME NEW i \in 1 .. k
        PROVE  r[i] = <<c, i>>
    <3>1. CASE i <= j
      BY <1>7, <1>9, <3>1
    <3>2. CASE ~ i <= j
      <4>1. i - j \in 1 .. k - j /\ i - j + j = i
        BY <3>2
      <4> QED
        BY <1>7, <1>9, <3>2, <4>1
    <3> QED
      BY <3>1, <3>2
  <2>2. r = [i \in 1 .. k |-> r[i]]
    BY <1>9
  <2> QED
    BY <2>1, <2>2 DEF Blocks
<1>11. Len(Blocks(c, k)) = k
  BY DEF Blocks
<1> QED
  BY <1>1, <1>5, <1>6, <1>8, <1>10, <1>11

\* A call of the handler that leaves the files alone and answers, or reads on.
LEMMA HandlerKeepsType ==
  ASSUME TypeInv, NEW fd \in Fd, NEW state, Receives(fd, state),
         NEW s \in Session, Becomes(fd, s), s.input \in {conn[fd], Current(fd).input},
         s.flushed <= s.written, s.state \notin Uploads,
         replies' = replies \/ (s.state \notin Reading /\ Answered(conn[fd])),
         s.state \in Reading => state \in Reading,
         sending' \in {NULL, fd}, UNCHANGED files
  PROVE  TypeInv'
<1>1. FileType'
  <2>1. session' \in [Fd -> Session \cup {NULL}]
    BY DEF Becomes, TypeInv, FileType
  <2> QED
    BY <2>1 DEF FileType, TypeInv, files, Receives, clients
<1>2. PICK c : c = conn[fd]
  OBVIOUS
<1>3. Told(s, c)'
  BY DEF Told, Counts, Uploads
<1>4. s.state \in Reading => replies' = replies /\ replies[c] = <<>>
  BY <1>2, ReceiverReads
<1>5. (replies' = replies \/ Answered(c)) /\ s.input \in {c, Current(fd).input}
  BY <1>2
<1> QED
  BY <1>1, <1>2, <1>3, <1>4, <1>5, ReceivesKeepsNet

\* Opening the file of a PUT, the client's own or one that was left behind.
LEMMA OpensKeepsType ==
  ASSUME TypeInv, NEW fd \in Fd, NEW state \in {"READING_HEADER", "READING_PUT_SIZE"},
         Receives(fd, state), UNCHANGED <<replies, sending>>,
         NEW size \in Int, NEW data \in Seq(Client \X Int), Opens(fd, size, data),
         NEW g \in Client, g = Input(fd).input, request[g].verb = "PUT",
         g # conn[fd] => request[g].name \in spoilt,
         g = conn[fd] => /\ size = request[g].size /\ taken'[g] = SIZE + Len(data)
                         /\ data = Blocks(g, Len(data))
  PROVE  TypeInv'
<1>1. PICK c \in Client : c = conn[fd] /\ replies[c] = <<>> /\ Current(fd) \in Session
  BY ReceiverReads DEF Reading
<1>2. /\ g \in {c, Current(fd).input} /\ sending' \in {NULL, fd}
      /\ UNCHANGED <<request, spoilt>>
  <2>1. Input(fd).input \in Client \cap {conn[fd], Current(fd).input}
    BY <1>1, InputFields
  <2> QED
    BY <1>1, <2>1 DEF Receives, clients
<1>3. PICK n \in Name : n = request[g].name
  BY PutFields DEF TypeInv, NetType
<1>4. disk[n] \in Client \cup {NULL}
  BY DEF TypeInv, FileType
<1>5. PICK f \in Client : f = IF disk[n] = NULL THEN g ELSE disk[n]
  BY <1>4
<1>6. request[f].name = n
  BY <1>3, <1>5, NullAssumption DEF TypeInv, FileType
<1>7. PICK k \in 0 .. Len(data) : /\ Becomes(fd, Uploading(g, size, f, data, k))
                                  /\ inode' = [inode EXCEPT ![f] = Written(<<>>, 0, k, data)]
  BY <1>3, <1>5 DEF Opens
<1>8. PICK s : s = Uploading(g, size, f, data, k)
  OBVIOUS
<1>9. /\ s.state = "READING_PUT_DATA" /\ s.input = g /\ s.name = n /\ s.size = size
      /\ s.file = f /\ s.data = data /\ s.written = Len(data) /\ s.flushed = k
  BY <1>3, <1>8 DEF Uploading
<1>10. s \in Session /\ s.flushed <= s.written
  <2>1. Len(data) \in Nat /\ k \in Nat /\ k <= Len(data)
    BY <1>7, LenProperties
  <2>2. s \in Session
    BY <1>3, <1>8, <2>1 DEF Uploading, Session, State
  <2> QED
    BY <1>9, <2>1, <2>2
<1>11. Told(s, c)'
  <2>1. Carries(s)'
    BY <1>2, <1>3, <1>6, <1>9 DEF Carries
  <2>2. g = c => Counts(s, c)'
    BY <1>1, <1>2, <1>9 DEF Counts
  <2>3. g # c => s.name \in spoilt'
    BY <1>1, <1>2, <1>3, <1>9
  <2> QED
    BY <1>9, <1>10, <2>1, <2>2, <2>3 DEF Told
<1>12. FileType'
  <2>1. session' \in [Fd -> Session \cup {NULL}]
    BY <1>7, <1>8, <1>10 DEF Becomes, FileType, TypeInv
  <2>2. /\ disk' = [disk EXCEPT ![n] = f]
        /\ \E v : before' = [before EXCEPT ![n] = v]
        /\ directory' = directory
    BY <1>3, <1>5 DEF Opens
  <2>3. DOMAIN inode' = Client /\ DOMAIN before' = Name /\ spoilt' \subseteq Name
    BY <1>2, <1>7, <2>2 DEF FileType, TypeInv
  <2>4. \A m \in Name : disk'[m] # NULL => request'[disk'[m]].name = m
    BY <1>2, <1>6, <2>2 DEF FileType, TypeInv
  <2>5. disk' \in [Name -> Client \cup {NULL}] /\ directory' \subseteq Name
    BY <2>2 DEF FileType, TypeInv
  <2> QED
    BY <2>1, <2>3, <2>4, <2>5 DEF FileType
<1>13. Becomes(fd, s) /\ s.input \in {c, Current(fd).input}
  BY <1>2, <1>7, <1>8, <1>9
<1>14. s.state \in Reading => replies' = replies /\ replies[c] = <<>>
  BY <1>1
<1> QED
  BY <1>1, <1>2, <1>10, <1>11, <1>12, <1>13, <1>14, ReceivesKeepsNet

\* The client's own PUT: what follows the size is the beginning of its file.
LEMMA OwnData ==
  ASSUME TypeInv, NEW fd \in Fd, NEW state, Receives(fd, state),
         sent[conn[fd]] >= SIZE
  PROVE  /\ Data(conn[fd], SIZE, sent[conn[fd]]) \in Seq(Client \X Int)
         /\ taken'[conn[fd]] = SIZE + Len(Data(conn[fd], SIZE, sent[conn[fd]]))
         /\ Data(conn[fd], SIZE, sent[conn[fd]])
              = Blocks(conn[fd], Len(Data(conn[fd], SIZE, sent[conn[fd]])))
<1>1. PICK c \in Client : c = conn[fd] /\ sent[c] \in Nat
  BY ReceiverReads
<1>2. PICK w \in Nat : sent[c] = SIZE + w
  <2>1. sent[c] - SIZE \in Nat /\ sent[c] = SIZE + (sent[c] - SIZE)
    BY <1>1 DEF SIZE
  <2> QED
    BY <2>1
<1>3. Data(c, SIZE, sent[c]) = Blocks(c, w) /\ Len(Blocks(c, w)) = w
  <2>1. w <= w
    OBVIOUS
  <2> QED
    BY <1>2, <2>1, DataBlocks
<1>4. Data(c, SIZE, sent[c]) \in Seq(Client \X Int)
  BY <1>1, <1>2, DataType DEF SIZE
<1>5. taken'[c] = sent[c]
  BY <1>1 DEF Receives, TypeInv, NetType
<1> QED
  BY <1>1, <1>2, <1>3, <1>4, <1>5

\* An upload whose session began with the client that is served now.
LEMMA OpensOwnKeepsType ==
  ASSUME TypeInv, NEW fd \in Fd, NEW state \in {"READING_HEADER", "READING_PUT_SIZE"},
         Receives(fd, state), UNCHANGED <<replies, sending>>, Own(fd),
         request[conn[fd]].verb = "PUT", sent[conn[fd]] >= SIZE, OpensOwn(fd)
  PROVE  TypeInv'
<1>1. PICK c \in Client : c = conn[fd]
  BY ReceiverReads
<1>2. Input(fd).input = c
  BY <1>1, InputFields, ReceiverReads
<1>3. PICK data : data = Data(c, SIZE, sent[c])
  OBVIOUS
<1>4. PICK size \in Int : size = request[c].size
  BY <1>1, PutFields DEF TypeInv, NetType
<1>5. Opens(fd, size, data)
  BY <1>1, <1>3, <1>4 DEF OpensOwn
<1>6. data \in Seq(Client \X Int) /\ taken'[c] = SIZE + Len(data) /\ data = Blocks(c, Len(data))
  BY <1>1, <1>3, OwnData
<1> QED
  BY <1>1, <1>2, <1>4, <1>5, <1>6, OpensKeepsType

\* The session that reads a size of its own client's request.
LEMMA OwnSize ==
  ASSUME TypeInv, NEW fd \in Fd, Receives(fd, "READING_PUT_SIZE"), Own(fd)
  PROVE  request[conn[fd]].verb = "PUT" /\ sent[conn[fd]] >= SIZE
<1>1. PICK s \in Session : s = Current(fd)
  BY ReceiverReads
<1>2. PICK c \in Client : c = conn[fd]
  BY ReceiverReads
<1>3. Told(s, c) /\ s.state = "READING_PUT_SIZE" /\ taken[c] < sent[c] /\ sent[c] \in Nat /\ taken[c] \in Nat
  BY <1>1, <1>2, ReceiverReads
<1>4. Carries(s)
  BY <1>3 DEF Told, Uploads
<1>5. s.input = c
  BY <1>1, <1>2, <1>4, NullAssumption DEF Carries, Own
<1>6. taken[c] >= HEADER
  BY <1>3, <1>5 DEF Told, Reading, Counts
<1>7. sent[c] >= SIZE
  BY <1>3, <1>6 DEF HEADER, SIZE
<1> QED
  BY <1>2, <1>4, <1>5, <1>7 DEF Carries

\* The session that another client left behind in the middle of an upload.
LEMMA LeftBehind ==
  ASSUME TypeInv, NEW fd \in Fd, NEW state \in Uploads, Receives(fd, state), ~ Own(fd)
  PROVE  /\ Input(fd) = session[fd] /\ Carries(session[fd])
         /\ session[fd].input # conn[fd] /\ session[fd].name \in spoilt
<1>1. /\ Told(Current(fd), conn[fd]) /\ Current(fd).state = state /\ session[fd] = Current(fd)
      /\ Input(fd) = Current(fd) /\ Current(fd).input # conn[fd]
  BY ReceiverReads, InputFields DEF Uploads
<1> QED
  BY <1>1 DEF Told

\* What recv took is counted, and put behind what came before.
LEMMA PutDataFields ==
  ASSUME TypeInv, NEW fd \in Fd, PutData(fd)
  PROVE  \E c \in Client, s0 \in Session, w \in Nat, data \in Seq(Client \X Int), k \in Nat :
           /\ c = conn[fd] /\ s0 = session[fd] /\ session[fd] # NULL /\ replies[c] = <<>>
           /\ s0.state = "READING_PUT_DATA" /\ Told(s0, c) /\ Carries(s0)
           /\ s0.flushed <= k /\ k <= w
           /\ s0.input = c => /\ taken'[c] = SIZE + w /\ s0.data = Blocks(c, s0.written)
                              /\ data = Blocks(c, w) /\ s0.written <= w
           /\ inode' = [inode EXCEPT ![s0.file] = Written(inode[s0.file], s0.flushed, k, data)]
           /\ Becomes(fd, [s0 EXCEPT !.data = data, !.written = w, !.flushed = k])
<1>1. Receives(fd, "READING_PUT_DATA")
  BY DEF PutData
<1>2. PICK c \in Client : c = conn[fd]
  BY <1>1, ReceiverReads
<1>3. PICK s0 \in Session : s0 = session[fd] /\ session[fd] # NULL /\ s0 = Current(fd)
  BY <1>1, ReceiverReads
<1>4. replies[c] = <<>> /\ s0.state = "READING_PUT_DATA" /\ Told(s0, c)
  BY <1>1, <1>2, <1>3, ReceiverReads DEF Reading
<1>a. sent[c] \in Nat /\ taken[c] \in Nat /\ taken[c] < sent[c] /\ taken[c] <= sent[c]
  <2>1. sent[c] \in Nat /\ taken[c] \in Nat /\ taken[c] < sent[c]
    BY <1>1, <1>2, ReceiverReads
  <2> QED
    BY <2>1
<1>5. s0.written \in Nat /\ s0.flushed \in Nat /\ s0.flushed <= s0.written /\ s0.data \in Seq(Client \X Int)
  BY <1>4, SessionFields DEF Told
<1>6. Carries(s0)
  BY <1>4 DEF Told, Uploads
<1>7. PICK w \in Nat : w = s0.written + sent[c] - taken[c]
  BY <1>a, <1>5
<1>8. Data(c, taken[c], sent[c]) \in Seq(Client \X Int)
  BY <1>a, DataType
<1>9. PICK data \in Seq(Client \X Int) : data = s0.data \o Data(c, taken[c], sent[c])
  BY <1>5, <1>8, ConcatProperties
<1>10. PICK k \in s0.flushed .. w :
         /\ inode' = [inode EXCEPT ![s0.file] = Written(inode[s0.file], s0.flushed, k, data)]
         /\ Becomes(fd, [s0 EXCEPT !.data = data, !.written = w, !.flushed = k])
  BY <1>2, <1>3, <1>7, <1>9 DEF PutData
<1>11. k \in Nat /\ s0.flushed <= k /\ k <= w
  BY <1>5, <1>7, <1>10
<1>12. ASSUME s0.input = c
       PROVE  /\ taken'[c] = SIZE + w /\ s0.data = Blocks(c, s0.written)
              /\ data = Blocks(c, w) /\ s0.written <= w
  <2>1. taken[c] = SIZE + s0.written /\ s0.data = Blocks(c, s0.written)
    BY <1>4, <1>12 DEF Told, Reading, Counts
  <2>2. sent[c] = SIZE + w /\ s0.written <= w
    <3>1. PICK x \in Nat, y \in Nat, z \in Nat :
            x = s0.written /\ y = sent[c] /\ z = taken[c] /\ z <= y
      BY <1>a, <1>5
    <3>2. w = x + y - z
      BY <1>7, <3>1
    <3>3. z = 4 + x
      BY <2>1, <3>1 DEF SIZE
    <3>4. y = 4 + w /\ x <= w
      BY <3>1, <3>2, <3>3
    <3> QED
      BY <3>1, <3>4 DEF SIZE
  <2>3. taken'[c] = sent[c]
    BY <1>1, <1>2 DEF Receives, TypeInv, NetType
  <2>4. data = Blocks(c, w)
    BY <1>5, <1>9, <2>1, <2>2, DataBlocks
  <2> QED
    BY <2>1, <2>2, <2>3, <2>4
<1> QED
  BY <1>2, <1>3, <1>4, <1>6, <1>10, <1>11, <1>12

\* More data for a file that is open.
LEMMA PutDataKeepsType ==
  ASSUME TypeInv, NEW fd \in Fd, PutData(fd)
  PROVE  TypeInv'
<1>1. PICK c \in Client, s0 \in Session, w \in Nat, data \in Seq(Client \X Int), k \in Nat :
        /\ c = conn[fd] /\ s0 = session[fd] /\ session[fd] # NULL /\ replies[c] = <<>>
        /\ s0.state = "READING_PUT_DATA" /\ Told(s0, c) /\ Carries(s0)
        /\ s0.flushed <= k /\ k <= w
        /\ s0.input = c => /\ taken'[c] = SIZE + w /\ s0.data = Blocks(c, s0.written)
                           /\ data = Blocks(c, w) /\ s0.written <= w
        /\ inode' = [inode EXCEPT ![s0.file] = Written(inode[s0.file], s0.flushed, k, data)]
        /\ Becomes(fd, [s0 EXCEPT !.data = data, !.written = w, !.flushed = k])
  BY PutDataFields
<1>2. /\ Receives(fd, "READING_PUT_DATA") /\ UNCHANGED <<replies, sending, directory, disk, before>>
      /\ UNCHANGED <<request, spoilt>> /\ sending' = NULL
  BY DEF PutData, Receives, clients
<1>3. PICK s : s = [s0 EXCEPT !.data = data, !.written = w, !.flushed = k]
  OBVIOUS
<1>4. /\ s \in Session /\ s.written = w /\ s.flushed = k /\ s.data = data
      /\ s.state = s0.state /\ s.name = s0.name /\ s.size = s0.size /\ s.file = s0.file
      /\ s.input = s0.input
  BY <1>3 DEF Session
<1>5. Told(s, c)'
  <2>1. Carries(s)'
    BY <1>1, <1>2, <1>4 DEF Carries
  <2>2. s.input = c => Counts(s, c)'
    BY <1>1, <1>2, <1>4 DEF Counts, Told, Reading
  <2>3. s.input # c => s.name \in spoilt'
    BY <1>1, <1>2, <1>4 DEF Told, Uploads
  <2> QED
    BY <1>1, <1>4, <2>1, <2>2, <2>3 DEF Told
<1>6. FileType'
  BY <1>1, <1>2, <1>3, <1>4 DEF Becomes, FileType, TypeInv
<1>7. /\ Becomes(fd, s) /\ s.input \in {c, Current(fd).input}
      /\ s.state \in Reading => replies' = replies /\ replies[c] = <<>>
  BY <1>1, <1>2, <1>3, <1>4 DEF Current, Known
<1> QED
  BY <1>1, <1>2, <1>4, <1>5, <1>6, <1>7, ReceivesKeepsNet

\* A header that is refused, and an answer that needs no file changed.
LEMMA RefusesKeepsType ==
  ASSUME TypeInv, NEW fd \in Fd, Receives(fd, "READING_HEADER"), Refuses(fd)
  PROVE  TypeInv'
<1>1. /\ conn[fd] \in Client /\ replies[conn[fd]] = <<>> /\ Current(fd) \in Session
      /\ Current(fd).flushed <= Current(fd).written
  BY ReceiverReads DEF Reading, Told
<1>2. Answered(conn[fd])
  BY <1>1, AnswersFirst DEF Refuses
<1>a. PICK i \in Session : i = Input(fd) /\ i.input \in {conn[fd], Current(fd).input} /\ i.flushed <= i.written
  BY <1>1, InputFields
<1>3. PICK s : s = [i EXCEPT !.state = "DONE"]
  OBVIOUS
<1>4. /\ s \in Session /\ s.state = "DONE" /\ s.input \in {conn[fd], Current(fd).input}
      /\ s.flushed <= s.written
  <2>1. "DONE" \in State
    BY DEF State
  <2>2. s \in Session /\ s.state = "DONE" /\ s.input = i.input /\ s.flushed = i.flushed /\ s.written = i.written
    BY <1>3, <2>1, SessionBecomes
  <2> QED
    BY <1>a, <2>2
<1>5. sending' \in {NULL, fd} /\ Becomes(fd, s) /\ UNCHANGED files
  BY <1>a, <1>3 DEF Refuses, Receives
<1> QED
  BY <1>1, <1>2, <1>4, <1>5, HandlerKeepsType DEF Reading, Uploads

\* A header is parsed and answered.
LEMMA HeaderKeepsType ==
  ASSUME TypeInv, NEW fd \in Fd, Get(fd) \/ List(fd) \/ Delete(fd)
  PROVE  TypeInv'
<1>1. PICK state \in {"DONE", "SENDING_GET"} :
        /\ Receives(fd, "READING_HEADER") /\ \E status, body : Answers(conn[fd], status, body)
        /\ Becomes(fd, [Input(fd) EXCEPT !.state = state])
  <2>1. CASE Get(fd)
    BY <2>1 DEF Get, Parses
  <2>2. CASE List(fd)
    BY <2>2 DEF List, Parses
  <2>3. CASE Delete(fd)
    BY <2>3 DEF Delete, Parses
  <2> QED
    BY <2>1, <2>2, <2>3
<1>2. /\ conn[fd] \in Client /\ replies[conn[fd]] = <<>> /\ Current(fd) \in Session
      /\ Current(fd).flushed <= Current(fd).written
  BY <1>1, ReceiverReads DEF Reading, Told
<1>3. Answered(conn[fd])
  BY <1>1, <1>2, AnswersFirst
<1>a. PICK i \in Session : i = Input(fd) /\ i.input \in {conn[fd], Current(fd).input} /\ i.flushed <= i.written
  BY <1>2, InputFields
<1>4. PICK s : s = [i EXCEPT !.state = state]
  OBVIOUS
<1>5. /\ s \in Session /\ s.state = state /\ s.input \in {conn[fd], Current(fd).input}
      /\ s.flushed <= s.written
  <2>1. state \in State
    BY DEF State
  <2>2. s \in Session /\ s.state = state /\ s.input = i.input /\ s.flushed = i.flushed /\ s.written = i.written
    BY <1>4, <2>1, SessionBecomes
  <2> QED
    BY <1>a, <2>2
<1>6. sending' \in {NULL, fd} /\ Becomes(fd, s)
  BY <1>1, <1>a, <1>4 DEF Get, List, Delete, Receives, Delivers
<1>7. FileType'
  <2>1. session' \in [Fd -> Session \cup {NULL}]
    BY <1>5, <1>6 DEF Becomes, TypeInv, FileType
  <2>2. /\ UNCHANGED <<inode, before, request, spoilt>> /\ directory' \subseteq directory
        /\ disk' = disk \/ \E n : disk' = [disk EXCEPT ![n] = NULL]
    BY <1>1 DEF Get, List, Delete, files, Receives, clients
  <2> QED
    BY <2>1, <2>2 DEF FileType, TypeInv
<1>8. s.state \notin Reading
  BY <1>5 DEF Reading
<1>9. PICK c : c = conn[fd]
  OBVIOUS
<1>10. Told(s, c)'
  BY <1>5 DEF Told, Uploads, Reading
<1>11. /\ Told(s, c)' /\ s.input \in {c, Current(fd).input}
       /\ s.state \in Reading => replies' = replies /\ replies[c] = <<>>
  BY <1>5, <1>8, <1>9, <1>10
<1>12. replies' = replies \/ Answered(c)
  BY <1>3, <1>9
<1>13. Receives(fd, "READING_HEADER") /\ s \in Session
  BY <1>1, <1>5
<1> QED
  BY <1>6, <1>7, <1>9, <1>11, <1>12, <1>13, ReceivesKeepsNet

\* A call of the handler of a session, whatever state it is in.
LEMMA ProcessKeepsType ==
  ASSUME TypeInv, NEW fd \in Fd, Process(fd)
  PROVE  TypeInv'
<1>1. CASE HeaderBegins(fd)
  <2>1. /\ Receives(fd, "READING_HEADER") /\ Becomes(fd, Input(fd))
        /\ UNCHANGED <<replies, sending, files>> /\ sending' = NULL
    BY <1>1 DEF HeaderBegins, Receives
  <2>2. /\ Current(fd) \in Session /\ Current(fd).flushed <= Current(fd).written
        /\ Current(fd).state = "READING_HEADER" /\ conn[fd] \in Client
    BY <2>1, ReceiverReads DEF Told
  <2>3. PICK s \in Session : s = Input(fd)
    BY <2>2, InputFields
  <2>4. /\ s.state = "READING_HEADER" /\ s.flushed <= s.written
        /\ s.input \in {conn[fd], Current(fd).input}
    BY <2>2, <2>3, InputFields
  <2> QED
    BY <2>1, <2>3, <2>4, HandlerKeepsType DEF Reading, Uploads
<1>2. CASE BadRequest(fd) \/ UnknownRequest(fd)
  BY <1>2, RefusesKeepsType DEF BadRequest, UnknownRequest
<1>3. ASSUME NEW state, Receives(fd, state), state \notin Uploads,
             UNCHANGED <<session, replies, sending, files>>
      PROVE  TypeInv'
  <2>1. CASE session[fd] = NULL
    <3>1. NetType' /\ ConnType' /\ ReplyType' /\ FileType'
      BY <1>3, NullAssumption DEF Receives, NetType, ConnType, ReplyType, FileType, TypeInv, Pieces, files, clients
    <3>2. \A e \in Fd : e # fd => Tells(e)'
      BY <1>3, TellsStays DEF Receives, clients, Onward, TypeInv, ConnType, NetType
    <3>3. Tells(fd)'
      BY <1>3, <2>1 DEF Receives, clients, TypeInv, Tells
    <3> QED
      BY <3>1, <3>2, <3>3 DEF TypeInv
  <2>2. CASE session[fd] # NULL
    <3>1. PICK s \in Session : s = session[fd] /\ s = Current(fd)
      BY <1>3, <2>2, ReceiverReads DEF Current, Known
    <3>2. s.state = state /\ s.flushed <= s.written
      BY <1>3, <3>1, ReceiverReads DEF Told
    <3>3. Becomes(fd, s)
      BY <1>3, <3>1 DEF Becomes, TypeInv, FileType
    <3>4. sending' \in {NULL, fd}
      BY <1>3 DEF Receives
    <3> QED
      BY <1>3, <3>1, <3>2, <3>3, <3>4, HandlerKeepsType
  <2> QED
    BY <2>1, <2>2
<1>4. CASE JoinedRequest(fd)
  BY <1>3, <1>4, RefusesKeepsType DEF JoinedRequest, Uploads
<1>5. CASE Ignore(fd)
  BY <1>3, <1>5 DEF Ignore, Uploads
<1>6. CASE Get(fd) \/ List(fd) \/ Delete(fd)
  BY <1>6, HeaderKeepsType
<1>7. CASE StartPut(fd)
  <2>1. /\ Receives(fd, "READING_HEADER") /\ Own(fd) /\ request[conn[fd]].verb = "PUT"
        /\ sent[conn[fd]] >= HEADER /\ UNCHANGED <<replies, sending>>
    BY <1>7 DEF StartPut, Parses
  <2>2. CASE sent[conn[fd]] >= SIZE
    BY <1>7, <2>1, <2>2, OpensOwnKeepsType DEF StartPut
  <2>3. CASE ~ sent[conn[fd]] >= SIZE
    <3>1. PICK c \in Client : c = conn[fd] /\ replies[c] = <<>> /\ request[c] \in Request
      BY <2>1, ReceiverReads DEF Reading
    <3>2. /\ Current(fd) \in Session /\ Current(fd).flushed <= Current(fd).written
      BY <2>1, ReceiverReads DEF Told
    <3>3. PICK i \in Session : i = Input(fd)
      BY <3>1, <3>2, InputFields
    <3>4. i.input = c /\ i.flushed <= i.written
      BY <2>1, <3>1, <3>2, <3>3, InputFields
    <3>5. PICK n \in Name : n = request[c].name
      BY <2>1, <3>1, PutFields
    <3>6. PICK s : s = [i EXCEPT !.state = "READING_PUT_SIZE", !.name = n]
      OBVIOUS
    <3>7. /\ s \in Session /\ s.state = "READING_PUT_SIZE" /\ s.name = n /\ s.input = c
          /\ s.flushed <= s.written
      BY <3>4, <3>6 DEF Session, State
    <3>8. Becomes(fd, s) /\ UNCHANGED files
      BY <1>7, <2>3, <3>1, <3>3, <3>5, <3>6 DEF StartPut
    <3>9. taken'[c] >= HEADER /\ request' = request /\ sending' = NULL
      BY <2>1, <3>1 DEF Receives, TypeInv, NetType, clients
    <3>10. Told(s, c)'
      BY <2>1, <3>1, <3>5, <3>7, <3>9 DEF Told, Carries, Counts
    <3>11. FileType'
      BY <2>1, <3>7, <3>8 DEF FileType, TypeInv, Becomes, files, Receives, clients
    <3> QED
      BY <2>1, <3>1, <3>7, <3>8, <3>9, <3>10, <3>11, ReceivesKeepsNet
  <2> QED
    BY <2>2, <2>3
<1>8. CASE PutSize(fd)
  <2>1. /\ Receives(fd, "READING_PUT_SIZE") /\ Own(fd) /\ OpensOwn(fd)
        /\ UNCHANGED <<replies, sending>>
    BY <1>8 DEF PutSize
  <2> QED
    BY <2>1, OwnSize, OpensOwnKeepsType
<1>9. CASE JoinedSize(fd)
  <2>1. /\ Receives(fd, "READING_PUT_SIZE") /\ ~ Own(fd) /\ UNCHANGED <<replies, sending>>
    BY <1>9 DEF JoinedSize
  <2>2. PICK c \in Client : c = conn[fd] /\ sent[c] \in Nat /\ taken[c] \in Nat /\ taken[c] < sent[c]
    BY <2>1, ReceiverReads
  <2>3. PICK s \in Session : s = session[fd] /\ s = Current(fd) /\ session[fd] # NULL
    BY <2>1, ReceiverReads
  <2>4. Input(fd) = s /\ Carries(s) /\ s.input # c /\ s.name \in spoilt
    BY <2>1, <2>2, <2>3, LeftBehind DEF Uploads
  <2>5. CASE UNCHANGED <<session, files>>
    <3>1. /\ s.state = "READING_PUT_SIZE" /\ Told(s, c) /\ replies[c] = <<>>
      BY <2>1, <2>2, <2>3, ReceiverReads DEF Reading
    <3>2. UNCHANGED <<request, spoilt>> /\ sending' = NULL
      BY <2>1 DEF Receives, clients
    <3>3. Told(s, c)'
      BY <2>4, <3>1, <3>2 DEF Told, Carries
    <3>4. Becomes(fd, s) /\ FileType'
      BY <2>3, <2>5, <3>2 DEF Becomes, TypeInv, FileType, files
    <3> QED
      BY <2>1, <2>2, <2>3, <3>1, <3>2, <3>3, <3>4, ReceivesKeepsNet
  <2>6. CASE Opens(fd, UNREACHED, Data(c, taken[c] + 1, sent[c]))
    <3>1. PICK g \in Client : g = s.input /\ request[g].verb = "PUT" /\ s.name = request[g].name
      BY <2>4 DEF Carries
    <3>2. PICK data \in Seq(Client \X Int) : data = Data(c, taken[c] + 1, sent[c])
      <4>1. taken[c] + 1 \in Nat /\ taken[c] + 1 <= sent[c]
        BY <2>2
      <4> QED
        BY <2>2, <4>1, DataType
    <3>3. PICK size \in Int : size = UNREACHED
      BY DEF UNREACHED
    <3> QED
      BY <2>1, <2>2, <2>4, <2>6, <3>1, <3>2, <3>3, OpensKeepsType
  <2> QED
    BY <1>9, <2>2, <2>5, <2>6 DEF JoinedSize
<1>10. CASE PutData(fd)
  BY <1>10, PutDataKeepsType
<1> QED
  BY <1>1, <1>2, <1>4, <1>5, <1>6, <1>7, <1>8, <1>9, <1>10 DEF Process

------------------------------------------------------------------------------
(* A session ends, and the server stops.                                    *)

\* The session that ends, and its client.
LEMMA EnderReads ==
  ASSUME TypeInv, NEW fd \in Fd, Ends(fd)
  PROVE  /\ conn[fd] \in Client /\ request[conn[fd]] \in Request
         /\ sent[conn[fd]] = taken[conn[fd]]
         /\ Current(fd) \in Session /\ Told(Current(fd), conn[fd])
         /\ Current(fd).state \in Reading => replies[conn[fd]] = <<>>
         /\ Current(fd).state # "READING_HEADER" => session[fd] = Current(fd) /\ session[fd] # NULL
<1>1. conn[fd] \in Client /\ request[conn[fd]] \in Request /\ sent[conn[fd]] = taken[conn[fd]]
  BY NullAssumption DEF Ends, TypeInv, ConnType, NetType
<1>2. CASE session[fd] = NULL
  <2>1. Current(fd) = NewSession
    BY <1>2 DEF Current, Known
  <2>2. Told(NewSession, conn[fd])
    BY <1>1, NewSessionType, NullAssumption DEF Told, Uploads
  <2>3. replies[conn[fd]] = <<>>
    BY <1>1, <1>2, NullAssumption DEF TypeInv, Tells
  <2> QED
    BY <1>1, <2>1, <2>2, <2>3, NewSessionType
<1>3. CASE session[fd] # NULL
  <2>1. Current(fd) = session[fd]
    BY <1>3 DEF Current, Known
  <2> QED
    BY <1>1, <1>3, <2>1, NullAssumption DEF TypeInv, Tells, FileType
<1> QED
  BY <1>2, <1>3

\* The descriptor and its session go together.
LEMMA EndsKeepsNet ==
  ASSUME TypeInv, NEW fd \in Fd, Ends(fd),
         replies' = replies \/ Answered(conn[fd]), FileType'
  PROVE  TypeInv'
<1>1. PICK c \in Client : c = conn[fd]
  BY EnderReads
<1>2. /\ conn' = [conn EXCEPT ![fd] = NULL] /\ phase' = [phase EXCEPT ![c] = "closed"]
      /\ session' = [session EXCEPT ![fd] = NULL]
      /\ ready' = ready \ {fd} /\ serving' = NULL /\ sending' = NULL
      /\ UNCHANGED <<request, sent, eof, reset, taken, spoilt>>
  BY <1>1 DEF Ends, Forgotten
<1>3. NetType'
  BY <1>2 DEF NetType, TypeInv, Pieces
<1>4. ConnType'
  <2>1. conn' \in [Fd -> Client \cup {NULL}] /\ ready' \subseteq {e \in Fd : conn'[e] # NULL}
    BY <1>2 DEF ConnType, TypeInv
  <2>2. \A e, d \in Fd : conn'[e] \in Client /\ conn'[e] = conn'[d] => e = d
    BY <1>2, NullAssumption DEF ConnType, TypeInv
  <2>3. \A d \in Client : phase'[d] = "open" <=> \E e \in Fd : conn'[e] = d
    BY <1>1, <1>2, NullAssumption DEF ConnType, TypeInv, NetType
  <2> QED
    BY <1>2, <2>1, <2>2, <2>3, NullAssumption DEF ConnType
<1>5. /\ DOMAIN replies' = Client
      /\ \A d \in Client : d # c => replies'[d] = replies[d]
      /\ replies[c] # <<>> => replies'[c] # <<>>
  <2>1. CASE replies' = replies
    BY <2>1 DEF TypeInv, ReplyType
  <2>2. CASE Answered(conn[fd])
    <3>1. PICK r : replies' = [replies EXCEPT ![c] = <<r>>]
      BY <1>1, <2>2 DEF Answered
    <3> QED
      BY <3>1, <1>1 DEF TypeInv, ReplyType
  <2> QED
    BY <2>1, <2>2
<1>6. ReplyType'
  BY <1>2, <1>5 DEF ReplyType, TypeInv, NetType
<1>7. ASSUME NEW e \in Fd, e # fd
      PROVE  Tells(e)'
  <2>1. /\ session'[e] = session[e] /\ conn'[e] = conn[e] /\ spoilt \subseteq spoilt'
    BY <1>2, <1>7 DEF TypeInv, FileType, ConnType
  <2>2. Onward
    BY <1>2 DEF Onward, TypeInv, NetType
  <2>3. conn[e] \in Client => conn[e] # c
    BY <1>1, <1>7 DEF TypeInv, ConnType
  <2> QED
    BY <1>2, <1>5, <2>1, <2>2, <2>3, TellsStays
<1>8. Tells(fd)'
  BY <1>2 DEF Tells, TypeInv, ConnType, FileType
<1> QED
  BY <1>3, <1>4, <1>6, <1>7, <1>8 DEF TypeInv

\* The connection is closed and its descriptor freed.
LEMMA FinishKeepsType ==
  ASSUME TypeInv, NEW fd \in Fd, Finish(fd)
  PROVE  TypeInv'
<1>0. ASSUME Ends(fd)
      PROVE  session' \in [Fd -> Session \cup {NULL}] /\ UNCHANGED <<request, spoilt>>
  BY <1>0 DEF Ends, Forgotten, TypeInv, FileType
<1>1. CASE EndPutSize(fd)
  <2>1. Ends(fd) /\ replies[conn[fd]] = <<>> /\ Answers(conn[fd], "BAD_REQUEST", NULL)
    BY <1>1, EnderReads DEF EndPutSize, Reading
  <2>2. Answered(conn[fd])
    BY <2>1, AnswersFirst
  <2>3. FileType'
    BY <1>0, <1>1, <2>1 DEF EndPutSize, files, TypeInv, FileType
  <2> QED
    BY <2>1, <2>2, <2>3, EndsKeepsNet
<1>2. CASE EndPut(fd)
  <2>1. Ends(fd) /\ Current(fd).state = "READING_PUT_DATA"
    BY <1>2 DEF EndPut
  <2>2. PICK s \in Session : s = session[fd] /\ s = Current(fd) /\ replies[conn[fd]] = <<>>
    BY <2>1, EnderReads DEF Reading
  <2>3. Told(s, conn[fd]) /\ s.state = "READING_PUT_DATA"
    BY <2>1, <2>2, EnderReads
  <2>4. Carries(s)
    BY <2>3 DEF Told, Uploads
  <2>5. s.name \in Name
    BY <2>4, PutFields DEF Carries, TypeInv, NetType
  <2>6. \E status : Answers(conn[fd], status, NULL)
    BY <1>2 DEF EndPut
  <2>7. Answered(conn[fd])
    BY <2>2, <2>6, AnswersFirst
  <2>8. \/ directory' = directory \cup {s.name} /\ disk' = disk
        \/ Discard(s.name)
    BY <1>2, <2>2 DEF EndPut
  <2>9. DOMAIN inode' = Client /\ DOMAIN before' = Name
    BY <1>2 DEF EndPut, TypeInv, FileType
  <2>10. FileType'
    BY <1>0, <2>1, <2>5, <2>8, <2>9 DEF Discard, TypeInv, FileType
  <2> QED
    BY <2>1, <2>7, <2>10, EndsKeepsNet
<1>3. CASE EndOther(fd)
  <2>1. Ends(fd) /\ replies' = replies /\ UNCHANGED files
    BY <1>3 DEF EndOther
  <2>2. FileType'
    BY <1>0, <2>1 DEF files, TypeInv, FileType
  <2> QED
    BY <2>1, <2>2, EndsKeepsNet
<1> QED
  BY <1>1, <1>2, <1>3 DEF Finish

\* Nothing is left of a server that has stopped.
LEMMA StopKeepsType ==
  ASSUME TypeInv, Stop
  PROVE  TypeInv'
<1>1. NetType'
  BY DEF Stop, NetType, TypeInv, Pieces, Connected
<1>2. ConnType'
  BY NullAssumption DEF Stop, ConnType, TypeInv, NetType, Connected
<1>3. ReplyType' /\ FileType'
  BY DEF Stop, ReplyType, FileType, TypeInv, RemoveDirectory, NetType, Connected
<1>4. \A fd \in Fd : Tells(fd)'
  BY DEF Stop, Tells
<1> QED
  BY <1>1, <1>2, <1>3, <1>4 DEF TypeInv

\* Every step of the server, its clients and the network.
LEMMA NextKeepsType ==
  ASSUME TypeInv, [Next]_vars
  PROVE  TypeInv'
<1>1. CASE Server
  BY <1>1, AcceptKeepsType, EpollErrorKeepsType, LoopKeepsType, ProcessKeepsType, FinishKeepsType DEF Server
<1>2. CASE Network
  BY <1>2, NetworkKeepsType DEF Network
<1>3. CASE Stop
  BY <1>3, StopKeepsType
<1>4. CASE UNCHANGED vars
  <2>1. NetType' /\ ConnType' /\ ReplyType' /\ FileType'
    BY <1>4 DEF vars, clients, files, TypeInv, NetType, ConnType, ReplyType, FileType, Pieces
  <2>2. \A e \in Fd : Tells(e)'
    BY <1>4, TellsStays DEF vars, clients, Onward
  <2> QED
    BY <2>1, <2>2 DEF TypeInv
<1> QED
  BY <1>1, <1>2, <1>3, <1>4 DEF Next

\* The first invariant: types, and what sessions tell of their clients.
LEMMA SpecType == Spec => []TypeInv
<1>1. TypeInv /\ [Next]_vars => TypeInv'
  BY NextKeepsType
<1> QED
  BY InitType, <1>1, PTL DEF Spec

\* Descriptors, connections, events and sessions stay consistent, and the
\* server counts what it has received, whatever its clients do.
THEOREM TypesHold == Spec => []TypeOK
<1>1. TypeInv => TypeOK
  <2> SUFFICES ASSUME TypeInv
               PROVE  TypeOK
    OBVIOUS
  <2>1. \A c \in Client : phase[c] = "open" <=> Fds(c) # {}
    <3>1. \A c : Fds(c) # {} <=> \E fd \in Fd : conn[fd] = c
      BY DEF Fds
    <3>2. \A c \in Client : phase[c] = "open" <=> \E fd \in Fd : conn[fd] = c
      BY Zenon DEF TypeInv, ConnType
    <3> QED
      BY <3>1, <3>2, Zenon
  <2>2. \A fd \in Fd : session[fd] # NULL => session[fd] \in Session /\ session[fd].flushed <= session[fd].written
    BY DEF TypeInv, FileType, Tells, Told
  <2> QED
    BY <2>1, <2>2 DEF TypeInv, NetType, ConnType, FileType, TypeOK
<1> QED
  BY <1>1, SpecType, PTL

------------------------------------------------------------------------------
(* The files, when requests for one file do not overlap, under the names    *)
(* that no reset left behind.                                               *)

Writing(fd) == session[fd] # NULL /\ session[fd].state = "READING_PUT_DATA"

Disjoint ==
  \A c, d \in Client : c # d /\ Connected(c) /\ Connected(d) => ~ Conflict(c, d)

\* A file that is being written is there and holds what was flushed; every
\* other file is listed and whole.
FileOK(n) ==
  /\ n \in directory => disk[n] # NULL
  /\ before[n] \in Seq(Client \X Int)
  /\ \A fd \in Writers(n) : /\ disk[n] = session[fd].file
                            /\ inode[disk[n]] = Blocks(conn[fd], session[fd].flushed)
  /\ Writers(n) = {} /\ disk[n] # NULL =>
       /\ n \in directory
       /\ \E c \in Client : /\ request[c].verb = "PUT" /\ request[c].name = n
                            /\ inode[disk[n]] = Whole(c)
                            /\ \E r \in DOMAIN replies[c] : replies[c][r].status = "OK"
FilesOK == \A n \in Name \ spoilt : FileOK(n)

FileInv == TypeInv /\ Disjoint /\ FilesOK

\* Who writes a file, said of sessions.
LEMMA WritersAre ==
  ASSUME NEW n
  PROVE  Writers(n) = {fd \in Fd : Writing(fd) /\ session[fd].name = n}
BY DEF Writers, Writing

\* A file is written by the client whose descriptor it is, unless the session
\* was left behind.
LEMMA WriterIs ==
  ASSUME TypeInv, NEW fd \in Fd, Writing(fd)
  PROVE  /\ session[fd] \in Session /\ Told(session[fd], conn[fd]) /\ Carries(session[fd])
         /\ session[fd].name \in Name /\ session[fd].file \in Client
         /\ request[session[fd].file].name = session[fd].name
         /\ session[fd].name \notin spoilt =>
              /\ session[fd].input = conn[fd] /\ conn[fd] \in Client /\ Connected(conn[fd])
              /\ request[conn[fd]].verb = "PUT" /\ session[fd].name = request[conn[fd]].name
<1>1. PICK s \in Session : s = session[fd]
  BY DEF Writing, TypeInv, FileType
<1>2. s.state = "READING_PUT_DATA" /\ Told(s, conn[fd])
  BY <1>1 DEF Writing, TypeInv, Tells
<1>3. Carries(s) /\ (s.input # conn[fd] => s.name \in spoilt)
  BY <1>2 DEF Told, Uploads
<1>4. s.name \in Name /\ s.file \in Client /\ request[s.file].name = s.name
  BY <1>2, <1>3, PutFields DEF Carries, TypeInv, NetType
<1>5. conn[fd] \in Client => Connected(conn[fd])
  BY DEF TypeInv, ConnType, Connected
<1> QED
  BY <1>1, <1>2, <1>3, <1>4, <1>5 DEF Carries

\* What is written at the end of the blocks that are there prolongs them.
LEMMA WrittenGrows ==
  ASSUME NEW c, NEW j \in Nat, NEW k \in Nat, NEW w \in Nat, j <= k, k <= w
  PROVE  Written(Blocks(c, j), j, k, Blocks(c, w)) = Blocks(c, k)
<1>1. Len(Blocks(c, j)) = j
  BY DEF Blocks
<1>2. \A i \in 1 .. j : Blocks(c, j)[i] = <<c, i>>
  BY DEF Blocks
<1>3. (IF k > Len(Blocks(c, j)) /\ k > j THEN k ELSE Len(Blocks(c, j))) = k
  BY <1>1
<1>4. \A i \in j + 1 .. k : Blocks(c, w)[i] = <<c, i>>
  BY DEF Blocks
<1>5. \A i \in 1 .. k : (IF i \in j + 1 .. k THEN Blocks(c, w)[i]
                        ELSE IF i <= Len(Blocks(c, j)) THEN Blocks(c, j)[i] ELSE NULL) = <<c, i>>
  BY <1>1, <1>2, <1>4
<1>6. Written(Blocks(c, j), j, k, Blocks(c, w))
        = [i \in 1 .. k |-> IF i \in j + 1 .. k THEN Blocks(c, w)[i]
                           ELSE IF i <= Len(Blocks(c, j)) THEN Blocks(c, j)[i] ELSE NULL]
  BY <1>3 DEF Written
<1> QED
  BY <1>5, <1>6 DEF Blocks

\* A file created by this PUT is its first blocks.
LEMMA WrittenBegins ==
  ASSUME NEW c, NEW k \in Nat, NEW w \in Nat, k <= w
  PROVE  Written(<<>>, 0, k, Blocks(c, w)) = Blocks(c, k)
<1>1. Blocks(c, 0) = <<>>
  BY DEF Blocks
<1> QED
  BY <1>1, WrittenGrows

\* The first k blocks are k blocks of that client.
LEMMA BlocksType ==
  ASSUME NEW c \in Client, NEW k \in Nat
  PROVE  Blocks(c, k) \in Seq(Client \X Int) /\ Len(Blocks(c, k)) = k
BY DEF Blocks

\* While a file is written no other client asks for it.
LEMMA Alone ==
  ASSUME TypeInv, Disjoint, NEW c \in Client, Connected(c), request[c].name \in Name \ spoilt,
         NEW fd \in Fd, Writing(fd), session[fd].name = request[c].name
  PROVE  conn[fd] = c
<1>1. /\ conn[fd] \in Client /\ request[conn[fd]].verb = "PUT" /\ Connected(conn[fd])
      /\ request[conn[fd]].name = request[c].name
  BY WriterIs
<1> QED
  BY <1>1, NullAssumption DEF Disjoint, Conflict

KeepsAnswers ==
  \A d \in Client : replies[d] # <<>> => replies'[d] = replies[d]

\* A file that neither a step nor a writer touches.
Untouched(n) ==
  /\ n \in directory' <=> n \in directory
  /\ disk'[n] = disk[n] /\ before'[n] = before[n]
  /\ disk[n] # NULL => inode'[disk[n]] = inode[disk[n]]
  /\ Writers(n)' = Writers(n)
  /\ \A fd \in Writers(n) : session'[fd] = session[fd] /\ conn'[fd] = conn[fd]

\* A step that does not touch the file n or its writers leaves it as it is.
LEMMA FileStays ==
  ASSUME FileInv, NEW n \in Name \ spoilt, request' = request, KeepsAnswers, Untouched(n)
  PROVE  FileOK(n)' /\ StoredFile(n)' = StoredFile(n)
<1>0. FileOK(n)
  BY DEF FileInv, FilesOK
<1>1. FileOK(n)'
  <2>1. (n \in directory' => disk'[n] # NULL) /\ before'[n] \in Seq(Client \X Int)
    BY <1>0 DEF FileOK, Untouched
  <2>2. \A fd \in Writers(n)' : /\ disk'[n] = session'[fd].file
                                /\ inode'[disk'[n]] = Blocks(conn'[fd], session'[fd].flushed)
    <3> SUFFICES ASSUME NEW fd \in Writers(n)
                 PROVE  /\ disk'[n] = session'[fd].file
                        /\ inode'[disk'[n]] = Blocks(conn'[fd], session'[fd].flushed)
      BY DEF Untouched
    <3>1. fd \in Fd /\ Writing(fd) /\ session[fd].name = n
      BY WritersAre
    <3>2. session[fd].file \in Client
      BY <3>1, WriterIs DEF FileInv
    <3>3. disk[n] = session[fd].file /\ inode[disk[n]] = Blocks(conn[fd], session[fd].flushed)
      BY <1>0 DEF FileOK
    <3> QED
      BY <3>2, <3>3, NullAssumption DEF Untouched
  <2>3. ASSUME Writers(n) = {}, disk[n] # NULL
        PROVE  /\ n \in directory
               /\ \E c \in Client : /\ request[c].verb = "PUT" /\ request[c].name = n
                                    /\ inode[disk[n]] = Whole(c)
                                    /\ \E r \in DOMAIN replies'[c] : replies'[c][r].status = "OK"
    <3>1. n \in directory
      BY <1>0, <2>3 DEF FileOK
    <3>2. PICK c \in Client : /\ request[c].verb = "PUT" /\ request[c].name = n
                              /\ inode[disk[n]] = Whole(c)
                              /\ \E r \in DOMAIN replies[c] : replies[c][r].status = "OK"
      BY <1>0, <2>3 DEF FileOK
    <3>3. replies[c] # <<>>
      BY <3>2
    <3> QED
      BY <3>1, <3>2, <3>3 DEF KeepsAnswers
  <2>4. \A c : Whole(c)' = Whole(c)
    BY DEF Whole
  <2> QED
    BY <2>1, <2>2, <2>3, <2>4 DEF FileOK, Untouched
<1>2. StoredFile(n)' = StoredFile(n)
  BY <1>0 DEF StoredFile, Untouched, FileOK
<1> QED
  BY <1>1, <1>2

\* A step that leaves the files alone, and the sessions that write them, but
\* for those it leaves behind.
Quietly ==
  /\ request' = request /\ UNCHANGED files /\ KeepsAnswers /\ spoilt \subseteq spoilt'
  /\ \A fd \in Fd : \/ /\ session'[fd] = session[fd]
                       /\ Writing(fd) => conn'[fd] = conn[fd] \/ session[fd].name \in spoilt'
                    \/ ~ Writing(fd) /\ ~ Writing(fd)'

\* A step that touches no file and no writer leaves all files as they are.
LEMMA QuietSteps ==
  ASSUME FileInv, Quietly
  PROVE  FilesOK' /\ \A n \in Name \ spoilt' : StoredFile(n)' = StoredFile(n)
<1>1. ASSUME NEW n \in Name \ spoilt'
      PROVE  FileOK(n)' /\ StoredFile(n)' = StoredFile(n)
  <2>1. Writers(n)' = Writers(n)
    BY DEF Quietly, Writers, Writing
  <2>2. \A fd \in Writers(n) : Writing(fd) /\ fd \in Fd /\ session[fd].name = n
    BY WritersAre
  <2>3. \A fd \in Writers(n) : session'[fd] = session[fd] /\ conn'[fd] = conn[fd]
    BY <2>1, <2>2 DEF Quietly, Writers, Writing
  <2>4. Untouched(n)
    BY <2>1, <2>3 DEF Quietly, files, Untouched
  <2> QED
    BY <2>4, FileStays DEF Quietly
<1> QED
  BY <1>1 DEF FilesOK

\* Clients that go away, and those that ask for nothing others ask for.
LEMMA DisjointStays ==
  ASSUME Disjoint, request' = request,
         \A c \in Client : Connected(c)' => Connected(c)
  PROVE  Disjoint'
BY DEF Disjoint, Conflict

\* A client whose request conflicts with one on its way waits for it.
LEMMA ConnectKeepsDisjoint ==
  ASSUME ~ Overlaps, FileInv, NEW c \in Client, Connect(c)
  PROVE  Disjoint'
<1>1. /\ request' = request /\ \A d \in Client : Connected(d) => ~ Conflict(c, d)
      /\ \A d \in Client : d # c => (Connected(d)' <=> Connected(d))
  BY DEF Connect, Connected, FileInv, TypeInv, NetType
<1>2. \A d \in Client : Connected(d) => ~ Conflict(d, c)
  BY <1>1 DEF Conflict
<1>3. \A d, e : Conflict(d, e)' <=> Conflict(d, e)
  BY <1>1 DEF Conflict
<1> QED
  BY <1>1, <1>2, <1>3 DEF Disjoint, FileInv

\* The steps that answer nobody.
LEMMA NetworkQuiet ==
  ASSUME FileInv, NEW c \in Client, Connect(c) \/ Send(c) \/ Shutdown(c) \/ Reset(c) \/ Drains(c)
  PROVE  Quietly /\ replies' = replies /\ serving' = serving /\ spoilt' = spoilt
BY DEF Connect, Send, Shutdown, Reset, Drains, clients, Quietly, KeepsAnswers, Writing

\* The epoll loop touches no file, answers nobody and connects nobody; a reset
\* leaves an upload behind.
LEMMA LoopQuiet ==
  ASSUME FileInv, NEW fd \in Fd,
         \/ EpollError(fd) \/ Serve(fd) \/ Again(fd) \/ SendFails(fd)
         \/ \E c \in Client : Accept(c, fd)
  PROVE  /\ Quietly /\ replies' = replies
         /\ serving # STOPPED /\ serving' # STOPPED
         /\ \A c \in Client : Connected(c)' => Connected(c)
         /\ spoilt' = spoilt \/ \E n \in Name : spoilt' = spoilt \cup {n}
<1>1. serving # STOPPED /\ serving' # STOPPED
  BY NullAssumption DEF EpollError, Serve, Again, Accept, SendFails, FileInv, TypeInv, ConnType
<1>2. request' = request /\ UNCHANGED files /\ replies' = replies
  BY DEF EpollError, Serve, Again, Accept, SendFails, clients
<1>3. \A c \in Client : Connected(c)' => Connected(c)
  BY NullAssumption DEF EpollError, Serve, Again, Accept, SendFails, clients, Connected, FileInv, TypeInv, NetType, ConnType
<1>4. spoilt' = spoilt \/ \E n \in Name : spoilt' = spoilt \cup {n}
  <2>1. CASE EpollError(fd)
    <3>1. TypeInv'
      BY <2>1, EpollErrorKeepsType DEF FileInv
    <3>2. spoilt' = spoilt \cup {session[fd].name} \/ spoilt' = spoilt
      BY <2>1 DEF EpollError
    <3> QED
      BY <3>1, <3>2 DEF TypeInv, FileType
  <2>2. CASE ~ EpollError(fd)
    BY <2>2 DEF Serve, Again, Accept, SendFails
  <2> QED
    BY <2>1, <2>2
<1>5. ASSUME NEW e \in Fd
      PROVE  \/ /\ session'[e] = session[e]
                /\ Writing(e) => conn'[e] = conn[e] \/ session[e].name \in spoilt'
             \/ ~ Writing(e) /\ ~ Writing(e)'
  <2>1. CASE Serve(fd) \/ SendFails(fd)
    BY <2>1 DEF Serve, SendFails
  <2>2. CASE \E c \in Client : Accept(c, fd)
    <3>1. Writing(fd) => session[fd].name \in spoilt
      BY <2>2, WriterIs, NullAssumption DEF Accept, FileInv
    <3> QED
      BY <2>2, <3>1 DEF Accept, FileInv, TypeInv, ConnType
  <2>3. CASE EpollError(fd)
    <3>1. Writing(fd) => session[fd].name \in spoilt'
      BY <2>3 DEF EpollError, Writing, Known, Uploads
    <3> QED
      BY <2>3, <3>1 DEF EpollError, FileInv, TypeInv, ConnType
  <2>4. CASE Again(fd)
    <3>1. session' = [session EXCEPT ![fd] = Current(fd)] /\ conn' = conn
      BY <2>4 DEF Again, Becomes
    <3>2. Current(fd) = session[fd] \/ (~ Writing(fd) /\ Current(fd) = NewSession)
      <4>1. CASE session[fd] = NULL
        BY <4>1 DEF Current, Known, Writing
      <4>2. CASE session[fd] # NULL
        BY <4>2 DEF Current, Known
      <4> QED
        BY <4>1, <4>2
    <3>3. NewSession.state # "READING_PUT_DATA"
      BY DEF NewSession
    <3> QED
      BY <3>1, <3>2, <3>3 DEF Writing, FileInv, TypeInv, FileType
  <2> QED
    BY <2>1, <2>2, <2>3, <2>4
<1> QED
  BY <1>1, <1>2, <1>3, <1>4, <1>5 DEF Quietly, KeepsAnswers

------------------------------------------------------------------------------
(* The store a client sees, and the steps it takes.                         *)

Held == [n \in Name |-> IF n \in spoilt THEN NULL ELSE StoredFile(n)]
Closed == serving = STOPPED

Stutters == /\ request' = request /\ Held' = Held /\ replies' = replies /\ Closed' = Closed
            /\ spoilt' = spoilt
StoreSteps == FS!Next \/ Stutters

\* What leaves every file as it is does not show in the store.
LEMMA HeldStays ==
  ASSUME spoilt' = spoilt, \A n \in Name \ spoilt : StoredFile(n)' = StoredFile(n)
  PROVE  Held' = Held
BY DEF Held

\* A quiet step that answers nobody does not show.
LEMMA QuietStutters ==
  ASSUME FileInv, Quietly, replies' = replies, Closed' = Closed, spoilt' = spoilt
  PROVE  FilesOK' /\ StoreSteps
<1>1. Held' = Held
  BY QuietSteps, HeldStays
<1> QED
  BY <1>1, QuietSteps DEF Stutters, StoreSteps, Quietly

\* An upload that is left behind makes its name doubtful.
LEMMA QuietDoubts ==
  ASSUME FileInv, Quietly, replies' = replies, Closed' = Closed,
         NEW n \in Name, spoilt' = spoilt \cup {n}
  PROVE  FilesOK' /\ StoreSteps
<1>1. Held' = [Held EXCEPT ![n] = NULL]
  BY QuietSteps DEF Held
<1>2. FS!Doubt(n)
  BY <1>1 DEF FS!Doubt, Held, Quietly, Closed
<1> QED
  BY <1>2, QuietSteps DEF StoreSteps, FS!Next

\* An answer is the first its client gets.
LEMMA StoreAnswers ==
  ASSUME FileInv, NEW c \in Client, replies[c] = <<>>, NEW status, NEW body, Answers(c, status, body),
         UNCHANGED <<request, spoilt>>, ~ Closed, ~ Closed'
  PROVE  FS!Answer(c, status, body) /\ KeepsAnswers
<1>1. replies' = [replies EXCEPT ![c] = << [status |-> status, body |-> body] >>]
  BY AnswersFirst
<1>2. FS!Answer(c, status, body)
  BY <1>1 DEF FS!Answer, Closed
<1>3. KeepsAnswers
  BY <1>1 DEF KeepsAnswers, FileInv, TypeInv, ReplyType
<1> QED
  BY <1>2, <1>3

\* An answer to a client that asks for a doubtful name, or is misled.
LEMMA StoreGuesses ==
  ASSUME FileInv, NEW c \in Client, replies[c] = <<>>, NEW status, NEW body, Answers(c, status, body),
         UNCHANGED <<request, spoilt>>, ~ Closed, ~ Closed', Held' = Held,
         request[c].name \in spoilt \/ c \in Misled
  PROVE  FS!Next
<1>1. PICK r : r = << [status |-> status, body |-> body] >>
  OBVIOUS
<1>2. replies' = [replies EXCEPT ![c] = r] /\ Len(r) = 1
  BY <1>1, AnswersFirst
<1>3. replies'[c] = r
  BY <1>2 DEF FileInv, TypeInv, ReplyType
<1>4. FS!Anyhow(c)
  BY <1>2, <1>3 DEF FS!Anyhow, Held, Closed
<1> QED
  BY <1>4 DEF FS!Next

\* A bad request changes nothing but is answered.
LEMMA BadRequestAnswers ==
  ASSUME FileInv, NEW c \in Client, replies[c] = <<>>, Answers(c, "BAD_REQUEST", NULL),
         KeepsAnswers => Quietly, UNCHANGED <<request, spoilt>>, ~ Closed, ~ Closed'
  PROVE  FilesOK' /\ StoreSteps
<1>1. FS!Answer(c, "BAD_REQUEST", NULL) /\ KeepsAnswers
  BY StoreAnswers
<1>2. Held' = Held
  BY <1>1, QuietSteps, HeldStays
<1>3. FS!BadRequest(c)
  BY <1>1, <1>2 DEF FS!BadRequest, Held
<1> QED
  BY <1>1, <1>3, QuietSteps DEF StoreSteps, FS!Next

\* Where the server is when it processes a request: the session has not begun
\* to write, and nobody else writes the file that is asked for.
LEMMA BeforeWriting ==
  ASSUME FileInv, NEW fd \in Fd, NEW state \in {"READING_HEADER", "READING_PUT_SIZE"},
         Receives(fd, state)
  PROVE  /\ ~ Writing(fd) /\ ~ Closed /\ ~ Closed'
         /\ UNCHANGED <<request, conn, spoilt>>
         /\ \A c \in Client : Connected(c)' => Connected(c)
         /\ conn[fd] \in Client /\ request[conn[fd]] \in Request /\ replies[conn[fd]] = <<>>
         /\ request[conn[fd]].name \in Name \ spoilt => Writers(request[conn[fd]].name) = {}
<1>1. /\ conn[fd] \in Client /\ request[conn[fd]] \in Request /\ replies[conn[fd]] = <<>>
      /\ Current(fd).state = state
  BY ReceiverReads DEF FileInv, Reading
<1>2. ~ Writing(fd)
  <2>1. CASE session[fd] = NULL
    BY <2>1 DEF Writing
  <2>2. CASE session[fd] # NULL
    BY <2>2, <1>1 DEF Current, Known, Writing
  <2> QED
    BY <2>1, <2>2
<1>3. /\ ~ Closed /\ ~ Closed' /\ UNCHANGED <<request, conn, spoilt>>
      /\ \A c \in Client : Connected(c)' => Connected(c)
  BY NullAssumption DEF Receives, clients, Closed, Connected
<1>4. ASSUME request[conn[fd]].name \in Name \ spoilt, NEW e \in Writers(request[conn[fd]].name)
      PROVE  FALSE
  <2>1. e \in Fd /\ Writing(e) /\ session[e].name = request[conn[fd]].name
    BY <1>4, WritersAre
  <2>2. Connected(conn[fd])
    BY <1>1 DEF FileInv, TypeInv, ConnType, Connected
  <2>3. conn[e] = conn[fd]
    BY <1>1, <1>4, <2>1, <2>2, Alone DEF FileInv
  <2>4. e = fd
    BY <1>1, <2>1, <2>3 DEF FileInv, TypeInv, ConnType
  <2> QED
    BY <1>2, <2>1, <2>4
<1> QED
  BY <1>1, <1>2, <1>3, <1>4

\* The session of fd goes from one that does not write to another.
LEMMA ReadsOn ==
  ASSUME FileInv, NEW fd \in Fd, ~ Writing(fd), NEW s \in Session, Becomes(fd, s),
         s.state # "READING_PUT_DATA", UNCHANGED <<request, conn, spoilt, files>>
  PROVE  KeepsAnswers => Quietly
<1>1. session'[fd] = s /\ \A e \in Fd : e # fd => session'[e] = session[e]
  BY DEF Becomes, FileInv, TypeInv, FileType
<1>2. ~ Writing(fd)'
  BY <1>1 DEF Writing
<1> QED
  BY <1>1, <1>2 DEF Quietly, files

\* A header has been parsed: the session does not write, nor will it.
LEMMA ParsedSession ==
  ASSUME FileInv, NEW fd \in Fd, Receives(fd, "READING_HEADER"), NEW state \in {"DONE", "SENDING_GET"},
         Becomes(fd, [Input(fd) EXCEPT !.state = state])
  PROVE  /\ UNCHANGED files => (KeepsAnswers => Quietly)
         /\ \A e \in Fd : e # fd => session'[e] = session[e]
         /\ ~ Writing(fd)'
<1>1. PICK i \in Session : i = Input(fd)
  BY ReceiverReads, InputFields DEF FileInv
<1>2. PICK s : s = [i EXCEPT !.state = state]
  OBVIOUS
<1>3. s \in Session /\ s.state # "READING_PUT_DATA"
  BY <1>2 DEF Session, State
<1>4. Becomes(fd, s)
  BY <1>1, <1>2
<1>5. session'[fd] = s /\ \A e \in Fd : e # fd => session'[e] = session[e]
  BY <1>4 DEF Becomes, FileInv, TypeInv, FileType
<1>6. ~ Writing(fd)'
  BY <1>3, <1>5 DEF Writing
<1>7. UNCHANGED files => (KeepsAnswers => Quietly)
  BY <1>3, <1>4, BeforeWriting, ReadsOn
<1> QED
  BY <1>5, <1>6, <1>7

\* The store has a file under the names the server lists.
LEMMA StoredIsListed ==
  ASSUME FileInv, NEW n \in Name \ spoilt
  PROVE  /\ StoredFile(n) # NULL <=> n \in directory
         /\ Writers(n) = {} => (n \in directory <=> disk[n] # NULL)
         /\ Writers(n) = {} /\ n \in directory =>
              StoredFile(n) = inode[disk[n]] /\ inode[disk[n]] \in Seq(Client \X Int)
<1>1. FileOK(n)
  BY DEF FileInv, FilesOK
<1>2. ASSUME NEW c \in Client, request[c].verb = "PUT"
      PROVE  Whole(c) \in Seq(Client \X Int)
  <2>1. request[c].size \in Nat
    BY PutFields DEF FileInv, TypeInv, NetType
  <2>2. Whole(c) = Blocks(c, request[c].size)
    BY DEF Whole, Blocks
  <2> QED
    BY <2>1, <2>2, BlocksType
<1>3. Writers(n) = {} /\ n \in directory => inode[disk[n]] \in Seq(Client \X Int)
  BY <1>1, <1>2 DEF FileOK
<1> QED
  BY <1>1, <1>3, NothingAssumption DEF StoredFile, FileOK

\* GET answers what the store holds at that instant.
LEMMA GetAnswers ==
  ASSUME FileInv, NEW fd \in Fd, Get(fd)
  PROVE  FilesOK' /\ StoreSteps
<1>0. Receives(fd, "READING_HEADER") /\ request[conn[fd]].verb = "GET" /\ UNCHANGED files
  BY DEF Get, Parses
<1>1. PICK c \in Client : c = conn[fd] /\ request[c] \in Request /\ replies[c] = <<>>
  BY <1>0, BeforeWriting
<1>2. PICK n \in Name : n = request[c].name
  BY <1>0, <1>1, PutFields
<1>3. /\ ~ Closed /\ ~ Closed' /\ UNCHANGED <<request, spoilt>>
      /\ n \notin spoilt => Writers(n) = {}
  BY <1>0, <1>1, <1>2, BeforeWriting
<1>4. KeepsAnswers => Quietly
  BY <1>0, ParsedSession DEF Get
<1>5. PICK status, body : /\ Answers(c, status, body)
                          /\ IF disk[n] = NULL THEN status = "NO_SUCH_FILE" /\ body = NULL
                                               ELSE status = "OK" /\ body = inode[disk[n]]
  BY <1>1, <1>2 DEF Get
<1>6. FS!Answer(c, status, body) /\ KeepsAnswers
  BY <1>1, <1>3, <1>5, StoreAnswers
<1>7. FilesOK' /\ Held' = Held
  BY <1>3, <1>4, <1>6, QuietSteps, HeldStays
<1>8. CASE n \in spoilt
  <2>1. FS!Next
    BY <1>1, <1>2, <1>3, <1>5, <1>7, <1>8, StoreGuesses
  <2> QED
    BY <1>7, <2>1 DEF StoreSteps
<1>9. CASE n \notin spoilt /\ disk[n] = NULL
  <2>1. StoredFile(n) = NULL
    BY <1>3, <1>9, StoredIsListed
  <2>2. FS!NoSuchFile(c)
    BY <1>0, <1>1, <1>2, <1>5, <1>6, <1>7, <1>9, <2>1 DEF FS!NoSuchFile, FS!Stored, Held
  <2> QED
    BY <1>7, <2>2 DEF StoreSteps, FS!Next
<1>10. CASE n \notin spoilt /\ disk[n] # NULL
  <2>1. StoredFile(n) # NULL /\ StoredFile(n) = inode[disk[n]]
    BY <1>3, <1>10, StoredIsListed
  <2>2. FS!Get(c)
    BY <1>0, <1>1, <1>2, <1>5, <1>6, <1>7, <1>10, <2>1 DEF FS!Get, FS!Stored, FS!Asks, Held
  <2> QED
    BY <1>7, <2>2 DEF StoreSteps, FS!Next
<1> QED
  BY <1>8, <1>9, <1>10

\* LIST answers the names the store holds at that instant, and of the doubtful
\* names those the vector has.
LEMMA ListAnswers ==
  ASSUME FileInv, NEW fd \in Fd, List(fd)
  PROVE  FilesOK' /\ StoreSteps
<1>0. /\ Receives(fd, "READING_HEADER") /\ request[conn[fd]].verb = "LIST" /\ UNCHANGED files
      /\ Answers(conn[fd], "OK", directory)
  BY DEF List, Parses
<1>1. PICK c \in Client : c = conn[fd] /\ replies[c] = <<>>
  BY <1>0, BeforeWriting
<1>2. ~ Closed /\ ~ Closed' /\ UNCHANGED <<request, spoilt>>
  BY <1>0, BeforeWriting
<1>3. KeepsAnswers => Quietly
  BY <1>0, ParsedSession DEF List
<1>4. directory = {n \in Name : Held[n] # NULL} \cup (directory \cap spoilt)
  BY StoredIsListed DEF Held, FileInv, TypeInv, FileType
<1>5. FS!Answer(c, "OK", directory) /\ KeepsAnswers
  BY <1>0, <1>1, <1>2, StoreAnswers
<1>6. FilesOK' /\ Held' = Held
  BY <1>2, <1>3, <1>5, QuietSteps, HeldStays
<1>7. FS!List(c)
  <2>1. PICK some \in SUBSET spoilt : directory = {n \in Name : Held[n] # NULL} \cup some
    BY <1>4
  <2>2. FS!Answer(c, "OK", {n \in Name : Held[n] # NULL} \cup some)
    BY <1>5, <2>1
  <2> QED
    BY <1>0, <1>1, <1>6, <2>2 DEF FS!List, FS!Asks, Held
<1> QED
  BY <1>6, <1>7 DEF StoreSteps, FS!Next

\* A step on the file n, by the session of fd, touches nothing else.
Touches(n, fd) ==
  /\ UNCHANGED <<request, spoilt>> /\ KeepsAnswers
  /\ \A e \in Fd : e # fd => session'[e] = session[e] /\ conn'[e] = conn[e]
  /\ Writing(fd) => session[fd].name = n
  /\ Writing(fd)' => session'[fd].name = n
  /\ \A m \in Name : m # n => /\ m \in directory' <=> m \in directory
                              /\ disk'[m] = disk[m] /\ before'[m] = before[m]
  /\ \A f \in Client : request[f].name # n => inode'[f] = inode[f]

\* The other files stay.
LEMMA OthersStay ==
  ASSUME FileInv, NEW n \in Name, NEW fd \in Fd, Touches(n, fd)
  PROVE  \A m \in Name \ spoilt : m # n => FileOK(m)' /\ StoredFile(m)' = StoredFile(m)
<1> SUFFICES ASSUME NEW m \in Name \ spoilt, m # n
             PROVE  Untouched(m)
  BY FileStays DEF Touches
<1>1. Writers(m)' = Writers(m) /\ fd \notin Writers(m)
  BY DEF Writers, Writing, Touches
<1>2. disk[m] # NULL => inode'[disk[m]] = inode[disk[m]]
  BY DEF FileInv, TypeInv, FileType, Touches
<1>3. \A e \in Writers(m) : e \in Fd
  BY WritersAre
<1> QED
  BY <1>1, <1>2, <1>3 DEF Untouched, Touches

\* Whatever is done to a file that was left behind, the store does not notice.
LEMMA SpoiltStays ==
  ASSUME FileInv, NEW n \in Name, n \in spoilt, NEW fd \in Fd, Touches(n, fd)
  PROVE  FilesOK' /\ Held' = Held
<1>1. \A m \in Name \ spoilt : FileOK(m)' /\ StoredFile(m)' = StoredFile(m)
  BY OthersStay
<1>2. spoilt' = spoilt
  BY DEF Touches
<1> QED
  BY <1>1, <1>2, HeldStays DEF FilesOK

\* What a step that changes one file makes of the store.
LEMMA StoreChanges ==
  ASSUME FileInv, NEW n \in Name \ spoilt, NEW fd \in Fd, Touches(n, fd), FileOK(n)'
  PROVE  /\ FilesOK' /\ Held' = [Held EXCEPT ![n] = StoredFile(n)']
         /\ StoredFile(n)' = StoredFile(n) => Held' = Held
<1>1. \A m \in Name \ spoilt : m # n => FileOK(m)' /\ StoredFile(m)' = StoredFile(m)
  BY OthersStay
<1>2. spoilt' = spoilt
  BY DEF Touches
<1>3. FilesOK'
  BY <1>1, <1>2 DEF FilesOK
<1>4. Held' = [Held EXCEPT ![n] = StoredFile(n)']
  BY <1>1, <1>2 DEF Held
<1>5. StoredFile(n)' = StoredFile(n) => Held' = Held
  BY <1>1, <1>2, HeldStays
<1> QED
  BY <1>3, <1>4, <1>5

\* DELETE removes from the store and the directory at one instant.
LEMMA DeleteAnswers ==
  ASSUME FileInv, NEW fd \in Fd, Delete(fd)
  PROVE  FilesOK' /\ StoreSteps
<1>0. Receives(fd, "READING_HEADER") /\ request[conn[fd]].verb = "DELETE"
  BY DEF Delete, Parses
<1>1. PICK c \in Client : c = conn[fd] /\ request[c] \in Request /\ replies[c] = <<>>
  BY <1>0, BeforeWriting
<1>2. PICK n \in Name : n = request[c].name
  BY <1>0, <1>1, PutFields
<1>3. /\ ~ Writing(fd) /\ ~ Closed /\ ~ Closed' /\ UNCHANGED <<request, conn, spoilt>>
      /\ n \notin spoilt => Writers(n) = {}
  BY <1>0, <1>1, <1>2, BeforeWriting
<1>4. (\A e \in Fd : e # fd => session'[e] = session[e]) /\ ~ Writing(fd)'
  BY <1>0, ParsedSession DEF Delete
<1>5. /\ directory' = directory \ {n} /\ inode' = inode /\ before' = before
      /\ IF n \in directory /\ disk[n] # NULL
         THEN disk' = [disk EXCEPT ![n] = NULL] /\ Answers(c, "OK", NULL)
         ELSE disk' = disk /\ Answers(c, "NO_SUCH_FILE", NULL)
  BY <1>1, <1>2 DEF Delete
<1>6. PICK status : Answers(c, status, NULL)
  BY <1>5
<1>7. KeepsAnswers /\ \A s : Answers(c, s, NULL) => FS!Answer(c, s, NULL)
  BY <1>1, <1>3, <1>6, StoreAnswers
<1>8. Touches(n, fd)
  <2>1. \A m \in Name : m # n => m \in directory' <=> m \in directory
    BY <1>5
  <2>2. \A m \in Name : m # n => disk'[m] = disk[m]
    BY <1>5 DEF FileInv, TypeInv, FileType
  <2> QED
    BY <1>3, <1>4, <1>5, <1>7, <2>1, <2>2 DEF Touches
<1>9. CASE n \in spoilt
  <2>1. FilesOK' /\ Held' = Held
    BY <1>8, <1>9, SpoiltStays
  <2>2. FS!Next
    BY <1>1, <1>2, <1>3, <1>6, <1>9, <2>1, StoreGuesses
  <2> QED
    BY <2>1, <2>2 DEF StoreSteps
<1>10. CASE n \notin spoilt
  <2>1. n \in directory <=> disk[n] # NULL
    BY <1>3, <1>10, StoredIsListed
  <2>2. FileOK(n)' /\ StoredFile(n)' = NULL
    <3>1. Writers(n)' = {}
      BY <1>3, <1>4, <1>10 DEF Writers, Writing
    <3>2. n \notin directory' /\ disk'[n] = NULL
      BY <1>5, <2>1 DEF FileInv, TypeInv, FileType
    <3>3. before'[n] \in Seq(Client \X Int)
      BY <1>5, <1>10 DEF FileInv, FilesOK, FileOK
    <3> QED
      BY <3>1, <3>2, <3>3 DEF FileOK, StoredFile
  <2>3. /\ FilesOK' /\ Held' = [Held EXCEPT ![n] = NULL]
        /\ StoredFile(n) = NULL => Held' = Held
    BY <1>8, <1>10, <2>2, StoreChanges
  <2>4. CASE n \in directory
    <3>1. StoredFile(n) # NULL
      BY <1>10, <2>4, StoredIsListed
    <3>2. FS!Answer(c, "OK", NULL)
      BY <1>5, <1>7, <2>1, <2>4
    <3>3. FS!Delete(c)
      BY <1>0, <1>1, <1>2, <1>10, <2>3, <3>1, <3>2 DEF FS!Delete, FS!Asks, FS!Stored, FS!Store, FS!Known, Held
    <3> QED
      BY <2>3, <3>3 DEF StoreSteps, FS!Next
  <2>5. CASE n \notin directory
    <3>1. StoredFile(n) = NULL
      BY <1>10, <2>5, StoredIsListed
    <3>2. FS!Answer(c, "NO_SUCH_FILE", NULL)
      BY <1>5, <1>7, <2>5
    <3>3. FS!NoSuchFile(c)
      BY <1>0, <1>1, <1>2, <1>10, <2>3, <3>1, <3>2 DEF FS!NoSuchFile, FS!Stored, Held
    <3> QED
      BY <2>3, <3>3 DEF StoreSteps, FS!Next
  <2> QED
    BY <2>4, <2>5
<1> QED
  BY <1>9, <1>10

\* A file that is opened keeps its old contents in the store until it is whole.
LEMMA OpensStutters ==
  ASSUME FileInv, NEW fd \in Fd, NEW state \in {"READING_HEADER", "READING_PUT_SIZE"},
         Receives(fd, state), replies' = replies,
         NEW size \in Int, NEW data \in Seq(Client \X Int), Opens(fd, size, data),
         NEW g \in Client, g = Input(fd).input, request[g].verb = "PUT",
         g # conn[fd] => request[g].name \in spoilt,
         g = conn[fd] => data = Blocks(g, Len(data))
  PROVE  FilesOK' /\ StoreSteps
<1>1. PICK n \in Name : n = request[g].name
  BY PutFields DEF FileInv, TypeInv, NetType
<1>2. /\ ~ Writing(fd) /\ ~ Closed /\ ~ Closed' /\ UNCHANGED <<request, conn, spoilt>>
      /\ n \notin spoilt => Writers(n) = {}
  BY <1>1, BeforeWriting
<1>3. disk[n] \in Client \cup {NULL}
  BY DEF FileInv, TypeInv, FileType
<1>4. PICK f \in Client : f = IF disk[n] = NULL THEN g ELSE disk[n]
  BY <1>3
<1>5. PICK k \in 0 .. Len(data) : /\ Becomes(fd, Uploading(g, size, f, data, k))
                                  /\ inode' = [inode EXCEPT ![f] = Written(<<>>, 0, k, data)]
  BY <1>1, <1>4 DEF Opens
<1>6. PICK s : s = Uploading(g, size, f, data, k)
  OBVIOUS
<1>7. /\ s # NULL /\ s.state = "READING_PUT_DATA" /\ s.name = n /\ s.file = f /\ s.flushed = k
  <2>1. s \in Session
    <3>1. Len(data) \in Nat /\ k \in Nat
      BY LenProperties
    <3> QED
      BY <1>1, <1>6, <3>1 DEF Uploading, Session, State
  <2> QED
    BY <1>1, <1>6, <2>1, NothingAssumption DEF Uploading
<1>8. session'[fd] = s /\ \A e \in Fd : e # fd => session'[e] = session[e]
  BY <1>5, <1>6 DEF Becomes, FileInv, TypeInv, FileType
<1>9. /\ disk' = [disk EXCEPT ![n] = f] /\ directory' = directory
      /\ before' = [before EXCEPT ![n] = IF disk[n] = NULL THEN <<>> ELSE inode[f]]
  BY <1>1, <1>4 DEF Opens
<1>10. request[f].name = n
  BY <1>1, <1>4, NullAssumption DEF FileInv, TypeInv, FileType
<1>11. Touches(n, fd)
  <2>1. \A m \in Name : m # n => disk'[m] = disk[m] /\ before'[m] = before[m]
    BY <1>9 DEF FileInv, TypeInv, FileType
  <2>2. \A h \in Client : request[h].name # n => inode'[h] = inode[h]
    BY <1>5, <1>10 DEF FileInv, TypeInv, FileType
  <2>3. KeepsAnswers /\ session'[fd].name = n
    BY <1>7, <1>8 DEF KeepsAnswers
  <2> QED
    BY <1>2, <1>8, <1>9, <2>1, <2>2, <2>3 DEF Touches
<1>12. Closed' = Closed
  BY <1>2 DEF Closed
<1>13. CASE n \in spoilt
  BY <1>2, <1>11, <1>12, <1>13, SpoiltStays DEF StoreSteps, Stutters
<1>14. CASE n \notin spoilt
  <2>1. conn[fd] = g
    BY <1>1, <1>14
  <2>2. inode'[f] = Blocks(g, k)
    <3>1. Len(data) \in Nat /\ k \in Nat /\ k <= Len(data)
      BY <1>5, LenProperties
    <3>2. Written(<<>>, 0, k, Blocks(g, Len(data))) = Blocks(g, k)
      BY <3>1, WrittenBegins
    <3>3. data = Blocks(g, Len(data))
      BY <2>1
    <3>4. Written(<<>>, 0, k, data) = Blocks(g, k)
      BY <3>2, <3>3
    <3> QED
      BY <1>5, <3>4 DEF FileInv, TypeInv, FileType
  <2>3. Writers(n)' = {fd}
    BY <1>2, <1>7, <1>8, <1>14 DEF Writers, Writing
  <2>4. n \in directory => disk[n] # NULL /\ StoredFile(n) = inode[disk[n]]
    BY <1>2, <1>14, StoredIsListed
  <2>5. disk[n] # NULL => inode[disk[n]] \in Seq(Client \X Int)
    BY <1>2, <1>14, StoredIsListed
  <2>6. before'[n] = (IF disk[n] = NULL THEN <<>> ELSE inode[f]) /\ disk'[n] = f /\ f # NULL
    BY <1>9, NullAssumption DEF FileInv, TypeInv, FileType
  <2>7. before'[n] \in Seq(Client \X Int)
    <3>1. <<>> \in Seq(Client \X Int)
      OBVIOUS
    <3> QED
      BY <1>4, <2>5, <2>6, <3>1
  <2>8. FileOK(n)'
    BY <1>2, <1>7, <1>8, <2>1, <2>2, <2>3, <2>6, <2>7 DEF FileOK
  <2>9. StoredFile(n)' = StoredFile(n)
    <3>1. n \in directory => StoredFile(n)' = before'[n]
      BY <1>9, <2>3 DEF StoredFile
    <3>2. n \notin directory => StoredFile(n)' = NULL /\ StoredFile(n) = NULL
      BY <1>9 DEF StoredFile
    <3> QED
      BY <1>4, <2>4, <2>6, <3>1, <3>2
  <2>10. FilesOK' /\ Held' = Held
    BY <1>11, <1>14, <2>8, <2>9, StoreChanges
  <2> QED
    BY <1>2, <1>12, <2>10 DEF StoreSteps, Stutters
<1> QED
  BY <1>13, <1>14

\* The client's own upload.
LEMMA OpensOwnStutters ==
  ASSUME FileInv, NEW fd \in Fd, NEW state \in {"READING_HEADER", "READING_PUT_SIZE"},
         Receives(fd, state), replies' = replies, Own(fd),
         request[conn[fd]].verb = "PUT", sent[conn[fd]] >= SIZE, OpensOwn(fd)
  PROVE  FilesOK' /\ StoreSteps
<1>1. PICK c \in Client : c = conn[fd]
  BY ReceiverReads DEF FileInv
<1>2. Input(fd).input = c
  BY <1>1, InputFields, ReceiverReads DEF FileInv
<1>3. PICK data : data = Data(c, SIZE, sent[c])
  OBVIOUS
<1>4. PICK size \in Int : size = request[c].size
  BY <1>1, PutFields DEF FileInv, TypeInv, NetType
<1>5. Opens(fd, size, data)
  BY <1>1, <1>3, <1>4 DEF OpensOwn
<1>6. data \in Seq(Client \X Int) /\ data = Blocks(c, Len(data))
  BY <1>1, <1>3, OwnData DEF FileInv
<1> QED
  BY <1>1, <1>2, <1>4, <1>5, <1>6, OpensStutters

\* A file that is written has one writer: the session that is served now.
LEMMA OneWriter ==
  ASSUME FileInv, NEW fd \in Fd, Writing(fd), session[fd].name \notin spoilt
  PROVE  /\ Writers(session[fd].name) = {fd}
         /\ disk[session[fd].name] = session[fd].file
         /\ inode[session[fd].file] = Blocks(conn[fd], session[fd].flushed)
<1>1. /\ conn[fd] \in Client /\ Connected(conn[fd]) /\ session[fd].name = request[conn[fd]].name
      /\ session[fd].name \in Name
  BY WriterIs DEF FileInv
<1>2. fd \in Writers(session[fd].name)
  BY WritersAre
<1>3. ASSUME NEW e \in Writers(session[fd].name)
      PROVE  e = fd
  <2>1. e \in Fd /\ Writing(e) /\ session[e].name = request[conn[fd]].name
    BY <1>1, <1>3, WritersAre
  <2>2. conn[e] = conn[fd]
    BY <1>1, <2>1, Alone DEF FileInv
  <2> QED
    BY <1>1, <2>1, <2>2 DEF FileInv, TypeInv, ConnType
<1>4. FileOK(session[fd].name)
  BY <1>1 DEF FileInv, FilesOK
<1> QED
  BY <1>2, <1>3, <1>4 DEF FileOK

\* Blocks that arrive go to the writer's own file.
LEMMA PutDataStutters ==
  ASSUME FileInv, NEW fd \in Fd, PutData(fd)
  PROVE  FilesOK' /\ StoreSteps
<1>1. PICK c \in Client, s0 \in Session, w \in Nat, data \in Seq(Client \X Int), k \in Nat :
        /\ c = conn[fd] /\ s0 = session[fd] /\ session[fd] # NULL /\ replies[c] = <<>>
        /\ s0.state = "READING_PUT_DATA" /\ Told(s0, c) /\ Carries(s0)
        /\ s0.flushed <= k /\ k <= w
        /\ s0.input = c => /\ taken'[c] = SIZE + w /\ s0.data = Blocks(c, s0.written)
                           /\ data = Blocks(c, w) /\ s0.written <= w
        /\ inode' = [inode EXCEPT ![s0.file] = Written(inode[s0.file], s0.flushed, k, data)]
        /\ Becomes(fd, [s0 EXCEPT !.data = data, !.written = w, !.flushed = k])
  BY PutDataFields DEF FileInv
<1>2. /\ UNCHANGED <<replies, directory, disk, before, request, spoilt, conn>>
      /\ ~ Closed /\ ~ Closed'
  BY NullAssumption DEF PutData, Receives, clients, Closed
<1>3. Writing(fd)
  BY <1>1 DEF Writing
<1>4. PICK n \in Name : n = s0.name /\ s0.file \in Client /\ request[s0.file].name = n
  BY <1>1, <1>3, WriterIs DEF FileInv
<1>5. PICK s : s = [s0 EXCEPT !.data = data, !.written = w, !.flushed = k]
  OBVIOUS
<1>6. s # NULL /\ s.state = "READING_PUT_DATA" /\ s.name = n /\ s.file = s0.file /\ s.flushed = k
  BY <1>1, <1>4, <1>5, NothingAssumption DEF Session
<1>7. session'[fd] = s /\ \A e \in Fd : e # fd => session'[e] = session[e]
  BY <1>1, <1>5 DEF Becomes, FileInv, TypeInv, FileType
<1>8. Touches(n, fd)
  <2>1. \A h \in Client : request[h].name # n => inode'[h] = inode[h]
    BY <1>1, <1>4 DEF FileInv, TypeInv, FileType
  <2>2. KeepsAnswers /\ session[fd].name = n /\ session'[fd].name = n
    BY <1>1, <1>2, <1>4, <1>6, <1>7 DEF KeepsAnswers
  <2> QED
    BY <1>2, <1>7, <2>1, <2>2 DEF Touches
<1>9. Closed' = Closed
  BY <1>2 DEF Closed
<1>10. CASE n \in spoilt
  BY <1>2, <1>8, <1>9, <1>10, SpoiltStays DEF StoreSteps, Stutters
<1>11. CASE n \notin spoilt
  <2>1. /\ Writers(n) = {fd} /\ disk[n] = s0.file
        /\ inode[s0.file] = Blocks(c, s0.flushed) /\ s0.input = c
    BY <1>1, <1>3, <1>4, <1>11, OneWriter, WriterIs DEF FileInv
  <2>2. Writers(n)' = {fd}
    BY <1>6, <1>7, <2>1 DEF Writers
  <2>3. inode'[s0.file] = Blocks(c, k)
    <3>1. Written(Blocks(c, s0.flushed), s0.flushed, k, Blocks(c, w)) = Blocks(c, k)
      BY <1>1, SessionFields, WrittenGrows
    <3> QED
      BY <1>1, <1>4, <2>1, <3>1 DEF FileInv, TypeInv, FileType
  <2>4. FileOK(n)
    BY <1>11 DEF FileInv, FilesOK
  <2>5. FileOK(n)'
    BY <1>1, <1>2, <1>6, <1>7, <2>1, <2>2, <2>3, <2>4 DEF FileOK
  <2>6. StoredFile(n)' = StoredFile(n)
    BY <1>2, <2>1, <2>2 DEF StoredFile
  <2>7. FilesOK' /\ Held' = Held
    BY <1>8, <1>11, <2>5, <2>6, StoreChanges
  <2> QED
    BY <1>2, <1>9, <2>7 DEF StoreSteps, Stutters
<1> QED
  BY <1>10, <1>11

\* Every way a request is processed.
LEMMA ProcessServes ==
  ASSUME FileInv, NEW fd \in Fd, Process(fd)
  PROVE  FilesOK' /\ StoreSteps
<1>1. ASSUME NEW s \in Session, s.state # "READING_PUT_DATA",
             NEW state \in {"READING_HEADER", "READING_PUT_SIZE"}, Receives(fd, state),
             Becomes(fd, s), UNCHANGED files, replies' = replies \/ Answers(conn[fd], "BAD_REQUEST", NULL)
      PROVE  FilesOK' /\ StoreSteps
  <2>1. PICK c \in Client : c = conn[fd] /\ replies[c] = <<>>
    BY <1>1, BeforeWriting
  <2>2. ~ Writing(fd) /\ ~ Closed /\ ~ Closed' /\ UNCHANGED <<request, conn, spoilt>>
    BY <1>1, BeforeWriting
  <2>3. KeepsAnswers => Quietly
    BY <1>1, <2>2, ReadsOn
  <2>4. CASE replies' = replies
    <3>1. Closed' = Closed
      BY <2>2 DEF Closed
    <3> QED
      BY <2>2, <2>3, <2>4, <3>1, QuietStutters DEF KeepsAnswers
  <2>5. CASE Answers(conn[fd], "BAD_REQUEST", NULL)
    BY <2>1, <2>2, <2>3, <2>5, BadRequestAnswers
  <2> QED
    BY <1>1, <2>4, <2>5
<1>2. ASSUME NEW state, Receives(fd, state), UNCHANGED <<session, files, replies>>
      PROVE  FilesOK' /\ StoreSteps
  <2>1. Quietly /\ Closed' = Closed /\ spoilt' = spoilt
    BY <1>2 DEF Receives, clients, Quietly, KeepsAnswers, Closed
  <2> QED
    BY <1>2, <2>1, QuietStutters
<1>3. ASSUME Receives(fd, "READING_HEADER")
      PROVE  \E i \in Session : i = Input(fd) /\ i.state = "READING_HEADER"
  <2>1. Current(fd) \in Session /\ Current(fd).state = "READING_HEADER" /\ conn[fd] \in Client
    BY <1>3, ReceiverReads DEF FileInv
  <2> QED
    BY <2>1, InputFields
<1>4. ASSUME Receives(fd, "READING_HEADER"), Refuses(fd)
      PROVE  FilesOK' /\ StoreSteps
  <2>1. PICK i \in Session : i = Input(fd)
    BY <1>3, <1>4
  <2>2. PICK s : s = [i EXCEPT !.state = "DONE"]
    OBVIOUS
  <2>3. s \in Session /\ s.state # "READING_PUT_DATA"
    BY <2>2 DEF Session, State
  <2>4. Becomes(fd, s) /\ UNCHANGED files /\ Answers(conn[fd], "BAD_REQUEST", NULL)
    BY <1>4, <2>1, <2>2 DEF Refuses
  <2> QED
    BY <1>1, <1>4, <2>3, <2>4
<1>5. CASE HeaderBegins(fd)
  <2>1. Receives(fd, "READING_HEADER") /\ Becomes(fd, Input(fd)) /\ replies' = replies /\ UNCHANGED files
    BY <1>5 DEF HeaderBegins
  <2>2. PICK i \in Session : i = Input(fd) /\ i.state = "READING_HEADER"
    BY <1>3, <2>1
  <2> QED
    BY <1>1, <2>1, <2>2
<1>6. CASE BadRequest(fd) \/ UnknownRequest(fd)
  BY <1>4, <1>6 DEF BadRequest, UnknownRequest
<1>7. CASE JoinedRequest(fd)
  BY <1>2, <1>4, <1>7 DEF JoinedRequest
<1>8. CASE StartPut(fd)
  <2>1. /\ Receives(fd, "READING_HEADER") /\ Own(fd) /\ request[conn[fd]].verb = "PUT"
        /\ replies' = replies
    BY <1>8 DEF StartPut, Parses
  <2>2. CASE sent[conn[fd]] >= SIZE
    BY <1>8, <2>1, <2>2, OpensOwnStutters DEF StartPut
  <2>3. CASE ~ sent[conn[fd]] >= SIZE
    <3>1. PICK i \in Session : i = Input(fd)
      BY <1>3, <2>1
    <3>2. PICK n \in Name : n = request[conn[fd]].name
      BY <2>1, BeforeWriting, PutFields
    <3>3. PICK s : s = [i EXCEPT !.state = "READING_PUT_SIZE", !.name = n]
      OBVIOUS
    <3>4. s \in Session /\ s.state # "READING_PUT_DATA"
      BY <3>3 DEF Session, State
    <3>5. Becomes(fd, s) /\ UNCHANGED files
      BY <1>8, <2>3, <3>1, <3>2, <3>3 DEF StartPut
    <3> QED
      BY <1>1, <2>1, <3>4, <3>5
  <2> QED
    BY <2>2, <2>3
<1>9. CASE PutSize(fd)
  <2>1. Receives(fd, "READING_PUT_SIZE") /\ Own(fd) /\ OpensOwn(fd) /\ replies' = replies
    BY <1>9 DEF PutSize
  <2> QED
    BY <2>1, OwnSize, OpensOwnStutters DEF FileInv
<1>10. CASE JoinedSize(fd)
  <2>1. /\ Receives(fd, "READING_PUT_SIZE") /\ ~ Own(fd) /\ replies' = replies
    BY <1>10 DEF JoinedSize
  <2>2. PICK c \in Client : c = conn[fd] /\ sent[c] \in Nat /\ taken[c] \in Nat /\ taken[c] < sent[c]
    BY <2>1, ReceiverReads DEF FileInv
  <2>3. /\ Input(fd) = session[fd] /\ Carries(session[fd])
        /\ session[fd].input # c /\ session[fd].name \in spoilt
    BY <2>1, <2>2, LeftBehind DEF FileInv, Uploads
  <2>4. CASE UNCHANGED <<session, files>>
    BY <1>2, <2>1, <2>4
  <2>5. CASE Opens(fd, UNREACHED, Data(c, taken[c] + 1, sent[c]))
    <3>1. PICK g \in Client : /\ g = session[fd].input /\ request[g].verb = "PUT"
                              /\ session[fd].name = request[g].name
      BY <2>3 DEF Carries
    <3>2. PICK data \in Seq(Client \X Int) : data = Data(c, taken[c] + 1, sent[c])
      <4>1. taken[c] + 1 \in Nat /\ taken[c] + 1 <= sent[c]
        BY <2>2
      <4> QED
        BY <2>2, <4>1, DataType
    <3>3. PICK size \in Int : size = UNREACHED
      BY DEF UNREACHED
    <3> QED
      BY <2>1, <2>2, <2>3, <2>5, <3>1, <3>2, <3>3, OpensStutters
  <2> QED
    BY <1>10, <2>2, <2>4, <2>5 DEF JoinedSize
<1>11. CASE Ignore(fd)
  BY <1>2, <1>11 DEF Ignore
<1> QED
  BY <1>5, <1>6, <1>7, <1>8, <1>9, <1>10, <1>11, GetAnswers, ListAnswers, DeleteAnswers, PutDataStutters
  DEF Process

\* sending_put_response makes the new file the one of the store, or loses both.
LEMMA EndPutAnswers ==
  ASSUME FileInv, NEW fd \in Fd, EndPut(fd)
  PROVE  FilesOK' /\ StoreSteps
<1>0. Ends(fd) /\ Current(fd).state = "READING_PUT_DATA" /\ before' = before
  BY DEF EndPut
<1>1. PICK c \in Client : c = conn[fd] /\ request[c] \in Request /\ replies[c] = <<>> /\ sent[c] = taken[c]
  BY <1>0, EnderReads DEF FileInv, Reading
<1>2. PICK s \in Session : s = session[fd] /\ session[fd] # NULL /\ s = Current(fd)
  BY <1>0, EnderReads DEF FileInv
<1>3. s.state = "READING_PUT_DATA" /\ Told(s, c)
  BY <1>0, <1>1, <1>2, EnderReads DEF FileInv
<1>4. Writing(fd)
  BY <1>2, <1>3 DEF Writing
<1>5. Carries(s) /\ s.written \in Nat /\ s.flushed \in Nat /\ s.flushed <= s.written
  BY <1>3, SessionFields DEF Told, Uploads
<1>6. PICK n \in Name : n = s.name /\ s.file \in Client /\ request[s.file].name = n
  BY <1>2, <1>4, WriterIs DEF FileInv
<1>7. /\ UNCHANGED <<request, spoilt>> /\ ~ Closed /\ ~ Closed'
      /\ session'[fd] = NULL
      /\ \A e \in Fd : e # fd => session'[e] = session[e] /\ conn'[e] = conn[e]
  BY <1>0, NullAssumption DEF Ends, Closed, Forgotten, FileInv, TypeInv, FileType, ConnType
<1>8. /\ inode' = [inode EXCEPT ![s.file] = Written(inode[s.file], s.flushed, s.written, s.data)]
      /\ \/ /\ s.written = s.size /\ Answers(c, "OK", NULL)
            /\ directory' = directory \cup {n} /\ disk' = disk
         \/ /\ s.written # s.size /\ Answers(c, "BAD_FILE_SIZE", NULL)
            /\ directory' = directory \ {n} /\ disk' = [disk EXCEPT ![n] = NULL]
  BY <1>1, <1>2, <1>6 DEF EndPut, AsAnnounced, Discard
<1>9. PICK status : Answers(c, status, NULL)
  BY <1>8
<1>10. KeepsAnswers /\ \A st : Answers(c, st, NULL) => FS!Answer(c, st, NULL)
  BY <1>1, <1>7, <1>9, StoreAnswers
<1>11. Touches(n, fd)
  <2>1. \A m \in Name : m # n => /\ m \in directory' <=> m \in directory
                                 /\ disk'[m] = disk[m] /\ before'[m] = before[m]
    BY <1>0, <1>8 DEF FileInv, TypeInv, FileType
  <2>2. \A h \in Client : request[h].name # n => inode'[h] = inode[h]
    BY <1>6, <1>8 DEF FileInv, TypeInv, FileType
  <2>3. session[fd].name = n /\ ~ Writing(fd)'
    BY <1>2, <1>6, <1>7 DEF Writing
  <2> QED
    BY <1>7, <1>10, <2>1, <2>2, <2>3 DEF Touches
<1>12. CASE n \in spoilt
  <2>1. FilesOK' /\ Held' = Held
    BY <1>11, <1>12, SpoiltStays
  <2>2. request[c].name \in spoilt \/ c \in Misled
    <3>1. CASE s.input = c
      BY <1>5, <1>6, <1>12, <3>1 DEF Carries
    <3>2. CASE s.input # c
      BY <1>1, <1>2, <1>5, <3>2, NullAssumption DEF Carries, Misled, Own
    <3> QED
      BY <3>1, <3>2
  <2>3. FS!Next
    BY <1>1, <1>7, <1>9, <2>1, <2>2, StoreGuesses
  <2> QED
    BY <2>1, <2>3 DEF StoreSteps
<1>13. CASE n \notin spoilt
  <2>1. /\ s.input = c /\ request[c].verb = "PUT" /\ n = request[c].name
        /\ Writers(n) = {fd} /\ disk[n] = s.file /\ inode[s.file] = Blocks(c, s.flushed)
    <3>1. session[fd].name = n /\ session[fd].name \notin spoilt
      BY <1>2, <1>6, <1>13
    <3>2. s.input = c /\ request[c].verb = "PUT" /\ n = request[c].name
      BY <1>1, <1>2, <1>4, <3>1, WriterIs DEF FileInv
    <3>3. Writers(n) = {fd} /\ disk[n] = s.file /\ inode[s.file] = Blocks(c, s.flushed)
      BY <1>1, <1>2, <1>4, <3>1, OneWriter
    <3> QED
      BY <3>2, <3>3
  <2>2. s.size = request[c].size /\ taken[c] = SIZE + s.written /\ s.data = Blocks(c, s.written)
    BY <1>3, <2>1 DEF Told, Reading, Counts
  <2>3. Writers(n)' = {}
    BY <1>7, <2>1 DEF Writers
  <2>4. inode'[s.file] = Blocks(c, s.written)
    <3>1. s.written <= s.written
      BY <1>5
    <3>2. Written(Blocks(c, s.flushed), s.flushed, s.written, Blocks(c, s.written)) = Blocks(c, s.written)
      BY <1>5, <3>1, WrittenGrows
    <3> QED
      BY <1>6, <1>8, <2>1, <2>2, <3>2 DEF FileInv, TypeInv, FileType
  <2>5. before'[n] \in Seq(Client \X Int)
    BY <1>0, <1>13 DEF FileInv, FilesOK, FileOK
  <2>6. CASE s.written = s.size
    <3>1. Answers(c, "OK", NULL) /\ directory' = directory \cup {n} /\ disk' = disk
      BY <1>8, <2>6
    <3>2. FS!Answer(c, "OK", NULL)
      BY <1>10, <3>1
    <3>3. inode'[s.file] = Whole(c) /\ Whole(c) = FS!File(c) /\ Whole(c)' = Whole(c)
      BY <1>7, <2>2, <2>4, <2>6 DEF Blocks, Whole, FS!File
    <3>4. \E r \in DOMAIN replies'[c] : replies'[c][r].status = "OK"
      <4>1. replies'[c] = << [status |-> "OK", body |-> NULL] >>
        BY <1>1, <3>1, AnswersFirst DEF FileInv, TypeInv, ReplyType
      <4>2. 1 \in DOMAIN replies'[c] /\ replies'[c][1].status = "OK"
        BY <4>1
      <4> QED
        BY <4>2
    <3>5. /\ disk'[n] = s.file /\ n \in directory' /\ inode'[disk'[n]] = Whole(c)' /\ s.file # NULL
      BY <1>6, <2>1, <3>1, <3>3, NullAssumption
    <3>6. FileOK(n)'
      BY <1>7, <2>1, <2>3, <2>5, <3>4, <3>5, NullAssumption DEF FileOK
    <3>7. StoredFile(n)' = FS!File(c)
      BY <2>3, <3>3, <3>5 DEF StoredFile
    <3>8. FilesOK' /\ Held' = [Held EXCEPT ![n] = FS!File(c)]
      BY <1>11, <1>13, <3>6, <3>7, StoreChanges
    <3>9. request[c].size <= request[c].blocks
      <4>1. sent[c] <= Pieces(c) /\ sent[c] = SIZE + request[c].size
        BY <1>1, <2>2, <2>6 DEF FileInv, TypeInv, NetType
      <4>2. Pieces(c) = SIZE + request[c].blocks /\ request[c].blocks \in Nat /\ request[c].size \in Nat
        BY <1>1, <2>1, PiecesType, PutFields
      <4> QED
        BY <4>1, <4>2 DEF SIZE
    <3>10. FS!Put(c)
      BY <1>13, <2>1, <3>2, <3>8, <3>9 DEF FS!Put, FS!Asks, FS!Store, FS!Known, Held
    <3> QED
      BY <3>8, <3>10 DEF StoreSteps, FS!Next
  <2>7. CASE s.written # s.size
    <3>1. /\ Answers(c, "BAD_FILE_SIZE", NULL)
          /\ directory' = directory \ {n} /\ disk' = [disk EXCEPT ![n] = NULL]
      BY <1>8, <2>7
    <3>2. FS!Answer(c, "BAD_FILE_SIZE", NULL)
      BY <1>10, <3>1
    <3>3. FileOK(n)' /\ StoredFile(n)' = NULL
      BY <2>3, <2>5, <3>1 DEF FileOK, StoredFile, FileInv, TypeInv, FileType
    <3>4. FilesOK' /\ Held' = [Held EXCEPT ![n] = NULL]
      BY <1>11, <1>13, <3>3, StoreChanges
    <3>5. FS!BadSize(c)
      BY <1>13, <2>1, <3>2, <3>4 DEF FS!BadSize, FS!Asks, FS!Store, FS!Known, Held
    <3> QED
      BY <3>4, <3>5 DEF StoreSteps, FS!Next
  <2> QED
    BY <2>6, <2>7
<1> QED
  BY <1>12, <1>13

\* A closed connection ends the upload it was in the middle of, or does not show.
LEMMA FinishServes ==
  ASSUME FileInv, NEW fd \in Fd, Finish(fd)
  PROVE  FilesOK' /\ StoreSteps
<1>1. ASSUME Ends(fd), ~ Writing(fd), UNCHANGED files
      PROVE  KeepsAnswers => Quietly
  <2>1. /\ session'[fd] = NULL /\ UNCHANGED <<request, spoilt>>
        /\ \A e \in Fd : e # fd => session'[e] = session[e] /\ conn'[e] = conn[e]
    BY <1>1 DEF Ends, Forgotten, FileInv, TypeInv, FileType, ConnType
  <2> QED
    BY <1>1, <2>1 DEF Quietly, Writing
<1>2. ASSUME Current(fd).state # "READING_PUT_DATA"
      PROVE  ~ Writing(fd)
  BY <1>2 DEF Current, Known, Writing
<1>3. ASSUME Ends(fd)
      PROVE  ~ Closed /\ ~ Closed' /\ UNCHANGED <<request, spoilt>>
  BY <1>3, NullAssumption DEF Ends, Closed
<1>4. CASE EndPutSize(fd)
  <2>1. /\ Ends(fd) /\ Current(fd).state = "READING_PUT_SIZE"
        /\ Answers(conn[fd], "BAD_REQUEST", NULL) /\ UNCHANGED files
    BY <1>4 DEF EndPutSize
  <2>2. PICK c \in Client : c = conn[fd] /\ replies[c] = <<>>
    BY <2>1, EnderReads DEF FileInv, Reading
  <2> QED
    BY <1>1, <1>2, <1>3, <2>1, <2>2, BadRequestAnswers
<1>5. CASE EndOther(fd)
  <2>1. /\ Ends(fd) /\ Current(fd).state # "READING_PUT_DATA"
        /\ UNCHANGED files /\ replies' = replies
    BY <1>5 DEF EndOther
  <2>2. Closed' = Closed /\ spoilt' = spoilt
    BY <1>3, <2>1 DEF Closed
  <2> QED
    BY <1>1, <1>2, <2>1, <2>2, QuietStutters DEF KeepsAnswers
<1> QED
  BY <1>4, <1>5, EndPutAnswers DEF Finish

\* The store closes when the server stops.
LEMMA StopCloses ==
  ASSUME FileInv, Stop
  PROVE  Disjoint' /\ FilesOK' /\ FS!Close
<1>1. /\ \A n \in Name : Writers(n)' = {} /\ before'[n] = <<>>
      /\ directory' = {} /\ disk' = [n \in Name |-> NULL]
      /\ UNCHANGED <<request, replies, spoilt>> /\ ~ Closed /\ Closed'
  BY DEF Stop, Writers, Writing, RemoveDirectory, Closed
<1>2. \A n \in Name : FileOK(n)' /\ StoredFile(n)' = NULL
  <2>1. <<>> \in Seq(Client \X Int)
    OBVIOUS
  <2> QED
    BY <1>1, <2>1 DEF FileOK, StoredFile
<1>3. Disjoint'
  BY DEF Stop, Disjoint, Connected, FileInv, TypeInv, NetType
<1>4. Held' = [n \in Name |-> NULL]
  BY <1>2 DEF Held
<1>5. FS!Close
  BY <1>1, <1>4 DEF FS!Close, Held, Closed
<1> QED
  BY <1>2, <1>3, <1>5 DEF FilesOK

\* Every step keeps the invariant, and is a step of the store or does not show.
LEMMA NextServes ==
  ASSUME ~ Overlaps, FileInv, [Next]_vars
  PROVE  FileInv' /\ StoreSteps
<1>1. TypeInv'
  BY NextKeepsType DEF FileInv
<1>2. CASE UNCHANGED vars
  <2>1. Quietly /\ replies' = replies /\ Closed' = Closed /\ spoilt' = spoilt
    BY <1>2 DEF vars, clients, Quietly, KeepsAnswers, Closed
  <2>2. Disjoint'
    BY <1>2, DisjointStays DEF vars, clients, FileInv, Connected
  <2> QED
    BY <1>1, <2>1, <2>2, QuietStutters DEF FileInv
<1>3. ASSUME NEW c \in Client, Connect(c) \/ Send(c) \/ Shutdown(c) \/ Reset(c) \/ Drains(c)
      PROVE  FileInv' /\ StoreSteps
  <2>1. Quietly /\ replies' = replies /\ Closed' = Closed /\ spoilt' = spoilt
    BY <1>3, NetworkQuiet DEF Closed
  <2>2. Disjoint'
    <3>1. CASE Connect(c)
      BY <3>1, ConnectKeepsDisjoint
    <3>2. CASE Send(c) \/ Shutdown(c) \/ Reset(c) \/ Drains(c)
      BY <3>2, DisjointStays DEF Send, Shutdown, Reset, Drains, clients, FileInv, Connected
    <3> QED
      BY <1>3, <3>1, <3>2
  <2> QED
    BY <1>1, <2>1, <2>2, QuietStutters DEF FileInv
<1>4. ASSUME NEW fd \in Fd,
             \/ EpollError(fd) \/ Serve(fd) \/ Again(fd) \/ SendFails(fd)
             \/ \E c \in Client : Accept(c, fd)
      PROVE  FileInv' /\ StoreSteps
  <2>1. /\ Quietly /\ replies' = replies /\ Closed' = Closed
        /\ spoilt' = spoilt \/ \E n \in Name : spoilt' = spoilt \cup {n}
    BY <1>4, LoopQuiet DEF Closed
  <2>2. Disjoint'
    BY <1>4, <2>1, LoopQuiet, DisjointStays DEF FileInv, Quietly
  <2>3. FilesOK' /\ StoreSteps
    BY <2>1, QuietStutters, QuietDoubts
  <2> QED
    BY <1>1, <2>2, <2>3 DEF FileInv
<1>5. ASSUME NEW fd \in Fd, Process(fd)
      PROVE  FileInv' /\ StoreSteps
  <2>1. request' = request /\ phase' = phase
    <3>1. \/ Receives(fd, "READING_HEADER") \/ Receives(fd, "READING_PUT_SIZE")
          \/ Receives(fd, "READING_PUT_DATA") \/ Receives(fd, "DONE") \/ Receives(fd, "SENDING_GET")
      BY <1>5, Zenon DEF Process, HeaderBegins, BadRequest, UnknownRequest, JoinedRequest, Get, List, Delete,
                  StartPut, PutSize, JoinedSize, PutData, Ignore, Parses
    <3> QED
      BY <3>1 DEF Receives, clients
  <2>2. Disjoint'
    BY <2>1, DisjointStays DEF FileInv, Connected
  <2> QED
    BY <1>1, <1>5, <2>2, ProcessServes DEF FileInv
<1>6. ASSUME NEW fd \in Fd, Finish(fd)
      PROVE  FileInv' /\ StoreSteps
  <2>1. Ends(fd)
    BY <1>6 DEF Finish, EndPutSize, EndPut, EndOther
  <2>2. Disjoint'
    BY <2>1, DisjointStays DEF Ends, FileInv, Connected, TypeInv, NetType
  <2> QED
    BY <1>1, <1>6, <2>2, FinishServes DEF FileInv
<1>7. CASE Stop
  BY <1>1, <1>7, StopCloses DEF FileInv, StoreSteps, FS!Next
<1> QED
  BY <1>2, <1>3, <1>4, <1>5, <1>6, <1>7 DEF Next, Server, Network

\* The server starts with an empty directory, the store with no file.
LEMMA InitServes == Init => FileInv /\ FS!Init
<1> SUFFICES ASSUME Init
             PROVE  FileInv /\ FS!Init
  OBVIOUS
<1>1. TypeInv
  BY InitType
<1>2. Disjoint
  BY DEF Init, Disjoint, Connected
<1>3. \A n \in Name : FileOK(n) /\ StoredFile(n) = NULL
  <2>1. <<>> \in Seq(Client \X Int)
    OBVIOUS
  <2> QED
    BY <2>1 DEF Init, Initialize, FileOK, StoredFile, Writers
<1>4. FS!Init
  BY <1>3, NullAssumption DEF FS!Init, Init
<1> QED
  BY <1>1, <1>2, <1>3, <1>4 DEF FileInv, FilesOK

\* The second invariant: files, the list of them and the uploads in progress.
LEMMA SpecFiles ==
  ASSUME ~ Overlaps
  PROVE  Spec => []FileInv
<1>1. FileInv /\ [Next]_vars => FileInv'
  BY NextServes
<1> QED
  BY InitServes, <1>1, PTL DEF Spec

\* The list of names and the temporary directory agree on every file that is
\* not being uploaded and that no reset left behind in mid-upload.
THEOREM ListIsTrue ==
  ASSUME ~ Overlaps
  PROVE  Spec => []ListMatchesDisk
<1>1. FileInv => ListMatchesDisk
  BY DEF FileInv, FilesOK, FileOK, ListMatchesDisk
<1> QED
  BY <1>1, SpecFiles, PTL

\* A file nobody uploads is what one client sent in a PUT that was answered
\* OK, unless a reset left an upload of that name behind.
THEOREM FilesStayWhole ==
  ASSUME ~ Overlaps
  PROVE  Spec => []FilesAreWhole
<1>1. FileInv => FilesAreWhole
  BY DEF FileInv, FilesOK, FileOK, FilesAreWhole
<1> QED
  BY <1>1, SpecFiles, PTL

\* Every step of the server is a step of a store of whole files that answers
\* one request at a time, or does not show; a reset in the middle of an upload
\* makes that one name doubtful.
THEOREM StoreIsImplemented ==
  ASSUME ~ Overlaps
  PROVE  Spec => ImplementsStore
<1>1. FileInv /\ [Next]_vars => [FS!Next]_<<request, Held, replies, Closed, spoilt>>
  BY NextServes DEF StoreSteps, Stutters
<1>2. Init => FS!Init
  BY InitServes
<1> QED
  BY <1>1, <1>2, SpecFiles, PTL DEF Spec, ImplementsStore, FS!Spec, Held, Closed
=============================================================================
