--------------------------- MODULE FileClientProofs ---------------------------
(***************************************************************************)
(* What the file client tells its user is true, for every file, every      *)
(* buffer and every way the answer is cut into reads.                      *)
(***************************************************************************)
EXTENDS FileClientProperties, SequenceTheorems, TLAPS

------------------------------------------------------------------------------
(* Sequences, cell by cell.                                                 *)

\* A sequence is its first n elements and the rest.
LEMMA Cut ==
  ASSUME NEW S, NEW s \in Seq(S), NEW n \in 0 .. Len(s)
  PROVE  /\ SubSeq(s, 1, n) \in Seq(S) /\ Len(SubSeq(s, 1, n)) = n
         /\ \A i \in 1 .. n : SubSeq(s, 1, n)[i] = s[i]
         /\ SubSeq(s, n + 1, Len(s)) \in Seq(S)
         /\ Len(SubSeq(s, n + 1, Len(s))) = Len(s) - n
         /\ \A i \in 1 .. Len(s) - n : SubSeq(s, n + 1, Len(s))[i] = s[n + i]
<1>1. Len(s) \in Nat /\ \A i \in 1 .. Len(s) : s[i] \in S
  BY LenProperties, ElementOfSeq
<1>2. /\ SubSeq(s, 1, n) \in Seq(S) /\ Len(SubSeq(s, 1, n)) = n
      /\ \A i \in 1 .. n : SubSeq(s, 1, n)[i] = s[i]
  <2>1. \A i \in 1 .. n : s[i] \in S
    BY <1>1
  <2>2. /\ SubSeq(s, 1, n) \in Seq(S)
        /\ Len(SubSeq(s, 1, n)) = IF 1 <= n THEN n - 1 + 1 ELSE 0
        /\ \A i \in 1 .. n - 1 + 1 : SubSeq(s, 1, n)[i] = s[1 + i - 1]
    BY <2>1, SubSeqProperties
  <2> QED
    BY <1>1, <2>2
<1>3. /\ SubSeq(s, n + 1, Len(s)) \in Seq(S)
      /\ Len(SubSeq(s, n + 1, Len(s))) = Len(s) - n
      /\ \A i \in 1 .. Len(s) - n : SubSeq(s, n + 1, Len(s))[i] = s[n + i]
  <2>1. \A i \in n + 1 .. Len(s) : s[i] \in S
    BY <1>1
  <2>2. n + 1 \in Int /\ Len(s) \in Int
    BY <1>1
  <2>3. /\ SubSeq(s, n + 1, Len(s)) \in Seq(S)
        /\ Len(SubSeq(s, n + 1, Len(s))) = IF n + 1 <= Len(s) THEN Len(s) - (n + 1) + 1 ELSE 0
        /\ \A i \in 1 .. Len(s) - (n + 1) + 1 : SubSeq(s, n + 1, Len(s))[i] = s[n + 1 + i - 1]
    BY <2>1, <2>2, SubSeqProperties
  <2> QED
    BY <1>1, <2>3
<1> QED
  BY <1>2, <1>3

\* Two sequences one after the other.
LEMMA Joined ==
  ASSUME NEW S, NEW s \in Seq(S), NEW t \in Seq(S)
  PROVE  /\ s \o t \in Seq(S) /\ Len(s \o t) = Len(s) + Len(t)
         /\ \A i \in 1 .. Len(s) : (s \o t)[i] = s[i]
         /\ \A i \in 1 .. Len(t) : (s \o t)[Len(s) + i] = t[i]
<1>1. /\ s \o t \in Seq(S)
      /\ Len(s \o t) = Len(s) + Len(t)
      /\ \A i \in 1 .. Len(s) + Len(t) : (s \o t)[i] =
           IF i <= Len(s) THEN s[i] ELSE t[i - Len(s)]
  BY ConcatProperties
<1>2. Len(s) \in Nat /\ Len(t) \in Nat
  BY LenProperties
<1>3. ASSUME NEW i \in 1 .. Len(t)
      PROVE  (s \o t)[Len(s) + i] = t[i]
  <2>1. Len(s) + i \in 1 .. Len(s) + Len(t) /\ ~ (Len(s) + i <= Len(s)) /\ Len(s) + i - Len(s) = i
    BY <1>2
  <2> QED
    BY <1>1, <2>1
<1>4. ASSUME NEW i \in 1 .. Len(s)
      PROVE  (s \o t)[i] = s[i]
  BY <1>1, <1>2
<1> QED
  BY <1>1, <1>3, <1>4

\* The first element and the others.
LEMMA Rest ==
  ASSUME NEW S, NEW s \in Seq(S), s # <<>>
  PROVE  /\ Len(s) \in Nat \ {0} /\ Head(s) = s[1]
         /\ Tail(s) \in Seq(S) /\ Len(Tail(s)) = Len(s) - 1
         /\ \A i \in 1 .. Len(s) - 1 : Tail(s)[i] = s[1 + i]
<1>1. Len(s) \in Nat \ {0}
  BY EmptySeq
<1>2. Tail(s) = SubSeq(s, 1 + 1, Len(s)) /\ Head(s) = s[1]
  BY TailIsSubSeq
<1> QED
  BY <1>1, <1>2, Cut

------------------------------------------------------------------------------
(* The request.                                                             *)

Verbs == {"GET", "PUT", "LIST", "DELETE"}
Sending == {"start", "header", "size", "blocks", "shutdown"}
Piece == {"header"} \cup Nat \cup Block

\* What has been sent of a PUT is the size of the file and its first blocks.
UploadInv ==
  Len(uplink) > 1 =>
    /\ Verb = "PUT" /\ command.file # Missing
    /\ uplink[2] = command.file.size
    /\ Len(uplink) - 2 <= Len(command.file.blocks)
    /\ \A i \in 1 .. Len(uplink) - 2 : uplink[2 + i] = command.file.blocks[i]
RequestInv ==
  /\ command \in Commands
  /\ uplink \in Seq(Piece)
  /\ count \in Nat
  /\ step \in {"start", "header"} => uplink = <<>>
  /\ step = "header" \/ uplink # <<>> => Verb \in Verbs
  /\ step = "size" => Verb = "PUT" /\ Len(uplink) = 1
  /\ step = "blocks" => /\ Len(uplink) = 2 + count
                        /\ count = 0 \/ count < command.file.size
  /\ step \in (Sending \ {"blocks"}) \cup {"first"} => count = 0
  /\ shut => step \notin Sending
  /\ UploadInv

------------------------------------------------------------------------------
(* The answer.                                                              *)

Cell == {"OK", "ERROR", "message", "size", "data"} \X (Nat \cup Block \cup STRING)

\* An error has a message; the answers that carry data have its size twice.
IsError(ans) == /\ Len(ans) = 4
                /\ ans[1] = <<"ERROR", 1>> /\ ans[2] = <<"ERROR", 2>>
                /\ ans[3] = <<"message", 1>> /\ ans[4] = <<"message", 2>>
IsOk(ans) == /\ ans[1] = <<"OK", 1>> /\ ans[2] = <<"OK", 2>>
             /\ IF Verb \in {"GET", "LIST"}
                THEN /\ Len(ans) >= 4
                     /\ ans[3] = <<"size", Len(ans) - 4>> /\ ans[4] = <<"size", Len(ans) - 4>>
                ELSE Len(ans) = 2

\* The answer that was given.  Nothing changes it any more, but that of a
\* DELETE: the file it was about is gone.
Given(ans) ==
  /\ ans \in Seq(Cell) /\ Verb \in Verbs
  /\ IsError(ans) \/ IsOk(ans)
  /\ Verb # "DELETE" => ans = Answer
  /\ Verb = "PUT" => Eof /\ Len(uplink) > 0 /\ (Accepted => stored = Uploaded) /\ (IsOk(ans) <=> Accepted)

\* The first p cells of the answer have been read; what is held and what is on
\* its way follow them.
Streams(ans, p) ==
  /\ p \in Nat /\ p + Len(held) + Len(downlink) <= Len(ans)
  /\ \A i \in 1 .. Len(held) : held[i] = ans[p + i]
  /\ \A i \in 1 .. Len(downlink) : downlink[i] = ans[p + Len(held) + i]
  /\ peer \in {"answered", "closed"} => p + Len(held) + Len(downlink) = Len(ans)

\* The data that has been written.
Wrote(ans, n) == /\ Len(output) = n /\ 4 + n <= Len(ans)
                 /\ \A i \in 1 .. n : output[i] = ans[4 + i]

\* How far each reader is.
ReaderAt(ans, p) ==
  /\ step \in Sending \cup {"first"} => p = 0 /\ held = <<>>
  /\ step = "line" => p \in {0, 1} /\ count = 0
  /\ step = "message" => IsError(ans) /\ p \in {2, 3}
  /\ step = "size?" => /\ Verb \in {"GET", "LIST"} /\ IsOk(ans)
                       /\ count \in {0, 1} /\ p = 2 + count /\ output = <<>>
  /\ step = "get" => /\ Verb = "GET" /\ IsOk(ans) /\ held = <<>>
                     /\ p = 4 + count /\ Wrote(ans, count) /\ expected = Len(ans) - 4
  /\ step = "names" => /\ Verb = "LIST" /\ IsOk(ans)
                       /\ p = 4 + count /\ Wrote(ans, count) /\ expected = Len(ans) - 4
  /\ step = "extra" => /\ IsOk(ans) /\ p >= 2
                       /\ Verb = "GET" => FALSE
                       /\ Verb = "LIST" => p = Len(ans) /\ Wrote(ans, Len(ans) - 4)

\* What only an answer makes a client say, and what none does.
OfAnswers == {"", "success", "received too much data"}
\* What a client that has ended says.
EndSays(ans) ==
  /\ result.exit = 0 /\ result.said = "" =>
       Verb \in {"GET", "LIST"} /\ IsOk(ans) /\ Wrote(ans, Len(ans) - 4)
  /\ result.exit = 0 /\ Verb = "PUT" => IsOk(ans)
  /\ result.said = "success" => result.exit = 0
  /\ result.said # "received too much data"
EndFails ==
  Ended /\ Verb = "PUT" /\ ~ Lost /\ Accepted /\ result.exit # 0 => command.file.size = 0

Reads(ans, p) == Streams(ans, p) /\ ReaderAt(ans, p) /\ (Ended => EndSays(ans))

\* Before the answer nothing is there to read.
Silent ==
  /\ peer \notin {"answered", "closed"}
  /\ downlink = <<>> /\ held = <<>>
  /\ step \in Sending \cup {"first", "ended"}
  /\ Ended => result.exit # 0 /\ result.said \notin OfAnswers

Steps == Sending \cup Reading \cup {"get", "ended"}
KindInv ==
  /\ step \in Steps
  /\ peer \in {"serves", "answered", "closed", "killed", "reset"}
  /\ held \in Seq(Cell) /\ downlink \in Seq(Cell) /\ output \in Seq(Cell)
  /\ Verb \in {"GET", "LIST"} => stored \in {Missing} \cup Seq(Block)
AnswerInv ==
  /\ peer = "serves" => Silent
  /\ Silent \/ \E ans : \E p \in Nat : Given(ans) /\ Reads(ans, p)

Inv == RequestInv /\ KindInv /\ AnswerInv /\ EndFails

------------------------------------------------------------------------------
(* The request, step by step.                                               *)

\* What is read of a local file has a size and blocks.
LEMMA CommandKind ==
  ASSUME command \in Commands
  PROVE  /\ command.name \in STRING
         /\ command.file # Missing => /\ command.file.size \in Nat
                                      /\ command.file.blocks \in Seq(Block)
  BY CommandAssumption

\* A turn of the loop of send_file sends the blocks after those it has sent.
LEMMA BlocksFollow ==
  ASSUME RequestInv, SendBlocks
  PROVE  RequestInv'
<1> DEFINE blocks == command.file.blocks
           left == SubSeq(blocks, count + 1, Len(blocks))
           n == IF Len(left) < Buffer THEN Len(left) ELSE Buffer
           sent == SubSeq(left, 1, n)
<1> HIDE DEF blocks, left, n, sent
<1>1. /\ step = "blocks" /\ ~ shut /\ count \in Nat /\ uplink \in Seq(Piece)
      /\ Len(uplink) = 2 + count
      /\ command \in Commands /\ command' = command /\ shut' = shut
  BY DEF SendBlocks, RequestInv, Sending
<1>2. /\ Verb = "PUT" /\ command.file # Missing /\ uplink[2] = command.file.size
      /\ count <= Len(blocks)
      /\ \A i \in 1 .. count : uplink[2 + i] = blocks[i]
  BY <1>1 DEF RequestInv, UploadInv, blocks
<1>3. command.file.size \in Nat /\ blocks \in Seq(Block) /\ Len(blocks) \in Nat
  BY <1>1, <1>2, CommandKind, LenProperties DEF blocks
<1>4. /\ left \in Seq(Block) /\ Len(left) = Len(blocks) - count
      /\ \A i \in 1 .. Len(blocks) - count : left[i] = blocks[count + i]
  <2>1. count \in 0 .. Len(blocks)
    BY <1>1, <1>2, <1>3
  <2> QED
    BY <1>3, <2>1, Cut DEF left
<1>5. CASE left = <<>>
  <2>1. step' = "ended" /\ UNCHANGED <<command, uplink, count, shut>>
    BY <1>1, <1>5 DEF SendBlocks, Ends, left, blocks
  <2> QED
    BY <1>1, <1>2, <2>1 DEF RequestInv, UploadInv, Sending, Verbs, Verb, blocks
<1>6. CASE left # <<>>
  <2>1. Len(left) \in Nat \ {0}
    BY <1>4, <1>6, EmptySeq
  <2>2. n \in 1 .. Len(left)
    BY <2>1, BufferAssumption DEF n
  <2>3. /\ sent \in Seq(Block) /\ Len(sent) = n
        /\ \A i \in 1 .. n : sent[i] = left[i]
    <3>1. n \in 0 .. Len(left)
      BY <2>1, <2>2
    <3> QED
      BY <1>4, <3>1, Cut DEF sent
  <2>4. /\ uplink' = uplink \o sent
        /\ \/ More(count + n) /\ count' = count + n /\ step' = "blocks"
           \/ count' = 0 /\ step' = "shutdown"
    BY <1>1, <1>6 DEF SendBlocks, left, n, sent, blocks
  <2>5. sent \in Seq(Piece)
    BY <2>3, SeqMonotonic DEF Piece
  <2>6. /\ uplink' \in Seq(Piece) /\ Len(uplink') = 2 + count + n
        /\ \A i \in 1 .. 2 + count : uplink'[i] = uplink[i]
        /\ \A i \in 1 .. n : uplink'[2 + count + i] = sent[i]
    <3>1. /\ uplink \o sent \in Seq(Piece) /\ Len(uplink \o sent) = Len(uplink) + Len(sent)
          /\ \A i \in 1 .. Len(uplink) : (uplink \o sent)[i] = uplink[i]
          /\ \A i \in 1 .. Len(sent) : (uplink \o sent)[Len(uplink) + i] = sent[i]
      <4>1. uplink \in Seq(Piece)
        BY <1>1
      <4> QED
        BY <2>5, <4>1, Joined
    <3> QED
      BY <1>1, <2>3, <2>4, <3>1
  <2>7. count + n <= Len(blocks) /\ count + n \in Nat
    BY <1>1, <1>3, <1>4, <2>1, <2>2
  <2>8. ASSUME NEW i \in 1 .. count + n
        PROVE  uplink'[2 + i] = blocks[i]
    <3>1. CASE i <= count
      <4>1. 2 + i \in 1 .. 2 + count /\ i \in 1 .. count
        BY <1>1, <2>2, <3>1
      <4> QED
        BY <1>2, <2>6, <4>1
    <3>2. CASE i > count
      <4>1. i - count \in 1 .. n /\ 2 + count + (i - count) = 2 + i /\ count + (i - count) = i
        BY <1>1, <1>3, <1>4, <2>2, <3>2
      <4>2. i - count \in 1 .. Len(blocks) - count
        BY <1>1, <1>3, <1>4, <2>2, <4>1
      <4>3. uplink'[2 + i] = sent[i - count] /\ sent[i - count] = left[i - count]
        BY <2>3, <2>6, <4>1
      <4> QED
        BY <1>4, <4>1, <4>2, <4>3
    <3> QED
      BY <1>1, <1>3, <1>4, <2>2, <3>1, <3>2
  <2>9. uplink'[2] = command.file.size
    BY <1>1, <1>2, <2>6
  <2>10. UploadInv'
    BY <1>1, <1>2, <2>2, <2>6, <2>7, <2>8, <2>9 DEF UploadInv, Verb, blocks
  <2>11. uplink' # <<>>
    BY <1>1, <1>3, <1>4, <2>2, <2>6, EmptySeq
  <2>12. step' = "blocks" => Len(uplink') = 2 + count' /\ (count' = 0 \/ count' < command.file.size)
    BY <1>1, <1>2, <2>2, <2>4, <2>6 DEF More
  <2>13. /\ count' \in Nat /\ step' \in {"blocks", "shutdown"}
         /\ step' = "shutdown" => count' = 0
    BY <2>4, <2>7
  <2> QED
    BY <1>1, <1>2, <2>6, <2>10, <2>11, <2>12, <2>13 DEF RequestInv, Sending, Verbs, Verb
<1> QED
  BY <1>5, <1>6

\* The header and the size come before.
LEMMA HeaderFirst ==
  ASSUME RequestInv, Start \/ SendHeader \/ SendSize \/ Shutdown
  PROVE  RequestInv'
<1>1. command \in Commands /\ uplink \in Seq(Piece) /\ count \in Nat /\ UploadInv
  BY DEF RequestInv
<1>2. CASE Start
  <2>1. /\ UNCHANGED <<command, uplink, count, shut>> /\ step = "start"
        /\ step' = "ended" \/ (step' = "header" /\ check_args)
    BY <1>2 DEF Start, requestVars, Ends
  <2>2. check_args => Verb \in Verbs
    BY DEF check_args, Verbs
  <2>3. uplink = <<>> /\ count = 0 /\ ~ shut
    BY <2>1 DEF RequestInv, Sending
  <2>4. UploadInv'
    BY <1>1, <2>1 DEF UploadInv, Verb
  <2> QED
    BY <1>1, <2>1, <2>2, <2>3, <2>4 DEF RequestInv, Sending, Verb
<1>3. CASE SendHeader
  <2>1. /\ step = "header" /\ uplink = <<>> /\ Verb \in Verbs /\ count = 0 /\ ~ shut
        /\ UNCHANGED <<command, count, shut>> /\ uplink' = <<"header">>
        /\ step' = IF Verb = "PUT" THEN "size" ELSE "shutdown"
    BY <1>3 DEF SendHeader, Sends, RequestInv, Sending
  <2>2. uplink' \in Seq(Piece) /\ Len(uplink') = 1
    BY <2>1 DEF Piece
  <2> QED
    BY <1>1, <2>1, <2>2 DEF RequestInv, Sending, Verb, UploadInv
<1>4. CASE SendSize
  <2>1. /\ step = "size" /\ Verb = "PUT" /\ count = 0 /\ Len(uplink) = 1 /\ uplink # <<>>
        /\ UNCHANGED <<command, count, shut>>
    <3>1. step = "size" /\ UNCHANGED <<command, count, shut>>
      BY <1>4 DEF SendSize, answerVars
    <3>2. Verb = "PUT" /\ count = 0 /\ Len(uplink) = 1
      BY <3>1 DEF RequestInv, Sending
    <3> QED
      BY <3>1, <3>2, EmptySeq
  <2>2. CASE command.file = Missing
    <3>1. UNCHANGED uplink /\ step' = "ended"
      BY <1>4, <2>2 DEF SendSize, Ends
    <3> QED
      BY <1>1, <2>1, <3>1 DEF RequestInv, Sending, Verb, Verbs, UploadInv
  <2>3. CASE command.file # Missing
    <3>1. uplink' = Append(uplink, command.file.size) /\ step' = "blocks"
      BY <1>4, <2>3 DEF SendSize, Sends
    <3>2. command.file.size \in Nat /\ command.file.blocks \in Seq(Block)
          /\ Len(command.file.blocks) \in Nat
      BY <1>1, <2>3, CommandKind, LenProperties
    <3>3. /\ uplink' \in Seq(Piece) /\ Len(uplink') = 2 /\ uplink'[2] = command.file.size
          /\ uplink' # <<>>
      <4>1. command.file.size \in Piece
        BY <3>2 DEF Piece
      <4>2. uplink \in Seq(Piece)
        BY <1>1
      <4>3. /\ Append(uplink, command.file.size) \in Seq(Piece)
            /\ Append(uplink, command.file.size) # <<>>
            /\ Len(Append(uplink, command.file.size)) = Len(uplink) + 1
            /\ Append(uplink, command.file.size)[Len(uplink) + 1] = command.file.size
        BY <4>1, <4>2, AppendProperties
      <4> QED
        BY <2>1, <3>1, <4>3
    <3>4. UploadInv'
      BY <2>1, <2>3, <3>2, <3>3 DEF UploadInv, Verb
    <3> QED
      BY <1>1, <2>1, <3>1, <3>3, <3>4 DEF RequestInv, Sending, Verb, Verbs
  <2> QED
    BY <2>2, <2>3
<1>5. CASE Shutdown
  <2>1. /\ step = "shutdown" /\ count = 0 /\ UNCHANGED <<command, count, uplink>>
        /\ step' \in {"ended", "first"} /\ (step' = "ended" => shut' = shut)
    BY <1>5 DEF Shutdown, Ends, ShutsDown, RequestInv, Sending
  <2>2. (step = "header" \/ uplink # <<>> => Verb \in Verbs) /\ (shut => step \notin Sending)
    BY DEF RequestInv
  <2> QED
    BY <1>1, <2>1, <2>2 DEF RequestInv, Sending, Verb, UploadInv
<1> QED
  BY <1>2, <1>3, <1>4, <1>5

\* After the shutdown nothing of the request changes.
LEMMA RequestSent ==
  ASSUME RequestInv, UNCHANGED requestVars, count' \in Nat,
         (step' = step /\ count' = count) \/ step' \notin Sending \cup {"first"}
  PROVE  RequestInv'
  BY DEF RequestInv, requestVars, UploadInv, Verb, Sending

------------------------------------------------------------------------------
(* The answers of the server.                                               *)

\* The data of an answer is a cell for each block.
LEMMA DataCells ==
  ASSUME NEW blocks \in Seq(Block \cup STRING)
  PROVE  Data(blocks) \in Seq(Cell) /\ Len(Data(blocks)) = Len(blocks)
<1>1. Len(blocks) \in Nat /\ DOMAIN blocks = 1 .. Len(blocks)
  BY LenProperties
<1>2. Data(blocks) = [i \in 1 .. Len(blocks) |-> <<"data", blocks[i]>>]
  BY <1>1 DEF Data
<1>3. ASSUME NEW i \in 1 .. Len(blocks)
      PROVE  <<"data", blocks[i]>> \in Cell
  BY ElementOfSeq DEF Cell
<1>4. Data(blocks) \in [1 .. Len(blocks) -> Cell]
  BY <1>2, <1>3
<1>5. Data(blocks) \in Seq(Cell)
  BY <1>1, <1>4, IsASeq
<1>6. DOMAIN Data(blocks) = 1 .. Len(blocks)
  BY <1>2
<1> QED
  BY <1>1, <1>5, <1>6, LenProperties

\* A line is two cells.
LEMMA LineCells ==
  ASSUME NEW word \in {"OK", "ERROR", "message"}
  PROVE  /\ TextLine(word) \in Seq(Cell) /\ Len(TextLine(word)) = 2
         /\ TextLine(word)[1] = <<word, 1>> /\ TextLine(word)[2] = <<word, 2>>
<1>1. <<word, 1>> \in Cell /\ <<word, 2>> \in Cell
  BY DEF Cell
<1> QED
  BY <1>1 DEF TextLine

\* A size is written twice.
LEMMA SizeCells ==
  ASSUME NEW n \in Nat
  PROVE  /\ Size(n) \in Seq(Cell) /\ Len(Size(n)) = 2
         /\ Size(n)[1] = <<"size", n>> /\ Size(n)[2] = <<"size", n>>
<1>1. <<"size", n>> \in Cell
  BY DEF Cell
<1> QED
  BY <1>1 DEF Size

\* An answer with data: a line, the size and as many cells.
LEMMA OkCells ==
  ASSUME NEW blocks \in Seq(Block \cup STRING)
  PROVE  LET ok == OkWith(blocks)
         IN  /\ ok \in Seq(Cell) /\ Len(ok) = 4 + Len(blocks)
             /\ ok[1] = <<"OK", 1>> /\ ok[2] = <<"OK", 2>>
             /\ ok[3] = <<"size", Len(blocks)>> /\ ok[4] = <<"size", Len(blocks)>>
<1> DEFINE line == TextLine("OK")
           size == Size(Len(blocks))
           data == Data(blocks)
           front == line \o size
           ok == front \o data
<1> HIDE DEF line, size, data, front, ok
<1>1. Len(blocks) \in Nat
  BY LenProperties
<1>2. /\ line \in Seq(Cell) /\ Len(line) = 2
      /\ line[1] = <<"OK", 1>> /\ line[2] = <<"OK", 2>>
  BY LineCells DEF line
<1>3. /\ size \in Seq(Cell) /\ Len(size) = 2
      /\ size[1] = <<"size", Len(blocks)>> /\ size[2] = <<"size", Len(blocks)>>
  BY <1>1, SizeCells DEF size
<1>4. data \in Seq(Cell) /\ Len(data) = Len(blocks)
  BY DataCells DEF data
<1>5. /\ front \in Seq(Cell) /\ Len(front) = Len(line) + Len(size)
      /\ \A i \in 1 .. Len(line) : front[i] = line[i]
      /\ \A i \in 1 .. Len(size) : front[Len(line) + i] = size[i]
  <2>1. line \in Seq(Cell) /\ size \in Seq(Cell)
    BY <1>2, <1>3
  <2> QED
    BY <2>1, Joined DEF front
<1>6. /\ ok \in Seq(Cell) /\ Len(ok) = Len(front) + Len(data)
      /\ \A i \in 1 .. Len(front) : ok[i] = front[i]
  <2>1. front \in Seq(Cell) /\ data \in Seq(Cell)
    BY <1>4, <1>5
  <2> QED
    BY <2>1, Joined DEF ok
<1>7. Len(front) = 4 /\ Len(ok) = 4 + Len(blocks)
  BY <1>1, <1>2, <1>3, <1>4, <1>5, <1>6
<1>8. /\ front[1] = line[1] /\ front[2] = line[2]
      /\ front[3] = size[1] /\ front[4] = size[2]
  <2>1. front[1] = line[1] /\ front[2] = line[2]
    BY <1>2, <1>5
  <2>2. front[2 + 1] = size[1] /\ front[2 + 2] = size[2]
    BY <1>2, <1>3, <1>5
  <2> QED
    BY <2>1, <2>2
<1>9. ok[1] = front[1] /\ ok[2] = front[2] /\ ok[3] = front[3] /\ ok[4] = front[4]
  BY <1>6, <1>7
<1>10. OkWith(blocks) = ok
  BY DEF OkWith, ok, front, line, size, data
<1> QED
  BY <1>2, <1>3, <1>6, <1>7, <1>8, <1>9, <1>10

\* The answer to a request that cannot be carried out.
LEMMA ErrorCells == Error \in Seq(Cell) /\ IsError(Error)
<1> DEFINE line == TextLine("ERROR")
           message == TextLine("message")
           error == line \o message
<1> HIDE DEF line, message, error
<1>1. /\ line \in Seq(Cell) /\ Len(line) = 2
      /\ line[1] = <<"ERROR", 1>> /\ line[2] = <<"ERROR", 2>>
  BY LineCells DEF line
<1>2. /\ message \in Seq(Cell) /\ Len(message) = 2
      /\ message[1] = <<"message", 1>> /\ message[2] = <<"message", 2>>
  BY LineCells DEF message
<1>3. /\ error \in Seq(Cell) /\ Len(error) = Len(line) + Len(message)
      /\ \A i \in 1 .. Len(line) : error[i] = line[i]
      /\ \A i \in 1 .. Len(message) : error[Len(line) + i] = message[i]
  <2>1. line \in Seq(Cell) /\ message \in Seq(Cell)
    BY <1>1, <1>2
  <2> QED
    BY <2>1, Joined DEF error
<1>4. error[1] = line[1] /\ error[2] = line[2] /\ error[2 + 1] = message[1] /\ error[2 + 2] = message[2]
  BY <1>1, <1>2, <1>3
<1>5. Error = error
  BY DEF Error, error, line, message
<1> QED
  BY <1>1, <1>2, <1>3, <1>4, <1>5 DEF IsError

\* No answer is both.
LEMMA OkIsNoError ==
  ASSUME NEW ans
  PROVE  ~ (IsError(ans) /\ IsOk(ans))
<1>1. ASSUME IsError(ans), IsOk(ans)
      PROVE  FALSE
  <2>1. <<"ERROR", 1>> = <<"OK", 1>>
    BY <1>1 DEF IsError, IsOk
  <2>2. <<"ERROR", 1>>[1] = <<"OK", 1>>[1]
    BY <2>1
  <2> QED
    BY <2>2
<1> QED
  BY <1>1

\* Every answer is an error or has what the client expects of it.
LEMMA AnswerKind ==
  ASSUME command \in Commands, Verb \in Verbs,
         Verb \in {"GET", "LIST"} => stored \in {Missing} \cup Seq(Block)
  PROVE  /\ Answer \in Seq(Cell)
         /\ IsError(Answer) \/ IsOk(Answer)
         /\ Verb = "PUT" => (IsOk(Answer) <=> Accepted)
<1>1. CASE Verb = "LIST"
  <2> DEFINE names == IF stored = Missing THEN <<>> ELSE <<command.name>>
  <2>1. names \in Seq(Block \cup STRING)
    <3>1. command.name \in Block \cup STRING
      BY CommandKind
    <3>2. <<command.name>> \in Seq(Block \cup STRING)
      BY <3>1, IsASeq
    <3>3. <<>> \in Seq(Block \cup STRING)
      BY EmptySeq
    <3> QED
      BY <3>2, <3>3, Zenon
  <2>2. Answer = OkWith(names)
    BY <1>1 DEF Answer
  <2> HIDE DEF names
  <2>3. Len(names) \in Nat
    BY <2>1, LenProperties
  <2> QED
    BY <1>1, <2>1, <2>2, <2>3, OkCells DEF IsOk
<1>2. CASE Verb = "GET" /\ stored # Missing
  <2>1. stored \in Seq(Block) /\ Answer = OkWith(stored)
    BY <1>2 DEF Answer
  <2>2. stored \in Seq(Block \cup STRING) /\ Len(stored) \in Nat
    BY <2>1, SeqMonotonic, LenProperties
  <2> QED
    BY <1>2, <2>1, <2>2, OkCells DEF IsOk
<1>3. CASE Answer = Error /\ (Verb = "PUT" => ~ Accepted)
  BY <1>3, ErrorCells, OkIsNoError
<1>4. CASE /\ Answer = TextLine("OK") /\ Verb \in {"DELETE", "PUT"}
           /\ Verb = "PUT" => Accepted
  BY <1>4, LineCells DEF IsOk
<1>5. \/ Verb = "LIST" \/ (Verb = "GET" /\ stored # Missing)
      \/ Answer = Error /\ (Verb = "PUT" => ~ Accepted)
      \/ /\ Answer = TextLine("OK") /\ Verb \in {"DELETE", "PUT"}
         /\ Verb = "PUT" => Accepted
  BY DEF Answer, Verbs
<1> QED
  BY <1>1, <1>2, <1>3, <1>4, <1>5

------------------------------------------------------------------------------
(* What every step leaves alone.                                            *)

Requests == Start \/ ConnectionLost \/ SendHeader \/ SendSize \/ SendBlocks \/ Shutdown
Reader == \/ Refill \/ ReadFails \/ ReadLine \/ ReadMessage \/ ReadSize \/ ReadNames
          \/ ReadExtra \/ ReadEnds \/ GetData \/ GetEnds

\* An exit code of -1 or 1 is a failure.
LEMMA FailsWith ==
  ASSUME NEW exit \in {-1, 1}, NEW said, Ends(exit, said)
  PROVE  step' = "ended" /\ result'.exit # 0 /\ result'.said = said
<1>1. step' = "ended" /\ result'.exit = exit /\ result'.said = said
  BY DEF Ends
<1>2. exit = -1 => exit # 0
  OBVIOUS
<1>3. exit = 1 => exit # 0
  OBVIOUS
<1> QED
  BY <1>1, <1>2, <1>3

\* A step that sends goes on, or ends as a failure that says so.
LEMMA SendingStep ==
  ASSUME Requests
  PROVE  /\ step \in Sending /\ command' = command /\ UNCHANGED answerVars
         /\ step' \in Sending \cup {"first", "ended"}
         /\ step' = "ended" => result'.exit # 0 /\ result'.said \notin OfAnswers
         /\ shut => shut'
<1> DEFINE Fails == \E exit \in {-1, 1} : \E said : said \notin OfAnswers /\ Ends(exit, said)
<1>0. Fails => step' = "ended" /\ result'.exit # 0 /\ result'.said \notin OfAnswers
  BY FailsWith
<1>1. CASE Start
  <2>1. step = "start" /\ UNCHANGED <<requestVars, answerVars, count>>
        /\ (Fails \/ step' = "header")
    BY <1>1 DEF Start, OfAnswers
  <2> QED
    <3> HIDE DEF Fails
    <3> QED
      BY <1>0, <2>1 DEF requestVars, Sending
<1>2. CASE ConnectionLost
  <2>1. step \in {"header", "size", "blocks"} /\ UNCHANGED <<requestVars, answerVars, count>> /\ Fails
    BY <1>2 DEF ConnectionLost, OfAnswers
  <2> QED
    <3> HIDE DEF Fails
    <3> QED
      BY <1>0, <2>1 DEF requestVars, Sending
<1>3. CASE SendHeader
  BY <1>3 DEF SendHeader, Sending
<1>4. CASE SendSize
  <2>1. step = "size" /\ UNCHANGED <<command, shut, answerVars, count>> /\ (Fails \/ step' = "blocks")
    BY <1>4 DEF SendSize, OfAnswers
  <2> QED
    <3> HIDE DEF Fails
    <3> QED
      BY <1>0, <2>1 DEF Sending
<1>5. CASE SendBlocks
  <2>1. step = "blocks" /\ UNCHANGED <<command, shut, answerVars>>
        /\ (Fails \/ step' \in {"blocks", "shutdown"})
    BY <1>5 DEF SendBlocks, OfAnswers
  <2> QED
    <3> HIDE DEF Fails
    <3> QED
      BY <1>0, <2>1 DEF Sending
<1>6. CASE Shutdown
  <2>1. step = "shutdown" /\ command' = command /\ UNCHANGED answerVars /\ (Fails \/ step' = "first")
    BY <1>6 DEF Shutdown, OfAnswers
  <2>2. shut' = shut \/ shut' = TRUE
    BY <1>6 DEF Shutdown, ShutsDown
  <2> HIDE DEF Fails
  <2>3. shut => shut'
    BY <2>2, Zenon
  <2>4. /\ step \in Sending /\ step' \in Sending \cup {"first", "ended"}
        /\ step' = "ended" => result'.exit # 0 /\ result'.said \notin OfAnswers
    BY <1>0, <2>1 DEF Sending
  <2> QED
    BY <2>1, <2>3, <2>4, Zenon
<1> QED
  BY <1>1, <1>2, <1>3, <1>4, <1>5, <1>6 DEF Requests

\* A step that reads leaves the request and the server's file alone.
LEMMA ReadingStep ==
  ASSUME Reader
  PROVE  /\ step \in Reading \cup {"get"} /\ UNCHANGED requestVars
         /\ UNCHANGED <<stored, peer>>
         /\ step' = step \/ step' \in (Reading \ {"first"}) \cup {"get", "ended"}
<1>1. CASE Refill \/ ReadFails
  BY <1>1 DEF Refill, ReadFails, Ends, answerVars, Reading
<1>2. CASE ReadLine \/ ReadMessage
  <2>1. ASSUME ReadLine
        PROVE  step' = step \/ step' \in {"message", "size?", "extra"}
    BY <2>1 DEF ReadLine
  <2> QED
    BY <1>2, <2>1 DEF ReadLine, ReadMessage, NextCell, Ends, Reading
<1>3. CASE ReadSize \/ ReadNames \/ ReadExtra
  BY <1>3 DEF ReadSize, AfterSize, ReadNames, ReadExtra, NextCell, Ends, Reading
<1>4. CASE ReadEnds \/ GetData \/ GetEnds
  BY <1>4 DEF ReadEnds, GetData, GetEnds, Ends, answerVars, Reading
<1> QED
  BY <1>1, <1>2, <1>3, <1>4 DEF Reader

\* The server touches nothing of the client's, and the file only when it answers.
LEMMA PeerStep ==
  ASSUME PeerAnswers \/ PeerCloses \/ PeerDies
  PROVE  /\ UNCHANGED requestVars /\ UNCHANGED <<step, held, count, expected, output, result>>
         /\ peer' \in {"answered", "closed", "killed", "reset"}
         /\ ~ PeerAnswers => stored' = stored
  BY DEF PeerAnswers, PeerCloses, PeerDies, requestVars

------------------------------------------------------------------------------
(* The answer stays what it is.                                             *)

\* A PUT has been answered when the client has shut down its side or has ended,
\* so nothing more of it is sent.
LEMMA NothingMoreIsSent ==
  ASSUME RequestInv, NEW ans, Given(ans), Requests \/ Reader \/ PeerCloses \/ PeerDies
  PROVE  /\ command' = command /\ stored' = stored
         /\ Verb = "PUT" => uplink' = uplink /\ Eof'
<1>1. Verb = "PUT" => Eof
  BY DEF Given
<1>2. CASE Requests
  <2>1. step \in Sending /\ command' = command /\ stored' = stored
    BY <1>2, SendingStep DEF answerVars
  <2>2. Eof => FALSE
    <3>1. step # "ended"
      BY <2>1 DEF Sending
    <3>2. shut => FALSE
      BY <2>1 DEF RequestInv
    <3> QED
      BY <3>1, <3>2, Zenon DEF Eof
  <2> QED
    BY <1>1, <2>1, <2>2
<1>3. CASE Reader
  <2>1. step \in Reading \cup {"get"} /\ UNCHANGED requestVars /\ stored' = stored
    BY <1>3, ReadingStep
  <2>2. command' = command /\ uplink' = uplink /\ shut' = shut
    BY <2>1 DEF requestVars
  <2>3. Eof => Eof'
    <3>1. step # "ended"
      BY <2>1 DEF Reading
    <3> QED
      BY <2>2, <3>1, Zenon DEF Eof
  <2> QED
    BY <1>1, <2>1, <2>2, <2>3
<1>4. CASE PeerCloses \/ PeerDies
  <2>1. command' = command /\ uplink' = uplink /\ shut' = shut /\ step' = step /\ stored' = stored
    <3>1. UNCHANGED requestVars /\ step' = step
      BY <1>4, PeerStep
    <3>2. stored' = stored
      BY <1>4 DEF PeerCloses, PeerDies
    <3> QED
      BY <3>1, <3>2 DEF requestVars
  <2>2. Eof => Eof'
    BY <2>1, Zenon DEF Eof
  <2> QED
    BY <1>1, <2>1, <2>2
<1> QED
  BY <1>2, <1>3, <1>4

\* No step but that of the server that gives the answer changes what was given.
LEMMA GivenStays ==
  ASSUME RequestInv, NEW ans, Given(ans), Requests \/ Reader \/ PeerCloses \/ PeerDies
  PROVE  Given(ans)'
<1>1. /\ command' = command /\ stored' = stored
      /\ Verb = "PUT" => uplink' = uplink /\ Eof'
  BY NothingMoreIsSent
<1>2. Verb' = Verb
  BY <1>1 DEF Verb
<1>3. /\ ans \in Seq(Cell) /\ Verb \in Verbs /\ (IsError(ans) \/ IsOk(ans))
      /\ Verb # "DELETE" => ans = Answer
      /\ Verb = "PUT" => /\ Len(uplink) > 0 /\ (Accepted => stored = Uploaded)
                         /\ (IsOk(ans) <=> Accepted)
  BY DEF Given
<1>4. Verb = "PUT" => (Accepted' <=> Accepted) /\ Uploaded' = Uploaded
  BY <1>1 DEF Accepted, Uploaded
<1>5. Answer' = Answer
  <2>1. CASE Verb = "PUT"
    BY <1>2, <1>4, <2>1 DEF Answer
  <2>2. CASE Verb # "PUT"
    BY <1>1, <1>2, <1>3, <2>2 DEF Answer, Verbs
  <2> QED
    BY <2>1, <2>2
<1>6. IsOk(ans)' <=> IsOk(ans)
  BY <1>2 DEF IsOk
<1>7. Verb = "PUT" => Len(uplink') > 0 /\ (Accepted' => stored' = Uploaded')
                      /\ (IsOk(ans)' <=> Accepted')
  BY <1>1, <1>3, <1>4, <1>6
<1> QED
  BY <1>1, <1>2, <1>3, <1>5, <1>6, <1>7 DEF Given

------------------------------------------------------------------------------
(* The stream: what is held and what is on its way are the rest of the      *)
(* answer, however it is cut.                                               *)

\* The lengths of the three are numbers, and 0 for those that are empty.
LEMMA StreamLengths ==
  ASSUME KindInv, NEW ans \in Seq(Cell)
  PROVE  /\ Len(held) \in Nat /\ Len(downlink) \in Nat /\ Len(ans) \in Nat
         /\ held = <<>> <=> Len(held) = 0
         /\ downlink = <<>> <=> Len(downlink) = 0
  BY LenProperties, EmptySeq DEF KindInv

\* read_next takes the next cell of the answer.
LEMMA NextIsTaken ==
  ASSUME KindInv, NEW ans \in Seq(Cell), NEW p \in Nat, Streams(ans, p),
         held # <<>>, held' = Tail(held), UNCHANGED <<downlink, peer>>
  PROVE  /\ held' \in Seq(Cell) /\ p + 1 <= Len(ans) /\ Head(held) = ans[p + 1]
         /\ Streams(ans, p + 1)'
<1>1. /\ Len(held) \in Nat \ {0} /\ Head(held) = held[1]
      /\ Tail(held) \in Seq(Cell) /\ Len(Tail(held)) = Len(held) - 1
      /\ \A i \in 1 .. Len(held) - 1 : Tail(held)[i] = held[1 + i]
  <2>1. held \in Seq(Cell)
    BY DEF KindInv
  <2> QED
    BY <2>1, Rest
<1>2. Len(downlink) \in Nat /\ Len(ans) \in Nat
  BY StreamLengths
<1>3. /\ p + Len(held) + Len(downlink) <= Len(ans)
      /\ \A i \in 1 .. Len(held) : held[i] = ans[p + i]
      /\ \A i \in 1 .. Len(downlink) : downlink[i] = ans[p + Len(held) + i]
      /\ peer \in {"answered", "closed"} => p + Len(held) + Len(downlink) = Len(ans)
  BY DEF Streams
<1>4. Len(held') = Len(held) - 1 /\ (p + 1) + Len(held') = p + Len(held)
  BY <1>1
<1>5. ASSUME NEW i \in 1 .. Len(held) - 1
      PROVE  held'[i] = ans[(p + 1) + i]
  <2>1. 1 + i \in 1 .. Len(held) /\ p + (1 + i) = (p + 1) + i
    BY <1>1
  <2>2. held'[i] = held[1 + i] /\ held[1 + i] = ans[p + (1 + i)]
    BY <1>1, <1>3, <2>1
  <2> QED
    BY <2>1, <2>2
<1>6. Streams(ans, p + 1)'
  <2>1. \A i \in 1 .. Len(held') : held'[i] = ans[(p + 1) + i]
    BY <1>4, <1>5
  <2>2. \A i \in 1 .. Len(downlink') : downlink'[i] = ans[(p + 1) + Len(held') + i]
    BY <1>3, <1>4
  <2>3. /\ p + 1 \in Nat /\ (p + 1) + Len(held') + Len(downlink') <= Len(ans)
        /\ peer' \in {"answered", "closed"} => (p + 1) + Len(held') + Len(downlink') = Len(ans)
    BY <1>3, <1>4
  <2> QED
    BY <2>1, <2>2, <2>3 DEF Streams
<1>7. p + 1 <= Len(ans) /\ held[1] = ans[p + 1]
  BY <1>1, <1>2, <1>3
<1> QED
  BY <1>1, <1>6, <1>7

\* write_all takes the rest of the buffer.
LEMMA BufferIsTaken ==
  ASSUME KindInv, NEW ans \in Seq(Cell), NEW p \in Nat, Streams(ans, p),
         NEW q \in Nat, q = p + Len(held), held' = <<>>, UNCHANGED <<downlink, peer>>
  PROVE  held' \in Seq(Cell) /\ Streams(ans, q)'
<1>1. Len(held) \in Nat /\ Len(downlink) \in Nat /\ Len(ans) \in Nat
  BY StreamLengths
<1>2. held' \in Seq(Cell) /\ Len(held') = 0
  BY EmptySeq
<1>3. /\ q + Len(downlink) <= Len(ans)
      /\ \A i \in 1 .. Len(downlink) : downlink[i] = ans[q + i]
      /\ peer \in {"answered", "closed"} => q + Len(downlink) = Len(ans)
  BY DEF Streams
<1>4. q + Len(held') = q
  BY <1>2
<1>5. \A i \in 1 .. Len(held') : held'[i] = ans[q + i]
  BY <1>2
<1>6. \A i \in 1 .. Len(downlink') : downlink'[i] = ans[q + Len(held') + i]
  BY <1>3, <1>4
<1>7. /\ q + Len(held') + Len(downlink') <= Len(ans)
      /\ peer' \in {"answered", "closed"} => q + Len(held') + Len(downlink') = Len(ans)
  BY <1>3, <1>4
<1> QED
  BY <1>2, <1>5, <1>6, <1>7 DEF Streams

\* n cells and the others.
LEMMA AndTheOthers ==
  ASSUME NEW p \in Nat, NEW l \in Nat, NEW n \in 1 .. l
  PROVE  p + n \in Nat /\ p + n + (l - n) = p + l
  OBVIOUS

\* read() takes the first cells that are on their way into an empty buffer.
LEMMA BufferIsFilled ==
  ASSUME KindInv, NEW ans \in Seq(Cell), NEW p \in Nat, Streams(ans, p), held = <<>>,
         NEW n \in 1 .. Len(downlink), held' = SubSeq(downlink, 1, n),
         downlink' = SubSeq(downlink, n + 1, Len(downlink)), peer' = peer
  PROVE  held' \in Seq(Cell) /\ downlink' \in Seq(Cell) /\ Streams(ans, p)'
<1>1. Len(held) = 0 /\ Len(downlink) \in Nat /\ Len(ans) \in Nat
  BY StreamLengths
<1>2. /\ held' \in Seq(Cell) /\ Len(held') = n
      /\ \A i \in 1 .. n : held'[i] = downlink[i]
      /\ downlink' \in Seq(Cell) /\ Len(downlink') = Len(downlink) - n
      /\ \A i \in 1 .. Len(downlink) - n : downlink'[i] = downlink[n + i]
  <2>1. downlink \in Seq(Cell) /\ n \in 0 .. Len(downlink)
    BY <1>1 DEF KindInv
  <2> QED
    BY <2>1, Cut
<1>3. /\ p + Len(downlink) <= Len(ans)
      /\ \A i \in 1 .. Len(downlink) : downlink[i] = ans[p + i]
      /\ peer \in {"answered", "closed"} => p + Len(downlink) = Len(ans)
  BY <1>1 DEF Streams
<1>4. p + Len(held') = p + n /\ p + Len(held') + Len(downlink') = p + Len(downlink)
  <2>1. Len(held') = n /\ Len(downlink') = Len(downlink) - n
    BY <1>2
  <2>2. Len(downlink) \in Nat
    BY <1>1
  <2>3. p + n + (Len(downlink) - n) = p + Len(downlink)
    BY <2>2, AndTheOthers
  <2> QED
    BY <2>1, <2>3, Zenon
<1>5. \A i \in 1 .. Len(held') : held'[i] = ans[p + i]
  BY <1>1, <1>2, <1>3
<1>6. ASSUME NEW i \in 1 .. Len(downlink) - n
      PROVE  downlink'[i] = ans[p + n + i]
  <2>1. n + i \in 1 .. Len(downlink) /\ p + (n + i) = p + n + i
    BY <1>1
  <2> QED
    BY <1>2, <1>3, <2>1
<1>7. \A i \in 1 .. Len(downlink') : downlink'[i] = ans[p + Len(held') + i]
  BY <1>2, <1>4, <1>6
<1>8. /\ p + Len(held') + Len(downlink') <= Len(ans)
      /\ peer' \in {"answered", "closed"} => p + Len(held') + Len(downlink') = Len(ans)
  BY <1>3, <1>4
<1> QED
  BY <1>2, <1>5, <1>7, <1>8 DEF Streams

\* The loop of a GET takes them itself.
LEMMA CellsAreTaken ==
  ASSUME KindInv, NEW ans \in Seq(Cell), NEW p \in Nat, Streams(ans, p), held = <<>>,
         NEW n \in 1 .. Len(downlink), held' = held,
         downlink' = SubSeq(downlink, n + 1, Len(downlink)), peer' = peer
  PROVE  /\ downlink' \in Seq(Cell) /\ Streams(ans, p + n)' /\ p + n <= Len(ans)
         /\ SubSeq(downlink, 1, n) \in Seq(Cell) /\ Len(SubSeq(downlink, 1, n)) = n
         /\ \A i \in 1 .. n : SubSeq(downlink, 1, n)[i] = ans[p + i]
<1>1. Len(held) = 0 /\ Len(downlink) \in Nat /\ Len(ans) \in Nat
  BY StreamLengths
<1>2. /\ SubSeq(downlink, 1, n) \in Seq(Cell) /\ Len(SubSeq(downlink, 1, n)) = n
      /\ \A i \in 1 .. n : SubSeq(downlink, 1, n)[i] = downlink[i]
      /\ downlink' \in Seq(Cell) /\ Len(downlink') = Len(downlink) - n
      /\ \A i \in 1 .. Len(downlink) - n : downlink'[i] = downlink[n + i]
  <2>1. downlink \in Seq(Cell) /\ n \in 0 .. Len(downlink)
    BY <1>1 DEF KindInv
  <2> QED
    BY <2>1, Cut
<1>3. /\ p + Len(downlink) <= Len(ans)
      /\ \A i \in 1 .. Len(downlink) : downlink[i] = ans[p + i]
      /\ peer \in {"answered", "closed"} => p + Len(downlink) = Len(ans)
  BY <1>1 DEF Streams
<1>4. ASSUME NEW i \in 1 .. Len(downlink) - n
      PROVE  downlink'[i] = ans[(p + n) + i]
  <2>1. n + i \in 1 .. Len(downlink) /\ p + (n + i) = (p + n) + i
    BY <1>1
  <2> QED
    BY <1>2, <1>3, <2>1
<1>5. Len(held') = 0 /\ (p + n) + Len(held') = p + n /\ p + n \in Nat
      /\ (p + n) + Len(held') + Len(downlink') = p + Len(downlink)
  <2>1. Len(held') = 0 /\ Len(downlink') = Len(downlink) - n /\ n \in Nat
    BY <1>1, <1>2
  <2>2. (p + n) + Len(held') = p + n
    BY <2>1
  <2>3. Len(downlink) \in Nat
    BY <1>1
  <2>4. p + n \in Nat /\ p + n + (Len(downlink) - n) = p + Len(downlink)
    BY <2>3, AndTheOthers
  <2> QED
    BY <2>1, <2>2, <2>4, Zenon
<1>6. /\ \A i \in 1 .. Len(held') : held'[i] = ans[(p + n) + i]
      /\ \A i \in 1 .. Len(downlink') : downlink'[i] = ans[(p + n) + Len(held') + i]
  <2>1. \A i \in 1 .. Len(held') : held'[i] = ans[(p + n) + i]
    BY <1>5
  <2>2. Len(downlink') = Len(downlink) - n
    BY <1>2
  <2> QED
    BY <1>4, <1>5, <2>1, <2>2
<1>7. /\ (p + n) + Len(held') + Len(downlink') <= Len(ans)
      /\ peer' \in {"answered", "closed"} => (p + n) + Len(held') + Len(downlink') = Len(ans)
  BY <1>3, <1>5
<1>8. Streams(ans, p + n)'
  BY <1>5, <1>6, <1>7 DEF Streams
<1>9. p + n <= Len(ans) /\ \A i \in 1 .. n : SubSeq(downlink, 1, n)[i] = ans[p + i]
  BY <1>1, <1>2, <1>3
<1> QED
  BY <1>2, <1>8, <1>9

\* A server that is killed cuts off what is on its way.
LEMMA EndIsCutOff ==
  ASSUME KindInv, NEW ans \in Seq(Cell), NEW p \in Nat, Streams(ans, p),
         NEW n \in 0 .. Len(downlink), held' = held, downlink' = SubSeq(downlink, 1, n),
         peer' \in {"killed", "reset"}
  PROVE  Streams(ans, p)'
<1>1. Len(held) \in Nat /\ Len(downlink) \in Nat /\ Len(ans) \in Nat
  BY StreamLengths
<1>2. Len(downlink') = n /\ \A i \in 1 .. n : downlink'[i] = downlink[i]
  <2>1. downlink \in Seq(Cell)
    BY DEF KindInv
  <2> QED
    BY <2>1, Cut
<1>3. /\ p + Len(held) + Len(downlink) <= Len(ans)
      /\ \A i \in 1 .. Len(held) : held[i] = ans[p + i]
      /\ \A i \in 1 .. Len(downlink) : downlink[i] = ans[p + Len(held) + i]
  BY DEF Streams
<1>4. \A i \in 1 .. Len(downlink') : downlink'[i] = ans[p + Len(held') + i]
  BY <1>1, <1>2, <1>3
<1>5. p + Len(held') + Len(downlink') <= Len(ans)
  BY <1>1, <1>2, <1>3
<1> QED
  BY <1>3, <1>4, <1>5 DEF Streams

------------------------------------------------------------------------------
(* The readers, one by one.                                                 *)

\* Where a reader is after its step: so far in the answer, with what it has
\* written and, at its end, with what it says.
FailsOnlyWhenLost(ans) ==
  Ended /\ Verb = "PUT" /\ IsOk(ans) /\ result.exit # 0 => Lost
Reached(ans, p) ==
  /\ held \in Seq(Cell) /\ downlink \in Seq(Cell) /\ output \in Seq(Cell) /\ count \in Nat
  /\ Reads(ans, p) /\ FailsOnlyWhenLost(ans)

\* A reader does not change what it reads.
LEMMA SameAnswer ==
  ASSUME NEW ans, UNCHANGED requestVars
  PROVE  Verb' = Verb /\ (IsOk(ans)' <=> IsOk(ans)) /\ (IsError(ans)' <=> IsError(ans))
<1>1. Verb' = Verb
  BY DEF requestVars, Verb
<1>2. IsOk(ans)' <=> IsOk(ans)
  BY <1>1 DEF IsOk
<1>3. IsError(ans)' <=> IsError(ans)
  BY DEF IsError
<1> QED
  BY <1>1, <1>2, <1>3

\* A reader that goes on.
LEMMA GoesOn ==
  ASSUME NEW ans, NEW q, held' \in Seq(Cell), downlink' \in Seq(Cell), output' \in Seq(Cell),
         count' \in Nat, Streams(ans, q)', ReaderAt(ans, q)', step' # "ended"
  PROVE  Reached(ans, q)'
  BY DEF Reached, Reads, FailsOnlyWhenLost, Ended

\* A reader that ends.
LEMMA ReaderEnds ==
  ASSUME NEW ans, NEW q, held' \in Seq(Cell), downlink' \in Seq(Cell), output' \in Seq(Cell),
         count' \in Nat, Streams(ans, q)', step' = "ended",
         EndSays(ans)', FailsOnlyWhenLost(ans)'
  PROVE  Reached(ans, q)'
<1>1. ReaderAt(ans, q)'
  BY DEF ReaderAt, Sending
<1> QED
  BY <1>1 DEF Reached, Reads

\* The status line.
LEMMA LineIsRead ==
  ASSUME RequestInv, KindInv, NEW ans, NEW p \in Nat, Given(ans), Reads(ans, p), ReadLine
  PROVE  \E q \in Nat : Reached(ans, q)'
<1>1. /\ ans \in Seq(Cell) /\ Verb \in Verbs /\ (IsError(ans) \/ IsOk(ans))
      /\ Streams(ans, p) /\ ReaderAt(ans, p)
  BY DEF Given, Reads
<1>2. /\ step = "line" /\ held # <<>> /\ held' = Tail(held)
      /\ UNCHANGED requestVars /\ UNCHANGED <<count, downlink, peer>>
  BY DEF ReadLine, NextCell
<1>3. p \in {0, 1} /\ count = 0
  BY <1>1, <1>2 DEF ReaderAt
<1>4. /\ held' \in Seq(Cell) /\ p + 1 <= Len(ans) /\ Head(held) = ans[p + 1]
      /\ Streams(ans, p + 1)'
  <2>1. UNCHANGED <<downlink, peer>>
    BY <1>2
  <2>2. ans \in Seq(Cell) /\ Streams(ans, p) /\ held # <<>> /\ held' = Tail(held)
    BY <1>1, <1>2
  <2> QED
    BY <2>1, <2>2, NextIsTaken
<1>5. downlink' \in Seq(Cell) /\ count' = 0 /\ output' \in Seq(Cell)
  <2>1. output \in Seq(Cell) /\ downlink \in Seq(Cell)
    BY DEF KindInv
  <2>2. output' = output \/ output' = <<>>
    BY DEF ReadLine, Opened
  <2> QED
    BY <1>2, <1>3, <2>1, <2>2, EmptySeq
<1>6. Verb' = Verb /\ (IsOk(ans)' <=> IsOk(ans)) /\ (IsError(ans)' <=> IsError(ans))
  BY <1>2, SameAnswer
<1>7. \/ Head(held)[2] = 1 /\ step' = step
      \/ Head(held) = <<"ERROR", 2>> /\ step' = "message"
      \/ /\ Head(held) = <<"OK", 2>>
         /\ step' = IF Verb \in {"GET", "LIST"} THEN "size?" ELSE "extra"
         /\ Verb \in {"GET", "LIST"} => output' = <<>>
  BY DEF ReadLine, Opened
<1>8. ReaderAt(ans, p + 1)' /\ step' # "ended"
  <2>1. CASE p = 0
    <3>1. Head(held)[2] = 1
      BY <1>1, <1>4, <2>1 DEF IsError, IsOk
    <3>2. step' = "line"
      BY <1>2, <1>7, <3>1
    <3> QED
      BY <1>5, <2>1, <3>2 DEF ReaderAt, Sending
  <2>2. CASE p = 1 /\ IsError(ans)
    <3>1. Head(held) = <<"ERROR", 2>>
      BY <1>4, <2>2 DEF IsError
    <3>2. step' = "message"
      BY <1>7, <3>1
    <3> QED
      BY <1>6, <2>2, <3>2 DEF ReaderAt, Sending
  <2>3. CASE p = 1 /\ IsOk(ans)
    <3>1. Head(held) = <<"OK", 2>>
      BY <1>4, <2>3 DEF IsOk
    <3>2. /\ step' = IF Verb \in {"GET", "LIST"} THEN "size?" ELSE "extra"
          /\ Verb \in {"GET", "LIST"} => output' = <<>>
      BY <1>7, <3>1
    <3>3. CASE Verb \in {"GET", "LIST"}
      BY <1>5, <1>6, <2>3, <3>2, <3>3 DEF ReaderAt, Sending
    <3>4. CASE Verb \notin {"GET", "LIST"}
      BY <1>5, <1>6, <2>3, <3>2, <3>4 DEF ReaderAt, Sending
    <3> QED
      BY <3>3, <3>4
  <2> QED
    BY <1>1, <1>3, <2>1, <2>2, <2>3
<1>9. Reached(ans, p + 1)'
  BY <1>4, <1>5, <1>8, GoesOn
<1> QED
  BY <1>9

\* The message of an error: the client ends with it.
LEMMA MessageIsRead ==
  ASSUME RequestInv, KindInv, NEW ans, NEW p \in Nat, Given(ans), Reads(ans, p), ReadMessage
  PROVE  \E q \in Nat : Reached(ans, q)'
<1>1. ans \in Seq(Cell) /\ Streams(ans, p) /\ ReaderAt(ans, p)
  BY DEF Given, Reads
<1>2. /\ step = "message" /\ held # <<>> /\ held' = Tail(held)
      /\ UNCHANGED requestVars /\ UNCHANGED <<count, downlink, peer, output>>
  BY DEF ReadMessage, NextCell
<1>3. IsError(ans) /\ p \in {2, 3}
  BY <1>1, <1>2 DEF ReaderAt
<1>4. /\ held' \in Seq(Cell) /\ p + 1 <= Len(ans) /\ Head(held) = ans[p + 1]
      /\ Streams(ans, p + 1)'
  BY <1>1, <1>2, NextIsTaken
<1>5. downlink' \in Seq(Cell) /\ count' \in Nat /\ output' \in Seq(Cell)
  BY <1>2 DEF KindInv, RequestInv
<1>6. Verb' = Verb /\ (IsOk(ans)' <=> IsOk(ans)) /\ (IsError(ans)' <=> IsError(ans))
  BY <1>2, SameAnswer
<1>7. ~ IsOk(ans)
  BY <1>3, OkIsNoError
<1>8. CASE p = 2
  <2>1. Head(held)[2] = 1
    BY <1>3, <1>4, <1>8 DEF IsError
  <2>2. step' = "message"
    BY <1>2, <2>1 DEF ReadMessage
  <2>3. ReaderAt(ans, p + 1)'
    BY <1>3, <1>6, <1>8, <2>2 DEF ReaderAt, Sending
  <2>4. Reached(ans, p + 1)'
    BY <1>4, <1>5, <2>2, <2>3, GoesOn
  <2> QED
    BY <2>4
<1>9. CASE p = 3
  <2>1. Head(held)[2] # 1
    BY <1>3, <1>4, <1>9 DEF IsError
  <2>2. Ends(1, "error")
    BY <2>1 DEF ReadMessage
  <2>3. step' = "ended" /\ result'.exit # 0 /\ result'.said = "error"
    BY <2>2, FailsWith
  <2>4. EndSays(ans)'
    BY <2>3 DEF EndSays
  <2>5. FailsOnlyWhenLost(ans)'
    BY <1>6, <1>7 DEF FailsOnlyWhenLost
  <2>6. Reached(ans, p + 1)'
    BY <1>4, <1>5, <2>3, <2>4, <2>5, ReaderEnds
  <2> QED
    BY <2>6
<1> QED
  BY <1>3, <1>8, <1>9

\* The two sizes of an answer with data.
LEMMA SizeIsRead ==
  ASSUME RequestInv, KindInv, NEW ans, NEW p \in Nat, Given(ans), Reads(ans, p), ReadSize
  PROVE  \E q \in Nat : Reached(ans, q)'
<1>1. ans \in Seq(Cell) /\ Streams(ans, p) /\ ReaderAt(ans, p)
  BY DEF Given, Reads
<1>2. step = "size?" /\ held # <<>> /\ UNCHANGED requestVars /\ UNCHANGED <<downlink, peer>>
  BY DEF ReadSize
<1>3. /\ Verb \in {"GET", "LIST"} /\ IsOk(ans) /\ count \in {0, 1} /\ p = 2 + count
      /\ output = <<>>
  BY <1>1, <1>2 DEF ReaderAt
<1>4. held \in Seq(Cell) /\ downlink' \in Seq(Cell) /\ output \in Seq(Cell)
  BY <1>2 DEF KindInv
<1>5. Verb' = Verb /\ (IsOk(ans)' <=> IsOk(ans)) /\ (IsError(ans)' <=> IsError(ans))
  BY <1>2, SameAnswer
<1>6. Len(ans) \in Nat /\ Len(held) \in Nat \ {0} /\ Len(downlink) \in Nat
  BY <1>1, <1>2, StreamLengths
<1>7. CASE count = 0
  <2>1. held' = Tail(held) /\ count' = 1 /\ UNCHANGED <<step, output>>
    BY <1>7 DEF ReadSize
  <2>2. held' \in Seq(Cell) /\ Streams(ans, p + 1)'
    BY <1>1, <1>2, <2>1, NextIsTaken
  <2>3. step' = "size?" /\ output' = <<>>
    BY <1>2, <1>3, <2>1
  <2>4. ReaderAt(ans, p + 1)'
    BY <1>3, <1>5, <1>7, <2>1, <2>3 DEF ReaderAt, Sending
  <2>5. output' \in Seq(Cell) /\ count' \in Nat /\ step' # "ended"
    BY <1>4, <2>1, <2>3
  <2>6. Reached(ans, p + 1)'
    BY <1>4, <2>2, <2>4, <2>5, GoesOn
  <2> QED
    BY <2>6
<1>8. CASE count = 1 /\ Verb = "LIST"
  <2>1. held' = Tail(held) /\ count' = 0 /\ step' = "names" /\ output' = output /\ expected' = Head(held)[2]
    BY <1>8 DEF ReadSize
  <2>2. held' \in Seq(Cell) /\ Streams(ans, p + 1)' /\ Head(held) = ans[p + 1]
    BY <1>1, <1>2, <2>1, NextIsTaken
  <2>3. Len(ans) >= 4 /\ expected' = Len(ans) - 4 /\ p + 1 = 4
    BY <1>3, <1>8, <2>1, <2>2 DEF IsOk
  <2>4. Wrote(ans, count)'
    BY <1>3, <1>6, <2>1, <2>3, EmptySeq DEF Wrote
  <2>5. ReaderAt(ans, p + 1)'
    BY <1>3, <1>5, <1>8, <2>1, <2>3, <2>4 DEF ReaderAt, Sending
  <2>6. output' \in Seq(Cell) /\ count' \in Nat /\ step' # "ended"
    BY <1>4, <2>1
  <2>7. Reached(ans, p + 1)'
    BY <1>4, <2>2, <2>5, <2>6, GoesOn
  <2> QED
    BY <2>7
<1>9. CASE count = 1 /\ Verb = "GET"
  <2>1. /\ step' = "get" /\ count' = Len(held) - 1 /\ output' = output \o Tail(held)
        /\ held' = <<>> /\ expected' = Head(held)[2]
    BY <1>9 DEF ReadSize, AfterSize, Writes
  <2>2. /\ Head(held) = held[1] /\ Tail(held) \in Seq(Cell) /\ Len(Tail(held)) = Len(held) - 1
        /\ \A i \in 1 .. Len(held) - 1 : Tail(held)[i] = held[1 + i]
    BY <1>2, <1>4, Rest
  <2>3. output' = Tail(held)
    BY <1>3, <2>1, <2>2, ConcatEmptySeq
  <2>4. p = 3 /\ p + Len(held) \in Nat /\ p + Len(held) <= Len(ans)
        /\ \A i \in 1 .. Len(held) : held[i] = ans[p + i]
    BY <1>1, <1>3, <1>6, <1>9 DEF Streams
  <2>5. PICK q \in Nat : q = p + Len(held)
    BY <2>4
  <2>6. held' \in Seq(Cell) /\ Streams(ans, q)'
    BY <1>1, <1>2, <2>1, <2>5, BufferIsTaken
  <2>7. q = 4 + count' /\ count' \in Nat /\ 4 + count' <= Len(ans)
    BY <1>6, <2>1, <2>4, <2>5
  <2>8. Head(held) = <<"size", Len(ans) - 4>>
    BY <1>3, <1>6, <2>2, <2>4 DEF IsOk
  <2>9. expected' = Len(ans) - 4
    BY <2>1, <2>8
  <2>10. ASSUME NEW i \in 1 .. count'
         PROVE  output'[i] = ans[4 + i]
    <3>1. 1 + i \in 1 .. Len(held) /\ i \in 1 .. Len(held) - 1 /\ 3 + (1 + i) = 4 + i
      BY <1>6, <2>1
    <3>2. Tail(held)[i] = held[1 + i] /\ held[1 + i] = ans[3 + (1 + i)]
      BY <2>2, <2>4, <3>1
    <3> QED
      BY <2>3, <3>1, <3>2
  <2>11. Wrote(ans, count)'
    BY <2>1, <2>2, <2>3, <2>7, <2>10 DEF Wrote
  <2>12. ReaderAt(ans, q)'
    BY <1>3, <1>5, <1>9, <2>1, <2>7, <2>9, <2>11 DEF ReaderAt, Sending
  <2>13. output' \in Seq(Cell) /\ step' # "ended"
    BY <2>1, <2>2, <2>3
  <2>14. Reached(ans, q)'
    BY <1>4, <2>6, <2>7, <2>12, <2>13, GoesOn
  <2> QED
    BY <2>14
<1> QED
  BY <1>3, <1>7, <1>8, <1>9

\* The names of a list.
LEMMA NamesAreRead ==
  ASSUME RequestInv, KindInv, NEW ans, NEW p \in Nat, Given(ans), Reads(ans, p), ReadNames
  PROVE  \E q \in Nat : Reached(ans, q)'
<1>1. ans \in Seq(Cell) /\ Streams(ans, p) /\ ReaderAt(ans, p)
  BY DEF Given, Reads
<1>2. step = "names" /\ UNCHANGED requestVars /\ UNCHANGED <<downlink, peer, expected>>
  BY DEF ReadNames
<1>3. /\ Verb = "LIST" /\ IsOk(ans) /\ p = 4 + count /\ expected = Len(ans) - 4
      /\ Len(output) = count /\ 4 + count <= Len(ans)
      /\ \A i \in 1 .. count : output[i] = ans[4 + i]
  BY <1>1, <1>2 DEF ReaderAt, Wrote
<1>4. held \in Seq(Cell) /\ downlink' \in Seq(Cell) /\ output \in Seq(Cell) /\ count \in Nat
  BY <1>2 DEF KindInv, RequestInv
<1>5. Verb' = Verb /\ (IsOk(ans)' <=> IsOk(ans)) /\ (IsError(ans)' <=> IsError(ans))
  BY <1>2, SameAnswer
<1>6. Len(ans) \in Nat
  BY <1>1, StreamLengths
<1>7. CASE count = expected
  <2>1. step' = "extra" /\ UNCHANGED <<held, count, output>>
    BY <1>7 DEF ReadNames
  <2>2. Streams(ans, p)'
    BY <1>1, <1>2, <2>1 DEF Streams
  <2>3. p = Len(ans) /\ p >= 2 /\ Wrote(ans, Len(ans) - 4)'
    BY <1>3, <1>4, <1>6, <1>7, <2>1 DEF Wrote
  <2>4. ReaderAt(ans, p)'
    BY <1>3, <1>5, <2>1, <2>3 DEF ReaderAt, Sending
  <2>5. held' \in Seq(Cell) /\ output' \in Seq(Cell) /\ count' \in Nat /\ step' # "ended"
    BY <1>4, <2>1
  <2>6. Reached(ans, p)'
    BY <1>4, <2>2, <2>4, <2>5, GoesOn
  <2> QED
    BY <2>6
<1>8. CASE count # expected
  <2>1. /\ held # <<>> /\ held' = Tail(held) /\ output' = Append(output, Head(held))
        /\ count' = count + 1 /\ step' = "names"
    BY <1>2, <1>8 DEF ReadNames, NextCell
  <2>2. UNCHANGED <<downlink, peer>>
    BY <1>2
  <2>3. /\ held' \in Seq(Cell) /\ Streams(ans, p + 1)' /\ Head(held) = ans[p + 1]
        /\ p + 1 <= Len(ans)
    BY <1>1, <2>1, <2>2, NextIsTaken
  <2>4. Head(held) \in Cell
    BY <1>4, <2>1, HeadTailProperties
  <2>5. /\ output' \in Seq(Cell) /\ Len(output') = Len(output) + 1
        /\ \A i \in 1 .. Len(output) : output'[i] = output[i]
        /\ output'[Len(output) + 1] = Head(held)
    BY <1>4, <2>1, <2>4, AppendProperties
  <2>6. p + 1 = 4 + count' /\ 4 + count' <= Len(ans) /\ Len(output') = count' /\ count' \in Nat
    BY <1>3, <1>4, <2>1, <2>3, <2>5
  <2>7. ASSUME NEW i \in 1 .. count'
        PROVE  output'[i] = ans[4 + i]
    <3>1. CASE i \in 1 .. count
      BY <1>3, <2>5, <3>1
    <3>2. CASE i = count + 1
      BY <1>3, <1>4, <2>1, <2>3, <2>5, <2>6, <3>2
    <3>3. i \in 1 .. count \/ i = count + 1
      <4>1. count' = count + 1
        BY <2>1
      <4> QED
        BY <1>4, <4>1
    <3> QED
      BY <3>1, <3>2, <3>3
  <2>8. Wrote(ans, count)'
    BY <2>6, <2>7 DEF Wrote
  <2>9. ReaderAt(ans, p + 1)'
    BY <1>2, <1>3, <1>5, <2>1, <2>6, <2>8 DEF ReaderAt, Sending
  <2>10. Reached(ans, p + 1)'
    BY <1>4, <2>1, <2>3, <2>5, <2>6, <2>9, GoesOn
  <2> QED
    BY <2>10
<1> QED
  BY <1>7, <1>8

\* After the answer there is nothing: no server sends too much.
LEMMA NothingIsExtra ==
  ASSUME KindInv, NEW ans, NEW p \in Nat, Given(ans), Reads(ans, p), step = "extra"
  PROVE  held = <<>> /\ downlink = <<>> /\ IsOk(ans) /\ Verb \in {"LIST", "PUT", "DELETE"}
<1>1. ans \in Seq(Cell) /\ Streams(ans, p) /\ ReaderAt(ans, p) /\ Verb \in Verbs
  BY DEF Given, Reads
<1>2. IsOk(ans) /\ Verb # "GET" /\ p >= 2 /\ (Verb = "LIST" => p = Len(ans))
  BY <1>1 DEF ReaderAt
<1>3. p >= Len(ans)
  <2>1. Len(ans) \in Nat
    BY <1>1, StreamLengths
  <2>2. p = Len(ans) \/ Len(ans) = 2
    BY <1>1, <1>2 DEF IsOk, Verbs
  <2>3. p = Len(ans) => p >= Len(ans)
    BY <2>1
  <2>4. Len(ans) = 2 => p >= Len(ans)
    BY <1>2
  <2> QED
    BY <2>2, <2>3, <2>4
<1>4. p + Len(held) + Len(downlink) <= Len(ans)
  BY <1>1 DEF Streams
<1>5. Len(held) = 0 /\ Len(downlink) = 0
  <2>1. Len(held) \in Nat /\ Len(downlink) \in Nat /\ Len(ans) \in Nat
    BY <1>1, StreamLengths
  <2> QED
    BY <1>3, <1>4, <2>1
<1>6. held = <<>> /\ downlink = <<>>
  BY <1>1, <1>5, StreamLengths
<1> QED
  BY <1>1, <1>2, <1>6 DEF Verbs

\* The data of a GET.
LEMMA DataIsRead ==
  ASSUME RequestInv, KindInv, NEW ans, NEW p \in Nat, Given(ans), Reads(ans, p), GetData
  PROVE  \E q \in Nat : Reached(ans, q)'
<1>1. ans \in Seq(Cell) /\ Streams(ans, p) /\ ReaderAt(ans, p)
  BY DEF Given, Reads
<1>2. step = "get" /\ UNCHANGED requestVars /\ UNCHANGED <<peer, held, expected>>
  BY DEF GetData
<1>3. /\ Verb = "GET" /\ IsOk(ans) /\ held = <<>> /\ p = 4 + count /\ expected = Len(ans) - 4
      /\ Len(output) = count /\ 4 + count <= Len(ans)
      /\ \A i \in 1 .. count : output[i] = ans[4 + i]
  BY <1>1, <1>2 DEF ReaderAt, Wrote
<1>4. held' \in Seq(Cell) /\ output \in Seq(Cell) /\ count \in Nat
  BY <1>2 DEF KindInv, RequestInv
<1>5. Verb' = Verb /\ (IsOk(ans)' <=> IsOk(ans)) /\ (IsError(ans)' <=> IsError(ans))
  BY <1>2, SameAnswer
<1>6. Len(ans) \in Nat
  BY <1>1, StreamLengths
<1>7. PICK n \in 1 .. Len(downlink) :
        /\ downlink' = SubSeq(downlink, n + 1, Len(downlink))
        /\ count' = count + n
        /\ IF count + n > expected
           THEN Ends(1, "received too much data") /\ UNCHANGED output
           ELSE Writes(SubSeq(downlink, 1, n)) /\ UNCHANGED <<step, result>>
  BY DEF GetData
<1> DEFINE data == SubSeq(downlink, 1, n)
<1> HIDE DEF data
<1>8. held' = held /\ peer' = peer
  BY <1>2
<1>9. /\ downlink' \in Seq(Cell) /\ Streams(ans, p + n)' /\ p + n <= Len(ans)
      /\ data \in Seq(Cell) /\ Len(data) = n
      /\ \A i \in 1 .. n : data[i] = ans[p + i]
  BY <1>1, <1>3, <1>7, <1>8, CellsAreTaken DEF data
<1>10. n \in Nat
  BY <1>1, StreamLengths
<1>11. output' = output \o data /\ step' = "get"
  <2>1. ~ (count + n > expected)
    BY <1>3, <1>4, <1>6, <1>9, <1>10
  <2> QED
    BY <1>2, <1>7, <2>1 DEF Writes, data
<1>12. /\ output' \in Seq(Cell) /\ Len(output') = Len(output) + Len(data)
       /\ \A i \in 1 .. Len(output) : output'[i] = output[i]
       /\ \A i \in 1 .. Len(data) : output'[Len(output) + i] = data[i]
  <2>1. output \in Seq(Cell) /\ data \in Seq(Cell)
    BY <1>4, <1>9
  <2> QED
    BY <1>11, <2>1, Joined
<1>13. /\ p + n = 4 + count' /\ 4 + count' <= Len(ans) /\ Len(output') = count' /\ count' \in Nat
  <2>1. count' = count + n /\ Len(output') = count + n
    BY <1>3, <1>7, <1>9, <1>12
  <2> QED
    BY <1>3, <1>4, <1>9, <1>10, <2>1
<1>14. ASSUME NEW i \in 1 .. count'
       PROVE  output'[i] = ans[4 + i]
  <2>1. CASE i <= count
    BY <1>3, <1>4, <1>12, <2>1
  <2>2. CASE i > count
    <3>1. count' = count + n
      BY <1>7
    <3>2. i - count \in 1 .. n /\ count + (i - count) = i /\ p + (i - count) = 4 + i
      BY <1>3, <1>4, <1>10, <2>2, <3>1
    <3>3. output'[count + (i - count)] = data[i - count] /\ data[i - count] = ans[p + (i - count)]
      BY <1>3, <1>9, <1>12, <3>2
    <3> QED
      BY <3>2, <3>3
  <2> QED
    BY <1>4, <2>1, <2>2
<1>15. Wrote(ans, count)'
  BY <1>13, <1>14 DEF Wrote
<1>16. expected' = expected
  BY <1>2
<1>17. ReaderAt(ans, p + n)'
  BY <1>3, <1>5, <1>8, <1>11, <1>13, <1>15, <1>16 DEF ReaderAt, Sending
<1>18. Reached(ans, p + n)'
  BY <1>4, <1>9, <1>11, <1>12, <1>13, <1>17, GoesOn
<1>19. p + n \in Nat
  BY <1>10
<1> QED
  BY <1>18, <1>19

\* The end of a GET: what is missing is said.
LEMMA GetHasEnded ==
  ASSUME RequestInv, KindInv, NEW ans, NEW p \in Nat, Given(ans), Reads(ans, p), GetEnds
  PROVE  Reached(ans, p)'
<1>1. ans \in Seq(Cell) /\ Streams(ans, p) /\ ReaderAt(ans, p)
  BY DEF Given, Reads
<1>2. step = "get" /\ Ends(0, Complaint)
  BY DEF GetEnds
<1>3. UNCHANGED requestVars /\ UNCHANGED <<count, peer, held, downlink, output, expected>>
  BY DEF GetEnds, answerVars
<1>4. /\ Verb = "GET" /\ IsOk(ans) /\ expected = Len(ans) - 4
      /\ Wrote(ans, count) /\ 4 + count <= Len(ans)
  BY <1>1, <1>2 DEF ReaderAt, Wrote
<1>5. Verb' = Verb /\ (IsOk(ans)' <=> IsOk(ans))
  BY <1>3, SameAnswer
<1>6. /\ held' \in Seq(Cell) /\ downlink' \in Seq(Cell) /\ output' \in Seq(Cell)
      /\ count \in Nat /\ count' \in Nat
  BY <1>3 DEF KindInv, RequestInv
<1>7. Streams(ans, p)'
  BY <1>1, <1>3 DEF Streams
<1>8. step' = "ended" /\ result'.exit = 0 /\ result'.said = Complaint
  BY <1>2 DEF Ends
<1>9. Complaint \in {"", "too little data"} /\ (Complaint = "" => count >= expected)
  <2>1. Len(ans) \in Nat
    BY <1>1, StreamLengths
  <2>2. count < expected \/ count >= expected
    BY <1>4, <1>6, <2>1
  <2> QED
    BY <2>2 DEF Complaint
<1>10. Complaint = "" => Wrote(ans, Len(ans) - 4)'
  <2>1. ASSUME Complaint = ""
        PROVE  Wrote(ans, Len(ans) - 4)'
    <3>1. count = Len(ans) - 4
      <4>1. Len(ans) \in Nat
        BY <1>1, StreamLengths
      <4>2. count \in Nat /\ count >= Len(ans) - 4 /\ 4 + count <= Len(ans)
        BY <1>4, <1>6, <1>9, <2>1
      <4> QED
        BY <4>1, <4>2
    <3>2. Wrote(ans, Len(ans) - 4)
      BY <1>4, <3>1
    <3> QED
      BY <1>3, <3>2 DEF Wrote
  <2> QED
    BY <2>1
<1>11. EndSays(ans)'
  BY <1>4, <1>5, <1>8, <1>9, <1>10 DEF EndSays
<1>12. FailsOnlyWhenLost(ans)'
  BY <1>4, <1>5 DEF FailsOnlyWhenLost
<1> QED
  BY <1>6, <1>7, <1>8, <1>11, <1>12, ReaderEnds

\* The end of the answer, in any other place.
LEMMA AnswerHasEnded ==
  ASSUME RequestInv, KindInv, NEW ans, NEW p \in Nat, Given(ans), Reads(ans, p), ReadEnds
  PROVE  Reached(ans, p)'
<1>1. /\ ans \in Seq(Cell) /\ Streams(ans, p) /\ ReaderAt(ans, p)
      /\ Verb \in Verbs /\ (IsError(ans) \/ IsOk(ans))
  BY DEF Given, Reads
<1>2. /\ step \in Reading /\ held = <<>> /\ downlink = <<>> /\ peer \in {"closed", "killed"}
      /\ Ends(EndOf(step).exit, EndOf(step).said)
  BY DEF ReadEnds, AtEnd
<1>3. UNCHANGED requestVars /\ UNCHANGED <<count, peer, held, downlink, output>>
  BY DEF ReadEnds, answerVars
<1>4. Verb' = Verb /\ (IsOk(ans)' <=> IsOk(ans)) /\ (IsError(ans)' <=> IsError(ans))
  BY <1>3, SameAnswer
<1>5. /\ held' \in Seq(Cell) /\ downlink' \in Seq(Cell) /\ output' \in Seq(Cell) /\ count' \in Nat
  BY <1>3 DEF KindInv, RequestInv
<1>6. Streams(ans, p)'
  BY <1>1, <1>3 DEF Streams
<1>7. step' = "ended" /\ result'.exit = EndOf(step).exit /\ result'.said = EndOf(step).said
  BY <1>2 DEF Ends
<1>8. CASE step = "extra"
  <2>1. IsOk(ans) /\ Verb # "GET" /\ (Verb = "LIST" => Wrote(ans, Len(ans) - 4))
    BY <1>1, <1>8 DEF ReaderAt
  <2>2. EndOf(step).exit = 0 /\ EndOf(step).said = IF Verb = "LIST" THEN "" ELSE "success"
    BY <1>8 DEF EndOf
  <2>3. result'.exit = 0 /\ result'.said = IF Verb = "LIST" THEN "" ELSE "success"
    BY <1>7, <2>2
  <2>4. Verb = "LIST" => Wrote(ans, Len(ans) - 4)'
    BY <1>3, <2>1 DEF Wrote
  <2>5. EndSays(ans)'
    BY <1>4, <2>1, <2>3, <2>4 DEF EndSays
  <2>6. FailsOnlyWhenLost(ans)'
    BY <2>3 DEF FailsOnlyWhenLost
  <2> QED
    BY <1>5, <1>6, <1>7, <2>5, <2>6, ReaderEnds
<1>9. CASE step # "extra"
  <2>1. result'.exit # 0 /\ result'.said \in {"invalid response", "too little data"}
    <3>1. EndOf(step).exit = 1 /\ EndOf(step).said \in {"invalid response", "too little data"}
      <4>1. CASE step = "names"
        BY <4>1 DEF EndOf
      <4>2. CASE step \in {"first", "line", "message", "size?"}
        BY <4>2 DEF EndOf
      <4> QED
        BY <1>2, <1>9, <4>1, <4>2 DEF Reading
    <3>2. Ends(1, "invalid response") \/ Ends(1, "too little data")
      BY <1>2, <3>1 DEF Ends
    <3> QED
      BY <3>2, FailsWith
  <2>2. EndSays(ans)'
    BY <2>1 DEF EndSays
  <2>3. Verb = "PUT" /\ IsOk(ans) => peer # "closed"
    <3>1. ASSUME Verb = "PUT", IsOk(ans), peer = "closed"
          PROVE  FALSE
      <4>1. p = 2
        BY <1>1, <1>2, <3>1 DEF Streams, IsOk
      <4>2. ~ IsError(ans)
        BY <3>1, OkIsNoError
      <4> QED
        BY <1>1, <1>2, <1>9, <3>1, <4>1, <4>2 DEF ReaderAt, Reading
    <3> QED
      BY <3>1
  <2>4. FailsOnlyWhenLost(ans)'
    <3>1. Verb = "PUT" /\ IsOk(ans) => Lost'
      BY <1>2, <1>3, <2>3 DEF Lost
    <3> QED
      BY <1>4, <3>1 DEF FailsOnlyWhenLost
  <2> QED
    BY <1>5, <1>6, <1>7, <2>2, <2>4, ReaderEnds
<1> QED
  BY <1>8, <1>9

\* A reset, wherever the client reads.
LEMMA ReaderIsReset ==
  ASSUME RequestInv, KindInv, NEW ans, NEW p \in Nat, Given(ans), Reads(ans, p), ReadFails
  PROVE  Reached(ans, p)'
<1>1. Streams(ans, p)
  BY DEF Reads
<1>2. /\ UNCHANGED requestVars /\ UNCHANGED <<count, peer, held, downlink, output>>
      /\ peer = "reset"
  BY DEF ReadFails, answerVars, IsReset
<1>3. /\ held' \in Seq(Cell) /\ downlink' \in Seq(Cell) /\ output' \in Seq(Cell) /\ count' \in Nat
  BY <1>2 DEF KindInv, RequestInv
<1>4. Streams(ans, p)'
  BY <1>1, <1>2 DEF Streams
<1>5. step' = "ended" /\ result'.exit # 0 /\ result'.said \in {"read error", "connection closed"}
  <2>1. Ends(-1, "read error") \/ Ends(1, "connection closed")
    BY DEF ReadFails
  <2> QED
    BY <2>1, FailsWith
<1>6. EndSays(ans)'
  BY <1>5 DEF EndSays
<1>7. FailsOnlyWhenLost(ans)'
  BY <1>2 DEF FailsOnlyWhenLost, Lost
<1> QED
  BY <1>3, <1>4, <1>5, <1>6, <1>7, ReaderEnds

\* read() fills the buffer.
LEMMA BufferIsRefilled ==
  ASSUME RequestInv, KindInv, NEW ans, NEW p \in Nat, Given(ans), Reads(ans, p), Refill
  PROVE  Reached(ans, p)'
<1>1. ans \in Seq(Cell) /\ Streams(ans, p) /\ ReaderAt(ans, p)
  BY DEF Given, Reads
<1>2. /\ step \in Reading /\ held = <<>> /\ UNCHANGED requestVars
      /\ UNCHANGED <<count, peer, output, expected>>
      /\ step' = IF step = "first" THEN "line" ELSE step
  BY DEF Refill
<1>3. PICK n \in 1 .. Len(downlink) :
        held' = SubSeq(downlink, 1, n) /\ downlink' = SubSeq(downlink, n + 1, Len(downlink))
  BY DEF Refill
<1>4. peer' = peer
  BY <1>2
<1>5. held' \in Seq(Cell) /\ downlink' \in Seq(Cell) /\ Streams(ans, p)'
  BY <1>1, <1>2, <1>3, <1>4, BufferIsFilled
<1>6. output' \in Seq(Cell) /\ count' \in Nat
  BY <1>2 DEF KindInv, RequestInv
<1>7. Verb' = Verb /\ (IsOk(ans)' <=> IsOk(ans)) /\ (IsError(ans)' <=> IsError(ans))
  BY <1>2, SameAnswer
<1>8. CASE step = "first"
  <2>1. p = 0 /\ count = 0
    BY <1>1, <1>8 DEF ReaderAt, RequestInv
  <2>2. step' = "line" /\ count' = 0
    BY <1>2, <1>8, <2>1
  <2>3. ReaderAt(ans, p)'
    BY <2>1, <2>2 DEF ReaderAt, Sending
  <2> QED
    BY <1>5, <1>6, <2>2, <2>3, GoesOn
<1>9. CASE step # "first"
  <2>1. step' = step /\ step \in Reading \ {"first"}
    BY <1>2, <1>9
  <2>2. UNCHANGED <<count, output, expected>>
    BY <1>2
  <2>3. ReaderAt(ans, p)'
    BY <1>1, <1>7, <2>1, <2>2 DEF ReaderAt, Reading, Sending, Wrote
  <2>4. step' # "ended"
    BY <2>1 DEF Reading
  <2> QED
    BY <1>5, <1>6, <2>3, <2>4, GoesOn
<1> QED
  BY <1>8, <1>9

\* Every reader keeps to the answer.
LEMMA ReaderKeepsTo ==
  ASSUME RequestInv, KindInv, NEW ans, NEW p \in Nat, Given(ans), Reads(ans, p), Reader
  PROVE  \E q \in Nat : Reached(ans, q)'
<1>1. CASE Refill
  BY <1>1, BufferIsRefilled
<1>2. CASE ReadFails
  BY <1>2, ReaderIsReset
<1>3. CASE ReadLine
  BY <1>3, LineIsRead
<1>4. CASE ReadMessage
  BY <1>4, MessageIsRead
<1>5. CASE ReadSize
  BY <1>5, SizeIsRead
<1>6. CASE ReadNames
  BY <1>6, NamesAreRead
<1>7. CASE ReadExtra
  <2>1. step = "extra" /\ held # <<>>
    BY <1>7 DEF ReadExtra, NextCell
  <2> QED
    BY <2>1, NothingIsExtra
<1>8. CASE ReadEnds
  BY <1>8, AnswerHasEnded
<1>9. CASE GetData
  BY <1>9, DataIsRead
<1>10. CASE GetEnds
  BY <1>10, GetHasEnded
<1> QED
  BY <1>1, <1>2, <1>3, <1>4, <1>5, <1>6, <1>7, <1>8, <1>9, <1>10 DEF Reader

------------------------------------------------------------------------------
(* The other steps.                                                         *)

\* With nothing to read a reader can only find that the server is gone.
LEMMA SilentReader ==
  ASSUME RequestInv, KindInv, Silent, Reader
  PROVE  /\ Silent' /\ UNCHANGED answerVars /\ UNCHANGED requestVars /\ count' = count
         /\ step' = "ended" /\ Lost'
<1>1. step = "first" /\ held = <<>> /\ downlink = <<>>
  <2>1. step \in Sending \cup {"first", "ended"}
    BY DEF Silent
  <2>2. step \in Reading \cup {"get"}
    BY ReadingStep
  <2> QED
    BY <2>1, <2>2 DEF Silent, Sending, Reading
<1>2. ReadFails \/ ReadEnds
  BY <1>1 DEF Reader, Refill, Arrives, ReadLine, ReadMessage, ReadSize, ReadNames, ReadExtra,
              NextCell, GetData, GetEnds
<1>3. /\ UNCHANGED answerVars /\ UNCHANGED requestVars /\ count' = count
      /\ peer \in {"reset", "closed", "killed"}
  BY <1>2 DEF ReadFails, ReadEnds, IsReset, AtEnd
<1>4. peer' = peer /\ downlink' = downlink /\ held' = held /\ peer \in {"reset", "killed"}
  BY <1>3 DEF Silent, answerVars
<1>5. Ends(-1, "read error") \/ Ends(1, "invalid response")
  <2>1. EndOf("first").exit = 1 /\ EndOf("first").said = "invalid response"
    BY DEF EndOf
  <2> QED
    BY <1>1, <1>2, <2>1 DEF ReadFails, ReadEnds, Ends
<1>6. step' = "ended" /\ result'.exit # 0 /\ result'.said \in {"read error", "invalid response"}
  BY <1>5, FailsWith
<1>7. Silent'
  BY <1>1, <1>4, <1>6 DEF Silent, Sending, OfAnswers
<1> QED
  BY <1>3, <1>4, <1>6, <1>7 DEF Lost

\* What is sent changes nothing of what is to be read.
LEMMA SilentRequest ==
  ASSUME Silent, Requests
  PROVE  Silent'
<1>1. /\ UNCHANGED answerVars /\ step' \in Sending \cup {"first", "ended"}
      /\ step' = "ended" => result'.exit # 0 /\ result'.said \notin OfAnswers
  BY SendingStep
<1>2. peer' = peer /\ downlink' = downlink /\ held' = held
  BY <1>1 DEF answerVars
<1> QED
  BY <1>1, <1>2 DEF Silent, Ended

\* A client that is sending has read nothing, and reads nothing yet.
LEMMA ReadsRequest ==
  ASSUME RequestInv, KindInv, NEW ans, NEW p \in Nat, Reads(ans, p), Requests
  PROVE  Reads(ans, p)'
<1>1. /\ step \in Sending /\ command' = command /\ UNCHANGED answerVars
      /\ step' \in Sending \cup {"first", "ended"}
      /\ step' = "ended" => result'.exit # 0 /\ result'.said \notin OfAnswers
  BY SendingStep
<1>2. peer' = peer /\ downlink' = downlink /\ held' = held
  BY <1>1 DEF answerVars
<1>3. p = 0 /\ held = <<>>
  BY <1>1 DEF Reads, ReaderAt
<1>4. Streams(ans, p)'
  BY <1>2 DEF Reads, Streams
<1>5. ReaderAt(ans, p)'
  BY <1>1, <1>2, <1>3 DEF ReaderAt, Sending
<1>6. Ended' => EndSays(ans)'
  BY <1>1 DEF Ended, EndSays, OfAnswers
<1> QED
  BY <1>4, <1>5, <1>6 DEF Reads

\* The answer is read as it was given.
LEMMA AnswerIsGiven ==
  ASSUME RequestInv, KindInv, Silent, PeerAnswers, NEW ans, ans = Answer
  PROVE  /\ Given(ans)' /\ Reads(ans, 0)' /\ downlink' \in Seq(Cell)
         /\ Verb \in {"GET", "LIST"} => stored' = stored
<1>1. /\ Asked /\ downlink' = Answer /\ stored' = StoredAfter /\ peer' = "answered"
      /\ UNCHANGED requestVars /\ UNCHANGED <<step, held, result>>
  BY DEF PeerAnswers
<1>2. Len(uplink) > 0 /\ Verb \in Verbs /\ (Verb = "PUT" => Eof)
  <2>1. Len(uplink) > 0 /\ (Verb = "PUT" => Eof)
    BY <1>1 DEF Asked
  <2>2. uplink # <<>>
    BY <2>1, EmptySeq
  <2> QED
    BY <2>1, <2>2 DEF RequestInv
<1>3. /\ ans \in Seq(Cell) /\ (IsError(ans) \/ IsOk(ans))
      /\ Verb = "PUT" => (IsOk(ans) <=> Accepted)
  BY <1>2, AnswerKind DEF RequestInv, KindInv
<1>4. Verb' = Verb /\ (IsOk(ans)' <=> IsOk(ans)) /\ (IsError(ans)' <=> IsError(ans))
  BY <1>1, SameAnswer
<1>5. command' = command /\ uplink' = uplink /\ shut' = shut /\ step' = step /\ held' = held
      /\ result' = result
  BY <1>1 DEF requestVars
<1>6. (Accepted' <=> Accepted) /\ Uploaded' = Uploaded
  BY <1>5 DEF Accepted, Uploaded
<1>7. Eof => Eof'
  BY <1>5, Zenon DEF Eof
<1>8. /\ Verb \in {"GET", "LIST"} => stored' = stored
      /\ Verb = "PUT" /\ Accepted => stored' = Uploaded
  BY <1>1 DEF StoredAfter
<1>9. Verb # "DELETE" => Answer' = Answer
  <2>1. CASE Verb = "PUT"
    BY <1>4, <1>6, <2>1 DEF Answer
  <2>2. CASE Verb \in {"GET", "LIST"}
    BY <1>4, <1>5, <1>8, <2>2 DEF Answer
  <2> QED
    BY <1>2, <2>1, <2>2 DEF Verbs
<1>10. Given(ans)'
  BY <1>2, <1>3, <1>4, <1>5, <1>6, <1>7, <1>8, <1>9 DEF Given
<1>11. held' = <<>> /\ downlink' = ans
  BY <1>1, <1>5 DEF Silent
<1>12. Streams(ans, 0)'
  <2>1. Len(held') = 0 /\ Len(ans) \in Nat
    BY <1>3, <1>11, LenProperties
  <2> QED
    BY <1>11, <2>1 DEF Streams
<1>13. step' \in Sending \cup {"first", "ended"}
       /\ (step' = "ended" => result'.exit # 0 /\ result'.said \notin OfAnswers)
  BY <1>5 DEF Silent, Ended
<1>14. ReaderAt(ans, 0)'
  BY <1>11, <1>13 DEF ReaderAt, Sending
<1>15. Ended' => EndSays(ans)'
  BY <1>13 DEF Ended, EndSays, OfAnswers
<1> QED
  BY <1>3, <1>8, <1>10, <1>11, <1>12, <1>14, <1>15 DEF Reads

\* A server that closes has sent all of it; one that is killed has not.
LEMMA ReadsPeer ==
  ASSUME KindInv, NEW ans \in Seq(Cell), NEW p \in Nat, Reads(ans, p), PeerCloses \/ PeerDies
  PROVE  Reads(ans, p)' /\ downlink' \in Seq(Cell)
<1>1. UNCHANGED requestVars /\ UNCHANGED <<step, held, count, expected, output, result>>
  BY PeerStep
<1>2. Streams(ans, p) /\ ReaderAt(ans, p) /\ (Ended => EndSays(ans))
  BY DEF Reads
<1>3. Streams(ans, p)' /\ downlink' \in Seq(Cell)
  <2>1. CASE PeerCloses
    <3>1. peer = "answered" /\ peer' = "closed" /\ downlink' = downlink /\ held' = held
      BY <2>1 DEF PeerCloses
    <3> QED
      BY <1>2, <3>1 DEF Streams, KindInv
  <2>2. CASE PeerDies
    <3>1. PICK n \in 0 .. Len(downlink) : downlink' = SubSeq(downlink, 1, n)
      BY <2>2 DEF PeerDies
    <3>2. peer' \in {"killed", "reset"} /\ held' = held
      BY <2>2 DEF PeerDies
    <3>3. Streams(ans, p)'
      BY <1>2, <3>1, <3>2, EndIsCutOff
    <3>4. downlink \in Seq(Cell)
      BY DEF KindInv
    <3>5. SubSeq(downlink, 1, n) \in Seq(Cell)
      BY <3>4, Cut
    <3> QED
      BY <3>1, <3>3, <3>5
  <2> QED
    BY <2>1, <2>2
<1>4. Verb' = Verb /\ (IsOk(ans)' <=> IsOk(ans)) /\ (IsError(ans)' <=> IsError(ans))
  BY <1>1, SameAnswer
<1>5. ReaderAt(ans, p)'
  BY <1>1, <1>2, <1>4 DEF ReaderAt, Wrote
<1>6. Ended' => EndSays(ans)'
  BY <1>1, <1>2, <1>4 DEF Ended, EndSays, Wrote
<1> QED
  BY <1>3, <1>5, <1>6 DEF Reads

\* A server that has not answered can only die.
LEMMA SilentPeer ==
  ASSUME KindInv, Silent, PeerCloses \/ PeerDies
  PROVE  Silent' /\ downlink' \in Seq(Cell)
<1>1. UNCHANGED <<step, held, count, expected, output, result>>
  BY PeerStep
<1>2. PeerDies
  BY DEF PeerCloses, Silent
<1>3. PICK n \in 0 .. Len(downlink) : downlink' = SubSeq(downlink, 1, n)
  BY <1>2 DEF PeerDies
<1>4. downlink' = <<>> /\ downlink' \in Seq(Cell)
  <2>1. downlink = <<>> /\ downlink \in Seq(Cell)
    BY DEF Silent, KindInv
  <2>2. Len(downlink) = 0
    BY <2>1
  <2>3. SubSeq(downlink, 1, n) \in Seq(Cell) /\ Len(SubSeq(downlink, 1, n)) = n
    BY <2>1, Cut
  <2>4. n = 0
    BY <2>2
  <2> QED
    BY <1>3, <2>3, <2>4, EmptySeq
<1>5. peer' \in {"killed", "reset"}
  BY <1>2 DEF PeerDies
<1> QED
  BY <1>1, <1>4, <1>5 DEF Silent, Ended

------------------------------------------------------------------------------
(* The invariant.                                                           *)

\* The invariant holds in the beginning.
LEMMA InitInv == ClientInit => Inv
<1> SUFFICES ASSUME ClientInit PROVE Inv
  OBVIOUS
<1>1. /\ command \in Commands /\ stored \in Stores /\ step = "start" /\ uplink = <<>> /\ ~ shut
      /\ peer = "serves" /\ downlink = <<>> /\ held = <<>> /\ count = 0 /\ output = <<>>
  BY DEF ClientInit
<1>2. Len(uplink) = 0 /\ uplink \in Seq(Piece)
  BY <1>1, EmptySeq
<1>3. RequestInv
  <2>1. UploadInv
    BY <1>2 DEF UploadInv
  <2> QED
    BY <1>1, <1>2, <2>1 DEF RequestInv
<1>4. KindInv
  BY <1>1, EmptySeq, StoreAssumption DEF KindInv, Steps, Sending
<1>5. Silent /\ AnswerInv
  BY <1>1 DEF AnswerInv, Silent, Sending, Ended
<1>6. EndFails
  BY <1>1 DEF EndFails, Ended
<1> QED
  BY <1>3, <1>4, <1>5, <1>6 DEF Inv

\* The kinds of a step's values, given those of what is read and written.
LEMMA KindStays ==
  ASSUME RequestInv, KindInv, ClientNext,
         held' \in Seq(Cell), downlink' \in Seq(Cell), output' \in Seq(Cell),
         Verb \in {"GET", "LIST"} => stored' = stored
  PROVE  KindInv'
<1>1. /\ step \in Steps
      /\ peer \in {"serves", "answered", "closed", "killed", "reset"}
      /\ Verb \in {"GET", "LIST"} => stored \in {Missing} \cup Seq(Block)
  BY DEF KindInv
<1>2. command' = command /\ step' \in Steps
      /\ peer' \in {"serves", "answered", "closed", "killed", "reset"}
  <2>1. CASE Requests
    BY <1>1, <2>1, SendingStep DEF answerVars, Steps, Reading
  <2>2. CASE Reader
    BY <1>1, <2>2, ReadingStep DEF requestVars, Steps
  <2>3. CASE Peer \/ PeerDies
    <3>1. PeerAnswers \/ PeerCloses \/ PeerDies
      BY <2>3 DEF Peer
    <3> QED
      BY <1>1, <3>1, PeerStep DEF requestVars
  <2> QED
    BY <2>1, <2>2, <2>3 DEF ClientNext, Client, Requests, Reader
<1> QED
  BY <1>1, <1>2 DEF KindInv, Verb

\* The request, whatever the step is.
LEMMA RequestStays ==
  ASSUME RequestInv, ClientNext, count' \in Nat
  PROVE  RequestInv'
<1>1. CASE SendBlocks
  BY <1>1, BlocksFollow
<1>2. CASE Start \/ SendHeader \/ SendSize \/ Shutdown
  BY <1>2, HeaderFirst
<1>3. CASE ConnectionLost
  <2>1. UNCHANGED requestVars /\ step' = "ended"
    BY <1>3 DEF ConnectionLost, Ends
  <2>2. step' \notin Sending \cup {"first"}
    BY <2>1 DEF Sending
  <2> QED
    BY <2>1, <2>2, RequestSent
<1>4. CASE Reader
  <2>1. /\ UNCHANGED requestVars /\ step \in Reading \cup {"get"}
        /\ step' = step \/ step' \in (Reading \ {"first"}) \cup {"get", "ended"}
    BY <1>4, ReadingStep
  <2>2. CASE step' \notin Sending \cup {"first"}
    BY <2>1, <2>2, RequestSent
  <2>3. CASE step' \in Sending \cup {"first"}
    <3>1. step' = "first" /\ step = "first"
      BY <2>1, <2>3 DEF Sending, Reading
    <3>2. FALSE
      BY <1>4, <3>1 DEF Reader, Refill, ReadFails, ReadLine, ReadMessage, ReadSize, ReadNames,
                        ReadExtra, ReadEnds, GetData, GetEnds, NextCell, Ends
    <3> QED
      BY <3>2
  <2> QED
    BY <2>2, <2>3
<1>5. CASE Peer \/ PeerDies
  <2>1. PeerAnswers \/ PeerCloses \/ PeerDies
    BY <1>5 DEF Peer
  <2>2. UNCHANGED requestVars /\ step' = step /\ count' = count
    BY <2>1, PeerStep
  <2> QED
    BY <2>2, RequestSent
<1> QED
  BY <1>1, <1>2, <1>3, <1>4, <1>5 DEF ClientNext, Client, Reader

\* A client that ends while it sends has not sent a whole file, but an empty
\* one, or has lost the server.
LEMMA RequestFails ==
  ASSUME RequestInv, Requests
  PROVE  EndFails'
<1> SUFFICES ASSUME step' = "ended", Verb' = "PUT", ~ Lost', Accepted'
             PROVE  command'.file.size = 0
  BY DEF EndFails, Ended
<1>1. /\ command' = command /\ UNCHANGED answerVars /\ step \in Sending
  BY SendingStep
<1>2. peer' = peer /\ Verb = "PUT" /\ ~ Lost
  BY <1>1 DEF answerVars, Verb, Lost
<1>3. Len(uplink') > 1 /\ Len(SubSeq(uplink', 3, Len(uplink'))) = uplink'[2]
  BY DEF Accepted, Uploaded
<1>4. uplink \in Seq(Piece) /\ command \in Commands /\ count \in Nat
  BY DEF RequestInv
<1>5. CASE Start \/ SendHeader \/ ConnectionLost \/ SendSize \/ Shutdown
  <2>1. ~ SendHeader /\ ~ ConnectionLost
    BY <1>2 DEF SendHeader, ConnectionLost
  <2>2. ~ Shutdown
    BY <1>2 DEF Shutdown, Lost
  <2>3. ASSUME Start
        PROVE  Len(uplink') = 0
    BY <2>3 DEF Start, requestVars, RequestInv
  <2>4. ASSUME SendSize
        PROVE  Len(uplink') = 1
    BY <2>4 DEF SendSize, RequestInv
  <2> QED
    BY <1>3, <1>5, <2>1, <2>2, <2>3, <2>4
<1>6. CASE SendBlocks
  <2>1. step = "blocks" /\ uplink' = uplink
    BY <1>6 DEF SendBlocks
  <2>2. Len(uplink) = 2 + count /\ (count = 0 \/ count < command.file.size)
    BY <2>1 DEF RequestInv
  <2>3. uplink[2] = command.file.size /\ command.file # Missing
    BY <1>3, <2>1 DEF RequestInv, UploadInv
  <2>4. Len(SubSeq(uplink, 3, Len(uplink))) = count
    <3>1. 2 \in 0 .. Len(uplink) /\ Len(uplink) - 2 = count
      BY <1>4, <2>2
    <3>2. Len(SubSeq(uplink, 2 + 1, Len(uplink))) = Len(uplink) - 2
      BY <1>4, <3>1, Cut
    <3> QED
      BY <3>1, <3>2
  <2>5. command.file.size = count /\ command.file.size \in Nat
    BY <1>3, <1>4, <2>1, <2>3, <2>4, CommandKind
  <2> QED
    BY <1>1, <1>4, <2>2, <2>5
<1> QED
  BY <1>5, <1>6 DEF Requests

\* Nothing the server does makes a failure of what was none.
LEMMA PeerFailsStay ==
  ASSUME EndFails, PeerAnswers \/ PeerCloses \/ PeerDies
  PROVE  EndFails'
<1>1. UNCHANGED requestVars /\ UNCHANGED <<step, result>>
  BY PeerStep
<1>2. command' = command /\ uplink' = uplink
  BY <1>1 DEF requestVars
<1>3. (Ended' <=> Ended) /\ Verb' = Verb /\ (Accepted' <=> Accepted)
  BY <1>1, <1>2 DEF Ended, Verb, Accepted, Uploaded
<1>4. Lost => Lost'
  BY DEF Lost, PeerAnswers, PeerCloses, PeerDies
<1> QED
  BY <1>1, <1>2, <1>3, <1>4 DEF EndFails

\* Every step keeps it: those of the request, of the readers and of the server.
LEMMA NextInv == Inv /\ [ClientNext]_clientVars => Inv'
<1> SUFFICES ASSUME Inv, [ClientNext]_clientVars PROVE Inv'
  OBVIOUS
<1>1. RequestInv /\ KindInv /\ AnswerInv /\ EndFails
  BY DEF Inv
<1>2. CASE UNCHANGED clientVars
  <2>1. /\ command' = command /\ stored' = stored /\ step' = step /\ uplink' = uplink /\ shut' = shut
        /\ peer' = peer /\ downlink' = downlink /\ held' = held /\ count' = count
        /\ expected' = expected /\ output' = output /\ result' = result
    BY <1>2 DEF clientVars
  <2>2. RequestInv'
    BY <1>1, <2>1 DEF RequestInv, UploadInv, Verb
  <2>3. KindInv'
    BY <1>1, <2>1 DEF KindInv, Verb
  <2>4. Silent' <=> Silent
    BY <2>1 DEF Silent, Ended
  <2>5. ASSUME NEW ans, NEW p \in Nat, Given(ans), Reads(ans, p)
        PROVE  Given(ans)' /\ Reads(ans, p)'
    <3>1. Verb' = Verb /\ (Accepted' <=> Accepted) /\ Uploaded' = Uploaded
      BY <2>1 DEF Verb, Accepted, Uploaded
    <3>2. Answer' = Answer
      BY <2>1, <3>1 DEF Answer
    <3>3. (Eof' <=> Eof) /\ (IsOk(ans)' <=> IsOk(ans))
      BY <2>1, <3>1, Zenon DEF Eof, IsOk
    <3>4. Given(ans)'
      BY <2>1, <2>5, <3>1, <3>2, <3>3 DEF Given
    <3>5. Streams(ans, p)'
      BY <2>1, <2>5 DEF Reads, Streams
    <3>6. ReaderAt(ans, p)'
      BY <2>1, <2>5, <3>1, <3>3 DEF Reads, ReaderAt, Wrote
    <3>7. Ended' => EndSays(ans)'
      BY <2>1, <2>5, <3>1, <3>3 DEF Reads, EndSays, Wrote, Ended
    <3> QED
      BY <3>4, <3>5, <3>6, <3>7 DEF Reads
  <2>6. AnswerInv'
    BY <1>1, <2>1, <2>4, <2>5 DEF AnswerInv
  <2>7. EndFails'
    BY <1>1, <2>1 DEF EndFails, Ended, Verb, Lost, Accepted, Uploaded
  <2> QED
    BY <2>2, <2>3, <2>6, <2>7 DEF Inv
<1>3. CASE Requests
  <2>1. UNCHANGED answerVars
    BY <1>3, SendingStep
  <2>2. /\ held' \in Seq(Cell) /\ downlink' \in Seq(Cell) /\ output' \in Seq(Cell)
        /\ stored' = stored /\ peer' = peer
    BY <1>1, <2>1 DEF KindInv, answerVars
  <2>3. ClientNext
    BY <1>3 DEF ClientNext, Client, Requests
  <2>4. KindInv'
    BY <1>1, <2>2, <2>3, KindStays
  <2>5. RequestInv'
    <3>1. CASE ConnectionLost
      <4>1. count' \in Nat
        BY <1>1, <3>1 DEF ConnectionLost, RequestInv
      <4> QED
        BY <1>1, <2>3, <4>1, RequestStays
    <3>2. CASE ~ ConnectionLost
      BY <1>1, <1>3, <3>2, BlocksFollow, HeaderFirst DEF Requests
    <3> QED
      BY <3>1, <3>2
  <2>6. AnswerInv'
    <3>1. CASE Silent
      <4>1. Silent'
        BY <1>3, <3>1, SilentRequest
      <4> QED
        BY <4>1 DEF AnswerInv
    <3>2. CASE ~ Silent
      <4>1. PICK ans : \E p \in Nat : Given(ans) /\ Reads(ans, p)
        BY <1>1, <3>2 DEF AnswerInv
      <4>2. PICK p \in Nat : Given(ans) /\ Reads(ans, p)
        BY <4>1
      <4>3. Given(ans)' /\ Reads(ans, p)'
        BY <1>1, <1>3, <4>2, GivenStays, ReadsRequest
      <4>4. peer' # "serves"
        BY <1>1, <2>2, <3>2 DEF AnswerInv
      <4> QED
        BY <4>3, <4>4 DEF AnswerInv
    <3> QED
      BY <3>1, <3>2
  <2>7. EndFails'
    BY <1>1, <1>3, RequestFails
  <2> QED
    BY <2>4, <2>5, <2>6, <2>7 DEF Inv
<1>4. CASE Reader
  <2>1. ClientNext
    BY <1>4 DEF ClientNext, Client, Reader
  <2>2. UNCHANGED requestVars /\ UNCHANGED <<stored, peer>>
    BY <1>4, ReadingStep
  <2>3. stored' = stored /\ peer' = peer /\ command' = command /\ uplink' = uplink
    BY <2>2 DEF requestVars
  <2>4. CASE Silent
    <3>1. /\ Silent' /\ UNCHANGED answerVars /\ UNCHANGED requestVars /\ count' = count
          /\ step' = "ended" /\ Lost'
      BY <1>1, <1>4, <2>4, SilentReader
    <3>2. held' \in Seq(Cell) /\ downlink' \in Seq(Cell) /\ output' \in Seq(Cell)
      BY <1>1, <3>1 DEF KindInv, answerVars
    <3>3. KindInv'
      BY <1>1, <2>1, <2>3, <3>2, KindStays
    <3>4. count' \in Nat
      BY <1>1, <3>1 DEF RequestInv
    <3>5. RequestInv'
      BY <1>1, <2>1, <3>4, RequestStays
    <3>6. AnswerInv' /\ EndFails'
      BY <3>1 DEF AnswerInv, EndFails
    <3> QED
      BY <3>3, <3>5, <3>6 DEF Inv
  <2>5. CASE ~ Silent
    <3>1. PICK ans : \E p \in Nat : Given(ans) /\ Reads(ans, p)
      BY <1>1, <2>5 DEF AnswerInv
    <3>2. PICK p \in Nat : Given(ans) /\ Reads(ans, p)
      BY <3>1
    <3>3. PICK q \in Nat : Reached(ans, q)'
      BY <1>1, <1>4, <3>2, ReaderKeepsTo
    <3>4. /\ held' \in Seq(Cell) /\ downlink' \in Seq(Cell) /\ output' \in Seq(Cell)
          /\ count' \in Nat /\ Reads(ans, q)' /\ FailsOnlyWhenLost(ans)'
      BY <3>3 DEF Reached
    <3>5. KindInv'
      BY <1>1, <2>1, <2>3, <3>4, KindStays
    <3>6. RequestInv'
      BY <1>1, <2>1, <3>4, RequestStays
    <3>7. Given(ans)'
      BY <1>1, <1>4, <3>2, GivenStays
    <3>8. AnswerInv'
      <4>1. peer' # "serves"
        BY <1>1, <2>3, <2>5 DEF AnswerInv
      <4> QED
        BY <3>4, <3>7, <4>1 DEF AnswerInv
    <3>9. EndFails'
      BY <3>4, <3>7 DEF EndFails, FailsOnlyWhenLost, Given
    <3> QED
      BY <3>5, <3>6, <3>8, <3>9 DEF Inv
  <2> QED
    BY <2>4, <2>5
<1>5. CASE PeerAnswers \/ PeerCloses \/ PeerDies
  <2>1. ClientNext
    BY <1>5 DEF ClientNext, Peer
  <2>2. UNCHANGED <<step, held, count, expected, output, result>>
    BY <1>5, PeerStep
  <2>3. held' \in Seq(Cell) /\ output' \in Seq(Cell) /\ count' \in Nat
    BY <1>1, <2>2 DEF KindInv, RequestInv
  <2>4. RequestInv'
    BY <1>1, <2>1, <2>3, RequestStays
  <2>5. EndFails'
    BY <1>1, <1>5, PeerFailsStay
  <2>6. peer' # "serves"
    BY <1>5, PeerStep
  <2>7. /\ downlink' \in Seq(Cell) /\ (Verb \in {"GET", "LIST"} => stored' = stored)
        /\ AnswerInv'
    <3>1. CASE PeerAnswers
      <4>1. Silent
        BY <1>1, <3>1 DEF AnswerInv, PeerAnswers
      <4>2. PICK ans : ans = Answer
        OBVIOUS
      <4>3. /\ Given(ans)' /\ Reads(ans, 0)' /\ downlink' \in Seq(Cell)
            /\ Verb \in {"GET", "LIST"} => stored' = stored
        BY <1>1, <3>1, <4>1, <4>2, AnswerIsGiven
      <4>4. \E p \in Nat : Given(ans)' /\ Reads(ans, p)'
        BY <4>3
      <4> QED
        BY <2>6, <4>3, <4>4 DEF AnswerInv
    <3>2. CASE PeerCloses \/ PeerDies
      <4>1. stored' = stored
        BY <3>2 DEF PeerCloses, PeerDies
      <4>2. CASE Silent
        <5>1. Silent' /\ downlink' \in Seq(Cell)
          BY <1>1, <3>2, <4>2, SilentPeer
        <5> QED
          BY <4>1, <5>1 DEF AnswerInv
      <4>3. CASE ~ Silent
        <5>1. PICK ans : \E p \in Nat : Given(ans) /\ Reads(ans, p)
          BY <1>1, <4>3 DEF AnswerInv
        <5>2. PICK p \in Nat : Given(ans) /\ Reads(ans, p)
          BY <5>1
        <5>3. ans \in Seq(Cell)
          BY <5>2 DEF Given
        <5>4. Given(ans)' /\ Reads(ans, p)' /\ downlink' \in Seq(Cell)
          BY <1>1, <3>2, <5>2, <5>3, GivenStays, ReadsPeer
        <5> QED
          BY <2>6, <4>1, <5>4 DEF AnswerInv
      <4> QED
        BY <4>2, <4>3
    <3> QED
      BY <1>5, <3>1, <3>2
  <2>8. KindInv'
    BY <1>1, <2>1, <2>3, <2>7, KindStays
  <2> QED
    BY <2>4, <2>5, <2>7, <2>8 DEF Inv
<1> QED
  BY <1>2, <1>3, <1>4, <1>5 DEF ClientNext, Client, Peer, Requests, Reader

\* So it always holds.
LEMMA InvHolds == ClientSpec => []Inv
<1>1. ClientInit => Inv
  BY InitInv
<1>2. Inv /\ [ClientNext]_clientVars => Inv'
  BY NextInv
<1> QED
  BY <1>1, <1>2, PTL DEF ClientSpec

------------------------------------------------------------------------------
(* The theorems.                                                            *)

\* All data that has been written is the answer after its first four cells.
LEMMA WrittenIsData ==
  ASSUME NEW ans \in Seq(Cell), Len(ans) >= 4, output \in Seq(Cell), Wrote(ans, Len(ans) - 4)
  PROVE  output = SubSeq(ans, 5, Len(ans))
<1>1. Len(ans) \in Nat /\ 4 \in 0 .. Len(ans)
  BY LenProperties
<1>2. /\ SubSeq(ans, 4 + 1, Len(ans)) \in Seq(Cell)
      /\ Len(SubSeq(ans, 4 + 1, Len(ans))) = Len(ans) - 4
      /\ \A i \in 1 .. Len(ans) - 4 : SubSeq(ans, 4 + 1, Len(ans))[i] = ans[4 + i]
  <2> DEFINE n == 4
  <2>1. n \in 0 .. Len(ans)
    BY <1>1
  <2> HIDE DEF n
  <2>2. /\ SubSeq(ans, n + 1, Len(ans)) \in Seq(Cell)
        /\ Len(SubSeq(ans, n + 1, Len(ans))) = Len(ans) - n
        /\ \A i \in 1 .. Len(ans) - n : SubSeq(ans, n + 1, Len(ans))[i] = ans[n + i]
    BY <2>1, Cut
  <2> QED
    BY <2>2 DEF n
<1>3. Len(output) = Len(ans) - 4 /\ \A i \in 1 .. Len(ans) - 4 : output[i] = ans[4 + i]
  BY DEF Wrote
<1>4. output = SubSeq(ans, 4 + 1, Len(ans))
  BY <1>2, <1>3, SeqEqual
<1> QED
  BY <1>4

\* What a GET or LIST has written, when its client ends with 0 and without a
\* complaint, is the data of the answer (client.c:194).
LEMMA WrittenIsAnswered ==
  ASSUME Inv, Ended, result.exit = 0, result.said = ""
  PROVE  output = SubSeq(Answer, 5, Len(Answer))
<1>1. ~ Silent
  BY DEF Silent, Ended
<1>2. PICK ans : \E p \in Nat : Given(ans) /\ Reads(ans, p)
  BY <1>1 DEF Inv, AnswerInv
<1>3. Given(ans) /\ EndSays(ans)
  BY <1>2 DEF Reads
<1>4. Verb \in {"GET", "LIST"} /\ IsOk(ans) /\ Wrote(ans, Len(ans) - 4)
  BY <1>3 DEF EndSays
<1>5. ans = Answer /\ ans \in Seq(Cell) /\ Len(ans) >= 4 /\ output \in Seq(Cell)
  BY <1>3, <1>4 DEF Given, IsOk, Inv, KindInv
<1>6. output = SubSeq(ans, 5, Len(ans))
  BY <1>4, <1>5, WrittenIsData
<1> QED
  BY <1>5, <1>6

\* What a PUT that reports success has left on the server is the file
\* (client.c:131).
LEMMA PutIsStored ==
  ASSUME Inv, Ended, result.said = "success", Verb = "PUT"
  PROVE  stored = SubSeq(command.file.blocks, 1, command.file.size)
<1> DEFINE blocks == command.file.blocks
           size == command.file.size
<1>1. ~ Silent
  BY DEF Silent, Ended, OfAnswers
<1>2. PICK ans : \E p \in Nat : Given(ans) /\ Reads(ans, p)
  BY <1>1 DEF Inv, AnswerInv
<1>3. Given(ans) /\ EndSays(ans)
  BY <1>2 DEF Reads
<1>4. IsOk(ans)
  BY <1>3 DEF EndSays
<1>5. Accepted /\ stored = Uploaded
  BY <1>3, <1>4 DEF Given
<1>6. /\ uplink \in Seq(Piece) /\ command \in Commands /\ UploadInv
      /\ Len(uplink) > 1 /\ Len(SubSeq(uplink, 3, Len(uplink))) = uplink[2]
  BY <1>5 DEF Inv, RequestInv, Accepted, Uploaded
<1>7. /\ command.file # Missing /\ uplink[2] = size /\ Len(uplink) - 2 <= Len(blocks)
      /\ \A i \in 1 .. Len(uplink) - 2 : uplink[2 + i] = blocks[i]
  BY <1>6 DEF UploadInv
<1>8. size \in Nat /\ blocks \in Seq(Block) /\ Len(blocks) \in Nat /\ Len(uplink) \in Nat
  BY <1>6, <1>7, CommandKind, LenProperties
<1>9. /\ Uploaded \in Seq(Piece) /\ Len(Uploaded) = Len(uplink) - 2
      /\ \A i \in 1 .. Len(uplink) - 2 : Uploaded[i] = uplink[2 + i]
  <2>1. 2 \in 0 .. Len(uplink)
    BY <1>6, <1>8
  <2>2. /\ SubSeq(uplink, 2 + 1, Len(uplink)) \in Seq(Piece)
        /\ Len(SubSeq(uplink, 2 + 1, Len(uplink))) = Len(uplink) - 2
        /\ \A i \in 1 .. Len(uplink) - 2 : SubSeq(uplink, 2 + 1, Len(uplink))[i] = uplink[2 + i]
    BY <1>6, <2>1, Cut
  <2>3. Uploaded = SubSeq(uplink, 2 + 1, Len(uplink))
    BY DEF Uploaded
  <2> QED
    BY <2>2, <2>3
<1>10. Len(uplink) - 2 = size /\ size \in 0 .. Len(blocks)
  <2>1. Len(Uploaded) = size
    BY <1>6, <1>7 DEF Uploaded
  <2> QED
    BY <1>7, <1>8, <1>9, <2>1
<1>11. /\ SubSeq(blocks, 1, size) \in Seq(Block) /\ Len(SubSeq(blocks, 1, size)) = size
       /\ \A i \in 1 .. size : SubSeq(blocks, 1, size)[i] = blocks[i]
  BY <1>8, <1>10, Cut
<1>12. SubSeq(blocks, 1, size) \in Seq(Piece)
  BY <1>11, SeqMonotonic DEF Piece
<1>13. \A i \in 1 .. size : Uploaded[i] = SubSeq(blocks, 1, size)[i]
  BY <1>7, <1>9, <1>10, <1>11
<1>14. Len(Uploaded) = size
  BY <1>9, <1>10
<1>15. Uploaded = SubSeq(blocks, 1, size)
  BY <1>9, <1>11, <1>12, <1>13, <1>14, SeqEqual
<1> QED
  BY <1>5, <1>15

\* A GET or LIST that ends with 0 and without a complaint has written exactly
\* the data of the answer, however it was cut into reads, and a PUT that reports
\* success has left its file on the server (client.c:194, client.c:131).
THEOREM TheClientIsRight == ClientSpec => []TellsTheTruth
<1>1. Inv => TellsTheTruth
  BY WrittenIsAnswered, PutIsStored DEF TellsTheTruth
<1> QED
  BY <1>1, InvHolds, PTL

\* A file that the server has taken in is reported as a failure only when the
\* connection was lost or the file is empty (client.c:341).
THEOREM StoredFilesAreReported == ClientSpec => []StoredIsReported
<1>1. Inv => StoredIsReported
  BY DEF Inv, EndFails, StoredIsReported, Lost
<1> QED
  BY <1>1, InvHolds, PTL

\* The client's checks for too much data (client.c:153, client.c:230) are never
\* the reason it gives up: a server that answers as server.c does sends what it
\* announces, or less when it dies.
NeverTooMuch == Ended => result.said # "received too much data"

\* It never does, whatever the file and however the answer is cut.
THEOREM ServerNeverSendsTooMuch == ClientSpec => []NeverTooMuch
<1>1. Inv => NeverTooMuch
  <2>1. ASSUME Inv, Ended
        PROVE  result.said # "received too much data"
    <3>1. CASE Silent
      BY <2>1, <3>1 DEF Silent, OfAnswers
    <3>2. CASE ~ Silent
      <4>1. PICK ans : \E p \in Nat : Given(ans) /\ Reads(ans, p)
        BY <2>1, <3>2 DEF Inv, AnswerInv
      <4> QED
        BY <2>1, <4>1 DEF Reads, EndSays
    <3> QED
      BY <3>1, <3>2
  <2> QED
    BY <2>1 DEF NeverTooMuch
<1> QED
  BY <1>1, InvHolds, PTL

=============================================================================
