----------------------------- MODULE FakeFSProofs -----------------------------
(***************************************************************************)
(* TLAPS proofs about fakefs, for any disk, any programs and any number of *)
(* calls.                                                                  *)
(***************************************************************************)
EXTENDS FakeFSProperties, MinixFSProofs, FiniteSetTheorems

------------------------------------------------------------------------------
(* The descriptor table.                                                    *)

\* A table of descriptors: what is mapped is held open by the kernel; a fakefile
\* that nobody duplicated is mapped by the descriptor it was opened as and by no
\* other, and is not freed.
File == {"path", "offset", "refcount"}
Table_(T, sh) ==
  /\ DOMAIN T = {"map", "files", "busy"}
  /\ T.map \in [Keys -> Keys \cup {NoKey}]
  /\ T.busy \subseteq Fds
  /\ DOMAIN T.files = Keys
  /\ \A k \in Keys : DOMAIN T.files[k] = File /\ T.files[k].refcount \in {0, 1}
  /\ \A k \in Fds : T.map[k] # NoKey => k \in T.busy
  /\ \A k \in Keys : T.map[k] # NoKey /\ T.map[k] \notin sh =>
       T.map[k] = k /\ T.files[k].refcount = 1
Held == Table_(tab, shared) /\ (stream # <<>> => stream[1].fd \in Keys /\ 1 \in DOMAIN stream /\ "fd" \in DOMAIN stream[1])

\* What keys and descriptors are.
LEMMA KeyNumbers ==
  /\ Fds \subseteq Nat /\ Fds \subseteq Keys /\ -1 \in Keys /\ NoKey \notin Keys /\ -1 \notin Fds
BY MaxFdAssumption DEF Fds, Keys, NoKey

\* open() of the kernel returns a descriptor that is not open, or -1.
LEMMA OrigOpen ==
  ASSUME NEW T
  PROVE  orig_open(T) \in Keys /\ (orig_open(T) \in Fds => orig_open(T) \notin T.busy)
         /\ (orig_open(T) > 0 => orig_open(T) \in Fds)
<1> DEFINE free == Fds \ T.busy
<1>1. CASE free = {}
  <2>1. orig_open(T) = -1
    BY <1>1 DEF orig_open
  <2> QED
    BY <2>1, KeyNumbers
<1>2. CASE free # {}
  <2>1. free \in SUBSET Nat
    BY KeyNumbers
  <2>2. Least(free) \in free
    BY <1>2, <2>1, LeastIn
  <2>3. orig_open(T) = Least(free)
    BY <1>2 DEF orig_open
  <2> QED
    BY <2>2, <2>3, KeyNumbers
<1> QED
  BY <1>1, <1>2

\* A fakefile is opened: its descriptor was not mapped, or is -1.
LEMMA OpenKeeps ==
  ASSUME NEW T, NEW sh, Table_(T, sh), NEW path
  PROVE  Table_(OpenFile(T, path), sh)
<1> DEFINE fd == orig_open(T)
           new == [path |-> path, offset |-> 0, refcount |-> 1]
           U == OpenFile(T, path)
<1>1. fd \in Keys /\ (fd \in Fds => fd \notin T.busy)
  BY OrigOpen
<1>2. /\ U.map = [T.map EXCEPT ![fd] = fd] /\ U.files = [T.files EXCEPT ![fd] = new]
      /\ U.busy = T.busy \cup ({fd} \cap Fds) /\ DOMAIN U = {"map", "files", "busy"}
  BY DEF OpenFile
<1>3. DOMAIN new = File /\ new.refcount = 1
  BY DEF File
<1> HIDE DEF fd, new, U
<1>4. U.map \in [Keys -> Keys \cup {NoKey}] /\ U.busy \subseteq Fds /\ DOMAIN U.files = Keys
  BY <1>1, <1>2 DEF Table_
<1>5. ASSUME NEW k \in Keys
      PROVE  DOMAIN U.files[k] = File /\ U.files[k].refcount \in {0, 1}
  BY <1>1, <1>2, <1>3 DEF Table_
<1>6. ASSUME NEW k \in Fds, U.map[k] # NoKey
      PROVE  k \in U.busy
  BY <1>1, <1>2, <1>6, KeyNumbers DEF Table_
<1>7. ASSUME NEW k \in Keys, U.map[k] # NoKey, U.map[k] \notin sh
      PROVE  U.map[k] = k /\ U.files[k].refcount = 1
  BY <1>1, <1>2, <1>3, <1>7 DEF Table_
<1> QED
  BY <1>2, <1>4, <1>5, <1>6, <1>7 DEF Table_, U

\* A descriptor is closed: a fakefile that was not duplicated goes with it.
LEMMA CloseKeeps ==
  ASSUME NEW T, NEW sh, Table_(T, sh), NEW fd \in Keys
  PROVE  Table_(CloseFile(T, fd), sh)
<1> DEFINE U == CloseFile(T, fd)
<1>1. CASE ~Mapped(T, fd)
  <2>1. U = [T EXCEPT !.busy = @ \ {fd}]
    BY <1>1 DEF CloseFile
  <2>2. U.map = T.map /\ U.files = T.files /\ U.busy = T.busy \ {fd}
        /\ DOMAIN U = {"map", "files", "busy"}
    BY <2>1 DEF Table_
  <2> HIDE DEF U
  <2> QED
    BY <1>1, <2>2 DEF Table_, Mapped, U
<1>2. CASE Mapped(T, fd)
  <2> DEFINE m == T.map[fd]
             old == T.files[m]
             new == Released(old)
  <2>1. m \in Keys
    BY <1>2 DEF Table_, Mapped
  <2>2. new = NoFile
    BY <2>1 DEF Table_, Released
  <2>3. DOMAIN new = File /\ new.refcount = 0
    BY <2>2 DEF NoFile, File
  <2>4. U = [T EXCEPT !.map[fd] = NoKey, !.files[m] = new]
    BY <1>2 DEF CloseFile, FileAt
  <2> HIDE DEF m, new, U
  <2>5. /\ U.map = [T.map EXCEPT ![fd] = NoKey] /\ U.files = [T.files EXCEPT ![m] = new]
        /\ U.busy = T.busy /\ DOMAIN U = {"map", "files", "busy"}
    BY <2>4 DEF Table_
  <2>6. U.map \in [Keys -> Keys \cup {NoKey}] /\ U.busy \subseteq Fds /\ DOMAIN U.files = Keys
    BY <2>5 DEF Table_
  <2>7. ASSUME NEW k \in Keys
        PROVE  DOMAIN U.files[k] = File /\ U.files[k].refcount \in {0, 1}
    BY <2>1, <2>3, <2>5 DEF Table_
  <2>8. ASSUME NEW k \in Fds, U.map[k] # NoKey
        PROVE  k \in U.busy
    BY <2>5, <2>8, KeyNumbers DEF Table_
  <2>9. ASSUME NEW k \in Keys, U.map[k] # NoKey, U.map[k] \notin sh
        PROVE  U.map[k] = k /\ U.files[k].refcount = 1
    <3>1. k # fd /\ U.map[k] = T.map[k]
      BY <2>5, <2>9 DEF Table_
    <3>2. T.map[k] = k /\ T.files[k].refcount = 1
      BY <2>9, <3>1 DEF Table_
    <3>3. CASE m = k
      <4>1. m \notin sh
        BY <2>9, <3>1, <3>2, <3>3
      <4>2. m = fd
        BY <1>2, <4>1 DEF Table_, Mapped, m
      <4> QED
        BY <3>1, <3>3, <4>2
    <3> QED
      BY <2>1, <2>5, <3>1, <3>2, <3>3 DEF Table_
  <2> QED
    BY <2>5, <2>6, <2>7, <2>8, <2>9 DEF Table_, U
<1> QED
  BY <1>1, <1>2

\* A fakefile's offset moves.
LEMMA AdvanceKeeps ==
  ASSUME Held, NEW fd \in Keys, Mapped(tab, fd), NEW off, Advance(fd, off)
  PROVE  Table_(tab', shared)
<1> DEFINE m == tab.map[fd]
           new == [tab.files[m] EXCEPT !.offset = off]
<1>1. m \in Keys
  BY DEF Held, Table_, Mapped
<1>2. DOMAIN new = File /\ new.refcount = tab.files[m].refcount
  BY <1>1 DEF Held, Table_, File
<1>3. tab' = [tab EXCEPT !.files[m] = new]
  BY DEF Advance
<1> HIDE DEF m, new
<1>4. /\ tab'.map = tab.map /\ tab'.files = [tab.files EXCEPT ![m] = new]
      /\ tab'.busy = tab.busy /\ DOMAIN tab' = {"map", "files", "busy"}
  BY <1>3 DEF Held, Table_
<1>5. DOMAIN tab'.files = Keys
      /\ \A k \in Keys : DOMAIN tab'.files[k] = File /\ tab'.files[k].refcount = tab.files[k].refcount
  BY <1>1, <1>2, <1>4 DEF Held, Table_
<1> QED
  BY <1>4, <1>5 DEF Held, Table_

\* A descriptor comes to share a fakefile.
LEMMA ShareKeeps ==
  ASSUME Held, NEW fd \in Keys, Mapped(tab, fd), NEW new \in Fds,
         tab' = [tab EXCEPT !.map[new] = tab.map[fd], !.busy = @ \cup {new}]
  PROVE  Table_(tab', shared \cup {tab.map[fd]})
<1> DEFINE m == tab.map[fd]
<1>1. m \in Keys
  BY DEF Held, Table_, Mapped
<1>2. tab' = [tab EXCEPT !.map[new] = m, !.busy = @ \cup {new}]
  OBVIOUS
<1> HIDE DEF m
<1>3. /\ tab'.map = [tab.map EXCEPT ![new] = m] /\ tab'.files = tab.files
      /\ tab'.busy = tab.busy \cup {new} /\ DOMAIN tab' = {"map", "files", "busy"}
  BY <1>2 DEF Held, Table_
<1>4. \A k \in Keys : tab'.map[k] # NoKey /\ tab'.map[k] \notin shared \cup {m} =>
        tab'.map[k] = k /\ tab'.files[k].refcount = 1
  BY <1>3 DEF Held, Table_
<1>5. Table_(tab', shared \cup {m})
  BY <1>1, <1>3, <1>4, KeyNumbers DEF Held, Table_
<1> QED
  BY <1>5 DEF m

\* Fewer fakefiles are known to be unshared: nothing else changes.
LEMMA SharedGrows ==
  ASSUME NEW T, NEW sh, NEW k, Table_(T, sh)
  PROVE  Table_(T, sh \cup {k})
BY DEF Table_

\* What the wrappers that call open() leave of the table.
LEMMA OpenedKeeps ==
  ASSUME NEW T, NEW sh, Table_(tab, sh), NEW R, NEW path, T = OpenedTable(R, path)
  PROVE  Table_(T, sh) /\ OpenedFd(R) \in Keys /\ Table_(CloseFile(T, OpenedFd(R)), sh)
<1>1. OpenedFd(R) \in Keys
  BY OrigOpen, KeyNumbers DEF OpenedFd
<1>2. Table_(T, sh)
  BY OpenKeeps DEF OpenedTable
<1> QED
  BY <1>1, <1>2, CloseKeeps

\* The wrappers that open, call and close.
LEMMA WrapperKeeps ==
  ASSUME Held, NEW path \in Names,
         (\/ stat(path)
          \/ \E perm \in Perms : chmod(path, perm)
          \/ \E owner \in Owners : lchown(path, owner))
  PROVE  Held'
<1> DEFINE Wrapped == \E R : /\ \/ tab' = CloseFile(OpenedTable(R, path), OpenedFd(R))
                                \/ tab' = OpenedTable(R, path)
                             /\ UNCHANGED <<stream, shared>>
<1>1. Wrapped
  <2>1. ASSUME stat(path)
        PROVE  Wrapped
    BY <2>1 DEF stat, OpenCallClose
  <2>2. ASSUME NEW perm \in Perms, chmod(path, perm)
        PROVE  Wrapped
    BY <2>2 DEF chmod, OpenCallClose
  <2>3. ASSUME NEW owner \in Owners, lchown(path, owner)
        PROVE  Wrapped
    BY <2>3 DEF lchown, OpenCallClose
  <2> QED
    BY <2>1, <2>2, <2>3
<1> QED
  BY <1>1, OpenedKeeps DEF Held

\* Init leaves nothing mapped.
LEMMA HeldInit ==
  ASSUME tab = NoTable, stream = <<>>
  PROVE  Held
<1>1. Table_(NoTable, shared)
  BY KeyNumbers DEF NoTable, Table_, NoFile, File
<1> QED
  BY <1>1 DEF Held

\* The calls that open a descriptor or a directory.
LEMMA OpenHeld ==
  ASSUME Held, NEW path, (\E creates \in BOOLEAN : open(path, creates)) \/ opendir(path)
  PROVE  Held'
<1>1. ASSUME NEW creates \in BOOLEAN, open(path, creates)
      PROVE  Held'
  <2>1. tab' \in {OpenFile(tab, path), tab} /\ UNCHANGED <<stream, shared>>
    BY <1>1 DEF open
  <2> QED
    BY <2>1, OpenKeeps DEF Held
<1>2. CASE opendir(path)
  <2>1. PICK R : /\ tab' = OpenedTable(R, path)
                 /\ \/ stream' = <<>>
                    \/ \E names : stream' = << [fd |-> OpenedFd(R), left |-> names] >>
                 /\ shared' = shared
    BY <1>2 DEF opendir
  <2>2. Table_(tab', shared) /\ OpenedFd(R) \in Keys
    BY <2>1, OpenedKeeps DEF Held
  <2>3. stream' # <<>> => stream'[1].fd \in Keys /\ 1 \in DOMAIN stream' /\ "fd" \in DOMAIN stream'[1]
    BY <2>1, <2>2
  <2> QED
    BY <2>1, <2>2, <2>3 DEF Held
<1> QED
  BY <1>1, <1>2

\* The calls through a descriptor.
LEMMA ThroughHeld ==
  ASSUME Held, NEW fd \in Keys,
         \/ \E count \in FakeCounts : read(fd, count)
         \/ \E buf \in FakeBuffers : write(fd, buf)
         \/ \E off \in FakeOffsets : lseek(fd, off)
         \/ \E new \in Fds : dup2(fd, new)
         \/ close(fd) \/ dup(fd) \/ UseAfterFree(fd)
  PROVE  Held'
<1>1. ASSUME NEW off, Mapped(tab, fd), Advance(fd, off), UNCHANGED <<stream, shared>>
      PROVE  Held'
  BY <1>1, AdvanceKeeps DEF Held
<1>2. ASSUME NEW count \in FakeCounts, read(fd, count)
      PROVE  Held'
  BY <1>1, <1>2 DEF read, Through
<1>3. ASSUME NEW buf \in FakeBuffers, write(fd, buf)
      PROVE  Held'
  BY <1>1, <1>3 DEF write, Through
<1>4. ASSUME NEW off \in FakeOffsets, lseek(fd, off)
      PROVE  Held'
  BY <1>1, <1>4 DEF lseek, Through
<1>5. ASSUME NEW new \in Fds, dup2(fd, new)
      PROVE  Held'
  BY <1>5, ShareKeeps DEF dup2, Through, Held
<1>6. CASE close(fd)
  BY <1>6, CloseKeeps DEF close, Held
<1>7. CASE dup(fd)
  <2>1. Mapped(tab, fd) /\ shared' = shared \cup {tab.map[fd]} /\ stream' = stream
    BY <1>7 DEF dup, Through
  <2>2. CASE orig_open(tab) > 0
    <3>1. orig_open(tab) \in Fds
      BY <2>2, OrigOpen
    <3>2. tab' = [tab EXCEPT !.map[orig_open(tab)] = tab.map[fd], !.busy = @ \cup {orig_open(tab)}]
      BY <1>7, <2>2 DEF dup
    <3> QED
      BY <2>1, <3>1, <3>2, ShareKeeps DEF Held
  <2>3. CASE ~ (orig_open(tab) > 0)
    <3>1. tab' = tab
      BY <1>7, <2>3 DEF dup
    <3> QED
      BY <2>1, <3>1, SharedGrows DEF Held
  <2> QED
    BY <2>2, <2>3
<1>8. CASE UseAfterFree(fd)
  BY <1>8 DEF UseAfterFree, Held
<1> QED
  BY <1>2, <1>3, <1>4, <1>5, <1>6, <1>7, <1>8

\* Every step keeps the table.
LEMMA HeldStep ==
  ASSUME Held, [Next]_vars
  PROVE  Held'
<1>1. ASSUME UNCHANGED <<tab, stream, shared>>
      PROVE  Held'
  BY <1>1 DEF Held
<1>2. ASSUME NEW path \in Paths, NEW buf \in Buffers, NEW off \in Offsets,
             minixfs_write_at(path, buf, off)
      PROVE  Held'
  BY <1>1, <1>2 DEF minixfs_write_at
<1>3. ASSUME NEW pair \in Grown, min_blockcount(pair[1], pair[2])
      PROVE  Held'
  BY <1>1, <1>3 DEF min_blockcount
<1>4. ASSUME NEW who, NEW path, unlink(who, path)
      PROVE  Held'
  BY <1>1, <1>4 DEF unlink
<1>5. ASSUME NEW who, NEW path, NEW perm, mkdir(who, path, perm)
      PROVE  Held'
  BY <1>1, <1>5 DEF mkdir
<1>6. ASSUME NEW path, NEW perm, access(path, perm)
      PROVE  Held'
  BY <1>1, <1>6 DEF access
<1>7. ASSUME NEW pair \in Copies, cp(pair[1], pair[2])
      PROVE  Held'
  BY <1>1, <1>7 DEF cp
<1>8. CASE readdir
  <2>1. /\ stream # <<>> /\ stream' = [stream EXCEPT ![1].left = Tail(@)]
        /\ tab' = tab /\ shared' = shared
    BY <1>8 DEF readdir
  <2>2. stream'[1].fd = stream[1].fd /\ 1 \in DOMAIN stream' /\ "fd" \in DOMAIN stream'[1]
    BY <2>1 DEF Held
  <2> QED
    BY <2>1, <2>2 DEF Held
<1>9. CASE closedir
  <2>1. /\ stream # <<>> /\ tab' = CloseFile(tab, stream[1].fd) /\ stream' = <<>> /\ shared' = shared
    BY <1>9 DEF closedir
  <2> QED
    BY <2>1, CloseKeeps DEF Held
<1>10. CASE Restart
  <2>1. tab' = NoTable /\ stream' = <<>>
    BY <1>10 DEF Restart, Exec
  <2>2. Table_(NoTable, shared')
    BY KeyNumbers DEF NoTable, Table_, NoFile, File
  <2> QED
    BY <2>1, <2>2 DEF Held
<1>11. CASE UNCHANGED vars
  BY <1>1, <1>11 DEF vars
<1>12. ASSUME NEW path \in FakePaths, (\E creates \in BOOLEAN : open(path, creates)) \/ unlink("fakefs", path)
       PROVE  Held'
  BY <1>4, <1>12, OpenHeld
<1>13. ASSUME NEW path \in Names,
              \/ stat(path) \/ opendir(path)
              \/ \E perm \in Perms : access(path, perm) \/ chmod(path, perm)
              \/ \E owner \in Owners : lchown(path, owner)
       PROVE  Held'
  BY <1>6, <1>13, OpenHeld, WrapperKeeps
<1> QED
  BY <1>2, <1>3, <1>4, <1>5, <1>7, <1>8, <1>9, <1>10, <1>11, <1>12, <1>13, ThroughHeld DEF Next

\* core.c:115: a descriptor whose fakefile was never duplicated never outlives it.
THEOREM NeverDangles == Spec => []DanglesOnlyWhenShared
<1>1. Init => Held
  BY HeldInit DEF Init, InitWith
<1>2. Held /\ [Next]_vars => Held'
  BY HeldStep
<1>3. Held => DanglesOnlyWhenShared
  BY DEF Held, Table_, DanglesOnlyWhenShared, Mapped, Freed, FileAt
<1> QED
  BY <1>1, <1>2, <1>3, PTL DEF Spec
------------------------------------------------------------------------------
(* The disk image.                                                          *)

\* An image, and what the calls keep of it.
Disks == [inode : [Inodes -> Node], used : SUBSET Blocks, data : [Blocks \cup {Unassigned} -> Content]]
Statuses == {"up", "down", "ruined"}
\* An inode that is whole holds just what it was told to; one that is free was told
\* nothing.
Recalls ==
  /\ told \in [Inodes -> Seq(Cell)]
  /\ \A i \in Inodes : ~ Live(fs, i) => i \in whole /\ told[i] = <<>>
  /\ status # "ruined" /\ untidy = {} => \A i \in whole : HoldsJust(fs, i, told[i])
Saved ==
  /\ fs \in Disks /\ untidy \subseteq Inodes /\ whole \subseteq Inodes /\ status \in Statuses
  /\ status # "ruined" /\ untidy = {} => Sane(fs)
  /\ Recalls

\* The orders in which rand() comes upon the blocks are sequences of blocks.
LEMMA OrderType == Orders \subseteq Seq(Blocks) /\ <<>> \in Seq(Blocks)
<1>1. Cardinality(Blocks) \in Nat
  BY Sizes, FS_Interval DEF Blocks
<1>2. \A order \in Orders : order \in [1 .. Cardinality(Blocks) -> Blocks]
  BY OrdersAssumption DEF SetToSeqs
<1> QED
  BY <1>1, <1>2

\* Mapping an image.
LEMMA Mapping ==
  ASSUME NEW f \in Disks, NEW order \in Seq(Blocks), NEW luck \in BOOLEAN
  PROVE  LET F == open_fs(f, order, luck)
         IN /\ F \in Mounted /\ Fine(F) /\ F.status = "up" /\ F.untidy = {}
            /\ F.inode = f.inode /\ F.used = f.used /\ F.data = f.data
            /\ Sane(f) <=> Sane(F)
<1> DEFINE F == open_fs(f, order, luck)
<1>1. /\ F.status = "up" /\ F.untidy = {} /\ F.inode = f.inode /\ F.used = f.used /\ F.data = f.data
  BY DEF open_fs
<1>2. F \in Mounted
  BY DEF open_fs, Mounted, Disks
<1> HIDE DEF F
<1>3. Sane(f) <=> Sane(F)
  <2>1. Sane(f) => Sane(F)
    BY <1>1, SameDisk
  <2>2. Sane(F) => Sane(f)
    BY <1>1, SameDisk
  <2> QED
    BY <2>1, <2>2
<1> QED
  BY <1>1, <1>2, <1>3 DEF Fine, F

\* Writing a mapped image back.
LEMMA Unmapping ==
  ASSUME NEW F \in Mounted
  PROVE  Disk(F) \in Disks /\ (Sane(F) => Sane(Disk(F)))
<1> DEFINE f == Disk(F)
<1>1. f.inode = F.inode /\ f.used = F.used /\ f.data = F.data
  BY DEF Disk
<1>2. f \in Disks
  BY MountedFields DEF Disk, Disks
<1> HIDE DEF f
<1>3. Sane(F) => Sane(f)
  BY <1>1, SameDisk
<1> QED
  BY <1>2, <1>3 DEF f

\* Writing over what a file holds.
LEMMA OverlayType ==
  ASSUME NEW c \in Seq(Cell), NEW buf \in Seq(Cell), NEW off \in Nat, off <= Len(c)
  PROVE  /\ Overlay(c, off, buf) \in Seq(Cell)
         /\ Len(Overlay(c, off, buf)) = IF off + Len(buf) > Len(c) THEN off + Len(buf) ELSE Len(c)
<1> DEFINE n == IF off + Len(buf) > Len(c) THEN off + Len(buf) ELSE Len(c)
           cell(j) == IF j \in off + 1 .. off + Len(buf) THEN buf[j - off] ELSE c[j]
<1>1. n \in Nat
  OBVIOUS
<1>2. ASSUME NEW j \in 1 .. n
      PROVE  cell(j) \in Cell
  <2>1. CASE j \in off + 1 .. off + Len(buf)
    <3>1. j - off \in 1 .. Len(buf)
      BY <2>1
    <3> QED
      BY <2>1, <3>1
  <2>2. CASE j \notin off + 1 .. off + Len(buf)
    <3>1. j \in 1 .. Len(c)
      BY <2>2
    <3> QED
      BY <2>2, <3>1
  <2> QED
    BY <2>1, <2>2
<1>3. Overlay(c, off, buf) = [j \in 1 .. n |-> cell(j)]
  BY DEF Overlay
<1> HIDE DEF n, cell
<1>4. [j \in 1 .. n |-> cell(j)] \in Seq(Cell) /\ Len([j \in 1 .. n |-> cell(j)]) = n
  BY <1>1, <1>2
<1> QED
  BY <1>3, <1>4 DEF n

\* An inode that has been written over holds just that.
LEMMA OverlayHeld ==
  ASSUME NEW G, NEW k, Live(G, k), NEW c \in Seq(Cell), NEW buf \in Seq(Cell), NEW off \in Nat,
         off <= Len(c), Len(c) <= MaxFileSize, off + Len(buf) <= MaxFileSize,
         G.inode[k].size = (IF off + Len(buf) > Len(c) THEN off + Len(buf) ELSE Len(c)),
         HoldsOver(G, k, c, off, buf, off + Len(buf))
  PROVE  HoldsJust(G, k, Overlay(c, off, buf))
<1> DEFINE o == Overlay(c, off, buf)
           n == IF off + Len(buf) > Len(c) THEN off + Len(buf) ELSE Len(c)
<1>1. o \in Seq(Cell) /\ Len(o) = n
  BY OverlayType
<1>2. n \in Nat /\ n <= MaxFileSize /\ G.inode[k].size = n
  OBVIOUS
<1>3. ASSUME NEW j \in 0 .. n - 1
      PROVE  HasAt(G, k, j, o[j + 1])
  <2>1. o[j + 1] = IF j + 1 \in off + 1 .. off + Len(buf) THEN buf[j + 1 - off] ELSE c[j + 1]
    <3>1. j + 1 \in 1 .. n
      BY <1>2
    <3> QED
      BY <3>1 DEF Overlay
  <2> HIDE DEF o
  <2>2. CASE j \in off .. off + Len(buf) - 1
    <3>1. j + 1 \in off + 1 .. off + Len(buf) /\ j + 1 - off = j - off + 1
      BY <2>2
    <3>2. HasAt(G, k, j, buf[j - off + 1])
      BY <2>2 DEF HoldsOver
    <3> QED
      BY <2>1, <3>1, <3>2
  <2>3. CASE j \notin off .. off + Len(buf) - 1
    <3>1. j + 1 \notin off + 1 .. off + Len(buf) /\ j \in 0 .. Len(c) - 1
      BY <1>2, <2>3
    <3>2. HasAt(G, k, j, c[j + 1])
      BY <2>3, <3>1 DEF HoldsOver
    <3> QED
      BY <2>1, <3>1, <3>2
  <2> QED
    BY <2>2, <2>3
<1> HIDE DEF o, n
<1>4. Holds(G, k, o)
  BY <1>1, <1>3 DEF Holds
<1> QED
  BY <1>1, <1>2, <1>4 DEF HoldsJust, o

\* What a write leaves in a file.
LEMMA WriteHolds ==
  ASSUME NEW F \in Mounted, NEW R, Sane(F), Fine(R.fs), NEW off \in Nat, NEW buf \in Seq(Cell),
         PutsIn(F, R, buf, off), NEW c, HoldsJust(F, R.ino, c), off <= Len(c), R.ret = Len(buf)
  PROVE  /\ HoldsJust(R.fs, R.ino, Overlay(c, off, buf))
         /\ R.off = off + Len(buf) /\ off + Len(buf) <= MaxFileSize
<1>1. R.ret # -1 /\ c \in Seq(Cell) /\ Len(c) <= MaxFileSize
  BY DEF HoldsJust
<1>2. /\ Live(R.fs, R.ino) /\ R.off = off + Len(buf) /\ off + Len(buf) <= MaxFileSize
      /\ R.fs.inode[R.ino].size = IF off + Len(buf) > Len(c) THEN off + Len(buf) ELSE Len(c)
      /\ HoldsOver(R.fs, R.ino, c, off, buf, R.off)
  BY <1>1 DEF PutsIn
<1>3. HoldsJust(R.fs, R.ino, Overlay(c, off, buf))
  BY <1>1, <1>2, OverlayHeld
<1> QED
  BY <1>2, <1>3

\* What a call has to put into the inodes that it writes: what it was told, over
\* what they were.
Remembers(F) == \A i \in whole : HoldsJust(F, i, told[i])
Puts(F, R, is, off, buf, ok) ==
  /\ Spares(F, R.fs, is)
  /\ Sane(F) /\ Fine(R.fs) /\ Remembers(F) =>
       \A k \in Inodes : k \in is /\ Gapless(k, off, ok) /\ Live(R.fs, k) =>
         HoldsJust(R.fs, k, Overlay(told[k], off, buf))

\* A write does.
LEMMA WritePuts ==
  ASSUME Recalls, NEW F \in Mounted, NEW R, NEW off \in Nat, NEW buf \in Seq(Cell),
         Written(F, R), PutsIn(F, R, buf, off)
  PROVE  Puts(F, R, {R.ino}, off, buf, R.ret = Len(buf))
<1>1. Spares(F, R.fs, {R.ino})
  BY GrownSpares DEF Written
<1>2. ASSUME Sane(F), Fine(R.fs), Remembers(F), NEW k \in Inodes, k \in {R.ino},
             Gapless(k, off, R.ret = Len(buf)), Live(R.fs, k)
      PROVE  HoldsJust(R.fs, k, Overlay(told[k], off, buf))
  <2> DEFINE c == told[k]
  <2>1. R.ret = Len(buf) /\ off <= Len(c) /\ HoldsJust(F, R.ino, c) /\ R.ino = k
    BY <1>2 DEF Gapless, Remembers
  <2> HIDE DEF c
  <2>2. HoldsJust(R.fs, R.ino, Overlay(c, off, buf))
    BY <1>2, <2>1, WriteHolds
  <2> QED
    BY <2>1, <2>2 DEF c
<1> QED
  BY <1>1, <1>2 DEF Puts

\* A call that changes the disk, as it is remembered.
LEMMA RecordedRecalls ==
  ASSUME Recalls, fs \in Disks, status # "ruined" /\ untidy = {} => Sane(fs), status = "up",
         NEW F \in Mounted, F.inode = fs.inode, F.data = fs.data, Sane(fs) => Sane(F),
         NEW R, Keeps(F, R.fs), NEW is, NEW off \in Nat, NEW buf \in Seq(Cell), NEW ok,
         Puts(F, R, is, off, buf, ok), Recorded(R, is, off, buf, ok),
         status' # "ruined" => R.fs.status # "ruined"
  PROVE  Recalls'
<1> DEFINE G == R.fs
           after == Disk(G)
<1>1. /\ fs' = after /\ untidy' = untidy \cup G.untidy
      /\ told' = [k \in Inodes |->
                    IF ~ Live(after, k) THEN <<>>
                    ELSE IF k \in is /\ Gapless(k, off, ok) THEN Overlay(told[k], off, buf)
                    ELSE told[k]]
      /\ whole' = {k \in Inodes :
                     \/ ~ Live(after, k)
                     \/ k \in is /\ Gapless(k, off, ok)
                     \/ k \in whole \ is /\ (~ Live(fs, k) \/ after.inode[k].size = fs.inode[k].size)}
  BY DEF Recorded
<1>2. after.inode = G.inode /\ after.data = G.data
  BY DEF Disk
<1> HIDE DEF G, after
<1>3. \A k \in Inodes : (Live(after, k) <=> Live(G, k)) /\ (Live(fs, k) <=> Live(F, k))
  BY <1>2 DEF Live
<1>4. told' \in [Inodes -> Seq(Cell)]
  <2>1. ASSUME NEW k \in Inodes, Gapless(k, off, ok)
        PROVE  Overlay(told[k], off, buf) \in Seq(Cell)
    BY <2>1, OverlayType DEF Gapless, Recalls
  <2>2. <<>> \in Seq(Cell)
    OBVIOUS
  <2> QED
    BY <1>1, <2>1, <2>2 DEF Recalls
<1>5. ASSUME NEW k \in Inodes, ~ Live(fs', k)
      PROVE  k \in whole' /\ told'[k] = <<>>
  BY <1>1, <1>5
<1>6. ASSUME status' # "ruined", untidy' = {}, NEW k \in whole'
      PROVE  HoldsJust(fs', k, told'[k])
  <2>1. k \in Inodes
    BY <1>1
  <2>2. Fine(G) /\ untidy = {}
    BY <1>1, <1>6 DEF Fine, G
  <2>3. Sane(F) /\ \A i \in whole : HoldsJust(fs, i, told[i])
    BY <2>2 DEF Recalls
  <2>4. Bystanders(F, G, is)
    BY <2>2, <2>3 DEF Puts, Spares, G
  <2>5. HoldsJust(G, k, told'[k])
    <3>1. CASE ~ Live(G, k)
      <4>1. told'[k] = <<>>
        BY <1>1, <1>3, <2>1, <3>1
      <4>2. <<>> \in Seq(Cell) /\ Len(<<>>) = 0 /\ 0 <= MaxFileSize
        <5>1. \A a, b \in Nat : (a + a) * b \in Nat
          OBVIOUS
        <5>2. MaxFileSize \in Nat
          BY <5>1, Sizes DEF MaxFileSize
        <5> QED
          BY <5>2
      <4> QED
        BY <3>1, <4>1, <4>2 DEF HoldsJust
    <3>2. CASE Live(G, k) /\ k \in is /\ Gapless(k, off, ok)
      <4>1. told'[k] = Overlay(told[k], off, buf)
        BY <1>1, <1>3, <2>1, <3>2
      <4>2. ASSUME NEW i \in whole
            PROVE  HoldsJust(F, i, told[i])
        <5> DEFINE c == told[i]
        <5>1. HoldsJust(fs, i, c)
          BY <2>3
        <5> HIDE DEF c
        <5>2. HoldsJust(F, i, c)
          BY <5>1, HoldsAlike
        <5> QED
          BY <5>2 DEF c
      <4>3. Remembers(F)
        BY <4>2 DEF Remembers
      <4> QED
        BY <2>1, <2>2, <2>3, <3>2, <4>1, <4>3 DEF Puts, G
    <3>3. CASE Live(G, k) /\ ~ (k \in is /\ Gapless(k, off, ok))
      <4>1. /\ told'[k] = told[k] /\ k \in whole \ is
            /\ ~ Live(fs, k) \/ after.inode[k].size = fs.inode[k].size
        BY <1>1, <1>3, <2>1, <3>3
      <4>2. HoldsJust(fs, k, told[k])
        BY <2>3, <4>1
      <4>3. HoldsJust(F, k, told[k])
        BY <4>2, HoldsAlike
      <4>4. Live(F, k) => G.inode[k].size = F.inode[k].size
        BY <1>2, <1>3, <2>1, <4>1
      <4>5. k \in Inodes \ is
        BY <2>1, <4>1
      <4>6. HoldsJust(G, k, told[k])
        BY <2>4, <3>3, <4>3, <4>4, <4>5, HeldStill
      <4> QED
        BY <4>1, <4>6
    <3> QED
      BY <3>1, <3>2, <3>3
  <2> DEFINE c == told'[k]
  <2>6. fs'.inode = G.inode /\ fs'.data = G.data
    BY <1>1, <1>2
  <2> HIDE DEF c
  <2>7. HoldsJust(fs', k, c)
    BY <2>5, <2>6, HoldsAlike DEF c
  <2> QED
    BY <2>7 DEF c
<1> QED
  BY <1>4, <1>5, <1>6 DEF Recalls

\* A call that changes the disk.
LEMMA RecordedSaved ==
  ASSUME Saved, status = "up", NEW order \in Orders \cup {<<>>}, NEW luck \in BOOLEAN,
         NEW R, Keeps(open_fs(fs, order, luck), R.fs),
         NEW is, NEW off \in Nat, NEW buf \in Seq(Cell), NEW ok,
         Puts(open_fs(fs, order, luck), R, is, off, buf, ok), Recorded(R, is, off, buf, ok),
         status' \in Statuses, status' # "ruined" => R.fs.status # "ruined"
  PROVE  Saved'
<1> DEFINE F == open_fs(fs, order, luck)
<1>1. order \in Seq(Blocks)
  BY OrderType
<1>2. F \in Mounted /\ (Sane(fs) => Sane(F))
  BY <1>1, Mapping DEF Saved
<1>3. Keeps(F, R.fs) /\ Puts(F, R, is, off, buf, ok) /\ F.inode = fs.inode /\ F.data = fs.data
  BY DEF open_fs
<1> HIDE DEF F
<1>4. R.fs \in Mounted /\ (Sane(F) /\ Fine(R.fs) => Sane(R.fs))
  BY <1>3 DEF Keeps
<1>5. fs' = Disk(R.fs) /\ untidy' = untidy \cup R.fs.untidy /\ whole' \subseteq Inodes
  BY DEF Recorded
<1>6. Disk(R.fs) \in Disks /\ (Sane(R.fs) => Sane(Disk(R.fs)))
  BY <1>4, Unmapping
<1>7. untidy' \subseteq Inodes
  BY <1>4, <1>5, MountedFields DEF Saved
<1>8. ASSUME status' # "ruined", untidy' = {}
      PROVE  Sane(fs')
  <2>1. Fine(R.fs) /\ untidy = {}
    BY <1>5, <1>8 DEF Fine
  <2>2. Sane(fs)
    BY <2>1 DEF Saved
  <2>3. Sane(R.fs)
    BY <1>2, <1>4, <2>1, <2>2
  <2> QED
    BY <1>5, <1>6, <2>3
<1>9. fs' \in Disks
  BY <1>5, <1>6
<1>10. Recalls'
  BY <1>2, <1>3, RecordedRecalls DEF Saved
<1> QED
  BY <1>5, <1>7, <1>8, <1>9, <1>10 DEF Saved

\* A call that does not.
LEMMA LookedSaved ==
  ASSUME Saved, status # "ruined" \/ status' = status, UNCHANGED disk, status' \in Statuses
  PROVE  Saved'
<1>1. fs' = fs /\ untidy' = untidy /\ whole' = whole /\ told' = told
  BY DEF disk
<1>2. Recalls'
  BY <1>1 DEF Saved, Recalls
<1> QED
  BY <1>1, <1>2 DEF Saved, Statuses

\* The fakefiles name paths and are at positions of files; so does one that is
\* opened.
Named_(T) ==
  \A k \in Keys : T.files[k].path \in Seq(STRING) /\ T.files[k].offset \in Nat

\* One that is opened names its path and starts at 0.
LEMMA OpenNamed ==
  ASSUME NEW T, NEW sh, Table_(T, sh), Named_(T), NEW path \in Seq(STRING)
  PROVE  Named_(OpenFile(T, path))
<1> DEFINE new == [path |-> path, offset |-> 0, refcount |-> 1]
           U == OpenFile(T, path)
<1>1. U.files = [T.files EXCEPT ![orig_open(T)] = new]
  BY DEF OpenFile
<1>2. new.path \in Seq(STRING) /\ new.offset \in Nat
  OBVIOUS
<1> HIDE DEF new, U
<1>3. ASSUME NEW k \in Keys
      PROVE  U.files[k] \in {new, T.files[k]}
  BY <1>1 DEF Table_
<1> QED
  BY <1>2, <1>3 DEF Named_, U

\* Closing leaves no path that is not one.
LEMMA CloseNamed ==
  ASSUME NEW T, NEW sh, Table_(T, sh), Named_(T), NEW fd \in Keys
  PROVE  Named_(CloseFile(T, fd))
<1> DEFINE U == CloseFile(T, fd)
<1>1. CASE ~ Mapped(T, fd)
  <2>1. U = [T EXCEPT !.busy = @ \ {fd}]
    BY <1>1 DEF CloseFile
  <2>2. U.files = T.files
    BY <2>1 DEF Table_
  <2> HIDE DEF U
  <2> QED
    BY <2>2 DEF Named_, U
<1>2. CASE Mapped(T, fd)
  <2> DEFINE m == T.map[fd]
             new == Released(T.files[m])
  <2>1. m \in Keys
    BY <1>2 DEF Table_, Mapped
  <2>2. new = NoFile
    BY <2>1 DEF Table_, Released
  <2>3. U = [T EXCEPT !.map[fd] = NoKey, !.files[m] = new]
    BY <1>2 DEF CloseFile, FileAt
  <2> HIDE DEF m, new, U
  <2>4. U.files = [T.files EXCEPT ![m] = new]
    BY <2>3 DEF Table_
  <2>5. ASSUME NEW k \in Keys
        PROVE  U.files[k] \in {NoFile, T.files[k]}
    BY <2>2, <2>4 DEF Table_
  <2>6. NoFile.path \in Seq(STRING) /\ NoFile.offset \in Nat
    BY DEF NoFile
  <2> QED
    BY <2>5, <2>6 DEF Named_, U
<1> QED
  BY <1>1, <1>2

\* Moving an offset changes no path.
LEMMA AdvanceNamed ==
  ASSUME Held, Named_(tab), NEW fd \in Keys, Mapped(tab, fd), NEW off \in Nat, Advance(fd, off)
  PROVE  Named_(tab')
<1> DEFINE m == tab.map[fd]
           new == [tab.files[m] EXCEPT !.offset = off]
<1>1. m \in Keys
  BY DEF Held, Table_, Mapped
<1>2. new.offset = off /\ new.path = tab.files[m].path
  BY <1>1 DEF Held, Table_, File
<1>3. tab' = [tab EXCEPT !.files[m] = new]
  BY DEF Advance
<1> HIDE DEF m, new
<1>4. tab'.files = [tab.files EXCEPT ![m] = new]
  BY <1>3 DEF Held, Table_
<1>5. ASSUME NEW k \in Keys
      PROVE  tab'.files[k].path = tab.files[k].path /\ tab'.files[k].offset \in {off, tab.files[k].offset}
  BY <1>2, <1>4, <1>1 DEF Held, Table_
<1> QED
  BY <1>5 DEF Named_

\* What a lookup answers is a number.
LEMMA FoundNumbers == Found \subseteq Int /\ IsFiniteSet(Found)
<1>1. Found \subseteq Int
  BY Named DEF Found, NoInode, Wild
<1>2. Found \subseteq -2 .. MaxInodes - 1
  BY Sizes DEF Found, NoInode, Wild, Inodes
<1>3. IsFiniteSet(-2 .. MaxInodes - 1)
  BY Sizes, FS_Interval
<1> QED
  BY <1>1, <1>2, <1>3, FS_Subset

\* A copy: a turn of its loop keeps the disk.
Copies_ == [fs : Mounted, ret : Int, from : Nat, to : Nat, into : SUBSET Found, done : BOOLEAN]

\* One turn.
LEMMA CpTurnKeeps ==
  ASSUME NEW src \in Seq(STRING), NEW dst \in Seq(STRING), NEW C \in Copies_
  PROVE  LET E == CpTurn(src, dst, C) IN /\ E \in Copies_ /\ Keeps(C.fs, E.fs)
            /\ C.into \subseteq E.into /\ Grows(C.fs, E.fs, E.into)
<1> DEFINE E == CpTurn(src, dst, C)
           R == minixfs_read(C.fs, src, 1, C.from)
           W == minixfs_write(R.fs, dst, R.cells, C.to)
<1>1. /\ C.fs \in Mounted /\ C.ret \in Int /\ C.from \in Nat /\ C.to \in Nat /\ C.into \in SUBSET Found
  BY DEF Copies_
<1>2. ReadOK(C.fs, R)
  <2>1. 1 \in Nat
    OBVIOUS
  <2> QED
    BY <1>1, <2>1, ReadKeeps
<1> HIDE DEF R
<1>3. /\ Keeps(C.fs, R.fs) /\ R.fs \in Mounted /\ R.ret \in Int /\ R.off \in Nat /\ R.cells \in Seq(Cell)
      /\ Grows(C.fs, R.fs, {})
  BY <1>2 DEF ReadOK, Answered, Keeps
<1>4. Written(R.fs, W)
  BY <1>1, <1>3, WriteKeeps
<1> HIDE DEF W
<1>5. /\ Keeps(R.fs, W.fs) /\ W.fs \in Mounted /\ W.ret \in Int /\ W.off \in Nat /\ W.ino \in Found
      /\ Grows(R.fs, W.fs, {W.ino})
  BY <1>4 DEF Written, Keeps, Found
<1>6. CASE C.done
  <2>1. E = C
    BY <1>6 DEF CpTurn
  <2>2. Keeps(C.fs, C.fs) /\ Grows(C.fs, C.fs, C.into)
    BY <1>1, KeepsStill, GrownStill DEF Grows
  <2> HIDE DEF E
  <2> QED
    BY <1>1, <2>1, <2>2 DEF E
<1>7. CASE ~ C.done /\ (R.ret <= 0 \/ R.fs.status = "down")
  <2>1. E = Copying(R.fs, R.ret, C.from, C.to, C.into, TRUE)
    BY <1>7 DEF CpTurn, CpGot, R
  <2>2. E \in Copies_ /\ E.fs = R.fs /\ E.into = C.into
    BY <1>1, <1>3, <2>1 DEF Copying, Copies_
  <2>3. Grows(C.fs, R.fs, C.into)
    BY <1>3, GrowsMore
  <2> HIDE DEF E
  <2> QED
    BY <1>3, <2>2, <2>3 DEF E
<1>8. CASE ~ C.done /\ ~ (R.ret <= 0 \/ R.fs.status = "down")
  <2> DEFINE bad == W.ret < 0
             into == C.into \cup {W.ino}
  <2>1. E = Copying(W.fs, W.ret, R.off, W.off, into, bad)
    BY <1>8 DEF CpTurn, CpGot, CpPut, R, W
  <2>2. bad \in BOOLEAN /\ into \in SUBSET Found /\ {W.ino} \subseteq into /\ C.into \subseteq into
    BY <1>1, <1>5
  <2> HIDE DEF bad, into
  <2>3. E \in Copies_ /\ E.fs = W.fs /\ E.into = into
    BY <1>3, <1>5, <2>1, <2>2 DEF Copying, Copies_
  <2> HIDE DEF E
  <2>4. Keeps(C.fs, W.fs)
    BY <1>3, <1>5, KeepsTwice
  <2>5. Grows(C.fs, W.fs, into)
    <3>1. Grows(C.fs, R.fs, into) /\ Grows(R.fs, W.fs, into)
      BY <1>3, <1>5, <2>2, GrowsMore
    <3>2. Grows(C.fs, W.fs, into \cup into)
      BY <1>1, <1>3, <1>5, <3>1, GrowsTwice
    <3> QED
      BY <3>2
  <2> QED
    BY <2>2, <2>3, <2>4, <2>5 DEF E
<1> QED
  BY <1>6, <1>7, <1>8

\* What every turn keeps is kept by the loop.
LEMMA CpLoopIn ==
  ASSUME NEW src, NEW dst, NEW S, NEW C \in S, \A W \in S : CpTurn(src, dst, W) \in S
  PROVE  CpLoop(src, dst, C) \in S
<1> DEFINE N == MaxFileSize + 1
           step == [a \in (1 .. N) \X S |-> CpTurn(src, dst, a[2])]
           Follows(turn) == turn = [n \in 0 .. N |-> IF n = 0 THEN C
                                                     ELSE CpTurn(src, dst, turn[n - 1])]
<1>1. N \in Nat
  <2>1. \A a, b \in Nat : (a + a) * b \in Nat
    OBVIOUS
  <2> QED
    BY <2>1, Sizes DEF MaxFileSize
<1> HIDE DEF N
<1>4. step \in [(1 .. N) \X S -> S]
  OBVIOUS
<1>5. PICK g \in [0 .. N -> S] : g[0] = C /\ \A n \in 1 .. N : g[n] = step[<<n, g[n - 1]>>]
  <2> HIDE DEF step
  <2>1. Turned(N, S, C, step)
    BY <1>1, <1>4, Recursion
  <2> QED
    BY <2>1 DEF Turned
<1>6. ASSUME NEW n \in 1 .. N
      PROVE  g[n] = CpTurn(src, dst, g[n - 1])
  <2>1. n - 1 \in 0 .. N
    BY <1>1
  <2>2. g[n - 1] \in S
    BY <2>1
  <2> QED
    BY <1>5, <2>2
<1>7. Follows(g)
  <2> DEFINE h == [n \in 0 .. N |-> IF n = 0 THEN C ELSE CpTurn(src, dst, g[n - 1])]
  <2>1. ASSUME NEW n \in 0 .. N
        PROVE  g[n] = h[n]
    <3>1. n = 0 \/ n \in 1 .. N
      BY <1>1
    <3> QED
      BY <1>5, <1>6, <3>1
  <2>2. h = [n \in 0 .. N |-> h[n]] /\ g = [n \in 0 .. N |-> g[n]]
    OBVIOUS
  <2>3. g = h
    <3> HIDE DEF h
    <3> QED
      BY <2>1, <2>2
  <2> QED
    BY <2>3
<1> DEFINE T == CHOOSE turn : Follows(turn)
<1>8. CpLoop(src, dst, C) = T[N]
  BY DEF CpLoop, N
<1>9. Follows(T)
  <2> HIDE DEF Follows
  <2> QED
    BY <1>7
<1>10. T[0] = C /\ \A n \in 1 .. N : T[n] = CpTurn(src, dst, T[n - 1])
  <2>1. T = [n \in 0 .. N |-> IF n = 0 THEN C ELSE CpTurn(src, dst, T[n - 1])]
    BY <1>9
  <2> HIDE DEF T
  <2> QED
    BY <1>1, <2>1
<1> HIDE DEF T
<1> DEFINE Good == {n \in 0 .. N : T[n] \in S}
<1>11. \A n \in 0 .. N : n \in Good
  <2>1. 0 \in Good
    BY <1>1, <1>10
  <2>2. ASSUME NEW n \in 1 .. N, n - 1 \in Good
        PROVE  n \in Good
    BY <1>10, <2>2
  <2> HIDE DEF Good
  <2> QED
    BY <1>1, <2>1, <2>2, AllTurns
<1>12. T[N] \in S
  BY <1>1, <1>11
<1> QED
  BY <1>8, <1>12

\* What a copy makes of the disk: it grows, and only the inodes of into are
\* written to.
CopyKeeps(F, k, C) == Keeps(F, C.fs) /\ Grows(F, C.fs, C.into) /\ k \in C.into
LEMMA CpTurnOn ==
  ASSUME NEW src \in Seq(STRING), NEW dst \in Seq(STRING), NEW F \in Mounted, NEW k,
         NEW C \in Copies_, CopyKeeps(F, k, C)
  PROVE  CpTurn(src, dst, C) \in Copies_ /\ CopyKeeps(F, k, CpTurn(src, dst, C))
<1> DEFINE E == CpTurn(src, dst, C)
<1>1. /\ E \in Copies_ /\ Keeps(C.fs, E.fs)
      /\ C.into \subseteq E.into /\ Grows(C.fs, E.fs, E.into)
  BY CpTurnKeeps
<1> HIDE DEF E
<1>2. C.fs \in Mounted /\ Keeps(F, C.fs) /\ Grows(F, C.fs, C.into) /\ k \in C.into
  BY DEF Copies_, CopyKeeps
<1>3. Grows(F, C.fs, E.into)
  BY <1>1, <1>2, GrowsMore
<1>4. Grows(F, E.fs, E.into \cup E.into)
  BY <1>1, <1>2, <1>3, GrowsTwice
<1>5. E.into \cup E.into = E.into
  OBVIOUS
<1>6. Keeps(F, E.fs)
  BY <1>1, <1>2, KeepsTwice
<1> QED
  BY <1>1, <1>2, <1>4, <1>5, <1>6 DEF E, CopyKeeps

\* The files are found first: what is then known of the copy that starts.
CpBegun(F, dst, S, D) ==
  LET k == get_inode(D.fs, dst)
      C == CpStart(dst, S, D)
  IN /\ C \in Copies_ /\ C.fs = D.fs /\ C.ret = 1 /\ C.from = 0 /\ C.to = 0 /\ C.into = {k}
     /\ k \in Found /\ CopyKeeps(F, k, C)
     /\ C.done = (S.ret < 0 \/ D.ret < 0 \/ D.fs.status = "down")
     /\ S.fs \in Mounted /\ Keeps(F, S.fs)

\* It is so however the two files are opened.
LEMMA CpStartOn ==
  ASSUME NEW src \in Seq(STRING), NEW dst \in Seq(STRING), NEW F \in Mounted
  PROVE  LET S == minixfs_open(F, src, FALSE)
         IN CpBegun(F, dst, S, minixfs_open(S.fs, dst, TRUE))
<1> DEFINE S == minixfs_open(F, src, FALSE)
           D == minixfs_open(S.fs, dst, TRUE)
           C == CpStart(dst, S, D)
           k == get_inode(D.fs, dst)
           stop == S.ret < 0 \/ D.ret < 0 \/ D.fs.status = "down"
<1>1. Answered(F, S) /\ Grows(F, S.fs, {})
  BY OpenKeepsDisk
<1> HIDE DEF S
<1>2. Keeps(F, S.fs) /\ S.fs \in Mounted
  BY <1>1 DEF Answered, Keeps
<1>3. Answered(S.fs, D) /\ Grows(S.fs, D.fs, {})
  BY <1>2, OpenKeepsDisk
<1> HIDE DEF D
<1>4. Keeps(S.fs, D.fs) /\ D.fs \in Mounted
  BY <1>3 DEF Answered, Keeps
<1>5. k \in Found
  BY <1>4, Lookups
<1>6. C = Copying(D.fs, 1, 0, 0, {k}, stop)
  BY DEF CpStart
<1>7. stop \in BOOLEAN
  OBVIOUS
<1> DEFINE halted == stop
<1>8. halted = stop
  OBVIOUS
<1> HIDE DEF stop, k, C, halted
<1>9. /\ C \in Copies_ /\ C.fs = D.fs /\ C.ret = 1 /\ C.from = 0 /\ C.to = 0 /\ C.into = {k}
      /\ C.done = stop
  BY <1>4, <1>5, <1>6, <1>7 DEF Copying, Copies_
<1>10. Keeps(F, D.fs)
  BY <1>2, <1>4, KeepsTwice
<1>11. Grows(F, D.fs, {k})
  <2>1. Grows(F, S.fs, {k}) /\ Grows(S.fs, D.fs, {k})
    BY <1>1, <1>3, GrowsMore
  <2>2. Grows(F, D.fs, {k} \cup {k})
    BY <1>2, <1>4, <2>1, GrowsTwice
  <2> QED
    BY <2>2
<1>12. CopyKeeps(F, k, C)
  BY <1>9, <1>10, <1>11 DEF CopyKeeps
<1>13. CpBegun(F, dst, S, D)
  BY <1>2, <1>5, <1>9, <1>12 DEF CpBegun, k, C, stop
<1> QED
  BY <1>13 DEF S, D

\* And the whole command.
LEMMA CpKeeps ==
  ASSUME NEW src \in Seq(STRING), NEW dst \in Seq(STRING), NEW F \in Mounted
  PROVE  LET S == minixfs_open(F, src, FALSE)
             D == minixfs_open(S.fs, dst, TRUE)
             C == CpRun(F, src, dst)
         IN C \in Copies_ /\ CopyKeeps(F, get_inode(D.fs, dst), C)
<1> DEFINE S == minixfs_open(F, src, FALSE)
           D == minixfs_open(S.fs, dst, TRUE)
           B == CpStart(dst, S, D)
           k == get_inode(D.fs, dst)
           T == {E \in Copies_ : CopyKeeps(F, k, E)}
<1>1. CpRun(F, src, dst) = CpLoop(src, dst, B)
  BY DEF CpRun, CpOpened, CpFound
<1>2. B \in T
  <2>1. CpBegun(F, dst, S, D)
    BY CpStartOn
  <2> HIDE DEF S, D
  <2> QED
    BY <2>1 DEF CpBegun
<1> HIDE DEF B, k
<1>3. \A E \in T : CpTurn(src, dst, E) \in T
  BY CpTurnOn
<1> HIDE DEF T
<1>4. CpLoop(src, dst, B) \in T
  BY <1>2, <1>3, CpLoopIn
<1> QED
  BY <1>1, <1>4 DEF T, k

\* The first n cells of a file over what another one held.
Part(t, s, n) == Overlay(t, 0, SubSeq(s, 1, n))
LEMMA PartIs ==
  ASSUME NEW t \in Seq(Cell), NEW s \in Seq(Cell), NEW n \in 0 .. Len(s)
  PROVE  /\ Part(t, s, n) \in Seq(Cell)
         /\ Len(Part(t, s, n)) = IF n > Len(t) THEN n ELSE Len(t)
         /\ \A j \in 1 .. Len(Part(t, s, n)) : Part(t, s, n)[j] = IF j <= n THEN s[j] ELSE t[j]
<1> DEFINE u == SubSeq(s, 1, n)
           N == IF n > Len(t) THEN n ELSE Len(t)
<1>1. u \in Seq(Cell) /\ Len(u) = n /\ \A j \in 1 .. n : u[j] = s[j]
  OBVIOUS
<1> HIDE DEF u
<1>2. N \in Nat
  OBVIOUS
<1>3. Part(t, s, n) = [j \in 1 .. N |-> IF j \in 1 .. n THEN u[j] ELSE t[j]]
  <2>1. /\ Overlay(t, 0, u) = [j \in 1 .. (IF 0 + Len(u) > Len(t) THEN 0 + Len(u) ELSE Len(t)) |->
                                 IF j \in 0 + 1 .. 0 + Len(u) THEN u[j - 0] ELSE t[j]]
    BY DEF Overlay
  <2>2. 0 + Len(u) = n /\ 0 + 1 = 1
    BY <1>1
  <2>3. \A j \in 1 .. N : j - 0 = j
    BY <1>2
  <2> QED
    BY <2>1, <2>2, <2>3 DEF Part, u
<1>4. ASSUME NEW j \in 1 .. N
      PROVE  /\ (IF j \in 1 .. n THEN u[j] ELSE t[j]) = (IF j <= n THEN s[j] ELSE t[j])
             /\ (IF j \in 1 .. n THEN u[j] ELSE t[j]) \in Cell
  <2>1. CASE j <= n
    BY <1>1, <1>2, <2>1
  <2>2. CASE ~ j <= n
    BY <1>2, <2>2
  <2> QED
    BY <2>1, <2>2
<1>5. Part(t, s, n) \in Seq(Cell) /\ Len(Part(t, s, n)) = N
  BY <1>2, <1>3, <1>4
<1> QED
  BY <1>3, <1>4, <1>5

\* It grows from what was held to the whole file; a file over itself stays.
LEMMA PartGrows ==
  ASSUME NEW t \in Seq(Cell), NEW s \in Seq(Cell)
  PROVE  /\ Part(t, s, 0) = t /\ Part(t, s, Len(s)) = Overlay(t, 0, s)
         /\ \A n \in 0 .. Len(s) : Part(s, s, n) = s
         /\ \A n \in 0 .. Len(s) - 1 :
              /\ Overlay(Part(t, s, n), n, << s[n + 1] >>) = Part(t, s, n + 1)
              /\ n <= Len(Part(t, s, n)) /\ << s[n + 1] >> \in Seq(Cell)
<1>1. Part(t, s, 0) = t
  BY PartIs
<1>2. Part(t, s, Len(s)) = Overlay(t, 0, s)
  <2>1. SubSeq(s, 1, Len(s)) = s
    OBVIOUS
  <2> QED
    BY <2>1 DEF Part
<1>3. ASSUME NEW n \in 0 .. Len(s)
      PROVE  Part(s, s, n) = s
  <2> DEFINE q == Part(s, s, n)
  <2>1. q \in Seq(Cell) /\ Len(q) = Len(s) /\ \A j \in 1 .. Len(s) : q[j] = s[j]
    BY PartIs
  <2> HIDE DEF q
  <2> QED
    BY <2>1 DEF q
<1>4. ASSUME NEW n \in 0 .. Len(s) - 1
      PROVE  /\ Overlay(Part(t, s, n), n, << s[n + 1] >>) = Part(t, s, n + 1)
             /\ n <= Len(Part(t, s, n)) /\ << s[n + 1] >> \in Seq(Cell)
  <2> DEFINE q == Part(t, s, n)
             r == Part(t, s, n + 1)
             x == << s[n + 1] >>
             N == IF n + 1 > Len(q) THEN n + 1 ELSE Len(q)
  <2>1. /\ q \in Seq(Cell) /\ Len(q) = (IF n > Len(t) THEN n ELSE Len(t))
        /\ \A j \in 1 .. Len(q) : q[j] = IF j <= n THEN s[j] ELSE t[j]
    BY PartIs
  <2>2. /\ r \in Seq(Cell) /\ Len(r) = (IF n + 1 > Len(t) THEN n + 1 ELSE Len(t))
        /\ \A j \in 1 .. Len(r) : r[j] = IF j <= n + 1 THEN s[j] ELSE t[j]
    BY PartIs
  <2>3. s[n + 1] \in Cell
    OBVIOUS
  <2>4. x \in Seq(Cell) /\ Len(x) = 1 /\ x[1] = s[n + 1]
    BY <2>3
  <2> HIDE DEF q, r, x
  <2>5. Overlay(q, n, x) = [j \in 1 .. N |-> IF j \in n + 1 .. n + Len(x) THEN x[j - n] ELSE q[j]]
    BY <2>4 DEF Overlay
  <2>6. N = Len(r)
    BY <2>1, <2>2
  <2>7. ASSUME NEW j \in 1 .. N
        PROVE  (IF j \in n + 1 .. n + Len(x) THEN x[j - n] ELSE q[j]) = r[j]
    <3>1. CASE j = n + 1
      BY <2>2, <2>4, <2>6, <3>1
    <3>2. CASE j # n + 1
      <4>1. j \in 1 .. Len(q) /\ (j <= n <=> j <= n + 1) /\ j \notin n + 1 .. n + Len(x)
        BY <2>1, <2>4, <3>2
      <4> QED
        BY <2>1, <2>2, <2>6, <4>1
    <3> QED
      BY <3>1, <3>2
  <2>8. r = [j \in 1 .. Len(r) |-> r[j]]
    BY <2>2
  <2>9. Overlay(q, n, x) = r
    BY <2>5, <2>6, <2>7, <2>8
  <2> QED
    BY <2>1, <2>4, <2>9 DEF q, r, x
<1> QED
  BY <1>1, <1>2, <1>3, <1>4

\* What cp is to read from src: s, and what its target k held: t.
Source(F, src, s, t, k) ==
  LET i == get_inode(F, src)
  IN \/ src = Info /\ s = << Entry("info", 0) >>
     \/ is_virtual_path(src) /\ src # Info
     \/ /\ ~ is_virtual_path(src) /\ i \in Inodes /\ ~ is_directory(F.inode[i])
        /\ HoldsJust(F, i, s) /\ (i = k => t = s)
\* How far it is when nothing else was written to.
Filled(k, s, t, C) ==
  Fine(C.fs) /\ (C.ret = 0 \/ ~ C.done) /\ C.into = {k} =>
    /\ C.from \in 0 .. Len(s) /\ C.to = C.from /\ HoldsJust(C.fs, k, Part(t, s, C.from))
    /\ C.ret = 0 => C.from = Len(s)
\* The next cell of s, or its end.
Next_(G, s, n, R) ==
  \/ R.ret < 0
  \/ n = Len(s) /\ R.fs = G /\ R.ret = 0
  \/ n \in 0 .. Len(s) - 1 /\ R.fs = G /\ R.ret = 1 /\ R.off = n + 1 /\ R.cells = << s[n + 1] >>

\* What a copy has written so far does not change what it still has to read.
LEMMA SourceHeld ==
  ASSUME NEW src \in Seq(STRING), NEW F \in Mounted, Sane(F), NEW G \in Mounted, Sane(G),
         NEW k \in Inodes, Enlarged(F, G, {k}), ~ is_virtual_path(src),
         NEW s \in Seq(Cell), NEW t \in Seq(Cell), NEW n \in 0 .. Len(s),
         Source(F, src, s, t, k), HoldsJust(G, k, Part(t, s, n))
  PROVE  LET i == get_inode(G, src) IN i \in Inodes /\ Live(G, i) /\ HoldsJust(G, i, s)
<1> DEFINE i == get_inode(F, src)
<1>1. i \in Inodes /\ ~ is_directory(F.inode[i]) /\ HoldsJust(F, i, s) /\ (i = k => t = s)
  <2>1. is_virtual_path(Info)
    BY DEF is_virtual_path, Info
  <2> QED
    BY <2>1 DEF Source
<1>2. Live(F, i)
  <2>1. LiveOrNone(F, i)
    BY Lookups
  <2> HIDE DEF i
  <2> QED
    BY <1>1, <2>1, Named DEF LiveOrNone
<1>3. get_inode(G, src) = i
  BY <1>1, PathsKept DEF Enlarged
<1> HIDE DEF i
<1>4. CASE i = k
  <2>1. Part(t, s, n) = s
    BY <1>1, <1>4, PartGrows
  <2>2. Live(G, i)
    <3>1. LiveOrNone(G, get_inode(G, src))
      BY Lookups
    <3> QED
      BY <1>1, <1>3, <3>1, Named DEF LiveOrNone
  <2> QED
    BY <1>1, <1>3, <1>4, <2>1, <2>2
<1>5. CASE i # k
  <2>1. i \in Inodes \ {k}
    BY <1>1, <1>5
  <2>2. Live(G, i) /\ G.inode[i].size = F.inode[i].size
    BY <1>1, <1>2, <2>1 DEF Enlarged, Spared
  <2>3. Bystanders(F, G, {k})
    BY GrownSpares
  <2>4. HoldsJust(G, i, s)
    BY <1>1, <2>1, <2>2, <2>3, HeldStill
  <2> QED
    BY <1>1, <1>3, <2>2, <2>4
<1> QED
  BY <1>4, <1>5

\* So the source is read as it was held.
LEMMA SourceRead ==
  ASSUME NEW src \in Seq(STRING), NEW F \in Mounted, Sane(F), NEW G \in Mounted, Sane(G),
         NEW k \in Inodes, Enlarged(F, G, {k}),
         NEW s \in Seq(Cell), NEW t \in Seq(Cell), NEW n \in 0 .. Len(s),
         Source(F, src, s, t, k), HoldsJust(G, k, Part(t, s, n))
  PROVE  Next_(G, s, n, minixfs_read(G, src, 1, n))
<1> DEFINE R == minixfs_read(G, src, 1, n)
           x == Entry("info", 0)
<1>1. CASE is_virtual_path(src) /\ src # Info
  <2>1. R.ret = -1
    BY <1>1 DEF minixfs_read, minixfs_virtual_read, Read, Fail, Result
  <2> HIDE DEF R
  <2> QED
    BY <2>1 DEF Next_, R
<1>2. CASE src = Info
  <2>1. is_virtual_path(src)
    BY <1>2 DEF is_virtual_path, Info
  <2>2. s = << x >>
    BY <1>2, <2>1 DEF Source
  <2> HIDE DEF x
  <2>3. Len(s) = 1 /\ s[1] = x /\ n \in 0 .. 1
    BY <2>2
  <2>4. R = Read(Result(G, 1 - n, 1), IF n = 0 THEN << x >> ELSE <<>>)
    BY <1>2, <2>1, <2>3 DEF minixfs_read, minixfs_virtual_read, x
  <2>5. R.fs = G /\ R.ret = 1 - n /\ R.off = 1 /\ R.cells = IF n = 0 THEN << x >> ELSE <<>>
    BY <2>4 DEF Read, Result
  <2> HIDE DEF R
  <2> QED
    BY <2>3, <2>5 DEF Next_, R
<1>3. CASE ~ is_virtual_path(src)
  <2> DEFINE i == get_inode(G, src)
  <2>1. i \in Inodes /\ Live(G, i) /\ HoldsJust(G, i, s)
    BY <1>3, SourceHeld
  <2>2. i # Wild /\ i # NoInode
    <3> HIDE DEF i
    <3> QED
      BY <2>1, Named
  <2>3. R = ReadInode(G, i, 1, n)
    BY <1>3, <2>2 DEF minixfs_read
  <2> HIDE DEF R, i
  <2>4. IF n = Len(s) THEN R.fs = G /\ R.ret = 0
        ELSE R.fs = G /\ R.ret = 1 /\ R.off = n + 1 /\ R.cells = << s[n + 1] >>
    BY <2>1, <2>3, ReadHeld
  <2> QED
    BY <2>4 DEF Next_, R
<1> QED
  BY <1>1, <1>2, <1>3

\* A turn copies the next cell.
LEMMA CpTurnFills ==
  ASSUME NEW src \in Seq(STRING), NEW dst \in Seq(STRING), NEW F \in Mounted, Sane(F),
         NEW k \in Inodes, NEW s \in Seq(Cell), NEW t \in Seq(Cell), Source(F, src, s, t, k),
         NEW C \in Copies_, CopyKeeps(F, k, C), Filled(k, s, t, C)
  PROVE  Filled(k, s, t, CpTurn(src, dst, C))
<1> DEFINE E == CpTurn(src, dst, C)
           G == C.fs
           n == C.from
           R == minixfs_read(G, src, 1, n)
           W == minixfs_write(R.fs, dst, R.cells, C.to)
<1>1. CASE C.done
  BY <1>1 DEF CpTurn
<1>2. CASE ~ C.done
  <2> SUFFICES ASSUME Fine(E.fs), E.ret = 0 \/ ~ E.done, E.into = {k}
               PROVE  /\ E.from \in 0 .. Len(s) /\ E.to = E.from
                      /\ HoldsJust(E.fs, k, Part(t, s, E.from))
                      /\ E.ret = 0 => E.from = Len(s)
    BY DEF Filled
  <2>1. E \in Copies_ /\ Keeps(G, E.fs) /\ C.into \subseteq E.into
    BY CpTurnKeeps
  <2>2. Keeps(F, G) /\ Grows(F, G, C.into) /\ k \in C.into /\ G \in Mounted
    BY DEF CopyKeeps, Keeps
  <2>3. C.into = {k}
    <3> HIDE DEF E
    <3> QED
      BY <2>1, <2>2
  <2>4. Fine(G)
    <3> HIDE DEF E
    <3> QED
      BY <2>1 DEF Keeps
  <2>5. Sane(G) /\ Enlarged(F, G, {k})
    BY <2>2, <2>3, <2>4 DEF Keeps, Grows
  <2>6. n \in 0 .. Len(s) /\ C.to = n /\ HoldsJust(G, k, Part(t, s, n))
    BY <1>2, <2>3, <2>4 DEF Filled
  <2>7. Next_(G, s, n, R)
    <3> HIDE DEF G, n
    <3> QED
      BY <2>2, <2>5, <2>6, SourceRead
  <2>10. R.ret \in Int
    <3>1. 1 \in Nat /\ n \in Nat
      BY <2>6
    <3> HIDE DEF G, n
    <3>2. ReadOK(G, R)
      BY <2>2, <3>1, ReadKeeps
    <3> QED
      BY <3>2 DEF ReadOK, Answered
  <2>8. CASE R.ret <= 0 \/ R.fs.status = "down"
    <3>1. E = Copying(R.fs, R.ret, n, C.to, C.into, TRUE)
      BY <1>2, <2>8 DEF CpTurn, CpGot
    <3> HIDE DEF R, n, G
    <3>2. E.fs = R.fs /\ E.ret = R.ret /\ E.from = n /\ E.to = C.to /\ E.done
      BY <3>1 DEF Copying
    <3> HIDE DEF E
    <3>3. R.ret = 0
      BY <3>2
    <3>4. n = Len(s) /\ R.fs = G
      BY <2>7, <3>3 DEF Next_
    <3> QED
      BY <2>6, <3>2, <3>4
  <2>9. CASE ~ (R.ret <= 0 \/ R.fs.status = "down")
    <3>1. E = Copying(W.fs, W.ret, R.off, W.off, C.into \cup {W.ino}, W.ret < 0)
      BY <1>2, <2>9 DEF CpTurn, CpGot, CpPut
    <3> HIDE DEF R
    <3>2. n \in 0 .. Len(s) - 1 /\ R.fs = G /\ R.off = n + 1 /\ R.cells = << s[n + 1] >>
      BY <2>7, <2>9, <2>10 DEF Next_
    <3> DEFINE x == << s[n + 1] >>
               c == Part(t, s, n)
    <3>3. /\ Overlay(c, n, x) = Part(t, s, n + 1)
          /\ n <= Len(c) /\ x \in Seq(Cell) /\ Len(x) = 1
      <4>1. n \in 0 .. Len(s) - 1
        BY <3>2
      <4>2. Len(x) = 1
        OBVIOUS
      <4> HIDE DEF E, G, n, W
      <4> QED
        BY <4>1, <4>2, PartGrows
    <3>4. W = minixfs_write(G, dst, x, n)
      BY <2>6, <3>2
    <3> HIDE DEF W, x, c, G
    <3>5. Written(G, W) /\ PutsIn(G, W, x, n) /\ n \in Nat
      BY <2>2, <2>6, <3>3, <3>4, WriteKeeps
    <3> DEFINE failed == W.ret < 0
               into == C.into \cup {W.ino}
    <3>11. E = Copying(W.fs, W.ret, R.off, W.off, into, failed)
      BY <3>1
    <3>12. W.ino \in into
      OBVIOUS
    <3> HIDE DEF E, n, failed, into
    <3>6. /\ E.fs = W.fs /\ E.ret = W.ret /\ E.from = R.off /\ E.to = W.off /\ E.done = failed
          /\ W.ino \in E.into
      BY <3>11, <3>12 DEF Copying
    <3>15. W.ret \in Int
      BY <3>5 DEF Written
    <3>16. W.ret = 0 \/ ~ failed
      BY <3>6
    <3>7. W.ino = k /\ W.ret >= 0 /\ W.ret \in Int
      BY <3>6, <3>15, <3>16 DEF failed
    <3>8. W.ret = 1
      BY <2>5, <3>3, <3>5, <3>6, <3>7 DEF PutsIn
    <3>13. Fine(W.fs) /\ W.ret = Len(x) /\ HoldsJust(G, W.ino, c)
      BY <2>6, <3>3, <3>6, <3>7, <3>8 DEF c
    <3>14. HoldsJust(W.fs, W.ino, Overlay(c, n, x)) /\ W.off = n + Len(x)
      <4>1. G \in Mounted /\ Sane(G) /\ PutsIn(G, W, x, n) /\ n \in Nat /\ x \in Seq(Cell) /\ n <= Len(c)
        BY <2>2, <2>5, <3>3, <3>5
      <4> QED
        BY <3>13, <4>1, WriteHolds
    <3>9. HoldsJust(W.fs, k, Overlay(c, n, x)) /\ W.off = n + 1
      BY <3>3, <3>7, <3>14
    <3>10. HoldsJust(E.fs, k, Part(t, s, n + 1))
      BY <3>3, <3>6, <3>9
    <3> QED
      BY <2>6, <3>2, <3>6, <3>8, <3>9, <3>10
  <2> QED
    BY <2>8, <2>9
<1> QED
  BY <1>1, <1>2

\* And the whole command copies s over t.
LEMMA CpFills ==
  ASSUME NEW src \in Seq(STRING), NEW dst \in Seq(STRING), NEW F \in Mounted, Sane(F),
         NEW k \in Inodes, NEW s \in Seq(Cell), NEW t \in Seq(Cell), Source(F, src, s, t, k),
         HoldsJust(F, k, t),
         k = get_inode(minixfs_open(minixfs_open(F, src, FALSE).fs, dst, TRUE).fs, dst)
  PROVE  LET C == CpRun(F, src, dst)
         IN Fine(C.fs) /\ C.ret = 0 /\ C.into = {k} => HoldsJust(C.fs, k, Overlay(t, 0, s))
<1> DEFINE S == minixfs_open(F, src, FALSE)
           D == minixfs_open(S.fs, dst, TRUE)
           B == CpStart(dst, S, D)
           C == CpRun(F, src, dst)
           Both == {E \in Copies_ : CopyKeeps(F, k, E) /\ Filled(k, s, t, E)}
<1>1. C = CpLoop(src, dst, B)
  BY DEF CpRun, CpOpened, CpFound
<1>2. /\ B \in Copies_ /\ B.fs = D.fs /\ B.ret = 1 /\ B.from = 0 /\ B.to = 0
      /\ CopyKeeps(F, k, B) /\ B.done = (S.ret < 0 \/ D.ret < 0 \/ D.fs.status = "down")
      /\ S.fs \in Mounted /\ Keeps(F, S.fs)
  <2>1. CpBegun(F, dst, S, D)
    BY CpStartOn
  <2>2. k = get_inode(D.fs, dst)
    OBVIOUS
  <2> HIDE DEF S, D, C, Both
  <2> QED
    BY <2>1, <2>2 DEF CpBegun
<1>3. /\ S.ret \in Int /\ D.ret \in Int
      /\ Keeps(S.fs, D.fs) /\ Grows(S.fs, D.fs, {})
  <2>1. Answered(F, S)
    BY OpenKeepsDisk
  <2> HIDE DEF S
  <2>2. Answered(S.fs, D) /\ Grows(S.fs, D.fs, {})
    BY <1>2, OpenKeepsDisk
  <2> HIDE DEF D
  <2> QED
    BY <2>1, <2>2 DEF Answered
<1>4. S.ret >= 0 => S.fs = F
  BY OpenFinds
<1>5. D.ret >= 0 /\ Sane(S.fs) /\ Fine(D.fs) => D.fs = S.fs \/ ~ Live(S.fs, k)
  <2> HIDE DEF S
  <2> QED
    BY <1>2, OpenFinds DEF S
<1>6. k = get_inode(D.fs, dst)
  OBVIOUS
<1> HIDE DEF S, D, B, C
<1>7. Filled(k, s, t, B)
  <2> SUFFICES ASSUME Fine(D.fs), ~ B.done
               PROVE  HoldsJust(D.fs, k, t)
    <3>1. Part(t, s, 0) = t
      BY PartGrows
    <3>2. B.fs = D.fs /\ B.ret # 0 /\ B.from = 0 /\ B.to = 0 /\ 0 \in 0 .. Len(s)
      BY <1>2
    <3> QED
      BY <3>1, <3>2 DEF Filled
  <2>1. ~ (S.ret < 0) /\ ~ (D.ret < 0)
    BY <1>2
  <2>2. S.fs = F /\ D.ret >= 0
    BY <1>3, <1>4, <2>1
  <2>3. CASE D.fs = F
    BY <2>3
  <2>4. CASE D.fs # F
    <3>1. ~ Live(F, k)
      BY <1>5, <2>2, <2>4
    <3>2. Bystanders(F, D.fs, {})
      BY <1>3, <2>2, GrownSpares DEF Spares
    <3>3. Live(D.fs, k)
      <4>1. LiveOrNone(D.fs, k)
        BY <1>3, <1>6, <2>2, Lookups DEF Keeps
      <4> QED
        BY <4>1, Named DEF LiveOrNone
    <3>4. k \in Inodes \ {}
      OBVIOUS
    <3> QED
      BY <3>1, <3>2, <3>3, <3>4, HeldStill
  <2> QED
    BY <2>3, <2>4
<1>8. B \in Both
  BY <1>2, <1>7
<1>9. \A E \in Both : CpTurn(src, dst, E) \in Both
  BY CpTurnOn, CpTurnFills
<1> HIDE DEF Both
<1>10. C \in Both
  BY <1>1, <1>8, <1>9, CpLoopIn
<1>11. ASSUME Fine(C.fs), C.ret = 0, C.into = {k}
       PROVE  HoldsJust(C.fs, k, Overlay(t, 0, s))
  <2>1. HoldsJust(C.fs, k, Part(t, s, Len(s)))
    BY <1>10, <1>11 DEF Both, Filled
  <2> QED
    BY <2>1, PartGrows
<1> QED
  BY <1>11 DEF C

\* A new disk is sane, and so it is with blocks for its root.
LEMMA NewDisk ==
  ASSUME NEW order \in Seq(Blocks)
  PROVE  LET F == open_fs(minixfs_mkfs, order, TRUE)
         IN F \in Mounted /\ Sane(F) /\ \A i \in Inodes : HoldsJust(F, i, <<>>) /\ (Live(F, i) => i = Root)
<1> DEFINE f == minixfs_mkfs
           F == open_fs(f, order, TRUE)
           node(i) == [mode |-> IF i = Root THEN Typed(TYPE_DIRECTORY) \cup {8, 7, 6, 5, 3, 2, 0} ELSE {},
                       uid |-> 0, nlink |-> IF i = Root THEN 1 ELSE 0, size |-> 0,
                       direct |-> [k \in Slots |-> Unassigned], indirect |-> Unassigned]
<1>1. ZeroBlock \in Content
  <2>1. Zero \in Cell
    BY Named DEF Zero, Entry, Cell, Name, Root
  <2> QED
    BY <2>1 DEF ZeroBlock, Cells, Content
<1>2. ASSUME NEW i \in Inodes
      PROVE  /\ node(i) \in Node /\ node(i).size = 0 /\ node(i).indirect = Unassigned
             /\ \A k \in Slots : node(i).direct[k] = Unassigned
             /\ node(i).nlink > 0 <=> i = Root
  <2> DEFINE mode == IF i = Root THEN Typed(TYPE_DIRECTORY) \cup {8, 7, 6, 5, 3, 2, 0} ELSE {}
             nlink == IF i = Root THEN 1 ELSE 0
  <2>1. mode \in SUBSET (0 .. 15)
    <3>1. Typed(TYPE_DIRECTORY) = {10}
      BY DEF Typed, TYPE_DIRECTORY
    <3> QED
      BY <3>1
  <2>2. nlink \in {0, 1} /\ (nlink > 0 <=> i = Root) /\ nlink \in Nat
    OBVIOUS
  <2>3. 0 <= MaxFileSize
    <3>1. \A a, b \in Nat : (a + a) * b >= 0
      OBVIOUS
    <3> QED
      BY <3>1, Sizes DEF MaxFileSize
  <2>4. node(i) = [mode |-> mode, uid |-> 0, nlink |-> nlink, size |-> 0,
                   direct |-> [k \in Slots |-> Unassigned], indirect |-> Unassigned]
    OBVIOUS
  <2> HIDE DEF mode, nlink, node
  <2> QED
    BY <2>1, <2>2, <2>3, <2>4 DEF Node, Inode
<1>3. f.inode = [i \in Inodes |-> node(i)] /\ f.used = {}
      /\ f.data = [b \in Blocks \cup {Unassigned} |-> ZeroBlock]
      /\ f = [inode |-> f.inode, used |-> f.used, data |-> f.data]
  BY DEF minixfs_mkfs
<1> HIDE DEF f, node
<1>4. f \in Disks
  BY <1>1, <1>2, <1>3 DEF Disks
<1>5. F \in Mounted /\ (Sane(f) => Sane(F))
  BY <1>4, Mapping
<1>6. \A i \in Inodes : /\ Live(f, i) <=> i = Root
                        /\ f.inode[i].size = 0 /\ f.inode[i].indirect = Unassigned
                        /\ \A k \in Slots : f.inode[i].direct[k] = Unassigned
  BY <1>2, <1>3 DEF Live
<1>7. ASSUME NEW i \in Inodes, NEW p \in Place
      PROVE  NamedAt(f, i, p) = Unassigned
  <2>1. p < NumDirect => p \in Slots
    BY Sizes DEF Place, Slots
  <2> QED
    BY <1>6, <2>1 DEF NamedAt
<1>8. OwnsOnce(f) /\ Marked(f)
  <2>1. \A b \in Blocks : b # Unassigned
    BY Named
  <2> QED
    BY <1>3, <1>7, <2>1 DEF OwnsOnce, Marked
<1>9. TablesOK(f) /\ Live(f, Root)
  BY <1>6, Named DEF TablesOK
<1>10. DirsOK(f)
  <2>1. \A d \in Inodes : EntriesOf(f, d) = {}
    BY <1>6 DEF EntriesOf
  <2>2. \A d \in Inodes : FitsIn(f, d)
    BY <1>6, Sizes DEF FitsIn
  <2> QED
    BY <2>1, <2>2 DEF DirsOK, DirOK, NamesOnce, InOneDirectory
<1>11. ASSUME NEW i \in Inodes
       PROVE  HoldsJust(F, i, <<>>) /\ (Live(F, i) => i = Root)
  <2>1. F.inode[i].size = 0 /\ (Live(F, i) => i = Root)
    BY <1>6 DEF F, open_fs, Live
  <2>2. 0 <= MaxFileSize
    <3>1. \A a, b \in Nat : (a + a) * b >= 0
      OBVIOUS
    <3> QED
      BY <3>1, Sizes DEF MaxFileSize
  <2>3. <<>> \in Seq(Cell) /\ Len(<<>>) = 0
    OBVIOUS
  <2>4. Holds(F, i, <<>>)
    BY <2>3 DEF Holds
  <2> QED
    BY <2>1, <2>2, <2>3, <2>4 DEF HoldsJust
<1> QED
  BY <1>5, <1>8, <1>9, <1>10, <1>11 DEF Sane, F, f

\* The image a driver starts with.
LEMMA FirstImage ==
  ASSUME NEW order \in Orders
  PROVE  LET f == Disk(Image(1, order).fs)
         IN f \in Disks /\ Sane(f) /\ \A i \in Inodes : HoldsJust(f, i, <<>>)
<1> DEFINE F == open_fs(minixfs_mkfs, order, TRUE)
           R == minixfs_min_blockcount(F, <<>>, 1)
<1>1. order \in Seq(Blocks)
  BY OrderType
<1>2. /\ F \in Mounted /\ Sane(F)
      /\ \A i \in Inodes : HoldsJust(F, i, <<>>) /\ (Live(F, i) => i = Root)
  BY <1>1, NewDisk
<1>3. F.status = "up" /\ F.untidy = {}
  BY DEF open_fs
<1>4. R = Image(1, order)
  BY DEF Image
<1> HIDE DEF F
<1>5. R = MinBlocks(F, Root, 1)
  <2>1. <<>> \in Seq(STRING)
    OBVIOUS
  <2>2. get_inode(F, <<>>) = Root
    BY <1>2, <2>1, Lookups
  <2>3. Root # Wild /\ Root # NoInode
    BY Named
  <2> HIDE DEF R
  <2>4. minixfs_min_blockcount(F, <<>>, 1) = MinBlocks(F, get_inode(F, <<>>), 1)
    BY <2>2, <2>3 DEF minixfs_min_blockcount, Find, At
  <2> QED
    BY <2>2, <2>4 DEF R
<1>6. /\ Keeps(F, R.fs) /\ Same(F, R.fs) /\ Grows(F, R.fs, {})
      /\ R.fs.inode[Root].size = F.inode[Root].size
  <2>1. 1 \in 0 .. 2 * NumDirect /\ Root \in Inodes /\ Live(F, Root)
    BY <1>2, Sizes, Named DEF Sane
  <2> HIDE DEF R
  <2> QED
    BY <1>2, <1>5, <2>1, MinBlocksKeeps DEF Answered
<1> HIDE DEF R
<1>7. R.fs \in Mounted /\ Sane(R.fs)
  BY <1>2, <1>3, <1>6 DEF Keeps, Same, Fine
<1>8. Bystanders(F, R.fs, {})
  BY <1>2, <1>3, <1>6, GrownSpares DEF Spares, Same, Fine
<1>9. ASSUME NEW i \in Inodes
      PROVE  HoldsJust(Disk(R.fs), i, <<>>)
  <2>1. HoldsJust(F, i, <<>>)
    BY <1>2
  <2>2. HoldsJust(R.fs, i, <<>>)
    <3>1. CASE Live(R.fs, i)
      <4>1. ASSUME Live(F, i)
            PROVE  i = Root
        BY <1>2, <4>1
      <4>2. Live(F, i) => R.fs.inode[i].size = F.inode[i].size
        BY <1>6, <4>1
      <4> QED
        BY <1>8, <2>1, <3>1, <4>2, HeldStill
    <3>2. CASE ~ Live(R.fs, i)
      BY <2>1, <3>2 DEF HoldsJust
    <3> QED
      BY <3>1, <3>2
  <2>3. Disk(R.fs).inode = R.fs.inode /\ Disk(R.fs).data = R.fs.data
    BY DEF Disk
  <2> DEFINE f == Disk(R.fs)
  <2> HIDE DEF f
  <2>4. HoldsJust(f, i, <<>>)
    BY <2>2, <2>3, HoldsAlike DEF f
  <2> QED
    BY <2>4 DEF f
<1> QED
  BY <1>4, <1>7, <1>9, Unmapping

\* What a program passes.
LEMMA Inputs ==
  /\ \A path \in Paths \cup FakePaths \cup Dirs \cup Names : path \in Seq(STRING)
  /\ \A buf \in Buffers \cup FakeBuffers : buf \in Seq(Cell)
  /\ \A n \in Offsets \cup FakeOffsets \cup FakeCounts \cup Owners : n \in Nat
  /\ \A perm \in Perms : perm \in SUBSET RWX
  /\ \A pair \in Grown : pair[1] \in Seq(STRING) /\ pair[2] \in Nat
  /\ \A pair \in Copies : pair[1] \in Seq(STRING) /\ pair[2] \in Seq(STRING)
BY InputsAssumption

\* What a call may take for granted.
Kept == Held /\ Named_(tab) /\ Saved
Mounts(F) == \E order \in Orders \cup {<<>>}, luck \in BOOLEAN : F = open_fs(fs, order, luck)

\* A mounted image is a mounted disk.
LEMMA MountsType ==
  ASSUME Saved, NEW F, Mounts(F)
  PROVE  F \in Mounted
<1>1. PICK order \in Orders \cup {<<>>}, luck \in BOOLEAN : F = open_fs(fs, order, luck)
  BY DEF Mounts
<1>2. order \in Seq(Blocks) /\ fs \in Disks
  BY OrderType DEF Saved
<1> QED
  BY <1>1, <1>2, Mapping

\* A call that writes to no file.
LEMMA DoneSaved ==
  ASSUME Saved, status = "up", NEW F, Mounts(F), NEW R, Keeps(F, R.fs), Spares(F, R.fs, {}), Done(R)
  PROVE  Saved'
<1>1. Recorded(R, {}, 0, <<>>, TRUE) /\ status' = R.fs.status
  BY DEF Done, Outcome
<1>2. status' \in Statuses
  BY <1>1, MountedFields DEF Keeps, Statuses
<1>3. PICK order \in Orders \cup {<<>>}, luck \in BOOLEAN : F = open_fs(fs, order, luck)
  BY DEF Mounts
<1>4. Puts(F, R, {}, 0, <<>>, TRUE)
  BY DEF Puts
<1>5. <<>> \in Seq(Cell) /\ 0 \in Nat /\ (status' # "ruined" => R.fs.status # "ruined")
  BY <1>1
<1> QED
  BY <1>1, <1>2, <1>3, <1>4, <1>5, RecordedSaved

\* One of which nothing but its outcome is kept.
LEMMA OutcomeSaved ==
  ASSUME Saved, status = "up", NEW F, Mounts(F), NEW R, Keeps(F, R.fs), Outcome(R), UNCHANGED disk
  PROVE  Saved'
<1>1. status' \in Statuses
  BY MountedFields DEF Keeps, Statuses, Outcome
<1> QED
  BY <1>1, LookedSaved

\* How much a program asks for: no more blocks for a file than a write can reach.
WithinReach == \A pair \in Grown : pair[2] <= 2 * NumDirect

\* The library's own calls.
LEMMA LibrarySaved ==
  ASSUME Saved, WithinReach,
         \/ \E path \in Paths, buf \in Buffers, off \in Offsets : minixfs_write_at(path, buf, off)
         \/ \E pair \in Grown : min_blockcount(pair[1], pair[2])
         \/ \E who : \E path \in Paths \cup FakePaths : unlink(who, path)
         \/ \E who : \E path \in Dirs, perm \in Perms : mkdir(who, path, perm)
         \/ \E path \in Names, perm \in Perms : access(path, perm)
  PROVE  Saved'
<1>1. ASSUME NEW path \in Paths, NEW buf \in Buffers, NEW off \in Offsets, minixfs_write_at(path, buf, off)
      PROVE  Saved'
  <2>1. PICK luck \in BOOLEAN, order \in Orders :
          LET R == minixfs_write(open_fs(fs, order, luck), path, buf, off)
          IN Recorded(R, {R.ino}, off, buf, R.ret = Len(buf)) /\ Outcome(R)
    BY <1>1 DEF minixfs_write_at
  <2> DEFINE F == open_fs(fs, order, luck)
             R == minixfs_write(F, path, buf, off)
  <2>2. Mounts(F) /\ F \in Mounted
    BY MountsType DEF Mounts
  <2>3. status = "up"
    BY <1>1 DEF minixfs_write_at, Running
  <2>4. Written(F, R) /\ PutsIn(F, R, buf, off) /\ buf \in Seq(Cell) /\ off \in Nat
    <3> HIDE DEF F
    <3> QED
      BY <1>1, <2>2, Inputs, WriteKeeps
  <2>5. Recorded(R, {R.ino}, off, buf, R.ret = Len(buf)) /\ status' = R.fs.status
    BY <2>1 DEF Outcome
  <2> DEFINE ok == R.ret = Len(buf)
  <2> HIDE DEF R, F
  <2>8. Puts(F, R, {R.ino}, off, buf, ok)
    BY <2>2, <2>4, WritePuts DEF Saved, ok
  <2>9. Recorded(R, {R.ino}, off, buf, ok)
    BY <2>5 DEF ok
  <2>6. Keeps(open_fs(fs, order, luck), R.fs) /\ Puts(open_fs(fs, order, luck), R, {R.ino}, off, buf, ok)
    BY <2>4, <2>8 DEF Written, F
  <2> HIDE DEF ok
  <2>7. status' \in Statuses /\ (status' # "ruined" => R.fs.status # "ruined")
    BY <2>5, <2>6, MountedFields DEF Keeps, Statuses
  <2> QED
    BY <2>3, <2>4, <2>6, <2>7, <2>9, RecordedSaved
<1>2. ASSUME NEW pair \in Grown, min_blockcount(pair[1], pair[2])
      PROVE  Saved'
  <2>1. PICK luck \in BOOLEAN, order \in Orders :
          Done(minixfs_min_blockcount(open_fs(fs, order, luck), pair[1], pair[2]))
    BY <1>2 DEF min_blockcount
  <2> DEFINE F == open_fs(fs, order, luck)
  <2>2. Mounts(F) /\ F \in Mounted
    BY MountsType DEF Mounts
  <2>3. status = "up"
    BY <1>2 DEF min_blockcount, Running
  <2>4. pair[1] \in Seq(STRING) /\ pair[2] \in 0 .. 2 * NumDirect
    BY Inputs DEF WithinReach
  <2>5. Done(minixfs_min_blockcount(F, pair[1], pair[2]))
    BY <2>1
  <2> HIDE DEF F
  <2>6. /\ Keeps(F, minixfs_min_blockcount(F, pair[1], pair[2]).fs)
        /\ Spares(F, minixfs_min_blockcount(F, pair[1], pair[2]).fs, {})
    BY <2>2, <2>4, MinBlockcountKeeps DEF Answered
  <2> QED
    BY <2>2, <2>3, <2>5, <2>6, DoneSaved
<1>3. ASSUME NEW who, NEW path \in Paths \cup FakePaths, unlink(who, path)
      PROVE  Saved'
  <2>1. PICK luck \in BOOLEAN : Done(minixfs_unlink(open_fs(fs, <<>>, luck), path))
    BY <1>3 DEF unlink
  <2> DEFINE F == open_fs(fs, <<>>, luck)
  <2>2. Mounts(F) /\ F \in Mounted
    BY MountsType DEF Mounts
  <2>3. status = "up"
    BY <1>3 DEF unlink, Running
  <2>4. Done(minixfs_unlink(F, path))
    BY <2>1
  <2> HIDE DEF F
  <2>5. path \in Seq(STRING)
    BY Inputs
  <2>6. Keeps(F, minixfs_unlink(F, path).fs) /\ Spares(F, minixfs_unlink(F, path).fs, {})
    BY <2>2, <2>5, UnlinkKeeps DEF Answered
  <2> QED
    BY <2>2, <2>3, <2>4, <2>6, DoneSaved
<1>4. ASSUME NEW who, NEW path \in Dirs, NEW perm \in Perms, mkdir(who, path, perm)
      PROVE  Saved'
  <2>1. PICK luck \in BOOLEAN : Done(minixfs_mkdir(open_fs(fs, <<>>, luck), path, perm))
    BY <1>4 DEF mkdir
  <2> DEFINE F == open_fs(fs, <<>>, luck)
  <2>2. Mounts(F) /\ F \in Mounted
    BY MountsType DEF Mounts
  <2>3. status = "up"
    BY <1>4 DEF mkdir, Running
  <2>4. Done(minixfs_mkdir(F, path, perm))
    BY <2>1
  <2> HIDE DEF F
  <2>5. path \in Seq(STRING) /\ perm \in SUBSET RWX
    BY Inputs
  <2>6. Keeps(F, minixfs_mkdir(F, path, perm).fs) /\ Spares(F, minixfs_mkdir(F, path, perm).fs, {})
    BY <2>2, <2>5, MkdirKeeps DEF Answered
  <2> QED
    BY <2>2, <2>3, <2>4, <2>6, DoneSaved
<1>5. ASSUME NEW path \in Names, NEW perm \in Perms, access(path, perm)
      PROVE  Saved'
  <2>1. PICK luck \in BOOLEAN : Outcome(minixfs_access(open_fs(fs, <<>>, luck), path, perm))
    BY <1>5 DEF access
  <2> DEFINE F == open_fs(fs, <<>>, luck)
  <2>2. Mounts(F) /\ F \in Mounted
    BY MountsType DEF Mounts
  <2>3. status = "up" /\ UNCHANGED disk
    BY <1>5 DEF access, Running
  <2>4. Outcome(minixfs_access(F, path, perm))
    BY <2>1
  <2> HIDE DEF F
  <2>5. path \in Seq(STRING)
    BY Inputs
  <2>6. Keeps(F, minixfs_access(F, path, perm).fs)
    BY <2>2, <2>5, AccessKeeps DEF Answered
  <2> QED
    BY <2>2, <2>3, <2>4, <2>6, OutcomeSaved
<1> QED
  BY <1>1, <1>2, <1>3, <1>4, <1>5

\* What the wrappers that call open() leave of the fakefiles.
LEMMA OpenedNamed ==
  ASSUME Held, Named_(tab), NEW path \in Seq(STRING), NEW R, NEW T, T = OpenedTable(R, path)
  PROVE  /\ Named_(T) /\ Named_(CloseFile(T, OpenedFd(R)))
         /\ Mapped(T, OpenedFd(R)) => FileAt(T, OpenedFd(R)).path \in Seq(STRING)
<1>1. Table_(tab, shared)
  BY DEF Held
<1>2. Table_(T, shared) /\ OpenedFd(R) \in Keys
  BY <1>1, OpenedKeeps
<1>3. Named_(T)
  BY <1>1, OpenNamed DEF OpenedTable
<1>4. Mapped(T, OpenedFd(R)) => T.map[OpenedFd(R)] \in Keys
  BY <1>2 DEF Mapped, Table_
<1> QED
  BY <1>2, <1>3, <1>4, CloseNamed DEF Named_, FileAt

\* open() of the library, with the image mapped.
LEMMA OpenedDisk ==
  ASSUME Saved, NEW F, Mounts(F), NEW path \in Names \cup FakePaths, NEW creates \in BOOLEAN
  PROVE  LET R == minixfs_open(F, path, creates)
         IN /\ Keeps(F, R.fs) /\ Spares(F, R.fs, {}) /\ R.fs \in Mounted /\ path \in Seq(STRING)
            /\ ~ creates => R.fs.inode = F.inode /\ R.fs.data = F.data
<1>1. F \in Mounted /\ path \in Seq(STRING)
  BY MountsType, Inputs
<1> QED
  BY <1>1, OpenKeepsDisk, OpenFinds DEF Answered, Keeps

\* The wrappers that open, call and close.
LEMMA WrapperSaved ==
  ASSUME Kept, NEW path \in Names,
         (\/ stat(path)
          \/ \E perm \in Perms : chmod(path, perm)
          \/ \E owner \in Owners : lchown(path, owner))
  PROVE  Saved' /\ Named_(tab')
<1> DEFINE Opens(F, R, T) ==
             /\ Mounts(F) /\ R = minixfs_open(F, path, FALSE) /\ T = OpenedTable(R, path)
             /\ tab' = IF Mapped(T, OpenedFd(R)) THEN CloseFile(T, OpenedFd(R)) ELSE T
           Asked(T, R) == FileAt(T, OpenedFd(R)).path
           Calls(S, T, R, A) == S = IF Mapped(T, OpenedFd(R)) THEN A ELSE R
<1>1. status = "up"
  BY DEF stat, chmod, lchown, OpenCallClose, Running
<1>2. ASSUME NEW F, NEW R, NEW T, Opens(F, R, T)
      PROVE  /\ Named_(tab') /\ Keeps(F, R.fs) /\ Spares(F, R.fs, {}) /\ R.fs \in Mounted
             /\ R.fs.inode = F.inode /\ R.fs.data = F.data
             /\ Mapped(T, OpenedFd(R)) => Asked(T, R) \in Seq(STRING)
  <2>1. /\ Keeps(F, R.fs) /\ Spares(F, R.fs, {}) /\ R.fs \in Mounted /\ path \in Seq(STRING)
        /\ R.fs.inode = F.inode /\ R.fs.data = F.data
    BY <1>2, OpenedDisk DEF Kept
  <2>2. /\ Named_(T) /\ Named_(CloseFile(T, OpenedFd(R)))
        /\ Mapped(T, OpenedFd(R)) => Asked(T, R) \in Seq(STRING)
    BY <1>2, <2>1, OpenedNamed DEF Kept
  <2> QED
    BY <1>2, <2>1, <2>2
<1>3. ASSUME NEW F, NEW R, NEW T, Opens(F, R, T), NEW S, NEW A, Calls(S, T, R, A), Done(S),
             Mapped(T, OpenedFd(R)) => Keeps(R.fs, A.fs) /\ Spares(R.fs, A.fs, {})
      PROVE  Saved' /\ Named_(tab')
  <2>1. /\ Named_(tab') /\ Keeps(F, R.fs) /\ Spares(F, R.fs, {}) /\ Mounts(F)
        /\ R.fs.inode = F.inode /\ R.fs.data = F.data
    BY <1>2, <1>3
  <2>2. CASE Mapped(T, OpenedFd(R))
    <3>1. S = A /\ Keeps(R.fs, A.fs) /\ Spares(R.fs, A.fs, {})
      BY <1>3, <2>2
    <3>2. Keeps(F, S.fs) /\ Spares(F, S.fs, {})
      BY <2>1, <3>1, KeepsTwice, SparesAfter
    <3> QED
      BY <1>1, <1>3, <2>1, <3>2, DoneSaved DEF Kept
  <2>3. CASE ~ Mapped(T, OpenedFd(R))
    <3>1. S = R
      BY <1>3, <2>3
    <3> QED
      BY <1>1, <1>3, <2>1, <3>1, DoneSaved DEF Kept
  <2> QED
    BY <2>2, <2>3
<1>4. ASSUME stat(path)
      PROVE  Saved' /\ Named_(tab')
  <2>1. PICK F, R, T, S : Opens(F, R, T) /\ Calls(S, T, R, minixfs_stat(R.fs, Asked(T, R))) /\ Done(S)
    BY <1>4 DEF stat, OpenCallClose, Mounts
  <2>2. R.fs \in Mounted /\ (Mapped(T, OpenedFd(R)) => Asked(T, R) \in Seq(STRING))
    BY <1>2, <2>1
  <2> HIDE DEF Opens, Calls, Asked
  <2>3. Mapped(T, OpenedFd(R)) =>
          Keeps(R.fs, minixfs_stat(R.fs, Asked(T, R)).fs) /\ Spares(R.fs, minixfs_stat(R.fs, Asked(T, R)).fs, {})
    BY <2>2, StatKeeps
  <2> QED
    BY <1>3, <2>1, <2>3
<1>5. ASSUME NEW perm \in Perms, chmod(path, perm)
      PROVE  Saved' /\ Named_(tab')
  <2>1. PICK F, R, T, S : Opens(F, R, T) /\ Calls(S, T, R, minixfs_chmod(R.fs, Asked(T, R), perm)) /\ Done(S)
    BY <1>5 DEF chmod, OpenCallClose, Mounts
  <2>2. R.fs \in Mounted /\ (Mapped(T, OpenedFd(R)) => Asked(T, R) \in Seq(STRING))
    BY <1>2, <2>1
  <2> HIDE DEF Opens, Calls, Asked
  <2>3. Mapped(T, OpenedFd(R)) =>
          Keeps(R.fs, minixfs_chmod(R.fs, Asked(T, R), perm).fs) /\ Spares(R.fs, minixfs_chmod(R.fs, Asked(T, R), perm).fs, {})
    BY <2>2, Inputs, ChmodKeeps DEF Answered
  <2> QED
    BY <1>3, <2>1, <2>3
<1>6. ASSUME NEW owner \in Owners, lchown(path, owner)
      PROVE  Saved' /\ Named_(tab')
  <2>1. PICK F, R, T, S : Opens(F, R, T) /\ Calls(S, T, R, minixfs_chown(R.fs, Asked(T, R), owner)) /\ Done(S)
    BY <1>6 DEF lchown, OpenCallClose, Mounts
  <2>2. R.fs \in Mounted /\ (Mapped(T, OpenedFd(R)) => Asked(T, R) \in Seq(STRING))
    BY <1>2, <2>1
  <2> HIDE DEF Opens, Calls, Asked
  <2>3. Mapped(T, OpenedFd(R)) =>
          Keeps(R.fs, minixfs_chown(R.fs, Asked(T, R), owner).fs) /\ Spares(R.fs, minixfs_chown(R.fs, Asked(T, R), owner).fs, {})
    BY <2>2, Inputs, ChownKeeps DEF Answered
  <2> QED
    BY <1>3, <2>1, <2>3
<1> QED
  BY <1>4, <1>5, <1>6

\* The calls that open a descriptor or a directory.
LEMMA OpenSaved ==
  ASSUME Kept, NEW path \in Names \cup FakePaths, (\E creates \in BOOLEAN : open(path, creates)) \/ opendir(path)
  PROVE  Saved' /\ Named_(tab')
<1>1. Table_(tab, shared) /\ Named_(tab) /\ Saved
  BY DEF Kept, Held
<1>2. ASSUME NEW creates \in BOOLEAN, open(path, creates)
      PROVE  Saved' /\ Named_(tab')
  <2>1. PICK F, R : /\ Mounts(F) /\ R = minixfs_open(F, path, creates) /\ Done(R)
                    /\ tab' \in {OpenFile(tab, path), tab}
    BY <1>2 DEF open, Mounts
  <2>2. status = "up"
    BY <1>2 DEF open, Running
  <2>3. Keeps(F, R.fs) /\ Spares(F, R.fs, {}) /\ path \in Seq(STRING)
    BY <1>1, <2>1, OpenedDisk
  <2>4. Saved'
    BY <1>1, <2>1, <2>2, <2>3, DoneSaved
  <2> QED
    BY <1>1, <2>1, <2>3, <2>4, OpenNamed
<1>3. CASE opendir(path)
  <2>1. PICK F, R, T, D : /\ Mounts(F) /\ R = minixfs_open(F, path, FALSE) /\ T = OpenedTable(R, path)
                          /\ D = IF Mapped(T, OpenedFd(R)) THEN minixfs_readdir(R.fs, FileAt(T, OpenedFd(R)).path)
                                 ELSE R
                          /\ tab' = T /\ Outcome(D)
    BY <1>3 DEF opendir, Mounts
  <2>2. status = "up" /\ UNCHANGED disk
    BY <1>3 DEF opendir, Running
  <2>3. Keeps(F, R.fs) /\ R.fs \in Mounted /\ path \in Seq(STRING)
    BY <1>1, <2>1, OpenedDisk
  <2>4. Named_(T) /\ (Mapped(T, OpenedFd(R)) => FileAt(T, OpenedFd(R)).path \in Seq(STRING))
    BY <2>1, <2>3, OpenedNamed DEF Kept
  <2> DEFINE asked == FileAt(T, OpenedFd(R)).path
  <2>5. Keeps(F, D.fs)
    <3>1. CASE Mapped(T, OpenedFd(R))
      <4>1. asked \in Seq(STRING) /\ D = minixfs_readdir(R.fs, asked)
        BY <2>1, <2>4, <3>1
      <4> HIDE DEF asked
      <4>2. Keeps(R.fs, D.fs)
        BY <2>3, <4>1, ReaddirKeeps
      <4> QED
        BY <2>3, <4>2, KeepsTwice
    <3>2. CASE ~ Mapped(T, OpenedFd(R))
      BY <2>1, <2>3, <3>2
    <3> QED
      BY <3>1, <3>2
  <2>6. Saved'
    BY <1>1, <2>1, <2>2, <2>5, OutcomeSaved
  <2> QED
    BY <2>1, <2>4, <2>6
<1> QED
  BY <1>2, <1>3

\* The calls through a descriptor.
LEMMA ThroughSaved ==
  ASSUME Kept, NEW fd \in Keys,
         \/ \E count \in FakeCounts : read(fd, count)
         \/ \E buf \in FakeBuffers : write(fd, buf)
         \/ \E off \in FakeOffsets : lseek(fd, off)
         \/ \E new \in Fds : dup2(fd, new)
         \/ close(fd) \/ dup(fd) \/ UseAfterFree(fd)
  PROVE  Saved' /\ Named_(tab')
<1>1. Table_(tab, shared) /\ Named_(tab) /\ Saved /\ Held
  BY DEF Kept, Held
<1>2. Mapped(tab, fd) /\ status = "up"
  BY DEF read, write, lseek, dup2, close, dup, UseAfterFree, Through, Running
<1> DEFINE path == FileAt(tab, fd).path
           off == FileAt(tab, fd).offset
<1>3. path \in Seq(STRING) /\ off \in Nat
  BY <1>1, <1>2 DEF Named_, Table_, Mapped, FileAt
<1>4. ASSUME NEW count \in FakeCounts, read(fd, count)
      PROVE  Saved' /\ Named_(tab')
  <2>1. PICK F, R : Mounts(F) /\ R = minixfs_read(F, path, count, off) /\ Advance(fd, R.off) /\ Outcome(R)
    BY <1>4 DEF read, Mounts
  <2>2. UNCHANGED disk
    BY <1>4 DEF read
  <2>3. F \in Mounted /\ count \in Nat
    BY <1>1, <2>1, MountsType, Inputs
  <2> HIDE DEF path, off
  <2>4. Keeps(F, R.fs) /\ R.off \in Nat
    BY <1>3, <2>1, <2>3, ReadKeeps DEF ReadOK, Answered
  <2>5. Saved'
    BY <1>1, <1>2, <2>1, <2>2, <2>4, OutcomeSaved
  <2> QED
    BY <1>1, <1>2, <2>1, <2>4, <2>5, AdvanceNamed
<1>5. ASSUME NEW buf \in FakeBuffers, write(fd, buf)
      PROVE  Saved' /\ Named_(tab')
  <2>1. PICK luck \in BOOLEAN, order \in Orders :
          LET R == minixfs_write(open_fs(fs, order, luck), path, buf, off)
          IN Recorded(R, {R.ino}, off, buf, R.ret = Len(buf)) /\ Advance(fd, R.off) /\ Outcome(R)
    BY <1>5 DEF write
  <2> DEFINE F == open_fs(fs, order, luck)
             R == minixfs_write(F, path, buf, off)
  <2>2. Mounts(F) /\ F \in Mounted
    BY <1>1, MountsType DEF Mounts
  <2>3. buf \in Seq(Cell)
    BY Inputs
  <2>4. Recorded(R, {R.ino}, off, buf, R.ret = Len(buf)) /\ Advance(fd, R.off) /\ status' = R.fs.status
    BY <2>1 DEF Outcome
  <2> HIDE DEF path, off
  <2>5. Written(F, R) /\ PutsIn(F, R, buf, off)
    <3> HIDE DEF F
    <3> QED
      BY <1>3, <2>2, <2>3, WriteKeeps
  <2> DEFINE ok == R.ret = Len(buf)
  <2> HIDE DEF R, F
  <2>9. Puts(F, R, {R.ino}, off, buf, ok)
    BY <1>1, <1>3, <2>2, <2>3, <2>5, WritePuts DEF Saved, ok
  <2>10. Recorded(R, {R.ino}, off, buf, ok)
    BY <2>4 DEF ok
  <2>6. /\ Keeps(open_fs(fs, order, luck), R.fs) /\ R.off \in Nat
        /\ Puts(open_fs(fs, order, luck), R, {R.ino}, off, buf, ok)
    BY <2>5, <2>9 DEF Written, F
  <2> HIDE DEF ok
  <2>7. status' \in Statuses /\ (status' # "ruined" => R.fs.status # "ruined")
    BY <2>4, <2>6, MountedFields DEF Keeps, Statuses
  <2>8. Saved'
    BY <1>1, <1>2, <1>3, <2>3, <2>6, <2>7, <2>10, RecordedSaved
  <2> QED
    BY <1>1, <1>2, <2>4, <2>6, <2>8, AdvanceNamed
<1>6. ASSUME UNCHANGED disk, status' \in {"up", "down"}
      PROVE  Saved'
  BY <1>1, <1>2, <1>6, LookedSaved DEF Statuses
<1>7. ASSUME NEW to \in FakeOffsets, lseek(fd, to)
      PROVE  Saved' /\ Named_(tab')
  <2>1. Advance(fd, to) /\ UNCHANGED disk /\ status' = status /\ to \in Nat
    BY <1>7, Inputs DEF lseek
  <2> QED
    BY <1>1, <1>2, <1>6, <2>1, AdvanceNamed
<1>8. ASSUME NEW T, tab' = T, T.files = tab.files
      PROVE  Named_(tab')
  BY <1>1, <1>8 DEF Named_
<1>9. ASSUME NEW new \in Fds, dup2(fd, new)
      PROVE  Saved' /\ Named_(tab')
  <2>1. /\ tab' = [tab EXCEPT !.map[new] = tab.map[fd], !.busy = @ \cup {new}]
        /\ UNCHANGED disk /\ status' = status
    BY <1>9 DEF dup2
  <2>2. tab'.files = tab.files
    BY <1>1, <2>1 DEF Table_
  <2> QED
    BY <1>2, <1>6, <1>8, <2>1, <2>2
<1>10. CASE close(fd)
  <2>1. tab' = CloseFile(tab, fd) /\ UNCHANGED disk /\ status' = status
    BY <1>10 DEF close
  <2> QED
    BY <1>1, <1>2, <1>6, <2>1, CloseNamed
<1>11. CASE dup(fd)
  <2> DEFINE new == orig_open(tab)
  <2>1. /\ tab' = IF new > 0 THEN [tab EXCEPT !.map[new] = tab.map[fd], !.busy = @ \cup {new}] ELSE tab
        /\ UNCHANGED disk /\ status' = status
    BY <1>11 DEF dup
  <2> HIDE DEF new
  <2>2. tab'.files = tab.files
    BY <1>1, <2>1 DEF Table_
  <2> QED
    BY <1>2, <1>6, <1>8, <2>1, <2>2
<1>12. CASE UseAfterFree(fd)
  <2>1. tab' = tab /\ UNCHANGED disk /\ status' = "down"
    BY <1>12 DEF UseAfterFree
  <2> QED
    BY <1>1, <1>6, <2>1
<1> QED
  BY <1>4, <1>5, <1>7, <1>9, <1>10, <1>11, <1>12

\* Nothing is named at the start.
LEMMA NothingNamed == Named_(NoTable)
<1>1. NoFile.path \in Seq(STRING) /\ NoFile.offset \in Nat
  BY DEF NoFile
<1>2. \A k \in Keys : NoTable.files[k] = NoFile
  BY DEF NoTable
<1> QED
  BY <1>1, <1>2 DEF Named_

\* A copy.
LEMMA CpSaved ==
  ASSUME Saved, NEW pair \in Copies, cp(pair[1], pair[2])
  PROVE  Saved'
<1> DEFINE src == pair[1]
           dst == pair[2]
<1>1. src \in Seq(STRING) /\ dst \in Seq(STRING)
  BY Inputs
<1>2. PICK luck \in BOOLEAN, order \in Orders :
        LET F == open_fs(fs, order, luck)
            C == CpRun(F, src, dst)
            i == get_inode(F, src)
            into == IF Disk(C.fs) = fs THEN {} ELSE C.into
            told_ == IF src = Info THEN << Entry("info", 0) >> ELSE IF i < 0 THEN <<>> ELSE told[i]
            known == src = Info \/ (i \in whole /\ ~ is_directory(fs.inode[i]))
        IN /\ Recorded(C, into, 0, told_, C.ret = 0 /\ known /\ Cardinality(C.into) = 1)
           /\ status' = IF C.fs.status = "ruined" THEN "ruined" ELSE "up"
  BY DEF cp
<1> DEFINE F == open_fs(fs, order, luck)
           C == CpRun(F, src, dst)
           i == get_inode(F, src)
           k == get_inode(minixfs_open(minixfs_open(F, src, FALSE).fs, dst, TRUE).fs, dst)
           into == IF Disk(C.fs) = fs THEN {} ELSE C.into
           told_ == IF src = Info THEN << Entry("info", 0) >> ELSE IF i < 0 THEN <<>> ELSE told[i]
           known == src = Info \/ (i \in whole /\ ~ is_directory(fs.inode[i]))
           ok == C.ret = 0 /\ known /\ Cardinality(C.into) = 1
<1>3. Mounts(F) /\ F \in Mounted /\ F.inode = fs.inode /\ F.data = fs.data
  BY MountsType DEF Mounts, open_fs
<1>4. /\ Recorded(C, into, 0, told_, ok)
      /\ status' = IF C.fs.status = "ruined" THEN "ruined" ELSE "up"
  BY <1>2
<1>5. status = "up"
  BY DEF cp, Running
<1>6. F = open_fs(fs, order, luck)
  OBVIOUS
<1> HIDE DEF src, dst, F
<1>7. C \in Copies_ /\ CopyKeeps(F, k, C)
  BY <1>1, <1>3, CpKeeps
<1>8. i \in Found
  BY <1>1, <1>3, Lookups
<1>9. told \in [Inodes -> Seq(Cell)] /\ whole \subseteq Inodes
  BY DEF Saved, Recalls
<1>10. told_ \in Seq(Cell)
  <2>1. Entry("info", 0) \in Cell
    BY Named DEF Entry, Cell, Name, Root
  <2> DEFINE x == Entry("info", 0)
  <2> HIDE DEF x
  <2>2. << x >> \in Seq(Cell) /\ <<>> \in Seq(Cell)
    BY <2>1 DEF x
  <2>3. ~ (i < 0) => i \in Inodes
    <3> HIDE DEF i
    <3> QED
      BY <1>8 DEF Found, NoInode, Wild
  <2> HIDE DEF i
  <2> QED
    BY <1>9, <2>2, <2>3 DEF x
<1>11. \A j \in whole : j \in Int /\ ~ (j < 0)
  BY <1>9 DEF Inodes
<1>12. ASSUME Sane(F), Fine(C.fs), Remembers(F), NEW j \in Inodes, j \in into, Gapless(j, 0, ok)
       PROVE  HoldsJust(C.fs, j, Overlay(told[j], 0, told_))
  <2> DEFINE t == told[j]
  <2>1. j \in whole /\ ok
    BY <1>12 DEF Gapless
  <2>2. into = C.into
    BY <1>12
  <2>3. C.into = {k} /\ j = k
    <3> HIDE DEF C, k
    <3>1. IsFiniteSet(C.into)
      BY <1>7, FoundNumbers, FS_Subset DEF Copies_
    <3>2. k \in C.into
      BY <1>7 DEF CopyKeeps
    <3>3. PICK x : C.into = {x}
      BY <2>1, <3>1, FS_Singleton
    <3> QED
      BY <1>12, <2>2, <3>2, <3>3
  <2>4. HoldsJust(F, j, t)
    BY <1>12, <2>1 DEF Remembers
  <2>5. Source(F, src, told_, t, j)
    <3>1. CASE src = Info
      BY <3>1 DEF Source
    <3>2. CASE src # Info /\ is_virtual_path(src)
      BY <3>2 DEF Source
    <3>3. CASE src # Info /\ ~ is_virtual_path(src)
      <4>1. i \in whole /\ ~ is_directory(F.inode[i])
        BY <1>3, <2>1, <3>3
      <4>2. told_ = told[i] /\ i \in Inodes
        <5> HIDE DEF i
        <5> QED
          BY <1>9, <1>11, <3>3, <4>1
      <4>3. HoldsJust(F, i, told[i])
        BY <1>12, <4>1 DEF Remembers
      <4> HIDE DEF told_
      <4>4. i = j => t = told_
        BY <4>2
      <4> HIDE DEF t
      <4> QED
        BY <3>3, <4>1, <4>2, <4>3, <4>4 DEF Source
    <3> QED
      BY <3>1, <3>2, <3>3
  <2>6. t \in Seq(Cell)
    BY <1>9
  <2>7. C.ret = 0 /\ C.into = {j}
    BY <2>1, <2>3
  <2>8. j = get_inode(minixfs_open(minixfs_open(F, src, FALSE).fs, dst, TRUE).fs, dst)
    BY <2>3
  <2> HIDE DEF t, told_
  <2>9. HoldsJust(C.fs, j, Overlay(t, 0, told_))
    BY <1>1, <1>3, <1>10, <1>12, <2>4, <2>5, <2>6, <2>7, <2>8, CpFills
  <2> QED
    BY <2>9 DEF t
<1> HIDE DEF C, told_, ok, i, k
<1>13. Spares(F, C.fs, into)
  <2>1. CASE Disk(C.fs) = fs
    <3>1. C.fs.inode = F.inode /\ C.fs.data = F.data
      BY <1>3, <2>1 DEF Disk
    <3>2. Bystanders(F, C.fs, {}) /\ into = {}
      BY <1>3, <2>1, <3>1, GrownStill
    <3> QED
      BY <3>2 DEF Spares
  <2>2. CASE Disk(C.fs) # fs
    <3>1. Spares(F, C.fs, C.into) /\ into = C.into
      BY <1>7, <2>2, GrownSpares DEF CopyKeeps
    <3> QED
      BY <3>1
  <2> QED
    BY <2>1, <2>2
<1> HIDE DEF into
<1>14. Puts(F, C, into, 0, told_, ok)
  BY <1>12, <1>13 DEF Puts
<1>15. Keeps(F, C.fs)
  BY <1>7 DEF CopyKeeps
<1>16. status' \in Statuses /\ (status' # "ruined" => C.fs.status # "ruined")
  BY <1>4 DEF Statuses
<1>17. Recorded(C, into, 0, told_, ok) /\ 0 \in Nat
  BY <1>4
<1> QED
  BY <1>5, <1>6, <1>10, <1>14, <1>15, <1>16, <1>17, RecordedSaved

\* A driver starts with a sane disk and an empty table.
LEMMA KeptInit ==
  ASSUME Init
  PROVE  Kept
<1>1. PICK order \in Orders : InitWith(Disk(Image(1, order).fs))
  BY DEF Init
<1>2. Held
  BY <1>1, HeldInit DEF InitWith
<1>3. Named_(tab)
  BY <1>1, NothingNamed DEF InitWith
<1>4. Saved
  <2> DEFINE f == Disk(Image(1, order).fs)
  <2>1. f \in Disks /\ Sane(f) /\ \A i \in Inodes : HoldsJust(f, i, <<>>)
    BY FirstImage
  <2>2. /\ fs = f /\ untidy = {} /\ whole = Inodes \ {Root} /\ status = "up"
        /\ told = [i \in Inodes |-> <<>>]
    BY <1>1 DEF InitWith
  <2> HIDE DEF f
  <2>3. Live(fs, Root)
    BY <2>1, <2>2 DEF Sane
  <2>4. Recalls
    BY <2>1, <2>2, <2>3 DEF Recalls
  <2> QED
    BY <2>1, <2>2, <2>4 DEF Saved, Statuses
<1> QED
  BY <1>2, <1>3, <1>4 DEF Kept

\* Every step keeps them.
LEMMA KeptStep ==
  ASSUME Kept, WithinReach, [Next]_vars
  PROVE  Kept'
<1>1. Held /\ Named_(tab) /\ Saved /\ Table_(tab, shared) /\ status \in Statuses
  BY DEF Kept, Held, Saved
<1>2. Held'
  BY <1>1, HeldStep
<1> DEFINE Goal == Saved' /\ Named_(tab')
<1>3. ASSUME NEW path \in Paths, NEW buf \in Buffers, NEW off \in Offsets, minixfs_write_at(path, buf, off)
      PROVE  Goal
  <2>1. tab' = tab
    BY <1>3 DEF minixfs_write_at
  <2> QED
    BY <1>1, <1>3, <2>1, LibrarySaved
<1>4. ASSUME NEW pair \in Grown, min_blockcount(pair[1], pair[2])
      PROVE  Goal
  <2>1. tab' = tab
    BY <1>4 DEF min_blockcount
  <2> QED
    BY <1>1, <1>4, <2>1, LibrarySaved
<1>5. ASSUME NEW who, NEW path \in Paths \cup FakePaths, unlink(who, path)
      PROVE  Goal
  <2>1. tab' = tab
    BY <1>5 DEF unlink
  <2> QED
    BY <1>1, <1>5, <2>1, LibrarySaved
<1>6. ASSUME NEW who, NEW path \in Dirs, NEW perm \in Perms, mkdir(who, path, perm)
      PROVE  Goal
  <2>1. tab' = tab
    BY <1>6 DEF mkdir
  <2> QED
    BY <1>1, <1>6, <2>1, LibrarySaved
<1>7. ASSUME NEW path \in Names, NEW perm \in Perms, access(path, perm)
      PROVE  Goal
  <2>1. tab' = tab
    BY <1>7 DEF access
  <2> QED
    BY <1>1, <1>7, <2>1, LibrarySaved
<1>8. ASSUME NEW pair \in Copies, cp(pair[1], pair[2])
      PROVE  Goal
  <2>1. tab' = tab
    BY <1>8 DEF cp
  <2> QED
    BY <1>1, <1>8, <2>1, CpSaved
<1>9. ASSUME readdir
      PROVE  Goal
  <2>1. tab' = tab /\ UNCHANGED disk /\ status' = status
    BY <1>9 DEF readdir
  <2>2. Saved'
    BY <1>1, <2>1, LookedSaved
  <2> QED
    BY <1>1, <2>1, <2>2
<1>10. ASSUME closedir
       PROVE  Goal
  <2>1. stream # <<>> /\ tab' = CloseFile(tab, stream[1].fd) /\ UNCHANGED disk /\ status' = status
    BY <1>10 DEF closedir
  <2>2. stream[1].fd \in Keys
    BY <1>1, <2>1 DEF Held
  <2>3. Saved'
    BY <1>1, <2>1, LookedSaved
  <2>4. Named_(CloseFile(tab, stream[1].fd))
    BY <1>1, <2>2, CloseNamed
  <2> QED
    BY <2>1, <2>3, <2>4
<1>11. ASSUME Restart
       PROVE  Goal
  <2>1. status # "ruined" /\ status' = "up" /\ UNCHANGED disk /\ tab' = NoTable
    BY <1>11 DEF Restart, Exec
  <2>2. "up" \in Statuses
    BY DEF Statuses
  <2>3. Saved'
    BY <1>1, <2>1, <2>2, LookedSaved
  <2> QED
    BY <2>1, <2>3, NothingNamed
<1>12. ASSUME UNCHANGED vars
       PROVE  Goal
  <2>1. tab' = tab /\ status' = status
    BY <1>12 DEF vars
  <2>2. UNCHANGED disk
    BY <1>12 DEF vars, disk
  <2>3. Saved'
    BY <1>1, <2>1, <2>2, LookedSaved
  <2> QED
    BY <1>1, <2>1, <2>3
<1>13. ASSUME NEW path \in FakePaths, (\E creates \in BOOLEAN : open(path, creates)) \/ unlink("fakefs", path)
       PROVE  Goal
  BY <1>5, <1>13, OpenSaved
<1>14. ASSUME NEW path \in Names,
              \/ stat(path) \/ opendir(path)
              \/ \E perm \in Perms : access(path, perm) \/ chmod(path, perm)
              \/ \E owner \in Owners : lchown(path, owner)
       PROVE  Goal
  BY <1>7, <1>14, OpenSaved, WrapperSaved
<1>15. ASSUME NEW fd \in Keys,
              \/ \E count \in FakeCounts : read(fd, count)
              \/ \E buf \in FakeBuffers : write(fd, buf)
              \/ \E off \in FakeOffsets : lseek(fd, off)
              \/ \E new \in Fds : dup2(fd, new)
              \/ close(fd) \/ dup(fd) \/ UseAfterFree(fd)
       PROVE  Goal
  BY <1>15, ThroughSaved
<1> HIDE DEF Goal
<1>16. Goal
  BY <1>3, <1>4, <1>5, <1>6, <1>8, <1>9, <1>10, <1>11, <1>12, <1>13, <1>14, <1>15 DEF Next
<1> QED
  BY <1>2, <1>16 DEF Kept, Goal

\* A sane disk has the blocks that it marks as used, each with one owner.
LEMMA SaneBlocks ==
  ASSUME fs \in Disks, Sane(fs)
  PROVE  OneOwner /\ fs.used = NamedBlocks
<1> DEFINE F == open_fs(fs, <<>>, TRUE)
<1>1. <<>> \in Seq(Blocks) /\ TRUE \in BOOLEAN
  OBVIOUS
<1>2. F \in Mounted /\ F.inode = fs.inode /\ F.data = fs.data /\ (Sane(fs) => Sane(F))
  BY <1>1, Mapping
<1> HIDE DEF F
<1>3. \A i \in Inodes : Live(F, i) <=> Live(fs, i)
  BY <1>2 DEF Live
<1>4. ASSUME NEW i \in Inodes, NEW p \in Place, Live(fs, i)
      PROVE  NamedAt(fs, i, p) \in Blocks \cup {Unassigned}
  <2>1. NamedAt(F, i, p) \in Blocks \cup {Unassigned}
    BY <1>2, <1>3, <1>4, NamedType DEF Sane
  <2>2. NamedAt(F, i, p) = NamedAt(fs, i, p)
    BY <1>2 DEF NamedAt, Number
  <2> QED
    BY <2>1, <2>2
<1>5. OneOwner
  BY DEF Sane, OwnsOnce, OneOwner, LiveInodes
<1>6. ASSUME NEW b
      PROVE  b \in fs.used <=> b \in NamedBlocks
  <2>1. b \in fs.used => b \in Blocks
    BY DEF Disks
  <2>2. b \in NamedBlocks <=>
          b # Unassigned /\ \E i \in Inodes, p \in Place : Live(fs, i) /\ NamedAt(fs, i, p) = b
    BY DEF NamedBlocks, LiveInodes
  <2>3. b \in NamedBlocks => b \in Blocks
    BY <1>4, <2>2
  <2>4. b \in Blocks => b # Unassigned
    BY Named
  <2> QED
    BY <2>1, <2>2, <2>3, <2>4 DEF Sane, Marked
<1> QED
  BY <1>5, <1>6
------------------------------------------------------------------------------
(* What holds in every state.                                               *)

\* Only the fakefile of a mapped descriptor is ever shared.
LEMMA SharedStep ==
  ASSUME Held, shared \subseteq Keys, [Next]_vars
  PROVE  shared' \subseteq Keys
<1> DEFINE Goal == shared' \subseteq Keys
<1>1. ASSUME UNCHANGED shared
      PROVE  Goal
  BY <1>1
<1>2. ASSUME NEW fd \in Keys,
             \/ \E count \in FakeCounts : read(fd, count)
             \/ \E buf \in FakeBuffers : write(fd, buf)
             \/ \E off \in FakeOffsets : lseek(fd, off)
             \/ close(fd) \/ UseAfterFree(fd)
      PROVE  Goal
  BY <1>1, <1>2 DEF read, write, lseek, close, UseAfterFree
<1>3. ASSUME NEW fd \in Keys, (\E new \in Fds : dup2(fd, new)) \/ dup(fd)
      PROVE  Goal
  <2>1. Mapped(tab, fd) /\ shared' = shared \cup {tab.map[fd]}
    BY <1>3 DEF dup2, dup, Through
  <2>2. tab.map[fd] \in Keys
    BY <2>1 DEF Held, Table_, Mapped
  <2> QED
    BY <2>1, <2>2
<1>4. ASSUME Restart
      PROVE  Goal
  BY <1>4 DEF Restart, Exec
<1>5. ASSUME NEW path, NEW perm,
             (\E who : mkdir(who, path, perm)) \/ access(path, perm) \/ chmod(path, perm)
      PROVE  Goal
  BY <1>1, <1>5 DEF mkdir, access, chmod, OpenCallClose
<1>6. ASSUME NEW path, stat(path) \/ opendir(path) \/ (\E who : unlink(who, path))
                       \/ (\E creates : open(path, creates)) \/ (\E owner : lchown(path, owner))
      PROVE  Goal
  BY <1>1, <1>6 DEF stat, opendir, unlink, open, lchown, OpenCallClose
<1>7. ASSUME readdir \/ closedir \/ UNCHANGED vars
      PROVE  Goal
  BY <1>1, <1>7 DEF readdir, closedir, vars
<1>8. ASSUME NEW path \in Paths, NEW buf \in Buffers, NEW off \in Offsets,
             minixfs_write_at(path, buf, off)
      PROVE  Goal
  BY <1>1, <1>8 DEF minixfs_write_at
<1>9. ASSUME NEW pair \in Grown, min_blockcount(pair[1], pair[2])
      PROVE  Goal
  BY <1>1, <1>9 DEF min_blockcount
<1>10. ASSUME NEW pair \in Copies, cp(pair[1], pair[2])
      PROVE  Goal
  BY <1>1, <1>10 DEF cp
<1> HIDE DEF Goal
<1>11. Goal
  BY <1>2, <1>3, <1>4, <1>5, <1>6, <1>7, <1>8, <1>9, <1>10 DEF Next
<1> QED
  BY <1>11 DEF Goal

\* The inductive invariant.
Inv == Kept /\ shared \subseteq Keys

\* It holds at the start, every step keeps it.
LEMMA InvStep == WithinReach => (Init => Inv) /\ (Inv /\ [Next]_vars => Inv')
<1>1. Init => Inv
  BY KeptInit DEF Init, InitWith, Inv
<1>2. ASSUME WithinReach, Inv, [Next]_vars
      PROVE  Inv'
  BY <1>2, KeptStep, SharedStep DEF Inv, Kept
<1> QED
  BY <1>1, <1>2

\* It has the types.
LEMMA InvTypes == Inv => TypeOK
<1> SUFFICES ASSUME Inv PROVE TypeOK
  OBVIOUS
<1>1. fs \in Disks /\ Table_(tab, shared) /\ status \in Statuses
  BY DEF Inv, Kept, Held, Saved
<1>2. ASSUME NEW i \in Inodes
      PROVE  fs.inode[i] \in Inode /\ fs.inode[i].nlink \in {0, 1}
  <2>1. fs.inode[i] \in Node
    BY <1>1 DEF Disks
  <2> QED
    BY <2>1 DEF Node
<1>3. fs.used \subseteq Blocks /\ DOMAIN fs.inode = Inodes /\ DOMAIN fs.data = Blocks \cup {Unassigned}
  BY <1>1 DEF Disks
<1>4. /\ tab.map \in [Keys -> Keys \cup {NoKey}] /\ tab.busy \subseteq Fds
      /\ \A k \in Keys : tab.files[k].refcount \in {0, 1}
  BY <1>1 DEF Table_
<1>5. whole \subseteq Inodes /\ untidy \subseteq Inodes /\ shared \subseteq Keys
  BY DEF Inv, Kept, Saved
<1> QED
  BY <1>1, <1>2, <1>3, <1>4, <1>5 DEF TypeOK, Statuses

\* A sound disk is a sane one.
LEMMA InvSane ==
  ASSUME Inv, Sound
  PROVE  fs \in Disks /\ Sane(fs)
BY DEF Inv, Kept, Saved, Sound

\* The directories of a sane disk are exact.
LEMMA SaneDirectories ==
  ASSUME fs \in Disks, Sane(fs)
  PROVE  EntriesExact
<1>1. DirsOK(fs)
  BY DEF Sane
<1>2. ASSUME NEW d \in Inodes, IsDir(fs, d)
      PROVE  /\ fs.inode[d].size <= BlockSize
             /\ \A j \in EntriesOf(fs, d) : IsEntry(EntryOf(fs, d, j)) /\ Live(fs, EntryOf(fs, d, j).ino)
             /\ \A j, k \in EntriesOf(fs, d) :
                  j # k => EntryOf(fs, d, j).name # EntryOf(fs, d, k).name
  <2>1. DirOK(fs, d)
    BY <1>1, <1>2 DEF DirsOK
  <2>2. fs.inode[d].size <= BlockSize
    BY <2>1, Sizes DEF DirOK, FitsIn
  <2>3. \A j \in EntriesOf(fs, d) : IsEntry(EntryOf(fs, d, j)) /\ Live(fs, EntryOf(fs, d, j).ino)
    BY <2>1 DEF DirOK, EntryOK, IsEntry
  <2> QED
    BY <2>1, <2>2, <2>3 DEF DirOK, NamesOnce
<1>3. \A d, e \in Inodes : IsDir(fs, d) /\ IsDir(fs, e) => InOneDirectory(fs, d, e)
  BY <1>1 DEF DirsOK
<1> QED
  BY <1>2, <1>3 DEF EntriesExact, IsDir, InOneDirectory, EntriesOf, EntryOf

\* What an inode holds is read from it.
LEMMA HeldRead ==
  ASSUME fs \in Disks, NEW i \in Inodes, Live(fs, i), NEW c, HoldsJust(fs, i, c)
  PROVE  /\ fs.inode[i].size = Len(c)
         /\ \A j \in 1 .. Len(c) :
              LET b == BlockToRead(fs, i, (j - 1) \div BlockSize)
              IN b # Null /\ CellsOf(fs, b)[(j - 1) % BlockSize] = c[j]
<1> DEFINE F == open_fs(fs, <<>>, TRUE)
<1>1. F \in Mounted /\ F.inode = fs.inode /\ F.data = fs.data
  <2>1. <<>> \in Seq(Blocks)
    OBVIOUS
  <2> QED
    BY <2>1, Mapping
<1> HIDE DEF F
<1>2. \A k : BlockToRead(F, i, k) = BlockToRead(fs, i, k)
  BY <1>1 DEF BlockToRead, Number
<1>3. \A b : CellsOf(F, b) = CellsOf(fs, b)
  BY <1>1 DEF CellsOf
<1>4. fs.inode[i].size = Len(c) /\ Holds(fs, i, c) /\ c \in Seq(Cell)
  BY DEF HoldsJust
<1>5. Holds(F, i, c)
  <2>1. HoldsJust(F, i, c)
    BY <1>1, HoldsAlike
  <2> QED
    BY <1>1, <2>1 DEF HoldsJust, Live
<1>6. ASSUME NEW j \in 1 .. Len(c)
      PROVE  LET b == BlockToRead(fs, i, (j - 1) \div BlockSize)
             IN b # Null /\ CellsOf(fs, b)[(j - 1) % BlockSize] = c[j]
  <2> DEFINE m == j - 1
  <2>1. m \in 0 .. Len(c) - 1 /\ m \in Nat /\ m + 1 = j
    BY <1>4
  <2> HIDE DEF m
  <2>2. HasAt(F, i, m, c[j])
    BY <1>5, <2>1 DEF Holds
  <2>3. /\ BlockToRead(F, i, m \div BlockSize) # Null
        /\ CellsOf(F, BlockToRead(F, i, m \div BlockSize))[m % BlockSize] = c[j]
    BY <1>1, <2>1, <2>2, ReadThere
  <2> QED
    BY <1>2, <1>3, <2>3 DEF m
<1> QED
  BY <1>4, <1>6

\* The variables of fakefs and its disk have their types, whatever it runs.
THEOREM TypesKept == ASSUME WithinReach PROVE Spec => []TypeOK
<1>1. (Init => Inv) /\ (Inv /\ [Next]_vars => Inv')
  BY InvStep
<1>2. Inv => TypeOK
  BY InvTypes
<1> QED
  BY <1>1, <1>2, PTL DEF Spec

\* minixfs.c:164, minixfs_utils.c:57: no block has two owners and none leaks, as
\* long as the directories fit in their first blocks and no more blocks are asked
\* for than a write can reach.
THEOREM NoBlockLost == ASSUME WithinReach PROVE Spec => []BlocksAccountedFor
<1>1. (Init => Inv) /\ (Inv /\ [Next]_vars => Inv')
  BY InvStep
<1>2. Inv => BlocksAccountedFor
  <2> SUFFICES ASSUME Inv, Sound PROVE OneOwner /\ fs.used = NamedBlocks
    BY DEF BlocksAccountedFor
  <2> QED
    BY InvSane, SaneBlocks
<1> QED
  BY <1>1, <1>2, PTL DEF Spec

\* minixfs.c:164-326: a file written without a gap and without a failure holds just
\* what was written to it, whatever is done to other files, directories and the
\* blocks they give back; what cp.c put into it is what its source held.
THEOREM FilesReadBack == ASSUME WithinReach PROVE Spec => []ReadsBack
<1>1. (Init => Inv) /\ (Inv /\ [Next]_vars => Inv')
  BY InvStep
<1>2. Inv => ReadsBack
  <2> SUFFICES ASSUME Inv, Sound, NEW i \in whole, Live(fs, i)
               PROVE  /\ fs.inode[i].size = Len(told[i])
                      /\ \A j \in 1 .. Len(told[i]) :
                           LET b == BlockToRead(fs, i, (j - 1) \div BlockSize)
                           IN b # Null /\ CellsOf(fs, b)[(j - 1) % BlockSize] = told[i][j]
    BY DEF ReadsBack, FilesHold
  <2>1. fs \in Disks /\ i \in Inodes
    BY DEF Inv, Kept, Saved
  <2>2. status # "ruined" /\ untidy = {}
    BY DEF Sound
  <2>3. HoldsJust(fs, i, told[i])
    BY <2>2 DEF Inv, Kept, Saved, Recalls
  <2> QED
    BY <2>1, <2>3, HeldRead
<1> QED
  BY <1>1, <1>2, PTL DEF Spec

\* minixfs.c:73, minixfs_provided.c:192: a directory has one entry for each of its
\* files, none of a removed one, and shares none with another directory.
THEOREM DirectoriesExact == ASSUME WithinReach PROVE Spec => []EntriesExact
<1>1. (Init => Inv) /\ (Inv /\ [Next]_vars => Inv')
  BY InvStep
<1>2. Inv => EntriesExact
  <2> SUFFICES ASSUME Inv PROVE EntriesExact
    OBVIOUS
  <2>1. CASE Sound
    BY <2>1, InvSane, SaneDirectories
  <2>2. CASE ~ Sound
    BY <2>2 DEF EntriesExact
  <2> QED
    BY <2>1, <2>2
<1> QED
  BY <1>1, <1>2, PTL DEF Spec
=============================================================================
