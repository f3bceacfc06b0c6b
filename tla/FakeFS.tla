-------------------------------- MODULE FakeFS --------------------------------
(***************************************************************************)
(* A command run by fakefs: the calls of libc that fakefs_src interposes,  *)
(* over the disk of MinixFS.  Calls on descriptors and paths that are not  *)
(* virtual go to the system and are not modelled.                          *)
(*                                                                         *)
(* tab is the process's side: map (fd_map: a descriptor to the fakefile it *)
(* shares, named by the descriptor it was opened as), files (the fakefiles *)
(* in memory, freed ones included) and busy (descriptors the kernel holds  *)
(* open: the /dev/null behind each virtual file, which close() does not    *)
(* close).  Key -1 is a real key: open() stores its result unseen.         *)
(***************************************************************************)
EXTENDS MinixFS

CONSTANTS Paths,     \* the paths a program linked with minixfs.c names
          Buffers,   \* what it writes in one call
          Offsets,   \* and where
          Grown,     \* the paths it asks a number of blocks for, and how many
          FakePaths, \* the paths a command under fakefs names,
          FakeBuffers, FakeOffsets, FakeCounts, \* what it writes and seeks and reads
          Dirs,      \* paths made a directory of
          Names,     \* paths looked up, listed, or given other permissions or owners
          Perms, Owners, \* which
          Copies,    \* the pairs of paths that cp copies
          MaxFd,     \* RLIMIT_NOFILE: descriptors 3 .. MaxFd
          Orders,    \* bound: the orders of the blocks in which rand() finds free ones
          MaxCalls   \* bound: calls in a behaviour of each driver

VARIABLES driver,  \* "library": a program that calls minixfs.c, as minixfs_test.c
                   \* does; "fakefs": a command under fakefs
          fs,      \* the disk image
          tab,
          stream,  \* <<>> or the one open DIR
          status,  \* "up", "down" (a signal killed the command) or "ruined"
          told,    \* history: what each inode was told to hold
          whole,   \* history: inodes written without a gap, a failure or a
                   \* change of size by anything but write()
          untidy,  \* history: inodes that were used as a directory beyond
                   \* its first block, or whose type was changed
          shared,  \* history: fakefiles that dup() or dup2() has shared
          calls    \* calls made, up to MaxCalls

disk == <<fs, told, whole, untidy>>
vars == <<driver, fs, tab, stream, status, told, whole, untidy, shared, calls>>

ASSUME OrdersAssumption == Orders \subseteq SetToSeqs(Blocks)
ASSUME MaxFdAssumption == MaxFd \in Nat
\* A program passes names, cells, and positions and counts of cells.
ASSUME InputsAssumption ==
  /\ Paths \cup FakePaths \cup Dirs \cup Names \subseteq Seq(STRING)
  /\ Buffers \cup FakeBuffers \subseteq Seq(Cell)
  /\ Offsets \cup FakeOffsets \cup FakeCounts \cup Owners \subseteq Nat
  /\ Perms \subseteq SUBSET RWX
  /\ Grown \subseteq Seq(STRING) \X Nat
  /\ Copies \subseteq Seq(STRING) \X Seq(STRING)

Fds == 3 .. MaxFd
Keys == Fds \cup {-1}
NoFile == [path |-> <<>>, offset |-> 0, refcount |-> 0]
NoKey == 0
NoTable == [map |-> [k \in Keys |-> NoKey], files |-> [k \in Keys |-> NoFile], busy |-> {}]
Mapped(T, fd) == T.map[fd] # NoKey
FileAt(T, fd) == T.files[T.map[fd]]
Freed(T, fd) == FileAt(T, fd).refcount = 0

---------------------------------------------------------------------------
\* The descriptor table.
orig_open(T) ==
  LET free == Fds \ T.busy
  IN IF free = {} THEN -1 ELSE Least(free)

OpenFile(T, path) ==
  LET fd == orig_open(T)
  IN [map |-> [T.map EXCEPT ![fd] = fd],
      files |-> [T.files EXCEPT ![fd] = [path |-> path, offset |-> 0, refcount |-> 1]],
      busy |-> T.busy \cup ({fd} \cap Fds)]

\* The count of a freed fakefile goes below zero, nothing is freed again.
Released(file) ==
  IF file.refcount <= 1 THEN NoFile ELSE [file EXCEPT !.refcount = @ - 1]
\* Mutation: the descriptor stays in fd_map.
CloseFile_StaysMapped(T, fd) ==
  IF ~Mapped(T, fd) THEN [T EXCEPT !.busy = @ \ {fd}]
  ELSE [T EXCEPT !.files[T.map[fd]] = Released(@)]
CloseFile(T, fd) ==
  IF ~Mapped(T, fd) THEN [T EXCEPT !.busy = @ \ {fd}]
  ELSE [T EXCEPT !.map[fd] = NoKey, !.files[T.map[fd]] = Released(FileAt(T, fd))]

---------------------------------------------------------------------------
\* History of a call that leaves the disk after with buf written at off into
\* the inodes of is, ok or not.
Overlay(old, off, buf) ==
  [j \in 1 .. (IF off + Len(buf) > Len(old) THEN off + Len(buf) ELSE Len(old)) |->
     IF j \in off + 1 .. off + Len(buf) THEN buf[j - off] ELSE old[j]]
Gapless(i, off, ok) == i \in whole /\ ok /\ off <= Len(told[i])

Recorded(R, is, off, buf, ok) ==
  LET after == Disk(R.fs)
  IN /\ fs' = after
     /\ told' = [k \in Inodes |->
                   IF ~Live(after, k) THEN <<>>
                   ELSE IF k \in is /\ Gapless(k, off, ok) THEN Overlay(told[k], off, buf)
                   ELSE told[k]]
     /\ whole' = {k \in Inodes :
                    \/ ~Live(after, k)
                    \/ k \in is /\ Gapless(k, off, ok)
                    \/ k \in whole \ is /\ (~Live(fs, k) \/ after.inode[k].size = fs.inode[k].size)}
     /\ untidy' = untidy \cup R.fs.untidy
Outcome(R) == status' = R.fs.status
\* A call that writes to no file.
Done(R) == Recorded(R, {}, 0, <<>>, TRUE) /\ Outcome(R)
Running(who) == /\ driver = who /\ status = "up"
                /\ calls < MaxCalls[who] /\ calls' = calls + 1
                /\ UNCHANGED driver

---------------------------------------------------------------------------
\* A program's own calls of the library.
minixfs_write_at(path, buf, off) ==
  /\ Running("library")
  /\ \E luck \in BOOLEAN, order \in Orders :
       \E R \in {minixfs_write(open_fs(fs, order, luck), path, buf, off)} :
         Recorded(R, {R.ino}, off, buf, R.ret = Len(buf)) /\ Outcome(R)
  /\ UNCHANGED <<tab, stream, shared>>

\* Blocks beyond the size.
min_blockcount(path, count) ==
  /\ Running("library")
  /\ \E luck \in BOOLEAN, order \in Orders :
       \E R \in {minixfs_min_blockcount(open_fs(fs, order, luck), path, count)} :
         Done(R)
  /\ UNCHANGED <<tab, stream, shared>>

\* And a command's too.
unlink(who, path) ==
  /\ Running(who)
  /\ \E luck \in BOOLEAN : \E R \in {minixfs_unlink(open_fs(fs, <<>>, luck), path)} :
       Done(R)
  /\ UNCHANGED <<tab, stream, shared>>

access(path, asked) ==
  /\ Running("fakefs")
  /\ \E luck \in BOOLEAN : Outcome(minixfs_access(open_fs(fs, <<>>, luck), path, asked))
  /\ UNCHANGED <<disk, tab, stream, shared>>

mkdir(who, path, perm) ==
  /\ Running(who)
  /\ \E luck \in BOOLEAN : \E R \in {minixfs_mkdir(open_fs(fs, <<>>, luck), path, perm)} :
       Done(R)
  /\ UNCHANGED <<tab, stream, shared>>

---------------------------------------------------------------------------
open(path, creates) ==
  /\ Running("fakefs")
  /\ \E luck \in BOOLEAN : \E R \in {minixfs_open(open_fs(fs, <<>>, luck), path, creates)} :
       /\ Done(R)
       /\ tab' = IF R.ret >= 0 THEN OpenFile(tab, path) ELSE tab
  /\ UNCHANGED <<stream, shared>>

\* A call through a descriptor; a freed fakefile may still read as it was.
Through(fd, luck) == Running("fakefs") /\ Mapped(tab, fd) /\ (luck \/ ~Freed(tab, fd))
Advance(fd, off) == tab' = [tab EXCEPT !.files[tab.map[fd]].offset = off]

read(fd, count) ==
  \E luck \in BOOLEAN :
    /\ Through(fd, luck)
    /\ \E R \in {minixfs_read(open_fs(fs, <<>>, luck), FileAt(tab, fd).path, count,
                              FileAt(tab, fd).offset)} :
         Advance(fd, R.off) /\ Outcome(R)
    /\ UNCHANGED <<disk, stream, shared>>

write(fd, buf) ==
  \E luck \in BOOLEAN, order \in Orders :
    /\ Through(fd, luck)
    /\ LET off == FileAt(tab, fd).offset
       IN \E R \in {minixfs_write(open_fs(fs, order, luck), FileAt(tab, fd).path, buf, off)} :
            /\ Recorded(R, {R.ino}, off, buf, R.ret = Len(buf))
            /\ Advance(fd, R.off) /\ Outcome(R)
    /\ UNCHANGED <<stream, shared>>

close(fd) ==
  /\ Through(fd, TRUE)
  /\ tab' = CloseFile(tab, fd)
  /\ UNCHANGED <<disk, stream, status, shared>>

\* SEEK_SET; SEEK_CUR and SEEK_END reach the same offsets.
lseek(fd, off) ==
  /\ Through(fd, TRUE)
  /\ Advance(fd, off)
  /\ UNCHANGED <<disk, stream, status, shared>>

\* A freed fakefile, followed: the command dies.
UseAfterFree(fd) ==
  /\ Through(fd, TRUE) /\ Freed(tab, fd)
  /\ status' = "down"
  /\ UNCHANGED <<disk, tab, stream, shared>>

\* The count of the shared fakefile is not raised.
dup(fd) ==
  LET new == orig_open(tab)
  IN /\ Through(fd, TRUE)
     /\ tab' = IF new > 0 THEN [tab EXCEPT !.map[new] = tab.map[fd], !.busy = @ \cup {new}] ELSE tab
     /\ shared' = shared \cup {tab.map[fd]}
     /\ UNCHANGED <<disk, stream, status>>

dup2(fd, new) ==
  /\ Through(fd, TRUE) /\ new \in Fds
  /\ tab' = [tab EXCEPT !.map[new] = tab.map[fd], !.busy = @ \cup {new}]
  /\ shared' = shared \cup {tab.map[fd]}
  /\ UNCHANGED <<disk, stream, status>>

---------------------------------------------------------------------------
\* open() as the wrappers of the other calls use it: when it fails the
\* descriptor is -1, and -1 may be a key of fd_map.
OpenedFd(R) == IF R.ret >= 0 THEN orig_open(tab) ELSE -1
OpenedTable(R, path) == IF R.ret >= 0 THEN OpenFile(tab, path) ELSE tab

\* open(), a call on the path of what it returned, close().
OpenCallClose(path, Call(_, _)) ==
  /\ Running("fakefs")
  /\ \E luck \in BOOLEAN : \E R \in {minixfs_open(open_fs(fs, <<>>, luck), path, FALSE)} :
       LET fd == OpenedFd(R)
           T == OpenedTable(R, path)
       IN \E S \in {IF Mapped(T, fd) THEN Call(R.fs, FileAt(T, fd).path) ELSE R} :
            /\ Done(S)
            /\ tab' = IF Mapped(T, fd) THEN CloseFile(T, fd) ELSE T
  /\ UNCHANGED <<stream, shared>>

chmod(path, perm) == OpenCallClose(path, LAMBDA F, p : minixfs_chmod(F, p, perm))
lchown(path, owner) == OpenCallClose(path, LAMBDA F, p : minixfs_chown(F, p, owner))
stat(path) == OpenCallClose(path, LAMBDA F, p : minixfs_stat(F, p))

---------------------------------------------------------------------------
\* A DIR holds the entries as they were when it was opened.
opendir(path) ==
  /\ Running("fakefs") /\ stream = <<>>
  /\ \E luck \in BOOLEAN : \E R \in {minixfs_open(open_fs(fs, <<>>, luck), path, FALSE)} :
       LET fd == OpenedFd(R)
           T == OpenedTable(R, path)
       IN \E D \in {IF Mapped(T, fd) THEN minixfs_readdir(R.fs, FileAt(T, fd).path) ELSE R} :
            /\ tab' = T
            /\ Outcome(D)
            /\ stream' = IF Mapped(T, fd) /\ D.ret >= 0
                         THEN << [fd |-> fd, left |-> D.names] >> ELSE <<>>
  /\ UNCHANGED <<disk, shared>>

readdir ==
  /\ Running("fakefs") /\ stream # <<>> /\ stream[1].left # <<>>
  /\ stream' = [stream EXCEPT ![1].left = Tail(@)]
  /\ UNCHANGED <<disk, tab, status, shared>>

closedir ==
  /\ Running("fakefs") /\ stream # <<>>
  /\ tab' = CloseFile(tab, stream[1].fd)
  /\ stream' = <<>>
  /\ UNCHANGED <<disk, status, shared>>

---------------------------------------------------------------------------
\* cp.c, a command of its own: a cell at a time until the end of the source or
\* an error.  creat() does not empty the target.
Copying(F, ret, from, to, into, done) ==
  [fs |-> F, ret |-> ret, from |-> from, to |-> to, into |-> into, done |-> done]
CpPut(C, R, W) == Copying(W.fs, W.ret, R.off, W.off, C.into \cup {W.ino}, W.ret < 0)
CpGot(C, R, dst) ==
  IF R.ret <= 0 \/ R.fs.status = "down" THEN Copying(R.fs, R.ret, C.from, C.to, C.into, TRUE)
  ELSE CpPut(C, R, minixfs_write(R.fs, dst, R.cells, C.to))
CpTurn(src, dst, C) == IF C.done THEN C ELSE CpGot(C, minixfs_read(C.fs, src, 1, C.from), dst)

CpStart(dst, S, D) == Copying(D.fs, 1, 0, 0, {get_inode(D.fs, dst)},
                              S.ret < 0 \/ D.ret < 0 \/ D.fs.status = "down")
CpLoop(src, dst, C) ==
  LET turn[n \in 0 .. MaxFileSize + 1] == IF n = 0 THEN C ELSE CpTurn(src, dst, turn[n - 1])
  IN turn[MaxFileSize + 1]
CpOpened(src, dst, S, D) == CpLoop(src, dst, CpStart(dst, S, D))
CpFound(dst, S) == minixfs_open(S.fs, dst, TRUE)
CpRun(F, src, dst) ==
  LET S == minixfs_open(F, src, FALSE) IN CpOpened(src, dst, S, CpFound(dst, S))

\* What a copy puts into its target is what its source was told to hold; of a
\* directory nothing is said, it may get the entry of the target first.
cp(src, dst) ==
  /\ Running("fakefs")
  /\ \E luck \in BOOLEAN, order \in Orders :
       \E F \in {open_fs(fs, order, luck)} : \E C \in {CpRun(F, src, dst)} :
         LET i == get_inode(F, src)
             into == IF Disk(C.fs) = fs THEN {} ELSE C.into
             told_ == IF src = Info THEN <<Entry("info", 0)>> ELSE IF i < 0 THEN <<>> ELSE told[i]
             known == src = Info \/ (i \in whole /\ ~is_directory(fs.inode[i]))
         IN /\ Recorded(C, into, 0, told_, C.ret = 0 /\ known /\ Cardinality(C.into) = 1)
            /\ status' = IF C.fs.status = "ruined" THEN "ruined" ELSE "up"
  /\ UNCHANGED <<tab, stream, shared>>

\* fakefs runs a command: a process of its own, with nothing open.
Exec == status' = "up" /\ tab' = NoTable /\ stream' = <<>> /\ shared' = {}

\* The command ends, fs_fini() closes what is open, and another one starts; so
\* it does after a command that died: what it did is in the image.
Restart ==
  /\ driver = "fakefs" /\ status \in {"up", "down"}
  /\ calls < MaxCalls[driver] /\ calls' = calls + 1
  /\ Exec
  /\ UNCHANGED <<driver, disk>>

---------------------------------------------------------------------------
\* A disk made by mkfs whose root was given blocks with minixfs_min_blockcount.
\* Nothing in the sources does that; a disk whose root has no block cannot hold
\* a file.
Image(count, order) == minixfs_min_blockcount(open_fs(minixfs_mkfs, order, TRUE), <<>>, count)

InitWith(image) ==
  /\ fs = image
  /\ driver \in {"library", "fakefs"}
  /\ tab = NoTable /\ stream = <<>> /\ status = "up" /\ shared = {}
  /\ calls = 0
  /\ told = [i \in Inodes |-> <<>>]
  /\ whole = Inodes \ {Root}
  /\ untidy = {}

Init == \E order \in Orders : InitWith(Disk(Image(1, order).fs))

Next ==
  \/ \E path \in Paths, buf \in Buffers, off \in Offsets : minixfs_write_at(path, buf, off)
  \/ \E pair \in Grown : min_blockcount(pair[1], pair[2])
  \/ \E path \in Paths : unlink("library", path)
  \/ \E path \in Dirs, perm \in Perms, who \in {"library", "fakefs"} : mkdir(who, path, perm)
  \/ \E path \in FakePaths : \/ \E creates \in BOOLEAN : open(path, creates)
                             \/ unlink("fakefs", path)
  \/ \E path \in Names : \/ stat(path) \/ opendir(path)
                         \/ \E perm \in Perms : access(path, perm) \/ chmod(path, perm)
                         \/ \E owner \in Owners : lchown(path, owner)
  \/ \E fd \in Keys : \/ \E count \in FakeCounts : read(fd, count)
                      \/ \E buf \in FakeBuffers : write(fd, buf)
                      \/ \E off \in FakeOffsets : lseek(fd, off)
                      \/ \E new \in Fds : dup2(fd, new)
                      \/ close(fd) \/ dup(fd) \/ UseAfterFree(fd)
  \/ \E pair \in Copies : cp(pair[1], pair[2])
  \/ readdir \/ closedir \/ Restart

Spec == Init /\ [][Next]_vars
=============================================================================
