--------------------------- MODULE FakeFSProperties ---------------------------
(***************************************************************************)
(* What holds of the disk whatever the commands do, and on which condition *)
(* it holds of a file or a directory.                                      *)
(***************************************************************************)
EXTENDS FakeFS

\* The types of the variables.
TypeOK ==
  /\ fs.used \subseteq Blocks
  /\ DOMAIN fs.inode = Inodes
  /\ \A i \in Inodes : fs.inode[i] \in Inode /\ fs.inode[i].nlink \in {0, 1}
  /\ DOMAIN fs.data = Blocks \cup {Unassigned}
  /\ tab.map \in [Keys -> Keys \cup {NoKey}] /\ tab.busy \subseteq Fds
  /\ \A k \in Keys : tab.files[k].refcount \in {0, 1}
  /\ status \in {"up", "down", "ruined"}
  /\ whole \subseteq Inodes /\ untidy \subseteq Inodes /\ shared \subseteq Keys

\* What is said below is said of a disk that nobody ruined and whose directories
\* have all fitted in their first block.  (Past that block minixfs_provided.c:210-230
\* repeats one entry and loses another: what a removed entry leaves is false then.)
Sound == status \in {"up", "down"} /\ untidy = {}

\* minixfs.c:164, minixfs_utils.c:57: no block has two owners, and the data map
\* marks exactly the blocks that have one: nothing is given out twice, nothing
\* leaks, through full disks, removals and reuse.
LiveInodes == {i \in Inodes : Live(fs, i)}
OneOwner ==
  \A i, j \in LiveInodes, p, q \in Place :
    NamedAt(fs, i, p) # Unassigned /\ NamedAt(fs, i, p) = NamedAt(fs, j, q) => i = j /\ p = q
NamedBlocks == {NamedAt(fs, i, p) : i \in LiveInodes, p \in Place} \ {Unassigned}
BlocksAccountedFor == Sound => OneOwner /\ fs.used = NamedBlocks

\* minixfs.c:164-326: a file written without a gap and without a failure holds
\* what was written to it, whatever happened to other files: no block of it is
\* cleared, shared or left with what a removed file held.
FilesHold ==
  \A i \in whole : Live(fs, i) =>
    /\ fs.inode[i].size = Len(told[i])
    /\ \A j \in 1 .. Len(told[i]) :
         LET b == BlockToRead(fs, i, (j - 1) \div BlockSize)
         IN b # Null /\ CellsOf(fs, b)[(j - 1) % BlockSize] = told[i][j]
ReadsBack == Sound => FilesHold

\* minixfs.c:73, minixfs_provided.c:192: a directory has one entry for each of
\* its files, and only those: distinct names of distinct live inodes, none of
\* which is in another directory.
EntriesExact ==
  Sound =>
    \A d \in Inodes : Live(fs, d) /\ is_directory(fs.inode[d]) =>
      LET entry(e, j) == CellsOf(fs, fs.inode[e].direct[0])[j]
          seen(e) == 0 .. fs.inode[e].size - 1
      IN /\ fs.inode[d].size <= BlockSize
         /\ \A j \in seen(d) : IsEntry(entry(d, j)) /\ Live(fs, entry(d, j).ino)
         /\ \A j, k \in seen(d) : j # k => entry(d, j).name # entry(d, k).name
         /\ \A e \in Inodes : Live(fs, e) /\ is_directory(fs.inode[e]) =>
              \A j \in seen(d), k \in seen(e) :
                entry(d, j).ino = entry(e, k).ino => d = e /\ j = k

\* core.c:115: a descriptor whose fakefile was never duplicated never outlives
\* it; a duplicated one may, as dup() does not count it.
DanglesOnlyWhenShared ==
  \A fd \in Keys : Mapped(tab, fd) /\ tab.map[fd] \notin shared => ~Freed(tab, fd)

\* minixfs.c:172, core.c:122: while the directories are tidy, a command is killed
\* only when the inode table is full, or it uses a duplicated descriptor, a path
\* whose directory is not there, the virtual directory, a file that is not whole
\* or one that chmod() made neither a file nor a directory.
Reason(path) ==
  \/ is_virtual_path(path)
  \/ parent_directory(open_fs(fs, <<>>, TRUE), path) < 0
  \/ LET i == get_inode(open_fs(fs, <<>>, TRUE), path) IN i >= 0 /\ i \notin whole
KilledForAReason ==
  [][status = "up" /\ status' = "down" /\ untidy = {} =>
       \/ \A i \in Inodes : Live(fs, i)
       \/ \E fd \in Keys : Mapped(tab, fd) /\ (Freed(tab, fd) \/ Reason(FileAt(tab, fd).path))
       \/ \E i \in Inodes : Live(fs, i) /\ ~is_file(fs.inode[i]) /\ ~is_directory(fs.inode[i])]_vars
=============================================================================
