------------------------------- MODULE MinixFS -------------------------------
(***************************************************************************)
(* The Minix-like file system of finding_filesystems: minixfs.c,           *)
(* minixfs_utils.c and minixfs_provided.c as operators on a disk.          *)
(*                                                                         *)
(* A disk is a record [inode, used, data].  The unit of size is a cell of  *)
(* FILE_NAME_ENTRY (256) bytes, one directory entry.  An operator takes a  *)
(* mounted disk F, which also has the order in which rand() comes upon the *)
(* blocks, whether a pointer that was never set happens to be harmless     *)
(* (luck), and what the call has done (see open_fs): untidy and status.  *)
(* It returns a record: fs, the disk after it; ret, its value; off, the    *)
(* new *off.                                                               *)
(***************************************************************************)
EXTENDS Integers, FiniteSets, SequencesExt

CONSTANTS NumBlocks,   \* DATA_NUMBER, less than 256
          MaxInodes,   \* INODES_NUMBER
          NumDirect,   \* NUM_DIRECT_BLOCKS
          NumIndirect, \* NUM_INDIRECT_BLOCKS
          BlockSize    \* cells in a data block

ASSUME DiskAssumption ==
  /\ NumBlocks \in 1 .. 255
  /\ {MaxInodes, NumDirect, BlockSize} \subseteq Nat \ {0}
  /\ NumIndirect \in Nat /\ NumIndirect >= NumDirect

Blocks == 0 .. NumBlocks - 1
Unassigned == -1  \* UNASSIGNED_NODE: data_root[-1] is the tail of the inode
                  \* table, which no run here fills
Null == -2        \* an address that is not mapped
Inodes == 0 .. MaxInodes - 1
Root == 0
NoInode == -1  \* NULL
Wild == -2     \* a lookup that follows a pointer nobody has set
MaxFileSize == (NumDirect + NumDirect) * BlockSize
Slots == 0 .. NumDirect - 1
Least(S) == CHOOSE n \in S : \A m \in S : n <= m
Greatest(S) == CHOOSE n \in S : \A m \in S : n >= m

---------------------------------------------------------------------------
\* Modes: the set of bits of a uint16_t.
RWX == 0 .. 8
TypeOf(mode) == {b - 9 : b \in mode \ RWX}
TYPE_FILE == {0}
TYPE_DIRECTORY == {1}
Typed(type) == {b + 9 : b \in type}

\* An inode: sizes are in cells, times are left out.
Inode == [mode : SUBSET (0 .. 15), uid : Nat, nlink : Nat, size : Int,
          direct : [Slots -> Blocks \cup {Unassigned}], indirect : Blocks \cup {Unassigned}]
is_file(node) == TypeOf(node.mode) = TYPE_FILE
is_directory(node) == TypeOf(node.mode) = TYPE_DIRECTORY

---------------------------------------------------------------------------
\* What a call does to the status of the process: nothing is said of a disk
\* that was ruined.
Ruined(F) == [F EXCEPT !.status = "ruined"]
RuinedIf(F, misused) == IF misused THEN Ruined(F) ELSE F
Crashed(F) == IF F.status = "up" THEN [F EXCEPT !.status = "down"] ELSE F

---------------------------------------------------------------------------
\* Cells.  An entry is a name and the number of an inode; in any other content
\* the eight bytes of the number read as zero.  (The names this module writes
\* are listed because a prover does not know them to be strings.)
Name == STRING \cup {"", "numbers", "cut", "info"}
Cell == [name : Name, ino : Inodes]
Entry(name, i) == [name |-> name, ino |-> i]
Zero == Entry("", 0)
IsEntry(cell) == cell.ino # 0

\* A block is seen as cells or, cast, as a table of block numbers.
Cells(at) == [as |-> "cells", at |-> at]
Table(at) == [as |-> "table", at |-> at]
ZeroBlock == Cells([j \in 0 .. BlockSize - 1 |-> Zero])
CellsOf(F, b) == IF b = Null THEN [j \in 0 .. BlockSize - 1 |-> Entry("", Wild)]
                 ELSE IF F.data[b].as = "cells" THEN F.data[b].at
                 ELSE [j \in 0 .. BlockSize - 1 |-> Entry("numbers", 0)]
Poke(F, b, new) ==
  [F EXCEPT !.data[b] = Cells([j \in 0 .. BlockSize - 1 |->
                                 IF j \in DOMAIN new THEN new[j] ELSE CellsOf(F, b)[j]])]

\* The n-th number of the table in block b.  Eleven numbers fit in one cell.
Number(F, b, n) ==
  IF F.data[b].as = "table" THEN F.data[b].at[n]
  ELSE IF F.data[b].at[0] = Zero THEN 0 ELSE Null

\* The places of an inode that name a block: its direct numbers, the one of its
\* table, the numbers in the table.
Place == 0 .. NumDirect + NumIndirect
NamedAt(F, i, p) ==
  LET node == F.inode[i]
  IN IF p < NumDirect THEN node.direct[p]
     ELSE IF p = NumDirect \/ node.indirect = Unassigned THEN node.indirect
     ELSE Number(F, node.indirect, p - NumDirect - 1)

\* sprintf("%08zx") ends an entry with a zero in the first byte of the next
\* cell, which may be in the next block or, after the last block, in the map of
\* used ones.  A name that begins with it is no name, a number loses its low byte.
CutCell(cell) == IF cell.name = "" THEN cell ELSE [cell EXCEPT !.name = "cut"]
CutNumber(n) == IF n = Unassigned THEN Null ELSE 0
ZeroByte(F, b, at) ==
  IF b = NumBlocks THEN [F EXCEPT !.used = @ \ {0}]
  ELSE IF F.data[b].as = "table" THEN [F EXCEPT !.data[b].at[0] = CutNumber(@)]
  ELSE Poke(F, b, [j \in {at} |-> CutCell(CellsOf(F, b)[j])])
RunOver(F, G, next) ==
  IF F.used # G.used \/ (next \in F.used /\ F.data # G.data) THEN Ruined(G) ELSE G
PutEntry(F, b, at, entry) ==
  LET G == Poke(F, b, [j \in {at} |-> entry])
  IN IF at + 1 < BlockSize THEN ZeroByte(G, b, at + 1)
     ELSE RunOver(G, ZeroByte(G, b + 1, 0), b + 1)

---------------------------------------------------------------------------
\* Allocation.  An inode without a link is free; first_unused_inode() never looks
\* at the root's.
Live(F, i) == F.inode[i].nlink > 0
first_unused_inode(F) ==
  LET free == {i \in Inodes \ {Root} : ~Live(F, i)}
  IN IF free = {} THEN NoInode ELSE Least(free)

\* first_unused_data() tosses a coin at each free block.
first_unused_data(F) ==
  LET free == {k \in DOMAIN F.order : F.order[k] \notin F.used}
  IN IF free = {} THEN Unassigned ELSE F.order[Least(free)]
Use(F, b) == [F EXCEPT !.used = @ \cup {b}]
Free(F, bs) == [F EXCEPT !.used = @ \ bs]

\* An adder returns the disk and the block, Unassigned when there is none.
Added(F, b) == [fs |-> F, block |-> b]

add_data_block_to_inode(F, i) ==
  LET free == {k \in Slots : F.inode[i].direct[k] = Unassigned}
      b == first_unused_data(F)
  IN IF free = {} THEN Added(F, 0)
     ELSE IF b = Unassigned THEN Added(F, Unassigned)
     ELSE Added([Use(F, b) EXCEPT !.inode[i].direct[Least(free)] = b], b)

add_data_block_to_indirect_block(F, t) ==
  LET free == {n \in 0 .. NumIndirect - 1 : Number(F, t, n) = Unassigned}
      b == first_unused_data(F)
  IN IF free = {} THEN Added(F, 0)
     ELSE IF b = Unassigned THEN Added(F, Unassigned)
     ELSE Added([Use(F, b) EXCEPT !.data[t].at[Least(free)] = b], b)

add_single_indirect_block(F, i) ==
  LET b == first_unused_data(F)
  IN IF F.inode[i].indirect # Unassigned THEN Added(F, F.inode[i].indirect)
     ELSE IF b = Unassigned THEN Added(F, Unassigned)
     ELSE Added([Use(F, b) EXCEPT !.inode[i].indirect = b, !.inode[i].nlink = 1,
                                  !.data[b] = Table([n \in 0 .. NumIndirect - 1 |-> Unassigned])],
                b)

\* Mutation: the indirect block itself is kept.
free_inode_KeepsIndirect(F, i) ==
  LET node == F.inode[i]
      t == node.indirect
  IN Free([F EXCEPT !.inode[i].nlink = 0],
          {node.direct[k] : k \in Slots}
            \cup IF t = Unassigned THEN {} ELSE {Number(F, t, n) : n \in Slots})
\* Only the first NUM_DIRECT_BLOCKS numbers of the indirect block are freed.
free_inode(F, i) ==
  LET node == F.inode[i]
      t == node.indirect
      indirect == IF t = Unassigned THEN {} ELSE {t} \cup {Number(F, t, n) : n \in Slots}
  IN Free([F EXCEPT !.inode[i].nlink = 0], {node.direct[k] : k \in Slots} \cup indirect)

---------------------------------------------------------------------------
\* Directories.  The k-th block of a directory: its direct blocks, then the
\* numbers of a table, read again from the start when NUM_DIRECT_BLOCKS of
\* them are used up.
BlockOf(F, node, table, k) ==
  IF k < NumDirect THEN node.direct[k] ELSE Number(F, table, k % NumDirect)

\* How many cells a walk over the entries sees.
Seen(node, table, stopAt) ==
  LET limits == {node.size}
                \cup {k * BlockSize : k \in stopAt}
                \cup (IF table = Unassigned THEN {NumDirect * BlockSize} ELSE {})
  IN Least(limits)

\* make_dirent_from_string() leaves its result as it was when the number is
\* zero: the walk goes on with the entry before it (none: <<>>).
Walk(F, node, table, n) ==
  LET cell(j) == CellsOf(F, BlockOf(F, node, table, j \div BlockSize))[j % BlockSize]
      last(j) == {i \in 0 .. j : IsEntry(cell(i))}
  IN [j \in 1 .. n |-> IF last(j - 1) = {} THEN <<>>
                        ELSE << cell(Greatest(last(j - 1))) >>]

First(seen, Hit(_)) ==
  LET hits == {j \in DOMAIN seen : seen[j] # <<>> /\ Hit(seen[j][1])}
  IN IF hits = {} THEN 0 ELSE Least(hits)
Missing(seen) == \E j \in DOMAIN seen : seen[j] = <<>>
Faults(seen) == \E j \in DOMAIN seen : seen[j] # <<>> /\ seen[j][1].ino = Wild

NamedIn(F, seen, name) ==
  LET j == First(seen, LAMBDA entry : entry.name = name \/ entry.ino = Wild)
  IN IF ~F.luck /\ Missing(seen) THEN Wild ELSE IF j = 0 THEN NoInode ELSE seen[j][1].ino
find_inode_named(F, d, name) ==
  LET node == F.inode[d]
      unassigned == {k \in Slots : node.direct[k] = Unassigned}
  IN NamedIn(F, Walk(F, node, node.indirect, Seen(node, node.indirect, unassigned)), name)

\* A path is the sequence of its names.  The inode that the first k of them lead
\* to, k by k.
Descend(F, i, name) ==
  IF i < 0 THEN i
  ELSE IF ~is_directory(F.inode[i]) THEN NoInode ELSE find_inode_named(F, i, name)
Reached(F, path) ==
  LET at[k \in 0 .. Len(path)] == IF k = 0 THEN Root ELSE Descend(F, at[k - 1], path[k]) IN at
get_inode(F, path) == Reached(F, path)[Len(path)]
parent_directory(F, path) == IF path = <<>> THEN Root ELSE Reached(F, path)[Len(path) - 1]

---------------------------------------------------------------------------
\* Results.
Result(F, ret, off) == [fs |-> F, ret |-> ret, off |-> off]
Fail(F) == Result(F, -1, 0)
Crash(F) == Fail(Crashed(F))
At(F, i, Found(_), missing) ==
  IF i = Wild THEN Crash(F) ELSE IF i = NoInode THEN missing ELSE Found(i)
Find(F, path, Found(_), missing) == At(F, get_inode(F, path), Found, missing)

---------------------------------------------------------------------------
\* Mutation: the new inode is counted as a link to its directory.
init_inode_LinksParent(F, p, i) ==
  [F EXCEPT !.inode[i] = [mode |-> Typed(TYPE_FILE) \cup (F.inode[p].mode \cap RWX),
                          uid |-> F.inode[p].uid, nlink |-> F.inode[p].nlink + 1, size |-> 0,
                          direct |-> [k \in Slots |-> Unassigned],
                          indirect |-> Unassigned]]
init_inode(F, p, i) ==
  [F EXCEPT !.inode[i] = [mode |-> Typed(TYPE_FILE) \cup (F.inode[p].mode \cap RWX),
                          uid |-> F.inode[p].uid, nlink |-> 1, size |-> 0,
                          direct |-> [k \in Slots |-> Unassigned],
                          indirect |-> Unassigned]]

\* get_offset_char: direct[NUM_DIRECT_BLOCKS] is the field after it.
EntryBlock(node, k) == IF k < NumDirect THEN node.direct[k] ELSE node.indirect

\* The parent may be a file and its block unassigned; first_unused_inode's -1
\* is not tested, and inode_root[-1] lies before the mapping.
Fits(parent) == parent.size < BlockSize /\ parent.direct[0] # Unassigned
Untidy(F, is) == [F EXCEPT !.untidy = @ \cup is]
CreateIn(F, p, name) ==
  LET i == first_unused_inode(F)
      parent == F.inode[p]
      k == parent.size \div BlockSize
      G == PutEntry(init_inode(F, p, i), EntryBlock(parent, k), parent.size % BlockSize,
                    Entry(name, i))
      H == [G EXCEPT !.inode[p].size = @ + 1]
  IN IF i = NoInode \/ k \notin 0 .. NumDirect THEN Crash(F)
     ELSE Result(RuinedIf(Untidy(H, IF Fits(parent) THEN {} ELSE {p}), ~is_directory(parent)),
                 i, 0)
minixfs_create_inode_for_path(F, path) ==
  Find(F, path, LAMBDA i : Fail(F),
       At(F, parent_directory(F, path), LAMBDA p : CreateIn(F, p, Last(path)), Fail(F)))

\* chmod shifts the permissions over the type; the mask keeps two bits.
Chmod(F, i, perm) ==
  LET G == [F EXCEPT !.inode[i].mode = {b + 2 : b \in perm} \cup (@ \cap {0, 1})]
  IN Untidy(G, IF is_directory(G.inode[i]) = is_directory(F.inode[i]) THEN {} ELSE {i})
minixfs_chmod(F, path, perm) ==
  Find(F, path, LAMBDA i : Result(Chmod(F, i, perm), 0, 0), Fail(F))

minixfs_chown(F, path, owner) ==
  Find(F, path, LAMBDA i : Result([F EXCEPT !.inode[i].uid = owner], 0, 0), Fail(F))

Directory(R, perm) ==
  IF R.ret = -1 THEN R
  ELSE Result([R.fs EXCEPT !.inode[R.ret].mode =
                 Typed(TYPE_DIRECTORY) \cup (@ \cap RWX) \cup perm], 0, 0)
minixfs_mkdir(F, path, perm) == Directory(minixfs_create_inode_for_path(F, path), perm)

---------------------------------------------------------------------------
\* Virtual paths: /virtual and what is below it.
is_virtual_path(path) == path # <<>> /\ Head(path) = "virtual"
Info == <<"virtual", "info">>

\* The read loop over one string, which is shorter than a cell, whatever the
\* count asked for; past its end the length to copy is negative.
Read(R, cells) == [fs |-> R.fs, ret |-> R.ret, off |-> R.off, cells |-> cells]
minixfs_virtual_read(F, path, off) ==
  IF path # Info THEN Read(Fail(F), <<>>)
  ELSE IF off > 1 THEN Read(Crash(F), <<>>)
  ELSE Read(Result(F, 1 - off, 1), IF off = 0 THEN <<Entry("info", 0)>> ELSE <<>>)

\* An unknown virtual path opens with 1, which is not an error.
minixfs_open(F, path, creates) ==
  IF is_virtual_path(path)
  THEN Result(F, IF path \in {<<"virtual">>, Info} THEN 0 ELSE 1, 0)
  ELSE Find(F, path, LAMBDA i : Result(F, 0, 0),
            IF ~creates THEN Fail(F)
            ELSE LET R == minixfs_create_inode_for_path(F, path)
                 IN Result(R.fs, IF R.ret = -1 THEN -1 ELSE 0, 0))

\* R_OK, W_OK and X_OK ask for the owner's bits.
minixfs_access(F, path, asked) ==
  Find(F, path, LAMBDA i : Result(F, IF asked \subseteq F.inode[i].mode THEN 0 ELSE -1, 0),
       Fail(F))

---------------------------------------------------------------------------
\* The block that a write to the k-th block of inode i goes to: a new one goes
\* to the first free slot, whatever k is, and is not cleared.
BlockToWrite(F, i, k) ==
  LET A == add_single_indirect_block(F, i)
      b == Number(A.fs, A.block, k - NumDirect)
  IN IF k < NumDirect /\ F.inode[i].direct[k] = Unassigned THEN add_data_block_to_inode(F, i)
     ELSE IF k < NumDirect THEN Added(F, F.inode[i].direct[k])
     ELSE IF A.block = Unassigned THEN A
     ELSE IF b = Unassigned THEN add_data_block_to_indirect_block(A.fs, A.block)
     ELSE Added(A.fs, b)

\* Mutation: the buffer is not advanced when the next block is begun.
WriteBlock_SameBuffer(i, buf, start, W) ==
  LET at == W.off % BlockSize
      left == start + Len(buf) - W.off
      n == IF at + left > BlockSize THEN BlockSize - at ELSE left
      A == BlockToWrite(W.fs, i, W.off \div BlockSize)
  IN IF W.ret = -1 \/ left = 0 THEN W
     ELSE IF A.block = Unassigned THEN Result(A.fs, -1, W.off)
     ELSE Result(Poke(A.fs, A.block, [j \in at .. at + n - 1 |-> buf[j - at + 1]]),
                 W.ret + n, W.off + n)
\* One turn of the write loop: as much as fits in the block at *off.
WriteBlock(i, buf, start, W) ==
  LET at == W.off % BlockSize
      left == start + Len(buf) - W.off
      n == IF at + left > BlockSize THEN BlockSize - at ELSE left
      A == BlockToWrite(W.fs, i, W.off \div BlockSize)
  IN IF W.ret = -1 \/ left = 0 THEN W
     ELSE IF A.block = Unassigned THEN Result(A.fs, -1, W.off)
     ELSE IF A.block = Null THEN Crash(A.fs)
     ELSE Result(Poke(A.fs, A.block, [j \in at .. at + n - 1 |-> buf[W.off + j - at - start + 1]]),
                 W.ret + n, W.off + n)
WriteLoop(F, i, buf, off) ==
  LET turn[n \in 0 .. 2 * NumDirect] ==
        IF n = 0 THEN Result(F, 0, off) ELSE WriteBlock(i, buf, off, turn[n - 1])
  IN turn

\* The size is raised before the file has the blocks.  A directory must not be
\* written to like a file.  ino names the inode written to, for the history.
Wrote(R, i) == [fs |-> R.fs, ret |-> R.ret, off |-> R.off, ino |-> i]
Raise(F, i, end) == IF end > F.inode[i].size THEN [F EXCEPT !.inode[i].size = end] ELSE F
WriteInode(F, i, buf, off) ==
  IF off + Len(buf) > MaxFileSize THEN Wrote(Result(F, -1, off), NoInode)
  ELSE LET G == RuinedIf(Raise(F, i, off + Len(buf)), is_directory(F.inode[i]))
       IN Wrote(WriteLoop(G, i, buf, off)[2 * NumDirect], i)

\* A missing file is created before the limit is tested; that it could not be
\* created is not tested.
WriteMade(F, made, buf, off) ==
  IF made.ret # -1 THEN WriteInode(made.fs, made.ret, buf, off)
  ELSE IF off + Len(buf) > MaxFileSize /\ made.fs.status # "down"
       THEN Wrote(Result(F, -1, off), NoInode)
  ELSE Wrote(Crash(F), NoInode)
minixfs_write(F, path, buf, off) ==
  LET i == get_inode(F, path)
  IN IF i = Wild THEN Wrote(Crash(F), NoInode)
     ELSE IF i # NoInode THEN WriteInode(F, i, buf, off)
     ELSE WriteMade(F, minixfs_create_inode_for_path(F, path), buf, off)

\* A direct block is followed without a look at whether it is assigned, the
\* table of a file without one is sought in data_root[-1].
BlockToRead(F, i, k) ==
  LET node == F.inode[i]
      b == Number(F, node.indirect, k - NumDirect)
  IN IF k < NumDirect THEN node.direct[k]
     ELSE IF b = Unassigned THEN Null ELSE b

\* The cells read come back in cells.
ReadInode(F, i, count, off) ==
  LET size == F.inode[i].size
      n == IF off >= size THEN 0 ELSE IF off + count > size THEN size - off ELSE count
      block(j) == BlockToRead(F, i, (off + j - 1) \div BlockSize)
  IN IF \E j \in 1 .. n : block(j) = Null THEN Read(Crash(F), <<>>)
     ELSE Read(Result(F, n, off + n),
               [j \in 1 .. n |-> CellsOf(F, block(j))[(off + j - 1) % BlockSize]])
\* Mutation: that the file may have been removed since it was opened is not tested.
minixfs_read_NotTested(F, path, count, off) ==
  LET i == get_inode(F, path)
  IN IF is_virtual_path(path) THEN minixfs_virtual_read(F, path, off)
     ELSE IF i < 0 THEN Read(Crash(F), <<>>) ELSE ReadInode(F, i, count, off)
minixfs_read(F, path, count, off) ==
  LET i == get_inode(F, path)
  IN IF is_virtual_path(path) THEN minixfs_virtual_read(F, path, off)
     ELSE IF i = Wild THEN Read(Crash(F), <<>>)
     ELSE IF i = NoInode THEN Read(Result(F, -1, off), <<>>)
     ELSE ReadInode(F, i, count, off)

---------------------------------------------------------------------------
\* Mutation: the entry after the one removed stays in its place.
MoveUp_FromNext(F, b, at) ==
  Poke(F, b, [j \in at + 1 .. BlockSize - 2 |-> CellsOf(F, b)[j + 1]])
\* The entries of one block move up by one; the last one stays where it is.
MoveUp(F, b, at) ==
  Poke(F, b, [j \in at .. BlockSize - 2 |-> CellsOf(F, b)[j + 1]])

\* The link count is not counted down and a directory need not be empty.  The
\* parent's entries beyond its direct blocks are sought in the table of the
\* file that is removed.  A root that is unlinked goes on using its blocks.
Unlink(F, p, i) ==
  LET parent == F.inode[p]
      table == F.inode[i].indirect
      seen == Walk(F, parent, table, Seen(parent, table, {}))
      hit == First(seen, LAMBDA entry : entry.ino \in {i, Wild})
      j == hit - 1
      G == IF j < 0 THEN F
           ELSE MoveUp(F, BlockOf(F, parent, table, j \div BlockSize), j % BlockSize)
      H == [G EXCEPT !.inode[p].size = @ - 1]
  IN IF hit > 0 /\ seen[hit][1].ino = Wild THEN Crash(F)
     ELSE Result(RuinedIf(free_inode(H, i), i = Root), 0, 0)
minixfs_unlink(F, path) ==
  LET p == parent_directory(F, path)
  IN Find(F, path, LAMBDA i : IF p < 0 THEN Crash(F) ELSE Unlink(F, p, i), Fail(F))

\* The names in a directory, "virtual" first in the root.
Listed(R, names) == [fs |-> R.fs, ret |-> R.ret, off |-> R.off, names |-> names]
Listing(F, path, seen) ==
  IF (~F.luck /\ Missing(seen)) \/ Faults(seen) THEN Listed(Crash(F), <<>>)
  ELSE Listed(Result(F, Len(seen), 0),
              (IF path = <<>> THEN <<Entry("virtual", 0)>> ELSE <<>>)
              \o [j \in DOMAIN seen |-> IF seen[j] = <<>> THEN Entry("stale", 0) ELSE seen[j][1]])
minixfs_readdir(F, path) ==
  LET i == get_inode(F, path)
      node == F.inode[i]
  IN IF path = <<"virtual">> THEN Listed(Result(F, 1, 0), <<Entry("info", 0)>>)
     ELSE IF i = Wild /\ ~is_virtual_path(path) THEN Listed(Crash(F), <<>>)
     ELSE IF i = NoInode \/ is_virtual_path(path) \/ is_file(node) THEN Listed(Fail(F), <<>>)
     ELSE Listing(F, path, Walk(F, node, node.indirect, Seen(node, node.indirect, {})))

\* What stat() shows; the number of blocks is computed from the size.
Shown(R, shown) == [fs |-> R.fs, ret |-> R.ret, off |-> R.off, stat |-> shown]
minixfs_stat(F, path) ==
  LET i == get_inode(F, path)
      node == F.inode[i]
      found == [ino |-> i, size |-> node.size, nlink |-> node.nlink, uid |-> node.uid,
                blocks |-> (node.size + BlockSize - 1) \div BlockSize,
                perm |-> node.mode \cap RWX, dir |-> is_directory(node)]
      virtual == [ino |-> Root, size |-> 0, nlink |-> 0, uid |-> 0, blocks |-> 0,
                  perm |-> RWX, dir |-> path = <<"virtual">>]
  IN IF is_virtual_path(path)
     THEN Shown(Result(F, IF path \in {<<"virtual">>, Info} THEN 0 ELSE 1, 0), virtual)
     ELSE IF i = Wild THEN Shown(Crash(F), virtual)
     ELSE IF i = NoInode THEN Shown(Fail(F), virtual) ELSE Shown(Result(F, 0, 0), found)

\* At least count blocks for a file, cleared as they are added.  The loop stops
\* at the first block that cannot be had.
Cleared(A) == IF A.block = Unassigned THEN A ELSE [A EXCEPT !.fs.data[A.block] = ZeroBlock]
GrowDirect(A, i, k) ==
  IF A.block = Unassigned \/ A.fs.inode[i].direct[k] # Unassigned THEN A
  ELSE Cleared(add_data_block_to_inode(A.fs, i))
GrowTable(A, t, n) ==
  IF A.block = Unassigned \/ Number(A.fs, t, n) # Unassigned THEN A
  ELSE Cleared(add_data_block_to_indirect_block(A.fs, t))
DirectLoop(F, i, count) ==
  LET turn[k \in 0 .. count] == IF k = 0 THEN Added(F, 0) ELSE GrowDirect(turn[k - 1], i, k - 1)
  IN turn[count]
TableLoop(F, t, count) ==
  LET turn[n \in 0 .. count] == IF n = 0 THEN Added(F, t) ELSE GrowTable(turn[n - 1], t, n - 1)
  IN turn[count]
Grow(F, i, count) ==
  LET D == DirectLoop(F, i, IF count < NumDirect THEN count ELSE NumDirect)
      S == add_single_indirect_block(D.fs, i)
  IN IF D.block = Unassigned \/ count < NumDirect THEN D
     ELSE IF S.block = Unassigned THEN S
     ELSE TableLoop(S.fs, S.block, count - NumDirect)
MinBlocks(F, i, count) ==
  LET A == Grow(F, i, count) IN Result(A.fs, IF A.block = Unassigned THEN -1 ELSE 0, 0)

minixfs_min_blockcount(F, path, count) ==
  LET made == minixfs_create_inode_for_path(F, path)
  IN Find(F, path, LAMBDA i : MinBlocks(F, i, count),
          IF made.ret = -1 THEN made ELSE MinBlocks(made.fs, made.ret, count))

---------------------------------------------------------------------------
\* A new disk: a root directory without a block.
minixfs_mkfs ==
  [inode |-> [i \in Inodes |->
     [mode |-> IF i = Root THEN Typed(TYPE_DIRECTORY) \cup {8, 7, 6, 5, 3, 2, 0} ELSE {},
      uid |-> 0, nlink |-> IF i = Root THEN 1 ELSE 0, size |-> 0,
      direct |-> [k \in Slots |-> Unassigned], indirect |-> Unassigned]],
   used |-> {},
   data |-> [b \in Blocks \cup {Unassigned} |-> ZeroBlock]]

\* open_fs maps the image, what is done to it stays in the file.  untidy collects
\* the directories that get an entry beyond their first block, and the inodes
\* that chmod makes a directory or takes for one no more; status is "up" until
\* the process dies ("down") or the disk is "ruined": an entry was put into a
\* file or ran over into a block in use, a directory was written to like a
\* file, the root was removed.
open_fs(disk, order, luck) ==
  [inode |-> disk.inode, used |-> disk.used, data |-> disk.data,
   order |-> order, luck |-> luck, untidy |-> {}, status |-> "up"]
Disk(F) == [inode |-> F.inode, used |-> F.used, data |-> F.data]
=============================================================================
