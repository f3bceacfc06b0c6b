---------------------------- MODULE MinixFSProofs ----------------------------
(***************************************************************************)
(* TLAPS lemmas about the disk of minixfs, for any number of blocks and    *)
(* inodes and any size of a block: what each operation does to the owners  *)
(* of the blocks and to the entries of the directories.                    *)
(***************************************************************************)
EXTENDS MinixFS, WellFoundedInduction, TLAPS

Numbers == Blocks \cup {Unassigned, Null}
Content == [as : {"cells"}, at : [0 .. BlockSize - 1 -> Cell]]
           \cup [as : {"table"}, at : [0 .. NumIndirect - 1 -> Numbers]]
Node == {node \in Inode : node.nlink \in {0, 1} /\ node.size <= MaxFileSize}
Mounted == [inode : [Inodes -> Node], used : SUBSET Blocks,
            data : [Blocks \cup {Unassigned} -> Content],
            order : Seq(Blocks), luck : BOOLEAN, untidy : SUBSET Inodes,
            status : {"up", "down", "ruined"}]

------------------------------------------------------------------------------
(* Numbers.                                                                 *)

\* A set of naturals that is not empty has a least one.
LEMMA LeastIn ==
  ASSUME NEW S \in SUBSET Nat, S # {}
  PROVE  Least(S) \in S /\ \A m \in S : Least(S) <= m
<1> DEFINE R == OpToRel(<, Nat)
<1>1. \E n \in S : \A m \in S : ~ (<<m, n>> \in R)
  <2>1. IsWellFoundedOn(R, Nat)
    BY NatLessThanWellFounded
  <2> HIDE DEF R
  <2> QED
    BY <2>1, WFMin
<1>2. ASSUME NEW m \in Nat, NEW n \in Nat, ~ (<<m, n>> \in R)
      PROVE  n <= m
  BY <1>2 DEF OpToRel
<1>3. \E n \in S : \A m \in S : n <= m
  <2> HIDE DEF R
  <2> QED
    BY <1>1, <1>2
<1> QED
  BY <1>3 DEF Least

\* What is the least element of a set is what Least finds.
LEMMA LeastIs ==
  ASSUME NEW S \in SUBSET Int, NEW n \in S, \A m \in S : n <= m
  PROVE  Least(S) = n
<1>1. ASSUME NEW m \in S, \A k \in S : m <= k
      PROVE  m = n
  BY <1>1
<1> QED
  BY <1>1 DEF Least

\* And so for the greatest.
LEMMA GreatestIs ==
  ASSUME NEW S \in SUBSET Int, NEW n \in S, \A m \in S : n >= m
  PROVE  Greatest(S) = n
<1>1. ASSUME NEW m \in S, \A k \in S : m >= k
      PROVE  m = n
  BY <1>1
<1> QED
  BY <1>1 DEF Greatest

\* A loop of N turns that keeps a state good from one turn to the next: all
\* its states are good.
LEMMA AllTurns ==
  ASSUME NEW N \in Nat, NEW Good, 0 \in Good,
         \A n \in 1 .. N : n - 1 \in Good => n \in Good
  PROVE  \A n \in 0 .. N : n \in Good
<1> DEFINE Bad == {n \in 0 .. N : n \notin Good}
<1>1. SUFFICES ASSUME Bad # {} PROVE FALSE
  OBVIOUS
<1>2. PICK n \in Bad : \A m \in Bad : n <= m
  <2>1. Bad \in SUBSET Nat
    OBVIOUS
  <2> QED
    BY <1>1, <2>1, LeastIn
<1>3. n \in 1 .. N /\ n - 1 \in 0 .. N /\ ~ (n <= n - 1)
  BY <1>2
<1>4. n - 1 \notin Bad
  BY <1>2, <1>3
<1> QED
  BY <1>2, <1>3, <1>4

\* The constants.
LEMMA Sizes ==
  /\ NumBlocks \in Nat /\ NumBlocks >= 1 /\ MaxInodes \in Nat /\ MaxInodes >= 1
  /\ NumDirect \in Nat /\ NumDirect >= 1 /\ BlockSize \in Nat /\ BlockSize >= 1
  /\ NumIndirect \in Nat /\ NumIndirect >= NumDirect
BY DiskAssumption

\* Numbers of blocks and inodes that the operators use by name.
LEMMA Named ==
  /\ 0 \in Blocks /\ Root \in Inodes /\ Blocks \subseteq Int /\ Inodes \subseteq Int
  /\ Unassigned \notin Blocks /\ Null \notin Blocks /\ NoInode \notin Inodes /\ Wild \notin Inodes
  /\ NumBlocks \notin Blocks /\ Unassigned # Null /\ NoInode # Wild
BY Sizes DEF Blocks, Root, Inodes, Unassigned, Null, NoInode, Wild

\* The unit of a directory entry: the first block holds the first ones.
LEMMA InFirstBlock ==
  ASSUME NEW j \in 0 .. BlockSize - 1
  PROVE  j \div BlockSize = 0 /\ j % BlockSize = j
BY Sizes

\* Where a position in a file is.
LEMMA Position ==
  ASSUME NEW j \in Nat
  PROVE  /\ j \div BlockSize \in Nat /\ j % BlockSize \in 0 .. BlockSize - 1
         /\ j = (j \div BlockSize) * BlockSize + (j % BlockSize)
BY Sizes

\* And no other block, and no other cell of it, has that position.
LEMMA PositionIs ==
  ASSUME NEW k \in Nat, NEW r \in 0 .. BlockSize - 1, NEW j \in Nat, j = k * BlockSize + r
  PROVE  j \div BlockSize = k /\ j % BlockSize = r
<1>1. /\ j \div BlockSize \in Nat /\ j % BlockSize \in 0 .. BlockSize - 1
      /\ j = (j \div BlockSize) * BlockSize + (j % BlockSize)
  BY Position
<1>2. ASSUME NEW a \in Nat, NEW b \in Nat, NEW B \in Nat, NEW c \in 0 .. B - 1, NEW d \in 0 .. B - 1,
             a * B + c = b * B + d
      PROVE  ~ (a < b)
  <2>1. ASSUME a < b PROVE FALSE
    <3>1. PICK e \in Nat : b = a + 1 + e
      <4>1. b - a - 1 \in Nat /\ b = a + 1 + (b - a - 1)
        BY <2>1
      <4> QED
        BY <4>1
    <3>2. b * B = a * B + B + e * B /\ e * B \in Nat
      BY <3>1
    <3>3. a * B \in Nat
      OBVIOUS
    <3> DEFINE x == a * B
               y == e * B
    <3>4. x + c = x + B + y + d /\ x \in Nat /\ y \in Nat
      BY <1>2, <3>2, <3>3
    <3> HIDE DEF x, y
    <3> QED
      BY <3>4
  <2> QED
    BY <2>1
<1> DEFINE q == j \div BlockSize
           m == j % BlockSize
<1>3. q \in Nat /\ m \in 0 .. BlockSize - 1 /\ q * BlockSize + m = k * BlockSize + r
  BY <1>1
<1> HIDE DEF q, m
<1>4. q = k
  <2>1. ~ (q < k) /\ ~ (k < q)
    BY <1>2, <1>3, Sizes
  <2> QED
    BY <1>3, <2>1
<1>5. m = r
  <2> DEFINE x == k * BlockSize
  <2>1. x \in Nat /\ x + m = x + r
    BY <1>3, <1>4, Sizes
  <2> HIDE DEF x
  <2> QED
    BY <1>3, <2>1
<1> QED
  BY <1>4, <1>5 DEF q, m

\* A position before the largest size is in one of the blocks a file may have.
LEMMA InsideFile ==
  ASSUME NEW j \in Nat, j < MaxFileSize
  PROVE  j \div BlockSize < 2 * NumDirect
<1>1. j \div BlockSize \in Nat /\ j = (j \div BlockSize) * BlockSize + (j % BlockSize)
      /\ j % BlockSize >= 0
  BY Position
<1>2. j < (2 * NumDirect) * BlockSize
  BY Sizes DEF MaxFileSize
<1>3. ASSUME NEW k \in Nat, NEW r \in Nat, NEW B \in Nat, NEW m \in Nat,
             k * B + r < m * B
      PROVE  k < m
  <2>1. ASSUME k >= m PROVE k * B >= m * B
    BY <2>1
  <2> QED
    BY <1>3, <2>1
<1> QED
  BY <1>1, <1>2, <1>3, Sizes

------------------------------------------------------------------------------
(* Types.                                                                   *)

\* What is kept of a mounted disk besides its inodes and its blocks.
Same(F, G) == G.order = F.order /\ G.luck = F.luck /\ G.untidy = F.untidy /\ G.status = F.status

\* The fields of a mounted disk.
LEMMA MountedFields ==
  ASSUME NEW F \in Mounted
  PROVE  /\ F.inode \in [Inodes -> Node] /\ F.used \in SUBSET Blocks
         /\ F.data \in [Blocks \cup {Unassigned} -> Content]
         /\ F.order \in Seq(Blocks) /\ F.untidy \in SUBSET Inodes
         /\ F.status \in {"up", "down", "ruined"}
BY DEF Mounted

\* The fields of an inode.
LEMMA NodeFields ==
  ASSUME NEW node \in Node
  PROVE  /\ node.mode \in SUBSET (0 .. 15) /\ node.uid \in Nat /\ node.nlink \in {0, 1}
         /\ node.size \in Int /\ node.size <= MaxFileSize
         /\ node.direct \in [Slots -> Blocks \cup {Unassigned}]
         /\ node.indirect \in Blocks \cup {Unassigned}
BY DEF Node, Inode

\* A number of a table is a block, Unassigned or Null.
LEMMA NumberType ==
  ASSUME NEW F \in Mounted, NEW b \in Blocks \cup {Unassigned},
         NEW n \in 0 .. NumIndirect - 1
  PROVE  Number(F, b, n) \in Numbers
<1>1. F.data[b] \in Content
  BY MountedFields
<1>2. CASE F.data[b].as = "table"
  <2>1. F.data[b].at \in [0 .. NumIndirect - 1 -> Numbers]
    BY <1>1, <1>2 DEF Content
  <2> QED
    BY <1>2, <2>1 DEF Number
<1>3. CASE F.data[b].as # "table"
  BY <1>3, Named DEF Number, Numbers
<1> QED
  BY <1>2, <1>3

\* Every block is seen as cells.
LEMMA CellsType ==
  ASSUME NEW F \in Mounted, NEW b \in Blocks \cup {Unassigned}
  PROVE  CellsOf(F, b) \in [0 .. BlockSize - 1 -> Cell]
<1>1. F.data[b] \in Content
  BY MountedFields
<1>2. b # Null
  BY Named
<1>3. CASE F.data[b].as = "cells"
  BY <1>1, <1>2, <1>3 DEF Content, CellsOf
<1>4. CASE F.data[b].as # "cells"
  <2>1. 0 \in Inodes
    BY Named DEF Root
  <2>2. "numbers" \in Name
    BY DEF Name
  <2>3. Entry("numbers", 0) \in Cell
    BY <2>1, <2>2 DEF Entry, Cell
  <2> QED
    BY <1>2, <1>4, <2>3 DEF CellsOf
<1> QED
  BY <1>3, <1>4

\* What Poke makes of a block.
Poked(F, b, new) == [j \in 0 .. BlockSize - 1 |->
                       IF j \in DOMAIN new THEN new[j] ELSE CellsOf(F, b)[j]]

\* Poke changes the cells of one block.
LEMMA PokeFields ==
  ASSUME NEW F \in Mounted, NEW b \in Blocks \cup {Unassigned}, NEW new,
         \A j \in 0 .. BlockSize - 1 : j \in DOMAIN new => new[j] \in Cell
  PROVE  /\ Poke(F, b, new) \in Mounted
         /\ Poke(F, b, new).inode = F.inode /\ Poke(F, b, new).used = F.used
         /\ Poke(F, b, new).data = [F.data EXCEPT ![b] = Cells(Poked(F, b, new))]
         /\ Same(F, Poke(F, b, new))
<1>1. Poked(F, b, new) \in [0 .. BlockSize - 1 -> Cell]
  BY CellsType DEF Poked
<1>2. Cells(Poked(F, b, new)) \in Content
  BY <1>1 DEF Cells, Content
<1>3. Poke(F, b, new) = [F EXCEPT !.data[b] = Cells(Poked(F, b, new))]
  BY DEF Poke, Poked
<1> DEFINE c == Cells(Poked(F, b, new))
<1>4. c \in Content /\ Poke(F, b, new) = [F EXCEPT !.data[b] = c]
  BY <1>2, <1>3
<1> HIDE DEF c
<1>5. [F EXCEPT !.data[b] = c] \in Mounted
  BY <1>4 DEF Mounted
<1>6. /\ [F EXCEPT !.data[b] = c].inode = F.inode /\ [F EXCEPT !.data[b] = c].used = F.used
      /\ [F EXCEPT !.data[b] = c].data = [F.data EXCEPT ![b] = c]
      /\ Same(F, [F EXCEPT !.data[b] = c])
  BY DEF Mounted, Same
<1> QED
  BY <1>4, <1>5, <1>6 DEF c

\* So it does of one that is not mapped: nothing.
LEMMA PokeNowhere ==
  ASSUME NEW F \in Mounted, NEW b, b \notin Blocks \cup {Unassigned}, NEW new
  PROVE  Poke(F, b, new) = F
<1> DEFINE c == Cells([j \in 0 .. BlockSize - 1 |->
                         IF j \in DOMAIN new THEN new[j] ELSE CellsOf(F, b)[j]])
<1>1. Poke(F, b, new) = [F EXCEPT !.data[b] = c]
  BY DEF Poke
<1> HIDE DEF c
<1>2. [F.data EXCEPT ![b] = c] = F.data
  BY MountedFields
<1>3. [F EXCEPT !.data[b] = c] = [F EXCEPT !.data = F.data]
  BY <1>2
<1>4. [F EXCEPT !.data = F.data] = F
  BY DEF Mounted
<1> QED
  BY <1>1, <1>3, <1>4

\* What is done to the history of the call.
LEMMA HistoryFields ==
  ASSUME NEW F \in Mounted, NEW is \in SUBSET Inodes
  PROVE  /\ Ruined(F) \in Mounted /\ Ruined(F).status = "ruined"
         /\ Crashed(F) \in Mounted /\ Crashed(F).inode = F.inode /\ Crashed(F).used = F.used
         /\ Crashed(F).data = F.data /\ Crashed(F).untidy = F.untidy
         /\ Crashed(F).status = "ruined" <=> F.status = "ruined"
         /\ Untidy(F, is) \in Mounted /\ Untidy(F, is).untidy = F.untidy \cup is
         /\ Untidy(F, is).inode = F.inode /\ Untidy(F, is).used = F.used
         /\ Untidy(F, is).data = F.data /\ Untidy(F, is).status = F.status
<1>1. /\ Ruined(F) \in Mounted /\ Ruined(F).status = "ruined"
  BY DEF Ruined, Mounted
<1>2. /\ Crashed(F) \in Mounted /\ Crashed(F).inode = F.inode /\ Crashed(F).used = F.used
      /\ Crashed(F).data = F.data /\ Crashed(F).untidy = F.untidy
  BY DEF Crashed, Mounted
<1>3. Crashed(F).status = "ruined" <=> F.status = "ruined"
  BY DEF Crashed, Mounted
<1>4. /\ Untidy(F, is) \in Mounted /\ Untidy(F, is).untidy = F.untidy \cup is
      /\ Untidy(F, is).inode = F.inode /\ Untidy(F, is).used = F.used
      /\ Untidy(F, is).data = F.data /\ Untidy(F, is).status = F.status
  BY DEF Untidy, Mounted
<1> QED
  BY <1>1, <1>2, <1>3, <1>4

------------------------------------------------------------------------------
(* A sane disk.                                                             *)

\* No block is named twice, and the map marks the blocks that are named.
OwnsOnce(F) ==
  \A i, j \in Inodes, p, q \in Place :
    Live(F, i) /\ Live(F, j) /\ NamedAt(F, i, p) # Unassigned /\ NamedAt(F, i, p) = NamedAt(F, j, q)
    => i = j /\ p = q
Marked(F) ==
  \A b \in Blocks : b \in F.used <=> \E i \in Inodes, p \in Place : Live(F, i) /\ NamedAt(F, i, p) = b

\* The block an inode has for its numbers is a table, of which only the part
\* that free_inode walks is used.
IsTable(F, t) ==
  /\ F.data[t].as = "table"
  /\ \A n \in 0 .. NumIndirect - 1 :
       /\ F.data[t].at[n] \in Blocks \cup {Unassigned}
       /\ n >= NumDirect => F.data[t].at[n] = Unassigned
TablesOK(F) ==
  \A i \in Inodes : Live(F, i) /\ F.inode[i].indirect # Unassigned => IsTable(F, F.inode[i].indirect)

\* A directory fits in its first block; its entries have distinct names and are of
\* live inodes other than the root and itself, which no other directory has.
IsDir(F, d) == Live(F, d) /\ is_directory(F.inode[d])
EntryOf(F, d, j) == CellsOf(F, F.inode[d].direct[0])[j]
EntriesOf(F, d) == 0 .. F.inode[d].size - 1
FitsIn(F, d) ==
  F.inode[d].size \in 0 .. BlockSize /\ (F.inode[d].size > 0 => F.inode[d].direct[0] \in Blocks)
EntryOK(F, d, j) == EntryOf(F, d, j).ino \notin {0, d} /\ Live(F, EntryOf(F, d, j).ino)
NamesOnce(F, d) ==
  \A j, k \in EntriesOf(F, d) : EntryOf(F, d, j).name = EntryOf(F, d, k).name => j = k
InOneDirectory(F, d, e) ==
  \A j \in EntriesOf(F, d), k \in EntriesOf(F, e) :
    EntryOf(F, d, j).ino = EntryOf(F, e, k).ino => d = e /\ j = k
DirOK(F, d) ==
  FitsIn(F, d) /\ (\A j \in EntriesOf(F, d) : EntryOK(F, d, j)) /\ NamesOnce(F, d)
DirsOK(F) ==
  /\ \A d \in Inodes : IsDir(F, d) => DirOK(F, d)
  /\ \A d, e \in Inodes : IsDir(F, d) /\ IsDir(F, e) => InOneDirectory(F, d, e)

Sane(F) == OwnsOnce(F) /\ Marked(F) /\ TablesOK(F) /\ DirsOK(F) /\ Live(F, Root)

\* What is promised of a call: it keeps a sane disk so, unless it says otherwise.
Fine(F) == F.status # "ruined" /\ F.untidy = {}
Keeps(F, G) ==
  /\ G \in Mounted
  /\ Fine(G) => Fine(F)
  /\ Sane(F) /\ Fine(G) => Sane(G)

\* The blocks of an inode that hold its data, not its table, are still where they
\* were and hold what they held; and so it is of all the inodes of is, none of
\* which comes or goes or changes its mode or its size.
DataPlace == Place \ {NumDirect}
PlaceOf(k) == IF k < NumDirect THEN k ELSE k + 1
DataKept(F, G, i) ==
  \A p \in DataPlace : NamedAt(F, i, p) \in Blocks =>
    /\ NamedAt(G, i, p) = NamedAt(F, i, p)
    /\ CellsOf(G, NamedAt(F, i, p)) = CellsOf(F, NamedAt(F, i, p))
Undisturbed(F, G, is) ==
  \A i \in is :
    /\ Live(G, i) <=> Live(F, i)
    /\ Live(F, i) => /\ G.inode[i].mode = F.inode[i].mode /\ G.inode[i].size = F.inode[i].size
                     /\ DataKept(F, G, i)

\* No entry of a directory goes or changes.
EntriesKept(F, G) ==
  \A d \in Inodes : IsDir(F, d) =>
    /\ IsDir(G, d) /\ F.inode[d].size <= G.inode[d].size
    /\ \A j \in EntriesOf(F, d) : EntryOf(G, d, j) = EntryOf(F, d, j)
\* Of the inodes other than those of is none is freed; only directories grow, the
\* others keep their data; one that is new is an empty file.
Spared(F, G, is) ==
  \A k \in Inodes \ is :
    /\ Live(F, k) =>
         /\ Live(G, k) /\ (is_directory(G.inode[k]) <=> is_directory(F.inode[k]))
         /\ F.inode[k].size <= G.inode[k].size
         /\ is_directory(F.inode[k]) \/ G.inode[k].size = F.inode[k].size
         /\ G.inode[k].size = F.inode[k].size => DataKept(F, G, k)
    /\ ~ Live(F, k) /\ Live(G, k) => G.inode[k].size = 0 /\ ~ is_directory(G.inode[k])
Enlarged(F, G, is) == EntriesKept(F, G) /\ Spared(F, G, is)
\* What holds of them whatever a call does: one that has the size it had has its data.
Bystanders(F, G, is) ==
  \A k \in Inodes \ is : Live(G, k) =>
    IF Live(F, k) THEN G.inode[k].size = F.inode[k].size => DataKept(F, G, k)
    ELSE G.inode[k].size = 0
Grows(F, G, is) == Sane(F) /\ Fine(G) => Enlarged(F, G, is)
Spares(F, G, is) == Sane(F) /\ Fine(G) => Bystanders(F, G, is)

\* Calls may follow each other.
LEMMA KeepsTwice ==
  ASSUME NEW F, NEW G, NEW H, Keeps(F, G), Keeps(G, H)
  PROVE  Keeps(F, H)
BY DEF Keeps

\* A call that does nothing keeps the disk.
LEMMA KeepsStill ==
  ASSUME NEW F \in Mounted
  PROVE  Keeps(F, F)
BY DEF Keeps

\* What is left alone twice is left alone.
LEMMA UndisturbedTwice ==
  ASSUME NEW F, NEW G, NEW H, NEW is, Undisturbed(F, G, is), Undisturbed(G, H, is)
  PROVE  Undisturbed(F, H, is)
<1>1. ASSUME NEW i \in is, Live(F, i)
      PROVE  DataKept(F, H, i)
  <2>1. DataKept(F, G, i) /\ DataKept(G, H, i)
    BY <1>1 DEF Undisturbed
  <2> QED
    BY <2>1 DEF DataKept
<1> QED
  BY <1>1 DEF Undisturbed

\* And what nothing is done to.
LEMMA UndisturbedStill ==
  ASSUME NEW F, NEW G, NEW is, G.inode = F.inode, G.data = F.data
  PROVE  Undisturbed(F, G, is)
<1>1. \A i, p : NamedAt(G, i, p) = NamedAt(F, i, p)
  BY DEF NamedAt, Number
<1>2. \A b : CellsOf(G, b) = CellsOf(F, b)
  BY DEF CellsOf
<1>3. \A i : DataKept(F, G, i)
  BY <1>1, <1>2 DEF DataKept
<1> QED
  BY <1>3 DEF Undisturbed, Live

\* A place names a block or nothing.
LEMMA NamedType ==
  ASSUME NEW F \in Mounted, NEW i \in Inodes, NEW p \in Place
  PROVE  /\ NamedAt(F, i, p) \in Numbers
         /\ TablesOK(F) /\ Live(F, i) => NamedAt(F, i, p) \in Blocks \cup {Unassigned}
<1> DEFINE node == F.inode[i]
<1>1. node \in Node
  BY MountedFields
<1>2. node.direct \in [Slots -> Blocks \cup {Unassigned}] /\ node.indirect \in Blocks \cup {Unassigned}
  BY <1>1, NodeFields
<1>3. CASE p < NumDirect
  <2>1. p \in Slots
    BY <1>3, Sizes DEF Place, Slots
  <2>2. NamedAt(F, i, p) = node.direct[p]
    BY <1>3 DEF NamedAt
  <2> HIDE DEF node
  <2> QED
    BY <1>2, <2>1, <2>2 DEF Numbers
<1>4. CASE ~ (p < NumDirect) /\ (p = NumDirect \/ node.indirect = Unassigned)
  <2>1. NamedAt(F, i, p) = node.indirect
    BY <1>4 DEF NamedAt
  <2> HIDE DEF node
  <2> QED
    BY <1>2, <2>1 DEF Numbers
<1>5. CASE ~ (p < NumDirect) /\ ~ (p = NumDirect \/ node.indirect = Unassigned)
  <2>1. p - NumDirect - 1 \in 0 .. NumIndirect - 1
    BY <1>5, Sizes DEF Place
  <2>2. NamedAt(F, i, p) = Number(F, node.indirect, p - NumDirect - 1)
    BY <1>5 DEF NamedAt
  <2>3. ASSUME TablesOK(F), Live(F, i)
        PROVE  Number(F, node.indirect, p - NumDirect - 1) \in Blocks \cup {Unassigned}
    BY <1>5, <2>1, <2>3 DEF TablesOK, IsTable, Number
  <2> HIDE DEF node
  <2>4. Number(F, node.indirect, p - NumDirect - 1) \in Numbers
    BY <1>2, <2>1, NumberType
  <2> QED
    BY <2>2, <2>3, <2>4
<1> QED
  BY <1>3, <1>4, <1>5

\* The places of the table, and no others, depend on what is in a block.
LEMMA NamedSame ==
  ASSUME NEW F, NEW G, NEW i \in Inodes, NEW p \in Place,
         G.inode[i].direct = F.inode[i].direct, G.inode[i].indirect = F.inode[i].indirect,
         F.inode[i].indirect # Unassigned =>
           G.data[F.inode[i].indirect] = F.data[F.inode[i].indirect]
  PROVE  NamedAt(G, i, p) = NamedAt(F, i, p)
<1>1. CASE p < NumDirect \/ p = NumDirect \/ F.inode[i].indirect = Unassigned
  BY <1>1 DEF NamedAt
<1>2. CASE ~ (p < NumDirect \/ p = NumDirect \/ F.inode[i].indirect = Unassigned)
  <2>1. NamedAt(F, i, p) = Number(F, F.inode[i].indirect, p - NumDirect - 1)
    BY <1>2 DEF NamedAt
  <2>2. NamedAt(G, i, p) = Number(G, F.inode[i].indirect, p - NumDirect - 1)
    BY <1>2 DEF NamedAt
  <2>3. Number(G, F.inode[i].indirect, p - NumDirect - 1) = Number(F, F.inode[i].indirect, p - NumDirect - 1)
    BY <1>2 DEF Number
  <2> QED
    BY <2>1, <2>2, <2>3
<1> QED
  BY <1>1, <1>2

\* One block changes, which is not the table of this inode: its data are kept when
\* they are not in that block.
LEMMA DataLeft ==
  ASSUME NEW F \in Mounted, NEW G, NEW b, G.inode = F.inode,
         \A c \in Blocks \cup {Unassigned} : c # b => G.data[c] = F.data[c],
         NEW i \in Inodes, F.inode[i].indirect # Unassigned => F.inode[i].indirect # b
  PROVE  /\ \A p \in Place : NamedAt(G, i, p) = NamedAt(F, i, p)
         /\ \A p \in Place : NamedAt(F, i, p) \in Blocks /\ NamedAt(F, i, p) # b =>
              CellsOf(G, NamedAt(F, i, p)) = CellsOf(F, NamedAt(F, i, p))
         /\ (\A p \in DataPlace : NamedAt(F, i, p) # b) => DataKept(F, G, i)
<1>1. F.inode[i].indirect \in Blocks \cup {Unassigned}
  BY MountedFields, NodeFields
<1>2. \A p \in Place : NamedAt(G, i, p) = NamedAt(F, i, p)
  BY <1>1, NamedSame
<1>3. \A p \in Place : NamedAt(F, i, p) \in Blocks /\ NamedAt(F, i, p) # b =>
        CellsOf(G, NamedAt(F, i, p)) = CellsOf(F, NamedAt(F, i, p))
  BY DEF CellsOf
<1>4. DataPlace \subseteq Place
  BY DEF DataPlace
<1> QED
  BY <1>2, <1>3, <1>4 DEF DataKept

\* Nothing is given out or taken back.
LEMMA StillAccounted ==
  ASSUME NEW F, NEW G, OwnsOnce(F), Marked(F), G.used = F.used,
         \A i \in Inodes : Live(F, i) <=> Live(G, i),
         \A i \in Inodes, p \in Place : Live(F, i) => NamedAt(G, i, p) = NamedAt(F, i, p)
  PROVE  OwnsOnce(G) /\ Marked(G)
<1>1. OwnsOnce(G)
  BY DEF OwnsOnce
<1>2. Marked(G)
  BY DEF Marked
<1> QED
  BY <1>1, <1>2

\* One block that was not in use is given to one place that had none.
LEMMA GivenAccounted ==
  ASSUME NEW F, NEW G, OwnsOnce(F), Marked(F),
         NEW b \in Blocks, b \notin F.used, G.used = F.used \cup {b},
         \A i \in Inodes : Live(F, i) <=> Live(G, i),
         NEW o \in Inodes, NEW r \in Place, Live(F, o), NamedAt(F, o, r) = Unassigned,
         \A i \in Inodes, p \in Place : Live(F, i) =>
           NamedAt(G, i, p) = IF i = o /\ p = r THEN b ELSE NamedAt(F, i, p)
  PROVE  OwnsOnce(G) /\ Marked(G)
<1>1. ASSUME NEW i \in Inodes, NEW p \in Place, Live(F, i)
      PROVE  NamedAt(F, i, p) # b
  BY <1>1 DEF Marked
<1>2. b # Unassigned
  BY Named
<1>3. ASSUME NEW i \in Inodes, NEW j \in Inodes, NEW p \in Place, NEW q \in Place,
             Live(G, i), Live(G, j), NamedAt(G, i, p) # Unassigned,
             NamedAt(G, i, p) = NamedAt(G, j, q)
      PROVE  i = j /\ p = q
  <2>1. CASE i = o /\ p = r
    BY <1>1, <1>3, <2>1
  <2>2. CASE ~ (i = o /\ p = r)
    <3>1. NamedAt(G, i, p) = NamedAt(F, i, p)
      BY <1>3, <2>2
    <3>2. NamedAt(G, j, q) = NamedAt(F, j, q)
      BY <1>1, <1>3, <3>1
    <3>3. NamedAt(F, i, p) # Unassigned /\ NamedAt(F, i, p) = NamedAt(F, j, q)
      BY <1>3, <3>1, <3>2
    <3>4. Live(F, i) /\ Live(F, j)
      BY <1>3
    <3> QED
      BY <3>3, <3>4 DEF OwnsOnce
  <2> QED
    BY <2>1, <2>2
<1>4. OwnsOnce(G)
  BY <1>3 DEF OwnsOnce
<1>5. ASSUME NEW c \in Blocks
      PROVE  c \in G.used <=> \E i \in Inodes, p \in Place : Live(G, i) /\ NamedAt(G, i, p) = c
  <2>1. CASE c = b
    <3>1. Live(G, o) /\ NamedAt(G, o, r) = c
      BY <2>1
    <3> QED
      BY <2>1, <3>1
  <2>2. CASE c # b
    <3>1. c \in F.used <=> \E i \in Inodes, p \in Place : Live(F, i) /\ NamedAt(F, i, p) = c
      BY DEF Marked
    <3>2. ASSUME NEW i \in Inodes, NEW p \in Place, Live(F, i) /\ NamedAt(F, i, p) = c
          PROVE  Live(G, i) /\ NamedAt(G, i, p) = c
      <4>1. ~ (i = o /\ p = r)
        BY <3>2, Named
      <4> QED
        BY <3>2, <4>1
    <3>3. ASSUME NEW i \in Inodes, NEW p \in Place, Live(G, i) /\ NamedAt(G, i, p) = c
          PROVE  Live(F, i) /\ NamedAt(F, i, p) = c
      BY <2>2, <3>3
    <3> QED
      BY <2>2, <3>1, <3>2, <3>3
  <2> QED
    BY <2>1, <2>2
<1>6. Marked(G)
  BY <1>5 DEF Marked
<1> QED
  BY <1>4, <1>6

\* The directories that are not touched stay as they were.
LEMMA DirsStill ==
  ASSUME NEW F, NEW G, DirsOK(F),
         \A i \in Inodes : Live(F, i) => Live(G, i),
         \A d \in Inodes : IsDir(F, d) => \A j \in EntriesOf(F, d) : EntryOf(F, d, j).ino \in Inodes,
         \A d \in Inodes : IsDir(G, d) =>
           \/ G.inode[d].size = 0
           \/ /\ IsDir(F, d) /\ G.inode[d].size = F.inode[d].size
              /\ F.inode[d].size > 0 =>
                   /\ G.inode[d].direct[0] = F.inode[d].direct[0]
                   /\ CellsOf(G, F.inode[d].direct[0]) = CellsOf(F, F.inode[d].direct[0])
  PROVE  DirsOK(G)
<1>1. ASSUME NEW d \in Inodes, IsDir(G, d)
      PROVE  \/ G.inode[d].size = 0 /\ EntriesOf(G, d) = {}
             \/ /\ IsDir(F, d) /\ EntriesOf(G, d) = EntriesOf(F, d)
                /\ G.inode[d].size = F.inode[d].size
                /\ F.inode[d].size > 0 => G.inode[d].direct[0] = F.inode[d].direct[0]
                /\ \A j \in EntriesOf(F, d) : EntryOf(G, d, j) = EntryOf(F, d, j)
  <2>1. CASE G.inode[d].size = 0
    BY <2>1 DEF EntriesOf
  <2>2. CASE G.inode[d].size # 0
    <3>1. /\ IsDir(F, d) /\ G.inode[d].size = F.inode[d].size
          /\ F.inode[d].size > 0 =>
               /\ G.inode[d].direct[0] = F.inode[d].direct[0]
               /\ CellsOf(G, F.inode[d].direct[0]) = CellsOf(F, F.inode[d].direct[0])
      BY <1>1, <2>2
    <3>2. F.inode[d].size \in 0 .. BlockSize
      BY <3>1 DEF DirsOK, DirOK, FitsIn
    <3>3. F.inode[d].size > 0
      BY <2>2, <3>1, <3>2, Sizes
    <3> QED
      BY <3>1, <3>3 DEF EntriesOf, EntryOf
  <2> QED
    BY <2>1, <2>2
<1>2. ASSUME NEW d \in Inodes, IsDir(G, d)
      PROVE  DirOK(G, d)
  <2>1. CASE G.inode[d].size = 0 /\ EntriesOf(G, d) = {}
    BY <2>1, Sizes DEF DirOK, FitsIn, NamesOnce
  <2>2. CASE /\ IsDir(F, d) /\ EntriesOf(G, d) = EntriesOf(F, d)
             /\ G.inode[d].size = F.inode[d].size
             /\ F.inode[d].size > 0 => G.inode[d].direct[0] = F.inode[d].direct[0]
             /\ \A j \in EntriesOf(F, d) : EntryOf(G, d, j) = EntryOf(F, d, j)
    <3>1. DirOK(F, d)
      BY <2>2 DEF DirsOK
    <3>2. FitsIn(G, d)
      BY <2>2, <3>1 DEF DirOK, FitsIn
    <3>3. \A j \in EntriesOf(G, d) : EntryOK(G, d, j)
      BY <2>2, <3>1 DEF DirOK, EntryOK
    <3>4. NamesOnce(G, d)
      BY <2>2, <3>1 DEF DirOK, NamesOnce
    <3> QED
      BY <3>2, <3>3, <3>4 DEF DirOK
  <2> QED
    BY <1>1, <1>2, <2>1, <2>2
<1>3. ASSUME NEW d \in Inodes, NEW e \in Inodes, IsDir(G, d), IsDir(G, e)
      PROVE  InOneDirectory(G, d, e)
  <2>1. CASE EntriesOf(G, d) = {} \/ EntriesOf(G, e) = {}
    BY <2>1 DEF InOneDirectory
  <2>2. CASE ~ (EntriesOf(G, d) = {} \/ EntriesOf(G, e) = {})
    <3>1. /\ IsDir(F, d) /\ EntriesOf(G, d) = EntriesOf(F, d)
          /\ \A j \in EntriesOf(F, d) : EntryOf(G, d, j) = EntryOf(F, d, j)
      BY <1>1, <1>3, <2>2
    <3>2. /\ IsDir(F, e) /\ EntriesOf(G, e) = EntriesOf(F, e)
          /\ \A j \in EntriesOf(F, e) : EntryOf(G, e, j) = EntryOf(F, e, j)
      BY <1>1, <1>3, <2>2
    <3>3. InOneDirectory(F, d, e)
      BY <3>1, <3>2 DEF DirsOK
    <3> QED
      BY <3>1, <3>2, <3>3 DEF InOneDirectory
  <2> QED
    BY <2>1, <2>2
<1> QED
  BY <1>2, <1>3 DEF DirsOK
------------------------------------------------------------------------------
(* Loops and lookups.                                                       *)

\* A recursive function of N turns exists.
Turned(N, S, x, f) ==
  \E g \in [0 .. N -> S] : g[0] = x /\ \A k \in 1 .. N : g[k] = f[<<k, g[k - 1]>>]

\* So does a function that is defined by recursion on a number of turns, values in S.
LEMMA Recursion ==
  ASSUME NEW N \in Nat, NEW S, NEW x \in S, NEW f \in [(1 .. N) \X S -> S]
  PROVE  Turned(N, S, x, f)
<1> DEFINE Exists(n) == \E g \in [0 .. n -> S] :
                          g[0] = x /\ \A k \in 1 .. n : g[k] = f[<<k, g[k - 1]>>]
           Turns == {n \in 0 .. N : Exists(n)}
<1>1. 0 \in Turns
  <2> DEFINE g == [k \in 0 .. 0 |-> x]
  <2>1. g \in [0 .. 0 -> S] /\ g[0] = x /\ \A k \in 1 .. 0 : g[k] = f[<<k, g[k - 1]>>]
    OBVIOUS
  <2> HIDE DEF g
  <2>2. Exists(0)
    BY <2>1
  <2> QED
    BY <2>2
<1>2. ASSUME NEW n \in 1 .. N, n - 1 \in Turns
      PROVE  n \in Turns
  <2>1. PICK g \in [0 .. n - 1 -> S] :
          g[0] = x /\ \A k \in 1 .. n - 1 : g[k] = f[<<k, g[k - 1]>>]
    BY <1>2
  <2> DEFINE last == f[<<n, g[n - 1]>>]
             h == [k \in 0 .. n |-> IF k = n THEN last ELSE g[k]]
  <2>2. last \in S
    <3>1. g[n - 1] \in S
      OBVIOUS
    <3> QED
      BY <3>1
  <2>3. h \in [0 .. n -> S]
    <3> HIDE DEF last
    <3> QED
      BY <2>2
  <2>4. h[0] = x
    BY <2>1
  <2>5. ASSUME NEW k \in 1 .. n
        PROVE  h[k] = f[<<k, h[k - 1]>>]
    <3>1. k - 1 \in 0 .. n - 1 /\ k - 1 \in 0 .. n /\ k - 1 # n
      OBVIOUS
    <3>2. h[k - 1] = g[k - 1]
      BY <3>1
    <3>3. CASE k = n
      <4>1. h[n] = last
        OBVIOUS
      <4>2. last = f[<<n, h[n - 1]>>]
        BY <3>2, <3>3
      <4> HIDE DEF h, last
      <4> QED
        BY <3>3, <4>1, <4>2
    <3>4. CASE k # n
      <4>1. h[k] = g[k] /\ k \in 1 .. n - 1
        BY <3>4
      <4> QED
        BY <2>1, <3>2, <4>1
    <3> QED
      BY <3>3, <3>4
  <2> HIDE DEF h
  <2> QED
    BY <2>3, <2>4, <2>5
<1> HIDE DEF Exists
<1>3. \A n \in 0 .. N : n \in Turns
  <2> HIDE DEF Turns
  <2> QED
    BY <1>1, <1>2, AllTurns
<1>4. Exists(N)
  BY <1>3
<1> QED
  BY <1>4 DEF Exists, Turned

\* A set of numbers up to m that is not empty has a greatest one.
LEMMA GreatestIn ==
  ASSUME NEW m \in Nat, NEW S \in SUBSET (0 .. m), S # {}
  PROVE  Greatest(S) \in S
<1> DEFINE T == {m - n : n \in S}
<1>1. T \in SUBSET Nat /\ T # {}
  <2>1. \A n \in S : m - n \in Nat
    OBVIOUS
  <2> QED
    BY <2>1
<1>2. Least(T) \in T /\ \A k \in T : Least(T) <= k
  <2> HIDE DEF T
  <2> QED
    BY <1>1, LeastIn
<1>3. PICK n \in S : Least(T) = m - n
  BY <1>2
<1>4. \A k \in S : n >= k
  BY <1>2, <1>3
<1>5. S \in SUBSET Int
  OBVIOUS
<1> QED
  BY <1>4, <1>5, GreatestIs

\* The j-th cell of a directory that a walk comes upon.
LineOf(F, node, table, j) == CellsOf(F, BlockOf(F, node, table, j \div BlockSize))[j % BlockSize]
AnyCell == Cell \cup {Entry("", Wild)}

\* Such a cell is one, unless it is read through a number that names no block.
LEMMA LineType ==
  ASSUME NEW F \in Mounted, NEW node \in Node, NEW table \in Blocks \cup {Unassigned}, NEW j \in Nat
  PROVE  LineOf(F, node, table, j) \in AnyCell
<1> DEFINE k == j \div BlockSize
           b == BlockOf(F, node, table, k)
           r == j % BlockSize
<1>1. k \in Nat /\ r \in 0 .. BlockSize - 1
  BY Position
<1>2. b \in Numbers
  <2> HIDE DEF k
  <2>1. CASE k < NumDirect
    <3>1. k \in Slots
      BY <1>1, <2>1, Sizes DEF Slots
    <3>2. node.direct[k] \in Blocks \cup {Unassigned}
      BY <3>1, NodeFields
    <3> QED
      BY <2>1, <3>2 DEF BlockOf, Numbers
  <2>2. CASE ~ (k < NumDirect)
    <3>1. k % NumDirect \in 0 .. NumIndirect - 1
      BY <1>1, Sizes
    <3>2. b = Number(F, table, k % NumDirect)
      BY <2>2 DEF BlockOf
    <3> QED
      BY <3>1, <3>2, NumberType
  <2> QED
    BY <2>1, <2>2
<1>3. LineOf(F, node, table, j) = CellsOf(F, b)[r]
  BY DEF LineOf
<1> HIDE DEF k, b, r
<1>4. CASE b = Null
  BY <1>1, <1>3, <1>4 DEF CellsOf, AnyCell
<1>5. CASE b # Null
  <2>1. CellsOf(F, b)[r] \in Cell
    BY <1>1, <1>2, <1>5, CellsType DEF Numbers
  <2> QED
    BY <1>3, <2>1 DEF AnyCell
<1> QED
  BY <1>4, <1>5

\* What a walk sees at its j-th cell: nothing, or an entry at or before it.
LEMMA WalkSees ==
  ASSUME NEW F \in Mounted, NEW node \in Node, NEW table \in Blocks \cup {Unassigned},
         NEW n, NEW j \in 1 .. n
  PROVE  LET seen == Walk(F, node, table, n)[j]
         IN \/ seen = <<>>
            \/ \E c \in AnyCell : seen = <<c>> /\ IsEntry(c)
<1> DEFINE cell(k) == CellsOf(F, BlockOf(F, node, table, k \div BlockSize))[k % BlockSize]
           last == {k \in 0 .. j - 1 : IsEntry(cell(k))}
<1>1. Walk(F, node, table, n)[j] = IF last = {} THEN <<>> ELSE << cell(Greatest(last)) >>
  BY DEF Walk
<1>2. ASSUME last # {}
      PROVE  Greatest(last) \in Nat /\ IsEntry(cell(Greatest(last)))
  <2>1. j - 1 \in Nat /\ last \in SUBSET (0 .. j - 1)
    OBVIOUS
  <2>2. Greatest(last) \in last
    <3> HIDE DEF last
    <3> QED
      BY <1>2, <2>1, GreatestIn
  <2> HIDE DEF cell
  <2> DEFINE m == Greatest(last)
  <2>3. m \in {k \in 0 .. j - 1 : IsEntry(cell(k))}
    BY <2>2
  <2> HIDE DEF m
  <2>4. m \in Nat /\ IsEntry(cell(m))
    BY <2>3
  <2> QED
    BY <2>4 DEF m
<1>3. ASSUME NEW k \in Nat
      PROVE  cell(k) \in AnyCell
  <2>1. cell(k) = LineOf(F, node, table, k)
    BY DEF LineOf
  <2> HIDE DEF cell
  <2> QED
    BY <2>1, LineType
<1> HIDE DEF cell, last
<1> QED
  BY <1>1, <1>2, <1>3

\* A walk over entries only sees each of them.
LEMMA WalkExact ==
  ASSUME NEW F, NEW node, NEW table, NEW n \in Nat,
         \A j \in 0 .. n - 1 : IsEntry(LineOf(F, node, table, j))
  PROVE  Walk(F, node, table, n) = [j \in 1 .. n |-> << LineOf(F, node, table, j - 1) >>]
<1> DEFINE cell(k) == CellsOf(F, BlockOf(F, node, table, k \div BlockSize))[k % BlockSize]
           last(j) == {k \in 0 .. j : IsEntry(cell(k))}
<1>1. Walk(F, node, table, n) = [j \in 1 .. n |-> IF last(j - 1) = {} THEN <<>>
                                                  ELSE << cell(Greatest(last(j - 1))) >>]
  BY DEF Walk
<1>2. ASSUME NEW k \in 0 .. n - 1
      PROVE  cell(k) = LineOf(F, node, table, k)
  BY DEF LineOf
<1> HIDE DEF cell
<1>3. ASSUME NEW j \in 1 .. n
      PROVE  last(j - 1) # {} /\ Greatest(last(j - 1)) = j - 1
  <2>1. last(j - 1) \in SUBSET Int /\ j - 1 \in last(j - 1)
    BY <1>2
  <2>2. \A m \in last(j - 1) : j - 1 >= m
    OBVIOUS
  <2> HIDE DEF last
  <2> QED
    BY <2>1, <2>2, GreatestIs
<1> HIDE DEF last
<1>4. ASSUME NEW j \in 1 .. n
      PROVE  (IF last(j - 1) = {} THEN <<>> ELSE << cell(Greatest(last(j - 1))) >>)
             = << LineOf(F, node, table, j - 1) >>
  BY <1>2, <1>3
<1> QED
  BY <1>1, <1>4

\* The inode a name leads to is an inode, none, or one that nobody set.
LEMMA FindType ==
  ASSUME NEW F \in Mounted, NEW d \in Inodes, NEW name
  PROVE  find_inode_named(F, d, name) \in Inodes \cup {NoInode, Wild}
<1> DEFINE node == F.inode[d]
           unassigned == {k \in Slots : node.direct[k] = Unassigned}
           n == Seen(node, node.indirect, unassigned)
           seen == Walk(F, node, node.indirect, n)
           hits == {j \in DOMAIN seen : seen[j] # <<>> /\ (seen[j][1].name = name \/ seen[j][1].ino = Wild)}
<1>1. node \in Node /\ node.indirect \in Blocks \cup {Unassigned}
  BY MountedFields, NodeFields
<1>2. DOMAIN seen = 1 .. n
  BY DEF Walk
<1>3. ASSUME NEW j \in DOMAIN seen, seen[j] # <<>>
      PROVE  seen[j][1].ino \in Inodes \cup {Wild}
  <2>1. PICK c \in AnyCell : seen[j] = <<c>>
    <3> HIDE DEF node, n
    <3> QED
      BY <1>1, <1>2, <1>3, WalkSees
  <2>2. CASE c \in Cell
    <3>1. c.ino \in Inodes
      BY <2>2 DEF Cell
    <3> HIDE DEF seen
    <3> QED
      BY <2>1, <3>1
  <2>3. CASE c = Entry("", Wild)
    <3>1. c.ino = Wild
      BY <2>3 DEF Entry
    <3> HIDE DEF seen
    <3> QED
      BY <2>1, <3>1
  <2> QED
    BY <2>2, <2>3 DEF AnyCell
<1>4. find_inode_named(F, d, name) = NamedIn(F, seen, name)
  BY DEF find_inode_named
<1>5. 1 .. n \in SUBSET Nat
  OBVIOUS
<1> HIDE DEF seen, n
<1>6. hits # {} => Least(hits) \in hits
  <2>1. hits \in SUBSET Nat
    BY <1>2, <1>5
  <2> HIDE DEF hits
  <2> QED
    BY <2>1, LeastIn
<1>7. First(seen, LAMBDA entry : entry.name = name \/ entry.ino = Wild)
      = IF hits = {} THEN 0 ELSE Least(hits)
  BY DEF First
<1>8. CASE hits = {}
  <2>1. First(seen, LAMBDA entry : entry.name = name \/ entry.ino = Wild) = 0
    BY <1>7, <1>8
  <2>2. NamedIn(F, seen, name) \in {Wild, NoInode}
    BY <2>1 DEF NamedIn
  <2> QED
    BY <1>4, <2>2
<1>9. CASE hits # {}
  <2>1. First(seen, LAMBDA entry : entry.name = name \/ entry.ino = Wild) = Least(hits)
    BY <1>7, <1>9
  <2>2. Least(hits) \in DOMAIN seen /\ seen[Least(hits)] # <<>>
    BY <1>6, <1>9
  <2> HIDE DEF hits
  <2>3. NamedIn(F, seen, name) \in {Wild, NoInode, seen[Least(hits)][1].ino}
    BY <2>1 DEF NamedIn
  <2> QED
    BY <1>3, <1>4, <2>2, <2>3
<1> QED
  BY <1>8, <1>9

\* How many cells a walk sees of a directory that fits in its first block.
LEMMA SeenTidy ==
  ASSUME NEW node \in Node, NEW table, NEW stopAt \in SUBSET Slots,
         node.size \in 0 .. BlockSize, node.size > 0 => 0 \notin stopAt
  PROVE  Seen(node, table, stopAt) = node.size
<1> DEFINE limits == {node.size}
                     \cup {k * BlockSize : k \in stopAt}
                     \cup (IF table = Unassigned THEN {NumDirect * BlockSize} ELSE {})
<1>1. ASSUME NEW k \in Nat, k = 0 => node.size = 0
      PROVE  k * BlockSize \in Int /\ node.size <= k * BlockSize
  <2>1. k * BlockSize \in Nat
    BY Sizes
  <2>2. CASE k = 0
    BY <1>1, <2>1, <2>2, Sizes
  <2>3. CASE k >= 1
    <3>1. k * BlockSize >= BlockSize
      BY <2>3, Sizes
    <3> QED
      BY <2>1, <3>1, Sizes
  <2> QED
    BY <1>1, <2>2, <2>3
<1>2. ASSUME NEW k \in stopAt
      PROVE  k \in Nat /\ (k = 0 => node.size = 0)
  BY DEF Slots
<1>3. NumDirect * BlockSize \in Int /\ node.size <= NumDirect * BlockSize
  BY <1>1, Sizes
<1>4. limits \in SUBSET Int /\ node.size \in limits /\ \A m \in limits : node.size <= m
  BY <1>1, <1>2, <1>3
<1>5. Seen(node, table, stopAt) = Least(limits)
  BY DEF Seen
<1> HIDE DEF limits
<1> QED
  BY <1>4, <1>5, LeastIs

\* The entries of a directory that is in order.
LEMMA EntryType ==
  ASSUME NEW F \in Mounted, NEW d \in Inodes, FitsIn(F, d), NEW j \in EntriesOf(F, d)
  PROVE  j \in 0 .. BlockSize - 1 /\ F.inode[d].direct[0] \in Blocks /\ EntryOf(F, d, j) \in Cell
<1>1. j \in 0 .. BlockSize - 1 /\ F.inode[d].direct[0] \in Blocks
  BY Sizes DEF EntriesOf, FitsIn
<1>2. CellsOf(F, F.inode[d].direct[0]) \in [0 .. BlockSize - 1 -> Cell]
  BY <1>1, CellsType
<1> QED
  BY <1>1, <1>2 DEF EntryOf

\* A walk over a directory that is in order sees its entries.
LEMMA WalkTidy ==
  ASSUME NEW F \in Mounted, NEW d \in Inodes, DirOK(F, d), NEW table
  PROVE  Walk(F, F.inode[d], table, F.inode[d].size)
         = [j \in 1 .. F.inode[d].size |-> << EntryOf(F, d, j - 1) >>]
<1> DEFINE node == F.inode[d]
           n == node.size
<1>1. n \in Nat
  BY Sizes DEF DirOK, FitsIn
<1>2. ASSUME NEW j \in 0 .. n - 1
      PROVE  LineOf(F, node, table, j) = EntryOf(F, d, j) /\ IsEntry(EntryOf(F, d, j))
  <2>1. j \in EntriesOf(F, d)
    BY DEF EntriesOf
  <2>2. j \in 0 .. BlockSize - 1
    BY <2>1, EntryType DEF DirOK
  <2>3. j \div BlockSize = 0 /\ j % BlockSize = j
    BY <2>2, InFirstBlock
  <2>4. BlockOf(F, node, table, 0) = node.direct[0]
    BY Sizes DEF BlockOf
  <2>5. LineOf(F, node, table, j) = EntryOf(F, d, j)
    BY <2>3, <2>4 DEF LineOf, EntryOf
  <2>6. IsEntry(EntryOf(F, d, j))
    BY <2>1 DEF DirOK, EntryOK, IsEntry
  <2> QED
    BY <2>5, <2>6
<1> HIDE DEF node, n
<1>3. Walk(F, node, table, n) = [j \in 1 .. n |-> << LineOf(F, node, table, j - 1) >>]
  BY <1>1, <1>2, WalkExact
<1>4. \A j \in 1 .. n : LineOf(F, node, table, j - 1) = EntryOf(F, d, j - 1)
  BY <1>1, <1>2
<1>5. Walk(F, node, table, n) = [j \in 1 .. n |-> << EntryOf(F, d, j - 1) >>]
  BY <1>3, <1>4
<1> QED
  BY <1>5 DEF node, n

\* What a name leads to in a directory that is in order.
LEMMA FindTidy ==
  ASSUME NEW F \in Mounted, NEW d \in Inodes, DirOK(F, d), NEW name
  PROVE  \/ /\ find_inode_named(F, d, name) = NoInode
            /\ \A j \in EntriesOf(F, d) : EntryOf(F, d, j).name # name
         \/ \E j \in EntriesOf(F, d) : /\ EntryOf(F, d, j).name = name
                                       /\ find_inode_named(F, d, name) = EntryOf(F, d, j).ino
<1> DEFINE node == F.inode[d]
           unassigned == {k \in Slots : node.direct[k] = Unassigned}
           n == node.size
           seen == Walk(F, node, node.indirect, n)
           hits == {j \in 1 .. n : EntryOf(F, d, j - 1).name = name}
<1>1. FitsIn(F, d) /\ n \in Nat /\ node \in Node
  BY MountedFields, Sizes DEF DirOK, FitsIn
<1>2. Seen(node, node.indirect, unassigned) = n
  <2>1. node.size > 0 => 0 \notin unassigned
    BY <1>1, Named DEF FitsIn
  <2>2. node.size \in 0 .. BlockSize
    BY <1>1 DEF FitsIn
  <2>3. unassigned \in SUBSET Slots
    OBVIOUS
  <2> HIDE DEF unassigned, node
  <2> QED
    BY <1>1, <2>1, <2>2, <2>3, SeenTidy DEF n
<1>3. find_inode_named(F, d, name) = NamedIn(F, seen, name)
  BY <1>2 DEF find_inode_named
<1>4. seen = [j \in 1 .. n |-> << EntryOf(F, d, j - 1) >>]
  BY WalkTidy
<1> HIDE DEF seen
<1>5. ASSUME NEW j \in 1 .. n
      PROVE  /\ seen[j] # <<>> /\ seen[j][1] = EntryOf(F, d, j - 1)
             /\ seen[j][1].ino # Wild /\ j - 1 \in EntriesOf(F, d)
  <2>1. j - 1 \in EntriesOf(F, d)
    BY <1>1 DEF EntriesOf
  <2>2. EntryOf(F, d, j - 1).ino \in Inodes
    BY <1>1, <2>1, EntryType DEF Cell
  <2> QED
    BY <1>4, <2>1, <2>2, Named
<1>6. DOMAIN seen = 1 .. n
  BY <1>4
<1>7. ~ Missing(seen)
  BY <1>5, <1>6 DEF Missing
<1>8. {j \in DOMAIN seen : seen[j] # <<>> /\ (seen[j][1].name = name \/ seen[j][1].ino = Wild)} = hits
  BY <1>5, <1>6
<1>9. First(seen, LAMBDA entry : entry.name = name \/ entry.ino = Wild)
      = IF hits = {} THEN 0 ELSE Least(hits)
  BY <1>8 DEF First
<1>10. CASE hits = {}
  <2>1. First(seen, LAMBDA entry : entry.name = name \/ entry.ino = Wild) = 0
    BY <1>9, <1>10
  <2>2. find_inode_named(F, d, name) = NoInode
    BY <1>3, <1>7, <2>1 DEF NamedIn
  <2>3. ASSUME NEW j \in EntriesOf(F, d)
        PROVE  EntryOf(F, d, j).name # name
    <3>1. j + 1 \in 1 .. n /\ (j + 1) - 1 = j
      BY <1>1 DEF EntriesOf
    <3> HIDE DEF n
    <3> QED
      BY <1>10, <3>1
  <2> QED
    BY <2>2, <2>3
<1>11. CASE hits # {}
  <2>1. Least(hits) \in hits
    <3>1. hits \in SUBSET Nat
      BY <1>1
    <3> HIDE DEF hits
    <3> QED
      BY <1>11, <3>1, LeastIn
  <2> DEFINE h == Least(hits)
  <2>2. First(seen, LAMBDA entry : entry.name = name \/ entry.ino = Wild) = h
    BY <1>9, <1>11
  <2>3. h \in 1 .. n /\ EntryOf(F, d, h - 1).name = name
    BY <2>1
  <2> HIDE DEF h, hits
  <2>4. h # 0
    BY <2>3
  <2>5. find_inode_named(F, d, name) = seen[h][1].ino
    BY <1>3, <1>7, <2>2, <2>4 DEF NamedIn
  <2> QED
    BY <1>5, <2>3, <2>5
<1> QED
  BY <1>10, <1>11

\* One name further down.
Found == Inodes \cup {NoInode, Wild}

\* It ends in an inode, nowhere, or at a pointer that was never set.
LEMMA DescendType ==
  ASSUME NEW F \in Mounted, NEW i \in Found, NEW name
  PROVE  Descend(F, i, name) \in Found
<1>1. CASE i < 0
  BY <1>1 DEF Descend
<1>2. CASE ~ (i < 0)
  <2>1. i \in Inodes
    BY <1>2 DEF Found, NoInode, Wild
  <2>2. find_inode_named(F, i, name) \in Found
    BY <2>1, FindType DEF Found
  <2> QED
    BY <1>2, <2>2 DEF Descend, Found
<1> QED
  BY <1>1, <1>2

\* Where the names of a path lead to, one by one.
LEMMA ReachedSteps ==
  ASSUME NEW F \in Mounted, NEW path \in Seq(STRING)
  PROVE  /\ Reached(F, path)[0] = Root
         /\ \A k \in 1 .. Len(path) : Reached(F, path)[k] = Descend(F, Reached(F, path)[k - 1], path[k])
<1> DEFINE N == Len(path)
           step == [a \in (1 .. N) \X Found |-> Descend(F, a[2], path[a[1]])]
           Follows(at) == at = [k \in 0 .. N |-> IF k = 0 THEN Root
                                                 ELSE Descend(F, at[k - 1], path[k])]
<1>1. N \in Nat /\ Root \in Found
  BY Named DEF Found
<1>2. step \in [(1 .. N) \X Found -> Found]
  BY DescendType
<1>3. PICK g \in [0 .. N -> Found] : g[0] = Root /\ \A k \in 1 .. N : g[k] = step[<<k, g[k - 1]>>]
  <2> HIDE DEF step, N
  <2>1. Turned(N, Found, Root, step)
    BY <1>1, <1>2, Recursion
  <2> QED
    BY <2>1 DEF Turned
<1>4. ASSUME NEW k \in 1 .. N
      PROVE  g[k] = Descend(F, g[k - 1], path[k])
  <2>1. g[k - 1] \in Found
    <3>1. k - 1 \in 0 .. N
      BY <1>1
    <3> QED
      BY <3>1
  <2>2. step[<<k, g[k - 1]>>] = Descend(F, g[k - 1], path[k])
    BY <2>1
  <2> QED
    BY <1>3, <2>2
<1>5. Follows(g)
  <2> DEFINE h == [k \in 0 .. N |-> IF k = 0 THEN Root ELSE Descend(F, g[k - 1], path[k])]
  <2>1. ASSUME NEW k \in 0 .. N
        PROVE  g[k] = h[k]
    <3>1. CASE k = 0
      BY <1>3, <3>1
    <3>2. CASE k # 0
      <4>1. k \in 1 .. N
        BY <1>1, <3>2
      <4> QED
        BY <1>4, <3>2, <4>1
    <3> QED
      BY <3>1, <3>2
  <2>2. DOMAIN g = 0 .. N /\ DOMAIN h = 0 .. N
    OBVIOUS
  <2>3. g = h
    <3> HIDE DEF h
    <3>1. h = [k \in 0 .. N |-> h[k]]
      BY <2>2 DEF h
    <3> QED
      BY <2>1, <3>1
  <2> QED
    BY <2>3
<1>6. Reached(F, path) = CHOOSE at : Follows(at)
  BY DEF Reached
<1>7. Follows(Reached(F, path))
  <2> HIDE DEF Follows
  <2> QED
    BY <1>5, <1>6
<1> DEFINE R == Reached(F, path)
<1>8. R = [k \in 0 .. N |-> IF k = 0 THEN Root ELSE Descend(F, R[k - 1], path[k])]
  BY <1>7
<1> HIDE DEF R
<1>9. R[0] = Root /\ \A k \in 1 .. N : R[k] = Descend(F, R[k - 1], path[k])
  BY <1>1, <1>8
<1> QED
  BY <1>9 DEF R

\* What a path leads to, and what its directory is.
LiveOrNone(F, i) == i = NoInode \/ (i \in Inodes /\ Live(F, i))

\* So do they; on a sane disk they end in a live inode or nowhere.
LEMMA ReachedType ==
  ASSUME NEW F \in Mounted, NEW path \in Seq(STRING)
  PROVE  /\ \A k \in 0 .. Len(path) : Reached(F, path)[k] \in Found
         /\ Sane(F) => \A k \in 0 .. Len(path) : LiveOrNone(F, Reached(F, path)[k])
<1> DEFINE R == Reached(F, path)
           N == Len(path)
           Typed_ == {k \in 0 .. N : R[k] \in Found}
           Alive == {k \in 0 .. N : LiveOrNone(F, R[k])}
<1>1. /\ N \in Nat /\ R[0] = Root
      /\ \A k \in 1 .. N : R[k] = Descend(F, R[k - 1], path[k])
  BY ReachedSteps
<1> HIDE DEF R, N
<1>2. 0 \in Typed_
  BY <1>1, Named DEF Found
<1>3. ASSUME NEW k \in 1 .. N, k - 1 \in Typed_
      PROVE  k \in Typed_
  <2>1. Descend(F, R[k - 1], path[k]) \in Found
    BY <1>3, DescendType
  <2> QED
    BY <1>1, <2>1
<1>4. \A k \in 0 .. N : k \in Typed_
  <2> HIDE DEF Typed_
  <2> QED
    BY <1>1, <1>2, <1>3, AllTurns
<1>5. ASSUME Sane(F)
      PROVE  \A k \in 0 .. N : k \in Alive
  <2>1. 0 \in Alive
    BY <1>1, <1>5, Named DEF Sane, LiveOrNone
  <2>2. ASSUME NEW k \in 1 .. N, k - 1 \in Alive
        PROVE  k \in Alive
    <3>1. R[k] = Descend(F, R[k - 1], path[k])
      BY <1>1
    <3>2. CASE R[k - 1] = NoInode
      <4>1. R[k] = NoInode
        BY <3>1, <3>2 DEF Descend, NoInode
      <4> QED
        BY <4>1 DEF LiveOrNone
    <3>3. CASE R[k - 1] \in Inodes /\ Live(F, R[k - 1])
      <4> DEFINE d == R[k - 1]
      <4>1. ~ (d < 0)
        BY <3>3 DEF Inodes
      <4>2. CASE ~ is_directory(F.inode[d])
        BY <3>1, <4>1, <4>2 DEF Descend, LiveOrNone
      <4>3. CASE is_directory(F.inode[d])
        <5>1. R[k] = find_inode_named(F, d, path[k])
          BY <3>1, <4>1, <4>3 DEF Descend
        <5>2. DirOK(F, d) /\ d \in Inodes
          BY <1>5, <3>3, <4>3 DEF Sane, DirsOK, IsDir
        <5> HIDE DEF d
        <5>3. CASE find_inode_named(F, d, path[k]) = NoInode
          BY <5>1, <5>3 DEF LiveOrNone
        <5>4. ASSUME NEW j \in EntriesOf(F, d), find_inode_named(F, d, path[k]) = EntryOf(F, d, j).ino
              PROVE  k \in Alive
          <6>1. EntryOf(F, d, j).ino \in Inodes
            BY <5>2, EntryType DEF DirOK, Cell
          <6>2. Live(F, EntryOf(F, d, j).ino)
            BY <5>2 DEF DirOK, EntryOK
          <6> QED
            BY <5>1, <5>4, <6>1, <6>2 DEF LiveOrNone
        <5> QED
          BY <5>2, <5>3, <5>4, FindTidy
      <4> QED
        BY <4>2, <4>3
    <3> QED
      BY <2>2, <3>2, <3>3 DEF LiveOrNone
  <2> HIDE DEF Alive
  <2> QED
    BY <1>1, <2>1, <2>2, AllTurns
<1> QED
  BY <1>4, <1>5 DEF R, N

\* What get_inode() and parent_directory() answer.
LEMMA Lookups ==
  ASSUME NEW F \in Mounted, NEW path \in Seq(STRING)
  PROVE  /\ get_inode(F, path) \in Found /\ parent_directory(F, path) \in Found
         /\ path = <<>> => get_inode(F, path) = Root
         /\ path # <<>> =>
              /\ Last(path) \in STRING
              /\ get_inode(F, path) = Descend(F, parent_directory(F, path), Last(path))
         /\ Sane(F) => LiveOrNone(F, get_inode(F, path)) /\ LiveOrNone(F, parent_directory(F, path))
<1> DEFINE N == Len(path)
<1>1. N \in 0 .. N /\ (path # <<>> => N - 1 \in 0 .. N /\ N \in 1 .. N)
  OBVIOUS
<1>2. path = <<>> => N = 0
  OBVIOUS
<1>3. path # <<>> => Last(path) = path[N] /\ path[N] \in STRING
  BY DEF Last
<1>4. get_inode(F, path) = Reached(F, path)[N]
  BY DEF get_inode
<1>5. parent_directory(F, path) = IF path = <<>> THEN Root ELSE Reached(F, path)[N - 1]
  BY DEF parent_directory
<1> HIDE DEF N
<1>6. get_inode(F, path) \in Found /\ parent_directory(F, path) \in Found
  BY <1>1, <1>4, <1>5, ReachedType, Named DEF N, Found
<1>7. path = <<>> => get_inode(F, path) = Root
  BY <1>2, <1>4, ReachedSteps
<1>8. path # <<>> => get_inode(F, path) = Descend(F, parent_directory(F, path), Last(path))
  BY <1>1, <1>3, <1>4, <1>5, ReachedSteps DEF N
<1>9. Sane(F) => LiveOrNone(F, get_inode(F, path)) /\ LiveOrNone(F, parent_directory(F, path))
  BY <1>1, <1>4, <1>5, ReachedType, Named DEF N, LiveOrNone, Sane
<1> QED
  BY <1>3, <1>6, <1>7, <1>8, <1>9

\* An entry of a directory is found by its name.
LEMMA FindsEntry ==
  ASSUME NEW F \in Mounted, NEW d \in Inodes, DirOK(F, d), NEW j \in EntriesOf(F, d)
  PROVE  find_inode_named(F, d, EntryOf(F, d, j).name) = EntryOf(F, d, j).ino
<1> DEFINE name == EntryOf(F, d, j).name
<1>1. PICK k \in EntriesOf(F, d) : /\ EntryOf(F, d, k).name = name
                                   /\ find_inode_named(F, d, name) = EntryOf(F, d, k).ino
  BY FindTidy
<1>2. k = j
  BY <1>1 DEF DirOK, NamesOnce
<1> QED
  BY <1>1, <1>2

\* While no entry is lost a path leads to where it led.
LEMMA ReachedKept ==
  ASSUME NEW F \in Mounted, NEW G \in Mounted, Sane(F), Sane(G), EntriesKept(F, G),
         NEW path \in Seq(STRING)
  PROVE  \A k \in 0 .. Len(path) :
           Reached(F, path)[k] \in Inodes => Reached(G, path)[k] = Reached(F, path)[k]
<1> DEFINE R == Reached(F, path)
           S == Reached(G, path)
           N == Len(path)
           Same_ == {k \in 0 .. N : R[k] \in Inodes => S[k] = R[k]}
<1>1. /\ N \in Nat /\ R[0] = Root /\ S[0] = Root
      /\ \A k \in 1 .. N : R[k] = Descend(F, R[k - 1], path[k]) /\ S[k] = Descend(G, S[k - 1], path[k])
  BY ReachedSteps
<1>2. \A k \in 0 .. N : LiveOrNone(F, R[k])
  BY ReachedType
<1> HIDE DEF R, S, N
<1>3. 0 \in Same_
  BY <1>1
<1>4. ASSUME NEW k \in 1 .. N, k - 1 \in Same_
      PROVE  k \in Same_
  <2> SUFFICES ASSUME R[k] \in Inodes
               PROVE  S[k] = R[k]
    BY <1>1
  <2> DEFINE d == R[k - 1]
             name == path[k]
  <2>1. R[k] = Descend(F, d, name) /\ S[k] = Descend(G, S[k - 1], name)
    BY <1>1
  <2>2. R[k] # NoInode
    BY Named
  <2>3. k - 1 \in 0 .. N
    BY <1>1
  <2>4. d \in Inodes /\ Live(F, d)
    <3>1. d # NoInode
      BY <2>1, <2>2 DEF Descend, NoInode
    <3> QED
      BY <1>2, <2>3, <3>1 DEF LiveOrNone
  <2>5. S[k - 1] = d
    BY <1>4, <2>4
  <2> HIDE DEF d, name
  <2>6. ~ (d < 0)
    BY <2>4 DEF Inodes
  <2>7. is_directory(F.inode[d]) /\ R[k] = find_inode_named(F, d, name)
    BY <2>1, <2>2, <2>6 DEF Descend
  <2>8. IsDir(F, d) /\ IsDir(G, d) /\ DirOK(F, d) /\ DirOK(G, d)
    BY <2>4, <2>7 DEF IsDir, EntriesKept, Sane, DirsOK
  <2>9. PICK j \in EntriesOf(F, d) : EntryOf(F, d, j).name = name /\ R[k] = EntryOf(F, d, j).ino
    BY <2>2, <2>4, <2>7, <2>8, FindTidy
  <2>10. j \in EntriesOf(G, d) /\ EntryOf(G, d, j) = EntryOf(F, d, j)
    <3>1. EntryOf(G, d, j) = EntryOf(F, d, j) /\ F.inode[d].size <= G.inode[d].size
      BY <2>4, <2>8 DEF EntriesKept
    <3>2. F.inode[d].size \in Int /\ G.inode[d].size \in Int
      BY <2>4, MountedFields, NodeFields
    <3> QED
      BY <3>1, <3>2 DEF EntriesOf
  <2>11. find_inode_named(G, d, name) = R[k]
    BY <2>4, <2>8, <2>9, <2>10, FindsEntry
  <2>12. S[k] = find_inode_named(G, d, name)
    BY <2>1, <2>5, <2>6, <2>8 DEF Descend, IsDir
  <2> QED
    BY <2>11, <2>12
<1>5. \A k \in 0 .. N : k \in Same_
  <2> HIDE DEF Same_
  <2> QED
    BY <1>1, <1>3, <1>4, AllTurns
<1> QED
  BY <1>5 DEF R, S, N

\* So do get_inode() and parent_directory().
LEMMA PathsKept ==
  ASSUME NEW F \in Mounted, NEW G \in Mounted, Sane(F), Sane(G), EntriesKept(F, G),
         NEW path \in Seq(STRING)
  PROVE  /\ get_inode(F, path) \in Inodes => get_inode(G, path) = get_inode(F, path)
         /\ parent_directory(F, path) \in Inodes => parent_directory(G, path) = parent_directory(F, path)
<1>1. Len(path) \in 0 .. Len(path) /\ (path # <<>> => Len(path) - 1 \in 0 .. Len(path))
  OBVIOUS
<1> QED
  BY <1>1, ReachedKept DEF get_inode, parent_directory

------------------------------------------------------------------------------
(* Changes of a disk.                                                       *)

\* An inode is replaced.
LEMMA SetNode ==
  ASSUME NEW F \in Mounted, NEW i \in Inodes, NEW node \in Node
  PROVE  /\ [F EXCEPT !.inode[i] = node] \in Mounted
         /\ [F EXCEPT !.inode[i] = node].inode = [F.inode EXCEPT ![i] = node]
         /\ [F EXCEPT !.inode[i] = node].used = F.used
         /\ [F EXCEPT !.inode[i] = node].data = F.data
         /\ Same(F, [F EXCEPT !.inode[i] = node])
BY DEF Mounted, Same

\* A block is replaced.
LEMMA SetData ==
  ASSUME NEW F \in Mounted, NEW b \in Blocks \cup {Unassigned}, NEW content \in Content
  PROVE  /\ [F EXCEPT !.data[b] = content] \in Mounted
         /\ [F EXCEPT !.data[b] = content].inode = F.inode
         /\ [F EXCEPT !.data[b] = content].used = F.used
         /\ [F EXCEPT !.data[b] = content].data = [F.data EXCEPT ![b] = content]
         /\ Same(F, [F EXCEPT !.data[b] = content])
BY DEF Mounted, Same

\* The map changes.
LEMMA SetUsed ==
  ASSUME NEW F \in Mounted, NEW bs \in SUBSET Blocks
  PROVE  /\ [F EXCEPT !.used = bs] \in Mounted
         /\ [F EXCEPT !.used = bs].inode = F.inode
         /\ [F EXCEPT !.used = bs].used = bs
         /\ [F EXCEPT !.used = bs].data = F.data
         /\ Same(F, [F EXCEPT !.used = bs])
BY DEF Mounted, Same

\* The inode first_unused_inode() answers is free.
LEMMA UnusedInode ==
  ASSUME NEW F \in Mounted
  PROVE  \/ first_unused_inode(F) = NoInode
         \/ first_unused_inode(F) \in Inodes \ {Root} /\ ~ Live(F, first_unused_inode(F))
<1> DEFINE free == {i \in Inodes \ {Root} : ~ Live(F, i)}
<1>1. free \in SUBSET Nat
  BY DEF Inodes
<1>2. free # {} => Least(free) \in free
  <2> HIDE DEF free
  <2> QED
    BY <1>1, LeastIn
<1> QED
  BY <1>2 DEF first_unused_inode

\* The block first_unused_data() answers is free.
LEMMA UnusedData ==
  ASSUME NEW F \in Mounted
  PROVE  \/ first_unused_data(F) = Unassigned
         \/ first_unused_data(F) \in Blocks \ F.used
<1> DEFINE free == {k \in DOMAIN F.order : F.order[k] \notin F.used}
<1>1. F.order \in Seq(Blocks)
  BY MountedFields
<1>2. DOMAIN F.order \in SUBSET Nat /\ \A k \in DOMAIN F.order : F.order[k] \in Blocks
  BY <1>1
<1>3. free # {} => Least(free) \in free
  <2>1. free \in SUBSET Nat
    BY <1>2
  <2> HIDE DEF free
  <2> QED
    BY <2>1, LeastIn
<1> QED
  BY <1>2, <1>3 DEF first_unused_data

\* Nothing but one block changes, which is neither a table in use nor holds an
\* entry of a directory.
LEMMA DataSane ==
  ASSUME NEW F \in Mounted, NEW G \in Mounted, Sane(F), NEW b,
         G.inode = F.inode, G.used = F.used,
         \A c \in Blocks \cup {Unassigned} : c # b => G.data[c] = F.data[c],
         \A i \in Inodes : Live(F, i) /\ F.inode[i].indirect # Unassigned => F.inode[i].indirect # b,
         \A d \in Inodes : IsDir(F, d) /\ F.inode[d].size > 0 => F.inode[d].direct[0] # b
  PROVE  Sane(G)
<1>1. \A i \in Inodes : Live(G, i) <=> Live(F, i)
  BY DEF Live
<1>2. \A i \in Inodes : F.inode[i].indirect \in Blocks \cup {Unassigned}
  BY MountedFields, NodeFields
<1>3. ASSUME NEW i \in Inodes, Live(F, i), F.inode[i].indirect # Unassigned
      PROVE  G.data[F.inode[i].indirect] = F.data[F.inode[i].indirect]
  BY <1>2, <1>3
<1>4. ASSUME NEW i \in Inodes, NEW p \in Place, Live(F, i)
      PROVE  NamedAt(G, i, p) = NamedAt(F, i, p)
  BY <1>3, <1>4, NamedSame
<1>5. OwnsOnce(G) /\ Marked(G)
  BY <1>1, <1>4, StillAccounted DEF Sane
<1>6. TablesOK(G)
  BY <1>1, <1>3 DEF TablesOK, IsTable, Sane
<1>7. \A d \in Inodes : IsDir(G, d) <=> IsDir(F, d)
  BY <1>1 DEF IsDir
<1>8. ASSUME NEW d \in Inodes, IsDir(F, d)
      PROVE  /\ \A j \in EntriesOf(F, d) : EntryOf(F, d, j).ino \in Inodes
             /\ F.inode[d].size > 0 =>
                  CellsOf(G, F.inode[d].direct[0]) = CellsOf(F, F.inode[d].direct[0])
  <2>1. FitsIn(F, d)
    BY <1>8 DEF Sane, DirsOK, DirOK
  <2>2. \A j \in EntriesOf(F, d) : EntryOf(F, d, j).ino \in Inodes
    BY <2>1, EntryType DEF Cell
  <2>3. F.inode[d].size > 0 => G.data[F.inode[d].direct[0]] = F.data[F.inode[d].direct[0]]
    BY <1>8, <2>1 DEF FitsIn
  <2> QED
    BY <2>2, <2>3 DEF CellsOf
<1>9. DirsOK(G)
  <2>1. DirsOK(F)
    BY DEF Sane
  <2> QED
    BY <1>1, <1>7, <1>8, <2>1, DirsStill
<1> QED
  BY <1>1, <1>5, <1>6, <1>9, Named DEF Sane

\* The places of a live inode are marked as used, and nobody else names them.
LEMMA PlaceUsed ==
  ASSUME NEW F \in Mounted, Sane(F), NEW i \in Inodes, Live(F, i)
  PROVE  /\ F.inode[i].indirect # Unassigned => F.inode[i].indirect \in F.used
         /\ IsDir(F, i) /\ F.inode[i].size > 0 =>
              /\ F.inode[i].direct[0] \in F.used /\ NamedAt(F, i, 0) = F.inode[i].direct[0]
              /\ \A j \in Inodes : Live(F, j) => F.inode[j].indirect # F.inode[i].direct[0]
         /\ \A j \in Inodes : Live(F, j) /\ j # i /\ F.inode[i].indirect # Unassigned =>
              F.inode[j].indirect # F.inode[i].indirect
<1>1. 0 \in Place /\ NumDirect \in Place /\ 0 < NumDirect /\ 0 # NumDirect
  BY Sizes DEF Place
<1>2. \A j \in Inodes : NamedAt(F, j, NumDirect) = F.inode[j].indirect
  BY Sizes DEF NamedAt
<1>3. NamedAt(F, i, 0) = F.inode[i].direct[0]
  BY <1>1 DEF NamedAt
<1>4. F.inode[i].indirect \in Blocks \cup {Unassigned}
  BY MountedFields, NodeFields
<1>5. F.inode[i].indirect # Unassigned => F.inode[i].indirect \in F.used
  BY <1>1, <1>2, <1>4 DEF Sane, Marked
<1>6. ASSUME IsDir(F, i) /\ F.inode[i].size > 0
      PROVE  /\ F.inode[i].direct[0] \in F.used /\ NamedAt(F, i, 0) = F.inode[i].direct[0]
             /\ \A j \in Inodes : Live(F, j) => F.inode[j].indirect # F.inode[i].direct[0]
  <2>1. F.inode[i].direct[0] \in Blocks
    BY <1>6 DEF Sane, DirsOK, DirOK, FitsIn
  <2>2. F.inode[i].direct[0] \in F.used
    BY <1>1, <1>3, <2>1 DEF Sane, Marked
  <2>3. ASSUME NEW j \in Inodes, Live(F, j)
        PROVE  F.inode[j].indirect # F.inode[i].direct[0]
    BY <1>1, <1>2, <1>3, <2>1, <2>3, Named DEF Sane, OwnsOnce
  <2> QED
    BY <1>3, <2>2, <2>3
<1>7. ASSUME NEW j \in Inodes, Live(F, j), j # i, F.inode[i].indirect # Unassigned
      PROVE  F.inode[j].indirect # F.inode[i].indirect
  BY <1>1, <1>2, <1>7 DEF Sane, OwnsOnce
<1> QED
  BY <1>5, <1>6, <1>7

\* A table is one as long as its block does not change.
LEMMA TableSame ==
  ASSUME NEW F, NEW G, NEW t, G.data[t] = F.data[t], IsTable(F, t)
  PROVE  IsTable(G, t)
BY DEF IsTable

\* A block that was not in use is given to a place of a live inode.
LEMMA GivenSane ==
  ASSUME NEW F \in Mounted, NEW G \in Mounted, Sane(F), NEW i \in Inodes, Live(F, i),
         NEW b \in Blocks, b \notin F.used, G.used = F.used \cup {b},
         \A j \in Inodes : j # i => G.inode[j] = F.inode[j],
         Live(G, i), G.inode[i].mode = F.inode[i].mode, G.inode[i].size = F.inode[i].size,
         NEW r \in Place, NamedAt(F, i, r) = Unassigned,
         \A p \in Place : NamedAt(G, i, p) = IF p = r THEN b ELSE NamedAt(F, i, p),
         \A c \in Blocks \cup {Unassigned} :
           c # b /\ c # F.inode[i].indirect => G.data[c] = F.data[c],
         G.inode[i].indirect # Unassigned => IsTable(G, G.inode[i].indirect)
  PROVE  Sane(G) /\ Undisturbed(F, G, Inodes)
<1>1. \A j \in Inodes : Live(F, j) <=> Live(G, j)
  BY DEF Live
<1>2. ASSUME NEW j \in Inodes, Live(F, j), j # i, F.inode[j].indirect # Unassigned
      PROVE  G.data[F.inode[j].indirect] = F.data[F.inode[j].indirect]
  <2>1. F.inode[j].indirect \in Blocks \cup {Unassigned}
    BY MountedFields, NodeFields
  <2>2. F.inode[j].indirect # b /\ F.inode[j].indirect # F.inode[i].indirect
    BY <1>2, PlaceUsed
  <2> QED
    BY <2>1, <2>2
<1>3. ASSUME NEW j \in Inodes, NEW p \in Place, Live(F, j)
      PROVE  NamedAt(G, j, p) = IF j = i /\ p = r THEN b ELSE NamedAt(F, j, p)
  <2>1. CASE j = i
    BY <2>1
  <2>2. CASE j # i
    <3>1. G.inode[j] = F.inode[j]
      BY <2>2
    <3>2. NamedAt(G, j, p) = NamedAt(F, j, p)
      BY <1>2, <1>3, <2>2, <3>1, NamedSame
    <3> QED
      BY <2>2, <3>2
  <2> QED
    BY <2>1, <2>2
<1>4. OwnsOnce(G) /\ Marked(G)
  BY <1>1, <1>3, GivenAccounted DEF Sane
<1>5. TablesOK(G)
  <2>1. ASSUME NEW j \in Inodes, Live(G, j), G.inode[j].indirect # Unassigned, j # i
        PROVE  IsTable(G, G.inode[j].indirect)
    <3>1. G.inode[j] = F.inode[j] /\ Live(F, j)
      BY <1>1, <2>1
    <3>2. IsTable(F, F.inode[j].indirect)
      BY <2>1, <3>1 DEF Sane, TablesOK
    <3>3. G.data[F.inode[j].indirect] = F.data[F.inode[j].indirect]
      BY <1>2, <2>1, <3>1
    <3>4. IsTable(G, F.inode[j].indirect)
      BY <3>2, <3>3, TableSame
    <3> QED
      BY <3>1, <3>4
  <2> QED
    BY <2>1 DEF TablesOK
<1>6. \A d \in Inodes : IsDir(G, d) <=> IsDir(F, d)
  BY <1>1 DEF IsDir, is_directory, TypeOf
<1>7. ASSUME NEW d \in Inodes, IsDir(F, d)
      PROVE  \A j \in EntriesOf(F, d) : EntryOf(F, d, j).ino \in Inodes
  <2>1. FitsIn(F, d)
    BY <1>7 DEF Sane, DirsOK, DirOK
  <2> QED
    BY <2>1, EntryType DEF Cell
<1>8. ASSUME NEW d \in Inodes, IsDir(F, d)
      PROVE  /\ G.inode[d].size = F.inode[d].size
             /\ F.inode[d].size > 0 =>
                  /\ G.inode[d].direct[0] = F.inode[d].direct[0]
                  /\ CellsOf(G, F.inode[d].direct[0]) = CellsOf(F, F.inode[d].direct[0])
  <2>1. G.inode[d].size = F.inode[d].size
    BY <1>8
  <2>2. ASSUME F.inode[d].size > 0
        PROVE  CellsOf(G, F.inode[d].direct[0]) = CellsOf(F, F.inode[d].direct[0])
    <3>1. F.inode[d].direct[0] \in Blocks
      BY <1>8, <2>2 DEF Sane, DirsOK, DirOK, FitsIn
    <3>2. F.inode[d].direct[0] # b /\ F.inode[d].direct[0] # F.inode[i].indirect
      BY <1>8, <2>2, PlaceUsed DEF IsDir
    <3>3. G.data[F.inode[d].direct[0]] = F.data[F.inode[d].direct[0]]
      BY <3>1, <3>2
    <3> QED
      BY <3>3 DEF CellsOf
  <2>3. ASSUME F.inode[d].size > 0
        PROVE  G.inode[d].direct[0] = F.inode[d].direct[0]
    <3>1. CASE d # i
      BY <3>1
    <3>2. CASE d = i
      <4>1. 0 \in Place /\ 0 < NumDirect
        BY Sizes DEF Place
      <4>2. F.inode[i].direct[0] \in Blocks /\ NamedAt(F, i, 0) = F.inode[i].direct[0]
        BY <1>8, <2>3, <3>2, PlaceUsed DEF IsDir, Sane, DirsOK, DirOK, FitsIn
      <4>3. r # 0
        BY <4>2, Named
      <4>4. NamedAt(G, i, 0) = G.inode[i].direct[0]
        BY <4>1 DEF NamedAt
      <4> QED
        BY <3>2, <4>1, <4>2, <4>3, <4>4
    <3> QED
      BY <3>1, <3>2
  <2> QED
    BY <2>1, <2>2, <2>3
<1>9. DirsOK(G)
  <2>1. DirsOK(F)
    BY DEF Sane
  <2> QED
    BY <1>1, <1>6, <1>7, <1>8, <2>1, DirsStill
<1>10. ASSUME NEW j \in Inodes, Live(F, j), NEW p \in DataPlace, NamedAt(F, j, p) \in Blocks
       PROVE  /\ NamedAt(G, j, p) = NamedAt(F, j, p)
              /\ CellsOf(G, NamedAt(F, j, p)) = CellsOf(F, NamedAt(F, j, p))
  <2> DEFINE c == NamedAt(F, j, p)
  <2>1. p \in Place /\ p # NumDirect /\ NumDirect \in Place
    BY Sizes DEF DataPlace, Place
  <2>2. NamedAt(G, j, p) = c
    BY <1>3, <1>10, <2>1, Named
  <2>3. c # b
    BY <1>10, <2>1 DEF Sane, Marked
  <2>4. c # F.inode[i].indirect
    <3>1. NamedAt(F, i, NumDirect) = F.inode[i].indirect
      BY Sizes DEF NamedAt
    <3> QED
      BY <1>10, <2>1, <3>1, Named DEF Sane, OwnsOnce
  <2>5. G.data[c] = F.data[c]
    BY <1>10, <2>3, <2>4
  <2> QED
    BY <2>2, <2>5 DEF CellsOf
<1>11. Undisturbed(F, G, Inodes)
  <2>1. \A j \in Inodes : Live(F, j) => DataKept(F, G, j)
    BY <1>10 DEF DataKept
  <2> QED
    BY <1>1, <2>1 DEF Undisturbed
<1> QED
  BY <1>1, <1>4, <1>5, <1>9, <1>11, Named DEF Sane

\* What a call that gives blocks to an inode keeps.
StepOn(F, G, i) ==
  /\ G \in Mounted /\ Same(F, G)
  /\ G.inode[i].mode = F.inode[i].mode /\ G.inode[i].size = F.inode[i].size
  /\ Live(F, i) => Live(G, i)
  /\ Sane(F) /\ Live(F, i) => Sane(G) /\ Undisturbed(F, G, Inodes)

\* Such calls may follow each other.
LEMMA StepTwice ==
  ASSUME NEW F, NEW G, NEW H, NEW i, StepOn(F, G, i), StepOn(G, H, i)
  PROVE  StepOn(F, H, i)
<1>1. Sane(F) /\ Live(F, i) => Sane(H) /\ Undisturbed(F, H, Inodes)
  BY UndisturbedTwice DEF StepOn
<1> QED
  BY <1>1 DEF StepOn, Same

\* And one may do nothing.
LEMMA StepStill ==
  ASSUME NEW F \in Mounted, NEW i
  PROVE  StepOn(F, F, i)
BY UndisturbedStill DEF StepOn, Same

\* add_data_block_to_inode() gives a free block to the first direct number that
\* has none.
LEMMA AddDirect ==
  ASSUME NEW F \in Mounted, NEW i \in Inodes
  PROVE  LET A == add_data_block_to_inode(F, i)
         IN /\ StepOn(F, A.fs, i) /\ A.block \in Blocks \cup {Unassigned}
            /\ A.fs.inode[i].indirect = F.inode[i].indirect
            /\ (\E k \in Slots : F.inode[i].direct[k] = Unassigned) /\ A.block # Unassigned =>
                 \E k \in Slots :
                   /\ F.inode[i].direct[k] = Unassigned /\ A.fs.inode[i].direct[k] = A.block
                   /\ \A m \in Slots : F.inode[i].direct[m] = Unassigned => k <= m
<1> DEFINE A == add_data_block_to_inode(F, i)
           free == {k \in Slots : F.inode[i].direct[k] = Unassigned}
           b == first_unused_data(F)
           k == Least(free)
           direct == [F.inode[i].direct EXCEPT ![k] = b]
           node == [F.inode[i] EXCEPT !.direct = direct]
           U == [F EXCEPT !.used = F.used \cup {b}]
           G == [U EXCEPT !.inode[i] = node]
<1>1. CASE free = {}
  <2>1. A = Added(F, 0)
    BY <1>1 DEF add_data_block_to_inode
  <2>2. A.fs = F /\ A.block = 0
    BY <2>1 DEF Added
  <2> QED
    BY <1>1, <2>2, Named, StepStill
<1>2. CASE free # {} /\ b = Unassigned
  <2>1. A = Added(F, Unassigned)
    BY <1>2 DEF add_data_block_to_inode
  <2>2. A.fs = F /\ A.block = Unassigned
    BY <2>1 DEF Added
  <2> QED
    BY <2>2, StepStill
<1>3. CASE free # {} /\ b # Unassigned
  <2>1. A = Added([Use(F, b) EXCEPT !.inode[i].direct[k] = b], b)
    BY <1>3 DEF add_data_block_to_inode
  <2>2. Use(F, b) = U
    BY DEF Use
  <2>3. b \in Blocks /\ b \notin F.used
    BY <1>3, UnusedData
  <2>4. /\ k \in Slots /\ F.inode[i].direct[k] = Unassigned
        /\ \A m \in Slots : F.inode[i].direct[m] = Unassigned => k <= m
    <3>1. free \in SUBSET Nat
      BY DEF Slots
    <3>2. k \in free /\ \A m \in free : k <= m
      <4> HIDE DEF free
      <4> QED
        BY <1>3, <3>1, LeastIn
    <3> HIDE DEF k
    <3> QED
      BY <3>2
  <2> HIDE DEF b, k
  <2>5. U \in Mounted /\ U.inode = F.inode /\ U.used = F.used \cup {b} /\ U.data = F.data /\ Same(F, U)
    <3>1. F.used \cup {b} \in SUBSET Blocks
      BY <2>3, MountedFields
    <3> QED
      BY <3>1, SetUsed
  <2> HIDE DEF U
  <2>6. F.inode[i] \in Node /\ F.inode[i].direct \in [Slots -> Blocks \cup {Unassigned}]
    BY MountedFields, NodeFields
  <2>7. direct \in [Slots -> Blocks \cup {Unassigned}] /\ direct[k] = b
        /\ \A m \in Slots : m # k => direct[m] = F.inode[i].direct[m]
    BY <2>3, <2>4, <2>6
  <2>8. [U EXCEPT !.inode[i].direct[k] = b] = G
    BY <2>5
  <2> HIDE DEF direct
  <2>9. /\ node \in Node /\ node.direct = direct /\ node.mode = F.inode[i].mode
        /\ node.size = F.inode[i].size /\ node.nlink = F.inode[i].nlink
        /\ node.indirect = F.inode[i].indirect
    BY <2>6, <2>7 DEF Node, Inode
  <2> HIDE DEF node
  <2>10. G \in Mounted /\ G.inode = [F.inode EXCEPT ![i] = node] /\ G.used = F.used \cup {b}
         /\ G.data = F.data /\ Same(F, G)
    BY <2>5, <2>9, SetNode DEF Same
  <2> HIDE DEF G
  <2>11. G.inode[i] = node /\ \A j \in Inodes : j # i => G.inode[j] = F.inode[j]
    BY <2>10, MountedFields
  <2>12. A.fs = G /\ A.block = b
    BY <2>1, <2>2, <2>8 DEF Added
  <2>13. Live(F, i) => Live(G, i)
    BY <2>9, <2>11 DEF Live
  <2>14. ASSUME Sane(F), Live(F, i)
         PROVE  Sane(G) /\ Undisturbed(F, G, Inodes)
    <3>1. k \in Place /\ k < NumDirect
      BY <2>4, Sizes DEF Slots, Place
    <3>2. NamedAt(F, i, k) = Unassigned
      BY <2>4, <3>1 DEF NamedAt
    <3>3. ASSUME NEW p \in Place
          PROVE  NamedAt(G, i, p) = IF p = k THEN b ELSE NamedAt(F, i, p)
      <4>1. CASE p < NumDirect
        <5>1. p \in Slots
          BY <4>1, Sizes DEF Slots, Place
        <5>2. NamedAt(G, i, p) = direct[p] /\ NamedAt(F, i, p) = F.inode[i].direct[p]
          BY <2>9, <2>11, <4>1 DEF NamedAt
        <5> QED
          BY <2>7, <5>1, <5>2
      <4>2. CASE ~ (p < NumDirect)
        <5>1. p # k
          BY <3>1, <4>2
        <5>2. NamedAt(G, i, p) = NamedAt(F, i, p)
          BY <2>9, <2>10, <2>11, <4>2 DEF NamedAt, Number
        <5> QED
          BY <5>1, <5>2
      <4> QED
        BY <4>1, <4>2
    <3>4. G.inode[i].indirect # Unassigned => IsTable(G, G.inode[i].indirect)
      BY <2>9, <2>10, <2>11, <2>14 DEF Sane, TablesOK, IsTable
    <3> QED
      BY <2>3, <2>9, <2>10, <2>11, <2>13, <2>14, <3>1, <3>2, <3>3, <3>4, GivenSane
  <2>15. StepOn(F, G, i)
    BY <2>9, <2>10, <2>11, <2>13, <2>14 DEF StepOn
  <2> QED
    BY <2>3, <2>4, <2>7, <2>9, <2>11, <2>12, <2>15
<1> QED
  BY <1>1, <1>2, <1>3

\* A table of which no number is assigned.
NoNumbers == Table([n \in 0 .. NumIndirect - 1 |-> Unassigned])

\* It is a table that a block may hold.
LEMMA NoNumbersType ==
  /\ NoNumbers \in Content /\ NoNumbers.as = "table"
  /\ \A n \in 0 .. NumIndirect - 1 : NoNumbers.at[n] = Unassigned
BY DEF NoNumbers, Table, Content, Numbers

\* add_single_indirect_block() gives an inode a table that names no block.
LEMMA AddTable ==
  ASSUME NEW F \in Mounted, NEW i \in Inodes
  PROVE  LET A == add_single_indirect_block(F, i)
         IN /\ StepOn(F, A.fs, i) /\ A.block \in Blocks \cup {Unassigned}
            /\ A.block # Unassigned => A.fs.inode[i].indirect = A.block
<1> DEFINE A == add_single_indirect_block(F, i)
           b == first_unused_data(F)
           old == F.inode[i]
           node == [old EXCEPT !.indirect = b, !.nlink = 1]
           U == [F EXCEPT !.used = F.used \cup {b}]
           V == [U EXCEPT !.inode[i] = node]
           G == [V EXCEPT !.data[b] = NoNumbers]
<1>1. old \in Node /\ old.indirect \in Blocks \cup {Unassigned}
  BY MountedFields, NodeFields
<1>2. CASE old.indirect # Unassigned
  <2>1. A = Added(F, old.indirect)
    BY <1>2 DEF add_single_indirect_block
  <2>2. A.fs = F /\ A.block = old.indirect
    BY <2>1 DEF Added
  <2> QED
    BY <1>1, <2>2, StepStill
<1>3. CASE old.indirect = Unassigned /\ b = Unassigned
  <2>1. A = Added(F, Unassigned)
    BY <1>3 DEF add_single_indirect_block
  <2>2. A.fs = F /\ A.block = Unassigned
    BY <2>1 DEF Added
  <2> QED
    BY <2>2, StepStill
<1>4. CASE old.indirect = Unassigned /\ b # Unassigned
  <2>1. A = Added([Use(F, b) EXCEPT !.inode[i].indirect = b, !.inode[i].nlink = 1,
                                    !.data[b] = NoNumbers], b)
    BY <1>4 DEF add_single_indirect_block, NoNumbers
  <2>2. Use(F, b) = U
    BY DEF Use
  <2>3. b \in Blocks /\ b \notin F.used
    BY <1>4, UnusedData
  <2> HIDE DEF b
  <2>4. U \in Mounted /\ U.inode = F.inode /\ U.used = F.used \cup {b} /\ U.data = F.data /\ Same(F, U)
    <3>1. F.used \cup {b} \in SUBSET Blocks
      BY <2>3, MountedFields
    <3> QED
      BY <3>1, SetUsed
  <2> HIDE DEF U
  <2>5. [U EXCEPT !.inode[i].indirect = b, !.inode[i].nlink = 1, !.data[b] = NoNumbers] = G
    <3>1. [U EXCEPT !.inode[i].indirect = b, !.inode[i].nlink = 1] = V
      <4>1. U.inode \in [Inodes -> Node] /\ U.inode[i] = old
        BY <2>4, MountedFields
      <4> DEFINE half == [old EXCEPT !.indirect = b]
      <4>2. [U EXCEPT !.inode[i].indirect = b] = [U EXCEPT !.inode[i] = half]
        BY <4>1
      <4> HIDE DEF half
      <4> DEFINE W == [U EXCEPT !.inode[i] = half]
      <4>3. W.inode[i] = half
        BY <2>4, <4>1 DEF Mounted
      <4>4. [W EXCEPT !.inode[i].nlink = 1] = [W EXCEPT !.inode[i] = [half EXCEPT !.nlink = 1]]
        <5> HIDE DEF W
        <5> QED
          BY <4>3
      <4>5. [half EXCEPT !.nlink = 1] = node
        BY DEF half
      <4> HIDE DEF node
      <4>6. [W EXCEPT !.inode[i] = node] = V
        BY <2>4, <4>1 DEF Mounted
      <4> QED
        BY <4>2, <4>4, <4>5, <4>6
    <3> HIDE DEF V
    <3> QED
      BY <3>1
  <2>6. /\ node \in Node /\ node.direct = old.direct /\ node.mode = old.mode
        /\ node.size = old.size /\ node.nlink = 1 /\ node.indirect = b
    BY <1>1, <2>3 DEF Node, Inode
  <2> HIDE DEF node
  <2>7. V \in Mounted /\ V.inode = [F.inode EXCEPT ![i] = node] /\ V.used = F.used \cup {b}
        /\ V.data = F.data /\ Same(F, V)
    BY <2>4, <2>6, SetNode DEF Same
  <2> HIDE DEF V
  <2>8. G \in Mounted /\ G.inode = [F.inode EXCEPT ![i] = node] /\ G.used = F.used \cup {b}
        /\ G.data = [F.data EXCEPT ![b] = NoNumbers] /\ Same(F, G)
    BY <2>3, <2>7, NoNumbersType, SetData DEF Same
  <2> HIDE DEF G
  <2>9. G.inode[i] = node /\ \A j \in Inodes : j # i => G.inode[j] = F.inode[j]
    BY <2>8, MountedFields
  <2>10. A.fs = G /\ A.block = b
    BY <2>1, <2>2, <2>5 DEF Added
  <2>11. Live(G, i)
    BY <2>6, <2>9 DEF Live
  <2>12. G.data[b] = NoNumbers /\ \A c \in Blocks \cup {Unassigned} : c # b => G.data[c] = F.data[c]
    BY <2>3, <2>8, MountedFields
  <2>13. ASSUME Sane(F), Live(F, i)
         PROVE  Sane(G) /\ Undisturbed(F, G, Inodes)
    <3>1. NumDirect \in Place
      BY Sizes DEF Place
    <3>2. NamedAt(F, i, NumDirect) = Unassigned
      BY <1>4, Sizes DEF NamedAt
    <3>3. ASSUME NEW p \in Place
          PROVE  NamedAt(G, i, p) = IF p = NumDirect THEN b ELSE NamedAt(F, i, p)
      <4>1. CASE p < NumDirect
        BY <2>6, <2>9, <4>1, Sizes DEF NamedAt
      <4>2. CASE p = NumDirect
        BY <2>6, <2>9, <4>2, Sizes DEF NamedAt
      <4>3. CASE ~ (p < NumDirect) /\ p # NumDirect
        <5>1. p - NumDirect - 1 \in 0 .. NumIndirect - 1
          BY <4>3, Sizes DEF Place
        <5>2. NamedAt(F, i, p) = Unassigned
          BY <1>4, <4>3 DEF NamedAt
        <5>3. NamedAt(G, i, p) = Number(G, b, p - NumDirect - 1)
          BY <2>3, <2>6, <2>9, <4>3, Named DEF NamedAt
        <5>4. Number(G, b, p - NumDirect - 1) = Unassigned
          BY <2>12, <5>1, NoNumbersType DEF Number
        <5> QED
          BY <4>3, <5>2, <5>3, <5>4
      <4> QED
        BY <4>1, <4>2, <4>3
    <3>4. IsTable(G, G.inode[i].indirect)
      BY <2>6, <2>9, <2>12, NoNumbersType DEF IsTable
    <3>5. \A c \in Blocks \cup {Unassigned} : c # b /\ c # F.inode[i].indirect => G.data[c] = F.data[c]
      BY <2>12
    <3> QED
      <4>1. G.inode[i].mode = F.inode[i].mode /\ G.inode[i].size = F.inode[i].size
        BY <2>6, <2>9
      <4>2. G.used = F.used \cup {b} /\ G \in Mounted
        BY <2>8
      <4>3. \A j \in Inodes : j # i => G.inode[j] = F.inode[j]
        BY <2>9
      <4> QED
        BY <2>3, <2>11, <2>13, <3>1, <3>2, <3>3, <3>4, <3>5, <4>1, <4>2, <4>3, GivenSane
  <2>14. StepOn(F, G, i)
    BY <2>6, <2>8, <2>9, <2>11, <2>13 DEF StepOn
  <2> QED
    BY <1>4, <2>3, <2>6, <2>9, <2>10, <2>14
<1> QED
  BY <1>2, <1>3, <1>4

\* add_data_block_to_indirect_block() gives a free block to the first number of the
\* table that has none, which free_inode walks when the number asked for is one
\* that it walks.
LEMMA AddToTable ==
  ASSUME NEW F \in Mounted, NEW i \in Inodes, NEW t \in Blocks, F.inode[i].indirect = t,
         NEW m \in Slots, Number(F, t, m) = Unassigned
  PROVE  LET A == add_data_block_to_indirect_block(F, t)
         IN /\ StepOn(F, A.fs, i) /\ A.block \in Blocks \cup {Unassigned}
            /\ A.fs.inode = F.inode
            /\ A.block # Unassigned =>
                 \E n \in Slots :
                   /\ Number(F, t, n) = Unassigned /\ Number(A.fs, t, n) = A.block
                   /\ \A l \in Slots : Number(F, t, l) = Unassigned => n <= l
<1> DEFINE A == add_data_block_to_indirect_block(F, t)
           free == {n \in 0 .. NumIndirect - 1 : Number(F, t, n) = Unassigned}
           b == first_unused_data(F)
           k == Least(free)
           old == F.data[t]
           at == [old.at EXCEPT ![k] = b]
           table == [old EXCEPT !.at = at]
           U == [F EXCEPT !.used = F.used \cup {b}]
           G == [U EXCEPT !.data[t] = table]
<1>1. m \in free
  BY Sizes DEF Slots
<1>2. /\ k \in Slots /\ k \in 0 .. NumIndirect - 1 /\ Number(F, t, k) = Unassigned
      /\ \A l \in Slots : Number(F, t, l) = Unassigned => k <= l
  <2>1. free \in SUBSET Nat
    OBVIOUS
  <2>2. k \in free /\ \A l \in free : k <= l
    <3> HIDE DEF free
    <3> QED
      BY <1>1, <2>1, LeastIn
  <2>3. \A l \in Slots : l \in 0 .. NumIndirect - 1
    BY Sizes DEF Slots
  <2> HIDE DEF k
  <2> QED
    BY <1>1, <2>2, <2>3, Sizes DEF Slots
<1>3. old \in Content /\ old.as = "table" /\ old.at \in [0 .. NumIndirect - 1 -> Numbers]
  <2>1. old \in Content
    BY MountedFields
  <2>2. old.as = "table"
    <3>1. ASSUME F.data[t].as # "table"
          PROVE  Number(F, t, k) \in {0, Null}
      BY <3>1 DEF Number
    <3>2. Unassigned \notin {0, Null}
      BY DEF Unassigned, Null
    <3> HIDE DEF k
    <3> QED
      BY <1>2, <3>1, <3>2
  <2> QED
    BY <2>1, <2>2 DEF Content
<1> HIDE DEF k
<1>4. CASE b = Unassigned
  <2>1. A = Added(F, Unassigned)
    BY <1>1, <1>4 DEF add_data_block_to_indirect_block
  <2>2. A.fs = F /\ A.block = Unassigned
    BY <2>1 DEF Added
  <2> QED
    BY <2>2, StepStill
<1>5. CASE b # Unassigned
  <2>1. A = Added([Use(F, b) EXCEPT !.data[t].at[k] = b], b)
    BY <1>1, <1>5 DEF add_data_block_to_indirect_block, k
  <2>2. Use(F, b) = U
    BY DEF Use
  <2>3. b \in Blocks /\ b \notin F.used
    BY <1>5, UnusedData
  <2> HIDE DEF b
  <2>4. U \in Mounted /\ U.inode = F.inode /\ U.used = F.used \cup {b} /\ U.data = F.data /\ Same(F, U)
    <3>1. F.used \cup {b} \in SUBSET Blocks
      BY <2>3, MountedFields
    <3> QED
      BY <3>1, SetUsed
  <2> HIDE DEF U
  <2>5. [U EXCEPT !.data[t].at[k] = b] = G
    BY <2>4
  <2>6. at \in [0 .. NumIndirect - 1 -> Numbers] /\ at[k] = b
        /\ \A n \in 0 .. NumIndirect - 1 : n # k => at[n] = old.at[n]
    BY <1>2, <1>3, <2>3 DEF Numbers
  <2> HIDE DEF at
  <2>7. table \in Content /\ table.as = "table" /\ table.at = at
    BY <1>3, <2>6 DEF Content
  <2> HIDE DEF table
  <2>8. G \in Mounted /\ G.inode = F.inode /\ G.used = F.used \cup {b}
        /\ G.data = [F.data EXCEPT ![t] = table] /\ Same(F, G)
    BY <2>4, <2>7, SetData DEF Same
  <2> HIDE DEF G
  <2>9. A.fs = G /\ A.block = b
    BY <2>1, <2>2, <2>5 DEF Added
  <2>10. G.data[t] = table /\ \A c \in Blocks \cup {Unassigned} : c # t => G.data[c] = F.data[c]
    BY <2>8, MountedFields
  <2>11. \A n \in 0 .. NumIndirect - 1 :
           Number(G, t, n) = IF n = k THEN b ELSE Number(F, t, n)
    BY <1>3, <2>6, <2>7, <2>10 DEF Number
  <2>12. ASSUME Sane(F), Live(F, i)
         PROVE  Sane(G) /\ Undisturbed(F, G, Inodes)
    <3> DEFINE r == NumDirect + 1 + k
    <3>1. r \in Place /\ r > NumDirect /\ r - NumDirect - 1 = k
      BY <1>2, Sizes DEF Place
    <3>2. t # Unassigned
      BY Named
    <3> HIDE DEF r
    <3>3. NamedAt(F, i, r) = Unassigned
      <4>1. ~ (r < NumDirect) /\ ~ (r = NumDirect)
        BY <1>2, Sizes DEF r
      <4>2. NamedAt(F, i, r) = Number(F, t, r - NumDirect - 1)
        BY <3>2, <4>1 DEF NamedAt
      <4> QED
        BY <1>2, <3>1, <4>2
    <3>4. ASSUME NEW p \in Place
          PROVE  NamedAt(G, i, p) = IF p = r THEN b ELSE NamedAt(F, i, p)
      <4>1. CASE p < NumDirect \/ p = NumDirect
        <5>1. NamedAt(G, i, p) = NamedAt(F, i, p)
          BY <2>8, <4>1 DEF NamedAt
        <5>2. p # r
          BY <3>1, <4>1, Sizes DEF Place
        <5> QED
          BY <5>1, <5>2
      <4>2. CASE ~ (p < NumDirect \/ p = NumDirect)
        <5>1. p - NumDirect - 1 \in 0 .. NumIndirect - 1 /\ (p = r <=> p - NumDirect - 1 = k)
          BY <3>1, <4>2, Sizes DEF Place, r
        <5>2. NamedAt(G, i, p) = Number(G, t, p - NumDirect - 1)
          BY <2>8, <3>2, <4>2 DEF NamedAt
        <5>3. NamedAt(F, i, p) = Number(F, t, p - NumDirect - 1)
          BY <3>2, <4>2 DEF NamedAt
        <5> QED
          BY <2>11, <5>1, <5>2, <5>3
      <4> QED
        BY <4>1, <4>2
    <3>5. IsTable(G, t)
      <4>1. IsTable(F, t)
        BY <2>12, <3>2 DEF Sane, TablesOK
      <4>2. ASSUME NEW n \in 0 .. NumIndirect - 1
            PROVE  /\ G.data[t].at[n] \in Blocks \cup {Unassigned}
                   /\ n >= NumDirect => G.data[t].at[n] = Unassigned
        <5>1. CASE n = k
          <6>1. ~ (n >= NumDirect)
            BY <1>2, <5>1, Sizes DEF Slots
          <6> QED
            BY <2>3, <2>6, <2>7, <2>10, <5>1, <6>1
        <5>2. CASE n # k
          <6>1. G.data[t].at[n] = F.data[t].at[n]
            BY <2>6, <2>7, <2>10, <5>2
          <6> QED
            BY <4>1, <6>1 DEF IsTable
        <5> QED
          BY <5>1, <5>2
      <4> QED
        BY <2>7, <2>10, <4>2 DEF IsTable
    <3>6. Live(G, i) /\ G.inode[i].mode = F.inode[i].mode /\ G.inode[i].size = F.inode[i].size
          /\ \A j \in Inodes : j # i => G.inode[j] = F.inode[j]
      BY <2>8, <2>12 DEF Live
    <3>7. G.inode[i].indirect # Unassigned => IsTable(G, G.inode[i].indirect)
      BY <2>8, <3>5
    <3>8. \A c \in Blocks \cup {Unassigned} : c # b /\ c # F.inode[i].indirect => G.data[c] = F.data[c]
      BY <2>10
    <3>9. G.used = F.used \cup {b} /\ G \in Mounted
      BY <2>8
    <3> QED
      BY <2>3, <2>12, <3>1, <3>3, <3>4, <3>6, <3>7, <3>8, <3>9, GivenSane
  <2>13. StepOn(F, G, i)
    BY <2>8, <2>12 DEF StepOn, Live
  <2>14. Number(G, t, k) = b
    BY <1>2, <2>11
  <2> QED
    BY <1>2, <2>3, <2>8, <2>9, <2>13, <2>14
<1> QED
  BY <1>4, <1>5

\* A block of inode i that is neither a table nor the first one of another directory.
HoldsData(F, i, b) ==
  /\ b \in Blocks
  /\ \E p \in DataPlace : NamedAt(F, i, p) = b
  /\ \A j \in Inodes : Live(F, j) /\ F.inode[j].indirect # Unassigned => F.inode[j].indirect # b
  /\ \A d \in Inodes : IsDir(F, d) /\ d # i /\ F.inode[d].size > 0 => F.inode[d].direct[0] # b

\* A place of inode i other than that of its table names such a block.
LEMMA NamedHoldsData ==
  ASSUME NEW F \in Mounted, Sane(F), NEW i \in Inodes, Live(F, i), NEW p \in Place, p # NumDirect,
         NamedAt(F, i, p) \in Blocks
  PROVE  HoldsData(F, i, NamedAt(F, i, p))
<1> DEFINE b == NamedAt(F, i, p)
<1>1. NumDirect \in Place /\ 0 \in Place /\ 0 < NumDirect
  BY Sizes DEF Place
<1>2. ASSUME NEW j \in Inodes, Live(F, j), F.inode[j].indirect # Unassigned
      PROVE  F.inode[j].indirect # b
  <2>1. NamedAt(F, j, NumDirect) = F.inode[j].indirect
    BY Sizes DEF NamedAt
  <2> QED
    BY <1>1, <1>2, <2>1 DEF Sane, OwnsOnce
<1>3. ASSUME NEW d \in Inodes, IsDir(F, d), d # i, F.inode[d].size > 0
      PROVE  F.inode[d].direct[0] # b
  <2>1. NamedAt(F, d, 0) = F.inode[d].direct[0]
    BY <1>1 DEF NamedAt
  <2>2. b # Unassigned
    BY Named
  <2> QED
    BY <1>1, <1>3, <2>1, <2>2 DEF Sane, OwnsOnce, IsDir
<1>4. p \in DataPlace
  BY DEF DataPlace
<1> QED
  BY <1>2, <1>3, <1>4 DEF HoldsData

\* A disk is sane whatever the history of the call.
LEMMA SameDisk ==
  ASSUME NEW F, NEW G, G.inode = F.inode, G.used = F.used, G.data = F.data, Sane(F)
  PROVE  Sane(G)
<1>1. \A i : Live(G, i) <=> Live(F, i)
  BY DEF Live
<1>2. \A b : CellsOf(G, b) = CellsOf(F, b)
  BY DEF CellsOf
<1>3. \A i, p : NamedAt(G, i, p) = NamedAt(F, i, p)
  BY DEF NamedAt, Number
<1>4. OwnsOnce(G) /\ Marked(G)
  <2>1. OwnsOnce(G)
    BY <1>1, <1>3 DEF Sane, OwnsOnce
  <2>2. Marked(G)
    BY <1>1, <1>3 DEF Sane, Marked
  <2> QED
    BY <2>1, <2>2
<1>5. TablesOK(G)
  BY <1>1 DEF Sane, TablesOK, IsTable
<1>6. DirsOK(G)
  <2>1. \A d, j : EntryOf(G, d, j) = EntryOf(F, d, j)
    BY <1>2 DEF EntryOf
  <2>2. \A d : EntriesOf(G, d) = EntriesOf(F, d) /\ (IsDir(G, d) <=> IsDir(F, d))
    BY <1>1 DEF EntriesOf, IsDir
  <2>3. ASSUME NEW d \in Inodes, DirOK(F, d)
        PROVE  DirOK(G, d)
    BY <1>1, <2>1, <2>2, <2>3 DEF DirOK, FitsIn, EntryOK, NamesOnce
  <2>4. ASSUME NEW d \in Inodes, NEW e \in Inodes, InOneDirectory(F, d, e)
        PROVE  InOneDirectory(G, d, e)
    BY <2>1, <2>2, <2>4 DEF InOneDirectory
  <2> QED
    BY <2>2, <2>3, <2>4 DEF Sane, DirsOK
<1> QED
  BY <1>1, <1>4, <1>5, <1>6 DEF Sane

------------------------------------------------------------------------------
(* Writing.                                                                 *)

\* The block that a write goes to belongs to its inode.
LEMMA BlockToWriteHolds ==
  ASSUME NEW F \in Mounted, NEW i \in Inodes, NEW k \in 0 .. 2 * NumDirect - 1
  PROVE  LET A == BlockToWrite(F, i, k)
         IN /\ StepOn(F, A.fs, i) /\ A.block \in Numbers
            /\ Sane(F) /\ Live(F, i) /\ A.block \in Blocks =>
                 /\ HoldsData(A.fs, i, A.block)
                 /\ (\A m \in 0 .. k - 1 : NamedAt(F, i, PlaceOf(m)) \in Blocks) =>
                      NamedAt(A.fs, i, PlaceOf(k)) = A.block
<1> DEFINE T == add_single_indirect_block(F, i)
           b == Number(T.fs, T.block, k - NumDirect)
<1>1. CASE k < NumDirect
  <2>1. k \in Slots /\ k \in Place /\ k # NumDirect /\ PlaceOf(k) = k
    BY <1>1, Sizes DEF Slots, Place, PlaceOf
  <2>2. F.inode[i].direct[k] \in Blocks \cup {Unassigned}
    BY <2>1, MountedFields, NodeFields
  <2>3. CASE F.inode[i].direct[k] = Unassigned
    <3> DEFINE A == add_data_block_to_inode(F, i)
    <3>1. BlockToWrite(F, i, k) = A
      BY <1>1, <2>3 DEF BlockToWrite
    <3>2. StepOn(F, A.fs, i) /\ A.block \in Blocks \cup {Unassigned}
      BY AddDirect
    <3>3. A.block # Unassigned => \E m \in Slots :
            /\ F.inode[i].direct[m] = Unassigned /\ A.fs.inode[i].direct[m] = A.block
            /\ m <= k
      BY <2>1, <2>3, AddDirect
    <3> HIDE DEF A
    <3>4. ASSUME Sane(F), Live(F, i), A.block \in Blocks
          PROVE  /\ HoldsData(A.fs, i, A.block)
                 /\ (\A m \in 0 .. k - 1 : NamedAt(F, i, PlaceOf(m)) \in Blocks) =>
                      NamedAt(A.fs, i, k) = A.block
      <4>1. PICK m \in Slots : /\ F.inode[i].direct[m] = Unassigned /\ A.fs.inode[i].direct[m] = A.block
                               /\ m <= k
        BY <3>3, <3>4, Named
      <4>2. m \in Place /\ m # NumDirect /\ m < NumDirect
        BY Sizes DEF Slots, Place
      <4>3. NamedAt(A.fs, i, m) = A.block
        BY <4>1, <4>2 DEF NamedAt
      <4>4. A.fs \in Mounted /\ Sane(A.fs) /\ Live(A.fs, i)
        BY <3>2, <3>4 DEF StepOn
      <4>5. ASSUME \A l \in 0 .. k - 1 : NamedAt(F, i, PlaceOf(l)) \in Blocks
            PROVE  m = k
        <5>1. PlaceOf(m) = m /\ NamedAt(F, i, m) = Unassigned
          BY <4>1, <4>2 DEF PlaceOf, NamedAt
        <5>2. m < k => m \in 0 .. k - 1
          BY Sizes DEF Slots
        <5>3. ~ (m < k)
          BY <4>5, <5>1, <5>2, Named
        <5> QED
          BY <2>1, <4>1, <5>3, Sizes DEF Slots
      <4> QED
        BY <3>4, <4>2, <4>3, <4>4, <4>5, NamedHoldsData
    <3> QED
      BY <2>1, <3>1, <3>2, <3>4 DEF Numbers
  <2>4. CASE F.inode[i].direct[k] # Unassigned
    <3>1. BlockToWrite(F, i, k) = Added(F, F.inode[i].direct[k])
      BY <1>1, <2>4 DEF BlockToWrite
    <3>2. NamedAt(F, i, k) = F.inode[i].direct[k]
      BY <1>1 DEF NamedAt
    <3>3. Sane(F) /\ Live(F, i) => HoldsData(F, i, F.inode[i].direct[k])
      BY <2>1, <2>2, <2>4, <3>2, NamedHoldsData
    <3> QED
      BY <2>1, <2>2, <3>1, <3>2, <3>3, StepStill DEF Added, Numbers
  <2> QED
    BY <2>3, <2>4
<1>2. CASE ~ (k < NumDirect)
  <2>1. k - NumDirect \in Slots /\ k - NumDirect \in 0 .. NumIndirect - 1
    BY <1>2, Sizes DEF Slots
  <2>2. /\ StepOn(F, T.fs, i) /\ T.block \in Blocks \cup {Unassigned}
        /\ T.block # Unassigned => T.fs.inode[i].indirect = T.block
    BY AddTable
  <2>3. T.fs \in Mounted
    BY <2>2 DEF StepOn
  <2> DEFINE m == k - NumDirect
  <2>0. PlaceOf(k) = NumDirect + 1 + m
    BY <1>2, Sizes DEF PlaceOf
  <2>4. b = Number(T.fs, T.block, m) /\ b \in Numbers
    BY <2>1, <2>2, <2>3, NumberType
  <2>5. BlockToWrite(F, i, k) = IF T.block = Unassigned THEN T
                                ELSE IF b = Unassigned THEN add_data_block_to_indirect_block(T.fs, T.block)
                                ELSE Added(T.fs, b)
    BY <1>2 DEF BlockToWrite
  <2>6. ASSUME NEW G \in Mounted, Sane(G), Live(G, i), NEW n \in Slots, NEW c \in Blocks,
               G.inode[i].indirect = T.block, T.block # Unassigned, Number(G, T.block, n) = c
        PROVE  HoldsData(G, i, c) /\ NamedAt(G, i, NumDirect + 1 + n) = c
    <3> DEFINE p == NumDirect + 1 + n
    <3>1. p \in Place /\ p # NumDirect /\ ~ (p < NumDirect) /\ p - NumDirect - 1 = n
      BY Sizes DEF Slots, Place
    <3> HIDE DEF p
    <3>2. NamedAt(G, i, p) = c
      BY <2>6, <3>1 DEF NamedAt
    <3> QED
      BY <2>6, <3>1, <3>2, NamedHoldsData DEF p
  <2> HIDE DEF T, b
  <2>7. CASE T.block = Unassigned
    BY <2>2, <2>5, <2>7, Named DEF Numbers
  <2>8. CASE T.block # Unassigned /\ b # Unassigned
    <3>1. BlockToWrite(F, i, k) = Added(T.fs, b)
      BY <2>5, <2>8
    <3>2. ASSUME Sane(F), Live(F, i), b \in Blocks
          PROVE  HoldsData(T.fs, i, b) /\ NamedAt(T.fs, i, PlaceOf(k)) = b
      <4>1. Sane(T.fs) /\ Live(T.fs, i)
        BY <2>2, <3>2 DEF StepOn
      <4> HIDE DEF m
      <4> QED
        BY <2>0, <2>1, <2>2, <2>3, <2>4, <2>6, <2>8, <3>2, <4>1 DEF m
    <3> QED
      BY <2>2, <2>4, <3>1, <3>2 DEF Added
  <2>9. CASE T.block # Unassigned /\ b = Unassigned
    <3> DEFINE A == add_data_block_to_indirect_block(T.fs, T.block)
    <3>1. BlockToWrite(F, i, k) = A
      BY <2>5, <2>9
    <3>2. T.block \in Blocks /\ T.fs.inode[i].indirect = T.block /\ m \in Slots
          /\ Number(T.fs, T.block, m) = Unassigned
      BY <2>1, <2>2, <2>4, <2>9
    <3>3. /\ StepOn(T.fs, A.fs, i) /\ A.block \in Blocks \cup {Unassigned}
          /\ A.fs.inode = T.fs.inode
          /\ A.block # Unassigned => \E n \in Slots :
               /\ Number(T.fs, T.block, n) = Unassigned /\ Number(A.fs, T.block, n) = A.block
               /\ n <= m
      <4> HIDE DEF m
      <4> QED
        BY <2>3, <3>2, AddToTable
    <3> HIDE DEF A
    <3>4. StepOn(F, A.fs, i)
      BY <2>2, <3>3, StepTwice
    <3>5. ASSUME Sane(F), Live(F, i), A.block \in Blocks
          PROVE  /\ HoldsData(A.fs, i, A.block)
                 /\ (\A l \in 0 .. k - 1 : NamedAt(F, i, PlaceOf(l)) \in Blocks) =>
                      NamedAt(A.fs, i, PlaceOf(k)) = A.block
      <4>1. PICK n \in Slots : /\ Number(T.fs, T.block, n) = Unassigned
                               /\ Number(A.fs, T.block, n) = A.block /\ n <= m
        BY <3>3, <3>5, Named
      <4>2. Sane(A.fs) /\ Live(A.fs, i) /\ A.fs \in Mounted
        BY <3>4, <3>5 DEF StepOn
      <4>3. A.fs.inode[i].indirect = T.block
        BY <3>2, <3>3
      <4>4. HoldsData(A.fs, i, A.block) /\ NamedAt(A.fs, i, NumDirect + 1 + n) = A.block
        BY <2>6, <2>9, <3>5, <4>1, <4>2, <4>3
      <4>5. ASSUME \A l \in 0 .. k - 1 : NamedAt(F, i, PlaceOf(l)) \in Blocks, n < m
            PROVE  FALSE
        <5> DEFINE p == NumDirect + 1 + n
        <5>1. /\ p \in DataPlace /\ ~ (p < NumDirect) /\ p # NumDirect /\ p - NumDirect - 1 = n
              /\ p = PlaceOf(NumDirect + n) /\ NumDirect + n \in 0 .. k - 1
          BY <4>5, Sizes DEF Slots, DataPlace, Place, PlaceOf
        <5> HIDE DEF p
        <5>2. NamedAt(F, i, p) \in Blocks
          BY <4>5, <5>1
        <5>3. DataKept(F, T.fs, i)
          BY <2>2, <3>5 DEF StepOn, Undisturbed
        <5>4. NamedAt(T.fs, i, p) \in Blocks
          BY <5>1, <5>2, <5>3 DEF DataKept
        <5>5. NamedAt(T.fs, i, p) = Unassigned
          BY <2>9, <3>2, <4>1, <5>1 DEF NamedAt
        <5> QED
          BY <5>4, <5>5, Named
      <4>6. n \in Int /\ m \in Int
        BY <3>2 DEF Slots
      <4> HIDE DEF m
      <4> QED
        BY <2>0, <4>1, <4>4, <4>5, <4>6
    <3> QED
      BY <3>1, <3>3, <3>4, <3>5 DEF Numbers
  <2> QED
    BY <2>7, <2>8, <2>9
<1> QED
  BY <1>1, <1>2

\* What a call that writes to an inode keeps, unless it is a directory.
WriteOn(F, G, i) ==
  /\ G \in Mounted /\ (Fine(G) => Fine(F))
  /\ G.inode[i].mode = F.inode[i].mode /\ G.inode[i].size = F.inode[i].size
  /\ Live(F, i) => Live(G, i)
  /\ Sane(F) /\ Live(F, i) /\ ~ is_directory(F.inode[i]) =>
       Sane(G) /\ Undisturbed(F, G, Inodes \ {i})

\* Such calls may follow each other.
LEMMA WriteTwice ==
  ASSUME NEW F, NEW G, NEW H, NEW i, WriteOn(F, G, i), WriteOn(G, H, i)
  PROVE  WriteOn(F, H, i)
<1>1. Sane(F) /\ Live(F, i) /\ ~ is_directory(F.inode[i]) =>
        Sane(H) /\ Undisturbed(F, H, Inodes \ {i})
  BY UndisturbedTwice DEF WriteOn, is_directory
<1> QED
  BY <1>1 DEF WriteOn

\* And one may do nothing, give a block or crash.
LEMMA WriteSteps ==
  ASSUME NEW F \in Mounted, NEW i \in Inodes
  PROVE  /\ WriteOn(F, F, i)
         /\ WriteOn(F, Crashed(F), i)
         /\ \A G : StepOn(F, G, i) => WriteOn(F, G, i)
<1>1. WriteOn(F, F, i)
  BY UndisturbedStill DEF WriteOn
<1>2. ASSUME NEW G, StepOn(F, G, i)
      PROVE  WriteOn(F, G, i)
  <2>1. Undisturbed(F, G, Inodes) => Undisturbed(F, G, Inodes \ {i})
    BY DEF Undisturbed
  <2> QED
    BY <1>2, <2>1 DEF StepOn, WriteOn, Same, Fine
<1>3. WriteOn(F, Crashed(F), i)
  <2> DEFINE G == Crashed(F)
  <2>1. G \in Mounted /\ G.inode = F.inode /\ G.used = F.used
        /\ G.data = F.data /\ G.untidy = F.untidy
    BY HistoryFields
  <2>2. G.status = "ruined" <=> F.status = "ruined"
    BY HistoryFields
  <2> HIDE DEF G
  <2>3. Fine(G) => Fine(F)
    BY <2>1, <2>2 DEF Fine
  <2>4. Sane(F) => Sane(G)
    BY <2>1, SameDisk
  <2> QED
    BY <2>1, <2>3, <2>4, UndisturbedStill DEF WriteOn, Live, G
<1> QED
  BY <1>1, <1>2, <1>3

\* Data put into a block that belongs to an inode, which is no directory.
LEMMA PokeOn ==
  ASSUME NEW F \in Mounted, NEW i \in Inodes, NEW E, StepOn(F, E, i),
         NEW b \in Blocks \cup {Unassigned}, NEW new,
         \A j \in 0 .. BlockSize - 1 : j \in DOMAIN new => new[j] \in Cell,
         Sane(F) /\ Live(F, i) => HoldsData(E, i, b)
  PROVE  WriteOn(F, Poke(E, b, new), i)
<1> DEFINE G == Poke(E, b, new)
<1>1. E \in Mounted /\ Same(F, E) /\ E.inode[i].mode = F.inode[i].mode
      /\ E.inode[i].size = F.inode[i].size
      /\ (Live(F, i) => Live(E, i))
      /\ (Sane(F) /\ Live(F, i) => Sane(E) /\ Undisturbed(F, E, Inodes))
  BY DEF StepOn
<1>2. /\ G \in Mounted /\ G.inode = E.inode /\ G.used = E.used
      /\ G.data = [E.data EXCEPT ![b] = Cells(Poked(E, b, new))] /\ Same(E, G)
  BY <1>1, PokeFields
<1> HIDE DEF G
<1>3. \A c \in Blocks \cup {Unassigned} : c # b => G.data[c] = E.data[c]
  BY <1>1, <1>2, MountedFields
<1>4. ASSUME Sane(F), Live(F, i), ~ is_directory(F.inode[i])
      PROVE  Sane(G) /\ Undisturbed(F, G, Inodes \ {i})
  <2>1. HoldsData(E, i, b) /\ Sane(E)
    BY <1>1, <1>4
  <2>2. \A d \in Inodes : IsDir(E, d) /\ E.inode[d].size > 0 => E.inode[d].direct[0] # b
    BY <1>1, <1>4, <2>1 DEF HoldsData, IsDir, is_directory
  <2>3. \A j \in Inodes : Live(E, j) /\ E.inode[j].indirect # Unassigned => E.inode[j].indirect # b
    BY <2>1 DEF HoldsData
  <2>4. PICK q \in DataPlace : NamedAt(E, i, q) = b
    BY <2>1 DEF HoldsData
  <2>5. ASSUME NEW j \in Inodes \ {i}
        PROVE  /\ Live(G, j) <=> Live(E, j)
               /\ Live(E, j) => DataKept(E, G, j)
    <3>1. ASSUME Live(E, j)
          PROVE  \A p \in DataPlace : NamedAt(E, j, p) # b
      BY <1>1, <1>4, <2>1, <2>4, <3>1, Named DEF Sane, OwnsOnce, DataPlace, HoldsData
    <3>2. ASSUME Live(E, j)
          PROVE  E.inode[j].indirect # Unassigned => E.inode[j].indirect # b
      BY <2>3, <3>2
    <3>3. ASSUME Live(E, j)
          PROVE  DataKept(E, G, j)
      <4>1. E \in Mounted /\ G.inode = E.inode
        BY <1>1, <1>2
      <4> QED
        BY <1>3, <3>1, <3>2, <3>3, <4>1, DataLeft
    <3> QED
      BY <1>2, <3>3 DEF Live
  <2>6. Undisturbed(E, G, Inodes \ {i})
    BY <1>2, <2>5 DEF Undisturbed
  <2>7. Undisturbed(F, E, Inodes \ {i})
    BY <1>1, <1>4 DEF Undisturbed
  <2>8. Undisturbed(F, G, Inodes \ {i})
    BY <2>6, <2>7, UndisturbedTwice
  <2> QED
    BY <1>1, <1>2, <1>3, <2>1, <2>2, <2>3, <2>8, DataSane
<1>5. WriteOn(F, G, i)
  BY <1>1, <1>2, <1>4 DEF WriteOn, Same, Fine, Live
<1> QED
  BY <1>5 DEF G

\* A file holds x at position j; it holds c from its start.
HasAt(F, i, j, x) ==
  LET b == NamedAt(F, i, PlaceOf(j \div BlockSize))
  IN b \in Blocks /\ CellsOf(F, b)[j % BlockSize] = x
Holds(F, i, c) == \A j \in 0 .. Len(c) - 1 : HasAt(F, i, j, c[j + 1])
\* It holds c, which buf has been written over from start to off.
HoldsOver(F, i, c, start, buf, off) ==
  /\ \A j \in start .. off - 1 : HasAt(F, i, j, buf[j - start + 1])
  /\ \A j \in 0 .. Len(c) - 1 : j \notin start .. off - 1 => HasAt(F, i, j, c[j + 1])

\* The place of a block of a file.
LEMMA PlaceType ==
  ASSUME NEW k \in 0 .. 2 * NumDirect - 1
  PROVE  /\ PlaceOf(k) \in DataPlace
         /\ \A m \in 0 .. 2 * NumDirect - 1 : PlaceOf(m) = PlaceOf(k) => m = k
BY Sizes DEF PlaceOf, DataPlace, Place

\* What is kept of an inode's data is kept at every position.
LEMMA KeptAt ==
  ASSUME NEW F, NEW G, NEW i, DataKept(F, G, i), NEW j \in Nat, j < MaxFileSize, NEW x,
         HasAt(F, i, j, x)
  PROVE  HasAt(G, i, j, x)
<1>1. j \div BlockSize \in 0 .. 2 * NumDirect - 1
  <2>1. j \div BlockSize \in Nat /\ j \div BlockSize < 2 * NumDirect
    BY Position, InsideFile
  <2> DEFINE k == j \div BlockSize
  <2> HIDE DEF k
  <2>2. k \in Nat /\ k < 2 * NumDirect
    BY <2>1 DEF k
  <2>3. k \in 0 .. 2 * NumDirect - 1
    BY <2>2, Sizes
  <2> QED
    BY <2>3 DEF k
<1>2. PlaceOf(j \div BlockSize) \in DataPlace
  BY <1>1, PlaceType
<1> QED
  BY <1>2 DEF HasAt, DataKept

\* Poke leaves the data of an inode that are not in its block.
LEMMA PokeLeaves ==
  ASSUME NEW F \in Mounted, NEW b \in Blocks, NEW new,
         \A m \in 0 .. BlockSize - 1 : m \in DOMAIN new => new[m] \in Cell,
         NEW i \in Inodes, F.inode[i].indirect # Unassigned => F.inode[i].indirect # b
  PROVE  /\ \A p \in Place : NamedAt(Poke(F, b, new), i, p) = NamedAt(F, i, p)
         /\ \A p \in Place : NamedAt(F, i, p) \in Blocks /\ NamedAt(F, i, p) # b =>
              CellsOf(Poke(F, b, new), NamedAt(F, i, p)) = CellsOf(F, NamedAt(F, i, p))
         /\ (\A p \in DataPlace : NamedAt(F, i, p) # b) => DataKept(F, Poke(F, b, new), i)
<1> DEFINE G == Poke(F, b, new)
<1>1. G.inode = F.inode /\ G.data = [F.data EXCEPT ![b] = Cells(Poked(F, b, new))]
  BY PokeFields
<1> HIDE DEF G
<1>2. \A c \in Blocks \cup {Unassigned} : c # b => G.data[c] = F.data[c]
  BY <1>1, MountedFields
<1>3. /\ \A p \in Place : NamedAt(G, i, p) = NamedAt(F, i, p)
      /\ \A p \in Place : NamedAt(F, i, p) \in Blocks /\ NamedAt(F, i, p) # b =>
           CellsOf(G, NamedAt(F, i, p)) = CellsOf(F, NamedAt(F, i, p))
      /\ (\A p \in DataPlace : NamedAt(F, i, p) # b) => DataKept(F, G, i)
  BY <1>1, <1>2, DataLeft
<1> QED
  BY <1>3 DEF G

\* What Poke puts into a block of a file is at the positions of that block.
LEMMA PokeAt ==
  ASSUME NEW E \in Mounted, Sane(E), NEW i \in Inodes, Live(E, i), NEW b, HoldsData(E, i, b), NEW new,
         \A m \in 0 .. BlockSize - 1 : m \in DOMAIN new => new[m] \in Cell,
         NEW k \in 0 .. 2 * NumDirect - 1, NamedAt(E, i, PlaceOf(k)) = b,
         NEW j \in Nat, j < MaxFileSize
  PROVE  /\ j \div BlockSize = k /\ j % BlockSize \in DOMAIN new =>
              HasAt(Poke(E, b, new), i, j, new[j % BlockSize])
         /\ ~ (j \div BlockSize = k /\ j % BlockSize \in DOMAIN new) =>
              \A x : HasAt(E, i, j, x) => HasAt(Poke(E, b, new), i, j, x)
<1> DEFINE G == Poke(E, b, new)
           q == j \div BlockSize
           m == j % BlockSize
           c == NamedAt(E, i, PlaceOf(q))
<1>1. b \in Blocks /\ b \in Blocks \cup {Unassigned}
  BY DEF HoldsData
<1>2. /\ G \in Mounted /\ G.inode = E.inode
      /\ G.data = [E.data EXCEPT ![b] = Cells(Poked(E, b, new))]
  BY <1>1, PokeFields
<1> HIDE DEF G
<1>3. /\ G.data[b] = Cells(Poked(E, b, new))
      /\ \A a \in Blocks \cup {Unassigned} : a # b => G.data[a] = E.data[a]
  BY <1>1, <1>2, MountedFields
<1>4. E.inode[i].indirect # Unassigned => E.inode[i].indirect # b
  BY DEF HoldsData
<1>5. /\ \A p \in Place : NamedAt(G, i, p) = NamedAt(E, i, p)
      /\ \A p \in Place : NamedAt(E, i, p) \in Blocks /\ NamedAt(E, i, p) # b =>
           CellsOf(G, NamedAt(E, i, p)) = CellsOf(E, NamedAt(E, i, p))
  BY <1>1, <1>4, PokeLeaves DEF G
<1>6. q \in 0 .. 2 * NumDirect - 1 /\ m \in 0 .. BlockSize - 1
  <2>1. q \in Nat /\ q < 2 * NumDirect /\ m \in 0 .. BlockSize - 1
    BY Position, InsideFile
  <2> HIDE DEF q, m
  <2> QED
    BY <2>1, Sizes
<1>7. PlaceOf(q) \in Place /\ PlaceOf(k) \in Place /\ (PlaceOf(q) = PlaceOf(k) => q = k)
  <2> HIDE DEF q
  <2> QED
    BY <1>6, PlaceType DEF DataPlace
<1>8. NamedAt(G, i, PlaceOf(q)) = c
  BY <1>5, <1>7
<1>9. CellsOf(G, b) = Poked(E, b, new)
  <2>1. b # Null
    BY <1>1, Named
  <2> QED
    BY <1>3, <2>1 DEF CellsOf, Cells
<1>10. c = b => q = k
  <2>1. OwnsOnce(E) /\ b # Unassigned
    BY <1>1, Named DEF Sane
  <2> HIDE DEF q
  <2> QED
    BY <1>7, <2>1 DEF OwnsOnce
<1> HIDE DEF q, m
<1>11. ASSUME q = k, m \in DOMAIN new
       PROVE  HasAt(G, i, j, new[m])
  <2>1. c = b
    BY <1>11
  <2>2. Poked(E, b, new)[m] = new[m]
    BY <1>6, <1>11 DEF Poked
  <2> QED
    BY <1>1, <1>8, <1>9, <2>1, <2>2 DEF HasAt, q, m
<1>12. ASSUME ~ (q = k /\ m \in DOMAIN new), NEW x, HasAt(E, i, j, x)
       PROVE  HasAt(G, i, j, x)
  <2>1. c \in Blocks /\ CellsOf(E, c)[m] = x
    BY <1>12 DEF HasAt, q, m
  <2>2. CASE c = b
    <3>1. Poked(E, b, new)[m] = CellsOf(E, b)[m]
      BY <1>6, <1>10, <1>12, <2>2 DEF Poked
    <3> QED
      BY <1>8, <1>9, <2>1, <2>2, <3>1 DEF HasAt, q, m
  <2>3. CASE c # b
    BY <1>5, <1>7, <1>8, <2>1, <2>3 DEF HasAt, q, m
  <2> QED
    BY <2>2, <2>3
<1> QED
  BY <1>11, <1>12 DEF q, m, G

\* A write of buf that has begun at start stands at W: what the file held before
\* is written over up to W.off.
Standing(F, i, start, buf, W) ==
  /\ W.fs \in Mounted /\ W.ret \in Int /\ W.off \in Nat
  /\ WriteOn(F, W.fs, i)
  /\ W.ret # -1 => W.ret \in Nat /\ W.off \in start .. start + Len(buf) /\ W.off = start + W.ret
  /\ W.ret # -1 /\ Sane(F) /\ Live(F, i) /\ ~ is_directory(F.inode[i]) =>
       \A c \in Seq(Cell) :
         start <= Len(c) /\ Len(c) <= MaxFileSize /\ Holds(F, i, c) =>
           HoldsOver(W.fs, i, c, start, buf, W.off)
Answers == [fs : Mounted, ret : Int, off : Nat]
Begun(buf, W) == W.ret = -1 \/ W.ret >= 1 \/ Len(buf) = 0

\* What it takes to hold that.
LEMMA OverGiven ==
  ASSUME NEW F, NEW i, NEW c, NEW start, NEW buf, NEW off,
         \A j \in start .. off - 1 : HasAt(F, i, j, buf[j - start + 1]),
         \A j \in 0 .. Len(c) - 1 : j \notin start .. off - 1 => HasAt(F, i, j, c[j + 1])
  PROVE  HoldsOver(F, i, c, start, buf, off)
BY DEF HoldsOver

\* A position that lies in a part of a block.
LEMMA WithinPart ==
  ASSUME NEW y \in Nat, NEW at \in Nat, NEW n \in Nat, NEW m \in at .. at + n - 1,
         NEW j \in Nat, j = y + m, NEW off \in Nat, off = y + at
  PROVE  j \in off .. off + n - 1
OBVIOUS

\* One turn of the write loop writes buf over a part of a block, when the file holds
\* what comes before it.
LEMMA PokeOver ==
  ASSUME NEW F \in Mounted, NEW i \in Inodes, Sane(F), Live(F, i), NEW E, StepOn(F, E, i),
         NEW c \in Seq(Cell), NEW buf \in Seq(Cell), NEW start \in 0 .. Len(c), Len(c) <= MaxFileSize,
         NEW off \in Nat, off >= start, HoldsOver(F, i, c, start, buf, off),
         NEW n \in Nat, off + n <= start + Len(buf), off + n <= MaxFileSize,
         NEW k \in 0 .. 2 * NumDirect - 1, NEW at \in 0 .. BlockSize - 1,
         off \div BlockSize = k, off % BlockSize = at, at + n <= BlockSize,
         NEW b, HoldsData(E, i, b),
         (\A m \in 0 .. k - 1 : NamedAt(F, i, PlaceOf(m)) \in Blocks) => NamedAt(E, i, PlaceOf(k)) = b,
         NEW new, DOMAIN new = at .. at + n - 1,
         \A m \in at .. at + n - 1 : new[m] \in Cell /\ new[m] = buf[off + m - at - start + 1]
  PROVE  HoldsOver(Poke(E, b, new), i, c, start, buf, off + n)
<1> DEFINE G == Poke(E, b, new)
<1>0. off = k * BlockSize + at
  BY Position
<1>1. E \in Mounted /\ Sane(E) /\ Live(E, i) /\ DataKept(F, E, i)
  BY DEF StepOn, Undisturbed
<1>2. ASSUME NEW m \in 0 .. k - 1
      PROVE  NamedAt(F, i, PlaceOf(m)) \in Blocks
  <2> DEFINE j == m * BlockSize
  <2>1. j \in Nat /\ j < off
    <3>1. ASSUME NEW B \in Nat, NEW h \in Nat, NEW l \in Nat, h < l, B >= 1
          PROVE  h * B \in Nat /\ h * B < l * B
      <4>1. PICK e \in Nat : l = h + 1 + e
        <5>1. l - h - 1 \in Nat /\ l = h + 1 + (l - h - 1)
          BY <3>1
        <5> QED
          BY <5>1
      <4>2. l * B = h * B + B + e * B /\ e * B \in Nat /\ h * B \in Nat
        BY <4>1
      <4> QED
        BY <3>1, <4>2
    <3>2. k \in Nat /\ m \in Nat /\ m < k
      BY Sizes
    <3>3. j \in Nat /\ j < k * BlockSize
      BY <3>1, <3>2, Sizes
    <3> DEFINE x == k * BlockSize
    <3>4. x \in Nat /\ off = x + at /\ j < x
      BY <1>0, <3>2, <3>3, Sizes
    <3> HIDE DEF x, j
    <3> QED
      BY <3>3, <3>4
  <2>2. j \div BlockSize = m
    <3>1. m \in Nat /\ 0 \in 0 .. BlockSize - 1 /\ j = m * BlockSize + 0
      BY <2>1, Sizes
    <3> HIDE DEF j
    <3> QED
      BY <2>1, <3>1, PositionIs
  <2> HIDE DEF j
  <2>3. \E x : HasAt(F, i, j, x)
    <3>1. Len(c) \in Nat
      OBVIOUS
    <3>2. CASE j \in start .. off - 1
      BY <3>2 DEF HoldsOver
    <3>3. CASE j \notin start .. off - 1
      <4>1. j \in 0 .. Len(c) - 1
        BY <2>1, <3>1, <3>3
      <4> QED
        BY <3>3, <4>1 DEF HoldsOver
    <3> QED
      BY <3>2, <3>3
  <2> QED
    BY <2>2, <2>3 DEF HasAt
<1>3. NamedAt(E, i, PlaceOf(k)) = b
  BY <1>2
<1>4. \A m \in 0 .. BlockSize - 1 : m \in DOMAIN new => new[m] \in Cell
  OBVIOUS
<1>5. ASSUME NEW j \in Nat, j < MaxFileSize
      PROVE  /\ j \div BlockSize = k /\ j % BlockSize \in DOMAIN new =>
                  HasAt(G, i, j, new[j % BlockSize])
             /\ ~ (j \div BlockSize = k /\ j % BlockSize \in DOMAIN new) =>
                  \A x : HasAt(E, i, j, x) => HasAt(G, i, j, x)
  BY <1>1, <1>3, <1>4, <1>5, PokeAt
<1> HIDE DEF G
<1>6. ASSUME NEW j \in off .. off + n - 1
      PROVE  HasAt(G, i, j, buf[j - start + 1])
  <2> DEFINE m == at + (j - off)
  <2>1. m \in at .. at + n - 1 /\ m \in 0 .. BlockSize - 1 /\ j = k * BlockSize + m
    <3>1. k * BlockSize \in Nat
      BY Sizes
    <3> DEFINE x == k * BlockSize
    <3>2. x \in Nat /\ off = x + at
      BY <1>0, <3>1
    <3> HIDE DEF x
    <3>3. m \in at .. at + n - 1 /\ m \in 0 .. BlockSize - 1 /\ j = x + m
      BY <3>2, Sizes
    <3> QED
      BY <3>3 DEF x
  <2>2. off + m - at - start + 1 = j - start + 1 /\ j \in Nat /\ j < MaxFileSize
    <3>1. start \in Nat /\ at \in Nat /\ MaxFileSize \in Int /\ j \in Int
      BY Sizes DEF MaxFileSize
    <3> QED
      BY <3>1
  <2> HIDE DEF m
  <2>4. j \div BlockSize = k /\ j % BlockSize = m
    <3>1. k \in Nat
      BY Sizes
    <3> QED
      BY <2>1, <2>2, <3>1, PositionIs
  <2> QED
    BY <1>5, <2>1, <2>2, <2>4
<1>7. ASSUME NEW j \in Nat, j < MaxFileSize, j \notin off .. off + n - 1, NEW x, HasAt(F, i, j, x)
      PROVE  HasAt(G, i, j, x)
  <2>1. HasAt(E, i, j, x)
    BY <1>1, <1>7, KeptAt
  <2>2. ASSUME j \div BlockSize = k, j % BlockSize \in DOMAIN new
        PROVE  FALSE
    <3>1. j = k * BlockSize + (j % BlockSize)
      BY <2>2, Position
    <3> DEFINE y == k * BlockSize
               m == j % BlockSize
    <3>2. y \in Nat /\ j = y + m /\ off = y + at /\ m \in at .. at + n - 1
      BY <1>0, <2>2, <3>1, Sizes
    <3> HIDE DEF y, m
    <3>3. at \in Nat
      BY Sizes
    <3>4. j \in off .. off + n - 1
      BY <3>2, <3>3, WithinPart
    <3> QED
      BY <1>7, <3>4
  <2> QED
    BY <1>5, <1>7, <2>1, <2>2
<1>8. ASSUME NEW j \in start .. off + n - 1
      PROVE  HasAt(G, i, j, buf[j - start + 1])
  <2>1. CASE j \in off .. off + n - 1
    BY <1>6, <2>1
  <2>2. CASE j \notin off .. off + n - 1
    <3>1. j \in start .. off - 1 /\ j \in Nat
      BY <2>2
    <3>2. j < MaxFileSize
      <4>1. MaxFileSize \in Int
        BY Sizes DEF MaxFileSize
      <4> QED
        BY <3>1, <4>1
    <3> QED
      BY <1>7, <2>2, <3>1, <3>2 DEF HoldsOver
  <2> QED
    BY <2>1, <2>2
<1>9. ASSUME NEW j \in 0 .. Len(c) - 1, j \notin start .. off + n - 1
      PROVE  HasAt(G, i, j, c[j + 1])
  <2>1. Len(c) \in Nat /\ j \in Nat
    OBVIOUS
  <2>2. j < MaxFileSize
    <3>1. MaxFileSize \in Int
      BY Sizes DEF MaxFileSize
    <3> QED
      BY <2>1, <3>1
  <2>3. j \notin start .. off - 1 /\ j \notin off .. off + n - 1
    BY <1>9
  <2> QED
    BY <1>7, <2>1, <2>2, <2>3 DEF HoldsOver
<1>10. HoldsOver(G, i, c, start, buf, off + n)
  <2> DEFINE end == off + n
  <2>1. \A j \in start .. end - 1 : HasAt(G, i, j, buf[j - start + 1])
    BY <1>8
  <2>2. \A j \in 0 .. Len(c) - 1 : j \notin start .. end - 1 => HasAt(G, i, j, c[j + 1])
    BY <1>9
  <2> HIDE DEF end
  <2>3. HoldsOver(G, i, c, start, buf, end)
    BY <2>1, <2>2, OverGiven
  <2> QED
    BY <2>3 DEF end
<1> QED
  BY <1>10 DEF G

\* The same, when it is said in one word what a turn finds and does.
TurnFinds(F, E, i, k, b) ==
  /\ F \in Mounted /\ i \in Inodes /\ Sane(F) /\ Live(F, i) /\ StepOn(F, E, i) /\ HoldsData(E, i, b)
  /\ k \in 0 .. 2 * NumDirect - 1
  /\ (\A m \in 0 .. k - 1 : NamedAt(F, i, PlaceOf(m)) \in Blocks) => NamedAt(E, i, PlaceOf(k)) = b
TurnPuts(buf, start, off, n, at, new) ==
  /\ buf \in Seq(Cell) /\ off \in Nat /\ off >= start /\ n \in Nat /\ at \in 0 .. BlockSize - 1
  /\ off + n <= start + Len(buf) /\ off + n <= MaxFileSize /\ at + n <= BlockSize
  /\ DOMAIN new = at .. at + n - 1
  /\ \A m \in at .. at + n - 1 : new[m] \in Cell /\ new[m] = buf[off + m - at - start + 1]
LEMMA TurnPokes ==
  ASSUME NEW F, NEW E, NEW i, NEW k, NEW b, TurnFinds(F, E, i, k, b),
         NEW buf, NEW start, NEW off, NEW n, NEW at, NEW new, TurnPuts(buf, start, off, n, at, new),
         off \div BlockSize = k, off % BlockSize = at,
         NEW c \in Seq(Cell), start \in 0 .. Len(c), Len(c) <= MaxFileSize,
         HoldsOver(F, i, c, start, buf, off)
  PROVE  HoldsOver(Poke(E, b, new), i, c, start, buf, off + n)
<1>1. /\ F \in Mounted /\ i \in Inodes /\ Sane(F) /\ Live(F, i) /\ StepOn(F, E, i) /\ HoldsData(E, i, b)
      /\ k \in 0 .. 2 * NumDirect - 1
      /\ (\A m \in 0 .. k - 1 : NamedAt(F, i, PlaceOf(m)) \in Blocks) => NamedAt(E, i, PlaceOf(k)) = b
  BY DEF TurnFinds
<1>2. /\ buf \in Seq(Cell) /\ off \in Nat /\ off >= start /\ n \in Nat /\ at \in 0 .. BlockSize - 1
      /\ off + n <= start + Len(buf) /\ off + n <= MaxFileSize /\ at + n <= BlockSize
      /\ DOMAIN new = at .. at + n - 1
      /\ \A m \in at .. at + n - 1 : new[m] \in Cell /\ new[m] = buf[off + m - at - start + 1]
  BY DEF TurnPuts
<1> QED
  BY <1>1, <1>2, PokeOver

\* One turn of the write loop.
LEMMA TurnOfWrite ==
  ASSUME NEW F \in Mounted, NEW i \in Inodes, NEW buf \in Seq(Cell), NEW start \in Nat,
         start + Len(buf) <= MaxFileSize, NEW W \in Answers, Standing(F, i, start, buf, W)
  PROVE  /\ WriteBlock(i, buf, start, W) \in Answers
         /\ Standing(F, i, start, buf, WriteBlock(i, buf, start, W))
         /\ Begun(buf, WriteBlock(i, buf, start, W))
<1> DEFINE at == W.off % BlockSize
           left == start + Len(buf) - W.off
           n == IF at + left > BlockSize THEN BlockSize - at ELSE left
           k == W.off \div BlockSize
           A == BlockToWrite(W.fs, i, k)
           new == [j \in at .. at + n - 1 |-> buf[W.off + j - at - start + 1]]
<1>1. WriteBlock(i, buf, start, W)
      = IF W.ret = -1 \/ left = 0 THEN W
        ELSE IF A.block = Unassigned THEN Result(A.fs, -1, W.off)
        ELSE IF A.block = Null THEN Crash(A.fs)
        ELSE Result(Poke(A.fs, A.block, new), W.ret + n, W.off + n)
  BY DEF WriteBlock
<1>2. CASE W.ret = -1 \/ left = 0
  <2>1. Begun(buf, W)
    <3>1. CASE W.ret = -1
      BY <3>1 DEF Begun
    <3>2. CASE W.ret # -1 /\ left = 0
      BY <3>2 DEF Standing, Begun
    <3> QED
      BY <1>2, <3>1, <3>2
  <2>2. WriteBlock(i, buf, start, W) = W
    BY <1>1, <1>2
  <2> HIDE DEF left
  <2> QED
    BY <2>1, <2>2
<1>3. CASE ~ (W.ret = -1 \/ left = 0)
  <2>1. W.ret \in Nat /\ W.off \in Nat /\ W.off \in start .. start + Len(buf) /\ W.fs \in Mounted
        /\ WriteOn(F, W.fs, i)
    BY <1>3 DEF Standing
  <2>2. left \in Nat /\ left >= 1 /\ W.off < MaxFileSize
    <3>1. MaxFileSize \in Int /\ Len(buf) \in Nat
      BY Sizes DEF MaxFileSize
    <3> QED
      BY <1>3, <2>1, <3>1
  <2>3. k \in Nat /\ at \in 0 .. BlockSize - 1
    BY <2>1, Position
  <2>4. k < 2 * NumDirect
    BY <2>1, <2>2, InsideFile
  <2>5. k \in 0 .. 2 * NumDirect - 1
    <3> HIDE DEF k
    <3> QED
      BY <2>3, <2>4, Sizes
  <2>6. n \in Nat /\ n >= 1 /\ n <= left /\ at + n <= BlockSize
    <3> HIDE DEF at, left
    <3> QED
      BY <2>2, <2>3, Sizes
  <2>7. /\ StepOn(W.fs, A.fs, i) /\ A.block \in Numbers
        /\ Sane(W.fs) /\ Live(W.fs, i) /\ A.block \in Blocks =>
             /\ HoldsData(A.fs, i, A.block)
             /\ (\A m \in 0 .. k - 1 : NamedAt(W.fs, i, PlaceOf(m)) \in Blocks) =>
                  NamedAt(A.fs, i, PlaceOf(k)) = A.block
    <3> HIDE DEF k
    <3> QED
      BY <2>1, <2>5, BlockToWriteHolds
  <2>8. ASSUME NEW j \in at .. at + n - 1
        PROVE  new[j] \in Cell
    <3> DEFINE m == W.off + j - at - start + 1
    <3>1. m \in 1 .. Len(buf)
      <4>1. ASSUME NEW o \in Nat, NEW L \in Nat, NEW a \in Nat, NEW c \in Nat, o >= start,
                   c <= start + L - o, NEW l \in a .. a + c - 1
            PROVE  o + l - a - start + 1 \in 1 .. L
        BY <4>1
      <4>2. at \in Nat /\ n \in Nat /\ Len(buf) \in Nat /\ W.off >= start
        BY <2>1, <2>3, <2>6
      <4>3. n <= start + Len(buf) - W.off
        BY <2>6
      <4> HIDE DEF at, n, left
      <4> QED
        BY <2>1, <4>1, <4>2, <4>3
    <3>2. new[j] = buf[m]
      OBVIOUS
    <3> HIDE DEF m, new
    <3> QED
      BY <3>1, <3>2
  <2>9. DOMAIN new = at .. at + n - 1
    OBVIOUS
  <2> HIDE DEF new
  <2> HIDE DEF A
  <2>10. A.fs \in Mounted /\ WriteOn(F, A.fs, i)
    <3>1. WriteOn(W.fs, A.fs, i)
      BY <2>1, <2>7, WriteSteps
    <3> QED
      BY <2>1, <3>1, WriteTwice DEF WriteOn
  <2>11. CASE A.block = Unassigned
    <3>1. WriteBlock(i, buf, start, W) = Result(A.fs, -1, W.off)
      BY <1>1, <1>3, <2>11
    <3> QED
      BY <2>1, <2>10, <3>1 DEF Result, Standing, Answers, Begun
  <2>12. CASE A.block # Unassigned /\ A.block = Null
    <3>1. WriteBlock(i, buf, start, W) = Crash(A.fs)
      BY <1>1, <1>3, <2>12
    <3>2. Crashed(A.fs) \in Mounted /\ WriteOn(F, Crashed(A.fs), i)
      <4>1. WriteOn(A.fs, Crashed(A.fs), i)
        BY <2>10, WriteSteps
      <4> QED
        BY <2>10, <4>1, WriteTwice DEF WriteOn
    <3> QED
      BY <3>1, <3>2 DEF Result, Standing, Answers, Crash, Fail, Begun
  <2>13. CASE A.block # Unassigned /\ A.block # Null
    <3> DEFINE P == Poke(A.fs, A.block, new)
    <3>1. WriteBlock(i, buf, start, W) = Result(P, W.ret + n, W.off + n)
      BY <1>1, <1>3, <2>13
    <3>2. A.block \in Blocks
      BY <2>7, <2>13 DEF Numbers
    <3>3. \A j \in 0 .. BlockSize - 1 : j \in DOMAIN new => new[j] \in Cell
      BY <2>8, <2>9
    <3>4. WriteOn(W.fs, P, i)
      BY <2>1, <2>7, <3>2, <3>3, PokeOn
    <3> HIDE DEF P
    <3>5. P \in Mounted /\ WriteOn(F, P, i)
      BY <2>1, <3>4, WriteTwice DEF WriteOn
    <3>6. W.ret + n \in Nat /\ W.off + n \in start .. start + Len(buf) /\ W.off + n \in Nat
      <4> HIDE DEF n
      <4> QED
        BY <2>1, <2>6
    <3>7. ASSUME Sane(F), Live(F, i), ~ is_directory(F.inode[i]), NEW c \in Seq(Cell),
                 start <= Len(c), Len(c) <= MaxFileSize, Holds(F, i, c)
          PROVE  HoldsOver(P, i, c, start, buf, W.off + n)
      <4>1. Sane(W.fs) /\ Live(W.fs, i)
        BY <2>1, <3>7 DEF WriteOn
      <4>2. HoldsOver(W.fs, i, c, start, buf, W.off)
        BY <1>3, <3>7 DEF Standing
      <4>3. /\ HoldsData(A.fs, i, A.block)
            /\ (\A m \in 0 .. k - 1 : NamedAt(W.fs, i, PlaceOf(m)) \in Blocks) =>
                 NamedAt(A.fs, i, PlaceOf(k)) = A.block
        BY <2>7, <3>2, <4>1
      <4>4. W.off \div BlockSize = k /\ W.off % BlockSize = at
        OBVIOUS
      <4>5. start \in 0 .. Len(c) /\ W.off >= start
        BY <2>1, <3>7
      <4>6. W.off + n <= start + Len(buf) /\ W.off + n <= MaxFileSize
        BY <2>1, <2>6, <3>6, Sizes DEF MaxFileSize
      <4>7. \A m \in at .. at + n - 1 : new[m] \in Cell /\ new[m] = buf[W.off + m - at - start + 1]
        BY <2>8 DEF new
      <4> HIDE DEF k, at, n
      <4>8. W.fs \in Mounted /\ W.off \in Nat /\ n \in Nat
        BY <2>1, <2>6
      <4>9. TurnFinds(W.fs, A.fs, i, k, A.block)
        <5>1. W.fs \in Mounted /\ StepOn(W.fs, A.fs, i) /\ k \in 0 .. 2 * NumDirect - 1
          BY <2>5, <2>7, <4>8
        <5> QED
          BY <4>1, <4>3, <5>1 DEF TurnFinds
      <4>10. TurnPuts(buf, start, W.off, n, at, new)
        BY <2>3, <2>6, <2>9, <4>5, <4>6, <4>7, <4>8 DEF TurnPuts
      <4>11. HoldsOver(Poke(A.fs, A.block, new), i, c, start, buf, W.off + n)
        BY <3>7, <4>2, <4>4, <4>5, <4>9, <4>10, TurnPokes
      <4> QED
        BY <4>11 DEF P
    <3>8. W.off + n = start + (W.ret + n)
      <4> HIDE DEF n
      <4> QED
        BY <1>3, <2>1, <2>6 DEF Standing
    <3> HIDE DEF n
    <3>9. WriteBlock(i, buf, start, W) \in Answers
      BY <3>1, <3>5, <3>6 DEF Result, Answers
    <3> DEFINE V == Result(P, W.ret + n, W.off + n)
    <3>10. V.fs = P /\ V.ret = W.ret + n /\ V.off = W.off + n
      BY DEF Result
    <3> HIDE DEF V
    <3>11. Standing(F, i, start, buf, V)
      BY <3>5, <3>6, <3>7, <3>8, <3>10 DEF Standing
    <3>12. Begun(buf, V)
      <4>1. W.ret + n >= 1
        BY <2>1, <2>6, <3>6 DEF n
      <4> QED
        BY <3>10, <4>1 DEF Begun
    <3> QED
      BY <3>1, <3>9, <3>11, <3>12 DEF V
  <2> QED
    BY <2>7, <2>11, <2>12, <2>13
<1> QED
  BY <1>2, <1>3

\* The write loop ends with what was written, or with a failure.
LEMMA WriteLoopEnds ==
  ASSUME NEW F \in Mounted, NEW i \in Inodes, NEW buf \in Seq(Cell), NEW off \in Nat,
         off + Len(buf) <= MaxFileSize
  PROVE  LET W == WriteLoop(F, i, buf, off)[2 * NumDirect]
         IN W \in Answers /\ Standing(F, i, off, buf, W) /\ Begun(buf, W)
<1> DEFINE N == 2 * NumDirect
           S == {W \in Answers : Standing(F, i, off, buf, W)}
           x == Result(F, 0, off)
           step == [a \in (1 .. N) \X S |-> WriteBlock(i, buf, off, a[2])]
           Follows(turn) == turn = [n \in 0 .. N |-> IF n = 0 THEN x
                                                     ELSE WriteBlock(i, buf, off, turn[n - 1])]
<1>1. N \in Nat
  BY Sizes
<1>2. x \in S
  <2>1. x.fs = F /\ x.ret = 0 /\ x.off = off /\ x \in Answers
    BY DEF Result, Answers
  <2>2. WriteOn(F, F, i)
    BY WriteSteps
  <2>3. off \in off .. off + Len(buf) /\ off = off + 0
    OBVIOUS
  <2>4. ASSUME NEW c \in Seq(Cell), Holds(F, i, c)
        PROVE  HoldsOver(F, i, c, off, buf, off)
    <3>1. off .. off - 1 = {}
      OBVIOUS
    <3> QED
      BY <2>4, <3>1 DEF Holds, HoldsOver
  <2> HIDE DEF x
  <2>5. /\ Standing(F, i, off, buf, x)
    BY <2>1, <2>2, <2>3, <2>4 DEF Standing
  <2> QED
    BY <2>1, <2>5
<1>3. ASSUME NEW W \in S
      PROVE  WriteBlock(i, buf, off, W) \in S /\ Begun(buf, WriteBlock(i, buf, off, W))
  BY <1>3, TurnOfWrite
<1> HIDE DEF S, x, N
<1>4. step \in [(1 .. N) \X S -> S]
  BY <1>3
<1>5. PICK g \in [0 .. N -> S] : g[0] = x /\ \A n \in 1 .. N : g[n] = step[<<n, g[n - 1]>>]
  <2> HIDE DEF step
  <2>1. Turned(N, S, x, step)
    BY <1>1, <1>2, <1>4, Recursion
  <2> QED
    BY <2>1 DEF Turned
<1>6. ASSUME NEW n \in 1 .. N
      PROVE  g[n] = WriteBlock(i, buf, off, g[n - 1])
  <2>1. n - 1 \in 0 .. N
    BY <1>1
  <2>2. g[n - 1] \in S
    BY <2>1
  <2> QED
    BY <1>5, <2>2
<1>7. Follows(g)
  <2> DEFINE h == [n \in 0 .. N |-> IF n = 0 THEN x ELSE WriteBlock(i, buf, off, g[n - 1])]
  <2>1. ASSUME NEW n \in 0 .. N
        PROVE  g[n] = h[n]
    <3>1. n = 0 \/ n \in 1 .. N
      BY <1>1
    <3> QED
      BY <1>5, <1>6, <3>1
  <2>2. h = [n \in 0 .. N |-> h[n]] /\ g = [n \in 0 .. N |-> g[n]]
    OBVIOUS
  <2>3. g = h
    <3> HIDE DEF h
    <3> QED
      BY <2>1, <2>2
  <2> QED
    BY <2>3
<1>8. WriteLoop(F, i, buf, off) = CHOOSE turn : Follows(turn)
  BY DEF WriteLoop, N, x
<1> DEFINE T == WriteLoop(F, i, buf, off)
<1>9. Follows(T)
  <2> HIDE DEF Follows
  <2> QED
    BY <1>7, <1>8
<1>10. T[0] = x /\ \A n \in 1 .. N : T[n] = WriteBlock(i, buf, off, T[n - 1])
  <2>1. T = [n \in 0 .. N |-> IF n = 0 THEN x ELSE WriteBlock(i, buf, off, T[n - 1])]
    BY <1>9
  <2> HIDE DEF T
  <2> QED
    BY <1>1, <2>1
<1> HIDE DEF T
<1> DEFINE Good == {n \in 0 .. N : T[n] \in S}
<1>11. \A n \in 0 .. N : n \in Good
  <2>1. 0 \in Good
    BY <1>1, <1>2, <1>10
  <2>2. ASSUME NEW n \in 1 .. N, n - 1 \in Good
        PROVE  n \in Good
    BY <1>3, <1>10, <2>2
  <2> HIDE DEF Good
  <2> QED
    BY <1>1, <2>1, <2>2, AllTurns
<1>12. T[N] \in S
  BY <1>1, <1>11
<1>13. Begun(buf, T[N])
  <2>1. N \in 1 .. N /\ N - 1 \in 0 .. N
    BY Sizes DEF N
  <2>2. T[N - 1] \in S /\ T[N] = WriteBlock(i, buf, off, T[N - 1])
    BY <1>10, <1>11, <2>1
  <2> QED
    BY <1>3, <2>2
<1> QED
  BY <1>12, <1>13 DEF S, T, N

\* An inode keeps its data when its places and what they name are left alone.
LEMMA AllKept ==
  ASSUME NEW F, NEW G, NEW i, \A p \in Place : NamedAt(G, i, p) = NamedAt(F, i, p),
         \A p \in Place : NamedAt(F, i, p) \in Blocks =>
           G.data[NamedAt(F, i, p)] = F.data[NamedAt(F, i, p)]
  PROVE  DataKept(F, G, i)
BY DEF DataKept, DataPlace, CellsOf

\* What is kept of every call: it may be followed by another.
LEMMA GrownTwice ==
  ASSUME NEW F \in Mounted, NEW G \in Mounted, NEW H \in Mounted, NEW is, NEW js,
         Enlarged(F, G, is), Enlarged(G, H, js)
  PROVE  Enlarged(F, H, is \cup js)
<1>1. \A k \in Inodes : F.inode[k].size \in Int /\ G.inode[k].size \in Int /\ H.inode[k].size \in Int
  BY MountedFields, NodeFields
<1>2. EntriesKept(F, H)
  <2>1. ASSUME NEW d \in Inodes, IsDir(F, d)
        PROVE  /\ IsDir(H, d) /\ F.inode[d].size <= H.inode[d].size
               /\ \A j \in EntriesOf(F, d) : EntryOf(H, d, j) = EntryOf(F, d, j)
    <3>1. /\ IsDir(G, d) /\ F.inode[d].size <= G.inode[d].size
          /\ \A j \in EntriesOf(F, d) : EntryOf(G, d, j) = EntryOf(F, d, j)
      BY <2>1 DEF Enlarged, EntriesKept
    <3>2. /\ IsDir(H, d) /\ G.inode[d].size <= H.inode[d].size
          /\ \A j \in EntriesOf(G, d) : EntryOf(H, d, j) = EntryOf(G, d, j)
      BY <3>1 DEF Enlarged, EntriesKept
    <3>3. F.inode[d].size <= H.inode[d].size
      BY <1>1, <3>1, <3>2
    <3>4. EntriesOf(F, d) \subseteq EntriesOf(G, d)
      BY <1>1, <3>1 DEF EntriesOf
    <3> QED
      BY <3>1, <3>2, <3>3, <3>4
  <2> QED
    BY <2>1 DEF EntriesKept
<1>3. ASSUME NEW k \in Inodes \ (is \cup js), Live(F, k)
      PROVE  /\ Live(H, k) /\ (is_directory(H.inode[k]) <=> is_directory(F.inode[k]))
             /\ F.inode[k].size <= H.inode[k].size
             /\ is_directory(F.inode[k]) \/ H.inode[k].size = F.inode[k].size
             /\ H.inode[k].size = F.inode[k].size => DataKept(F, H, k)
  <2>1. /\ Live(G, k) /\ (is_directory(G.inode[k]) <=> is_directory(F.inode[k]))
        /\ F.inode[k].size <= G.inode[k].size
        /\ is_directory(F.inode[k]) \/ G.inode[k].size = F.inode[k].size
        /\ G.inode[k].size = F.inode[k].size => DataKept(F, G, k)
    BY <1>3 DEF Enlarged, Spared
  <2>2. /\ Live(H, k) /\ (is_directory(H.inode[k]) <=> is_directory(G.inode[k]))
        /\ G.inode[k].size <= H.inode[k].size
        /\ is_directory(G.inode[k]) \/ H.inode[k].size = G.inode[k].size
        /\ H.inode[k].size = G.inode[k].size => DataKept(G, H, k)
    BY <1>3, <2>1 DEF Enlarged, Spared
  <2>3. F.inode[k].size <= H.inode[k].size
        /\ (H.inode[k].size = F.inode[k].size =>
              G.inode[k].size = F.inode[k].size /\ H.inode[k].size = G.inode[k].size)
    BY <1>1, <2>1, <2>2
  <2>4. DataKept(F, G, k) /\ DataKept(G, H, k) => DataKept(F, H, k)
    BY DEF DataKept
  <2> QED
    BY <2>1, <2>2, <2>3, <2>4
<1>4. ASSUME NEW k \in Inodes \ (is \cup js), ~ Live(F, k), Live(H, k)
      PROVE  H.inode[k].size = 0 /\ ~ is_directory(H.inode[k])
  <2>1. CASE Live(G, k)
    <3>1. G.inode[k].size = 0 /\ ~ is_directory(G.inode[k])
      BY <1>4, <2>1 DEF Enlarged, Spared
    <3>2. H.inode[k].size = G.inode[k].size /\ ~ is_directory(H.inode[k])
      BY <1>4, <2>1, <3>1 DEF Enlarged, Spared
    <3> QED
      BY <3>1, <3>2
  <2>2. CASE ~ Live(G, k)
    BY <1>4, <2>2 DEF Enlarged, Spared
  <2> QED
    BY <2>1, <2>2
<1>5. Spared(F, H, is \cup js)
  BY <1>3, <1>4 DEF Spared
<1> QED
  BY <1>2, <1>5 DEF Enlarged

\* A call that changes nothing.
LEMMA GrownStill ==
  ASSUME NEW F \in Mounted, NEW G, G.inode = F.inode, G.data = F.data, NEW is
  PROVE  Enlarged(F, G, is) /\ Bystanders(F, G, is)
<1>1. \A k \in Inodes : F.inode[k].size \in Int
  BY MountedFields, NodeFields
<1>2. \A k \in Inodes : Live(G, k) <=> Live(F, k)
  BY DEF Live
<1>3. ASSUME NEW k \in Inodes
      PROVE  DataKept(F, G, k)
  BY DEF DataKept, NamedAt, Number, CellsOf
<1>4. EntriesKept(F, G)
  BY <1>1, <1>2 DEF EntriesKept, IsDir, EntryOf, EntriesOf, CellsOf
<1>5. Spared(F, G, is)
  BY <1>1, <1>2, <1>3 DEF Spared
<1>6. Bystanders(F, G, is)
  BY <1>2, <1>3 DEF Bystanders
<1> QED
  BY <1>4, <1>5, <1>6 DEF Enlarged

\* A call that frees nothing spares the others.
LEMMA GrownSpares ==
  ASSUME NEW F, NEW G, NEW is
  PROVE  /\ Enlarged(F, G, is) => Bystanders(F, G, is)
         /\ Grows(F, G, is) => Spares(F, G, is)
<1>1. Enlarged(F, G, is) => Bystanders(F, G, is)
  BY DEF Enlarged, Spared, Bystanders
<1> QED
  BY <1>1 DEF Grows, Spares

\* So does one that only changes what an inode says of its owner and its type.
Untouched(F, G) ==
  \A j \in Inodes : /\ Live(G, j) <=> Live(F, j)
                    /\ G.inode[j].size = F.inode[j].size /\ DataKept(F, G, j)
LEMMA UntouchedSpares ==
  ASSUME NEW F, NEW G, NEW H, NEW is, Untouched(G, H)
  PROVE  Bystanders(G, H, is) /\ (Bystanders(F, G, is) => Bystanders(F, H, is))
BY DEF Untouched, Bystanders, DataKept

\* Such calls may follow each other.
LEMMA GrowsTwice ==
  ASSUME NEW F \in Mounted, NEW G, NEW H, NEW is, NEW js,
         Keeps(F, G), Grows(F, G, is), Keeps(G, H), Grows(G, H, js)
  PROVE  Grows(F, H, is \cup js)
<1>1. G \in Mounted /\ H \in Mounted
  BY DEF Keeps
<1> SUFFICES ASSUME Sane(F), Fine(H)
             PROVE  Enlarged(F, H, is \cup js)
  BY DEF Grows
<1>2. Fine(G) /\ Sane(G)
  BY DEF Keeps
<1>3. Enlarged(F, G, is) /\ Enlarged(G, H, js)
  BY <1>2 DEF Grows
<1> QED
  BY <1>1, <1>3, GrownTwice

\* And a call may follow one that looks at the disk.
LEMMA SparesAfter ==
  ASSUME NEW F, NEW G, G.inode = F.inode, G.data = F.data, Keeps(F, G),
         NEW H, Keeps(G, H), NEW is, Spares(G, H, is)
  PROVE  Spares(F, H, is)
<1> SUFFICES ASSUME Sane(F), Fine(H)
             PROVE  Bystanders(F, H, is)
  BY DEF Spares
<1>1. Bystanders(G, H, is)
  BY DEF Keeps, Spares
<1>2. \A k \in Inodes : /\ Live(G, k) <=> Live(F, k)
                         /\ G.inode[k].size = F.inode[k].size
  BY DEF Live
<1>3. ASSUME NEW k \in Inodes, DataKept(G, H, k)
      PROVE  DataKept(F, H, k)
  <2>1. \A p \in DataPlace : NamedAt(G, k, p) = NamedAt(F, k, p)
    BY DEF NamedAt, Number
  <2>2. \A b : CellsOf(G, b) = CellsOf(F, b)
    BY DEF CellsOf
  <2> QED
    BY <1>3, <2>1, <2>2 DEF DataKept
<1> QED
  BY <1>1, <1>2, <1>3 DEF Bystanders

\* What may be said of more inodes is said of fewer of the others.
LEMMA GrowsMore ==
  ASSUME NEW F, NEW G, NEW is, NEW js, is \subseteq js, Grows(F, G, is)
  PROVE  Grows(F, G, js)
BY DEF Grows, Enlarged, Spared

\* A write disturbs no directory.
LEMMA UndisturbedGrown ==
  ASSUME NEW F \in Mounted, Sane(F), NEW G, NEW is, Undisturbed(F, G, Inodes \ is),
         \A d \in Inodes : d \in is => ~ IsDir(F, d)
  PROVE  Enlarged(F, G, is)
<1>1. \A k \in Inodes : F.inode[k].size \in Int
  BY MountedFields, NodeFields
<1>2. ASSUME NEW d \in Inodes, IsDir(F, d)
      PROVE  /\ IsDir(G, d) /\ F.inode[d].size <= G.inode[d].size
             /\ \A j \in EntriesOf(F, d) : EntryOf(G, d, j) = EntryOf(F, d, j)
  <2>1. d \in Inodes \ is /\ Live(F, d)
    BY <1>2 DEF IsDir
  <2>2. /\ Live(G, d) /\ G.inode[d].mode = F.inode[d].mode /\ G.inode[d].size = F.inode[d].size
        /\ DataKept(F, G, d)
    BY <2>1 DEF Undisturbed
  <2>3. IsDir(G, d) /\ F.inode[d].size <= G.inode[d].size
    BY <1>1, <1>2, <2>2 DEF IsDir, is_directory
  <2>4. ASSUME NEW j \in EntriesOf(F, d)
        PROVE  EntryOf(G, d, j) = EntryOf(F, d, j)
    <3>1. FitsIn(F, d)
      BY <1>2 DEF Sane, DirsOK, DirOK
    <3>2. F.inode[d].direct[0] \in Blocks
      BY <3>1, EntryType
    <3>3. 0 \in DataPlace /\ NamedAt(F, d, 0) = F.inode[d].direct[0] /\ NamedAt(G, d, 0) = G.inode[d].direct[0]
      BY Sizes DEF DataPlace, Place, NamedAt
    <3>4. G.inode[d].direct[0] = F.inode[d].direct[0]
          /\ CellsOf(G, F.inode[d].direct[0]) = CellsOf(F, F.inode[d].direct[0])
      BY <2>2, <3>2, <3>3 DEF DataKept
    <3> QED
      BY <3>4 DEF EntryOf
  <2> QED
    BY <2>3, <2>4
<1>3. EntriesKept(F, G)
  BY <1>2 DEF EntriesKept
<1>4. Spared(F, G, is)
  BY <1>1 DEF Spared, Undisturbed, is_directory
<1> QED
  BY <1>3, <1>4 DEF Enlarged

\* Nothing but what an inode says of its type, owner and size changes.
LEMMA NodeSane ==
  ASSUME NEW F \in Mounted, NEW G \in Mounted, Sane(F), NEW i \in Inodes,
         G.used = F.used, G.data = F.data,
         \A j \in Inodes : j # i => G.inode[j] = F.inode[j],
         G.inode[i].direct = F.inode[i].direct, G.inode[i].indirect = F.inode[i].indirect,
         G.inode[i].nlink = F.inode[i].nlink,
         IsDir(G, i) => \/ G.inode[i].size = 0
                        \/ IsDir(F, i) /\ G.inode[i].size = F.inode[i].size
  PROVE  /\ Sane(G) /\ Bystanders(F, G, {})
         /\ \A j \in Inodes : (Live(G, j) <=> Live(F, j)) /\ DataKept(F, G, j)
<1>1. \A j \in Inodes : Live(G, j) <=> Live(F, j)
  BY DEF Live
<1>2. \A j \in Inodes, p \in Place : NamedAt(G, j, p) = NamedAt(F, j, p)
  <2>1. ASSUME NEW j \in Inodes, NEW p \in Place
        PROVE  NamedAt(G, j, p) = NamedAt(F, j, p)
    <3>1. G.inode[j].direct = F.inode[j].direct /\ G.inode[j].indirect = F.inode[j].indirect
      OBVIOUS
    <3> QED
      BY <3>1, NamedSame
  <2> QED
    BY <2>1
<1>3. OwnsOnce(G) /\ Marked(G)
  BY <1>1, <1>2, StillAccounted DEF Sane
<1>4. TablesOK(G)
  <2>1. \A j \in Inodes : G.inode[j].indirect = F.inode[j].indirect
    OBVIOUS
  <2> QED
    BY <1>1, <2>1 DEF TablesOK, IsTable, Sane
<1>5. DirsOK(G)
  <2>1. DirsOK(F)
    BY DEF Sane
  <2>2. ASSUME NEW d \in Inodes, IsDir(F, d)
        PROVE  \A j \in EntriesOf(F, d) : EntryOf(F, d, j).ino \in Inodes
    <3>1. FitsIn(F, d)
      BY <2>2 DEF Sane, DirsOK, DirOK
    <3> QED
      BY <3>1, EntryType DEF Cell
  <2>3. \A b : CellsOf(G, b) = CellsOf(F, b)
    BY DEF CellsOf
  <2>4. ASSUME NEW d \in Inodes, IsDir(G, d), G.inode[d].size # 0
        PROVE  IsDir(F, d) /\ G.inode[d].size = F.inode[d].size
               /\ G.inode[d].direct[0] = F.inode[d].direct[0]
    <3>1. d # i => IsDir(F, d) /\ G.inode[d].size = F.inode[d].size
      BY <1>1, <2>4 DEF IsDir
    <3> QED
      BY <2>4, <3>1
  <2>5. \A d \in Inodes : IsDir(G, d) =>
          \/ G.inode[d].size = 0
          \/ /\ IsDir(F, d) /\ G.inode[d].size = F.inode[d].size
             /\ F.inode[d].size > 0 =>
                  /\ G.inode[d].direct[0] = F.inode[d].direct[0]
                  /\ CellsOf(G, F.inode[d].direct[0]) = CellsOf(F, F.inode[d].direct[0])
    BY <2>3, <2>4
  <2>6. \A j \in Inodes : Live(F, j) => Live(G, j)
    BY <1>1
  <2> QED
    BY <2>1, <2>2, <2>5, <2>6, DirsStill
<1>6. ASSUME NEW j \in Inodes
      PROVE  DataKept(F, G, j)
  BY <1>2, AllKept
<1>7. Bystanders(F, G, {})
  BY <1>1, <1>6 DEF Bystanders
<1> QED
  BY <1>1, <1>3, <1>4, <1>5, <1>6, <1>7, Named DEF Sane

\* Raise() changes the size of an inode.
LEMMA RaiseFields ==
  ASSUME NEW F \in Mounted, NEW i \in Inodes, NEW end \in Nat, end <= MaxFileSize
  PROVE  LET G == Raise(F, i, end)
         IN /\ G \in Mounted /\ Same(F, G) /\ G.inode[i].mode = F.inode[i].mode
            /\ Live(F, i) => Live(G, i)
            /\ G.inode[i].size = IF end > F.inode[i].size THEN end ELSE F.inode[i].size
            /\ Sane(F) /\ Live(F, i) /\ ~ is_directory(F.inode[i]) =>
                 Sane(G) /\ Undisturbed(F, G, Inodes \ {i}) /\ DataKept(F, G, i)
<1> DEFINE node == [F.inode[i] EXCEPT !.size = end]
           G == [F EXCEPT !.inode[i] = node]
<1>1. [F EXCEPT !.inode[i].size = end] = G
  OBVIOUS
<1>2. F.inode[i] \in Node
  BY MountedFields
<1>3. /\ node \in Node /\ node.mode = F.inode[i].mode /\ node.nlink = F.inode[i].nlink
      /\ node.direct = F.inode[i].direct /\ node.indirect = F.inode[i].indirect /\ node.size = end
  BY <1>2 DEF Node, Inode
<1> HIDE DEF node
<1>4. G \in Mounted /\ G.inode = [F.inode EXCEPT ![i] = node] /\ G.used = F.used
      /\ G.data = F.data /\ Same(F, G)
  BY <1>3, SetNode
<1> HIDE DEF G
<1>5. G.inode[i] = node /\ \A j \in Inodes : j # i => G.inode[j] = F.inode[j]
  BY <1>4, MountedFields
<1>6. Live(F, i) => Live(G, i)
  BY <1>3, <1>5 DEF Live
<1>7. ASSUME Sane(F), Live(F, i), ~ is_directory(F.inode[i])
      PROVE  Sane(G) /\ Undisturbed(F, G, Inodes \ {i}) /\ DataKept(F, G, i)
  <2>1. ~ IsDir(G, i)
    BY <1>3, <1>5, <1>7 DEF IsDir, is_directory
  <2>2. /\ Sane(G) /\ Bystanders(F, G, {})
        /\ \A j \in Inodes : (Live(G, j) <=> Live(F, j)) /\ DataKept(F, G, j)
    BY <1>3, <1>4, <1>5, <1>7, <2>1, NodeSane
  <2> QED
    BY <1>5, <2>2 DEF Undisturbed
<1>8. CASE end > F.inode[i].size
  <2>1. Raise(F, i, end) = G
    BY <1>1, <1>8 DEF Raise
  <2>2. G.inode[i].size = IF end > F.inode[i].size THEN end ELSE F.inode[i].size
    BY <1>3, <1>5, <1>8
  <2>3. G.inode[i].mode = F.inode[i].mode
    BY <1>3, <1>5
  <2> QED
    BY <1>4, <1>6, <1>7, <2>1, <2>2, <2>3
<1>9. CASE ~ (end > F.inode[i].size)
  <2>1. Raise(F, i, end) = F
    BY <1>9 DEF Raise
  <2>2. Undisturbed(F, F, Inodes \ {i}) /\ DataKept(F, F, i)
    BY UndisturbedStill DEF DataKept
  <2> QED
    BY <1>9, <2>1, <2>2 DEF Same
<1> QED
  BY <1>8, <1>9

\* A live inode holds just c; one that is free holds nothing.
HoldsJust(F, i, c) ==
  /\ c \in Seq(Cell) /\ Len(c) <= MaxFileSize
  /\ IF Live(F, i) THEN F.inode[i].size = Len(c) /\ Holds(F, i, c) ELSE c = <<>>
\* It is a matter of the inodes and the blocks.
LEMMA HoldsAlike ==
  ASSUME NEW F, NEW G, G.inode = F.inode, G.data = F.data, NEW i, NEW c, HoldsJust(F, i, c)
  PROVE  HoldsJust(G, i, c)
<1>1. Live(G, i) <=> Live(F, i)
  BY DEF Live
<1>2. ASSUME NEW j, NEW x, HasAt(F, i, j, x)
      PROVE  HasAt(G, i, j, x)
  <2> DEFINE p == PlaceOf(j \div BlockSize)
             b == NamedAt(F, i, p)
  <2>1. b \in Blocks /\ CellsOf(F, b)[j % BlockSize] = x
    BY <1>2 DEF HasAt
  <2>2. NamedAt(G, i, p) = b
    BY DEF NamedAt, Number
  <2>3. CellsOf(G, b) = CellsOf(F, b)
    BY DEF CellsOf
  <2> QED
    BY <2>1, <2>2, <2>3 DEF HasAt
<1> QED
  BY <1>1, <1>2 DEF HoldsJust, Holds

\* What a call does to the others keeps what they hold.
LEMMA HeldStill ==
  ASSUME NEW F, NEW G, NEW is, Bystanders(F, G, is), NEW k \in Inodes \ is,
         NEW c, HoldsJust(F, k, c), Live(G, k), Live(F, k) => G.inode[k].size = F.inode[k].size
  PROVE  HoldsJust(G, k, c)
<1>1. CASE ~ Live(F, k)
  <2>1. c = <<>> /\ G.inode[k].size = 0 /\ Len(c) = 0
    BY <1>1 DEF HoldsJust, Bystanders
  <2>2. \A j \in 0 .. Len(c) - 1 : FALSE
    BY <2>1
  <2> QED
    BY <2>1, <2>2 DEF HoldsJust, Holds
<1>2. CASE Live(F, k)
  <2>1. DataKept(F, G, k)
    BY <1>2 DEF Bystanders
  <2>2. Holds(F, k, c) /\ Len(c) \in Nat /\ Len(c) <= MaxFileSize
    BY <1>2 DEF HoldsJust
  <2>3. MaxFileSize \in Int
    BY Sizes DEF MaxFileSize
  <2>4. ASSUME NEW j \in 0 .. Len(c) - 1
        PROVE  HasAt(G, k, j, c[j + 1])
    <3>1. j \in Nat /\ j < MaxFileSize
      BY <2>2, <2>3
    <3> QED
      BY <2>1, <2>2, <3>1, KeptAt DEF Holds
  <2> QED
    BY <1>2, <2>4 DEF HoldsJust, Holds
<1> QED
  BY <1>1, <1>2

\* What a write that does not fail puts into its inode.
PutsIn(F, R, buf, off) ==
  R.ret # -1 /\ Sane(F) /\ Fine(R.fs) =>
    /\ R.ino \in Inodes /\ Live(R.fs, R.ino) /\ ~ is_directory(R.fs.inode[R.ino])
    /\ R.ret \in 0 .. Len(buf) /\ R.off = off + R.ret /\ (Len(buf) > 0 => R.ret >= 1)
    /\ off + Len(buf) <= MaxFileSize
    /\ \A c : HoldsJust(F, R.ino, c) /\ off <= Len(c) =>
         /\ R.fs.inode[R.ino].size = IF off + Len(buf) > Len(c) THEN off + Len(buf) ELSE Len(c)
         /\ HoldsOver(R.fs, R.ino, c, off, buf, R.off)
\* What a write answers.
Written(F, R) ==
  /\ Keeps(F, R.fs) /\ R.ret \in Int /\ R.off \in Nat /\ R.ino \in Inodes \cup {NoInode}
  /\ Grows(F, R.fs, {R.ino})

\* A write to an inode keeps the disk.
LEMMA WriteInodeKeeps ==
  ASSUME NEW F \in Mounted, NEW i \in Inodes, Sane(F) => Live(F, i),
         NEW buf \in Seq(Cell), NEW off \in Nat
  PROVE  LET R == WriteInode(F, i, buf, off)
         IN Written(F, R) /\ PutsIn(F, R, buf, off) /\ (R.ret # -1 => R.ino = i)
<1> DEFINE R == WriteInode(F, i, buf, off)
           end == off + Len(buf)
           E == Raise(F, i, end)
           G == RuinedIf(E, is_directory(F.inode[i]))
           W == WriteLoop(G, i, buf, off)[2 * NumDirect]
<1>1. CASE end > MaxFileSize
  <2>1. R = Wrote(Result(F, -1, off), NoInode)
    BY <1>1 DEF WriteInode
  <2>2. R.fs = F /\ R.ret = -1 /\ R.off = off /\ R.ino = NoInode
    BY <2>1 DEF Wrote, Result
  <2>3. Grows(F, F, {NoInode})
    BY GrownStill DEF Grows
  <2> HIDE DEF R
  <2>4. Written(F, R)
    BY <2>2, <2>3, KeepsStill DEF Written
  <2>5. PutsIn(F, R, buf, off)
    BY <2>2 DEF PutsIn
  <2> QED
    BY <2>2, <2>4, <2>5 DEF R
<1>2. CASE ~ (end > MaxFileSize)
  <2>1. R = Wrote(W, i)
    BY <1>2 DEF WriteInode
  <2>2. end \in Nat /\ end <= MaxFileSize
    BY <1>2, Sizes DEF MaxFileSize
  <2>3. /\ E \in Mounted /\ Same(F, E) /\ E.inode[i].mode = F.inode[i].mode
        /\ Live(F, i) => Live(E, i)
        /\ E.inode[i].size = IF end > F.inode[i].size THEN end ELSE F.inode[i].size
        /\ Sane(F) /\ Live(F, i) /\ ~ is_directory(F.inode[i]) =>
             Sane(E) /\ Undisturbed(F, E, Inodes \ {i}) /\ DataKept(F, E, i)
    <3> HIDE DEF end
    <3> QED
      BY <2>2, RaiseFields
  <2> HIDE DEF E
  <2>4. CASE is_directory(F.inode[i])
    <3>1. G = Ruined(E)
      BY <2>4 DEF RuinedIf
    <3>2. G \in Mounted /\ ~ Fine(G)
      <4>1. {} \in SUBSET Inodes
        OBVIOUS
      <4>2. Ruined(E) \in Mounted /\ Ruined(E).status = "ruined"
        BY <2>3, <4>1, HistoryFields
      <4> QED
        BY <3>1, <4>2 DEF Fine
    <3> HIDE DEF G
    <3>3. W \in Answers /\ Standing(G, i, off, buf, W)
      BY <2>2, <3>2, WriteLoopEnds
    <3> HIDE DEF W
    <3>4. Keeps(F, W.fs) /\ ~ Fine(W.fs)
      BY <3>2, <3>3 DEF Standing, WriteOn, Keeps
    <3>5. R.fs = W.fs /\ R.ret = W.ret /\ R.off = W.off /\ R.ino = i
      BY <2>1 DEF Wrote
    <3> HIDE DEF R
    <3>6. Written(F, R)
      BY <3>3, <3>4, <3>5 DEF Written, Grows, Standing
    <3>7. PutsIn(F, R, buf, off)
      BY <3>4, <3>5 DEF PutsIn
    <3> QED
      BY <3>5, <3>6, <3>7 DEF R
  <2>5. CASE ~ is_directory(F.inode[i])
    <3>1. G = E
      BY <2>5 DEF RuinedIf
    <3>2. W \in Answers /\ Standing(E, i, off, buf, W) /\ Begun(buf, W)
      BY <2>2, <2>3, <3>1, WriteLoopEnds
    <3> HIDE DEF W, G
    <3>3. Fine(W.fs) => Fine(F)
      BY <2>3, <3>2 DEF Standing, WriteOn, Same, Fine
    <3>4. ASSUME Sane(F)
          PROVE  /\ Sane(E) /\ Live(E, i) /\ ~ is_directory(E.inode[i]) /\ Sane(W.fs) /\ Live(W.fs, i)
                 /\ ~ is_directory(W.fs.inode[i]) /\ W.fs.inode[i].size = E.inode[i].size
                 /\ Undisturbed(F, W.fs, Inodes \ {i})
      <4>1. Sane(E) /\ Live(E, i) /\ ~ is_directory(E.inode[i]) /\ Undisturbed(F, E, Inodes \ {i})
        BY <2>3, <2>5, <3>4 DEF is_directory
      <4>2. /\ W.fs.inode[i].mode = E.inode[i].mode /\ W.fs.inode[i].size = E.inode[i].size
            /\ Live(W.fs, i) /\ Sane(W.fs) /\ Undisturbed(E, W.fs, Inodes \ {i})
        BY <3>2, <4>1 DEF Standing, WriteOn
      <4>3. Undisturbed(F, W.fs, Inodes \ {i})
        BY <4>1, <4>2, UndisturbedTwice
      <4> QED
        BY <4>1, <4>2, <4>3 DEF is_directory
    <3>5. Keeps(F, W.fs)
      BY <3>2, <3>3, <3>4 DEF Standing, Keeps
    <3>6. Grows(F, W.fs, {i})
      <4>1. ~ IsDir(F, i)
        BY <2>5 DEF IsDir
      <4> QED
        BY <3>4, <4>1, UndisturbedGrown DEF Grows
    <3>7. R.fs = W.fs /\ R.ret = W.ret /\ R.off = W.off /\ R.ino = i
      BY <2>1 DEF Wrote
    <3> HIDE DEF R
    <3>8. Written(F, R)
      BY <3>2, <3>5, <3>6, <3>7 DEF Written, Standing
    <3>9. ASSUME Sane(F), W.ret # -1, NEW c, HoldsJust(F, i, c), off <= Len(c)
          PROVE  /\ W.fs.inode[i].size = IF end > Len(c) THEN end ELSE Len(c)
                 /\ HoldsOver(W.fs, i, c, off, buf, W.off)
      <4>1. c \in Seq(Cell) /\ Len(c) <= MaxFileSize /\ F.inode[i].size = Len(c) /\ Holds(F, i, c)
        BY <3>9 DEF HoldsJust
      <4>2. DataKept(F, E, i)
        BY <2>3, <2>5, <3>9
      <4>3. Holds(E, i, c)
        <5>1. ASSUME NEW j \in 0 .. Len(c) - 1
              PROVE  HasAt(E, i, j, c[j + 1])
          <6>1. MaxFileSize \in Int /\ Len(c) \in Nat
            BY <4>1, Sizes DEF MaxFileSize
          <6>2. j \in Nat /\ j < MaxFileSize
            BY <4>1, <6>1
          <6>3. HasAt(F, i, j, c[j + 1])
            BY <4>1 DEF Holds
          <6> QED
            BY <4>2, <6>2, <6>3, KeptAt
        <5> QED
          BY <5>1 DEF Holds
      <4>4. Sane(E) /\ Live(E, i) /\ ~ is_directory(E.inode[i])
        BY <3>4, <3>9
      <4>5. HoldsOver(W.fs, i, c, off, buf, W.off)
        BY <3>2, <3>9, <4>1, <4>3, <4>4 DEF Standing
      <4>6. W.fs.inode[i].size = E.inode[i].size
        BY <3>4, <3>9
      <4> HIDE DEF end
      <4> QED
        BY <2>3, <4>1, <4>5, <4>6
    <3>10. ASSUME W.ret # -1
           PROVE  W.ret \in 0 .. Len(buf) /\ W.off = off + W.ret /\ (Len(buf) > 0 => W.ret >= 1)
      BY <3>2, <3>10 DEF Standing, Begun
    <3>11. PutsIn(F, R, buf, off)
      BY <2>2, <3>4, <3>7, <3>9, <3>10 DEF PutsIn
    <3> QED
      BY <3>7, <3>8, <3>11 DEF R
  <2> QED
    BY <2>4, <2>5
<1> QED
  BY <1>1, <1>2
------------------------------------------------------------------------------
(* Entries put into a directory.                                            *)

\* A position before the start is in no block.
LEMMA BeforeStart ==
  ASSUME NEW j \in Int, j \div BlockSize >= 0
  PROVE  j \in Nat
<1>1. j = (j \div BlockSize) * BlockSize + (j % BlockSize) /\ j \div BlockSize \in Int
      /\ j % BlockSize \in Nat
  BY Sizes
<1>2. ASSUME NEW k \in Nat, NEW r \in Nat, NEW B \in Nat
      PROVE  k * B + r \in Nat
  OBVIOUS
<1> QED
  BY <1>1, <1>2, Sizes

\* A byte that is set to zero changes one cell, one number, or the map.
LEMMA ZeroByteFields ==
  ASSUME NEW F \in Mounted, NEW b \in Blocks \cup {Unassigned, NumBlocks}, NEW at \in 0 .. BlockSize - 1
  PROVE  LET Z == ZeroByte(F, b, at)
         IN /\ Z \in Mounted /\ Z.inode = F.inode /\ Same(F, Z)
            /\ \A c \in Blocks \cup {Unassigned} : c # b => Z.data[c] = F.data[c]
            /\ b \in Blocks => Z.used = F.used
            /\ b \in Blocks /\ F.data[b].as = "cells" =>
                 \A j \in 0 .. BlockSize - 1 : j # at => CellsOf(Z, b)[j] = CellsOf(F, b)[j]
<1> DEFINE Z == ZeroByte(F, b, at)
<1>1. CASE b = NumBlocks
  <2> DEFINE bs == F.used \ {0}
  <2>1. Z = [F EXCEPT !.used = bs]
    BY <1>1 DEF ZeroByte
  <2>2. bs \in SUBSET Blocks
    BY MountedFields
  <2> HIDE DEF bs
  <2>3. [F EXCEPT !.used = bs] \in Mounted /\ [F EXCEPT !.used = bs].inode = F.inode
        /\ [F EXCEPT !.used = bs].data = F.data /\ Same(F, [F EXCEPT !.used = bs])
    BY <2>2, SetUsed
  <2>4. b \notin Blocks
    BY <1>1, Named
  <2> QED
    BY <2>1, <2>3, <2>4
<1>2. CASE b # NumBlocks /\ F.data[b].as = "table"
  <2> DEFINE old == F.data[b]
             n == CutNumber(old.at[0])
             numbers == [old.at EXCEPT ![0] = n]
             table == [old EXCEPT !.at = numbers]
             G == [F EXCEPT !.data[b] = table]
  <2>1. b \in Blocks \cup {Unassigned}
    BY <1>2
  <2>2. Z = [F EXCEPT !.data[b].at[0] = n]
    BY <1>2 DEF ZeroByte
  <2>3. old \in Content /\ old.at \in [0 .. NumIndirect - 1 -> Numbers]
    BY <1>2, <2>1, MountedFields DEF Content
  <2>4. n \in Numbers
    BY Named DEF CutNumber, Numbers
  <2> HIDE DEF n
  <2>5. [F EXCEPT !.data[b].at[0] = n] = G
    OBVIOUS
  <2>6. numbers \in [0 .. NumIndirect - 1 -> Numbers]
    BY <2>3, <2>4
  <2> HIDE DEF numbers
  <2>7. table \in Content
    BY <1>2, <2>3, <2>6 DEF Content
  <2> HIDE DEF table
  <2>8. G \in Mounted /\ G.inode = F.inode /\ G.used = F.used
        /\ G.data = [F.data EXCEPT ![b] = table] /\ Same(F, G)
    BY <2>1, <2>7, SetData
  <2> HIDE DEF G
  <2>9. \A c \in Blocks \cup {Unassigned} : c # b => G.data[c] = F.data[c]
    BY <2>8, MountedFields
  <2> QED
    BY <1>2, <2>2, <2>5, <2>8, <2>9
<1>3. CASE b # NumBlocks /\ F.data[b].as # "table"
  <2> DEFINE new == [j \in {at} |-> CutCell(CellsOf(F, b)[j])]
             G == Poke(F, b, new)
  <2>1. b \in Blocks \cup {Unassigned}
    BY <1>3
  <2>2. Z = G
    BY <1>3 DEF ZeroByte
  <2>3. CellsOf(F, b)[at] \in Cell
    BY <2>1, CellsType
  <2>4. CutCell(CellsOf(F, b)[at]) \in Cell
    BY <2>3 DEF CutCell, Cell, Name
  <2>5. DOMAIN new = {at} /\ \A j \in 0 .. BlockSize - 1 : j \in DOMAIN new => new[j] \in Cell
    BY <2>4
  <2> HIDE DEF new
  <2>6. G \in Mounted /\ G.inode = F.inode /\ G.used = F.used
        /\ G.data = [F.data EXCEPT ![b] = Cells(Poked(F, b, new))] /\ Same(F, G)
    BY <2>1, <2>5, PokeFields
  <2> HIDE DEF G
  <2>7. G.data[b] = Cells(Poked(F, b, new))
        /\ \A c \in Blocks \cup {Unassigned} : c # b => G.data[c] = F.data[c]
    BY <2>1, <2>6, MountedFields
  <2>8. \A j \in 0 .. BlockSize - 1 : j # at => CellsOf(G, b)[j] = CellsOf(F, b)[j]
    <3>1. b # Null
      BY <2>1, Named
    <3>2. CellsOf(G, b) = Poked(F, b, new)
      BY <2>7, <3>1 DEF CellsOf, Cells
    <3> QED
      BY <2>5, <3>2 DEF Poked
  <2> QED
    BY <2>2, <2>6, <2>7, <2>8
<1> QED
  BY <1>1, <1>2, <1>3

\* What a block holds that Poke() has changed.
LEMMA PokeCells ==
  ASSUME NEW F \in Mounted, NEW b \in Blocks \cup {Unassigned}, NEW new,
         \A j \in 0 .. BlockSize - 1 : j \in DOMAIN new => new[j] \in Cell
  PROVE  LET G == Poke(F, b, new)
         IN /\ \A c \in Blocks \cup {Unassigned} : c # b => G.data[c] = F.data[c]
            /\ G.data[b].as = "cells" /\ CellsOf(G, b) = Poked(F, b, new)
<1> DEFINE G == Poke(F, b, new)
<1>1. G.data = [F.data EXCEPT ![b] = Cells(Poked(F, b, new))]
  BY PokeFields
<1> HIDE DEF G
<1>2. G.data[b] = Cells(Poked(F, b, new))
      /\ \A c \in Blocks \cup {Unassigned} : c # b => G.data[c] = F.data[c]
  BY <1>1, MountedFields
<1>3. b # Null
  BY Named
<1>4. CellsOf(G, b) = Poked(F, b, new)
  BY <1>2, <1>3 DEF CellsOf, Cells
<1>5. G.data[b].as = "cells"
  BY <1>2 DEF Cells
<1> QED
  BY <1>2, <1>4, <1>5 DEF G

\* An entry that is put into a block: what runs over spoils nothing in use, or the
\* disk is ruined.
LEMMA PutEntryFields ==
  ASSUME NEW F \in Mounted, NEW b \in Blocks \cup {Unassigned}, NEW at \in 0 .. BlockSize - 1,
         NEW entry \in Cell
  PROVE  LET P == PutEntry(F, b, at, entry)
         IN /\ P \in Mounted /\ P.inode = F.inode /\ P.untidy = F.untidy
            /\ P.status \in {F.status, "ruined"}
            /\ P.status # "ruined" /\ b \in Blocks =>
                 /\ P.used = F.used
                 /\ \A c \in F.used : c # b => P.data[c] = F.data[c]
                 /\ \A j \in 0 .. at : CellsOf(P, b)[j] = IF j = at THEN entry ELSE CellsOf(F, b)[j]
<1> DEFINE new == [j \in {at} |-> entry]
           G == Poke(F, b, new)
           P == PutEntry(F, b, at, entry)
<1>1. DOMAIN new = {at} /\ new[at] = entry /\ \A j \in 0 .. BlockSize - 1 : j \in DOMAIN new => new[j] \in Cell
  OBVIOUS
<1>2. PutEntry(F, b, at, entry) = IF at + 1 < BlockSize THEN ZeroByte(G, b, at + 1)
                                  ELSE RunOver(G, ZeroByte(G, b + 1, 0), b + 1)
  BY DEF PutEntry
<1> HIDE DEF new
<1>3. G \in Mounted /\ G.inode = F.inode /\ G.used = F.used /\ Same(F, G)
  BY <1>1, PokeFields
<1>4. /\ \A c \in Blocks \cup {Unassigned} : c # b => G.data[c] = F.data[c]
      /\ G.data[b].as = "cells" /\ CellsOf(G, b) = Poked(F, b, new)
  BY <1>1, PokeCells
<1>5. \A j \in 0 .. at : CellsOf(G, b)[j] = IF j = at THEN entry ELSE CellsOf(F, b)[j]
  <2>1. \A j \in 0 .. at : j \in 0 .. BlockSize - 1
    BY Sizes
  <2> QED
    BY <1>1, <1>4, <2>1 DEF Poked
<1> HIDE DEF G
<1>6. F.used \subseteq Blocks
  BY MountedFields
<1>7. CASE at + 1 < BlockSize
  <2> DEFINE Z == ZeroByte(G, b, at + 1)
  <2>1. P = Z
    BY <1>2, <1>7
  <2>2. at + 1 \in 0 .. BlockSize - 1 /\ b \in Blocks \cup {Unassigned, NumBlocks}
    BY <1>7, Sizes
  <2>3. /\ Z \in Mounted /\ Z.inode = G.inode /\ Same(G, Z)
        /\ \A c \in Blocks \cup {Unassigned} : c # b => Z.data[c] = G.data[c]
        /\ b \in Blocks => Z.used = G.used
        /\ b \in Blocks => \A j \in 0 .. BlockSize - 1 : j # at + 1 => CellsOf(Z, b)[j] = CellsOf(G, b)[j]
    BY <1>3, <1>4, <2>2, ZeroByteFields
  <2> HIDE DEF Z
  <2>4. \A j \in 0 .. at : j \in 0 .. BlockSize - 1 /\ j # at + 1
    BY Sizes
  <2> HIDE DEF P
  <2>5. P \in Mounted /\ P.inode = F.inode /\ P.untidy = F.untidy /\ P.status = F.status
    BY <1>3, <2>1, <2>3 DEF Same
  <2>6. ASSUME b \in Blocks
        PROVE  /\ P.used = F.used
               /\ \A c \in F.used : c # b => P.data[c] = F.data[c]
               /\ \A j \in 0 .. at : CellsOf(P, b)[j] = IF j = at THEN entry ELSE CellsOf(F, b)[j]
    <3>1. P.used = F.used
      BY <1>3, <2>1, <2>3, <2>6
    <3>2. \A c \in F.used : c # b => P.data[c] = F.data[c]
      BY <1>4, <1>6, <2>1, <2>3
    <3>3. \A j \in 0 .. at : CellsOf(P, b)[j] = IF j = at THEN entry ELSE CellsOf(F, b)[j]
      BY <1>5, <2>1, <2>3, <2>4, <2>6
    <3> QED
      BY <3>1, <3>2, <3>3
  <2> QED
    BY <2>5, <2>6 DEF P
<1>8. CASE ~ (at + 1 < BlockSize)
  <2> DEFINE next == b + 1
             Z == ZeroByte(G, next, 0)
  <2>1. P = RunOver(G, Z, next)
    BY <1>2, <1>8
  <2>2. next \in Blocks \cup {Unassigned, NumBlocks} /\ next # b /\ 0 \in 0 .. BlockSize - 1
    BY Sizes DEF Blocks, Unassigned
  <2> HIDE DEF next
  <2>3. /\ Z \in Mounted /\ Z.inode = G.inode /\ Same(G, Z)
        /\ \A c \in Blocks \cup {Unassigned} : c # next => Z.data[c] = G.data[c]
    BY <1>3, <2>2, ZeroByteFields
  <2> HIDE DEF Z, P
  <2>4. CASE G.used # Z.used \/ (next \in G.used /\ G.data # Z.data)
    <3>1. P = Ruined(Z)
      BY <2>1, <2>4 DEF RunOver
    <3>2. Ruined(Z) \in Mounted /\ Ruined(Z).status = "ruined"
      <4>1. {} \in SUBSET Inodes
        OBVIOUS
      <4> QED
        BY <2>3, <4>1, HistoryFields
    <3>3. Ruined(Z).inode = Z.inode /\ Ruined(Z).untidy = Z.untidy
      BY <2>3 DEF Ruined, Mounted
    <3>4. P \in Mounted /\ P.inode = F.inode /\ P.untidy = F.untidy /\ P.status = "ruined"
      BY <1>3, <2>3, <3>1, <3>2, <3>3 DEF Same
    <3> QED
      BY <3>4 DEF P
  <2>5. CASE ~ (G.used # Z.used \/ (next \in G.used /\ G.data # Z.data))
    <3>1. P = Z
      BY <2>1, <2>5 DEF RunOver
    <3>2. P \in Mounted /\ P.inode = F.inode /\ P.untidy = F.untidy /\ P.status = F.status
          /\ P.used = F.used
      BY <1>3, <2>3, <2>5, <3>1 DEF Same
    <3>3. \A c \in F.used : c # b => P.data[c] = F.data[c]
      <4>1. ASSUME NEW c \in F.used, c # b
            PROVE  Z.data[c] = F.data[c]
        <5>1. c \in Blocks /\ G.data[c] = F.data[c]
          BY <1>4, <1>6, <4>1
        <5>2. CASE c = next
          BY <1>3, <2>5, <5>1, <5>2
        <5>3. CASE c # next
          BY <2>3, <5>1, <5>3
        <5> QED
          BY <5>2, <5>3
      <4> QED
        BY <3>1, <4>1
    <3>4. ASSUME b \in Blocks
          PROVE  \A j \in 0 .. at : CellsOf(P, b)[j] = IF j = at THEN entry ELSE CellsOf(F, b)[j]
      <4>1. Z.data[b] = G.data[b]
        BY <2>2, <2>3
      <4>2. CellsOf(P, b) = CellsOf(G, b)
        BY <3>1, <4>1 DEF CellsOf
      <4> QED
        BY <1>5, <4>2
    <3> QED
      BY <3>2, <3>3, <3>4 DEF P
  <2> QED
    BY <2>4, <2>5
<1> QED
  BY <1>7, <1>8

\* A free inode that names no block becomes live.
LEMMA NewAccounted ==
  ASSUME NEW F, NEW G, OwnsOnce(F), Marked(F), G.used = F.used, NEW i \in Inodes,
         \A j \in Inodes : Live(G, j) <=> Live(F, j) \/ j = i,
         ~ Live(F, i), \A p \in Place : NamedAt(G, i, p) = Unassigned,
         \A j \in Inodes, p \in Place : Live(F, j) => NamedAt(G, j, p) = NamedAt(F, j, p)
  PROVE  OwnsOnce(G) /\ Marked(G)
<1>1. OwnsOnce(G)
  <2>1. ASSUME NEW j \in Inodes, NEW k \in Inodes, NEW p \in Place, NEW q \in Place,
               Live(G, j), Live(G, k), NamedAt(G, j, p) # Unassigned,
               NamedAt(G, j, p) = NamedAt(G, k, q)
        PROVE  j = k /\ p = q
    <3>1. j # i /\ k # i
      BY <2>1
    <3>2. Live(F, j) /\ Live(F, k)
      BY <2>1, <3>1
    <3>3. NamedAt(F, j, p) # Unassigned /\ NamedAt(F, j, p) = NamedAt(F, k, q)
      BY <2>1, <3>2
    <3> QED
      BY <3>2, <3>3 DEF OwnsOnce
  <2> QED
    BY <2>1 DEF OwnsOnce
<1>2. Marked(G)
  <2>1. ASSUME NEW b \in Blocks
        PROVE  (\E j \in Inodes, p \in Place : Live(G, j) /\ NamedAt(G, j, p) = b)
               <=> (\E j \in Inodes, p \in Place : Live(F, j) /\ NamedAt(F, j, p) = b)
    <3>1. b # Unassigned
      BY Named
    <3>2. ASSUME NEW j \in Inodes, NEW p \in Place
          PROVE  Live(G, j) /\ NamedAt(G, j, p) = b <=> Live(F, j) /\ NamedAt(F, j, p) = b
      BY <3>1
    <3> QED
      BY <3>2
  <2> QED
    BY <2>1 DEF Marked
<1> QED
  BY <1>1, <1>2

\* A directory gets an entry for an inode that was free.
LEMMA EntryAdded ==
  ASSUME NEW F, NEW G, DirsOK(F), NEW p \in Inodes, IsDir(F, p), NEW i \in Inodes, i # 0, ~ Live(F, i),
         \A j \in Inodes : Live(G, j) <=> Live(F, j) \/ j = i,
         IsDir(G, i) => G.inode[i].size = 0,
         \A d \in Inodes : d # i => (IsDir(G, d) <=> IsDir(F, d)),
         \A d \in Inodes : IsDir(F, d) /\ d # p => FitsIn(G, d) /\ G.inode[d].size = F.inode[d].size,
         \A d \in Inodes : IsDir(F, d) => \A j \in EntriesOf(F, d) :
           EntryOf(F, d, j).ino \in Inodes /\ EntryOf(G, d, j) = EntryOf(F, d, j),
         FitsIn(G, p), G.inode[p].size = F.inode[p].size + 1, NEW name,
         EntryOf(G, p, F.inode[p].size) = Entry(name, i),
         \A j \in EntriesOf(F, p) : EntryOf(F, p, j).name # name
  PROVE  DirsOK(G)
<1>1. i # p
  BY DEF IsDir
<1>2. DirOK(F, p) /\ F.inode[p].size \in Nat
  BY Sizes DEF DirsOK, DirOK, FitsIn
<1> DEFINE n == F.inode[p].size
<1>3. EntriesOf(G, p) = EntriesOf(F, p) \cup {n} /\ n \notin EntriesOf(F, p)
  BY <1>2 DEF EntriesOf
<1>4. \A d \in Inodes : IsDir(F, d) /\ d # p => EntriesOf(G, d) = EntriesOf(F, d)
  BY DEF EntriesOf
<1>5. EntryOf(G, p, n).ino = i /\ EntryOf(G, p, n).name = name
  BY DEF Entry
<1> HIDE DEF n
<1>6. ASSUME NEW d \in Inodes, IsDir(F, d), NEW j \in EntriesOf(F, d)
      PROVE  /\ EntryOf(G, d, j) = EntryOf(F, d, j) /\ EntryOf(F, d, j).ino # i
             /\ EntryOK(G, d, j)
  <2>1. EntryOK(F, d, j) /\ EntryOf(F, d, j).ino \in Inodes /\ EntryOf(G, d, j) = EntryOf(F, d, j)
    BY <1>6 DEF DirsOK, DirOK
  <2>2. Live(F, EntryOf(F, d, j).ino) /\ EntryOf(F, d, j).ino \notin {0, d}
    BY <2>1 DEF EntryOK
  <2> QED
    BY <2>1, <2>2 DEF EntryOK
<1>7. EntryOK(G, p, n)
  BY <1>1, <1>5 DEF EntryOK
<1>8. ASSUME NEW d \in Inodes, IsDir(G, d), d = i
      PROVE  FitsIn(G, d) /\ EntriesOf(G, d) = {}
  BY <1>8, Sizes DEF FitsIn, EntriesOf
<1>9. ASSUME NEW d \in Inodes, IsDir(G, d)
      PROVE  DirOK(G, d)
  <2>1. CASE d = i
    BY <1>8, <1>9, <2>1 DEF DirOK, NamesOnce
  <2>2. CASE d # i /\ d # p
    <3>1. IsDir(F, d) /\ FitsIn(G, d) /\ EntriesOf(G, d) = EntriesOf(F, d)
      BY <1>4, <1>9, <2>2
    <3>2. NamesOnce(F, d)
      BY <3>1 DEF DirsOK, DirOK
    <3>3. NamesOnce(G, d)
      BY <1>6, <3>1, <3>2 DEF NamesOnce
    <3> QED
      BY <1>6, <3>1, <3>3 DEF DirOK
  <2>3. CASE d = p
    <3>1. \A j \in EntriesOf(G, p) : EntryOK(G, p, j)
      BY <1>3, <1>6, <1>7
    <3>2. NamesOnce(F, p)
      BY <1>2 DEF DirOK
    <3>3. ASSUME NEW j \in EntriesOf(G, p), NEW k \in EntriesOf(G, p),
                 EntryOf(G, p, j).name = EntryOf(G, p, k).name
          PROVE  j = k
      <4>1. \A m \in EntriesOf(F, p) : EntryOf(G, p, m).name = EntryOf(F, p, m).name
                                       /\ EntryOf(G, p, m).name # name
        BY <1>6
      <4>2. CASE j = n \/ k = n
        BY <1>3, <1>5, <3>3, <4>1, <4>2
      <4>3. CASE j # n /\ k # n
        <5>1. j \in EntriesOf(F, p) /\ k \in EntriesOf(F, p)
          BY <1>3, <4>3
        <5> QED
          BY <3>2, <3>3, <4>1, <5>1 DEF NamesOnce
      <4> QED
        BY <4>2, <4>3
    <3>4. NamesOnce(G, p)
      BY <3>3 DEF NamesOnce
    <3> QED
      BY <2>3, <3>1, <3>4 DEF DirOK
  <2> QED
    BY <2>1, <2>2, <2>3
<1>10. ASSUME NEW d \in Inodes, NEW e \in Inodes, IsDir(G, d), IsDir(G, e),
              NEW j \in EntriesOf(G, d), NEW k \in EntriesOf(G, e),
              EntryOf(G, d, j).ino = EntryOf(G, e, k).ino
       PROVE  d = e /\ j = k
  <2>1. d # i /\ e # i
    BY <1>8, <1>10
  <2>2. IsDir(F, d) /\ IsDir(F, e)
    BY <1>10, <2>1
  <2>3. (j \in EntriesOf(F, d) \/ (d = p /\ j = n)) /\ (k \in EntriesOf(F, e) \/ (e = p /\ k = n))
    BY <1>3, <1>4, <1>10, <2>2
  <2>4. CASE j \in EntriesOf(F, d) /\ k \in EntriesOf(F, e)
    <3>1. EntryOf(F, d, j).ino = EntryOf(F, e, k).ino
      BY <1>6, <1>10, <2>2, <2>4
    <3>2. InOneDirectory(F, d, e)
      BY <2>2 DEF DirsOK
    <3> QED
      BY <2>4, <3>1, <3>2 DEF InOneDirectory
  <2>5. CASE j \in EntriesOf(F, d) /\ ~ (k \in EntriesOf(F, e))
    <3>1. EntryOf(G, e, k).ino = i
      BY <1>5, <2>3, <2>5
    <3> QED
      BY <1>6, <1>10, <2>2, <2>5, <3>1
  <2>6. CASE ~ (j \in EntriesOf(F, d)) /\ k \in EntriesOf(F, e)
    <3>1. EntryOf(G, d, j).ino = i
      BY <1>5, <2>3, <2>6
    <3> QED
      BY <1>6, <1>10, <2>2, <2>6, <3>1
  <2>7. CASE ~ (j \in EntriesOf(F, d)) /\ ~ (k \in EntriesOf(F, e))
    BY <2>3, <2>7
  <2> QED
    BY <2>4, <2>5, <2>6, <2>7
<1>11. \A d, e \in Inodes : IsDir(G, d) /\ IsDir(G, e) => InOneDirectory(G, d, e)
  BY <1>10 DEF InOneDirectory
<1> QED
  BY <1>9, <1>11 DEF DirsOK

\* A directory loses the h-th of its entries, and the inode it was for is free.
LEMMA EntryRemoved ==
  ASSUME NEW F, NEW G, DirsOK(F), NEW p \in Inodes, IsDir(F, p), NEW h \in EntriesOf(F, p),
         NEW i, EntryOf(F, p, h).ino = i,
         \A j \in Inodes : Live(G, j) <=> Live(F, j) /\ j # i,
         \A d \in Inodes : IsDir(G, d) => IsDir(F, d),
         \A d \in Inodes : IsDir(G, d) /\ d # p => FitsIn(G, d) /\ G.inode[d].size = F.inode[d].size,
         \A d \in Inodes : IsDir(G, d) => \A j \in EntriesOf(F, d) :
           /\ EntryOf(F, d, j).ino \in Inodes
           /\ d # p => EntryOf(G, d, j) = EntryOf(F, d, j),
         FitsIn(G, p), G.inode[p].size = F.inode[p].size - 1,
         \A j \in EntriesOf(G, p) : EntryOf(G, p, j) = EntryOf(F, p, IF j < h THEN j ELSE j + 1)
  PROVE  DirsOK(G)
<1> DEFINE from(d, j) == IF d # p \/ j < h THEN j ELSE j + 1
<1>1. F.inode[p].size \in Nat /\ h \in Int
  BY Sizes DEF DirsOK, DirOK, FitsIn, EntriesOf
<1>2. ASSUME NEW d \in Inodes, IsDir(G, d), NEW j \in EntriesOf(G, d)
      PROVE  /\ from(d, j) \in EntriesOf(F, d) /\ EntryOf(G, d, j) = EntryOf(F, d, from(d, j))
             /\ (d = p => from(d, j) # h) /\ j \in Int
             /\ EntryOf(F, d, from(d, j)).ino \in Inodes
  <2>1. CASE d # p
    <3>1. EntriesOf(G, d) = EntriesOf(F, d) /\ from(d, j) = j
      BY <1>2, <2>1 DEF EntriesOf
    <3>2. j \in Int
      BY DEF EntriesOf
    <3> HIDE DEF from
    <3> QED
      BY <1>2, <2>1, <3>1, <3>2
  <2>2. CASE d = p
    <3>1. j \in 0 .. F.inode[p].size - 2
      BY <1>1, <2>2 DEF EntriesOf
    <3>2. from(p, j) \in EntriesOf(F, p) /\ from(p, j) # h /\ j \in Int
      BY <1>1, <3>1 DEF EntriesOf
    <3>3. EntryOf(G, p, j) = EntryOf(F, p, from(p, j))
      BY <1>2, <2>2
    <3> HIDE DEF from
    <3> QED
      BY <1>2, <2>2, <3>2, <3>3
  <2> QED
    BY <2>1, <2>2
<1>3. ASSUME NEW d \in Inodes, NEW j \in Int, NEW k \in Int, from(d, j) = from(d, k)
      PROVE  j = k
  BY <1>1, <1>3
<1> HIDE DEF from
<1>4. ASSUME NEW d \in Inodes, IsDir(G, d), NEW j \in EntriesOf(G, d)
      PROVE  EntryOK(G, d, j) /\ EntryOf(F, d, from(d, j)).ino # i
  <2>1. from(d, j) \in EntriesOf(F, d) /\ IsDir(F, d) /\ EntryOf(F, d, from(d, j)).ino \in Inodes
    BY <1>2, <1>4
  <2>2. EntryOK(F, d, from(d, j)) /\ InOneDirectory(F, d, p)
    BY <2>1 DEF DirsOK, DirOK
  <2>3. EntryOf(F, d, from(d, j)).ino # i
    BY <1>2, <1>4, <2>1, <2>2 DEF InOneDirectory
  <2>4. EntryOf(G, d, j) = EntryOf(F, d, from(d, j))
    BY <1>2, <1>4
  <2> QED
    BY <2>1, <2>2, <2>3, <2>4 DEF EntryOK
<1>5. ASSUME NEW d \in Inodes, IsDir(G, d)
      PROVE  DirOK(G, d)
  <2>1. FitsIn(G, d)
    BY <1>5
  <2>2. \A j \in EntriesOf(G, d) : EntryOK(G, d, j)
    BY <1>4, <1>5
  <2>3. NamesOnce(F, d)
    BY <1>5 DEF DirsOK, DirOK
  <2>4. ASSUME NEW j \in EntriesOf(G, d), NEW k \in EntriesOf(G, d),
               EntryOf(G, d, j).name = EntryOf(G, d, k).name
        PROVE  j = k
    <3>1. /\ from(d, j) \in EntriesOf(F, d) /\ EntryOf(G, d, j) = EntryOf(F, d, from(d, j)) /\ j \in Int
          /\ from(d, k) \in EntriesOf(F, d) /\ EntryOf(G, d, k) = EntryOf(F, d, from(d, k)) /\ k \in Int
      BY <1>2, <1>5
    <3>2. from(d, j) = from(d, k)
      BY <2>3, <2>4, <3>1 DEF NamesOnce
    <3> QED
      BY <1>3, <3>1, <3>2
  <2>5. NamesOnce(G, d)
    BY <2>4 DEF NamesOnce
  <2> QED
    BY <2>1, <2>2, <2>5 DEF DirOK
<1>6. ASSUME NEW d \in Inodes, NEW e \in Inodes, IsDir(G, d), IsDir(G, e),
             NEW j \in EntriesOf(G, d), NEW k \in EntriesOf(G, e),
             EntryOf(G, d, j).ino = EntryOf(G, e, k).ino
      PROVE  d = e /\ j = k
  <2>1. /\ from(d, j) \in EntriesOf(F, d) /\ EntryOf(G, d, j) = EntryOf(F, d, from(d, j)) /\ j \in Int
        /\ from(e, k) \in EntriesOf(F, e) /\ EntryOf(G, e, k) = EntryOf(F, e, from(e, k)) /\ k \in Int
    BY <1>2, <1>6
  <2>2. InOneDirectory(F, d, e)
    BY <1>6 DEF DirsOK
  <2>3. d = e /\ from(d, j) = from(e, k)
    BY <1>6, <2>1, <2>2 DEF InOneDirectory
  <2> QED
    BY <1>3, <2>1, <2>3
<1>7. \A d, e \in Inodes : IsDir(G, d) /\ IsDir(G, e) => InOneDirectory(G, d, e)
  BY <1>6 DEF InOneDirectory
<1> QED
  BY <1>5, <1>7 DEF DirsOK

\* A new inode: a file of size 0 without a block.
LEMMA InitFields ==
  ASSUME NEW F \in Mounted, NEW p \in Inodes, NEW i \in Inodes
  PROVE  LET G == init_inode(F, p, i)
         IN /\ G \in Mounted /\ G.used = F.used /\ G.data = F.data /\ Same(F, G)
            /\ \A j \in Inodes : j # i => G.inode[j] = F.inode[j]
            /\ G.inode[i].nlink = 1 /\ G.inode[i].size = 0 /\ G.inode[i].indirect = Unassigned
            /\ \A k \in Slots : G.inode[i].direct[k] = Unassigned
            /\ ~ is_directory(G.inode[i])
<1> DEFINE mode == Typed(TYPE_FILE) \cup (F.inode[p].mode \cap RWX)
           uid == F.inode[p].uid
           direct == [k \in Slots |-> Unassigned]
           node == [mode |-> mode, uid |-> uid, nlink |-> 1, size |-> 0, direct |-> direct,
                    indirect |-> Unassigned]
           G == [F EXCEPT !.inode[i] = node]
<1>1. init_inode(F, p, i) = G
  BY DEF init_inode
<1>2. mode \in SUBSET (0 .. 15) /\ uid \in Nat
  <2>1. F.inode[p].mode \in SUBSET (0 .. 15) /\ F.inode[p].uid \in Nat
    BY MountedFields, NodeFields
  <2>2. Typed(TYPE_FILE) \subseteq 0 .. 15
    BY DEF Typed, TYPE_FILE
  <2> QED
    BY <2>1, <2>2
<1>3. direct \in [Slots -> Blocks \cup {Unassigned}] /\ \A k \in Slots : direct[k] = Unassigned
  OBVIOUS
<1>4. 0 <= MaxFileSize
  <2>1. (NumDirect + NumDirect) * BlockSize \in Nat
    BY Sizes
  <2> QED
    BY <2>1 DEF MaxFileSize
<1>9. TypeOf(mode) # TYPE_DIRECTORY
  <2>1. 9 \in mode /\ 9 \notin RWX
    BY DEF Typed, TYPE_FILE, RWX
  <2>2. 0 \in TypeOf(mode)
    BY <2>1 DEF TypeOf
  <2> QED
    BY <2>2 DEF TYPE_DIRECTORY
<1> HIDE DEF mode, uid, direct
<1>5. node \in Node
  BY <1>2, <1>3, <1>4 DEF Node, Inode
<1>6. /\ node.nlink = 1 /\ node.size = 0 /\ node.direct = direct /\ node.indirect = Unassigned
      /\ ~ is_directory(node)
  BY <1>9 DEF is_directory
<1> HIDE DEF node
<1>7. G \in Mounted /\ G.inode = [F.inode EXCEPT ![i] = node] /\ G.used = F.used
      /\ G.data = F.data /\ Same(F, G)
  BY <1>5, SetNode
<1> HIDE DEF G
<1>8. G.inode[i] = node /\ \A j \in Inodes : j # i => G.inode[j] = F.inode[j]
  BY <1>7, MountedFields
<1> QED
  BY <1>1, <1>3, <1>6, <1>7, <1>8

\* What creating answers: an inode that is new.
Created(F, R) ==
  /\ Keeps(F, R.fs) /\ R.ret \in Inodes \cup {-1} /\ R.off = 0
  /\ R.ret # -1 =>
       /\ Live(R.fs, R.ret) /\ ~ Live(F, R.ret)
       /\ Sane(F) => R.fs.inode[R.ret].size = 0
  /\ Grows(F, R.fs, {})

\* A call that fails or dies leaves the disk as it was.
LEMMA FailKeeps ==
  ASSUME NEW F \in Mounted
  PROVE  /\ Keeps(F, Fail(F).fs) /\ Fail(F).ret = -1 /\ Fail(F).off = 0
         /\ Keeps(F, Crash(F).fs) /\ Crash(F).ret = -1 /\ Crash(F).off = 0
         /\ Keeps(F, Crashed(F))
         /\ \A is : Grows(F, Fail(F).fs, is) /\ Grows(F, Crash(F).fs, is)
<1> DEFINE G == Crashed(F)
<1>1. {} \in SUBSET Inodes
  OBVIOUS
<1>2. G \in Mounted /\ G.inode = F.inode /\ G.used = F.used /\ G.data = F.data
      /\ G.untidy = F.untidy
  BY <1>1, HistoryFields
<1>3. G.status = "ruined" <=> F.status = "ruined"
  BY <1>1, HistoryFields
<1> HIDE DEF G
<1>4. Sane(F) => Sane(G)
  BY <1>2, SameDisk
<1>5. Keeps(F, G)
  BY <1>2, <1>3, <1>4 DEF Keeps, Fine
<1>6. Fail(F).fs = F /\ Fail(F).ret = -1 /\ Fail(F).off = 0
  BY DEF Fail, Result
<1>7. Crash(F).fs = G /\ Crash(F).ret = -1 /\ Crash(F).off = 0
  BY DEF Crash, Fail, Result, G
<1>8. \A is : Grows(F, F, is) /\ Grows(F, G, is)
  BY <1>2, GrownStill DEF Grows
<1> QED
  BY <1>5, <1>6, <1>7, <1>8, KeepsStill DEF G

\* An entry for a new inode is put into a directory that has room for it in its
\* first block, and the directory grows by it.
EntryPut(F, p, name, i) ==
  PutEntry(init_inode(F, p, i), F.inode[p].direct[0], F.inode[p].size, Entry(name, i))
Longer(P, H, p) ==
  /\ H.used = P.used /\ H.data = P.data
  /\ \A j \in Inodes : j # p => H.inode[j] = P.inode[j]
  /\ H.inode[p].direct = P.inode[p].direct /\ H.inode[p].indirect = P.inode[p].indirect
  /\ H.inode[p].nlink = P.inode[p].nlink /\ H.inode[p].mode = P.inode[p].mode
  /\ H.inode[p].size = P.inode[p].size + 1

\* Putting in the entry of a free inode keeps the disk sane.
LEMMA CreateSane ==
  ASSUME NEW F \in Mounted, Sane(F), NEW p \in Inodes, IsDir(F, p), Fits(F.inode[p]),
         NEW name \in Name, find_inode_named(F, p, name) = NoInode,
         NEW i \in Inodes \ {Root}, ~ Live(F, i), NEW H \in Mounted,
         EntryPut(F, p, name, i).status # "ruined", Longer(EntryPut(F, p, name, i), H, p)
  PROVE  /\ Sane(H) /\ Enlarged(F, H, {})
         /\ IsDir(H, p) /\ find_inode_named(H, p, name) = i
<1> DEFINE G == init_inode(F, p, i)
           P == EntryPut(F, p, name, i)
           n == F.inode[p].size
           b == F.inode[p].direct[0]
<1>1. i # p /\ i # 0
  BY DEF IsDir, Root
<1>2. DirOK(F, p) /\ FitsIn(F, p)
  BY DEF Sane, DirsOK, DirOK
<1>3. n \in 0 .. BlockSize - 1 /\ n \in Nat /\ n + 1 \in 0 .. BlockSize
  BY <1>2, Sizes DEF FitsIn, Fits
<1>4. b \in Blocks
  <2>1. 0 \in Slots
    BY Sizes DEF Slots
  <2> QED
    BY <2>1, MountedFields, NodeFields DEF Fits
<1>5. /\ G \in Mounted /\ G.used = F.used /\ G.data = F.data
      /\ \A j \in Inodes : j # i => G.inode[j] = F.inode[j]
      /\ G.inode[i].nlink = 1 /\ G.inode[i].size = 0 /\ G.inode[i].indirect = Unassigned
      /\ \A k \in Slots : G.inode[i].direct[k] = Unassigned
      /\ ~ is_directory(G.inode[i])
  BY InitFields
<1> HIDE DEF G
<1>6. Entry(name, i) \in Cell
  BY DEF Entry, Cell
<1>7. /\ P.inode = G.inode
      /\ P.used = G.used
      /\ \A c \in G.used : c # b => P.data[c] = G.data[c]
      /\ \A j \in 0 .. n : CellsOf(P, b)[j] = IF j = n THEN Entry(name, i) ELSE CellsOf(G, b)[j]
  <2>1. P = PutEntry(G, b, n, Entry(name, i)) /\ P.status # "ruined"
    BY DEF EntryPut, G
  <2> HIDE DEF n, b
  <2> QED
    BY <1>3, <1>4, <1>5, <1>6, <2>1, PutEntryFields
<1>8. /\ H.used = P.used /\ H.data = P.data
      /\ \A j \in Inodes : j # p => H.inode[j] = P.inode[j]
      /\ H.inode[p].direct = P.inode[p].direct /\ H.inode[p].indirect = P.inode[p].indirect
      /\ H.inode[p].nlink = P.inode[p].nlink /\ H.inode[p].mode = P.inode[p].mode
      /\ H.inode[p].size = P.inode[p].size + 1
  BY DEF Longer
<1> HIDE DEF P, n, b
<1>9. /\ H.used = F.used
      /\ \A j \in Inodes : j # p /\ j # i => H.inode[j] = F.inode[j]
      /\ H.inode[p].direct = F.inode[p].direct /\ H.inode[p].indirect = F.inode[p].indirect
      /\ H.inode[p].nlink = F.inode[p].nlink /\ H.inode[p].mode = F.inode[p].mode
      /\ H.inode[p].size = n + 1
      /\ H.inode[i].nlink = 1 /\ H.inode[i].size = 0 /\ H.inode[i].indirect = Unassigned
      /\ ~ is_directory(H.inode[i])
      /\ \A k \in Slots : H.inode[i].direct[k] = Unassigned
      /\ \A c \in F.used : c # b => H.data[c] = F.data[c]
  BY <1>1, <1>5, <1>7, <1>8 DEF n
<1>10. \A j \in Inodes : Live(H, j) <=> Live(F, j) \/ j = i
  BY <1>9 DEF Live
<1>11. ASSUME NEW j \in Inodes, Live(F, j), F.inode[j].indirect # Unassigned
       PROVE  H.data[F.inode[j].indirect] = F.data[F.inode[j].indirect]
  <2>1. F.inode[j].indirect \in F.used
    BY <1>11, PlaceUsed
  <2>2. F.inode[j].indirect # b
    <3>1. 0 \in Place /\ NumDirect \in Place /\ 0 # NumDirect
      BY Sizes DEF Place
    <3>2. NamedAt(F, p, 0) = b
      BY Sizes DEF NamedAt, b
    <3>3. NamedAt(F, j, NumDirect) = F.inode[j].indirect
      BY Sizes DEF NamedAt
    <3>4. Live(F, p)
      BY DEF IsDir
    <3> QED
      BY <1>11, <3>1, <3>2, <3>3, <3>4 DEF Sane, OwnsOnce
  <2> QED
    BY <1>9, <2>1, <2>2
<1>12. ASSUME NEW j \in Inodes, NEW q \in Place, Live(F, j)
       PROVE  NamedAt(H, j, q) = NamedAt(F, j, q)
  <2>1. j # i
    BY <1>12
  <2>2. H.inode[j].direct = F.inode[j].direct /\ H.inode[j].indirect = F.inode[j].indirect
    BY <1>9, <2>1
  <2> QED
    BY <1>11, <1>12, <2>2, NamedSame
<1>13. ASSUME NEW q \in Place
       PROVE  NamedAt(H, i, q) = Unassigned
  <2>1. q < NumDirect => q \in Slots
    BY Sizes DEF Place, Slots
  <2> QED
    BY <1>9, <2>1 DEF NamedAt
<1>14. OwnsOnce(H) /\ Marked(H)
  BY <1>9, <1>10, <1>12, <1>13, NewAccounted DEF Sane
<1>15. TablesOK(H)
  <2>1. ASSUME NEW j \in Inodes, Live(H, j), H.inode[j].indirect # Unassigned
        PROVE  IsTable(H, H.inode[j].indirect)
    <3>1. j # i /\ Live(F, j) /\ H.inode[j].indirect = F.inode[j].indirect
      BY <1>9, <1>10, <2>1
    <3>2. IsTable(F, F.inode[j].indirect)
      BY <2>1, <3>1 DEF Sane, TablesOK
    <3> QED
      BY <1>11, <2>1, <3>1, <3>2, TableSame
  <2> QED
    BY <2>1 DEF TablesOK
<1>16. ASSUME NEW d \in Inodes, IsDir(F, d)
       PROVE  FitsIn(F, d) /\ d # i
  BY <1>16 DEF Sane, DirsOK, DirOK, IsDir
<1>17. ASSUME NEW d \in Inodes, IsDir(F, d), NEW j \in EntriesOf(F, d)
       PROVE  EntryOf(F, d, j).ino \in Inodes /\ EntryOf(H, d, j) = EntryOf(F, d, j)
  <2>1. EntryOf(F, d, j).ino \in Inodes /\ F.inode[d].direct[0] \in Blocks
    BY <1>16, <1>17, EntryType DEF Cell
  <2>2. H.inode[d].direct = F.inode[d].direct
    BY <1>9, <1>16, <1>17
  <2>3. CASE d = p
    <3>1. j \in 0 .. n /\ j # n
      BY <1>3, <1>17, <2>3 DEF EntriesOf, n
    <3>2. CellsOf(P, b)[j] = CellsOf(G, b)[j]
      BY <1>7, <3>1
    <3>3. CellsOf(H, b) = CellsOf(P, b) /\ CellsOf(G, b) = CellsOf(F, b)
      BY <1>5, <1>8 DEF CellsOf
    <3> QED
      BY <2>1, <2>2, <2>3, <3>2, <3>3 DEF EntryOf, b
  <2>4. CASE d # p
    <3>1. F.inode[d].size > 0
      BY <1>17, <1>16 DEF EntriesOf, FitsIn
    <3>2. F.inode[d].direct[0] \in F.used /\ NamedAt(F, d, 0) = F.inode[d].direct[0]
      BY <1>17, <3>1, PlaceUsed DEF IsDir
    <3>3. F.inode[d].direct[0] # b
      <4>1. 0 \in Place /\ NamedAt(F, p, 0) = b
        BY Sizes DEF NamedAt, b, Place
      <4>2. F.inode[d].direct[0] # Unassigned
        BY <2>1, Named
      <4> QED
        BY <1>17, <2>4, <3>2, <4>1, <4>2 DEF Sane, OwnsOnce, IsDir
    <3>4. CellsOf(H, F.inode[d].direct[0]) = CellsOf(F, F.inode[d].direct[0])
      BY <1>9, <3>2, <3>3 DEF CellsOf
    <3> QED
      BY <2>1, <2>2, <3>4 DEF EntryOf
  <2> QED
    BY <2>3, <2>4
<1>24. EntryOf(H, p, F.inode[p].size) = Entry(name, i)
  <2>1. CellsOf(P, b)[n] = Entry(name, i)
    BY <1>3, <1>7
  <2>2. CellsOf(H, b) = CellsOf(P, b)
    BY <1>8 DEF CellsOf
  <2> QED
    BY <1>9, <2>1, <2>2 DEF EntryOf, b, n
<1>18. DirsOK(H)
  <2>1. DirsOK(F)
    BY DEF Sane
  <2>2. \A d \in Inodes : d # i => (IsDir(H, d) <=> IsDir(F, d))
    BY <1>9, <1>10 DEF IsDir, is_directory
  <2>4. \A d \in Inodes : IsDir(F, d) /\ d # p => FitsIn(H, d) /\ H.inode[d].size = F.inode[d].size
    BY <1>9, <1>16 DEF FitsIn
  <2>6. FitsIn(H, p) /\ H.inode[p].size = F.inode[p].size + 1
    BY <1>3, <1>4, <1>9 DEF FitsIn, n, b
  <2>8. \A j \in EntriesOf(F, p) : EntryOf(F, p, j).name # name
    <3>1. ASSUME NEW j \in EntriesOf(F, p)
          PROVE  EntryOf(F, p, j).ino # NoInode
      BY <1>2, EntryType, Named DEF Cell
    <3> QED
      BY <1>2, <3>1, FindTidy
  <2>9. IsDir(H, i) => H.inode[i].size = 0
    BY <1>9
  <2> QED
    BY <1>1, <1>10, <2>1, <2>2, <2>4, <1>17, <2>6, <1>24, <2>8, <2>9, EntryAdded
<1>19. Live(H, Root)
  BY <1>10, Named DEF Sane
<1>20. ASSUME NEW j \in Inodes, Live(F, j), j # p
       PROVE  DataKept(F, H, j)
  <2>1. ASSUME NEW q \in Place, NamedAt(F, j, q) \in Blocks
        PROVE  H.data[NamedAt(F, j, q)] = F.data[NamedAt(F, j, q)]
    <3>1. NamedAt(F, j, q) \in F.used
      BY <1>20, <2>1 DEF Sane, Marked
    <3>2. 0 \in Place /\ NamedAt(F, p, 0) = b /\ Live(F, p)
      BY Sizes DEF NamedAt, b, Place, IsDir
    <3>3. NamedAt(F, j, q) # Unassigned
      BY <2>1, Named
    <3>4. NamedAt(F, j, q) # b
      BY <1>20, <3>2, <3>3 DEF Sane, OwnsOnce
    <3> QED
      BY <1>9, <3>1, <3>4
  <2>2. \A q \in Place : NamedAt(H, j, q) = NamedAt(F, j, q)
    BY <1>12, <1>20
  <2> QED
    BY <2>1, <2>2, AllKept
<1>21. \A d \in Inodes : F.inode[d].size \in Int
  BY MountedFields, NodeFields
<1>22. EntriesKept(F, H)
  <2>1. ASSUME NEW d \in Inodes, IsDir(F, d)
        PROVE  IsDir(H, d) /\ F.inode[d].size <= H.inode[d].size
    <3>1. d # i
      BY <1>16, <2>1
    <3> QED
      BY <1>9, <1>10, <1>21, <2>1, <3>1 DEF IsDir, is_directory, n
  <2> QED
    BY <1>17, <2>1 DEF EntriesKept
<1>23. Spared(F, H, {})
  <2>1. ASSUME NEW k \in Inodes, Live(F, k)
        PROVE  /\ Live(H, k) /\ (is_directory(H.inode[k]) <=> is_directory(F.inode[k]))
               /\ F.inode[k].size <= H.inode[k].size
               /\ is_directory(F.inode[k]) \/ H.inode[k].size = F.inode[k].size
               /\ H.inode[k].size = F.inode[k].size => DataKept(F, H, k)
    <3>1. CASE k = p
      BY <1>9, <1>10, <1>21, <2>1, <3>1 DEF IsDir, is_directory, n
    <3>2. CASE k # p
      <4>1. k # i
        BY <2>1
      <4> QED
        BY <1>9, <1>10, <1>20, <1>21, <2>1, <3>2, <4>1
    <3> QED
      BY <3>1, <3>2
  <2>2. ASSUME NEW k \in Inodes, ~ Live(F, k), Live(H, k)
        PROVE  H.inode[k].size = 0 /\ ~ is_directory(H.inode[k])
    BY <1>9, <1>10, <2>2
  <2> QED
    BY <2>1, <2>2 DEF Spared
<1>25. IsDir(H, p) /\ find_inode_named(H, p, name) = i
  <2>1. IsDir(H, p) /\ DirOK(H, p)
    BY <1>18, <1>22 DEF EntriesKept, DirsOK
  <2>2. n \in EntriesOf(H, p)
    BY <1>3, <1>9 DEF EntriesOf, n
  <2>3. EntryOf(H, p, n).name = name /\ EntryOf(H, p, n).ino = i
    BY <1>24 DEF Entry, n
  <2> QED
    BY <2>1, <2>2, <2>3, FindsEntry
<1> QED
  BY <1>14, <1>15, <1>18, <1>19, <1>22, <1>23, <1>25 DEF Sane, Enlarged

\* The number of the block that a directory's next entry goes to.
LEMMA NextEntry ==
  ASSUME NEW size \in Int, size \div BlockSize \in 0 .. NumDirect
  PROVE  /\ size \in Nat /\ size + 1 <= MaxFileSize
         /\ size % BlockSize \in 0 .. BlockSize - 1
<1>1. size \in Nat
  BY BeforeStart
<1>2. size = (size \div BlockSize) * BlockSize + (size % BlockSize) /\ size % BlockSize \in 0 .. BlockSize - 1
  BY <1>1, Position
<1>3. ASSUME NEW k \in Nat, NEW r \in Nat, NEW B \in Nat, NEW m \in Nat, m >= 1, B >= 1,
             k <= m, r < B
      PROVE  k * B + r + 1 <= (m + m) * B
  <2>1. k * B <= m * B /\ B <= m * B
    BY <1>3
  <2>2. (m + m) * B = m * B + m * B
    OBVIOUS
  <2> QED
    BY <1>3, <2>1, <2>2
<1> QED
  BY <1>1, <1>2, <1>3, Sizes DEF MaxFileSize

\* Creating an inode in a directory keeps the disk.
LEMMA CreateInKeeps ==
  ASSUME NEW F \in Mounted, NEW p \in Inodes, Sane(F) => Live(F, p), NEW name \in Name,
         is_directory(F.inode[p]) => find_inode_named(F, p, name) = NoInode
  PROVE  /\ Created(F, CreateIn(F, p, name))
         /\ CreateIn(F, p, name).ret # -1 /\ Sane(F) /\ Fine(CreateIn(F, p, name).fs) =>
              /\ IsDir(CreateIn(F, p, name).fs, p)
              /\ find_inode_named(CreateIn(F, p, name).fs, p, name) = CreateIn(F, p, name).ret
<1> DEFINE i == first_unused_inode(F)
           parent == F.inode[p]
           k == parent.size \div BlockSize
           at == parent.size % BlockSize
           E == init_inode(F, p, i)
           b == EntryBlock(parent, k)
           G == PutEntry(E, b, at, Entry(name, i))
           H == [G EXCEPT !.inode[p].size = @ + 1]
           U == Untidy(H, IF Fits(parent) THEN {} ELSE {p})
           V == RuinedIf(U, ~ is_directory(parent))
<1>1. CreateIn(F, p, name) = IF i = NoInode \/ k \notin 0 .. NumDirect THEN Crash(F)
                             ELSE Result(V, i, 0)
  BY DEF CreateIn
<1>2. CASE i = NoInode \/ k \notin 0 .. NumDirect
  <2>1. CreateIn(F, p, name) = Crash(F)
    BY <1>1, <1>2
  <2> QED
    BY <2>1, FailKeeps DEF Created, Crash, Fail, Result
<1>3. CASE ~ (i = NoInode \/ k \notin 0 .. NumDirect)
  <2>1. CreateIn(F, p, name) = Result(V, i, 0)
    BY <1>1, <1>3
  <2>2. i \in Inodes \ {Root} /\ ~ Live(F, i)
    BY <1>3, UnusedInode
  <2> HIDE DEF i
  <2>3. parent \in Node /\ parent.size \in Int
    BY MountedFields, NodeFields
  <2>4. k \in 0 .. NumDirect
    BY <1>3
  <2>5. parent.size \in Nat /\ parent.size + 1 <= MaxFileSize /\ at \in 0 .. BlockSize - 1
    <3> HIDE DEF parent
    <3> QED
      BY <2>3, <2>4, NextEntry
  <2>6. b \in Blocks \cup {Unassigned}
    <3>1. k < NumDirect => k \in Slots
      BY <2>4, Sizes DEF Slots
    <3>2. parent.direct \in [Slots -> Blocks \cup {Unassigned}] /\ parent.indirect \in Blocks \cup {Unassigned}
      BY <2>3, NodeFields
    <3> HIDE DEF k, parent
    <3> QED
      BY <3>1, <3>2 DEF EntryBlock
  <2>7. /\ E \in Mounted /\ E.used = F.used /\ E.data = F.data /\ Same(F, E)
        /\ \A j \in Inodes : j # i => E.inode[j] = F.inode[j]
        /\ E.inode[i].nlink = 1 /\ E.inode[i].size = 0
    BY <2>2, InitFields
  <2> DEFINE entry == Entry(name, i)
  <2>8. entry \in Cell
    BY <2>2 DEF Entry, Cell
  <2> HIDE DEF E, at, b, entry
  <2>9. /\ G \in Mounted /\ G.inode = E.inode /\ G.untidy = E.untidy
        /\ G.status \in {E.status, "ruined"}
    BY <2>5, <2>6, <2>7, <2>8, PutEntryFields DEF entry
  <2> HIDE DEF G
  <2> DEFINE old == E.inode[p]
             node == [old EXCEPT !.size = old.size + 1]
             J == [G EXCEPT !.inode[p] = node]
  <2>10. H = J
    BY <2>9
  <2>11. /\ node \in Node /\ node.nlink = old.nlink /\ node.size = old.size + 1 /\ node.mode = old.mode
         /\ node.direct = old.direct /\ node.indirect = old.indirect
    <3>1. old \in Node
      BY <2>7, MountedFields
    <3>2. old.size + 1 \in Int /\ old.size + 1 <= MaxFileSize
      <4>1. CASE p = i
        <5>1. old.size = 0
          BY <2>7, <4>1
        <5> QED
          BY <2>5, <5>1, Sizes DEF MaxFileSize
      <4>2. CASE p # i
        BY <2>5, <2>7, <4>2
      <4> QED
        BY <4>1, <4>2
    <3> DEFINE size == old.size + 1
    <3> HIDE DEF size
    <3>3. [old EXCEPT !.size = size] \in Node /\ [old EXCEPT !.size = size].nlink = old.nlink
          /\ [old EXCEPT !.size = size].mode = old.mode
          /\ [old EXCEPT !.size = size].size = size /\ [old EXCEPT !.size = size].direct = old.direct
          /\ [old EXCEPT !.size = size].indirect = old.indirect
      BY <3>1, <3>2 DEF Node, Inode, size
    <3> QED
      BY <3>3 DEF size
  <2> HIDE DEF node
  <2>12. J \in Mounted /\ J.inode = [G.inode EXCEPT ![p] = node] /\ J.used = G.used
         /\ J.data = G.data /\ Same(G, J)
    BY <2>9, <2>11, SetNode
  <2> HIDE DEF J, H
  <2>13. J.inode[p] = node /\ \A j \in Inodes : j # p => J.inode[j] = G.inode[j]
    BY <2>9, <2>12, MountedFields
  <2> DEFINE is == IF Fits(parent) THEN {} ELSE {p}
  <2>14. is \in SUBSET Inodes
    OBVIOUS
  <2> HIDE DEF is
  <2>15. /\ U \in Mounted /\ U.untidy = H.untidy \cup is
         /\ U.inode = H.inode /\ U.used = H.used
         /\ U.data = H.data /\ U.status = H.status
    BY <2>10, <2>12, <2>14, HistoryFields DEF is
  <2> HIDE DEF U
  <2>16. V \in Mounted /\ V.inode = U.inode
         /\ (V.status # "ruined" => V = U /\ is_directory(parent))
    <3>1. Ruined(U) \in Mounted /\ Ruined(U).status = "ruined"
      BY <2>14, <2>15, HistoryFields
    <3>2. Ruined(U).inode = U.inode
      BY <2>15 DEF Ruined, Mounted
    <3> QED
      BY <2>15, <3>1, <3>2 DEF RuinedIf
  <2> HIDE DEF V
  <2>17. ASSUME Fine(V)
         PROVE  Fine(F) /\ Fits(parent) /\ G.status # "ruined"
    <3>1. V = U /\ V.status # "ruined" /\ V.untidy = {}
      BY <2>16, <2>17 DEF Fine
    <3>2. H.untidy = {} /\ is = {} /\ H.status # "ruined"
      BY <2>15, <3>1
    <3>3. G.untidy = {} /\ G.status # "ruined"
      BY <2>10, <2>12, <3>2 DEF Same
    <3>4. F.untidy = {} /\ F.status # "ruined"
      BY <2>7, <2>9, <3>3 DEF Same
    <3> QED
      BY <3>2, <3>3, <3>4 DEF Fine, is
  <2>18. ASSUME Sane(F), Fine(V)
         PROVE  Sane(V) /\ Enlarged(F, V, {}) /\ IsDir(V, p) /\ find_inode_named(V, p, name) = i
    <3>1. IsDir(F, p) /\ Fits(parent) /\ G.status # "ruined" /\ V = U
      BY <2>16, <2>17, <2>18 DEF IsDir, Fine
    <3>2. k = 0 /\ at = parent.size /\ b = parent.direct[0]
      <4>1. parent.size \in 0 .. BlockSize - 1
        BY <2>5, <3>1, Sizes DEF Fits
      <4>2. k = 0 /\ at = parent.size
        BY <4>1, InFirstBlock DEF at
      <4> QED
        BY <4>2, Sizes DEF b, EntryBlock
    <3>3. G = EntryPut(F, p, name, i)
      BY <3>2 DEF G, E, entry, EntryPut
    <3>4. V.inode = J.inode /\ V.used = J.used /\ V.data = J.data
      BY <2>10, <2>15, <3>1
    <3>5. Longer(G, V, p)
      <4>1. V.inode[p] = node /\ \A j \in Inodes : j # p => V.inode[j] = G.inode[j]
        BY <2>13, <3>4
      <4>2. V.used = G.used /\ V.data = G.data
        BY <2>12, <3>4
      <4>3. G.inode[p] = old
        BY <2>9
      <4> QED
        BY <2>11, <4>1, <4>2, <4>3 DEF Longer
    <3>6. find_inode_named(F, p, name) = NoInode
      BY <3>1 DEF IsDir
    <3> HIDE DEF parent
    <3> QED
      BY <2>2, <2>16, <2>18, <3>1, <3>3, <3>5, <3>6, CreateSane DEF parent
  <2>19. Keeps(F, V) /\ Grows(F, V, {})
    BY <2>16, <2>17, <2>18 DEF Keeps, Grows
  <2>20. V.inode = J.inode
    BY <2>10, <2>15, <2>16
  <2>21. Live(V, i)
    <3>1. CASE i = p
      BY <2>7, <2>11, <2>13, <2>20, <3>1 DEF Live
    <3>2. CASE i # p
      <4>1. V.inode[i] = E.inode[i]
        BY <2>2, <2>9, <2>13, <2>20, <3>2
      <4> QED
        BY <2>7, <4>1 DEF Live
    <3> QED
      BY <3>1, <3>2
  <2>22. ASSUME Sane(F)
         PROVE  V.inode[i].size = 0
    <3>1. i # p
      BY <2>2, <2>22
    <3>2. V.inode[i] = E.inode[i]
      BY <2>2, <2>9, <2>13, <2>20, <3>1
    <3> QED
      BY <2>7, <3>2
  <2> QED
    BY <2>1, <2>2, <2>18, <2>19, <2>21, <2>22 DEF Created, Result
<1> QED
  BY <1>2, <1>3

\* So does creating one for a path.
LEMMA CreateKeeps ==
  ASSUME NEW F \in Mounted, NEW path \in Seq(STRING)
  PROVE  LET R == minixfs_create_inode_for_path(F, path)
         IN /\ Created(F, R)
            /\ R.ret # -1 /\ Sane(F) /\ Fine(R.fs) => get_inode(R.fs, path) = R.ret
<1> DEFINE R == minixfs_create_inode_for_path(F, path)
           i == get_inode(F, path)
           p == parent_directory(F, path)
           name == Last(path)
<1>1. /\ i \in Found /\ p \in Found
      /\ path = <<>> => i = Root
      /\ path # <<>> => name \in STRING /\ i = Descend(F, p, name)
      /\ Sane(F) => LiveOrNone(F, p)
  BY Lookups
<1>2. R = IF i = Wild THEN Crash(F)
          ELSE IF i = NoInode
               THEN IF p = Wild THEN Crash(F) ELSE IF p = NoInode THEN Fail(F) ELSE CreateIn(F, p, name)
               ELSE Fail(F)
  BY DEF minixfs_create_inode_for_path, Find, At
<1> HIDE DEF R, i, p, name
<1>3. CASE R = Crash(F) \/ R = Fail(F)
  <2>1. Created(F, R)
    BY <1>3, FailKeeps DEF Created
  <2>2. R.ret = -1
    BY <1>3 DEF Crash, Fail, Result
  <2> QED
    BY <2>1, <2>2 DEF R
<1>4. CASE i = NoInode /\ p \notin {Wild, NoInode}
  <2>1. R = CreateIn(F, p, name) /\ p \in Inodes
    BY <1>1, <1>2, <1>4, Named DEF Found
  <2>2. path # <<>>
    BY <1>1, <1>4, Named
  <2>3. name \in Name /\ Descend(F, p, name) = NoInode
    BY <1>1, <1>4, <2>2 DEF Name
  <2>4. is_directory(F.inode[p]) => find_inode_named(F, p, name) = NoInode
    <3>1. ~ (p < 0)
      BY <2>1 DEF Inodes
    <3> QED
      BY <2>3, <3>1 DEF Descend
  <2>5. Sane(F) => Live(F, p)
    BY <1>1, <1>4 DEF LiveOrNone
  <2>6. /\ Created(F, R)
        /\ R.ret # -1 /\ Sane(F) /\ Fine(R.fs) =>
             IsDir(R.fs, p) /\ find_inode_named(R.fs, p, name) = R.ret
    BY <2>1, <2>3, <2>4, <2>5, CreateInKeeps
  <2>7. ASSUME R.ret # -1, Sane(F), Fine(R.fs)
        PROVE  get_inode(R.fs, path) = R.ret
    <3>1. R.fs \in Mounted /\ Sane(R.fs) /\ EntriesKept(F, R.fs)
      BY <2>6, <2>7 DEF Created, Keeps, Grows, Enlarged
    <3>2. parent_directory(R.fs, path) = p
      BY <2>1, <2>7, <3>1, PathsKept DEF p
    <3>3. get_inode(R.fs, path) = Descend(R.fs, p, name)
      BY <2>2, <3>1, <3>2, Lookups DEF name
    <3>4. ~ (p < 0)
      BY <2>1 DEF Inodes
    <3> QED
      BY <2>6, <2>7, <3>3, <3>4 DEF Descend, IsDir
  <2> QED
    BY <2>6, <2>7 DEF R
<1> QED
  BY <1>1, <1>2, <1>3, <1>4 DEF R
------------------------------------------------------------------------------
(* The other calls.                                                         *)

\* What a call answers.
Answered(F, R) == Keeps(F, R.fs) /\ R.ret \in Int /\ R.off \in Nat /\ Spares(F, R.fs, {})

\* A call that only looks, fails or dies.
LEMMA LooksKeeps ==
  ASSUME NEW F \in Mounted
  PROVE  /\ \A ret \in Int, off \in Nat : Answered(F, Result(F, ret, off)) /\ Grows(F, Result(F, ret, off).fs, {})
         /\ Answered(F, Fail(F)) /\ Answered(F, Crash(F))
         /\ Grows(F, Fail(F).fs, {}) /\ Grows(F, Crash(F).fs, {})
<1>1. \A ret \in Int, off \in Nat : Answered(F, Result(F, ret, off))
  BY KeepsStill, GrownStill DEF Answered, Result, Spares
<1>2. Answered(F, Fail(F)) /\ Answered(F, Crash(F))
  BY FailKeeps, GrownSpares DEF Answered
<1>3. \A ret \in Int, off \in Nat : Grows(F, Result(F, ret, off).fs, {})
  BY GrownStill DEF Result, Grows
<1>4. Grows(F, Fail(F).fs, {}) /\ Grows(F, Crash(F).fs, {})
  BY FailKeeps
<1> QED
  BY <1>1, <1>2, <1>3, <1>4

\* Permissions, types and owners change nothing of the blocks.
LEMMA SetMode ==
  ASSUME NEW F \in Mounted, NEW i \in Inodes, NEW m \in SUBSET (0 .. 15)
  PROVE  LET G == [F EXCEPT !.inode[i].mode = m]
         IN /\ G \in Mounted /\ Same(F, G) /\ G.inode[i].mode = m
            /\ Sane(F) /\ (is_directory(G.inode[i]) => F.inode[i].size = 0 \/ is_directory(F.inode[i]))
                 => Sane(G) /\ Untouched(F, G)
<1> DEFINE node == [F.inode[i] EXCEPT !.mode = m]
           G == [F EXCEPT !.inode[i] = node]
<1>1. [F EXCEPT !.inode[i].mode = m] = G
  OBVIOUS
<1>2. F.inode[i] \in Node
  BY MountedFields
<1>3. /\ node \in Node /\ node.mode = m /\ node.nlink = F.inode[i].nlink /\ node.size = F.inode[i].size
      /\ node.direct = F.inode[i].direct /\ node.indirect = F.inode[i].indirect
  BY <1>2 DEF Node, Inode
<1> HIDE DEF node
<1>4. G \in Mounted /\ G.inode = [F.inode EXCEPT ![i] = node] /\ G.used = F.used
      /\ G.data = F.data /\ Same(F, G)
  BY <1>3, SetNode
<1> HIDE DEF G
<1>5. G.inode[i] = node /\ \A j \in Inodes : j # i => G.inode[j] = F.inode[j]
  BY <1>4, MountedFields
<1>6. ASSUME Sane(F), is_directory(G.inode[i]) => F.inode[i].size = 0 \/ is_directory(F.inode[i])
      PROVE  Sane(G) /\ Untouched(F, G)
  <2>1. Live(G, i) <=> Live(F, i)
    BY <1>3, <1>5 DEF Live
  <2>2. IsDir(G, i) => \/ G.inode[i].size = 0
                       \/ IsDir(F, i) /\ G.inode[i].size = F.inode[i].size
    BY <1>3, <1>5, <1>6, <2>1 DEF IsDir
  <2>3. /\ Sane(G) /\ Bystanders(F, G, {})
        /\ \A j \in Inodes : (Live(G, j) <=> Live(F, j)) /\ DataKept(F, G, j)
    BY <1>3, <1>4, <1>5, <1>6, <2>2, NodeSane
  <2>4. \A j \in Inodes : G.inode[j].size = F.inode[j].size
    BY <1>3, <1>5
  <2> QED
    BY <2>3, <2>4 DEF Untouched
<1> QED
  BY <1>1, <1>3, <1>4, <1>5, <1>6

\* chmod
LEMMA ChmodKeeps ==
  ASSUME NEW F \in Mounted, NEW path \in Seq(STRING), NEW perm \in SUBSET RWX
  PROVE  Answered(F, minixfs_chmod(F, path, perm))
<1> DEFINE i == get_inode(F, path)
<1>1. i \in Found
  BY Lookups
<1>2. minixfs_chmod(F, path, perm) = IF i = Wild THEN Crash(F) ELSE IF i = NoInode THEN Fail(F)
                                     ELSE Result(Chmod(F, i, perm), 0, 0)
  BY DEF minixfs_chmod, Find, At
<1> HIDE DEF i
<1>3. ASSUME i \in Inodes
      PROVE  Keeps(F, Chmod(F, i, perm)) /\ Spares(F, Chmod(F, i, perm), {})
  <2> DEFINE m == {b + 2 : b \in perm} \cup (F.inode[i].mode \cap {0, 1})
             G == [F EXCEPT !.inode[i].mode = m]
             is == IF is_directory(G.inode[i]) = is_directory(F.inode[i]) THEN {} ELSE {i}
  <2>1. [F EXCEPT !.inode[i].mode = {b + 2 : b \in perm} \cup (@ \cap {0, 1})] = G
    OBVIOUS
  <2>2. Chmod(F, i, perm) = Untidy(G, is)
    BY <2>1 DEF Chmod
  <2>3. m \in SUBSET (0 .. 15)
    <3>1. \A b \in perm : b + 2 \in 0 .. 15
      BY DEF RWX
    <3>2. {b + 2 : b \in perm} \subseteq 0 .. 15
      BY <3>1
    <3>3. F.inode[i].mode \cap {0, 1} \subseteq 0 .. 15
      OBVIOUS
    <3> QED
      BY <3>2, <3>3
  <2> HIDE DEF m
  <2>4. /\ G \in Mounted /\ Same(F, G)
        /\ Sane(F) /\ (is_directory(G.inode[i]) => F.inode[i].size = 0 \/ is_directory(F.inode[i]))
             => Sane(G) /\ Untouched(F, G)
    BY <1>3, <2>3, SetMode
  <2> HIDE DEF G
  <2>5. is \in SUBSET Inodes /\ (is = {} => (is_directory(G.inode[i]) <=> is_directory(F.inode[i])))
    <3>1. is \in SUBSET Inodes
      BY <1>3
    <3>2. ASSUME is = {}
          PROVE  is_directory(G.inode[i]) = is_directory(F.inode[i])
      BY <3>2
    <3>3. is = {} => (is_directory(G.inode[i]) <=> is_directory(F.inode[i]))
      BY <3>2
    <3> QED
      BY <3>1, <3>3
  <2> HIDE DEF is
  <2> DEFINE U == Untidy(G, is)
  <2>6. U \in Mounted /\ U.untidy = G.untidy \cup is /\ U.inode = G.inode /\ U.used = G.used
        /\ U.data = G.data /\ U.status = G.status
    BY <2>4, <2>5, HistoryFields
  <2> HIDE DEF U
  <2>7. Fine(U) => Fine(F) /\ is = {}
    BY <2>4, <2>6 DEF Fine, Same
  <2>8. ASSUME Sane(F), Fine(U)
        PROVE  Sane(U) /\ Bystanders(F, U, {})
    <3>1. Sane(G) /\ Untouched(F, G)
      BY <2>4, <2>5, <2>7, <2>8
    <3>2. ASSUME NEW j \in Inodes
          PROVE  (Live(U, j) <=> Live(G, j)) /\ U.inode[j].size = G.inode[j].size /\ DataKept(G, U, j)
      <4>1. DataKept(G, U, j)
        BY <2>6 DEF DataKept, NamedAt, Number, CellsOf
      <4> QED
        BY <2>6, <4>1 DEF Live
    <3>3. Untouched(G, U)
      BY <3>2 DEF Untouched
    <3>4. Bystanders(F, G, {})
      BY <3>1, UntouchedSpares
    <3>5. Bystanders(F, U, {})
      BY <3>3, <3>4, UntouchedSpares
    <3> QED
      BY <2>6, <3>1, <3>5, SameDisk
  <2>9. Keeps(F, U) /\ Spares(F, U, {})
    BY <2>6, <2>7, <2>8 DEF Keeps, Spares
  <2> QED
    BY <2>2, <2>9 DEF U
<1>4. CASE i \in Inodes
  <2>1. minixfs_chmod(F, path, perm) = Result(Chmod(F, i, perm), 0, 0)
    BY <1>2, <1>4, Named
  <2> QED
    BY <1>3, <1>4, <2>1 DEF Answered, Result
<1>5. CASE i \notin Inodes
  <2>1. minixfs_chmod(F, path, perm) \in {Crash(F), Fail(F)}
    BY <1>1, <1>2, <1>5 DEF Found
  <2> QED
    BY <2>1, LooksKeeps
<1> QED
  BY <1>4, <1>5

\* chown
LEMMA ChownKeeps ==
  ASSUME NEW F \in Mounted, NEW path \in Seq(STRING), NEW owner \in Nat
  PROVE  Answered(F, minixfs_chown(F, path, owner))
<1> DEFINE i == get_inode(F, path)
           G == [F EXCEPT !.inode[i].uid = owner]
<1>1. i \in Found
  BY Lookups
<1>2. minixfs_chown(F, path, owner) = IF i = Wild THEN Crash(F) ELSE IF i = NoInode THEN Fail(F)
                                      ELSE Result(G, 0, 0)
  BY DEF minixfs_chown, Find, At
<1> HIDE DEF i
<1>3. ASSUME i \in Inodes
      PROVE  Keeps(F, G) /\ Spares(F, G, {})
  <2> DEFINE node == [F.inode[i] EXCEPT !.uid = owner]
             H == [F EXCEPT !.inode[i] = node]
  <2>1. G = H
    OBVIOUS
  <2>2. F.inode[i] \in Node
    BY <1>3, MountedFields
  <2>3. /\ node \in Node /\ node.mode = F.inode[i].mode /\ node.nlink = F.inode[i].nlink
        /\ node.size = F.inode[i].size
        /\ node.direct = F.inode[i].direct /\ node.indirect = F.inode[i].indirect
    BY <2>2 DEF Node, Inode
  <2> HIDE DEF node
  <2>4. H \in Mounted /\ H.inode = [F.inode EXCEPT ![i] = node] /\ H.used = F.used
        /\ H.data = F.data /\ Same(F, H)
    BY <1>3, <2>3, SetNode
  <2> HIDE DEF H, G
  <2>5. H.inode[i] = node /\ \A j \in Inodes : j # i => H.inode[j] = F.inode[j]
    BY <1>3, <2>4, MountedFields
  <2>6. Live(H, i) <=> Live(F, i)
    BY <2>3, <2>5 DEF Live
  <2>7. IsDir(H, i) => IsDir(F, i) /\ H.inode[i].size = F.inode[i].size
    BY <2>3, <2>5, <2>6 DEF IsDir, is_directory
  <2>8. Sane(F) => Sane(H) /\ Bystanders(F, H, {})
    BY <1>3, <2>3, <2>4, <2>5, <2>7, NodeSane
  <2>9. Keeps(F, H) /\ Spares(F, H, {})
    BY <2>4, <2>8 DEF Keeps, Fine, Same, Spares
  <2> QED
    BY <2>1, <2>9
<1>4. CASE i \in Inodes
  <2>1. minixfs_chown(F, path, owner) = Result(G, 0, 0)
    BY <1>2, <1>4, Named
  <2> HIDE DEF G
  <2> QED
    BY <1>3, <1>4, <2>1 DEF Answered, Result
<1>5. CASE i \notin Inodes
  <2>1. minixfs_chown(F, path, owner) \in {Crash(F), Fail(F)}
    BY <1>1, <1>2, <1>5 DEF Found
  <2> QED
    BY <2>1, LooksKeeps
<1> QED
  BY <1>4, <1>5

\* mkdir
LEMMA MkdirKeeps ==
  ASSUME NEW F \in Mounted, NEW path \in Seq(STRING), NEW perm \in SUBSET RWX
  PROVE  Answered(F, minixfs_mkdir(F, path, perm))
<1> DEFINE R == minixfs_create_inode_for_path(F, path)
<1>1. Created(F, R)
  BY CreateKeeps
<1>2. minixfs_mkdir(F, path, perm) = Directory(R, perm)
  BY DEF minixfs_mkdir
<1> HIDE DEF R
<1>3. CASE R.ret = -1
  BY <1>1, <1>2, <1>3, GrownSpares DEF Directory, Created, Answered
<1>4. CASE R.ret # -1
  <2> DEFINE i == R.ret
             m == Typed(TYPE_DIRECTORY) \cup (R.fs.inode[i].mode \cap RWX) \cup perm
             G == [R.fs EXCEPT !.inode[i].mode = m]
  <2>1. i \in Inodes /\ R.fs \in Mounted
    BY <1>1, <1>4 DEF Created, Keeps
  <2>2. [R.fs EXCEPT !.inode[R.ret].mode = Typed(TYPE_DIRECTORY) \cup (@ \cap RWX) \cup perm] = G
    OBVIOUS
  <2>3. m \in SUBSET (0 .. 15)
    <3>1. Typed(TYPE_DIRECTORY) \subseteq 0 .. 15
      BY DEF Typed, TYPE_DIRECTORY
    <3>2. RWX \subseteq 0 .. 15
      BY DEF RWX
    <3> QED
      BY <3>1, <3>2
  <2> HIDE DEF m
  <2>4. /\ G \in Mounted /\ Same(R.fs, G)
        /\ Sane(R.fs) /\ R.fs.inode[i].size = 0 => Sane(G) /\ Untouched(R.fs, G)
    BY <2>1, <2>3, SetMode
  <2> HIDE DEF G
  <2>5. Keeps(F, G) /\ Spares(F, G, {})
    <3>1. Fine(G) => Fine(R.fs)
      BY <2>4 DEF Fine, Same
    <3>2. Fine(R.fs) => Fine(F)
      BY <1>1 DEF Created, Keeps
    <3>3. Sane(F) /\ Fine(R.fs) => Sane(R.fs) /\ R.fs.inode[i].size = 0
      BY <1>1, <1>4 DEF Created, Keeps
    <3>4. Sane(F) /\ Fine(R.fs) => Bystanders(F, R.fs, {})
      BY <1>1, GrownSpares DEF Created, Spares
    <3>5. Sane(F) /\ Fine(G) => Sane(G) /\ Bystanders(F, G, {})
      BY <2>4, <3>1, <3>3, <3>4, UntouchedSpares
    <3> QED
      BY <2>4, <3>1, <3>2, <3>5 DEF Keeps, Spares
  <2>6. minixfs_mkdir(F, path, perm) = Result(G, 0, 0)
    BY <1>2, <1>4, <2>2 DEF Directory
  <2> QED
    BY <2>5, <2>6 DEF Answered, Result
<1> QED
  BY <1>3, <1>4

\* open
LEMMA OpenKeepsDisk ==
  ASSUME NEW F \in Mounted, NEW path \in Seq(STRING), NEW creates \in BOOLEAN
  PROVE  Answered(F, minixfs_open(F, path, creates)) /\ Grows(F, minixfs_open(F, path, creates).fs, {})
<1> DEFINE R == minixfs_create_inode_for_path(F, path)
           i == get_inode(F, path)
           O == minixfs_open(F, path, creates)
<1>1. Created(F, R)
  BY CreateKeeps
<1>2. \/ O \in {Result(F, 0, 0), Result(F, 1, 0), Crash(F), Fail(F)}
      \/ O = Result(R.fs, IF R.ret = -1 THEN -1 ELSE 0, 0)
  BY DEF minixfs_open, Find, At
<1> HIDE DEF R, O
<1>3. CASE O \in {Result(F, 0, 0), Result(F, 1, 0), Crash(F), Fail(F)}
  <2>1. Answered(F, O)
    BY <1>3, LooksKeeps
  <2>2. Grows(F, Result(F, 0, 0).fs, {}) /\ Grows(F, Result(F, 1, 0).fs, {})
    BY GrownStill DEF Grows, Result
  <2>3. Grows(F, O.fs, {})
    BY <1>3, <2>2, FailKeeps
  <2> QED
    BY <2>1, <2>3 DEF O
<1>4. CASE O = Result(R.fs, IF R.ret = -1 THEN -1 ELSE 0, 0)
  <2>1. Answered(F, O) /\ Grows(F, O.fs, {})
    BY <1>1, <1>4, GrownSpares DEF Answered, Result, Created
  <2> QED
    BY <2>1 DEF O
<1> QED
  BY <1>2, <1>3, <1>4

\* What it leaves a path leading to: nothing is changed, or the inode is new.
LEMMA OpenFinds ==
  ASSUME NEW F \in Mounted, NEW path \in Seq(STRING), NEW creates \in BOOLEAN
  PROVE  LET O == minixfs_open(F, path, creates)
         IN /\ ~ creates => O.fs.inode = F.inode /\ O.fs.data = F.data
            /\ ~ creates /\ O.ret >= 0 => O.fs = F
            /\ ~ creates /\ O.ret >= 0 /\ ~ is_virtual_path(path) => get_inode(F, path) \in Inodes
            /\ O.ret >= 0 /\ Sane(F) /\ Fine(O.fs) =>
                 \/ O.fs = F
                 \/ get_inode(O.fs, path) \in Inodes => ~ Live(F, get_inode(O.fs, path))
<1> DEFINE R == minixfs_create_inode_for_path(F, path)
           i == get_inode(F, path)
           O == minixfs_open(F, path, creates)
<1>1. /\ Created(F, R)
      /\ R.ret # -1 /\ Sane(F) /\ Fine(R.fs) => get_inode(R.fs, path) = R.ret
  BY CreateKeeps
<1>2. i \in Found
  BY Lookups
<1>3. \/ is_virtual_path(path) /\ O \in {Result(F, 0, 0), Result(F, 1, 0)}
      \/ i \notin {NoInode, Wild} /\ O = Result(F, 0, 0)
      \/ O \in {Crash(F), Fail(F)}
      \/ creates /\ O = Result(R.fs, IF R.ret = -1 THEN -1 ELSE 0, 0)
  BY DEF minixfs_open, Find, At
<1>4. /\ Result(F, 0, 0).fs = F /\ Result(F, 1, 0).fs = F /\ Crash(F).ret = -1 /\ Fail(F).ret = -1
      /\ Result(R.fs, IF R.ret = -1 THEN -1 ELSE 0, 0).fs = R.fs
      /\ Result(R.fs, IF R.ret = -1 THEN -1 ELSE 0, 0).ret = IF R.ret = -1 THEN -1 ELSE 0
  BY DEF Result, Crash, Fail
<1>8. /\ Crash(F).fs.inode = F.inode /\ Crash(F).fs.data = F.data
      /\ Fail(F).fs.inode = F.inode /\ Fail(F).fs.data = F.data
  <2>1. Crash(F).fs = Crashed(F) /\ Fail(F).fs = F /\ {} \in SUBSET Inodes
    BY DEF Crash, Fail, Result
  <2> QED
    BY <2>1, HistoryFields
<1> HIDE DEF R, i, O
<1>9. ~ creates => O.fs.inode = F.inode /\ O.fs.data = F.data
  BY <1>3, <1>4, <1>8
<1>5. ~ creates /\ O.ret >= 0 => O.fs = F
  BY <1>3, <1>4
<1>6. ~ creates /\ O.ret >= 0 /\ ~ is_virtual_path(path) => i \in Inodes
  BY <1>2, <1>3, <1>4 DEF Found
<1>7. ASSUME O.ret >= 0, Sane(F), Fine(O.fs), O.fs # F
      PROVE  ~ Live(F, get_inode(O.fs, path))
  <2>1. O.fs = R.fs /\ R.ret # -1
    BY <1>3, <1>4, <1>7
  <2> QED
    BY <1>1, <1>7, <2>1 DEF Created
<1> QED
  BY <1>5, <1>6, <1>7, <1>9 DEF O, i

\* access
LEMMA AccessKeeps ==
  ASSUME NEW F \in Mounted, NEW path \in Seq(STRING), NEW asked
  PROVE  Answered(F, minixfs_access(F, path, asked))
<1>1. minixfs_access(F, path, asked) \in {Result(F, 0, 0), Result(F, -1, 0), Crash(F), Fail(F)}
  BY DEF minixfs_access, Find, At
<1> QED
  BY <1>1, LooksKeeps

\* stat
LEMMA StatKeeps ==
  ASSUME NEW F \in Mounted, NEW path \in Seq(STRING)
  PROVE  LET S == minixfs_stat(F, path) IN Keeps(F, S.fs) /\ S.ret \in Int /\ Spares(F, S.fs, {})
<1> DEFINE S == minixfs_stat(F, path)
<1>1. PICK R \in {Result(F, 0, 0), Result(F, 1, 0), Crash(F), Fail(F)} : \E shown : S = Shown(R, shown)
  BY DEF minixfs_stat
<1>2. Answered(F, R)
  BY LooksKeeps
<1> HIDE DEF S
<1>3. S.fs = R.fs /\ S.ret = R.ret
  BY <1>1 DEF Shown
<1> QED
  BY <1>2, <1>3 DEF Answered, S

\* readdir
LEMMA ReaddirKeeps ==
  ASSUME NEW F \in Mounted, NEW path \in Seq(STRING)
  PROVE  Keeps(F, minixfs_readdir(F, path).fs)
<1> DEFINE S == minixfs_readdir(F, path)
           i == get_inode(F, path)
           seen == Walk(F, F.inode[i], F.inode[i].indirect, Seen(F.inode[i], F.inode[i].indirect, {}))
           L == Listing(F, path, seen)
<1>1. \A ret, off, names : Listed(Result(F, ret, off), names).fs = F
                          /\ Listed(Fail(F), names).fs = F /\ Listed(Crash(F), names).fs = Crashed(F)
  BY DEF Listed, Result, Fail, Crash
<1>2. L.fs = F \/ L.fs = Crashed(F)
  <2> HIDE DEF seen
  <2>1. \E names : L = Listed(Crash(F), names) \/ L = Listed(Result(F, Len(seen), 0), names)
    BY DEF Listing
  <2> HIDE DEF L
  <2> QED
    BY <1>1, <2>1
<1>4. \E names : S \in {Listed(Result(F, 1, 0), names), Listed(Crash(F), names), Listed(Fail(F), names), L}
  <2> HIDE DEF L
  <2>1. S \in {Listed(Result(F, 1, 0), <<Entry("info", 0)>>), Listed(Crash(F), <<>>), Listed(Fail(F), <<>>), L}
    BY DEF minixfs_readdir, L
  <2> QED
    BY <2>1
<1> HIDE DEF S, L
<1>5. S.fs = F \/ S.fs = Crashed(F)
  BY <1>1, <1>2, <1>4
<1>3. Keeps(F, F) /\ Keeps(F, Crashed(F))
  BY KeepsStill, FailKeeps
<1> QED
  BY <1>3, <1>5 DEF S

\* What an inode holds at a position is what is read there.
LEMMA ReadThere ==
  ASSUME NEW F \in Mounted, NEW i \in Inodes, NEW j \in Nat, NEW x, HasAt(F, i, j, x)
  PROVE  /\ BlockToRead(F, i, j \div BlockSize) \in Blocks
         /\ BlockToRead(F, i, j \div BlockSize) # Null
         /\ CellsOf(F, BlockToRead(F, i, j \div BlockSize))[j % BlockSize] = x
<1> DEFINE k == j \div BlockSize
           b == NamedAt(F, i, PlaceOf(k))
<1>1. k \in Nat /\ b \in Blocks /\ CellsOf(F, b)[j % BlockSize] = x
  BY Position DEF HasAt
<1>2. Unassigned \notin Blocks /\ Null \notin Blocks /\ NumDirect \in Nat
  BY Named, Sizes
<1> SUFFICES BlockToRead(F, i, k) = b
  BY <1>1, <1>2
<1> HIDE DEF k
<1>3. CASE k < NumDirect
  BY <1>1, <1>2, <1>3 DEF BlockToRead, PlaceOf, NamedAt
<1>4. CASE ~ (k < NumDirect)
  <2>1. PlaceOf(k) = k + 1 /\ ~ (k + 1 < NumDirect) /\ k + 1 # NumDirect
    BY <1>1, <1>2, <1>4 DEF PlaceOf
  <2>2. (k + 1) - NumDirect - 1 = k - NumDirect
    BY <1>1, <1>2
  <2>3. b = Number(F, F.inode[i].indirect, k - NumDirect)
    BY <1>1, <1>2, <2>1, <2>2 DEF NamedAt
  <2> QED
    BY <1>1, <1>2, <1>4, <2>3 DEF BlockToRead
<1> QED
  BY <1>3, <1>4

\* A file is read as it is held, cell by cell, and to its end.
LEMMA ReadHeld ==
  ASSUME NEW F \in Mounted, NEW i \in Inodes, Live(F, i), NEW c, HoldsJust(F, i, c),
         NEW off \in 0 .. Len(c)
  PROVE  LET R == ReadInode(F, i, 1, off)
         IN IF off = Len(c) THEN R.fs = F /\ R.ret = 0
            ELSE R.fs = F /\ R.ret = 1 /\ R.off = off + 1 /\ R.cells = << c[off + 1] >>
<1> DEFINE size == F.inode[i].size
           n == IF off >= size THEN 0 ELSE IF off + 1 > size THEN size - off ELSE 1
           block(j) == BlockToRead(F, i, (off + j - 1) \div BlockSize)
           cell(j) == CellsOf(F, block(j))[(off + j - 1) % BlockSize]
           R == ReadInode(F, i, 1, off)
<1>1. size = Len(c) /\ Len(c) \in Nat /\ off \in Nat /\ Holds(F, i, c)
  BY DEF HoldsJust
<1>2. R = IF \E j \in 1 .. n : block(j) = Null THEN Read(Crash(F), <<>>)
          ELSE Read(Result(F, n, off + n), [j \in 1 .. n |-> cell(j)])
  BY DEF ReadInode
<1>3. CASE off = Len(c)
  <2>1. n = 0
    BY <1>1, <1>3
  <2> HIDE DEF n, block, cell
  <2>2. R = Read(Result(F, 0, off + 0), [j \in 1 .. 0 |-> cell(j)])
    BY <1>2, <2>1
  <2> QED
    BY <1>3, <2>2 DEF Read, Result
<1>4. CASE off # Len(c)
  <2>1. n = 1 /\ off \in 0 .. Len(c) - 1
    BY <1>1, <1>4
  <2>2. HasAt(F, i, off, c[off + 1])
    BY <1>1, <2>1 DEF Holds
  <2>3. block(1) # Null /\ cell(1) = c[off + 1]
    <3>1. off + 1 - 1 = off
      BY <1>1
    <3> QED
      BY <1>1, <2>2, <3>1, ReadThere
  <2> HIDE DEF n, block, cell
  <2>4. R = Read(Result(F, 1, off + 1), [j \in 1 .. 1 |-> cell(j)])
    <3>1. \A j \in 1 .. 1 : j = 1
      OBVIOUS
    <3> QED
      BY <1>2, <2>1, <2>3, <3>1
  <2>5. [j \in 1 .. 1 |-> cell(j)] = << c[off + 1] >>
    BY <2>3
  <2> QED
    BY <1>4, <2>4, <2>5 DEF Read, Result
<1> QED
  BY <1>3, <1>4 DEF R

\* What a read answers.
ReadOK(F, R) == Answered(F, R) /\ Grows(F, R.fs, {}) /\ R.cells \in Seq(Cell)

\* What a read finds at a position of a file.
LEMMA BlockToReadType ==
  ASSUME NEW F \in Mounted, NEW i \in Inodes, NEW k \in 0 .. 2 * NumDirect - 1
  PROVE  BlockToRead(F, i, k) \in Numbers
<1> DEFINE node == F.inode[i]
<1>1. node.direct \in [Slots -> Blocks \cup {Unassigned}] /\ node.indirect \in Blocks \cup {Unassigned}
  BY MountedFields, NodeFields
<1> HIDE DEF node
<1>2. CASE k < NumDirect
  <2>1. k \in Slots
    BY <1>2, Sizes DEF Slots
  <2>2. BlockToRead(F, i, k) = node.direct[k]
    BY <1>2 DEF BlockToRead, node
  <2> QED
    BY <1>1, <2>1, <2>2 DEF Numbers
<1>3. CASE ~ (k < NumDirect)
  <2> DEFINE b == Number(F, node.indirect, k - NumDirect)
  <2>1. k - NumDirect \in 0 .. NumIndirect - 1
    BY <1>3, Sizes
  <2>2. b \in Numbers
    BY <1>1, <2>1, NumberType
  <2>3. BlockToRead(F, i, k) = IF b = Unassigned THEN Null ELSE b
    BY <1>3 DEF BlockToRead, node
  <2> HIDE DEF b
  <2> QED
    BY <2>2, <2>3 DEF Numbers
<1> QED
  BY <1>2, <1>3

\* A read of an inode.
LEMMA ReadInodeOK ==
  ASSUME NEW F \in Mounted, NEW i \in Inodes, NEW count \in Nat, NEW off \in Nat
  PROVE  ReadOK(F, ReadInode(F, i, count, off))
<1> DEFINE size == F.inode[i].size
           n == IF off >= size THEN 0 ELSE IF off + count > size THEN size - off ELSE count
           block(j) == BlockToRead(F, i, (off + j - 1) \div BlockSize)
           cells == [j \in 1 .. n |-> CellsOf(F, block(j))[(off + j - 1) % BlockSize]]
           R == ReadInode(F, i, count, off)
<1>1. size \in Int /\ size <= MaxFileSize
  BY MountedFields, NodeFields
<1>2. R = IF \E j \in 1 .. n : block(j) = Null THEN Read(Crash(F), <<>>)
          ELSE Read(Result(F, n, off + n), cells)
  BY DEF ReadInode
<1> HIDE DEF size
<1>3. n \in Nat /\ off + n \in Nat /\ (n > 0 => off + n <= size)
  BY <1>1
<1> HIDE DEF n
<1>4. ASSUME NEW j \in 1 .. n
      PROVE  block(j) \in Numbers /\ (off + j - 1) % BlockSize \in 0 .. BlockSize - 1
  <2> DEFINE at == off + j - 1
             k == at \div BlockSize
  <2>1. at \in Nat /\ at < MaxFileSize
    <3>1. MaxFileSize \in Int
      BY Sizes DEF MaxFileSize
    <3> QED
      BY <1>1, <1>3, <3>1
  <2> HIDE DEF at
  <2>2. k \in Nat /\ k < 2 * NumDirect /\ at % BlockSize \in 0 .. BlockSize - 1
    BY <2>1, Position, InsideFile
  <2> HIDE DEF k
  <2>3. k \in 0 .. 2 * NumDirect - 1
    BY <2>2, Sizes
  <2>4. BlockToRead(F, i, k) \in Numbers
    BY <2>3, BlockToReadType
  <2> QED
    BY <2>2, <2>4 DEF k, at
<1>5. CASE \E j \in 1 .. n : block(j) = Null
  <2>1. R = Read(Crash(F), <<>>)
    BY <1>2, <1>5
  <2>2. Answered(F, Crash(F)) /\ Grows(F, Crash(F).fs, {})
    BY LooksKeeps
  <2> QED
    BY <2>1, <2>2 DEF ReadOK, Answered, Read
<1>6. CASE ~ (\E j \in 1 .. n : block(j) = Null)
  <2>1. R = Read(Result(F, n, off + n), cells)
    BY <1>2, <1>6
  <2>2. ASSUME NEW j \in 1 .. n
        PROVE  CellsOf(F, block(j))[(off + j - 1) % BlockSize] \in Cell
    <3>1. block(j) \in Blocks \cup {Unassigned}
      BY <1>4, <1>6 DEF Numbers
    <3> DEFINE b == block(j)
               r == (off + j - 1) % BlockSize
    <3>2. r \in 0 .. BlockSize - 1
      BY <1>4
    <3> HIDE DEF b, r
    <3>3. CellsOf(F, b) \in [0 .. BlockSize - 1 -> Cell]
      BY <3>1, CellsType DEF b
    <3>4. CellsOf(F, b)[r] \in Cell
      BY <3>2, <3>3
    <3> QED
      BY <3>4 DEF b, r
  <2> HIDE DEF block
  <2>3. cells \in Seq(Cell)
    BY <1>3, <2>2
  <2> HIDE DEF cells
  <2>4. Answered(F, Result(F, n, off + n)) /\ Grows(F, Result(F, n, off + n).fs, {})
    BY <1>3, LooksKeeps
  <2> QED
    BY <2>1, <2>3, <2>4 DEF ReadOK, Answered, Read
<1> QED
  BY <1>5, <1>6

\* read
LEMMA ReadKeeps ==
  ASSUME NEW F \in Mounted, NEW path \in Seq(STRING), NEW count \in Nat, NEW off \in Nat
  PROVE  ReadOK(F, minixfs_read(F, path, count, off))
<1> DEFINE i == get_inode(F, path)
           R == minixfs_read(F, path, count, off)
           info == <<Entry("info", 0)>>
<1>1. i \in Found
  BY Lookups
<1>2. ASSUME NEW A, Answered(F, A) /\ Grows(F, A.fs, {}), NEW cells \in Seq(Cell)
      PROVE  ReadOK(F, Read(A, cells))
  BY <1>2 DEF ReadOK, Answered, Read
<1>3. info \in Seq(Cell) /\ <<>> \in Seq(Cell)
  <2>1. Entry("info", 0) \in Cell
    BY Named DEF Entry, Cell, Name, Root
  <2> QED
    BY <2>1
<1> HIDE DEF info
<1>4. ReadOK(F, minixfs_virtual_read(F, path, off))
  <2> DEFINE V == minixfs_virtual_read(F, path, off)
  <2>1. V = IF path # Info THEN Read(Fail(F), <<>>)
            ELSE IF off > 1 THEN Read(Crash(F), <<>>)
            ELSE Read(Result(F, 1 - off, 1), IF off = 0 THEN info ELSE <<>>)
    BY DEF minixfs_virtual_read, info
  <2>2. /\ Answered(F, Fail(F)) /\ Answered(F, Crash(F)) /\ Answered(F, Result(F, 1 - off, 1))
        /\ Grows(F, Fail(F).fs, {}) /\ Grows(F, Crash(F).fs, {}) /\ Grows(F, Result(F, 1 - off, 1).fs, {})
    BY LooksKeeps
  <2>3. (IF off = 0 THEN info ELSE <<>>) \in Seq(Cell)
    BY <1>3
  <2> HIDE DEF V
  <2>4. ReadOK(F, V)
    BY <1>2, <1>3, <2>1, <2>2, <2>3
  <2> QED
    BY <2>4 DEF V
<1>5. R = IF is_virtual_path(path) THEN minixfs_virtual_read(F, path, off)
          ELSE IF i = Wild THEN Read(Crash(F), <<>>)
          ELSE IF i = NoInode THEN Read(Result(F, -1, off), <<>>)
          ELSE ReadInode(F, i, count, off)
  BY DEF minixfs_read
<1>6. /\ Answered(F, Crash(F)) /\ Answered(F, Result(F, -1, off))
      /\ Grows(F, Crash(F).fs, {}) /\ Grows(F, Result(F, -1, off).fs, {})
  BY LooksKeeps
<1>7. i \in Inodes => ReadOK(F, ReadInode(F, i, count, off))
  BY ReadInodeOK
<1> HIDE DEF R, i
<1>8. ReadOK(F, R)
  <2>1. CASE is_virtual_path(path)
    BY <1>4, <1>5, <2>1
  <2>2. CASE ~ is_virtual_path(path)
    <3>1. ReadOK(F, Read(Crash(F), <<>>)) /\ ReadOK(F, Read(Result(F, -1, off), <<>>))
      BY <1>2, <1>3, <1>6
    <3> QED
      BY <1>1, <1>5, <1>7, <2>2, <3>1 DEF Found
  <2> QED
    BY <2>1, <2>2
<1> QED
  BY <1>8 DEF R

\* write
LEMMA WriteKeeps ==
  ASSUME NEW F \in Mounted, NEW path \in Seq(STRING), NEW buf \in Seq(Cell), NEW off \in Nat
  PROVE  LET R == minixfs_write(F, path, buf, off) IN Written(F, R) /\ PutsIn(F, R, buf, off)
<1> DEFINE i == get_inode(F, path)
           R == minixfs_write(F, path, buf, off)
           made == minixfs_create_inode_for_path(F, path)
           M == WriteMade(F, made, buf, off)
           OK(A) == Written(F, A) /\ PutsIn(F, A, buf, off)
<1>1. i \in Found /\ (Sane(F) => LiveOrNone(F, i))
  BY Lookups
<1>2. Created(F, made)
  BY CreateKeeps
<1>3. R = IF i = Wild THEN Wrote(Crash(F), NoInode)
          ELSE IF i # NoInode THEN WriteInode(F, i, buf, off) ELSE M
  BY DEF minixfs_write
<1>4. ASSUME NEW A, Answered(F, A), A.ret = -1, Grows(F, A.fs, {NoInode})
      PROVE  OK(Wrote(A, NoInode))
  <2> DEFINE V == Wrote(A, NoInode)
  <2>1. V.fs = A.fs /\ V.ret = A.ret /\ V.off = A.off /\ V.ino = NoInode
    BY DEF Wrote
  <2> HIDE DEF V
  <2>2. Written(F, V)
    BY <1>4, <2>1 DEF Written, Answered
  <2>3. PutsIn(F, V, buf, off)
    BY <1>4, <2>1 DEF PutsIn
  <2> QED
    BY <2>2, <2>3 DEF V
<1>5. OK(Wrote(Crash(F), NoInode)) /\ OK(Wrote(Result(F, -1, off), NoInode))
  <2>1. Answered(F, Crash(F)) /\ Crash(F).ret = -1 /\ Grows(F, Crash(F).fs, {NoInode})
    BY LooksKeeps, FailKeeps
  <2>2. /\ Answered(F, Result(F, -1, off)) /\ Result(F, -1, off).ret = -1
        /\ Grows(F, Result(F, -1, off).fs, {NoInode})
    <3>1. Answered(F, Result(F, -1, off))
      BY LooksKeeps
    <3>2. Grows(F, F, {NoInode})
      BY GrownStill DEF Grows
    <3> QED
      BY <3>1, <3>2 DEF Result
  <2> HIDE DEF OK
  <2> QED
    BY <1>4, <2>1, <2>2
<1>6. i \in Inodes => OK(WriteInode(F, i, buf, off))
  <2>1. ASSUME i \in Inodes
        PROVE  Sane(F) => Live(F, i)
    BY <1>1, <2>1, Named DEF LiveOrNone
  <2> HIDE DEF i
  <2> QED
    BY <2>1, WriteInodeKeeps
<1> HIDE DEF R, i, made
<1>7. OK(M)
  <2>1. CASE made.ret # -1
    <3> DEFINE G == made.fs
               W == WriteInode(G, made.ret, buf, off)
    <3>1. M = W
      BY <2>1 DEF WriteMade
    <3>2. /\ G \in Mounted /\ made.ret \in Inodes /\ Keeps(F, G) /\ Live(G, made.ret)
          /\ ~ Live(F, made.ret) /\ Grows(F, G, {}) /\ (Sane(F) => G.inode[made.ret].size = 0)
      BY <1>2, <2>1 DEF Created, Keeps
    <3> HIDE DEF M
    <3>3. Written(G, W) /\ PutsIn(G, W, buf, off) /\ (W.ret # -1 => W.ino = made.ret)
      BY <3>2, WriteInodeKeeps
    <3> HIDE DEF W
    <3>4. Keeps(F, W.fs)
      BY <3>2, <3>3, KeepsTwice DEF Written
    <3>5. Written(F, W)
      <4>1. Grows(F, W.fs, {} \cup {W.ino})
        BY <3>2, <3>3, GrowsTwice DEF Written
      <4>2. {} \cup {W.ino} = {W.ino}
        OBVIOUS
      <4> QED
        BY <3>3, <3>4, <4>1, <4>2 DEF Written
    <3>6. PutsIn(F, W, buf, off)
      <4> SUFFICES ASSUME W.ret # -1, Sane(F), Fine(W.fs)
                   PROVE  /\ W.ino \in Inodes /\ Live(W.fs, W.ino) /\ ~ is_directory(W.fs.inode[W.ino])
                          /\ W.ret \in 0 .. Len(buf) /\ W.off = off + W.ret /\ (Len(buf) > 0 => W.ret >= 1)
                          /\ off + Len(buf) <= MaxFileSize
                          /\ \A c : HoldsJust(F, W.ino, c) /\ off <= Len(c) =>
                               /\ W.fs.inode[W.ino].size = IF off + Len(buf) > Len(c) THEN off + Len(buf) ELSE Len(c)
                               /\ HoldsOver(W.fs, W.ino, c, off, buf, W.off)
        BY DEF PutsIn
      <4>1. Fine(G) /\ Sane(G)
        BY <3>2, <3>3 DEF Written, Keeps
      <4>2. /\ W.ino \in Inodes /\ Live(W.fs, W.ino) /\ ~ is_directory(W.fs.inode[W.ino])
            /\ W.ret \in 0 .. Len(buf) /\ W.off = off + W.ret /\ (Len(buf) > 0 => W.ret >= 1)
            /\ off + Len(buf) <= MaxFileSize
            /\ \A c : HoldsJust(G, W.ino, c) /\ off <= Len(c) =>
                 /\ W.fs.inode[W.ino].size = IF off + Len(buf) > Len(c) THEN off + Len(buf) ELSE Len(c)
                 /\ HoldsOver(W.fs, W.ino, c, off, buf, W.off)
        BY <3>3, <4>1 DEF PutsIn
      <4>3. ASSUME NEW c, HoldsJust(F, W.ino, c)
            PROVE  HoldsJust(G, W.ino, c)
        <5>1. W.ino = made.ret
          BY <3>3
        <5>2. c = <<>>
          BY <3>2, <4>3, <5>1 DEF HoldsJust
        <5>3. Len(c) = 0 /\ c \in Seq(Cell) /\ Len(c) <= MaxFileSize
          BY <4>3, <5>2 DEF HoldsJust
        <5>4. Holds(G, W.ino, c)
          BY <5>3 DEF Holds
        <5> QED
          BY <3>2, <5>1, <5>3, <5>4 DEF HoldsJust
      <4> QED
        BY <4>2, <4>3
    <3> QED
      BY <3>1, <3>5, <3>6 DEF M
  <2>2. CASE made.ret = -1
    <3>1. M \in {Wrote(Result(F, -1, off), NoInode), Wrote(Crash(F), NoInode)}
      BY <2>2 DEF WriteMade
    <3> QED
      BY <1>5, <3>1
  <2> QED
    BY <2>1, <2>2
<1>8. OK(R)
  <2> HIDE DEF OK
  <2> QED
    BY <1>1, <1>3, <1>5, <1>6, <1>7, Named DEF Found
<1> QED
  BY <1>8 DEF R
------------------------------------------------------------------------------
(* Removal.                                                                 *)

\* The block of a directory that a position is in.
LEMMA BlockOfType ==
  ASSUME NEW F \in Mounted, NEW node \in Node, NEW table \in Blocks \cup {Unassigned}, NEW k \in Nat
  PROVE  BlockOf(F, node, table, k) \in Numbers
<1>1. CASE k < NumDirect
  <2>1. k \in Slots
    BY <1>1, Sizes DEF Slots
  <2>2. node.direct[k] \in Blocks \cup {Unassigned}
    BY <2>1, NodeFields
  <2> QED
    BY <1>1, <2>2 DEF BlockOf, Numbers
<1>2. CASE ~ (k < NumDirect)
  <2>1. k % NumDirect \in 0 .. NumIndirect - 1
    BY Sizes
  <2>2. BlockOf(F, node, table, k) = Number(F, table, k % NumDirect)
    BY <1>2 DEF BlockOf
  <2> QED
    BY <2>1, <2>2, NumberType
<1> QED
  BY <1>1, <1>2

\* The blocks that free_inode() gives back.
FreedBy(F, i) ==
  {F.inode[i].direct[k] : k \in Slots}
  \cup IF F.inode[i].indirect = Unassigned THEN {}
       ELSE {F.inode[i].indirect} \cup {Number(F, F.inode[i].indirect, n) : n \in Slots}

\* Nothing else of the disk changes, but that the inode is free.
LEMMA FreeFields ==
  ASSUME NEW F \in Mounted, NEW i \in Inodes
  PROVE  LET G == free_inode(F, i)
         IN /\ G \in Mounted /\ G.used = F.used \ FreedBy(F, i) /\ G.data = F.data /\ Same(F, G)
            /\ \A j \in Inodes : j # i => G.inode[j] = F.inode[j]
            /\ G.inode[i].nlink = 0 /\ G.inode[i].size = F.inode[i].size
            /\ G.inode[i].direct = F.inode[i].direct /\ G.inode[i].indirect = F.inode[i].indirect
<1> DEFINE bs == FreedBy(F, i)
           node == [F.inode[i] EXCEPT !.nlink = 0]
           E == [F EXCEPT !.inode[i] = node]
           rest == E.used \ bs
           G == [E EXCEPT !.used = rest]
<1>1. [F EXCEPT !.inode[i].nlink = 0] = E
  OBVIOUS
<1>2. free_inode(F, i) = Free(E, bs)
  BY <1>1 DEF free_inode, FreedBy
<1>3. free_inode(F, i) = G
  BY <1>2 DEF Free
<1> HIDE DEF bs
<1>4. F.inode[i] \in Node
  BY MountedFields
<1>5. /\ node \in Node /\ node.nlink = 0 /\ node.size = F.inode[i].size
      /\ node.direct = F.inode[i].direct /\ node.indirect = F.inode[i].indirect
  BY <1>4 DEF Node, Inode
<1> HIDE DEF node
<1>6. E \in Mounted /\ E.inode = [F.inode EXCEPT ![i] = node] /\ E.used = F.used
      /\ E.data = F.data /\ Same(F, E)
  BY <1>5, SetNode
<1> HIDE DEF E
<1>7. rest \in SUBSET Blocks /\ rest = F.used \ bs
  BY <1>6, MountedFields
<1> HIDE DEF rest
<1>8. G \in Mounted /\ G.inode = E.inode /\ G.used = rest /\ G.data = E.data /\ Same(E, G)
  BY <1>6, <1>7, SetUsed
<1> HIDE DEF G
<1>9. G.inode[i] = node /\ \A j \in Inodes : j # i => G.inode[j] = F.inode[j]
  BY <1>6, <1>8, MountedFields
<1>10. Same(F, G)
  BY <1>6, <1>8 DEF Same
<1> QED
  BY <1>3, <1>5, <1>6, <1>7, <1>8, <1>9, <1>10 DEF bs

\* They are the ones it names.
LEMMA FreesItsOwn ==
  ASSUME NEW F, NEW i \in Inodes,
         F.inode[i].indirect # Unassigned => IsTable(F, F.inode[i].indirect),
         NEW c \in Blocks
  PROVE  c \in FreedBy(F, i) <=> \E q \in Place : NamedAt(F, i, q) = c
<1> DEFINE t == F.inode[i].indirect
<1>1. c # Unassigned
  BY Named
<1>2. ASSUME NEW k \in Slots, F.inode[i].direct[k] = c
      PROVE  \E q \in Place : NamedAt(F, i, q) = c
  <2>1. k \in Place /\ k < NumDirect
    BY Sizes DEF Slots, Place
  <2>2. NamedAt(F, i, k) = c
    BY <1>2, <2>1 DEF NamedAt
  <2> QED
    BY <2>1, <2>2
<1>3. ASSUME t = c
      PROVE  \E q \in Place : NamedAt(F, i, q) = c
  <2>1. NumDirect \in Place /\ NamedAt(F, i, NumDirect) = c
    BY <1>3, Sizes DEF Place, NamedAt
  <2> QED
    BY <2>1
<1>4. ASSUME t # Unassigned, NEW n \in Slots, Number(F, t, n) = c
      PROVE  \E q \in Place : NamedAt(F, i, q) = c
  <2> DEFINE q == NumDirect + 1 + n
  <2>1. q \in Place /\ q # NumDirect /\ ~ (q < NumDirect) /\ q - NumDirect - 1 = n
    BY Sizes DEF Slots, Place
  <2> HIDE DEF q
  <2>2. NamedAt(F, i, q) = c
    BY <1>4, <2>1 DEF NamedAt
  <2> QED
    BY <2>1, <2>2
<1>5. ASSUME NEW q \in Place, NamedAt(F, i, q) = c
      PROVE  c \in FreedBy(F, i)
  <2>1. CASE q < NumDirect
    <3>1. q \in Slots /\ F.inode[i].direct[q] = c
      BY <1>5, <2>1, Sizes DEF NamedAt, Slots, Place
    <3> QED
      BY <3>1 DEF FreedBy
  <2>2. CASE ~ (q < NumDirect) /\ (q = NumDirect \/ t = Unassigned)
    <3>1. t = c
      BY <1>5, <2>2 DEF NamedAt
    <3> QED
      BY <1>1, <3>1 DEF FreedBy
  <2>3. CASE ~ (q < NumDirect) /\ ~ (q = NumDirect \/ t = Unassigned)
    <3> DEFINE n == q - NumDirect - 1
    <3>1. n \in 0 .. NumIndirect - 1
      BY <2>3, Sizes DEF Place
    <3>2. Number(F, t, n) = c
      BY <1>5, <2>3 DEF NamedAt
    <3> HIDE DEF n
    <3>3. Number(F, t, n) = F.data[t].at[n] /\ (n >= NumDirect => F.data[t].at[n] = Unassigned)
      BY <2>3, <3>1 DEF IsTable, Number
    <3>4. n \in Slots
      BY <1>1, <3>1, <3>2, <3>3, Sizes DEF Slots
    <3> QED
      BY <2>3, <3>2, <3>4 DEF FreedBy
  <2> QED
    BY <2>1, <2>2, <2>3
<1>6. ASSUME c \in FreedBy(F, i)
      PROVE  \E q \in Place : NamedAt(F, i, q) = c
  <2>1. \/ \E k \in Slots : F.inode[i].direct[k] = c
        \/ t # Unassigned /\ t = c
        \/ t # Unassigned /\ \E n \in Slots : Number(F, t, n) = c
    BY <1>6 DEF FreedBy
  <2> QED
    BY <1>2, <1>3, <1>4, <2>1
<1> QED
  BY <1>5, <1>6

\* An inode becomes free and its blocks with it.
LEMMA FreedAccounted ==
  ASSUME NEW F, NEW G, OwnsOnce(F), Marked(F), NEW i \in Inodes, Live(F, i), NEW bs,
         \A c \in Blocks : c \in bs <=> \E q \in Place : NamedAt(F, i, q) = c,
         G.used = F.used \ bs,
         \A j \in Inodes : Live(G, j) <=> Live(F, j) /\ j # i,
         \A j \in Inodes, p \in Place : Live(F, j) => NamedAt(G, j, p) = NamedAt(F, j, p)
  PROVE  OwnsOnce(G) /\ Marked(G)
<1>1. OwnsOnce(G)
  BY DEF OwnsOnce
<1>2. ASSUME NEW c \in Blocks
      PROVE  c \in G.used <=> \E j \in Inodes, p \in Place : Live(G, j) /\ NamedAt(G, j, p) = c
  <2>1. c \in F.used <=> \E j \in Inodes, p \in Place : Live(F, j) /\ NamedAt(F, j, p) = c
    BY DEF Marked
  <2>2. ASSUME c \in G.used
        PROVE  \E j \in Inodes, p \in Place : Live(G, j) /\ NamedAt(G, j, p) = c
    <3>1. PICK j \in Inodes, p \in Place : Live(F, j) /\ NamedAt(F, j, p) = c
      BY <2>1, <2>2
    <3>2. j # i
      BY <2>2, <3>1
    <3> QED
      BY <3>1, <3>2
  <2>3. ASSUME NEW j \in Inodes, NEW p \in Place, Live(G, j) /\ NamedAt(G, j, p) = c
        PROVE  c \in G.used
    <3>1. Live(F, j) /\ NamedAt(F, j, p) = c /\ j # i
      BY <2>3
    <3>2. c # Unassigned
      BY Named
    <3>3. \A q \in Place : NamedAt(F, i, q) # c
      BY <3>1, <3>2 DEF OwnsOnce
    <3> QED
      BY <2>1, <3>1, <3>3
  <2> QED
    BY <2>2, <2>3
<1>3. Marked(G)
  BY <1>2 DEF Marked
<1> QED
  BY <1>1, <1>3

\* An entry is taken out of the first block of a directory, which shrinks by it.
EntryMoved(F, p, h) == MoveUp(F, F.inode[p].direct[0], h)
Shrinks(P, H, p) ==
  /\ H.used = P.used /\ H.data = P.data
  /\ \A j \in Inodes : j # p => H.inode[j] = P.inode[j]
  /\ H.inode[p].direct = P.inode[p].direct /\ H.inode[p].indirect = P.inode[p].indirect
  /\ H.inode[p].nlink = P.inode[p].nlink /\ H.inode[p].mode = P.inode[p].mode
  /\ H.inode[p].size = P.inode[p].size - 1

\* Taking the entry out, freeing the inode and its blocks keeps the disk sane.
LEMMA UnlinkSane ==
  ASSUME NEW F \in Mounted, Sane(F), NEW p \in Inodes, IsDir(F, p), NEW h \in EntriesOf(F, p),
         NEW i \in Inodes, EntryOf(F, p, h).ino = i,
         NEW H \in Mounted, Shrinks(EntryMoved(F, p, h), H, p)
  PROVE  Sane(free_inode(H, i)) /\ Bystanders(F, free_inode(H, i), {})
<1> DEFINE P == EntryMoved(F, p, h)
           G == free_inode(H, i)
           b == F.inode[p].direct[0]
           new == [j \in h .. BlockSize - 2 |-> CellsOf(F, b)[j + 1]]
<1>1. DirOK(F, p) /\ FitsIn(F, p) /\ DirsOK(F)
  BY DEF Sane, DirsOK, DirOK
<1>2. h \in 0 .. BlockSize - 1 /\ b \in Blocks
  BY <1>1, EntryType
<1>3. i # 0 /\ i # p /\ Live(F, i)
  BY <1>1 DEF DirOK, EntryOK
<1>4. \A j \in 0 .. BlockSize - 1 : j \in DOMAIN new => new[j] \in Cell
  <2>1. CellsOf(F, b) \in [0 .. BlockSize - 1 -> Cell]
    BY <1>2, CellsType
  <2> HIDE DEF b
  <2>2. ASSUME NEW j \in h .. BlockSize - 2
        PROVE  CellsOf(F, b)[j + 1] \in Cell
    <3>1. j + 1 \in 0 .. BlockSize - 1
      BY <1>2, Sizes
    <3> QED
      BY <2>1, <3>1
  <2> QED
    BY <2>2
<1>5. /\ P.inode = F.inode /\ P.used = F.used
      /\ \A c \in Blocks \cup {Unassigned} : c # b => P.data[c] = F.data[c]
      /\ CellsOf(P, b) = Poked(F, b, new)
  <2>1. P = Poke(F, b, new)
    BY DEF EntryMoved, MoveUp
  <2> HIDE DEF b, new, P
  <2>2. b \in Blocks \cup {Unassigned}
    BY <1>2
  <2>3. Poke(F, b, new).inode = F.inode /\ Poke(F, b, new).used = F.used
    BY <1>4, <2>2, PokeFields
  <2>4. /\ \A c \in Blocks \cup {Unassigned} : c # b => Poke(F, b, new).data[c] = F.data[c]
        /\ CellsOf(Poke(F, b, new), b) = Poked(F, b, new)
    BY <1>4, <2>2, PokeCells
  <2> QED
    BY <2>1, <2>3, <2>4
<1>6. /\ H.used = P.used /\ H.data = P.data
      /\ \A j \in Inodes : j # p => H.inode[j] = P.inode[j]
      /\ H.inode[p].direct = P.inode[p].direct /\ H.inode[p].indirect = P.inode[p].indirect
      /\ H.inode[p].nlink = P.inode[p].nlink /\ H.inode[p].mode = P.inode[p].mode
      /\ H.inode[p].size = P.inode[p].size - 1
  BY DEF Shrinks
<1>7. /\ G.used = H.used \ FreedBy(H, i) /\ G.data = H.data
      /\ \A j \in Inodes : j # i => G.inode[j] = H.inode[j]
      /\ G.inode[i].nlink = 0
      /\ G.inode[i].direct = H.inode[i].direct /\ G.inode[i].indirect = H.inode[i].indirect
  BY FreeFields
<1> HIDE DEF P, G, b, new
<1>8. /\ H.used = F.used
      /\ \A j \in Inodes : j # p => H.inode[j] = F.inode[j]
      /\ \A j \in Inodes : j # p /\ j # i => G.inode[j] = F.inode[j]
      /\ H.inode[p].direct = F.inode[p].direct /\ H.inode[p].indirect = F.inode[p].indirect
      /\ G.inode[p].direct = F.inode[p].direct /\ G.inode[p].indirect = F.inode[p].indirect
      /\ G.inode[p].nlink = F.inode[p].nlink /\ G.inode[p].mode = F.inode[p].mode
      /\ G.inode[p].size = F.inode[p].size - 1
      /\ G.inode[i].nlink = 0
      /\ G.inode[i].direct = F.inode[i].direct /\ G.inode[i].indirect = F.inode[i].indirect
      /\ \A c \in Blocks \cup {Unassigned} : c # b => H.data[c] = F.data[c]
      /\ G.data = H.data
  BY <1>3, <1>5, <1>6, <1>7
<1>9. \A j \in Inodes : Live(G, j) <=> Live(F, j) /\ j # i
  BY <1>8 DEF Live
<1>10. \A j \in Inodes : /\ H.inode[j].direct = F.inode[j].direct /\ H.inode[j].indirect = F.inode[j].indirect
                         /\ G.inode[j].direct = F.inode[j].direct /\ G.inode[j].indirect = F.inode[j].indirect
  BY <1>8
<1>11. ASSUME NEW j \in Inodes, Live(F, j), F.inode[j].indirect # Unassigned
       PROVE  H.data[F.inode[j].indirect] = F.data[F.inode[j].indirect]
  <2>1. F.inode[j].indirect \in Blocks \cup {Unassigned}
    BY MountedFields, NodeFields
  <2>2. F.inode[j].indirect # b
    <3>1. Live(F, p) /\ F.inode[p].size > 0
      BY <1>1 DEF IsDir, EntriesOf, FitsIn
    <3> QED
      BY <1>11, <3>1, PlaceUsed DEF b
  <2> QED
    BY <1>8, <2>1, <2>2
<1>12. ASSUME NEW j \in Inodes, NEW q \in Place, Live(F, j)
       PROVE  NamedAt(H, j, q) = NamedAt(F, j, q) /\ NamedAt(G, j, q) = NamedAt(F, j, q)
  <2>1. F.inode[j].indirect # Unassigned => G.data[F.inode[j].indirect] = F.data[F.inode[j].indirect]
    BY <1>8, <1>11, <1>12
  <2> QED
    BY <1>10, <1>11, <1>12, <2>1, NamedSame
<1>13. ASSUME NEW j \in Inodes, Live(F, j), F.inode[j].indirect # Unassigned
       PROVE  IsTable(H, F.inode[j].indirect) /\ IsTable(G, F.inode[j].indirect)
  <2>1. IsTable(F, F.inode[j].indirect)
    BY <1>13 DEF Sane, TablesOK
  <2>2. /\ H.data[F.inode[j].indirect] = F.data[F.inode[j].indirect]
        /\ G.data[F.inode[j].indirect] = F.data[F.inode[j].indirect]
    BY <1>8, <1>11, <1>13
  <2> QED
    BY <2>1, <2>2, TableSame
<1>14. ASSUME NEW c \in Blocks
       PROVE  c \in FreedBy(H, i) <=> \E q \in Place : NamedAt(F, i, q) = c
  <2>1. H.inode[i].indirect # Unassigned => IsTable(H, H.inode[i].indirect)
    BY <1>3, <1>10, <1>13
  <2>2. c \in FreedBy(H, i) <=> \E q \in Place : NamedAt(H, i, q) = c
    BY <2>1, FreesItsOwn
  <2> QED
    BY <1>3, <1>12, <2>2
<1>15. OwnsOnce(G) /\ Marked(G)
  <2>1. G.used = F.used \ FreedBy(H, i)
    BY <1>7, <1>8
  <2>2. OwnsOnce(F) /\ Marked(F)
    BY DEF Sane
  <2> QED
    BY <1>3, <1>9, <1>12, <1>14, <2>1, <2>2, FreedAccounted
<1>16. TablesOK(G)
  BY <1>9, <1>10, <1>13 DEF TablesOK
<1>17. ASSUME NEW d \in Inodes, IsDir(F, d), d # p, NEW j \in EntriesOf(F, d)
       PROVE  EntryOf(G, d, j) = EntryOf(F, d, j)
  <2>1. FitsIn(F, d)
    BY <1>1, <1>17 DEF DirsOK, DirOK
  <2>2. F.inode[d].direct[0] \in Blocks
    BY <2>1, <1>17, EntryType
  <2>3. F.inode[d].direct[0] # b
    <3>1. 0 \in Place
      BY Sizes DEF Place
    <3>2. NamedAt(F, p, 0) = b /\ NamedAt(F, d, 0) = F.inode[d].direct[0]
      BY Sizes DEF NamedAt, b
    <3>3. Live(F, p) /\ Live(F, d)
      BY <1>17 DEF IsDir
    <3> QED
      BY <1>17, <2>2, <3>1, <3>2, <3>3, Named DEF Sane, OwnsOnce
  <2>4. CellsOf(G, F.inode[d].direct[0]) = CellsOf(F, F.inode[d].direct[0])
    <3>1. G.data[F.inode[d].direct[0]] = F.data[F.inode[d].direct[0]]
      BY <1>8, <2>2, <2>3
    <3> QED
      BY <3>1 DEF CellsOf
  <2> QED
    BY <1>10, <2>4 DEF EntryOf
<1>18. FitsIn(G, p)
  <2>1. F.inode[p].size \in 0 .. BlockSize /\ F.inode[p].size >= 1
    BY <1>1, Sizes DEF FitsIn, EntriesOf
  <2> QED
    BY <1>2, <1>8, <2>1, Sizes DEF FitsIn, b
<1>19. ASSUME NEW j \in EntriesOf(G, p)
       PROVE  EntryOf(G, p, j) = EntryOf(F, p, IF j < h THEN j ELSE j + 1)
  <2>1. j \in 0 .. BlockSize - 2 /\ j \in Int
    BY <1>8, <1>1, <1>19, Sizes DEF EntriesOf, FitsIn
  <2>2. EntryOf(G, p, j) = CellsOf(P, b)[j]
    <3>1. CellsOf(G, b) = CellsOf(P, b)
      BY <1>6, <1>8 DEF CellsOf
    <3>2. G.inode[p].direct[0] = b
      BY <1>8 DEF b
    <3> QED
      BY <3>1, <3>2 DEF EntryOf
  <2>3. CellsOf(P, b)[j] = IF j \in DOMAIN new THEN new[j] ELSE CellsOf(F, b)[j]
    BY <1>5, <2>1, Sizes DEF Poked
  <2>4. CASE j < h
    <3>1. j \notin DOMAIN new
      BY <2>1, <2>4 DEF new
    <3> QED
      BY <2>2, <2>3, <2>4, <3>1 DEF EntryOf, b
  <2>5. CASE ~ (j < h)
    <3>1. j \in DOMAIN new /\ new[j] = CellsOf(F, b)[j + 1]
      BY <1>2, <2>1, <2>5 DEF new
    <3> QED
      BY <2>2, <2>3, <2>5, <3>1 DEF EntryOf, b
  <2> QED
    BY <2>4, <2>5
<1>20. DirsOK(G)
  <2>1. ASSUME NEW d \in Inodes, IsDir(G, d)
        PROVE  IsDir(F, d) /\ d # i
    <3>1. Live(F, d) /\ d # i
      BY <1>9, <2>1 DEF IsDir
    <3>2. G.inode[d].mode = F.inode[d].mode
      BY <1>8, <3>1
    <3> QED
      BY <2>1, <3>1, <3>2 DEF IsDir, is_directory
  <2>2. ASSUME NEW d \in Inodes, IsDir(G, d), d # p
        PROVE  FitsIn(G, d) /\ G.inode[d].size = F.inode[d].size
    <3>1. G.inode[d] = F.inode[d] /\ FitsIn(F, d)
      BY <1>1, <1>8, <2>1, <2>2 DEF DirsOK, DirOK
    <3> QED
      BY <3>1 DEF FitsIn
  <2>3. ASSUME NEW d \in Inodes, IsDir(G, d), NEW j \in EntriesOf(F, d)
        PROVE  /\ EntryOf(F, d, j).ino \in Inodes
               /\ d # p => EntryOf(G, d, j) = EntryOf(F, d, j)
    <3>1. IsDir(F, d) /\ FitsIn(F, d)
      BY <1>1, <2>1, <2>3 DEF DirsOK, DirOK
    <3>2. EntryOf(F, d, j).ino \in Inodes
      BY <2>3, <3>1, EntryType DEF Cell
    <3> QED
      BY <1>17, <2>3, <3>1, <3>2
  <2>4. G.inode[p].size = F.inode[p].size - 1
    BY <1>8
  <2> QED
    BY <1>1, <1>9, <1>18, <1>19, <2>1, <2>2, <2>3, <2>4, EntryRemoved
<1>21. Live(G, Root)
  <2>1. Live(F, Root) /\ Root \in Inodes
    BY Named DEF Sane
  <2> QED
    BY <1>3, <1>9, <2>1 DEF Root
<1>22. Sane(G)
  BY <1>15, <1>16, <1>20, <1>21 DEF Sane
<1>23. ASSUME NEW k \in Inodes, Live(F, k), G.inode[k].size = F.inode[k].size
       PROVE  DataKept(F, G, k)
  <2>1. k # p
    <3>1. F.inode[p].size \in Int
      BY MountedFields, NodeFields
    <3> QED
      BY <1>8, <1>23, <3>1
  <2>2. ASSUME NEW q \in Place, NamedAt(F, k, q) \in Blocks
        PROVE  G.data[NamedAt(F, k, q)] = F.data[NamedAt(F, k, q)]
    <3>1. 0 \in Place /\ NamedAt(F, p, 0) = b /\ Live(F, p)
      BY Sizes DEF NamedAt, b, Place, IsDir
    <3>2. NamedAt(F, k, q) # b
      BY <1>23, <2>1, <2>2, <3>1, Named DEF Sane, OwnsOnce
    <3> QED
      BY <1>8, <2>2, <3>2
  <2>3. \A q \in Place : NamedAt(G, k, q) = NamedAt(F, k, q)
    BY <1>12, <1>23
  <2> QED
    BY <2>2, <2>3, AllKept
<1>24. Bystanders(F, G, {})
  BY <1>9, <1>23 DEF Bystanders
<1> QED
  BY <1>22, <1>24 DEF G

\* The entries of a block move up, wherever the block is.
LEMMA MovedType ==
  ASSUME NEW F \in Mounted, NEW b \in Numbers, NEW at \in 0 .. BlockSize - 1
  PROVE  LET M == MoveUp(F, b, at) IN M \in Mounted /\ Same(F, M)
<1> DEFINE new == [j \in at .. BlockSize - 2 |-> CellsOf(F, b)[j + 1]]
           M == MoveUp(F, b, at)
<1>1. M = Poke(F, b, new)
  BY DEF MoveUp
<1>2. CASE b = Null
  <2>1. b \notin Blocks \cup {Unassigned}
    BY <1>2, Named
  <2> HIDE DEF new, M
  <2>2. M = F
    BY <1>1, <2>1, PokeNowhere
  <2> QED
    BY <2>2 DEF Same, M
<1>3. CASE b # Null
  <2>1. b \in Blocks \cup {Unassigned}
    BY <1>3 DEF Numbers
  <2>2. CellsOf(F, b) \in [0 .. BlockSize - 1 -> Cell]
    BY <2>1, CellsType
  <2>3. ASSUME NEW j \in at .. BlockSize - 2
        PROVE  CellsOf(F, b)[j + 1] \in Cell
    <3>1. j + 1 \in 0 .. BlockSize - 1
      BY Sizes
    <3> QED
      BY <2>2, <3>1
  <2>4. \A j \in 0 .. BlockSize - 1 : j \in DOMAIN new => new[j] \in Cell
    BY <2>3
  <2> HIDE DEF new, M
  <2>5. M \in Mounted /\ Same(F, M)
    BY <1>1, <2>1, <2>4, PokeFields
  <2> QED
    BY <2>5 DEF M
<1> QED
  BY <1>2, <1>3

\* A directory shrinks by one entry.
LEMMA Shrunk ==
  ASSUME NEW P \in Mounted, NEW p \in Inodes
  PROVE  LET H == [P EXCEPT !.inode[p].size = @ - 1]
         IN H \in Mounted /\ Same(P, H) /\ Shrinks(P, H, p)
<1> DEFINE old == P.inode[p]
           size == old.size - 1
           node == [old EXCEPT !.size = size]
           H == [P EXCEPT !.inode[p] = node]
<1>1. [P EXCEPT !.inode[p].size = @ - 1] = H
  OBVIOUS
<1>2. old \in Node /\ old.size \in Int /\ old.size <= MaxFileSize /\ MaxFileSize \in Int
  BY MountedFields, NodeFields, Sizes DEF MaxFileSize
<1>3. size \in Int /\ size <= MaxFileSize
  BY <1>2
<1> HIDE DEF size
<1>4. /\ node \in Node /\ node.size = size /\ node.direct = old.direct
      /\ node.indirect = old.indirect /\ node.nlink = old.nlink /\ node.mode = old.mode
  BY <1>2, <1>3 DEF Node, Inode
<1> HIDE DEF node
<1>5. /\ H \in Mounted /\ H.inode = [P.inode EXCEPT ![p] = node] /\ H.used = P.used
      /\ H.data = P.data /\ Same(P, H)
  BY <1>4, SetNode
<1> HIDE DEF H
<1>6. H.inode[p] = node /\ \A j \in Inodes : j # p => H.inode[j] = P.inode[j]
  BY <1>5, MountedFields
<1>7. Shrinks(P, H, p)
  BY <1>4, <1>5, <1>6 DEF Shrinks, size
<1> QED
  BY <1>1, <1>5, <1>7

\* The search for the entry of an inode, and what it sees at an entry.
HitOf(F, p, table, i) ==
  First(Walk(F, F.inode[p], table, Seen(F.inode[p], table, {})), LAMBDA entry : entry.ino \in {i, Wild})
SightOf(F, p, table, j) == Walk(F, F.inode[p], table, Seen(F.inode[p], table, {}))[j]

\* In a tidy directory the search for an inode ends at its entry.
LEMMA HitTidy ==
  ASSUME NEW F \in Mounted, NEW p \in Inodes, DirOK(F, p), InOneDirectory(F, p, p),
         NEW h \in EntriesOf(F, p), NEW table
  PROVE  LET i == EntryOf(F, p, h).ino
         IN HitOf(F, p, table, i) = h + 1 /\ SightOf(F, p, table, h + 1)[1].ino = i
<1> DEFINE i == EntryOf(F, p, h).ino
           node == F.inode[p]
           n == node.size
           seen == Walk(F, node, table, n)
           hits == {j \in DOMAIN seen : seen[j] # <<>> /\ seen[j][1].ino \in {i, Wild}}
<1>1. FitsIn(F, p) /\ n \in Nat /\ node \in Node
  BY MountedFields, Sizes DEF DirOK, FitsIn
<1>2. Seen(node, table, {}) = n
  <2>1. node.size \in 0 .. BlockSize
    BY <1>1 DEF FitsIn
  <2>2. {} \in SUBSET Slots /\ 0 \notin {}
    OBVIOUS
  <2> HIDE DEF node
  <2> QED
    BY <1>1, <2>1, <2>2, SeenTidy DEF n
<1>3. seen = [j \in 1 .. n |-> << EntryOf(F, p, j - 1) >>]
  BY WalkTidy
<1>4. SightOf(F, p, table, h + 1) = seen[h + 1]
      /\ HitOf(F, p, table, i) = First(seen, LAMBDA entry : entry.ino \in {i, Wild})
  BY <1>2 DEF SightOf, HitOf
<1> HIDE DEF seen
<1>5. ASSUME NEW j \in 1 .. n
      PROVE  /\ seen[j] # <<>> /\ seen[j][1] = EntryOf(F, p, j - 1)
             /\ seen[j][1].ino # Wild /\ j - 1 \in EntriesOf(F, p)
  <2>1. j - 1 \in EntriesOf(F, p)
    BY <1>1 DEF EntriesOf
  <2>2. EntryOf(F, p, j - 1).ino \in Inodes
    BY <1>1, <2>1, EntryType DEF Cell
  <2> QED
    BY <1>3, <2>1, <2>2, Named
<1>6. h + 1 \in 1 .. n /\ (h + 1) - 1 = h /\ h + 1 # 0
  BY <1>1 DEF EntriesOf
<1>7. seen[h + 1][1].ino = i
  BY <1>5, <1>6
<1>8. hits = {h + 1}
  <2>1. DOMAIN seen = 1 .. n
    BY <1>3
  <2>2. ASSUME NEW j \in hits
        PROVE  j = h + 1
    <3>1. j \in 1 .. n /\ seen[j][1].ino = i
      BY <1>5, <2>1, <2>2
    <3>2. EntryOf(F, p, j - 1).ino = EntryOf(F, p, h).ino /\ j - 1 \in EntriesOf(F, p)
      BY <1>5, <3>1
    <3>3. j - 1 = h
      BY <3>2 DEF InOneDirectory
    <3> QED
      BY <3>1, <3>3
  <2>3. h + 1 \in hits
    BY <1>5, <1>6, <1>7, <2>1
  <2> HIDE DEF hits
  <2> QED
    BY <2>2, <2>3
<1>9. First(seen, LAMBDA entry : entry.ino \in {i, Wild}) = IF hits = {} THEN 0 ELSE Least(hits)
  BY DEF First
<1>10. Least({h + 1}) = h + 1
  <2>1. {h + 1} \in SUBSET Int /\ h + 1 \in {h + 1} /\ (\A m \in {h + 1} : h + 1 <= m)
    BY <1>6
  <2> QED
    BY <2>1, LeastIs
<1> HIDE DEF hits
<1> QED
  BY <1>4, <1>7, <1>8, <1>9, <1>10

\* A search sees what it hits.
LEMMA HitType ==
  ASSUME NEW F, NEW p, NEW table, NEW i
  PROVE  HitOf(F, p, table, i) \in Nat
<1> DEFINE n == Seen(F.inode[p], table, {})
           seen == Walk(F, F.inode[p], table, n)
           hits == {j \in DOMAIN seen : seen[j] # <<>> /\ seen[j][1].ino \in {i, Wild}}
<1>1. DOMAIN seen = 1 .. n
  BY DEF Walk
<1>2. HitOf(F, p, table, i) = IF hits = {} THEN 0 ELSE Least(hits)
  BY DEF HitOf, First
<1>3. 1 .. n \in SUBSET Nat
  OBVIOUS
<1> HIDE DEF seen, n
<1>4. hits \in SUBSET Nat
  BY <1>1, <1>3
<1> HIDE DEF hits
<1>5. hits # {} => Least(hits) \in Nat
  BY <1>4, LeastIn
<1> QED
  BY <1>2, <1>5

\* minixfs_unlink, once the inode and its directory are found.
LEMMA UnlinkInKeeps ==
  ASSUME NEW F \in Mounted, NEW p \in Inodes, NEW i \in Inodes,
         Sane(F) /\ i # Root =>
           IsDir(F, p) /\ \E h \in EntriesOf(F, p) : EntryOf(F, p, h).ino = i
  PROVE  Answered(F, Unlink(F, p, i))
<1> DEFINE table == F.inode[i].indirect
           hit == HitOf(F, p, table, i)
           j == hit - 1
           b == BlockOf(F, F.inode[p], table, j \div BlockSize)
           G == IF j < 0 THEN F ELSE MoveUp(F, b, j % BlockSize)
           H == [G EXCEPT !.inode[p].size = @ - 1]
           K == free_inode(H, i)
           V == RuinedIf(K, i = Root)
           wild == hit > 0 /\ SightOf(F, p, table, hit)[1].ino = Wild
<1>1. Unlink(F, p, i) = IF wild THEN Crash(F) ELSE Result(V, 0, 0)
  BY DEF Unlink, HitOf, SightOf
<1>2. table \in Blocks \cup {Unassigned} /\ F.inode[p] \in Node
  BY MountedFields, NodeFields
<1>3. hit \in Nat
  BY HitType
<1> HIDE DEF hit
<1>4. G \in Mounted /\ Same(F, G)
  <2>1. CASE j < 0
    BY <2>1 DEF Same
  <2>2. CASE ~ (j < 0)
    <3>1. j \in Nat
      BY <1>3, <2>2
    <3>2. j \div BlockSize \in Nat /\ j % BlockSize \in 0 .. BlockSize - 1
      BY <3>1, Position
    <3>3. b \in Numbers
      BY <1>2, <3>2, BlockOfType
    <3> HIDE DEF b, j
    <3> QED
      BY <2>2, <3>2, <3>3, MovedType
  <2> QED
    BY <2>1, <2>2
<1> HIDE DEF G
<1>5. H \in Mounted /\ Same(G, H) /\ Shrinks(G, H, p)
  BY <1>4, Shrunk
<1> HIDE DEF H
<1>6. K \in Mounted /\ Same(H, K)
  BY <1>5, FreeFields
<1> HIDE DEF K
<1>7. V \in Mounted /\ (V.status # "ruined" => V = K /\ i # Root)
  <2>1. {} \in SUBSET Inodes
    OBVIOUS
  <2>2. Ruined(K) \in Mounted /\ Ruined(K).status = "ruined"
    BY <1>6, <2>1, HistoryFields
  <2> QED
    BY <1>6, <2>2 DEF RuinedIf
<1> HIDE DEF V
<1>8. Fine(V) => Fine(F)
  BY <1>4, <1>5, <1>6, <1>7 DEF Fine, Same
<1>9. ASSUME Sane(F), Fine(V)
      PROVE  Sane(V) /\ Bystanders(F, V, {})
  <2>1. V = K /\ i # Root
    BY <1>7, <1>9 DEF Fine
  <2>2. IsDir(F, p)
    BY <1>9, <2>1
  <2>3. PICK h \in EntriesOf(F, p) : EntryOf(F, p, h).ino = i
    BY <1>9, <2>1
  <2>4. DirOK(F, p) /\ InOneDirectory(F, p, p) /\ FitsIn(F, p)
    BY <1>9, <2>2 DEF Sane, DirsOK, DirOK
  <2>5. hit = h + 1
    BY <2>3, <2>4, HitTidy DEF hit
  <2>6. h \in 0 .. BlockSize - 1
    BY <2>4, EntryType
  <2>7. j = h /\ ~ (j < 0) /\ j \div BlockSize = 0 /\ j % BlockSize = h
    BY <2>5, <2>6, InFirstBlock
  <2> HIDE DEF j
  <2>8. b = F.inode[p].direct[0]
    BY <2>7, Sizes DEF BlockOf
  <2> HIDE DEF b
  <2>9. G = EntryMoved(F, p, h)
    BY <2>7, <2>8 DEF G, EntryMoved
  <2>10. Sane(K) /\ Bystanders(F, K, {})
    BY <1>5, <1>9, <2>2, <2>3, <2>9, UnlinkSane DEF K
  <2> QED
    BY <2>1, <2>10
<1>10. Keeps(F, V) /\ Spares(F, V, {})
  BY <1>7, <1>8, <1>9 DEF Keeps, Spares
<1>11. CASE wild
  <2>1. Unlink(F, p, i) = Crash(F)
    BY <1>1, <1>11
  <2> QED
    BY <2>1, LooksKeeps
<1>12. CASE ~ wild
  <2>1. Unlink(F, p, i) = Result(V, 0, 0)
    BY <1>1, <1>12
  <2> QED
    BY <1>10, <2>1 DEF Answered, Result
<1> QED
  BY <1>11, <1>12

\* unlink
LEMMA UnlinkKeeps ==
  ASSUME NEW F \in Mounted, NEW path \in Seq(STRING)
  PROVE  Answered(F, minixfs_unlink(F, path))
<1> DEFINE R == minixfs_unlink(F, path)
           i == get_inode(F, path)
           p == parent_directory(F, path)
<1>1. /\ i \in Found /\ p \in Found
      /\ path = <<>> => i = Root
      /\ path # <<>> => i = Descend(F, p, Last(path))
      /\ Sane(F) => LiveOrNone(F, p)
  BY Lookups
<1>2. R = IF i = Wild THEN Crash(F) ELSE IF i = NoInode THEN Fail(F)
          ELSE IF p < 0 THEN Crash(F) ELSE Unlink(F, p, i)
  BY DEF minixfs_unlink, Find, At
<1> HIDE DEF R, i, p
<1>3. CASE R = Crash(F) \/ R = Fail(F)
  BY <1>3, LooksKeeps DEF R
<1>4. CASE i \notin {Wild, NoInode} /\ ~ (p < 0)
  <2>1. R = Unlink(F, p, i) /\ i \in Inodes /\ p \in Inodes
    BY <1>1, <1>2, <1>4 DEF Found, NoInode, Wild
  <2>2. ASSUME Sane(F), i # Root
        PROVE  IsDir(F, p) /\ \E h \in EntriesOf(F, p) : EntryOf(F, p, h).ino = i
    <3>1. i = Descend(F, p, Last(path)) /\ Live(F, p)
      BY <1>1, <1>4, <2>2 DEF LiveOrNone, NoInode
    <3>2. is_directory(F.inode[p]) /\ i = find_inode_named(F, p, Last(path))
      BY <1>4, <3>1 DEF Descend
    <3>3. IsDir(F, p) /\ DirOK(F, p)
      BY <2>1, <2>2, <3>1, <3>2 DEF IsDir, Sane, DirsOK
    <3> QED
      BY <1>4, <2>1, <3>2, <3>3, FindTidy
  <2> QED
    BY <2>1, <2>2, UnlinkInKeeps DEF R
<1> QED
  BY <1>1, <1>2, <1>3, <1>4
------------------------------------------------------------------------------
(* Growing.                                                                 *)

\* What a function that adds a block returns.
Adders == [fs : Mounted, block : Blocks \cup {Unassigned}]

\* A block that a file has just been given may be cleared.
LEMMA ClearKeeps ==
  ASSUME NEW F \in Mounted, NEW i \in Inodes, NEW A \in Adders, StepOn(F, A.fs, i),
         A.block # Unassigned, NEW q \in Place, q # NumDirect, NamedAt(A.fs, i, q) = A.block,
         NamedAt(F, i, q) = Unassigned
  PROVE  LET C == Cleared(A)
         IN C \in Adders /\ StepOn(F, C.fs, i) /\ C.fs.inode = A.fs.inode
<1> DEFINE E == A.fs
           b == A.block
           G == [E EXCEPT !.data[b] = ZeroBlock]
           C == Cleared(A)
<1>1. E \in Mounted /\ b \in Blocks
  BY DEF Adders
<1>2. C = [A EXCEPT !.fs.data[b] = ZeroBlock]
  BY DEF Cleared
<1>3. C.fs = G /\ C.block = b /\ C = [fs |-> G, block |-> b]
  BY <1>2 DEF Adders
<1>4. ZeroBlock \in Content
  <2>1. Zero \in Cell
    BY Named DEF Zero, Entry, Cell, Name, Root
  <2> QED
    BY <2>1 DEF ZeroBlock, Cells, Content
<1>5. /\ G \in Mounted /\ G.inode = E.inode /\ G.used = E.used
      /\ G.data = [E.data EXCEPT ![b] = ZeroBlock] /\ Same(E, G)
  <2> HIDE DEF E, b, G
  <2>1. b \in Blocks \cup {Unassigned}
    BY <1>1
  <2> QED
    BY <1>1, <1>4, <2>1, SetData DEF G
<1> HIDE DEF G, C
<1>6. \A c \in Blocks \cup {Unassigned} : c # b => G.data[c] = E.data[c]
  BY <1>1, <1>5, MountedFields
<1>7. ASSUME Sane(F), Live(F, i)
      PROVE  Sane(G) /\ Undisturbed(F, G, Inodes)
  <2>1. Sane(E) /\ Live(E, i) /\ E.inode[i].size = F.inode[i].size /\ E.inode[i].mode = F.inode[i].mode
    BY <1>7 DEF StepOn
  <2>2. HoldsData(E, i, b)
    <3> HIDE DEF E, b
    <3> QED
      BY <1>1, <2>1, NamedHoldsData DEF E, b
  <2>3. ASSUME IsDir(E, i), E.inode[i].size > 0
        PROVE  E.inode[i].direct[0] # b
    <3>1. IsDir(F, i) /\ F.inode[i].size > 0
      BY <1>7, <2>1, <2>3 DEF IsDir, is_directory
    <3>2. F.inode[i].direct[0] \in Blocks
      BY <1>7, <3>1 DEF Sane, DirsOK, DirOK, FitsIn
    <3>3. q # 0
      <4>1. NamedAt(F, i, 0) = F.inode[i].direct[0]
        BY Sizes DEF NamedAt
      <4> QED
        BY <3>2, <4>1, Named
    <3>4. 0 \in Place /\ NamedAt(E, i, 0) = E.inode[i].direct[0]
      BY Sizes DEF Place, NamedAt
    <3>5. b # Unassigned /\ NamedAt(E, i, q) = b
      OBVIOUS
    <3> HIDE DEF E, b
    <3> QED
      BY <2>1, <3>3, <3>4, <3>5 DEF Sane, OwnsOnce
  <2>4. \A d \in Inodes : IsDir(E, d) /\ E.inode[d].size > 0 => E.inode[d].direct[0] # b
    BY <2>2, <2>3 DEF HoldsData
  <2>5. \A j \in Inodes : Live(E, j) /\ E.inode[j].indirect # Unassigned => E.inode[j].indirect # b
    BY <2>2 DEF HoldsData
  <2>6. \A j \in Inodes : Live(F, j) => Live(E, j) /\ DataKept(F, E, j)
    BY <1>7 DEF StepOn, Undisturbed
  <2>7. NamedAt(E, i, q) = b /\ b # Unassigned
    OBVIOUS
  <2> HIDE DEF E, b
  <2>8. ASSUME NEW j \in Inodes, Live(F, j)
        PROVE  DataKept(F, G, j)
    <3>1. E.inode[j].indirect # Unassigned => E.inode[j].indirect # b
      BY <2>5, <2>6, <2>8
    <3>2. /\ \A p \in Place : NamedAt(G, j, p) = NamedAt(E, j, p)
          /\ \A p \in Place : NamedAt(E, j, p) \in Blocks /\ NamedAt(E, j, p) # b =>
               CellsOf(G, NamedAt(E, j, p)) = CellsOf(E, NamedAt(E, j, p))
      <4>1. E \in Mounted /\ G.inode = E.inode
        BY <1>1, <1>5
      <4> QED
        BY <1>6, <3>1, <4>1, DataLeft
    <3>3. ASSUME NEW p \in DataPlace, NamedAt(F, j, p) \in Blocks
          PROVE  /\ NamedAt(G, j, p) = NamedAt(F, j, p)
                 /\ CellsOf(G, NamedAt(F, j, p)) = CellsOf(F, NamedAt(F, j, p))
      <4>1. NamedAt(E, j, p) = NamedAt(F, j, p) /\ p \in Place
            /\ CellsOf(E, NamedAt(F, j, p)) = CellsOf(F, NamedAt(F, j, p))
        BY <2>6, <2>8, <3>3 DEF DataKept, DataPlace
      <4>2. NamedAt(E, j, p) # b
        <5>1. Live(E, j) /\ OwnsOnce(E)
          BY <2>1, <2>6, <2>8 DEF Sane
        <5>2. ASSUME NamedAt(E, j, p) = b
              PROVE  j = i /\ p = q
          BY <2>1, <2>7, <4>1, <5>1, <5>2 DEF OwnsOnce
        <5> QED
          BY <3>3, <4>1, <5>2, Named
      <4> QED
        BY <3>2, <3>3, <4>1, <4>2
    <3> QED
      BY <3>3 DEF DataKept
  <2>9. Undisturbed(F, G, Inodes)
    <3>1. Undisturbed(F, E, Inodes)
      BY <1>7 DEF StepOn, E
    <3>2. ASSUME NEW j \in Inodes
          PROVE  /\ Live(G, j) <=> Live(F, j)
                 /\ Live(F, j) => /\ G.inode[j].mode = F.inode[j].mode
                                  /\ G.inode[j].size = F.inode[j].size
                                  /\ DataKept(F, G, j)
      <4>1. Live(G, j) <=> Live(E, j)
        BY <1>5 DEF Live
      <4> QED
        BY <1>5, <2>8, <3>1, <4>1 DEF Undisturbed
    <3> QED
      BY <3>2 DEF Undisturbed
  <2> QED
    BY <1>1, <1>5, <1>6, <2>1, <2>4, <2>5, <2>9, DataSane
<1>8. StepOn(F, G, i)
  <2> HIDE DEF b
  <2>1. Same(F, G)
    BY <1>5 DEF StepOn, Same
  <2>2. G.inode[i].mode = F.inode[i].mode /\ G.inode[i].size = F.inode[i].size
    BY <1>5 DEF StepOn
  <2>3. Live(F, i) => Live(G, i)
    BY <1>5 DEF StepOn, Live
  <2> QED
    BY <1>5, <1>7, <2>1, <2>2, <2>3 DEF StepOn
<1> QED
  BY <1>1, <1>3, <1>5, <1>8 DEF C, Adders

\* A turn of the loop over the direct numbers.
LEMMA GrowDirectStep ==
  ASSUME NEW i \in Inodes, NEW A \in Adders, NEW k \in Slots
  PROVE  LET C == GrowDirect(A, i, k) IN C \in Adders /\ StepOn(A.fs, C.fs, i)
<1> DEFINE F == A.fs
           B == add_data_block_to_inode(F, i)
           C == GrowDirect(A, i, k)
<1>1. F \in Mounted
  BY DEF Adders
<1>2. CASE A.block = Unassigned \/ F.inode[i].direct[k] # Unassigned
  <2>1. C = A
    BY <1>2 DEF GrowDirect
  <2> HIDE DEF F
  <2>2. StepOn(F, F, i)
    BY <1>1, StepStill
  <2> QED
    BY <2>1, <2>2 DEF F
<1>3. CASE ~ (A.block = Unassigned \/ F.inode[i].direct[k] # Unassigned)
  <2>1. C = Cleared(B)
    BY <1>3 DEF GrowDirect
  <2> HIDE DEF C
  <2>2. F.inode[i].direct[k] = Unassigned
    BY <1>3
  <2> HIDE DEF F
  <2>3. /\ StepOn(F, B.fs, i) /\ B.block \in Blocks \cup {Unassigned}
        /\ (\E n \in Slots : F.inode[i].direct[n] = Unassigned) /\ B.block # Unassigned =>
             \E n \in Slots : F.inode[i].direct[n] = Unassigned /\ B.fs.inode[i].direct[n] = B.block
    BY <1>1, AddDirect
  <2>4. B \in Adders
    <3>1. B = [fs |-> B.fs, block |-> B.block]
      BY DEF add_data_block_to_inode, Added
    <3> HIDE DEF B
    <3> QED
      BY <2>3, <3>1 DEF Adders, StepOn
  <2> HIDE DEF B
  <2>5. CASE B.block = Unassigned
    <3>1. C = B
      BY <2>1, <2>5 DEF Cleared
    <3> QED
      BY <2>3, <2>4, <3>1 DEF C, F
  <2>6. CASE B.block # Unassigned
    <3>1. PICK n \in Slots : F.inode[i].direct[n] = Unassigned /\ B.fs.inode[i].direct[n] = B.block
      BY <2>2, <2>3, <2>6
    <3>2. n \in Place /\ n # NumDirect /\ NamedAt(B.fs, i, n) = B.block
      BY <3>1, Sizes DEF Slots, Place, NamedAt
    <3>3. NamedAt(F, i, n) = Unassigned
      BY <3>1, Sizes DEF Slots, NamedAt
    <3>4. Cleared(B) \in Adders /\ StepOn(F, Cleared(B).fs, i)
      BY <1>1, <2>3, <2>4, <2>6, <3>2, <3>3, ClearKeeps
    <3> QED
      BY <2>1, <3>4 DEF C, F
  <2> QED
    BY <2>5, <2>6
<1> QED
  BY <1>2, <1>3

\* And of the one over the numbers of the table.
LEMMA GrowTableStep ==
  ASSUME NEW i \in Inodes, NEW A \in Adders, NEW t \in Blocks, A.fs.inode[i].indirect = t, NEW m \in Slots
  PROVE  LET C == GrowTable(A, t, m)
         IN C \in Adders /\ StepOn(A.fs, C.fs, i) /\ C.fs.inode[i].indirect = t
<1> DEFINE F == A.fs
           B == add_data_block_to_indirect_block(F, t)
           C == GrowTable(A, t, m)
<1>1. F \in Mounted /\ F.inode[i].indirect = t
  BY DEF Adders
<1>2. CASE A.block = Unassigned \/ Number(F, t, m) # Unassigned
  <2>1. C = A
    BY <1>2 DEF GrowTable
  <2> HIDE DEF F
  <2>2. StepOn(F, F, i)
    BY <1>1, StepStill
  <2> QED
    BY <2>1, <2>2 DEF F
<1>3. CASE ~ (A.block = Unassigned \/ Number(F, t, m) # Unassigned)
  <2>1. C = Cleared(B)
    BY <1>3 DEF GrowTable
  <2> HIDE DEF C
  <2>2. Number(F, t, m) = Unassigned
    BY <1>3
  <2> HIDE DEF F
  <2>3. /\ StepOn(F, B.fs, i) /\ B.block \in Blocks \cup {Unassigned}
        /\ B.fs.inode = F.inode
        /\ B.block # Unassigned =>
             \E n \in Slots : Number(F, t, n) = Unassigned /\ Number(B.fs, t, n) = B.block
    BY <1>1, <2>2, AddToTable
  <2>4. B \in Adders
    <3>1. B = [fs |-> B.fs, block |-> B.block]
      BY DEF add_data_block_to_indirect_block, Added
    <3> HIDE DEF B
    <3> QED
      BY <2>3, <3>1 DEF Adders, StepOn
  <2> HIDE DEF B
  <2>5. CASE B.block = Unassigned
    <3>1. C = B
      BY <2>1, <2>5 DEF Cleared
    <3> QED
      BY <1>1, <2>3, <2>4, <3>1 DEF C, F
  <2>6. CASE B.block # Unassigned
    <3>1. PICK n \in Slots : Number(F, t, n) = Unassigned /\ Number(B.fs, t, n) = B.block
      BY <2>3, <2>6
    <3> DEFINE q == NumDirect + 1 + n
    <3>2. q \in Place /\ q # NumDirect /\ ~ (q < NumDirect) /\ q - NumDirect - 1 = n /\ q # 0
      BY Sizes DEF Slots, Place
    <3> HIDE DEF q
    <3>3. NamedAt(B.fs, i, q) = B.block /\ NamedAt(F, i, q) = Unassigned
      <4>1. F.inode[i].indirect = t /\ B.fs.inode[i].indirect = t /\ t # Unassigned
        BY <1>1, <2>3, Named
      <4> QED
        BY <3>1, <3>2, <4>1 DEF NamedAt
    <3>4. Cleared(B) \in Adders /\ StepOn(F, Cleared(B).fs, i) /\ Cleared(B).fs.inode = B.fs.inode
      BY <1>1, <2>3, <2>4, <2>6, <3>2, <3>3, ClearKeeps
    <3> QED
      BY <1>1, <2>1, <2>3, <3>4 DEF C, F
  <2> QED
    BY <2>5, <2>6
<1> QED
  BY <1>2, <1>3

\* The first blocks of an inode are there or are added.
LEMMA DirectLoopKeeps ==
  ASSUME NEW F \in Mounted, NEW i \in Inodes, NEW N \in Nat, N <= NumDirect
  PROVE  LET D == DirectLoop(F, i, N) IN D \in Adders /\ StepOn(F, D.fs, i)
<1> DEFINE S == {A \in Adders : StepOn(F, A.fs, i)}
           x == Added(F, 0)
           step == [a \in (1 .. N) \X S |-> GrowDirect(a[2], i, a[1] - 1)]
           Follows(turn) == turn = [n \in 0 .. N |-> IF n = 0 THEN x
                                                     ELSE GrowDirect(turn[n - 1], i, n - 1)]
<1>2. x \in S
  <2>1. x.fs = F /\ x \in Adders
    BY Named DEF Added, Adders
  <2>2. StepOn(F, F, i)
    BY StepStill
  <2> HIDE DEF x
  <2> QED
    BY <2>1, <2>2
<1>3. ASSUME NEW W \in S, NEW n \in 1 .. N
      PROVE  GrowDirect(W, i, n - 1) \in S
  <2> DEFINE C == GrowDirect(W, i, n - 1)
  <2>1. n - 1 \in Slots
    BY <1>3, Sizes DEF Slots
  <2>2. C \in Adders /\ StepOn(W.fs, C.fs, i)
    BY <1>3, <2>1, GrowDirectStep
  <2> HIDE DEF C
  <2>3. StepOn(F, C.fs, i)
    BY <1>3, <2>2, StepTwice
  <2> QED
    BY <2>2, <2>3 DEF C
<1> HIDE DEF S, x
<1>4. step \in [(1 .. N) \X S -> S]
  BY <1>3
<1>5. PICK g \in [0 .. N -> S] : g[0] = x /\ \A n \in 1 .. N : g[n] = step[<<n, g[n - 1]>>]
  <2> HIDE DEF step
  <2>1. Turned(N, S, x, step)
    BY <1>2, <1>4, Recursion
  <2> QED
    BY <2>1 DEF Turned
<1>6. ASSUME NEW n \in 1 .. N
      PROVE  g[n] = GrowDirect(g[n - 1], i, n - 1)
  <2>1. n - 1 \in 0 .. N
    OBVIOUS
  <2>2. g[n - 1] \in S
    BY <2>1
  <2> QED
    BY <1>5, <2>2
<1>7. Follows(g)
  <2> DEFINE h == [n \in 0 .. N |-> IF n = 0 THEN x ELSE GrowDirect(g[n - 1], i, n - 1)]
  <2>1. ASSUME NEW n \in 0 .. N
        PROVE  g[n] = h[n]
    <3>1. n = 0 \/ n \in 1 .. N
      OBVIOUS
    <3> QED
      BY <1>5, <1>6, <3>1
  <2>2. h = [n \in 0 .. N |-> h[n]] /\ g = [n \in 0 .. N |-> g[n]]
    OBVIOUS
  <2>3. g = h
    <3> HIDE DEF h
    <3> QED
      BY <2>1, <2>2
  <2> QED
    BY <2>3
<1> DEFINE T == CHOOSE turn : Follows(turn)
<1>8. DirectLoop(F, i, N) = T[N]
  BY DEF DirectLoop, x
<1>9. Follows(T)
  <2> HIDE DEF Follows
  <2> QED
    BY <1>7
<1>10. T[0] = x /\ \A n \in 1 .. N : T[n] = GrowDirect(T[n - 1], i, n - 1)
  <2>1. T = [n \in 0 .. N |-> IF n = 0 THEN x ELSE GrowDirect(T[n - 1], i, n - 1)]
    BY <1>9
  <2> HIDE DEF T
  <2> QED
    BY <2>1
<1> HIDE DEF T
<1> DEFINE Good == {n \in 0 .. N : T[n] \in S}
<1>11. \A n \in 0 .. N : n \in Good
  <2>1. 0 \in Good
    BY <1>2, <1>10
  <2>2. ASSUME NEW n \in 1 .. N, n - 1 \in Good
        PROVE  n \in Good
    BY <1>3, <1>10, <2>2
  <2> HIDE DEF Good
  <2> QED
    BY <2>1, <2>2, AllTurns
<1>12. T[N] \in S
  BY <1>11
<1> QED
  BY <1>8, <1>12 DEF S

\* So are those that its table names.
LEMMA TableLoopKeeps ==
  ASSUME NEW F \in Mounted, NEW i \in Inodes, NEW N \in Nat, N <= NumDirect,
         NEW t \in Blocks, F.inode[i].indirect = t
  PROVE  LET D == TableLoop(F, t, N) IN D \in Adders /\ StepOn(F, D.fs, i)
<1> DEFINE S == {A \in Adders : StepOn(F, A.fs, i) /\ A.fs.inode[i].indirect = t}
           x == Added(F, t)
           step == [a \in (1 .. N) \X S |-> GrowTable(a[2], t, a[1] - 1)]
           Follows(turn) == turn = [n \in 0 .. N |-> IF n = 0 THEN x
                                                     ELSE GrowTable(turn[n - 1], t, n - 1)]
<1>2. x \in S
  <2>1. x.fs = F /\ x \in Adders
    BY Named DEF Added, Adders
  <2>2. StepOn(F, F, i)
    BY StepStill
  <2> HIDE DEF x
  <2> QED
    BY <2>1, <2>2
<1>3. ASSUME NEW W \in S, NEW n \in 1 .. N
      PROVE  GrowTable(W, t, n - 1) \in S
  <2> DEFINE C == GrowTable(W, t, n - 1)
  <2>1. n - 1 \in Slots
    BY <1>3, Sizes DEF Slots
  <2>2. C \in Adders /\ StepOn(W.fs, C.fs, i) /\ C.fs.inode[i].indirect = t
    BY <1>3, <2>1, GrowTableStep
  <2> HIDE DEF C
  <2>3. StepOn(F, C.fs, i)
    BY <1>3, <2>2, StepTwice
  <2> QED
    BY <2>2, <2>3 DEF C
<1> HIDE DEF S, x
<1>4. step \in [(1 .. N) \X S -> S]
  BY <1>3
<1>5. PICK g \in [0 .. N -> S] : g[0] = x /\ \A n \in 1 .. N : g[n] = step[<<n, g[n - 1]>>]
  <2> HIDE DEF step
  <2>1. Turned(N, S, x, step)
    BY <1>2, <1>4, Recursion
  <2> QED
    BY <2>1 DEF Turned
<1>6. ASSUME NEW n \in 1 .. N
      PROVE  g[n] = GrowTable(g[n - 1], t, n - 1)
  <2>1. n - 1 \in 0 .. N
    OBVIOUS
  <2>2. g[n - 1] \in S
    BY <2>1
  <2> QED
    BY <1>5, <2>2
<1>7. Follows(g)
  <2> DEFINE h == [n \in 0 .. N |-> IF n = 0 THEN x ELSE GrowTable(g[n - 1], t, n - 1)]
  <2>1. ASSUME NEW n \in 0 .. N
        PROVE  g[n] = h[n]
    <3>1. n = 0 \/ n \in 1 .. N
      OBVIOUS
    <3> QED
      BY <1>5, <1>6, <3>1
  <2>2. h = [n \in 0 .. N |-> h[n]] /\ g = [n \in 0 .. N |-> g[n]]
    OBVIOUS
  <2>3. g = h
    <3> HIDE DEF h
    <3> QED
      BY <2>1, <2>2
  <2> QED
    BY <2>3
<1> DEFINE T == CHOOSE turn : Follows(turn)
<1>8. TableLoop(F, t, N) = T[N]
  BY DEF TableLoop, x
<1>9. Follows(T)
  <2> HIDE DEF Follows
  <2> QED
    BY <1>7
<1>10. T[0] = x /\ \A n \in 1 .. N : T[n] = GrowTable(T[n - 1], t, n - 1)
  <2>1. T = [n \in 0 .. N |-> IF n = 0 THEN x ELSE GrowTable(T[n - 1], t, n - 1)]
    BY <1>9
  <2> HIDE DEF T
  <2> QED
    BY <2>1
<1> HIDE DEF T
<1> DEFINE Good == {n \in 0 .. N : T[n] \in S}
<1>11. \A n \in 0 .. N : n \in Good
  <2>1. 0 \in Good
    BY <1>2, <1>10
  <2>2. ASSUME NEW n \in 1 .. N, n - 1 \in Good
        PROVE  n \in Good
    BY <1>3, <1>10, <2>2
  <2> HIDE DEF Good
  <2> QED
    BY <2>1, <2>2, AllTurns
<1>12. T[N] \in S
  BY <1>11
<1> QED
  BY <1>8, <1>12 DEF S

\* minixfs_min_blockcount, once the inode is found, for as many blocks as a file
\* has a use for.
LEMMA GrowKeeps ==
  ASSUME NEW F \in Mounted, NEW i \in Inodes, NEW count \in 0 .. 2 * NumDirect
  PROVE  LET A == Grow(F, i, count) IN A \in Adders /\ StepOn(F, A.fs, i)
<1> DEFINE n == IF count < NumDirect THEN count ELSE NumDirect
           D == DirectLoop(F, i, n)
           S == add_single_indirect_block(D.fs, i)
           L == TableLoop(S.fs, S.block, count - NumDirect)
           A == Grow(F, i, count)
<1>1. A = IF D.block = Unassigned \/ count < NumDirect THEN D
          ELSE IF S.block = Unassigned THEN S ELSE L
  BY DEF Grow
<1>2. n \in Nat /\ n <= NumDirect
  BY Sizes
<1> HIDE DEF n, A
<1>3. D \in Adders /\ StepOn(F, D.fs, i)
  BY <1>2, DirectLoopKeeps
<1> HIDE DEF D
<1>4. D.fs \in Mounted
  BY <1>3 DEF Adders
<1>5. /\ StepOn(D.fs, S.fs, i) /\ S.block \in Blocks \cup {Unassigned}
      /\ S.block # Unassigned => S.fs.inode[i].indirect = S.block
  BY <1>4, AddTable
<1>6. S \in Adders
  <2>1. S = [fs |-> S.fs, block |-> S.block]
    BY DEF add_single_indirect_block, Added
  <2> HIDE DEF S
  <2> QED
    BY <1>5, <2>1 DEF Adders, StepOn
<1> HIDE DEF S
<1>7. StepOn(F, S.fs, i)
  BY <1>3, <1>5, StepTwice
<1>8. CASE A = D \/ A = S
  BY <1>3, <1>6, <1>7, <1>8 DEF A
<1>9. CASE A = L /\ ~ (count < NumDirect) /\ S.block # Unassigned
  <2>1. count - NumDirect \in Nat /\ count - NumDirect <= NumDirect
    BY <1>9, Sizes
  <2>2. S.fs \in Mounted /\ S.block \in Blocks
    BY <1>5, <1>6, <1>9 DEF Adders
  <2>3. L \in Adders /\ StepOn(S.fs, L.fs, i)
    BY <1>5, <1>9, <2>1, <2>2, TableLoopKeeps
  <2> HIDE DEF L
  <2>4. StepOn(F, L.fs, i)
    BY <1>7, <2>3, StepTwice
  <2> QED
    BY <1>9, <2>3, <2>4 DEF A
<1> QED
  BY <1>1, <1>8, <1>9

\* So does the whole call.
LEMMA MinBlocksKeeps ==
  ASSUME NEW F \in Mounted, NEW i \in Inodes, Sane(F) => Live(F, i), NEW count \in 0 .. 2 * NumDirect
  PROVE  LET R == MinBlocks(F, i, count)
         IN /\ Answered(F, R) /\ Grows(F, R.fs, {}) /\ Same(F, R.fs)
            /\ R.fs.inode[i].mode = F.inode[i].mode /\ R.fs.inode[i].size = F.inode[i].size
<1> DEFINE A == Grow(F, i, count)
           R == MinBlocks(F, i, count)
<1>1. A \in Adders /\ StepOn(F, A.fs, i)
  BY GrowKeeps
<1>2. R.fs = A.fs /\ R.ret \in Int /\ R.off = 0
  BY DEF MinBlocks, Result
<1> HIDE DEF A, R
<1>3. Keeps(F, A.fs)
  BY <1>1 DEF StepOn, Keeps, Same, Fine
<1>4. ASSUME Sane(F)
      PROVE  Enlarged(F, A.fs, {})
  <2>1. Inodes \ {} = Inodes
    OBVIOUS
  <2>2. Undisturbed(F, A.fs, Inodes \ {})
    BY <1>1, <1>4, <2>1 DEF StepOn
  <2>3. \A d \in Inodes : d \in {} => ~ IsDir(F, d)
    OBVIOUS
  <2> QED
    BY <1>4, <2>2, <2>3, UndisturbedGrown
<1>5. Grows(F, A.fs, {}) /\ Spares(F, A.fs, {})
  BY <1>4, GrownSpares DEF Grows
<1> QED
  BY <1>1, <1>2, <1>3, <1>5 DEF Answered, StepOn, R

\* minixfs_min_blockcount
LEMMA MinBlockcountKeeps ==
  ASSUME NEW F \in Mounted, NEW path \in Seq(STRING), NEW count \in 0 .. 2 * NumDirect
  PROVE  Answered(F, minixfs_min_blockcount(F, path, count))
<1> DEFINE R == minixfs_min_blockcount(F, path, count)
           i == get_inode(F, path)
           made == minixfs_create_inode_for_path(F, path)
<1>1. i \in Found /\ (Sane(F) => LiveOrNone(F, i))
  BY Lookups
<1>2. Created(F, made)
  BY CreateKeeps
<1>3. R = IF i = Wild THEN Crash(F)
          ELSE IF i = NoInode
               THEN IF made.ret = -1 THEN made ELSE MinBlocks(made.fs, made.ret, count)
               ELSE MinBlocks(F, i, count)
  BY DEF minixfs_min_blockcount, Find, At
<1> HIDE DEF R, i, made
<1>4. CASE R = Crash(F)
  BY <1>4, LooksKeeps DEF R
<1>5. CASE R = made /\ made.ret = -1
  BY <1>2, <1>5, GrownSpares DEF Created, Answered, R
<1>6. CASE R = MinBlocks(made.fs, made.ret, count) /\ made.ret # -1
  <2>1. /\ made.fs \in Mounted /\ made.ret \in Inodes /\ Live(made.fs, made.ret) /\ Keeps(F, made.fs)
        /\ Grows(F, made.fs, {})
    BY <1>2, <1>6 DEF Created, Keeps
  <2>2. Answered(made.fs, R) /\ Grows(made.fs, R.fs, {})
    BY <1>6, <2>1, MinBlocksKeeps
  <2>3. Keeps(F, R.fs)
    BY <2>1, <2>2, KeepsTwice DEF Answered
  <2>4. Grows(F, R.fs, {} \cup {})
    BY <2>1, <2>2, GrowsTwice DEF Answered
  <2>5. {} \cup {} = {}
    OBVIOUS
  <2>6. Spares(F, R.fs, {})
    BY <2>4, <2>5, GrownSpares
  <2> QED
    BY <2>2, <2>3, <2>6 DEF Answered, R
<1>7. CASE R = MinBlocks(F, i, count) /\ i \notin {Wild, NoInode}
  <2>1. i \in Inodes /\ (Sane(F) => Live(F, i))
    BY <1>1, <1>7, Named DEF Found, LiveOrNone
  <2> QED
    BY <1>7, <2>1, MinBlocksKeeps DEF R
<1> QED
  BY <1>3, <1>4, <1>5, <1>6, <1>7
=============================================================================
