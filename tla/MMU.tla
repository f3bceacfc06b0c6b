--------------------------------- MODULE MMU ---------------------------------
(***************************************************************************)
(* The memory management unit of ideal_indirection: mmu.c (translation,    *)
(* processes), tlb.c (an LRU list), kernel.c (physical frames and swap     *)
(* files) and segments.c (which addresses a process may touch).            *)
(*                                                                         *)
(* The simulator is sequential, so every call of the API is one action.    *)
(* Page directories and page tables live in physical frames, and an entry  *)
(* of a table is known to the kernel, to the TLB and to the swap directory *)
(* by its address: here <<frame of the table, index>>.  An access covers a *)
(* whole page (offset 0, PAGE_SIZE bytes), so a page holds one value,      *)
(* tagged with the process that stored it.  Flags nobody reads (accessed,  *)
(* read_write, user_supervisor) are left out; dirty is kept.               *)
(***************************************************************************)
EXTENDS Integers, Sequences

CONSTANTS Process,      \* pids
          Page,         \* the virtual page numbers callers touch
          Value,        \* what callers store
          NumFrames,    \* NUM_PHYSICAL_PAGES
          NumEntries,   \* NUM_ENTRIES of a page directory or a page table
          MaxNodes,     \* MAX_NODES of the TLB
          Resizable,    \* indices of segments that callers grow and shrink
          MaxShrink,    \* bound: pages a segment is smaller than at first
          NULL, RESERVED, Zero, NoFile, SEGV

Frame == 0 .. NumFrames - 1
DirIndex(a) == a \div NumEntries
TableIndex(a) == a % NumEntries

\* The entries of a directory or table that a call can reach: those of the
\* pages touched, and the ones mmu_add_process fills.  No other is ever set.
Index == {0, 1, 2} \cup {DirIndex(a) : a \in Page} \cup {TableIndex(a) : a \in Page}
PTE == Frame \X Index
Content == {Zero} \cup (Process \X Value)

ASSUME SizeAssumption ==
  /\ NumFrames \in Nat \ {0}
  /\ NumEntries \in Nat \ {0, 1, 2}     \* mmu_add_process fills entries 1 and 2
  /\ MaxNodes \in Nat \ {0, 1}
  /\ Page \subseteq 1 .. (NumEntries * NumEntries - 1)
ASSUME NullAssumption ==
  /\ NULL # RESERVED
  /\ \A f \in Frame : NULL # f
  /\ \A p \in PTE : p # NULL /\ p # RESERVED
  /\ \A c \in Content : c # NoFile
  /\ NULL \notin [Page -> Content]

VARIABLES
  entry_mapping,     \* kernel.c: the PTE a frame belongs to, RESERVED or NULL
  entries,           \* a frame read as a page directory or page table
  data,              \* a frame read as a page of a process
  swap,              \* the files of swap_files/, by name
  page_directories,  \* mmu.page_directories: a frame or NULL
  segmentations,     \* mmu.segmentations: seven segments, or none
  tlb,               \* mmu.tlb, the most recently used node first
  curr_pid,          \* mmu.curr_pid
  last,              \* the reply to the last call
  crashed            \* a frame address 0 was used as if it were a frame

kernelVars == <<entry_mapping, entries, data, swap>>
mmuVars == <<page_directories, segmentations, tlb, curr_pid>>
vars == <<kernelVars, mmuVars, last, crashed>>

Least(S) == CHOOSE i \in S : \A j \in S : i <= j

------------------------------------------------------------------------------
(* kernel.c.  K is the kernel as one record, so that the calls a handler    *)
(* makes can be chained in the order the code makes them.                   *)

NoEntry == [present |-> FALSE, base |-> NULL, dirty |-> FALSE]
EmptyFrame == [i \in Index |-> NoEntry]

\* sprintf of write_page_to_disk and read_page_from_disk, and of
\* remove_swap_file, which leaves the extension out.
SwapName(pte) == <<pte, ".bin">>
RemovedName(pte) == <<pte, "">>
FileName == PTE \X {".bin", ""}

K == [map |-> entry_mapping, entry |-> entries, data |-> data, swap |-> swap,
      dead |-> FALSE]

SetKernel(k) == /\ entry_mapping' = k.map
                /\ entries' = k.entry
                /\ data' = k.data
                /\ swap' = k.swap
                /\ UNCHANGED crashed

Free(k) == {f \in Frame : k.map[f] = NULL}
\* Mutation: the eviction loop stops half way.
Evictable_HalfLoop(k, e) ==
  {f \in 0 .. NumFrames \div 2 - 1 : k.map[f] \notin {NULL, RESERVED, e}}
Evictable(k, e) == {f \in Frame : k.map[f] \notin {NULL, RESERVED, e}}

\* Mutation: a frame for a table is not marked RESERVED.
Give_NotReserved(k, f, e) == [k EXCEPT !.map[f] = e,
                                       !.entry[f] = EmptyFrame,
                                       !.data[f] = Zero]
\* A free frame is handed out zeroed.
Give(k, f, e) == [k EXCEPT !.map[f] = IF e = NULL THEN RESERVED ELSE e,
                           !.entry[f] = EmptyFrame,
                           !.data[f] = Zero]

\* Mutation: the entry of the evicted page stays present.
Evict_StillPresent(k, f) ==
  LET pte == k.map[f]
  IN [k EXCEPT !.swap[SwapName(pte)] = k.data[k.entry[pte[1]][pte[2]].base],
               !.map[f] = NULL]
\* Mutation: the page is dropped without being written to disk.
Evict_NotWritten(k, f) ==
  LET pte == k.map[f]
  IN [k EXCEPT !.entry[pte[1]][pte[2]] = [@ EXCEPT !.present = FALSE, !.base = NULL],
               !.map[f] = NULL]

\* write_page_to_disk, then the frame is taken from its page table entry.
Evict(k, f) ==
  LET g == k.map[f][1]
      i == k.map[f][2]
      gone == [k.entry[g][i] EXCEPT !.present = FALSE, !.base = NULL]
  IN [k EXCEPT !.swap = [k.swap EXCEPT ![SwapName(<<g, i>>)] = k.data[k.entry[g][i].base]],
               !.entry = [k.entry EXCEPT ![g][i] = gone],
               !.map = [k.map EXCEPT ![f] = NULL]]

\* ask_kernel_for_frame: the first free frame, else the first evictable one
\* (the recursive call then finds it free), else 0.
Ask(k, e) ==
  IF Free(k) # {}
  THEN LET f == Least(Free(k)) IN [k |-> Give(k, f, e), frame |-> f]
  ELSE IF Evictable(k, e) # {}
       THEN LET f == Least(Evictable(k, e))
            IN [k |-> Give(Evict(k, f), f, e), frame |-> f]
       ELSE [k |-> k, frame |-> NULL]

\* The callers use what they got without a check: 0 is a wild pointer, and
\* the program ends there.
Dead(k) == [k EXCEPT !.dead = TRUE]
Crash == /\ crashed' = TRUE
         /\ UNCHANGED <<kernelVars, mmuVars, last>>

\* A present entry i of the directory or table in frame f, pointing to a
\* frame of its own.
Link(k, f, i, frame) ==
  LET linked == [k.entry[f][i] EXCEPT !.present = TRUE, !.base = frame]
  IN [k EXCEPT !.entry = [k.entry EXCEPT ![f][i] = linked]]

\* A new page table for entry i of the directory in frame d.
NewTable(k, d, i) ==
  LET r == Ask(k, NULL)
  IN IF k.dead \/ r.frame = NULL THEN Dead(k) ELSE Link(r.k, d, i, r.frame)

\* A frame for the page of page table entry pte.
NewPage(k, pte) ==
  LET r == Ask(k, pte)
  IN IF k.dead \/ r.frame = NULL
     THEN Dead(k) ELSE Link(r.k, pte[1], pte[2], r.frame)

\* read_page_from_disk: a missing file leaves the (zeroed) frame alone.
ReadFromDisk(k, pte) ==
  IF k.dead \/ k.swap[SwapName(pte)] = NoFile THEN k
  ELSE [k EXCEPT !.data[k.entry[pte[1]][pte[2]].base] = k.swap[SwapName(pte)]]

------------------------------------------------------------------------------
(* segments.c, in pages.                                                    *)

Segment(start, end, perms, down) ==
  [start |-> start, end |-> end, perms |-> perms, grows_down |-> down]

NoSegments == <<>>
AddressPages == 1048576     \* 2^20 pages in a 32-bit address space

STACK == 1
MMAP == 2
HEAP == 3
BSS == 4
DATA == 5
TEXT == 6
TESTING == 7

InitialSegments ==
  << Segment(786430, 788478, {"READ", "WRITE"}, TRUE),          \* 0xBFFFE 0xC07FE
     Segment(788478, 788478, {"READ", "EXEC", "WRITE"}, TRUE),  \* 0xC07FE
     Segment(32882, 32882, {"READ", "WRITE"}, FALSE),           \* 0x08072
     Segment(32858, 32882, {"READ", "WRITE"}, FALSE),           \* 0x0805A
     Segment(32850, 32858, {"READ", "WRITE"}, FALSE),           \* 0x08052
     Segment(32840, 32850, {"READ", "EXEC"}, FALSE),            \* 0x08048
     Segment(1, 3, {"READ", "WRITE"}, FALSE) >>

Covers(s, a) == IF s.grows_down THEN s.end <= a /\ a <= s.start
                                ELSE s.start <= a /\ a <= s.end

\* find_segment: the first segment that covers the address, both ends in.
Covering(segs, a) == {i \in DOMAIN segs : Covers(segs[i], a)}
FindSegment(segs, a) == segs[Least(Covering(segs, a))]

Moved(s, n) == [s EXCEPT !.end = (IF s.grows_down THEN @ - n ELSE @ + n) % AddressPages]

------------------------------------------------------------------------------
(* tlb.c.  A flushed TLB is one calloc'ed node: address 0, entry NULL.      *)

Flushed == << [addr |-> 0, entry |-> NULL] >>

Holding(t, a) == {i \in DOMAIN t : t[i].addr = a}

\* tlb_get_pte: the node found moves to the head.
Promote(t, i) == [j \in 1 .. Len(t) |->
                    IF j = 1 THEN t[i] ELSE IF j <= i THEN t[j - 1] ELSE t[j]]
TlbGet(t, a) ==
  IF Holding(t, a) = {} THEN [tlb |-> t, entry |-> NULL]
  ELSE LET i == Least(Holding(t, a)) IN [tlb |-> Promote(t, i), entry |-> t[i].entry]

\* tlb_add_pte: a full list (MAX_NODES) loses its tail first.
\* Mutation: no node is evicted from a full TLB.
Kept_Unbounded(t) == Len(t)
Kept(t) == IF Len(t) >= MaxNodes THEN Len(t) - 1 ELSE Len(t)
TlbAdd(t, a, e) == [j \in 1 .. Kept(t) + 1 |->
                      IF j = 1 THEN [addr |-> a, entry |-> e] ELSE t[j - 1]]

------------------------------------------------------------------------------
(* mmu.c.                                                                   *)

Reply(op, p, v) == [op |-> op, pid |-> p, value |-> v]

\* Mutation: no flush on a context switch.
TlbFor_NoFlush(p) == tlb

\* The check for a context switch both accesses start with.
TlbFor(p) == IF p # curr_pid THEN Flushed ELSE tlb

\* What an access does before its permission check: the TLB, on a miss the
\* page directory and table, on an absent page a frame and its swap file.
Translate(p, a) ==
  LET got == TlbGet(TlbFor(p), a)
      dir == page_directories[p]
      k1 == IF got.entry = NULL /\ ~entries[dir][DirIndex(a)].present
            THEN NewTable(K, dir, DirIndex(a)) ELSE K
      pte == IF got.entry = NULL
             THEN <<k1.entry[dir][DirIndex(a)].base, TableIndex(a)>>
             ELSE got.entry
      k2 == IF k1.dead \/ k1.entry[pte[1]][pte[2]].present THEN k1
            ELSE ReadFromDisk(NewPage(k1, pte), pte)
  IN [k |-> k2, pte |-> pte,
      tlb |-> IF got.entry = NULL THEN TlbAdd(got.tlb, a, pte) ELSE got.tlb]

\* Mutation: the dirty bit is not set.
Stored_Clean(k, pte, v) ==
  [k EXCEPT !.data[k.entry[pte[1]][pte[2]].base] = v]

\* memcpy into the page, and the dirty bit.
Stored(k, pte, v) ==
  [k EXCEPT !.data[k.entry[pte[1]][pte[2]].base] = v,
            !.entry[pte[1]][pte[2]] = [@ EXCEPT !.dirty = TRUE]]
Loaded(k, pte) == k.data[k.entry[pte[1]][pte[2]].base]

Alive(p) == ~crashed /\ page_directories[p] # NULL

\* An address in no segment: the TLB was already flushed on a switch.
SegFault(p, a, op) ==
  /\ Alive(p)
  /\ Covering(segmentations[p], a) = {}
  /\ tlb' = TlbFor(p)
  /\ curr_pid' = p
  /\ last' = Reply(op, p, SEGV)
  /\ UNCHANGED <<kernelVars, page_directories, segmentations, crashed>>

Permits(p, a, perm) == perm \in FindSegment(segmentations[p], a).perms

\* The part mmu_read_from_virtual_address and mmu_write_to_virtual_address
\* share, for an address inside a segment.
Access(p, a, t) ==
  /\ ~t.k.dead
  /\ tlb' = t.tlb
  /\ curr_pid' = p
  /\ UNCHANGED <<page_directories, segmentations>>

Inside(p, a) == Alive(p) /\ Covering(segmentations[p], a) # {}

ReadFrom(p, a) ==
  /\ Inside(p, a)
  /\ LET t == Translate(p, a)
     IN /\ Access(p, a, t)
        /\ SetKernel(t.k)
        /\ last' = Reply("read", p, IF Permits(p, a, "READ")
                                    THEN Loaded(t.k, t.pte) ELSE SEGV)

WriteTo(p, a, v) ==
  /\ Inside(p, a)
  /\ LET t == Translate(p, a)
     IN /\ Access(p, a, t)
        /\ \/ /\ Permits(p, a, "WRITE")
              /\ SetKernel(Stored(t.k, t.pte, <<p, v>>))
              /\ last' = Reply("write", p, NULL)
           \/ /\ ~Permits(p, a, "WRITE")
              /\ SetKernel(t.k)
              /\ last' = Reply("write", p, SEGV)

\* The same two calls when no frame is left for a table or a page.
AccessCrash(p, a) == Inside(p, a) /\ Translate(p, a).k.dead /\ Crash

\* mmu_add_process; callers add a pid once.  A directory, the table of its
\* first entry, and pages 1 and 2; each frame asked for may evict another
\* page, the page 1 just mapped included.
Built == LET r == Ask(K, NULL)
             k1 == IF r.frame = NULL THEN Dead(K) ELSE NewTable(r.k, r.frame, 0)
             t == k1.entry[r.frame][0].base
         IN IF k1.dead THEN [k |-> k1, dir |-> NULL]
            ELSE [k |-> NewPage(NewPage(k1, <<t, 1>>), <<t, 2>>), dir |-> r.frame]

AddProcess(p) ==
  /\ ~crashed /\ page_directories[p] = NULL
  /\ IF Built.k.dead THEN Crash
     ELSE /\ SetKernel(Built.k)
          /\ page_directories' = [page_directories EXCEPT ![p] = Built.dir]
          /\ segmentations' = [segmentations EXCEPT ![p] = InitialSegments]
          /\ last' = Reply("add", p, NULL)
          /\ UNCHANGED <<tlb, curr_pid>>

\* The frames mmu_remove_process walks: tables of present directory entries,
\* present pages of those tables, and the directory.
Tables(k, d) == {k.entry[d][i].base : i \in {j \in Index : k.entry[d][j].present}}
Pages(k, g) == {k.entry[g][i].base : i \in {j \in Index : k.entry[g][j].present}}
\* Mutation: the page tables are not returned to the kernel.
Owned_NoTables(k, d) == {d} \cup UNION {Pages(k, g) : g \in Tables(k, d)}
Owned(k, d) == {d} \cup Tables(k, d) \cup UNION {Pages(k, g) : g \in Tables(k, d)}

Release(k, d) ==
  [k EXCEPT !.map = [f \in Frame |-> IF f \in Owned(k, d) THEN NULL ELSE k.map[f]],
            !.swap = [n \in FileName |->
                        IF \E g \in Tables(k, d), i \in Index : n = RemovedName(<<g, i>>)
                        THEN NoFile ELSE k.swap[n]]]

\* Mutation: the segments of the removed process stay.
RemoveProcess_KeepsSegments(p) ==
  /\ Alive(p)
  /\ SetKernel(Release(K, page_directories[p]))
  /\ page_directories' = [page_directories EXCEPT ![p] = NULL]
  /\ tlb' = IF curr_pid = p THEN Flushed ELSE tlb
  /\ last' = Reply("remove", p, NULL)
  /\ UNCHANGED <<segmentations, curr_pid>>

RemoveProcess(p) ==
  /\ Alive(p)
  /\ SetKernel(Release(K, page_directories[p]))
  /\ page_directories' = [page_directories EXCEPT ![p] = NULL]
  /\ segmentations' = [segmentations EXCEPT ![p] = NoSegments]
  /\ tlb' = IF curr_pid = p THEN Flushed ELSE tlb
  /\ last' = Reply("remove", p, NULL)
  /\ UNCHANGED curr_pid

\* mmu_delete: every process is removed, then the whole swap directory; the
\* next mmu_create starts with a fresh TLB and curr_pid 0.
Delete ==
  /\ ~crashed
  /\ entry_mapping' = [f \in Frame |->
       IF \E p \in Process : /\ page_directories[p] # NULL
                             /\ f \in Owned(K, page_directories[p])
       THEN NULL ELSE entry_mapping[f]]
  /\ swap' = [n \in FileName |-> NoFile]
  /\ page_directories' = [p \in Process |-> NULL]
  /\ segmentations' = [p \in Process |-> NoSegments]
  /\ tlb' = Flushed
  /\ curr_pid' = 0
  /\ last' = Reply("delete", NULL, NULL)
  /\ UNCHANGED <<entries, data, crashed>>

\* grow_segment and shrink_segment (n < 0), from the first size of the segment
\* to MaxShrink pages below it.
Resize(p, s, n) ==
  /\ Alive(p)
  /\ segmentations' = [segmentations EXCEPT ![p][s] = Moved(@, n)]
  /\ segmentations'[p][s].end - InitialSegments[s].end \in -MaxShrink .. 0
  /\ last' = Reply("resize", p, NULL)
  /\ UNCHANGED <<kernelVars, page_directories, tlb, curr_pid, crashed>>

------------------------------------------------------------------------------
Init ==
  /\ entry_mapping = [f \in Frame |-> NULL]
  /\ entries = [f \in Frame |-> EmptyFrame]
  /\ data = [f \in Frame |-> Zero]
  /\ swap = [n \in FileName |-> NoFile]
  /\ crashed = FALSE
  /\ page_directories = [p \in Process |-> NULL]
  /\ segmentations = [p \in Process |-> NoSegments]
  /\ tlb = Flushed
  /\ curr_pid = 0
  /\ last = Reply("none", NULL, NULL)

Use(p) == \/ \E a \in Page :
               \/ \E op \in {"read", "write"} : SegFault(p, a, op)
               \/ ReadFrom(p, a)
               \/ AccessCrash(p, a)
               \/ \E v \in Value : WriteTo(p, a, v)
          \/ AddProcess(p)
          \/ \E s \in Resizable, n \in {-1, 1} : Resize(p, s, n)

Next == \/ \E p \in Process : Use(p) \/ RemoveProcess(p)
        \/ Delete

Spec == Init /\ [][Next]_vars

\* The callers of mmu_test.c never remove a process before mmu_delete.
KeepNext == \/ \E p \in Process : Use(p)
            \/ Delete
KeepSpec == Init /\ [][KeepNext]_vars
=============================================================================
