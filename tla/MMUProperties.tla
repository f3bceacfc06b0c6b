---------------------------- MODULE MMUProperties ----------------------------
(***************************************************************************)
(* What must hold of the MMU, and the abstract memory it implements.       *)
(***************************************************************************)
EXTENDS MMU, FiniteSets

TypeOK ==
  /\ entry_mapping \in [Frame -> PTE \cup {NULL, RESERVED}]
  /\ entries \in [Frame -> [Index -> [present : BOOLEAN,
                                      base : Frame \cup {NULL},
                                      dirty : BOOLEAN]]]
  /\ data \in [Frame -> Content]
  /\ swap \in [FileName -> Content \cup {NoFile}]
  /\ page_directories \in [Process -> Frame \cup {NULL}]
  /\ DOMAIN segmentations = Process
  /\ \A p \in Process : DOMAIN segmentations[p] =
                         IF page_directories[p] = NULL THEN {} ELSE 1 .. 7
  /\ tlb \in Seq([addr : Page \cup {0}, entry : PTE \cup {NULL}])
  /\ curr_pid \in Process \cup {0}
  /\ crashed \in BOOLEAN

Live == {p \in Process : page_directories[p] # NULL}
PresentIn(f) == {i \in Index : entries[f][i].present}
TableOf(p, i) == entries[page_directories[p]][i].base

Directories == {page_directories[p] : p \in Live}
PageTables ==
  {f \in Frame : \E p \in Live : \E i \in PresentIn(page_directories[p]) : f = TableOf(p, i)}

\* Every paging structure has a frame of its own: no two processes share a
\* directory, no two directory entries a table, and the kernel holds all of
\* them RESERVED, so they are never evicted from under their process.
TablesAreReserved ==
  /\ \A f \in Directories \cup PageTables : entry_mapping[f] = RESERVED
  /\ Directories \cap PageTables = {}
  /\ \A p, q \in Live : page_directories[p] = page_directories[q] => p = q
  /\ \A p, q \in Live :
       \A i \in PresentIn(page_directories[p]), j \in PresentIn(page_directories[q]) :
         TableOf(p, i) = TableOf(q, j) => p = q /\ i = j

\* entry_mapping and the page tables agree, in both directions: a frame
\* belongs to the entry that is present with that frame, so an eviction never
\* clears an entry that has moved on, and no page has two frames.
OwnersAgree ==
  /\ \A t \in PageTables : \A i \in PresentIn(t) :
        entry_mapping[entries[t][i].base] = <<t, i>>
  /\ \A f \in Frame : entry_mapping[f] \in PTE =>
        LET e == entry_mapping[f]
        IN /\ e[1] \in PageTables
           /\ entries[e[1]][e[2]].present
           /\ entries[e[1]][e[2]].base = f

\* A frame the kernel holds RESERVED is a directory or a table of a live
\* process: removing a process leaks no frame.
NoFrameLeak ==
  \A f \in Frame : entry_mapping[f] = RESERVED => f \in Directories \cup PageTables

\* Whatever the TLB answers for a page is what the walk through the current
\* process's directory finds: no node outlives a context switch, a removal or
\* the reuse of the frame its table was in.
TLBCoherent ==
  \A n \in DOMAIN tlb : tlb[n].entry # NULL =>
     /\ curr_pid \in Live
     /\ LET dir == entries[page_directories[curr_pid]]
            a == tlb[n].addr
        IN /\ dir[DirIndex(a)].present
           /\ tlb[n].entry = <<dir[DirIndex(a)].base, TableIndex(a)>>

\* The TLB is a set of at most MAX_NODES translations: one node a page.
TLBIsACache ==
  /\ Len(tlb) \in 1 .. MaxNodes
  /\ \A m, n \in DOMAIN tlb : tlb[m].addr = tlb[n].addr => m = n

\* The program dies for want of a frame only when paging structures leave
\* fewer than the three frames a call can need (a directory, a table, a page):
\* as long as more frames hold pages, the eviction finds one.
CrashOnlyWhenExhausted ==
  crashed => Cardinality({f \in Frame : entry_mapping[f] # RESERVED}) < 3

\* A page an access may evict differs from its copy on disk (or from zero)
\* only if it is marked dirty.
DirtyCoversWrites ==
  \A t \in PageTables : \A i \in PresentIn(t) :
     LET e == entries[t][i]
         copy == swap[SwapName(<<t, i>>)]
     IN ~e.dirty => data[e.base] = IF copy = NoFile THEN Zero ELSE copy

\* kernel.c:23 "Zeroing out the page, since an os does not want processes
\* reading other processes' pages": a read answers zeros or something the
\* same process stored.
PageIsolation ==
  last.op = "read" /\ last.value \notin {Zero, SEGV} => last.value[1] = last.pid

------------------------------------------------------------------------------
(* The abstract memory.  A page that is not in a frame is in its swap file, *)
(* or was never stored to.                                                  *)

PageOf(p, a) ==
  LET dir == entries[page_directories[p]]
      pte == <<dir[DirIndex(a)].base, TableIndex(a)>>
      e == entries[pte[1]][pte[2]]
  IN IF ~dir[DirIndex(a)].present THEN Zero
     ELSE IF e.present THEN data[e.base]
     ELSE IF swap[SwapName(pte)] = NoFile THEN Zero
     ELSE swap[SwapName(pte)]

space == [p \in Process |->
            IF p \in Live THEN [a \in Page |-> PageOf(p, a)] ELSE NULL]
Permitting(perm) ==
  [p \in Process |->
     IF p \notin Live THEN {}
     ELSE {a \in Page : /\ Covering(segmentations[p], a) # {}
                        /\ Permits(p, a, perm)}]

VM == INSTANCE VirtualMemory WITH
        readable <- Permitting("READ"),
        writable <- Permitting("WRITE"),
        reply <- last

\* Paging is invisible: every call of the MMU answers what a private, never
\* evicted array of pages would answer.
ImplementsMemory == VM!Spec
=============================================================================
