--------------------------- MODULE MMUMemoryProofs ---------------------------
(***************************************************************************)
(* TLAPS proofs that paging is invisible: the MMU, used as its callers use *)
(* it (no process is removed before mmu_delete), implements the private    *)
(* arrays of VirtualMemory, and the dirty bits cover every store.          *)
(***************************************************************************)
EXTENDS MMUProofs

------------------------------------------------------------------------------
(* The contents of a page, wherever it is.                                  *)

\* The copy on disk of the page of entry i of the table in frame g.
Copy(k, g, i) == IF k.swap[SwapName(<<g, i>>)] = NoFile THEN Zero
                 ELSE k.swap[SwapName(<<g, i>>)]
At(k, g, i) == IF k.entry[g][i].present THEN k.data[k.entry[g][i].base]
               ELSE Copy(k, g, i)

\* What process q sees at entry j of its table i.
View(k, D, q, i, j) == IF Points(k, D, q, i) THEN At(k, Base(k, D, q, i), j) ELSE Zero
SameView(k, k2, D) ==
  \A q \in Process : \A i, j \in Index : View(k2, D, q, i, j) = View(k, D, q, i, j)

\* Only entries of page tables have files, so a frame that becomes a table
\* finds none of a table that was there before.
FilesOwned(k, D) ==
  \A g \in Frame : \A i \in Index : k.swap[SwapName(<<g, i>>)] # NoFile => IsTable(k, D, g)
\* A page that is not dirty is the copy on disk.
CleanSaved(k, D) ==
  \A g \in Frame : \A i \in Index :
    /\ IsTable(k, D, g)
    /\ k.entry[g][i].present
    /\ ~ k.entry[g][i].dirty
    => k.data[k.entry[g][i].base] = Copy(k, g, i)
Memory(k, D) == FilesOwned(k, D) /\ CleanSaved(k, D)

\* write_page_to_disk saves the page the frame holds; nothing else is saved,
\* and no dirty bit changes.
LEMMA EvictMemory ==
  ASSUME NEW k \in KType, NEW f \in Frame, NEW g \in Frame, NEW i \in Index,
         k.map[f] = <<g, i>>
  PROVE  /\ Evict(k, f).data = k.data
         /\ \A h \in Frame : \A j \in Index :
              /\ Evict(k, f).swap[SwapName(<<h, j>>)] =
                   IF h = g /\ j = i THEN k.data[k.entry[g][i].base] ELSE k.swap[SwapName(<<h, j>>)]
              /\ Evict(k, f).entry[h][j].dirty = k.entry[h][j].dirty
<1> DEFINE gone == [k.entry[g][i] EXCEPT !.present = FALSE, !.base = NULL]
           name == SwapName(<<g, i>>)
           saved == k.data[k.entry[g][i].base]
<1>1. Evict(k, f) = [k EXCEPT !.swap = [k.swap EXCEPT ![name] = saved],
                              !.entry = [k.entry EXCEPT ![g][i] = gone],
                              !.map = [k.map EXCEPT ![f] = NULL]]
  BY DEF Evict
<1>2. gone.dirty = k.entry[g][i].dirty
  <2>1. k.entry[g][i] \in Entry
    BY KFields
  <2> QED
    BY <2>1 DEF Entry
<1> HIDE DEF gone, saved
<1>3. /\ k.entry \in [Frame -> [Index -> Entry]]
      /\ k.swap \in [FileName -> Content \cup {NoFile}]
  BY KFields
<1>4. /\ Evict(k, f).data = k.data
      /\ Evict(k, f).swap = [k.swap EXCEPT ![name] = saved]
      /\ Evict(k, f).entry = [k.entry EXCEPT ![g][i] = gone]
  <2> HIDE DEF name
  <2> QED
    BY <1>1 DEF KType
<1>5. ASSUME NEW h \in Frame, NEW j \in Index
      PROVE  /\ Evict(k, f).swap[SwapName(<<h, j>>)] =
                  IF h = g /\ j = i THEN saved ELSE k.swap[SwapName(<<h, j>>)]
             /\ Evict(k, f).entry[h][j].dirty = k.entry[h][j].dirty
  <2>1. SwapName(<<h, j>>) \in FileName
    BY SwapNameIn
  <2>2. SwapName(<<h, j>>) = name <=> h = g /\ j = i
    BY DEF SwapName
  <2>3. Evict(k, f).swap[SwapName(<<h, j>>)] =
          IF h = g /\ j = i THEN saved ELSE k.swap[SwapName(<<h, j>>)]
    <3> HIDE DEF name
    <3> QED
      BY <1>3, <1>4, <2>1, <2>2
  <2>4. Evict(k, f).entry[h][j].dirty = k.entry[h][j].dirty
    <3>1. CASE h = g /\ j = i
      <4>1. Evict(k, f).entry[h][j] = gone
        BY <1>3, <1>4, <3>1
      <4> QED
        BY <1>2, <3>1, <4>1
    <3>2. CASE h # g \/ j # i
      <4>1. Evict(k, f).entry[h][j] = k.entry[h][j]
        BY <1>3, <1>4, <3>2
      <4> QED
        BY <4>1
    <3> QED
      BY <3>1, <3>2
  <2> QED
    BY <2>3, <2>4
<1> QED
  BY <1>4, <1>5 DEF saved

\* A frame is handed out zeroed; disk and dirty bits are not touched.
LEMMA GiveMemory ==
  ASSUME NEW k \in KType, NEW f \in Frame, NEW e \in PTE \cup {NULL}
  PROVE  /\ \A h \in Frame : Give(k, f, e).data[h] = IF h = f THEN Zero ELSE k.data[h]
         /\ Give(k, f, e).swap = k.swap
         /\ \A h \in Frame : \A j \in Index :
              h # f => Give(k, f, e).entry[h][j].dirty = k.entry[h][j].dirty
<1>1. /\ Give(k, f, e).data = [k.data EXCEPT ![f] = Zero]
      /\ Give(k, f, e).swap = k.swap
      /\ Give(k, f, e).entry = [k.entry EXCEPT ![f] = EmptyFrame]
  BY DEF Give, KType
<1> QED
  BY <1>1, KFields

\* What a frame handed out does to pages and files: the frame is zeroed after
\* the page it held, if any, was saved.
HandedMemory(k, r) ==
  /\ \A h \in Frame : r.k.data[h] = IF h = r.frame THEN Zero ELSE k.data[h]
  /\ \A h \in Frame : \A j \in Index :
       /\ r.k.swap[SwapName(<<h, j>>)] =
            IF k.map[r.frame] = <<h, j>> THEN k.data[r.frame] ELSE k.swap[SwapName(<<h, j>>)]
       /\ h # r.frame => r.k.entry[h][j].dirty = k.entry[h][j].dirty

\* Asking for a frame evicts at most one page, and that one goes to disk.
LEMMA AskMemory ==
  ASSUME NEW k \in KType, NEW D \in DType, Owns(k, D), NEW e \in PTE \cup {NULL},
         NEW r, r = Ask(k, e), r.frame # NULL
  PROVE  HandedMemory(k, r)
<1>1. CASE Free(k) # {}
  <2> DEFINE f == Least(Free(k))
  <2>1. f \in Frame /\ k.map[f] = NULL
    BY <1>1, LeastFrame DEF Free
  <2>2. r.k = Give(k, f, e) /\ r.frame = f
    BY <1>1 DEF Ask
  <2> HIDE DEF f
  <2>3. \A h \in Frame : \A j \in Index : k.map[f] # <<h, j>>
    BY <2>1, NullAssumption DEF PTE
  <2> QED
    BY <2>1, <2>2, <2>3, GiveMemory DEF HandedMemory
<1>2. CASE Free(k) = {} /\ Evictable(k, e) # {}
  <2> DEFINE f == Least(Evictable(k, e))
             v == Evict(k, f)
  <2>1. f \in Frame /\ k.map[f] \notin {NULL, RESERVED}
    BY <1>2, LeastFrame DEF Evictable
  <2>2. r.k = Give(v, f, e) /\ r.frame = f
    BY <1>2 DEF Ask
  <2> HIDE DEF f
  <2>3. PICK g \in Frame, i \in Index : k.map[f] = <<g, i>>
    BY <2>1, KFields DEF PTE
  <2>4. k.entry[g][i].base = f
    BY <2>1, <2>3 DEF Owns, FramesOwned
  <2>5. v \in KType
    <3>1. k.map[f] \in PTE
      BY <2>3 DEF PTE
    <3> QED
      BY <2>1, <2>3, <2>4, <3>1, EvictFields DEF Evicted
  <2>6. /\ v.data = k.data
        /\ \A h \in Frame : \A j \in Index :
             /\ v.swap[SwapName(<<h, j>>)] =
                  IF h = g /\ j = i THEN k.data[f] ELSE k.swap[SwapName(<<h, j>>)]
             /\ v.entry[h][j].dirty = k.entry[h][j].dirty
    BY <2>1, <2>3, <2>4, EvictMemory
  <2> HIDE DEF v
  <2>7. /\ \A h \in Frame : Give(v, f, e).data[h] = IF h = f THEN Zero ELSE v.data[h]
        /\ Give(v, f, e).swap = v.swap
        /\ \A h \in Frame : \A j \in Index :
             h # f => Give(v, f, e).entry[h][j].dirty = v.entry[h][j].dirty
    BY <2>1, <2>5, GiveMemory
  <2>8. \A h \in Frame : \A j \in Index : k.map[f] = <<h, j>> <=> h = g /\ j = i
    BY <2>3
  <2> QED
    BY <2>2, <2>6, <2>7, <2>8 DEF HandedMemory
<1> QED
  BY <1>1, <1>2 DEF Ask

\* Setting an entry touches no page, no file and no dirty bit.
LEMMA LinkMemory ==
  ASSUME NEW k \in KType, NEW f \in Frame, NEW i \in Index, NEW g \in Frame
  PROVE  /\ Link(k, f, i, g).data = k.data
         /\ Link(k, f, i, g).swap = k.swap
         /\ \A h \in Frame : \A j \in Index :
              Link(k, f, i, g).entry[h][j].dirty = k.entry[h][j].dirty
<1> DEFINE linked == [k.entry[f][i] EXCEPT !.present = TRUE, !.base = g]
<1>1. k.entry[f][i] \in Entry /\ k.entry \in [Frame -> [Index -> Entry]]
  BY KFields
<1>2. linked.dirty = k.entry[f][i].dirty
  BY <1>1 DEF Entry
<1>3. Link(k, f, i, g) = [k EXCEPT !.entry = [k.entry EXCEPT ![f][i] = linked]]
  BY DEF Link
<1> HIDE DEF linked
<1>4. /\ Link(k, f, i, g).data = k.data
      /\ Link(k, f, i, g).swap = k.swap
      /\ Link(k, f, i, g).entry = [k.entry EXCEPT ![f][i] = linked]
  BY <1>3 DEF KType
<1>5. ASSUME NEW h \in Frame, NEW j \in Index
      PROVE  Link(k, f, i, g).entry[h][j].dirty = k.entry[h][j].dirty
  <2>1. CASE h = f /\ j = i
    <3>1. Link(k, f, i, g).entry[h][j] = linked
      BY <1>1, <1>4, <2>1
    <3> QED
      BY <1>2, <2>1, <3>1
  <2>2. CASE h # f \/ j # i
    <3>1. Link(k, f, i, g).entry[h][j] = k.entry[h][j]
      BY <1>1, <1>4, <2>2
    <3> QED
      BY <3>1
  <2> QED
    BY <2>1, <2>2
<1> QED
  BY <1>4, <1>5

\* Whatever a frame is asked for, no page of any table changes.
LEMMA AskKeepsPages ==
  ASSUME NEW k \in KType, NEW D \in DType, Owns(k, D), Memory(k, D),
         NEW e \in PTE \cup {NULL}, NEW r, r = Ask(k, e), r.frame # NULL
  PROVE  /\ \A g \in Frame : \A j \in Index : IsTable(k, D, g) =>
              /\ At(r.k, g, j) = At(k, g, j)
              /\ ~ k.entry[g][j].present =>
                   r.k.swap[SwapName(<<g, j>>)] = k.swap[SwapName(<<g, j>>)]
              /\ r.k.entry[g][j].present =>
                   r.k.entry[g][j].base \in Frame /\ r.k.entry[g][j].base # r.frame
         /\ \A g \in Frame : \A j \in Index :
              ~ IsTable(k, D, g) => r.k.swap[SwapName(<<g, j>>)] = NoFile
         /\ Memory(r.k, D)
         /\ r.k.data[r.frame] = Zero
<1> DEFINE f == r.frame
<1>1. /\ f \in Frame
      /\ r.k \in KType
      /\ k.map[f] # RESERVED
      /\ \A h \in Frame : \A j \in Index :
           /\ h = f => ~ r.k.entry[h][j].present
           /\ k.map[f] = <<h, j>> => ~ r.k.entry[h][j].present
           /\ h # f /\ k.map[f] # <<h, j>> => r.k.entry[h][j] = k.entry[h][j]
  <2>1. Handed(k, e, r)
    BY AskSpec
  <2> QED
    BY <2>1 DEF Handed
<1>2. /\ \A g \in Frame : IsTable(r.k, D, g) <=> IsTable(k, D, g)
      /\ \A g \in Frame : IsTable(k, D, g) => g # f
  BY AskKeepsDirectories
<1>3. /\ \A h \in Frame : r.k.data[h] = IF h = f THEN Zero ELSE k.data[h]
      /\ \A h \in Frame : \A j \in Index :
           /\ r.k.swap[SwapName(<<h, j>>)] =
                IF k.map[f] = <<h, j>> THEN k.data[f] ELSE k.swap[SwapName(<<h, j>>)]
           /\ h # f => r.k.entry[h][j].dirty = k.entry[h][j].dirty
  <2>1. HandedMemory(k, r)
    BY AskMemory
  <2> QED
    BY <2>1 DEF HandedMemory
<1> HIDE DEF f
<1>4. \A g \in Frame : \A j \in Index : k.map[f] = <<g, j>> =>
        IsTable(k, D, g) /\ k.entry[g][j].present /\ k.entry[g][j].base = f
  BY <1>1 DEF Owns, FramesOwned
<1>5. k.data[f] # NoFile
  BY <1>1, KFields, NullAssumption
<1>6. ASSUME NEW g \in Frame, NEW j \in Index, IsTable(k, D, g)
      PROVE  /\ At(r.k, g, j) = At(k, g, j)
             /\ ~ k.entry[g][j].present =>
                  r.k.swap[SwapName(<<g, j>>)] = k.swap[SwapName(<<g, j>>)]
             /\ r.k.entry[g][j].present =>
                  /\ r.k.entry[g][j] = k.entry[g][j]
                  /\ r.k.entry[g][j].base # f
                  /\ r.k.entry[g][j].base \in Frame
                  /\ Copy(r.k, g, j) = Copy(k, g, j)
  <2>1. CASE k.map[f] = <<g, j>>
    <3>1. k.entry[g][j].present /\ k.entry[g][j].base = f /\ ~ r.k.entry[g][j].present
      BY <1>1, <1>4, <2>1
    <3>2. r.k.swap[SwapName(<<g, j>>)] = k.data[f]
      BY <1>3, <2>1
    <3> QED
      BY <1>5, <3>1, <3>2 DEF At, Copy
  <2>2. CASE k.map[f] # <<g, j>>
    <3>1. r.k.entry[g][j] = k.entry[g][j]
      BY <1>1, <1>2, <1>6, <2>2
    <3>2. /\ r.k.swap[SwapName(<<g, j>>)] = k.swap[SwapName(<<g, j>>)]
          /\ Copy(r.k, g, j) = Copy(k, g, j)
      BY <1>3, <2>2 DEF Copy
    <3>3. k.entry[g][j].present => k.entry[g][j].base # f /\ k.entry[g][j].base \in Frame
      BY <1>6, <2>2 DEF Owns, PagesOwned
    <3> QED
      BY <1>3, <3>1, <3>2, <3>3 DEF At
  <2> QED
    BY <2>1, <2>2
<1>7. ASSUME NEW g \in Frame, NEW j \in Index, ~ IsTable(k, D, g)
      PROVE  r.k.swap[SwapName(<<g, j>>)] = NoFile
  BY <1>3, <1>4, <1>7 DEF Memory, FilesOwned
<1>8. FilesOwned(r.k, D)
  BY <1>2, <1>7 DEF FilesOwned
<1>9. CleanSaved(r.k, D)
  <2> SUFFICES ASSUME NEW g \in Frame, NEW j \in Index, IsTable(r.k, D, g),
                      r.k.entry[g][j].present, ~ r.k.entry[g][j].dirty
               PROVE  r.k.data[r.k.entry[g][j].base] = Copy(r.k, g, j)
    BY DEF CleanSaved
  <2>1. IsTable(k, D, g)
    BY <1>2
  <2>2. /\ r.k.entry[g][j] = k.entry[g][j]
        /\ r.k.entry[g][j].base # f
        /\ r.k.entry[g][j].base \in Frame
        /\ Copy(r.k, g, j) = Copy(k, g, j)
    BY <1>6, <2>1
  <2>3. k.data[k.entry[g][j].base] = Copy(k, g, j)
    BY <2>1, <2>2 DEF Memory, CleanSaved
  <2> QED
    BY <1>3, <2>2, <2>3
<1> QED
  BY <1>1, <1>3, <1>6, <1>7, <1>8, <1>9 DEF Memory, f

------------------------------------------------------------------------------
(* The calls that touch pages.                                              *)

\* Pages that stay the same in tables that stay where they are look the same.
LEMMA PagesSameView ==
  ASSUME NEW k, NEW k2, NEW D \in DType, Owns(k, D),
         \A q \in Process : \A i \in Index :
           /\ Points(k2, D, q, i) <=> Points(k, D, q, i)
           /\ Points(k, D, q, i) => Base(k2, D, q, i) = Base(k, D, q, i),
         \A g \in Frame : \A j \in Index : IsTable(k, D, g) => At(k2, g, j) = At(k, g, j)
  PROVE  SameView(k, k2, D)
<1> SUFFICES ASSUME NEW q \in Process, NEW i \in Index, NEW j \in Index
             PROVE  View(k2, D, q, i, j) = View(k, D, q, i, j)
  BY DEF SameView
<1>1. CASE ~ Points(k, D, q, i)
  BY <1>1 DEF View
<1>2. CASE Points(k, D, q, i)
  <2>1. Base(k, D, q, i) \in Frame /\ IsTable(k, D, Base(k, D, q, i))
    BY <1>2 DEF Owns, TablesOwned, IsTable
  <2> QED
    BY <1>2, <2>1 DEF View
<1> QED
  BY <1>1, <1>2

NoFiles(k, g) == \A j \in Index : k.swap[SwapName(<<g, j>>)] = NoFile

\* A new table starts with blank pages: no file bears the name of one of its
\* entries.
LEMMA NewTableMemory ==
  ASSUME NEW k \in KType, NEW D \in DType, Owns(k, D), Memory(k, D), ~ k.dead,
         NEW p \in Process, D[p] # NULL, NEW i \in Index, ~ k.entry[D[p]][i].present,
         NEW k2, k2 = NewTable(k, D[p], i), ~ k2.dead
  PROVE  /\ Memory(k2, D)
         /\ SameView(k, k2, D)
         /\ NoFiles(k2, Base(k2, D, p, i))
<1> DEFINE r == Ask(k, NULL)
           f == r.frame
           d == D[p]
<1>0. d \in Frame
  BY DEF DType
<1>1. f # NULL /\ k2 = Link(r.k, d, i, f)
  BY DEF NewTable, Dead, KType
<1> HIDE DEF r
<1>2. /\ f \in Frame
      /\ r.k \in KType
      /\ \A j \in Index : ~ r.k.entry[f][j].present
  <2>1. Handed(k, NULL, r)
    BY <1>1, AskSpec DEF r
  <2> QED
    BY <2>1 DEF Handed
<1>3. /\ \A q \in Process : D[q] # NULL =>
           /\ D[q] # f
           /\ \A j \in Index : r.k.entry[D[q]][j] = k.entry[D[q]][j]
      /\ \A g \in Frame : IsTable(k, D, g) => g # f
      /\ \A g \in Frame : IsTable(r.k, D, g) <=> IsTable(k, D, g)
  BY <1>1, AskKeepsDirectories DEF r
<1>4. /\ \A g \in Frame : \A j \in Index : IsTable(k, D, g) => At(r.k, g, j) = At(k, g, j)
      /\ \A g \in Frame : \A j \in Index :
           ~ IsTable(k, D, g) => r.k.swap[SwapName(<<g, j>>)] = NoFile
      /\ Memory(r.k, D)
  <2>1. r = Ask(k, NULL) /\ r.frame # NULL
    BY <1>1 DEF r
  <2>2. NULL \in PTE \cup {NULL}
    OBVIOUS
  <2> HIDE DEF f
  <2>3. /\ \A g \in Frame : \A j \in Index : IsTable(k, D, g) =>
             /\ At(r.k, g, j) = At(k, g, j)
             /\ ~ k.entry[g][j].present =>
                  r.k.swap[SwapName(<<g, j>>)] = k.swap[SwapName(<<g, j>>)]
             /\ r.k.entry[g][j].present =>
                  r.k.entry[g][j].base \in Frame /\ r.k.entry[g][j].base # r.frame
        /\ \A g \in Frame : \A j \in Index :
             ~ IsTable(k, D, g) => r.k.swap[SwapName(<<g, j>>)] = NoFile
        /\ Memory(r.k, D)
        /\ r.k.data[r.frame] = Zero
    BY <2>1, <2>2, AskKeepsPages
  <2> QED
    BY <2>3
<1>5. /\ k2.entry[d][i].present
      /\ k2.entry[d][i].base = f
      /\ \A h \in Frame : \A j \in Index : h # d \/ j # i => k2.entry[h][j] = r.k.entry[h][j]
      /\ k2.data = r.k.data
      /\ k2.swap = r.k.swap
  <2>1. Linked(r.k, d, i, f, k2)
    BY <1>0, <1>1, <1>2, LinkSpec
  <2>2. k2.data = r.k.data /\ k2.swap = r.k.swap
    BY <1>0, <1>1, <1>2, LinkMemory
  <2> QED
    BY <2>1, <2>2 DEF Linked
<1>6. \A q \in Process : D[q] # NULL => D[q] \in Frame /\ (D[q] = d => q = p)
  BY DEF DType, Owns, DirectoriesOwned
<1>7. \A g \in Frame : IsTable(k, D, g) => g # d
  BY DEF Owns, TablesOwned, IsTable
<1> HIDE DEF f
<1>8. \A q \in Process : \A j \in Index :
        /\ Points(k2, D, q, j) <=> Points(k, D, q, j) \/ (q = p /\ j = i)
        /\ Points(k2, D, q, j) =>
             Base(k2, D, q, j) = IF q = p /\ j = i THEN f ELSE Base(k, D, q, j)
  BY <1>3, <1>5, <1>6 DEF Points, Base
<1>9. ~ Points(k, D, p, i)
  BY DEF Points
<1>10. \A g \in Frame : IsTable(k2, D, g) <=> IsTable(k, D, g) \/ g = f
  BY <1>8, <1>9 DEF IsTable
<1>11. f # d
  BY <1>3
<1> HIDE DEF d
<1>12. \A j \in Index : ~ k2.entry[f][j].present /\ k2.swap[SwapName(<<f, j>>)] = NoFile
  BY <1>2, <1>3, <1>4, <1>5, <1>11
<1>13. ASSUME NEW g \in Frame, NEW j \in Index, IsTable(k, D, g)
       PROVE  k2.entry[g][j] = r.k.entry[g][j] /\ At(k2, g, j) = At(k, g, j)
  <2>1. k2.entry[g][j] = r.k.entry[g][j]
    BY <1>5, <1>7, <1>13
  <2>2. At(k2, g, j) = At(r.k, g, j)
    BY <1>5, <2>1 DEF At, Copy
  <2> QED
    BY <1>4, <1>13, <2>1, <2>2
<1>14. Memory(k2, D)
  <2>1. FilesOwned(k2, D)
    BY <1>3, <1>4, <1>5, <1>10 DEF Memory, FilesOwned
  <2>2. CleanSaved(k2, D)
    BY <1>3, <1>4, <1>5, <1>10, <1>12, <1>13 DEF Memory, CleanSaved, Copy
  <2> QED
    BY <2>1, <2>2 DEF Memory
<1>15. SameView(k, k2, D)
  <2> SUFFICES ASSUME NEW q \in Process, NEW x \in Index, NEW j \in Index
               PROVE  View(k2, D, q, x, j) = View(k, D, q, x, j)
    BY DEF SameView
  <2>1. CASE q = p /\ x = i
    <3>1. Points(k2, D, q, x) /\ Base(k2, D, q, x) = f /\ ~ Points(k, D, q, x)
      BY <1>8, <1>9, <2>1
    <3>2. At(k2, f, j) = Zero
      BY <1>12 DEF At, Copy
    <3> QED
      BY <3>1, <3>2 DEF View
  <2>2. CASE ~ (q = p /\ x = i)
    <3>1. Points(k, D, q, x) => Base(k, D, q, x) \in Frame /\ IsTable(k, D, Base(k, D, q, x))
      BY DEF Owns, TablesOwned, IsTable
    <3> QED
      BY <1>8, <1>13, <2>2, <3>1 DEF View
  <2> QED
    BY <2>1, <2>2
<1> QED
  BY <1>8, <1>12, <1>14, <1>15 DEF NoFiles

\* read_page_from_disk fills the frame of the entry, if there is a file.
LEMMA ReadMemory ==
  ASSUME NEW k \in KType, ~ k.dead, NEW g \in Frame, NEW i \in Index,
         NEW k2, k2 = ReadFromDisk(k, <<g, i>>), k.entry[g][i].base \in Frame
  PROVE  /\ k2.entry = k.entry
         /\ k2.swap = k.swap
         /\ \A h \in Frame : k2.data[h] =
              IF h = k.entry[g][i].base /\ k.swap[SwapName(<<g, i>>)] # NoFile
              THEN k.swap[SwapName(<<g, i>>)] ELSE k.data[h]
<1> DEFINE b == k.entry[g][i].base
           file == k.swap[SwapName(<<g, i>>)]
<1>1. CASE file = NoFile
  BY <1>1 DEF ReadFromDisk
<1>2. CASE file # NoFile
  <2>1. k2 = [k EXCEPT !.data = [k.data EXCEPT ![b] = file]]
    BY <1>2 DEF ReadFromDisk
  <2> HIDE DEF file, b
  <2>2. k2.entry = k.entry /\ k2.swap = k.swap /\ k2.data = [k.data EXCEPT ![b] = file]
    BY <2>1 DEF KType
  <2>3. k.data \in [Frame -> Content]
    BY KFields
  <2> QED
    BY <1>2, <2>2, <2>3 DEF file, b
<1> QED
  BY <1>1, <1>2

\* A page that is brought in is what it was on disk, and the page that left
\* for it is on disk what it was.
LEMMA LoadMemory ==
  ASSUME NEW k \in KType, NEW D \in DType, Owns(k, D), Memory(k, D), ~ k.dead,
         NEW g \in Frame, NEW i \in Index, IsTable(k, D, g), ~ k.entry[g][i].present,
         NEW k2, k2 = NewPage(k, <<g, i>>), ~ k2.dead,
         NEW k3, k3 = ReadFromDisk(k2, <<g, i>>)
  PROVE  /\ Memory(k3, D)
         /\ SameView(k, k3, D)
         /\ \A j \in Index : ~ k.entry[g][j].present =>
              /\ k2.swap[SwapName(<<g, j>>)] = k.swap[SwapName(<<g, j>>)]
              /\ k3.swap[SwapName(<<g, j>>)] = k.swap[SwapName(<<g, j>>)]
<1> DEFINE e == <<g, i>>
           r == Ask(k, e)
           f == r.frame
<1>0. e \in PTE /\ e # NULL
  BY NullAssumption DEF PTE
<1>1. f # NULL /\ k2 = Link(r.k, g, i, f)
  BY DEF NewPage, Dead, KType
<1>2. k3 = ReadFromDisk(k2, <<g, i>>)
  OBVIOUS
<1> HIDE DEF r, e
<1>3. f \in Frame /\ r.k \in KType /\ ~ r.k.dead
  <2>1. Handed(k, e, r)
    BY <1>0, <1>1, AskSpec DEF r
  <2> QED
    BY <2>1 DEF Handed
<1>4. /\ \A q \in Process : D[q] # NULL =>
           \A j \in Index : r.k.entry[D[q]][j] = k.entry[D[q]][j]
      /\ \A h \in Frame : IsTable(k, D, h) => h # f
      /\ \A h \in Frame : IsTable(r.k, D, h) <=> IsTable(k, D, h)
  BY <1>0, <1>1, AskKeepsDirectories DEF r
<1>5. /\ \A h \in Frame : \A j \in Index : IsTable(k, D, h) =>
           /\ At(r.k, h, j) = At(k, h, j)
           /\ ~ k.entry[h][j].present =>
                r.k.swap[SwapName(<<h, j>>)] = k.swap[SwapName(<<h, j>>)]
           /\ r.k.entry[h][j].present =>
                r.k.entry[h][j].base \in Frame /\ r.k.entry[h][j].base # f
      /\ Memory(r.k, D)
      /\ r.k.data[f] = Zero
  BY <1>0, <1>1, AskKeepsPages DEF r
<1>6. /\ k2 \in KType
      /\ k2.dead = r.k.dead
      /\ k2.entry[g][i].present
      /\ k2.entry[g][i].base = f
      /\ \A h \in Frame : \A j \in Index : h # g \/ j # i => k2.entry[h][j] = r.k.entry[h][j]
      /\ k2.data = r.k.data
      /\ k2.swap = r.k.swap
  <2>1. Linked(r.k, g, i, f, k2)
    BY <1>1, <1>3, LinkSpec
  <2>2. k2.data = r.k.data /\ k2.swap = r.k.swap
    BY <1>1, <1>3, LinkMemory
  <2> QED
    BY <2>1, <2>2 DEF Linked
<1> HIDE DEF f
<1>7. /\ k3.entry = k2.entry
      /\ k3.swap = k2.swap
      /\ \A h \in Frame : k3.data[h] =
           IF h = k2.entry[g][i].base /\ k2.swap[SwapName(<<g, i>>)] # NoFile
           THEN k2.swap[SwapName(<<g, i>>)] ELSE k2.data[h]
  BY <1>2, <1>3, <1>6, ReadMemory
<1>8. k3.data[f] = Copy(k3, g, i) /\ \A h \in Frame : h # f => k3.data[h] = r.k.data[h]
  <2>1. \A h \in Frame : k3.data[h] =
          IF h = f /\ k3.swap[SwapName(<<g, i>>)] # NoFile
          THEN k3.swap[SwapName(<<g, i>>)] ELSE r.k.data[h]
    BY <1>6, <1>7
  <2>2. r.k.data[f] = Zero
    BY <1>5
  <2>3. k3.data[f] = Copy(k3, g, i)
    BY <1>3, <2>1, <2>2 DEF Copy
  <2> QED
    BY <2>1, <2>3
<1>9. \A q \in Process : D[q] # NULL => D[q] \in Frame /\ D[q] # g
  BY DEF DType, Owns, TablesOwned, IsTable
<1>10. \A q \in Process : \A j \in Index :
         /\ Points(k3, D, q, j) <=> Points(k, D, q, j)
         /\ Points(k, D, q, j) => Base(k3, D, q, j) = Base(k, D, q, j)
  <2>1. \A q \in Process : D[q] # NULL =>
          \A j \in Index : k3.entry[D[q]][j] = k.entry[D[q]][j]
    BY <1>4, <1>6, <1>7, <1>9
  <2> QED
    BY <2>1 DEF Points, Base
<1>11. \A h \in Frame : IsTable(k3, D, h) <=> IsTable(k, D, h)
  BY <1>10 DEF IsTable
<1>12. ASSUME NEW h \in Frame, NEW j \in Index, IsTable(k, D, h)
       PROVE  At(k3, h, j) = At(k, h, j)
  <2>1. CASE h = g /\ j = i
    <3>1. At(k3, g, i) = Copy(k3, g, i)
      BY <1>6, <1>7, <1>8 DEF At
    <3>2. k3.swap[SwapName(<<g, i>>)] = k.swap[SwapName(<<g, i>>)]
      <4>1. r.k.swap[SwapName(<<g, i>>)] = k.swap[SwapName(<<g, i>>)]
        BY <1>5
      <4>2. k3.swap = r.k.swap
        BY <1>6, <1>7
      <4> QED
        BY <4>1, <4>2
    <3> QED
      BY <2>1, <3>1, <3>2 DEF At, Copy
  <2>2. CASE h # g \/ j # i
    <3>1. k3.entry[h][j] = r.k.entry[h][j] /\ k3.swap = r.k.swap
      BY <1>6, <1>7, <2>2
    <3>2. At(k3, h, j) = At(r.k, h, j)
      <4>1. r.k.entry[h][j].present => k3.data[r.k.entry[h][j].base] = r.k.data[r.k.entry[h][j].base]
        BY <1>5, <1>8, <1>12
      <4> QED
        BY <3>1, <4>1 DEF At, Copy
    <3> QED
      BY <1>5, <1>12, <3>2
  <2> QED
    BY <2>1, <2>2
<1>13. SameView(k, k3, D)
  BY <1>10, <1>12, PagesSameView
<1>14. FilesOwned(k3, D)
  BY <1>4, <1>5, <1>6, <1>7, <1>11 DEF Memory, FilesOwned
<1>15. CleanSaved(k3, D)
  <2> SUFFICES ASSUME NEW h \in Frame, NEW j \in Index, IsTable(k3, D, h),
                      k3.entry[h][j].present, ~ k3.entry[h][j].dirty
               PROVE  k3.data[k3.entry[h][j].base] = Copy(k3, h, j)
    BY DEF CleanSaved
  <2>1. CASE h = g /\ j = i
    BY <1>6, <1>7, <1>8, <2>1
  <2>2. CASE h # g \/ j # i
    <3>1. k3.entry[h][j] = r.k.entry[h][j] /\ k3.swap = r.k.swap
      BY <1>6, <1>7, <2>2
    <3>2. r.k.data[r.k.entry[h][j].base] = Copy(r.k, h, j)
      BY <1>4, <1>5, <1>11, <3>1 DEF Memory, CleanSaved
    <3>3. r.k.entry[h][j].base \in Frame /\ r.k.entry[h][j].base # f
      BY <1>5, <1>11, <3>1
    <3>4. Copy(k3, h, j) = Copy(r.k, h, j)
      BY <3>1 DEF Copy
    <3> QED
      BY <1>8, <3>1, <3>2, <3>3, <3>4
  <2> QED
    BY <2>1, <2>2
<1> QED
  BY <1>5, <1>6, <1>7, <1>13, <1>14, <1>15 DEF Memory

\* Process p sees v at entry i of its table x; nothing else looks different.
Changed(k, k2, D, p, x, i, v) ==
  \A q \in Process : \A y, j \in Index : View(k2, D, q, y, j) =
    IF q = p /\ y = x /\ j = i THEN v ELSE View(k, D, q, y, j)

\* memcpy into a page changes what one process sees in one page, and marks the
\* page dirty.
LEMMA StoreMemory ==
  ASSUME NEW k \in KType, NEW D \in DType, Owns(k, D), Memory(k, D),
         NEW p \in Process, NEW x \in Index, Points(k, D, p, x),
         NEW g, g = Base(k, D, p, x), NEW i \in Index, k.entry[g][i].present,
         NEW v, NEW k2, k2 = Stored(k, <<g, i>>, v), SameShape(k, k2)
  PROVE  /\ Memory(k2, D)
         /\ Changed(k, k2, D, p, x, i, v)
<1> DEFINE b == k.entry[g][i].base
           marked == [k.entry[g][i] EXCEPT !.dirty = TRUE]
<1>1. g \in Frame /\ IsTable(k, D, g)
  BY DEF Owns, TablesOwned, IsTable
<1>2. b \in Frame /\ k.map[b] = <<g, i>>
  BY <1>1 DEF Owns, PagesOwned
<1>3. k.entry[g][i] \in Entry /\ k.entry \in [Frame -> [Index -> Entry]] /\ k.data \in [Frame -> Content]
  BY <1>1, KFields
<1>4. marked.dirty /\ marked.present /\ marked.base = b
  BY <1>3 DEF Entry
<1>5. k2 = [k EXCEPT !.data = [k.data EXCEPT ![b] = v],
                     !.entry = [k.entry EXCEPT ![g][i] = marked]]
  BY DEF Stored
<1> HIDE DEF b, marked
<1>6. /\ k2.data = [k.data EXCEPT ![b] = v]
      /\ k2.entry = [k.entry EXCEPT ![g][i] = marked]
      /\ k2.swap = k.swap
  BY <1>5 DEF KType
<1>7. /\ \A h \in Frame : k2.data[h] = IF h = b THEN v ELSE k.data[h]
      /\ k2.entry[g][i] = marked
      /\ \A h \in Frame : \A j \in Index : h # g \/ j # i => k2.entry[h][j] = k.entry[h][j]
  <2>1. \A h \in Frame : k2.data[h] = IF h = b THEN v ELSE k.data[h]
    BY <1>3, <1>6
  <2>2. k2.entry[g][i] = marked
    BY <1>1, <1>3, <1>6
  <2>3. ASSUME NEW h \in Frame, NEW j \in Index, h # g \/ j # i
        PROVE  k2.entry[h][j] = k.entry[h][j]
    BY <1>1, <1>3, <1>6, <2>3
  <2> QED
    BY <2>1, <2>2, <2>3
<1>8. ASSUME NEW h \in Frame, NEW j \in Index, IsTable(k, D, h), h # g \/ j # i,
             k.entry[h][j].present
      PROVE  k.entry[h][j].base \in Frame /\ k.entry[h][j].base # b
  <2>1. k.entry[h][j].base \in Frame /\ k.map[k.entry[h][j].base] = <<h, j>>
    BY <1>8 DEF Owns, PagesOwned
  <2>2. <<h, j>> # <<g, i>>
    BY <1>8
  <2> QED
    BY <2>1, <2>2, <1>2
<1>9. /\ \A h \in Frame : IsTable(k2, D, h) <=> IsTable(k, D, h)
      /\ \A q \in Process : \A y \in Index :
           /\ Points(k2, D, q, y) <=> Points(k, D, q, y)
           /\ Points(k, D, q, y) => Base(k2, D, q, y) = Base(k, D, q, y)
  <2>1. \A h \in Frame : \A j \in Index : /\ k2.entry[h][j].present = k.entry[h][j].present
                                          /\ k2.entry[h][j].base = k.entry[h][j].base
    BY DEF SameShape
  <2>2. ASSUME NEW q \in Process, NEW y \in Index
        PROVE  /\ Points(k2, D, q, y) <=> Points(k, D, q, y)
               /\ Points(k, D, q, y) => Base(k2, D, q, y) = Base(k, D, q, y)
    <3> DEFINE d == D[q]
    <3>1. d = NULL \/ d \in Frame
      BY DEF DType
    <3> HIDE DEF d
    <3>2. d # NULL => /\ k2.entry[d][y].present = k.entry[d][y].present
                      /\ k2.entry[d][y].base = k.entry[d][y].base
      BY <2>1, <3>1
    <3> QED
      BY <3>2 DEF Points, Base, d
  <2> QED
    BY <2>2 DEF IsTable
<1>10. At(k2, g, i) = v
  BY <1>2, <1>4, <1>7 DEF At
<1>11. ASSUME NEW h \in Frame, NEW j \in Index, IsTable(k, D, h), h # g \/ j # i
       PROVE  At(k2, h, j) = At(k, h, j)
  BY <1>6, <1>7, <1>8, <1>11 DEF At, Copy
<1>12. ASSUME NEW q \in Process, NEW y \in Index, NEW j \in Index
       PROVE  View(k2, D, q, y, j) =
                IF q = p /\ y = x /\ j = i THEN v ELSE View(k, D, q, y, j)
  <2>1. CASE ~ Points(k, D, q, y)
    BY <1>9, <2>1 DEF View
  <2>2. CASE Points(k, D, q, y)
    <3>1. /\ Base(k, D, q, y) \in Frame
          /\ IsTable(k, D, Base(k, D, q, y))
          /\ Base(k, D, q, y) = g <=> q = p /\ y = x
      BY <2>2 DEF Owns, TablesOwned, IsTable
    <3>2. View(k2, D, q, y, j) = At(k2, Base(k, D, q, y), j)
      BY <1>9, <2>2 DEF View
    <3>3. View(k, D, q, y, j) = At(k, Base(k, D, q, y), j)
      BY <2>2 DEF View
    <3> QED
      BY <1>10, <1>11, <3>1, <3>2, <3>3
  <2> QED
    BY <2>1, <2>2
<1>13. FilesOwned(k2, D)
  BY <1>6, <1>9 DEF Memory, FilesOwned
<1>14. CleanSaved(k2, D)
  <2> SUFFICES ASSUME NEW h \in Frame, NEW j \in Index, IsTable(k2, D, h),
                      k2.entry[h][j].present, ~ k2.entry[h][j].dirty
               PROVE  k2.data[k2.entry[h][j].base] = Copy(k2, h, j)
    BY DEF CleanSaved
  <2>1. h # g \/ j # i
    BY <1>4, <1>7
  <2>2. k2.entry[h][j] = k.entry[h][j] /\ IsTable(k, D, h)
    BY <1>7, <1>9, <2>1
  <2>3. k.data[k.entry[h][j].base] = Copy(k, h, j)
    BY <2>2 DEF Memory, CleanSaved
  <2>4. Copy(k2, h, j) = Copy(k, h, j)
    BY <1>6 DEF Copy
  <2> QED
    BY <1>7, <1>8, <2>1, <2>2, <2>3, <2>4
<1> QED
  BY <1>12, <1>13, <1>14 DEF Memory, Changed

\* What an access does before its permission check changes no page, and ends
\* with the page in a frame.
TranslatedMemory(p, a, t) ==
  /\ Memory(t.k, page_directories)
  /\ SameView(K, t.k, page_directories)
  /\ Points(t.k, page_directories, p, DirIndex(a))
  /\ t.pte = <<Base(t.k, page_directories, p, DirIndex(a)), TableIndex(a)>>
  /\ t.k.entry[Base(t.k, page_directories, p, DirIndex(a))][TableIndex(a)].present

\* After the fault of an access every process sees what it saw before.
LEMMA TranslateMemory ==
  ASSUME IInv, Memory(K, page_directories), NEW p \in Process, page_directories[p] # NULL,
         NEW a \in Page, ~ Translate(p, a).k.dead
  PROVE  TranslatedMemory(p, a, Translate(p, a))
<1> DEFINE D == page_directories
           t0 == TlbFor(p)
           got == TlbGet(t0, a)
           x == DirIndex(a)
           y == TableIndex(a)
           k1 == IF got.entry = NULL /\ ~ entries[D[p]][x].present
                 THEN NewTable(K, D[p], x) ELSE K
           pte == IF got.entry = NULL THEN <<k1.entry[D[p]][x].base, y>> ELSE got.entry
           k2 == IF k1.dead \/ k1.entry[pte[1]][pte[2]].present THEN k1
                 ELSE ReadFromDisk(NewPage(k1, pte), pte)
<1>1. Translate(p, a).k = k2 /\ Translate(p, a).pte = pte
  BY DEF Translate
<1>2. x \in Index /\ y \in Index
  BY DEF Index
<1>3. K \in KType /\ D \in DType /\ Owns(K, D) /\ ~ K.dead /\ K.entry = entries
  BY DEF IInv, KInv, K
<1>4. Memory(K, D) /\ D[p] # NULL
  OBVIOUS
<1> HIDE DEF D, x, y
<1>5. t0 \in Seq(Node) /\ Coherent(K, D, t0, p)
  <2>1. CASE p = curr_pid
    BY <2>1 DEF TlbFor, IInv, CInv, D
  <2>2. CASE p # curr_pid
    BY <2>2, FlushedCoherent DEF TlbFor, Coherent
  <2> QED
    BY <2>1, <2>2
<1> HIDE DEF t0
<1>6. got.entry # NULL => \E m \in DOMAIN t0 : t0[m].addr = a /\ t0[m].entry = got.entry
  BY <1>5, TlbGetSpec
<1> HIDE DEF got
<1>7. got.entry # NULL => Points(K, D, p, x) /\ got.entry = <<Base(K, D, p, x), y>>
  BY <1>5, <1>6 DEF Coherent, x, y
<1>8. ~ k2.dead /\ ~ k1.dead
  <2> HIDE DEF k1, pte
  <2>1. ~ k2.dead
    BY <1>1
  <2>2. k1.dead => k2.dead
    OBVIOUS
  <2> QED
    BY <2>1, <2>2
<1>9. /\ k1 \in KType /\ Owns(k1, D) /\ KeepsTables(K, k1, D) /\ Points(k1, D, p, x)
      /\ Memory(k1, D) /\ SameView(K, k1, D)
  <2>1. CASE got.entry = NULL /\ ~ entries[D[p]][x].present
    <3>1. k1 = NewTable(K, D[p], x)
      BY <2>1
    <3>2. k1 \in KType /\ Owns(k1, D) /\ KeepsTables(K, k1, D) /\ Points(k1, D, p, x)
      BY <2>1, <3>1, <1>2, <1>3, <1>4, <1>8, NewTableOwns
    <3>3. ~ K.entry[D[p]][x].present /\ ~ k1.dead
      BY <2>1, <1>3, <1>8
    <3> HIDE DEF k1
    <3>4. Memory(k1, D) /\ SameView(K, k1, D)
      BY <3>1, <3>3, <1>2, <1>3, <1>4, NewTableMemory
    <3> QED
      BY <3>2, <3>4
  <2>2. CASE ~ (got.entry = NULL /\ ~ entries[D[p]][x].present)
    <3>1. k1 = K
      BY <2>2
    <3>2. Points(K, D, p, x)
      BY <2>2, <1>3, <1>4, <1>7 DEF Points
    <3> QED
      BY <3>1, <3>2, <1>3, <1>4 DEF KeepsTables, SameView
  <2> QED
    BY <2>1, <2>2
<1> DEFINE g == Base(k1, D, p, x)
<1>10. pte = <<g, y>>
  <2>1. CASE got.entry = NULL
    BY <2>1 DEF Base
  <2>2. CASE got.entry # NULL
    BY <2>2, <1>2, <1>7, <1>9 DEF KeepsTables
  <2> QED
    BY <2>1, <2>2
<1>11. g \in Frame /\ IsTable(k1, D, g)
  BY <1>2, <1>9 DEF Owns, TablesOwned, IsTable
<1> HIDE DEF k1, g, pte
<1>12. /\ Memory(k2, D)
       /\ SameView(K, k2, D)
       /\ Points(k2, D, p, x)
       /\ Base(k2, D, p, x) = g
       /\ k2.entry[g][y].present
  <2>1. CASE k1.entry[g][y].present
    <3>1. k2 = k1
      BY <2>1, <1>10
    <3> QED
      BY <2>1, <3>1, <1>9 DEF g
  <2>2. CASE ~ k1.entry[g][y].present
    <3> DEFINE k3 == NewPage(k1, <<g, y>>)
    <3>1. k2 = ReadFromDisk(k3, <<g, y>>)
      BY <2>2, <1>8, <1>10
    <3>2. ~ k3.dead
      BY <3>1, <1>8 DEF ReadFromDisk
    <3>3. k3 \in KType /\ KeepsTables(k1, k3, D) /\ k3.entry[g][y].present
      BY <2>2, <3>2, <1>2, <1>3, <1>8, <1>9, <1>11, NewPageOwns DEF PageAdded
    <3>4. Memory(k2, D) /\ SameView(k1, k2, D)
      <4>1. k3 = NewPage(k1, <<g, y>>)
        OBVIOUS
      <4> HIDE DEF k3, k2
      <4> QED
        BY <2>2, <3>1, <3>2, <4>1, <1>2, <1>3, <1>8, <1>9, <1>11, LoadMemory
    <3> HIDE DEF k3, k2
    <3>5. SameShape(k3, k2)
      BY <3>1, <3>3, <1>2, <1>11, ReadFromDiskShape
    <3>6. \A h \in Frame : \A j \in Index : /\ k2.entry[h][j].present = k3.entry[h][j].present
                                            /\ k2.entry[h][j].base = k3.entry[h][j].base
      BY <3>5 DEF SameShape
    <3>7. Points(k3, D, p, x) /\ Base(k3, D, p, x) = g
      BY <3>3, <1>2, <1>9 DEF KeepsTables, g
    <3>8. Points(k2, D, p, x) /\ Base(k2, D, p, x) = g
      BY <3>6, <3>7, <1>2, <1>3 DEF Points, Base, DType
    <3> QED
      BY <3>3, <3>4, <3>6, <3>8, <1>2, <1>9, <1>11 DEF SameView
  <2> QED
    BY <2>1, <2>2
<1> HIDE DEF k2
<1> DEFINE t == Translate(p, a)
<1>13. t.k = k2 /\ t.pte = <<g, y>>
  BY <1>1, <1>10
<1> HIDE DEF t
<1>14. TranslatedMemory(p, a, t)
  BY <1>12, <1>13 DEF TranslatedMemory, D, x, y
<1> QED
  BY <1>14 DEF t

\* mmu_add_process does not look for swap files, and need not: the table is
\* new, so there are none, and the two pages it fills are blank.
LEMMA BlankPageMemory ==
  ASSUME NEW k \in KType, NEW D \in DType, Owns(k, D), Memory(k, D), ~ k.dead,
         NEW g \in Frame, NEW i \in Index, IsTable(k, D, g), ~ k.entry[g][i].present,
         k.swap[SwapName(<<g, i>>)] = NoFile,
         NEW k2, k2 = NewPage(k, <<g, i>>), ~ k2.dead
  PROVE  /\ Memory(k2, D)
         /\ SameView(k, k2, D)
         /\ \A j \in Index : ~ k.entry[g][j].present =>
              k2.swap[SwapName(<<g, j>>)] = k.swap[SwapName(<<g, j>>)]
<1>1. PICK k3 : k3 = ReadFromDisk(k2, <<g, i>>)
  OBVIOUS
<1>2. /\ Memory(k3, D)
      /\ SameView(k, k3, D)
      /\ \A j \in Index : ~ k.entry[g][j].present =>
           /\ k2.swap[SwapName(<<g, j>>)] = k.swap[SwapName(<<g, j>>)]
           /\ k3.swap[SwapName(<<g, j>>)] = k.swap[SwapName(<<g, j>>)]
  BY <1>1, LoadMemory
<1>3. k3 = k2
  BY <1>1, <1>2 DEF ReadFromDisk
<1> QED
  BY <1>2, <1>3

\* Process p sees blank pages, and the others what they saw.
Added(k, D, p, k2, D2) ==
  \A q \in Process : \A i, j \in Index : View(k2, D2, q, i, j) =
    IF q = p THEN Zero ELSE View(k, D, q, i, j)

\* A new process sees blank pages and the others see what they saw.
LEMMA BuiltMemory ==
  ASSUME IInv, Memory(K, page_directories),
         NEW p \in Process, page_directories[p] = NULL, ~ Built.k.dead,
         NEW D2, D2 = [page_directories EXCEPT ![p] = Built.dir]
  PROVE  /\ Memory(Built.k, D2)
         /\ Added(K, page_directories, p, Built.k, D2)
<1> DEFINE D == page_directories
           r == Ask(K, NULL)
           d == r.frame
           k1 == IF d = NULL THEN Dead(K) ELSE NewTable(r.k, d, 0)
           g == k1.entry[d][0].base
           k2 == NewPage(k1, <<g, 1>>)
           k3 == NewPage(k2, <<g, 2>>)
<1>1. K \in KType /\ D \in DType /\ Owns(K, D) /\ ~ K.dead
  BY DEF IInv, KInv, K
<1>2. {0, 1, 2} \subseteq Index
  BY DEF Index
<1>3. Built = IF k1.dead THEN [k |-> k1, dir |-> NULL] ELSE [k |-> k3, dir |-> d]
  BY DEF Built
<1>4. ~ k1.dead /\ Built.k = k3 /\ Built.dir = d /\ ~ k3.dead
  BY <1>3
<1>5. d # NULL /\ k1 = NewTable(r.k, d, 0)
  BY <1>4 DEF Dead, K
<1>6. r = Ask(K, NULL) /\ D[p] = NULL /\ Memory(K, D)
  OBVIOUS
<1> HIDE DEF D, r, k1, k2, k3
<1>7. D2 = [D EXCEPT ![p] = r.frame]
  BY <1>4 DEF D
<1>8. /\ D2 \in DType
      /\ Owns(r.k, D2)
      /\ \A i \in Index : ~ r.k.entry[r.frame][i].present
      /\ \A q \in Process : \A i \in Index : D[q] # NULL =>
           r.k.entry[D[q]][i] = K.entry[D[q]][i]
  <2>1. /\ [D EXCEPT ![p] = r.frame] \in DType
        /\ Owns(r.k, [D EXCEPT ![p] = r.frame])
        /\ \A i \in Index : ~ r.k.entry[r.frame][i].present
        /\ \A q \in Process : \A i \in Index : D[q] # NULL =>
             r.k.entry[D[q]][i] = K.entry[D[q]][i]
    BY <1>1, <1>5, <1>6, NewDirectoryOwns
  <2> QED
    BY <1>7, <2>1
<1>9. r.k \in KType /\ ~ r.k.dead /\ d \in Frame
  <2>1. Handed(K, NULL, r)
    BY <1>1, <1>5, <1>6, AskSpec
  <2> QED
    BY <2>1, <1>1 DEF Handed
<1>10. D2[p] = d /\ \A q \in Process : q # p => D2[q] = D[q]
  BY <1>1, <1>7 DEF DType
<1>11. /\ \A h \in Frame : \A j \in Index : IsTable(K, D, h) =>
            /\ At(r.k, h, j) = At(K, h, j)
            /\ ~ K.entry[h][j].present =>
                 r.k.swap[SwapName(<<h, j>>)] = K.swap[SwapName(<<h, j>>)]
            /\ r.k.entry[h][j].present =>
                 r.k.entry[h][j].base \in Frame /\ r.k.entry[h][j].base # r.frame
       /\ \A h \in Frame : \A j \in Index :
            ~ IsTable(K, D, h) => r.k.swap[SwapName(<<h, j>>)] = NoFile
       /\ Memory(r.k, D)
       /\ r.k.data[r.frame] = Zero
  <2>1. NULL \in PTE \cup {NULL}
    OBVIOUS
  <2> QED
    BY <1>1, <1>5, <1>6, <2>1, AskKeepsPages
<1>12. \A q \in Process : \A i \in Index :
         /\ Points(r.k, D2, q, i) <=> q # p /\ Points(K, D, q, i)
         /\ Points(K, D, q, i) =>
              Base(r.k, D2, q, i) = Base(K, D, q, i) /\ Base(r.k, D, q, i) = Base(K, D, q, i)
         /\ Points(r.k, D, q, i) <=> Points(K, D, q, i)
  BY <1>6, <1>8, <1>10 DEF Points, Base
<1>13. \A q \in Process : \A i, j \in Index :
         View(r.k, D2, q, i, j) = IF q = p THEN Zero ELSE View(K, D, q, i, j)
  <2> SUFFICES ASSUME NEW q \in Process, NEW i \in Index, NEW j \in Index
               PROVE  View(r.k, D2, q, i, j) = IF q = p THEN Zero ELSE View(K, D, q, i, j)
    OBVIOUS
  <2>1. CASE ~ Points(r.k, D2, q, i)
    BY <1>12, <2>1 DEF View
  <2>2. CASE Points(r.k, D2, q, i)
    <3>1. q # p /\ Points(K, D, q, i) /\ Base(r.k, D2, q, i) = Base(K, D, q, i)
      BY <1>12, <2>2
    <3>2. Base(K, D, q, i) \in Frame /\ IsTable(K, D, Base(K, D, q, i))
      BY <1>1, <3>1 DEF Owns, TablesOwned, IsTable
    <3> QED
      BY <1>11, <2>2, <3>1, <3>2 DEF View
  <2> QED
    BY <2>1, <2>2
<1>14. \A h \in Frame : IsTable(r.k, D2, h) <=> IsTable(r.k, D, h)
  <2>1. \A i \in Index : ~ Points(K, D, p, i)
    BY <1>6 DEF Points
  <2> QED
    BY <1>12, <2>1 DEF IsTable
<1>15. Memory(r.k, D2)
  BY <1>11, <1>14 DEF Memory, FilesOwned, CleanSaved
<1> HIDE DEF d
<1>16. D2[p] # NULL /\ ~ r.k.entry[D2[p]][0].present /\ k1 = NewTable(r.k, D2[p], 0)
  BY <1>2, <1>5, <1>8, <1>10 DEF d
<1>17. /\ k1 \in KType
       /\ Owns(k1, D2)
       /\ Points(k1, D2, p, 0)
       /\ \A j \in Index : ~ k1.entry[Base(k1, D2, p, 0)][j].present
  BY <1>2, <1>4, <1>8, <1>9, <1>16, NewTableOwns
<1>18. /\ Memory(k1, D2)
       /\ SameView(r.k, k1, D2)
       /\ NoFiles(k1, Base(k1, D2, p, 0))
  <2>1. PICK k0 : k0 = r.k
    OBVIOUS
  <2>2. PICK i : i = 0
    OBVIOUS
  <2>3. /\ k0 \in KType /\ D2 \in DType /\ Owns(k0, D2) /\ Memory(k0, D2) /\ ~ k0.dead
        /\ D2[p] # NULL /\ i \in Index /\ ~ k0.entry[D2[p]][i].present
        /\ k1 = NewTable(k0, D2[p], i) /\ ~ k1.dead
    BY <1>2, <1>4, <1>8, <1>9, <1>15, <1>16, <2>1, <2>2
  <2>4. Memory(k1, D2) /\ SameView(k0, k1, D2) /\ NoFiles(k1, Base(k1, D2, p, i))
    BY <2>3, NewTableMemory
  <2> QED
    BY <2>1, <2>2, <2>4
<1>19. g = Base(k1, D2, p, 0)
  BY <1>10 DEF Base
<1> HIDE DEF g
<1>20. g \in Frame /\ IsTable(k1, D2, g) /\ 1 \in Index /\ 2 \in Index
  BY <1>2, <1>17, <1>19 DEF Owns, TablesOwned, IsTable
<1>21. k2 = NewPage(k1, <<g, 1>>) /\ k3 = NewPage(k2, <<g, 2>>)
  BY DEF k2, k3
<1>22. ~ k2.dead
  <2> SUFFICES ASSUME k2.dead PROVE FALSE
    OBVIOUS
  <2>1. <<g, 1>> \in PTE
    BY <1>20 DEF PTE
  <2>2. k2 \in KType
    BY <1>4, <1>8, <1>17, <1>21, <2>1, NewPageDead
  <2>3. NewPage(k2, <<g, 2>>).dead
    BY <2>2, DeadPropagates
  <2> QED
    BY <1>4, <1>21, <2>3
<1>23. /\ ~ k1.entry[g][1].present /\ ~ k1.entry[g][2].present
       /\ k1.swap[SwapName(<<g, 1>>)] = NoFile
       /\ k1.swap[SwapName(<<g, 2>>)] = NoFile
  BY <1>17, <1>18, <1>19, <1>20 DEF NoFiles
<1>24. /\ k2 \in KType
       /\ Owns(k2, D2)
       /\ IsTable(k2, D2, g)
       /\ ~ k2.entry[g][2].present
  <2>1. PageAdded(k1, D2, g, 1, k2)
    BY <1>4, <1>8, <1>17, <1>20, <1>21, <1>22, <1>23, NewPageOwns
  <2>2. k2.entry[g][2].present => k1.entry[g][2].present
    BY <1>20, <2>1 DEF PageAdded
  <2> QED
    BY <1>20, <1>23, <2>1, <2>2 DEF PageAdded
<1>25. /\ Memory(k2, D2)
       /\ SameView(k1, k2, D2)
       /\ \A j \in Index : ~ k1.entry[g][j].present =>
            k2.swap[SwapName(<<g, j>>)] = k1.swap[SwapName(<<g, j>>)]
  BY <1>4, <1>8, <1>17, <1>18, <1>20, <1>21, <1>22, <1>23, BlankPageMemory
<1>26. k2.swap[SwapName(<<g, 2>>)] = NoFile
  BY <1>20, <1>23, <1>25
<1>27. /\ Memory(k3, D2)
       /\ SameView(k2, k3, D2)
       /\ \A j \in Index : ~ k2.entry[g][j].present =>
            k3.swap[SwapName(<<g, j>>)] = k2.swap[SwapName(<<g, j>>)]
  BY <1>4, <1>8, <1>20, <1>21, <1>22, <1>24, <1>25, <1>26, BlankPageMemory
<1>28. \A q \in Process : \A i, j \in Index :
         View(k3, D2, q, i, j) = IF q = p THEN Zero ELSE View(K, D, q, i, j)
  <2> SUFFICES ASSUME NEW q \in Process, NEW i \in Index, NEW j \in Index
               PROVE  View(k3, D2, q, i, j) = IF q = p THEN Zero ELSE View(K, D, q, i, j)
    OBVIOUS
  <2>1. View(k3, D2, q, i, j) = View(k2, D2, q, i, j)
    BY <1>27 DEF SameView
  <2>2. View(k2, D2, q, i, j) = View(k1, D2, q, i, j)
    BY <1>25 DEF SameView
  <2>3. View(k1, D2, q, i, j) = View(r.k, D2, q, i, j)
    BY <1>18 DEF SameView
  <2> QED
    BY <1>13, <2>1, <2>2, <2>3
<1> QED
  BY <1>4, <1>27, <1>28 DEF D, Added

------------------------------------------------------------------------------
(* The abstract memory.                                                     *)

\* Two pages differ in the index of their table or in their index in it.
LEMMA PagesApart ==
  ASSUME NEW a \in Page, NEW b \in Page, DirIndex(a) = DirIndex(b), TableIndex(a) = TableIndex(b)
  PROVE  a = b
<1>1. a \in Nat /\ b \in Nat /\ NumEntries \in Nat \ {0}
  BY SizeAssumption
<1>2. /\ a = NumEntries * (a \div NumEntries) + (a % NumEntries)
      /\ b = NumEntries * (b \div NumEntries) + (b % NumEntries)
  BY <1>1
<1> QED
  BY <1>1, <1>2 DEF DirIndex, TableIndex

Array(k, D, p) == [a \in Page |-> View(k, D, p, DirIndex(a), TableIndex(a))]
Spaces(k, D) == [p \in Process |-> IF D[p] # NULL THEN Array(k, D, p) ELSE NULL]

\* The abstract memory of the refinement mapping is what the views show.
LEMMA SpaceIs == IInv => space = Spaces(K, page_directories)
<1> SUFFICES ASSUME IInv, NEW p \in Process
             PROVE  (IF p \in Live THEN [a \in Page |-> PageOf(p, a)] ELSE NULL) =
                    IF page_directories[p] # NULL THEN Array(K, page_directories, p) ELSE NULL
  BY DEF space, Spaces
<1>1. p \in Live <=> page_directories[p] # NULL
  BY DEF Live
<1>2. ASSUME page_directories[p] # NULL, NEW a \in Page
      PROVE  PageOf(p, a) = View(K, page_directories, p, DirIndex(a), TableIndex(a))
  <2>1. K.entry = entries /\ K.data = data /\ K.swap = swap
    BY DEF K
  <2> QED
    BY <1>2, <2>1 DEF PageOf, View, Points, Base, At, Copy
<1> QED
  BY <1>1, <1>2 DEF Array

\* What a process sees of a page is the contents of a page.
LEMMA ViewType ==
  ASSUME NEW k \in KType, NEW D \in DType, Owns(k, D),
         NEW p \in Process, NEW i \in Index, NEW j \in Index
  PROVE  View(k, D, p, i, j) \in Content
<1>1. CASE ~ Points(k, D, p, i)
  BY <1>1 DEF View, Content
<1>2. CASE Points(k, D, p, i)
  <2> DEFINE g == Base(k, D, p, i)
  <2>1. g \in Frame /\ IsTable(k, D, g)
    BY <1>2 DEF Owns, TablesOwned, IsTable
  <2> HIDE DEF g
  <2>2. CASE k.entry[g][j].present
    <3>1. k.entry[g][j].base \in Frame
      BY <2>1, <2>2 DEF Owns, PagesOwned
    <3>2. k.data[k.entry[g][j].base] \in Content
      BY <3>1, KFields
    <3> QED
      BY <1>2, <2>2, <3>2 DEF View, At, g
  <2>3. CASE ~ k.entry[g][j].present
    <3>1. k.swap[SwapName(<<g, j>>)] \in Content \cup {NoFile} /\ Zero \in Content
      BY <2>1, SwapNameIn, KFields DEF Content
    <3>2. Copy(k, g, j) \in Content
      BY <3>1 DEF Copy
    <3> QED
      BY <1>2, <2>3, <3>2 DEF View, At, g
  <2> QED
    BY <2>2, <2>3
<1> QED
  BY <1>1, <1>2

\* Only processes that exist have an array of pages.
LEMMA SpaceExists ==
  ASSUME NEW k \in KType, NEW D \in DType, Owns(k, D), NEW p \in Process
  PROVE  Spaces(k, D)[p] # NULL <=> D[p] # NULL
<1>1. CASE D[p] = NULL
  BY <1>1 DEF Spaces
<1>2. CASE D[p] # NULL
  <2>1. \A a \in Page : DirIndex(a) \in Index /\ TableIndex(a) \in Index
    BY DEF Index
  <2>2. \A a \in Page : View(k, D, p, DirIndex(a), TableIndex(a)) \in Content
    BY <2>1, ViewType
  <2>3. Array(k, D, p) \in [Page -> Content]
    BY <2>2 DEF Array
  <2>4. Spaces(k, D)[p] = Array(k, D, p)
    BY <1>2 DEF Spaces
  <2> QED
    BY <1>2, <2>3, <2>4, NullAssumption
<1> QED
  BY <1>1, <1>2

\* Equal views are equal abstract memories.
LEMMA SameSpaces ==
  ASSUME NEW k, NEW k2, NEW D, SameView(k, k2, D)
  PROVE  Spaces(k2, D) = Spaces(k, D)
<1>1. \A a \in Page : DirIndex(a) \in Index /\ TableIndex(a) \in Index
  BY DEF Index
<1>2. \A p \in Process : Array(k2, D, p) = Array(k, D, p)
  BY <1>1 DEF Array, SameView
<1> QED
  BY <1>2 DEF Spaces

\* The pages the segments S let the processes of D use.
Allowed(D, S, perm) ==
  [p \in Process |->
     IF D[p] = NULL THEN {}
     ELSE {a \in Page : /\ Covering(S[p], a) # {}
                        /\ perm \in FindSegment(S[p], a).perms}]

\* The abstract permissions depend on directories and segments only.
LEMMA PermittingIs ==
  /\ Permitting("READ") = Allowed(page_directories, segmentations, "READ")
  /\ Permitting("WRITE") = Allowed(page_directories, segmentations, "WRITE")
  /\ Permitting("READ")' = Allowed(page_directories', segmentations', "READ")
  /\ Permitting("WRITE")' = Allowed(page_directories', segmentations', "WRITE")
BY DEF Permitting, Allowed, Live, Permits

\* The segments of one process move.
LEMMA SegmentsOfOne ==
  ASSUME NEW p \in Process,
         \A q \in Process : q # p => /\ page_directories'[q] = page_directories[q]
                                     /\ segmentations'[q] = segmentations[q]
  PROVE  VM!Segments(p)
<1>1. ASSUME NEW perm
      PROVE  /\ Allowed(page_directories', segmentations', perm) \in [Process -> SUBSET Page]
             /\ \A q \in Process \ {p} : Allowed(page_directories', segmentations', perm)[q] =
                                         Allowed(page_directories, segmentations, perm)[q]
  BY DEF Allowed
<1>2. /\ Permitting("READ")' \in [Process -> SUBSET Page]
      /\ Permitting("WRITE")' \in [Process -> SUBSET Page]
      /\ \A q \in Process \ {p} : /\ Permitting("READ")'[q] = Permitting("READ")[q]
                                  /\ Permitting("WRITE")'[q] = Permitting("WRITE")[q]
  BY <1>1, PermittingIs
<1> QED
  BY <1>2 DEF VM!Segments

\* Permissions stay when directories and segments do.
LEMMA SegmentsStay ==
  ASSUME UNCHANGED <<page_directories, segmentations>>
  PROVE  Permitting("READ")' = Permitting("READ") /\ Permitting("WRITE")' = Permitting("WRITE")
BY PermittingIs

\* What the steps of the MMU do to the abstract memory starts and ends in
\* states of this form.
MInv == IInv /\ Memory(K, page_directories)

\* The same mapping, of the state after a step.
LEMMA SpaceThen ==
  ASSUME IInv'
  PROVE  space' = Spaces(K', page_directories')
<1>1. IInv' => (space = Spaces(K, page_directories))'
  BY SpaceIs, PTL
<1> QED
  BY <1>1

\* A step that leaves pages, segments and reply alone.
LEMMA Invisible ==
  ASSUME IInv, IInv', UNCHANGED <<kernelVars, page_directories, segmentations, last>>
  PROVE  UNCHANGED VM!vars
<1>1. K' = K
  BY DEF kernelVars, K
<1>2. space' = space
  BY <1>1, SpaceIs, SpaceThen
<1> QED
  BY <1>2, SegmentsStay DEF VM!vars

\* The death of the program is a stutter of the abstract memory.
LEMMA CrashInvisible ==
  ASSUME MInv, IInv', Crash
  PROVE  /\ UNCHANGED VM!vars
         /\ Memory(K', page_directories')
<1>1. UNCHANGED <<kernelVars, page_directories, segmentations, last>>
  BY DEF Crash, mmuVars
<1>2. K' = K
  BY <1>1 DEF kernelVars, K
<1> QED
  BY <1>1, <1>2, Invisible DEF MInv

\* An address outside every segment: the abstract process may not use the
\* page either.
LEMMA SegFaultImplements ==
  ASSUME MInv, IInv', NEW p \in Process, NEW a \in Page, NEW op \in {"read", "write"},
         SegFault(p, a, op)
  PROVE  /\ Value # {} => VM!Next
         /\ Memory(K', page_directories')
<1>1. /\ page_directories[p] # NULL
      /\ Covering(segmentations[p], a) = {}
      /\ last' = Reply(op, p, SEGV)
      /\ UNCHANGED <<kernelVars, page_directories, segmentations, crashed>>
  BY DEF SegFault, Alive
<1>2. K' = K
  BY <1>1 DEF kernelVars, K
<1>3. space' = space
  BY <1>1, <1>2, SpaceIs, SpaceThen DEF MInv
<1>4. /\ Permitting("READ")' = Permitting("READ")
      /\ Permitting("WRITE")' = Permitting("WRITE")
  BY <1>1, SegmentsStay
<1>5. a \notin Permitting("READ")[p] /\ a \notin Permitting("WRITE")[p]
  BY <1>1, PermittingIs DEF Allowed
<1>6. space[p] # NULL
  BY <1>1, SpaceIs, SpaceExists DEF MInv, IInv, KInv
<1>7. CASE op = "read"
  <2>1. VM!Load(p, a)
    BY <1>1, <1>3, <1>4, <1>5, <1>6, <1>7 DEF VM!Load, VM!Reply, Reply
  <2> QED
    BY <1>1, <1>2, <2>1 DEF VM!Next, MInv
<1>8. CASE op = "write"
  <2>1. \A v \in Value : VM!Store(p, a, v)
    BY <1>1, <1>3, <1>4, <1>5, <1>6, <1>8 DEF VM!Store, VM!Reply, Reply
  <2>2. Value # {} => VM!Next
    BY <2>1 DEF VM!Next
  <2> QED
    BY <1>1, <1>2, <2>2 DEF MInv
<1> QED
  BY <1>7, <1>8

\* What both accesses know when they reach their permission check.
LEMMA AccessReaches ==
  ASSUME MInv, NEW p \in Process, NEW a \in Page, Inside(p, a),
         NEW t, t = Translate(p, a), ~ t.k.dead
  PROVE  /\ Translated(p, a, t)
         /\ TranslatedMemory(p, a, t)
         /\ space = Spaces(t.k, page_directories)
         /\ space[p] # NULL
         /\ space[p][a] = View(t.k, page_directories, p, DirIndex(a), TableIndex(a))
         /\ Loaded(t.k, t.pte) = View(t.k, page_directories, p, DirIndex(a), TableIndex(a))
         /\ a \in Permitting("READ")[p] <=> Permits(p, a, "READ")
         /\ a \in Permitting("WRITE")[p] <=> Permits(p, a, "WRITE")
<1> DEFINE D == page_directories
<1>1. D[p] # NULL /\ Covering(segmentations[p], a) # {}
  BY DEF Inside, Alive
<1>2. Translated(p, a, t) /\ TranslatedMemory(p, a, t)
  BY <1>1, TranslateSpec, TranslateMemory DEF MInv, IInv
<1>3. space = Spaces(t.k, D)
  BY <1>2, SpaceIs, SameSpaces DEF TranslatedMemory, MInv
<1>4. t.k \in KType /\ D \in DType /\ Owns(t.k, D)
  BY <1>2 DEF Translated, MInv, IInv, KInv
<1>5. space[p] # NULL
  BY <1>1, <1>3, <1>4, SpaceExists
<1>6. space[p][a] = View(t.k, D, p, DirIndex(a), TableIndex(a))
  BY <1>1, <1>3 DEF Spaces, Array
<1>7. Loaded(t.k, t.pte) = View(t.k, D, p, DirIndex(a), TableIndex(a))
  BY <1>2 DEF TranslatedMemory, Loaded, View, At
<1>8. /\ a \in Permitting("READ")[p] <=> Permits(p, a, "READ")
      /\ a \in Permitting("WRITE")[p] <=> Permits(p, a, "WRITE")
  <2>1. p \in Live
    BY <1>1 DEF Live
  <2>2. \A perm : a \in Permitting(perm)[p] <=> Permits(p, a, perm)
    BY <1>1, <2>1 DEF Permitting
  <2> QED
    BY <2>2
<1> QED
  BY <1>2, <1>3, <1>5, <1>6, <1>7, <1>8

\* A read answers the page of the abstract array, or SEGV.
LEMMA ReadFromImplements ==
  ASSUME MInv, IInv', NEW p \in Process, NEW a \in Page, ReadFrom(p, a)
  PROVE  /\ VM!Next
         /\ Memory(K', page_directories')
<1>1. PICK t : t = Translate(p, a)
  OBVIOUS
<1>2. /\ Inside(p, a)
      /\ ~ t.k.dead
      /\ UNCHANGED <<page_directories, segmentations>>
      /\ SetKernel(t.k)
      /\ last' = Reply("read", p, IF Permits(p, a, "READ") THEN Loaded(t.k, t.pte) ELSE SEGV)
  BY <1>1 DEF ReadFrom, Access
<1>3. /\ Translated(p, a, t)
      /\ TranslatedMemory(p, a, t)
      /\ space = Spaces(t.k, page_directories)
      /\ space[p] # NULL
      /\ Loaded(t.k, t.pte) = space[p][a]
      /\ a \in Permitting("READ")[p] <=> Permits(p, a, "READ")
  BY <1>1, <1>2, AccessReaches
<1>4. K' = t.k
  BY <1>2, <1>3, KernelSet DEF Translated
<1>5. Memory(K', page_directories')
  BY <1>2, <1>3, <1>4 DEF TranslatedMemory
<1>6. space' = space
  BY <1>2, <1>3, <1>4, SpaceThen
<1>7. /\ Permitting("READ")' = Permitting("READ")
      /\ Permitting("WRITE")' = Permitting("WRITE")
  BY <1>2, SegmentsStay
<1>8. VM!Load(p, a)
  BY <1>2, <1>3, <1>6, <1>7 DEF VM!Load, VM!Reply, Reply
<1> QED
  BY <1>5, <1>8 DEF VM!Next

\* Storing to a page changes that page of that process, and no other.
LEMMA StoreSpaces ==
  ASSUME NEW k, NEW k2, NEW D \in DType, NEW p \in Process, D[p] # NULL, NEW a \in Page, NEW v,
         Changed(k, k2, D, p, DirIndex(a), TableIndex(a), v)
  PROVE  Spaces(k2, D) = [Spaces(k, D) EXCEPT ![p][a] = v]
<1>1. \A b \in Page : DirIndex(b) \in Index /\ TableIndex(b) \in Index
  BY DEF Index
<1>2. ASSUME NEW q \in Process, NEW b \in Page
      PROVE  View(k2, D, q, DirIndex(b), TableIndex(b)) =
               IF q = p /\ b = a THEN v ELSE View(k, D, q, DirIndex(b), TableIndex(b))
  <2>1. View(k2, D, q, DirIndex(b), TableIndex(b)) =
          IF q = p /\ DirIndex(b) = DirIndex(a) /\ TableIndex(b) = TableIndex(a)
          THEN v ELSE View(k, D, q, DirIndex(b), TableIndex(b))
    BY <1>1 DEF Changed
  <2> QED
    BY <2>1, PagesApart
<1>3. \A q \in Process : Array(k2, D, q) =
         IF q = p THEN [Array(k, D, p) EXCEPT ![a] = v] ELSE Array(k, D, q)
  <2> SUFFICES ASSUME NEW q \in Process
               PROVE  Array(k2, D, q) =
                        IF q = p THEN [Array(k, D, p) EXCEPT ![a] = v] ELSE Array(k, D, q)
    OBVIOUS
  <2>1. CASE q = p
    BY <1>2, <2>1 DEF Array
  <2>2. CASE q # p
    BY <1>2, <2>2 DEF Array
  <2> QED
    BY <2>1, <2>2
<1>4. Spaces(k, D)[p] = Array(k, D, p)
  BY DEF Spaces
<1>5. [Spaces(k, D) EXCEPT ![p][a] = v] = [Spaces(k, D) EXCEPT ![p] = [Array(k, D, p) EXCEPT ![a] = v]]
  BY <1>4
<1>6. [Spaces(k, D) EXCEPT ![p] = [Array(k, D, p) EXCEPT ![a] = v]] = Spaces(k2, D)
  BY <1>3 DEF Spaces
<1> QED
  BY <1>5, <1>6

\* A write changes that page of the abstract array, or answers SEGV.
LEMMA WriteToImplements ==
  ASSUME MInv, IInv', NEW p \in Process, NEW a \in Page, NEW v \in Value, WriteTo(p, a, v)
  PROVE  /\ VM!Next
         /\ Memory(K', page_directories')
<1>1. PICK t : t = Translate(p, a)
  OBVIOUS
<1>2. /\ Inside(p, a)
      /\ ~ t.k.dead
      /\ UNCHANGED <<page_directories, segmentations>>
      /\ \/ /\ Permits(p, a, "WRITE")
            /\ SetKernel(Stored(t.k, t.pte, <<p, v>>))
            /\ last' = Reply("write", p, NULL)
         \/ /\ ~Permits(p, a, "WRITE")
            /\ SetKernel(t.k)
            /\ last' = Reply("write", p, SEGV)
  BY <1>1 DEF WriteTo, Access
<1>3. /\ Translated(p, a, t)
      /\ TranslatedMemory(p, a, t)
      /\ space = Spaces(t.k, page_directories)
      /\ space[p] # NULL
      /\ a \in Permitting("WRITE")[p] <=> Permits(p, a, "WRITE")
  BY <1>1, <1>2, AccessReaches
<1>4. /\ Permitting("READ")' = Permitting("READ")
      /\ Permitting("WRITE")' = Permitting("WRITE")
  BY <1>2, SegmentsStay
<1>5. CASE Permits(p, a, "WRITE")
  <2> DEFINE D == page_directories
             x == DirIndex(a)
             y == TableIndex(a)
             g == Base(t.k, D, p, x)
  <2>1. PICK k2 : k2 = Stored(t.k, t.pte, <<p, v>>)
    OBVIOUS
  <2>2. SetKernel(k2) /\ last' = Reply("write", p, NULL)
    BY <1>2, <1>5, <2>1
  <2>3. t.k \in KType /\ D \in DType /\ Owns(t.k, D) /\ D[p] # NULL
    BY <1>2, <1>3 DEF Translated, MInv, IInv, KInv, Inside, Alive
  <2>4. /\ Memory(t.k, D)
        /\ Points(t.k, D, p, x)
        /\ t.pte = <<g, y>>
        /\ t.k.entry[g][y].present
        /\ x \in Index /\ y \in Index
    BY <1>3 DEF TranslatedMemory, Index
  <2>5. g \in Frame
    BY <2>3, <2>4 DEF Owns, TablesOwned
  <2> HIDE DEF D, x, y, g
  <2>6. SameShape(t.k, k2)
    BY <2>1, <2>3, <2>4, <2>5, StoredShape
  <2>7. K' = k2
    BY <1>2, <2>2, <2>6, KernelSet DEF SameShape
  <2>8. PICK k1 : k1 = t.k
    OBVIOUS
  <2>9. PICK h : h = g
    OBVIOUS
  <2>10. /\ k1 \in KType /\ D \in DType /\ Owns(k1, D) /\ Memory(k1, D)
         /\ x \in Index /\ Points(k1, D, p, x)
         /\ h = Base(k1, D, p, x) /\ y \in Index /\ k1.entry[h][y].present
         /\ k2 = Stored(k1, <<h, y>>, <<p, v>>) /\ SameShape(k1, k2)
    BY <2>1, <2>3, <2>4, <2>6, <2>8, <2>9 DEF g
  <2>11. /\ Memory(k2, D)
         /\ Changed(k1, k2, D, p, x, y, <<p, v>>)
    BY <2>10, StoreMemory
  <2>12. Spaces(k2, D) = [Spaces(k1, D) EXCEPT ![p][a] = <<p, v>>]
    BY <2>3, <2>11, StoreSpaces DEF x, y
  <2>13. space' = [space EXCEPT ![p][a] = <<p, v>>]
    BY <1>2, <1>3, <2>7, <2>8, <2>12, SpaceThen DEF D
  <2>14. VM!Store(p, a, v)
    BY <1>3, <1>4, <1>5, <2>2, <2>13 DEF VM!Store, VM!Reply, Reply
  <2> QED
    BY <1>2, <2>7, <2>11, <2>14 DEF VM!Next, D
<1>6. CASE ~ Permits(p, a, "WRITE")
  <2>1. SetKernel(t.k) /\ last' = Reply("write", p, SEGV)
    BY <1>2, <1>6
  <2>2. K' = t.k
    BY <1>2, <1>3, <2>1, KernelSet DEF Translated
  <2>3. space' = space
    BY <1>2, <1>3, <2>2, SpaceThen
  <2>4. VM!Store(p, a, v)
    BY <1>3, <1>4, <1>6, <2>1, <2>3 DEF VM!Store, VM!Reply, Reply
  <2> QED
    BY <1>2, <1>3, <2>2, <2>4 DEF VM!Next, TranslatedMemory
<1> QED
  BY <1>5, <1>6

\* mmu_add_process creates blank pages, or the program dies.
LEMMA AddProcessImplements ==
  ASSUME MInv, IInv', NEW p \in Process, AddProcess(p)
  PROVE  /\ VM!Next \/ UNCHANGED VM!vars
         /\ Memory(K', page_directories')
<1>1. CASE Built.k.dead
  BY <1>1, CrashInvisible DEF AddProcess
<1>2. CASE ~ Built.k.dead
  <2> DEFINE D == page_directories
  <2>1. PICK D2 : D2 = [page_directories EXCEPT ![p] = Built.dir]
    OBVIOUS
  <2>2. /\ page_directories[p] = NULL
        /\ SetKernel(Built.k)
        /\ page_directories' = D2
        /\ segmentations' = [segmentations EXCEPT ![p] = InitialSegments]
        /\ last' = Reply("add", p, NULL)
    BY <1>2, <2>1 DEF AddProcess
  <2>3. Built.k \in KType /\ D2 \in DType /\ D2[p] # NULL
    BY <1>2, <2>1, <2>2, BuiltSpec DEF MInv, IInv
  <2>4. /\ Memory(Built.k, D2)
        /\ Added(K, page_directories, p, Built.k, D2)
    <3>1. IInv /\ Memory(K, page_directories)
      BY DEF MInv
    <3> QED
      BY <1>2, <2>1, <2>2, <3>1, BuiltMemory
  <2>5. K' = Built.k
    BY <1>2, <2>2, <2>3, KernelSet
  <2>6. D \in DType /\ \A q \in Process : q # p => D2[q] = D[q] /\ segmentations'[q] = segmentations[q]
    BY <2>1, <2>2 DEF MInv, IInv, KInv, SInv, DType
  <2>7. \A a \in Page : DirIndex(a) \in Index /\ TableIndex(a) \in Index
    BY DEF Index
  <2>8. /\ Array(Built.k, D2, p) = VM!Blank
        /\ \A q \in Process : q # p => Array(Built.k, D2, q) = Array(K, D, q)
    BY <2>4, <2>7 DEF Array, VM!Blank, Added
  <2> HIDE DEF D
  <2>9. Spaces(Built.k, D2) = [Spaces(K, D) EXCEPT ![p] = VM!Blank]
    BY <2>3, <2>6, <2>8 DEF Spaces
  <2>10. space' = [space EXCEPT ![p] = VM!Blank]
    BY <2>2, <2>5, <2>9, SpaceIs, SpaceThen DEF MInv, D
  <2>11. space[p] = NULL
    BY <2>2, SpaceIs DEF Spaces, MInv
  <2>12. VM!Segments(p)
    BY <2>2, <2>6, SegmentsOfOne DEF D
  <2>13. VM!Create(p)
    BY <2>2, <2>10, <2>11, <2>12 DEF VM!Create, VM!Reply, Reply
  <2> QED
    BY <2>2, <2>4, <2>5, <2>13 DEF VM!Next
<1> QED
  BY <1>1, <1>2

\* Growing and shrinking a segment changes permissions only.
LEMMA ResizeImplements ==
  ASSUME MInv, IInv', NEW p \in Process, NEW s, NEW n, Resize(p, s, n)
  PROVE  /\ VM!Next
         /\ Memory(K', page_directories')
<1>1. /\ page_directories[p] # NULL
      /\ segmentations' = [segmentations EXCEPT ![p][s] = Moved(segmentations[p][s], n)]
      /\ last' = Reply("resize", p, NULL)
      /\ UNCHANGED <<kernelVars, page_directories>>
  BY DEF Resize, Alive
<1>2. K' = K
  BY <1>1 DEF kernelVars, K
<1>3. space' = space
  BY <1>1, <1>2, SpaceIs, SpaceThen DEF MInv
<1>4. space[p] # NULL
  BY <1>1, SpaceIs, SpaceExists DEF MInv, IInv, KInv
<1>5. VM!Segments(p)
  <2>1. \A q \in Process : q # p => segmentations'[q] = segmentations[q]
    BY <1>1 DEF MInv, IInv, SInv
  <2> QED
    BY <1>1, <2>1, SegmentsOfOne
<1>6. VM!Resize(p)
  BY <1>1, <1>3, <1>4, <1>5 DEF VM!Resize, VM!Reply, Reply
<1> QED
  BY <1>1, <1>2, <1>6 DEF VM!Next, MInv

\* mmu_delete ends every process and leaves no file behind.
LEMMA DeleteImplements ==
  ASSUME MInv, IInv', Delete
  PROVE  /\ VM!Next
         /\ Memory(K', page_directories')
<1>1. /\ swap' = [n \in FileName |-> NoFile]
      /\ page_directories' = [p \in Process |-> NULL]
      /\ last' = Reply("delete", NULL, NULL)
  BY DEF Delete
<1>2. Memory(K', page_directories')
  <2>1. \A p \in Process : page_directories'[p] = NULL
    BY <1>1
  <2>2. \A g \in Frame : \A i \in Index : K'.swap[SwapName(<<g, i>>)] = NoFile
    BY <1>1, SwapNameIn DEF K
  <2>3. \A g \in Frame : ~ IsTable(K', page_directories', g)
    BY <2>1 DEF IsTable, Points
  <2> QED
    BY <2>2, <2>3 DEF Memory, FilesOwned, CleanSaved
<1>3. space' = [p \in Process |-> NULL]
  BY <1>1, SpaceThen DEF Spaces
<1>4. Permitting("READ")' = VM!Nobody /\ Permitting("WRITE")' = VM!Nobody
  BY <1>1, PermittingIs DEF Allowed, VM!Nobody
<1>5. VM!Shutdown
  BY <1>1, <1>3, <1>4 DEF VM!Shutdown, VM!Reply, Reply
<1> QED
  BY <1>2, <1>5 DEF VM!Next

------------------------------------------------------------------------------
(* The behaviours of the callers that keep their processes.                 *)

\* Before the first call nothing is on disk and no process exists.
LEMMA InitImplements == Init => MInv /\ VM!Init
<1> SUFFICES ASSUME Init
             PROVE  MInv /\ VM!Init
  OBVIOUS
<1>1. /\ swap = [n \in FileName |-> NoFile]
      /\ page_directories = [p \in Process |-> NULL]
      /\ last = Reply("none", NULL, NULL)
  BY DEF Init
<1>2. IInv
  BY InitIInv
<1>3. Memory(K, page_directories)
  <2>1. \A p \in Process : page_directories[p] = NULL
    BY <1>1
  <2>2. \A g \in Frame : \A i \in Index : K.swap[SwapName(<<g, i>>)] = NoFile
    BY <1>1, SwapNameIn DEF K
  <2>3. \A g \in Frame : ~ IsTable(K, page_directories, g)
    BY <2>1 DEF IsTable, Points
  <2> QED
    BY <2>2, <2>3 DEF Memory, FilesOwned, CleanSaved
<1>4. space = [p \in Process |-> NULL]
  BY <1>1, <1>2, SpaceIs DEF Spaces
<1>5. Permitting("READ") = VM!Nobody /\ Permitting("WRITE") = VM!Nobody
  BY <1>1, PermittingIs DEF Allowed, VM!Nobody
<1>6. VM!Init
  BY <1>1, <1>4, <1>5 DEF VM!Init, VM!Reply, Reply
<1> QED
  BY <1>2, <1>3, <1>6 DEF MInv

\* What a call does to the abstract memory.
Implements == /\ Memory(K', page_directories')
              /\ Value # {} => (VM!Next \/ UNCHANGED VM!vars)

\* Every call of a process.
LEMMA UseImplements ==
  ASSUME MInv, IInv', NEW p \in Process, Use(p)
  PROVE  Implements
<1>1. ASSUME NEW a \in Page, NEW op \in {"read", "write"}, SegFault(p, a, op)
      PROVE  Implements
  BY <1>1, SegFaultImplements DEF Implements
<1>2. ASSUME NEW a \in Page, ReadFrom(p, a)
      PROVE  Implements
  BY <1>2, ReadFromImplements DEF Implements
<1>3. ASSUME NEW a \in Page, AccessCrash(p, a)
      PROVE  Implements
  BY <1>3, CrashInvisible DEF AccessCrash, Implements
<1>4. ASSUME NEW a \in Page, NEW v \in Value, WriteTo(p, a, v)
      PROVE  Implements
  BY <1>4, WriteToImplements DEF Implements
<1>5. CASE AddProcess(p)
  BY <1>5, AddProcessImplements DEF Implements
<1>6. ASSUME NEW s \in Resizable, NEW n \in {-1, 1}, Resize(p, s, n)
      PROVE  Implements
  BY <1>6, ResizeImplements DEF Implements
<1> QED
  BY <1>1, <1>2, <1>3, <1>4, <1>5, <1>6 DEF Use

\* A step of the MMU is a step of the abstract memory or a stutter.
LEMMA StepImplements ==
  MInv /\ [KeepNext]_vars => MInv' /\ (Value # {} => [VM!Next]_(VM!vars))
<1> SUFFICES ASSUME MInv, [KeepNext]_vars
             PROVE  MInv' /\ (Value # {} => [VM!Next]_(VM!vars))
  OBVIOUS
<1>1. IInv'
  <2>1. [Next]_vars
    BY DEF KeepNext, Next
  <2> QED
    BY <2>1, NextIInv DEF MInv
<1>2. ASSUME UNCHANGED vars
      PROVE  Implements
  <2>1. UNCHANGED VM!vars
    BY <1>1, <1>2, Invisible DEF MInv, vars, mmuVars
  <2>2. K' = K /\ page_directories' = page_directories
    BY <1>2 DEF vars, kernelVars, mmuVars, K
  <2> QED
    BY <2>1, <2>2 DEF Implements, MInv
<1>3. ASSUME NEW p \in Process, Use(p)
      PROVE  Implements
  BY <1>1, <1>3, UseImplements
<1>4. ASSUME Delete
      PROVE  Implements
  BY <1>1, <1>4, DeleteImplements DEF Implements
<1>5. Implements
  BY <1>2, <1>3, <1>4 DEF KeepNext
<1>6. Memory(K', page_directories') => Memory(K, page_directories)'
  OBVIOUS
<1> QED
  BY <1>1, <1>5, <1>6 DEF Implements, MInv

\* The invariant of the behaviours without single removals.
LEMMA KeepSpecMInv == KeepSpec => []MInv
BY InitImplements, StepImplements, PTL DEF KeepSpec

\* The invariant in the words of MMUProperties.
LEMMA MInvDirty == MInv => DirtyCoversWrites
<1> SUFFICES ASSUME MInv, NEW t \in PageTables, NEW i \in PresentIn(t),
                    ~ entries[t][i].dirty
             PROVE  data[entries[t][i].base] =
                      IF swap[SwapName(<<t, i>>)] = NoFile THEN Zero ELSE swap[SwapName(<<t, i>>)]
  BY DEF DirtyCoversWrites
<1>1. t \in Frame /\ IsTable(K, page_directories, t)
  BY TablesOfIInv DEF MInv
<1>2. i \in Index /\ entries[t][i].present
  BY DEF PresentIn
<1>3. K.entry = entries /\ K.data = data /\ K.swap = swap
  BY DEF K
<1>4. K.data[K.entry[t][i].base] = Copy(K, t, i)
  BY <1>1, <1>2, <1>3 DEF MInv, Memory, CleanSaved
<1> QED
  BY <1>3, <1>4 DEF Copy

\* A page that is not dirty is the copy on disk (or zero): an eviction that
\* trusted the bit would lose nothing.
THEOREM DirtyBitsCover == KeepSpec => []DirtyCoversWrites
BY KeepSpecMInv, MInvDirty, PTL

\* Frames, page tables, swap files and the TLB are invisible to callers that
\* keep their processes: every call answers what private arrays would answer.
\* Callers that have something to store (a Value) make every reply of the
\* abstract memory possible.
THEOREM MemoryIsImplemented ==
  ASSUME Value # {}
  PROVE  KeepSpec => ImplementsMemory
<1>1. MInv /\ [KeepNext]_vars => [VM!Next]_(VM!vars)
  BY StepImplements
<1> QED
  BY <1>1, InitImplements, KeepSpecMInv, PTL DEF KeepSpec, ImplementsMemory, VM!Spec
=============================================================================
