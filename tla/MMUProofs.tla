------------------------------ MODULE MMUProofs ------------------------------
(***************************************************************************)
(* TLAPS proofs about the MMU, for any number of processes, frames, pages  *)
(* and TLB nodes.                                                          *)
(***************************************************************************)
EXTENDS MMUProperties, WellFoundedInduction, FiniteSetTheorems, TLAPS

Entry == [present : BOOLEAN, base : Frame \cup {NULL}, dirty : BOOLEAN]

KType == [map   : [Frame -> PTE \cup {NULL, RESERVED}],
          entry : [Frame -> [Index -> Entry]],
          data  : [Frame -> Content],
          swap  : [FileName -> Content \cup {NoFile}],
          dead  : BOOLEAN]

------------------------------------------------------------------------------
(* The first element of a non-empty set of naturals is one of them.         *)

\* A set of numbers that is not empty has a least one.
LEMMA LeastIn ==
  ASSUME NEW S \in SUBSET Nat, S # {}
  PROVE  Least(S) \in S
<1> DEFINE R == OpToRel(<, Nat)
<1>1. \E n \in S : \A m \in S : ~ (<<m, n>> \in R)
  <2>1. IsWellFoundedOn(R, Nat)
    BY NatLessThanWellFounded
  <2> HIDE DEF R
  <2> QED
    BY <2>1, WFMin
<1>2. ASSUME NEW m \in Nat, NEW n \in Nat, ~ (<<m, n>> \in R)
      PROVE  n <= m
  BY <1>2 DEF OpToRel
<1>3. \E n \in S : \A m \in S : n <= m
  <2> HIDE DEF R
  <2> QED
    BY <1>1, <1>2
<1> QED
  BY <1>3 DEF Least

\* The first frame of a set is in it.
LEMMA LeastFrame ==
  ASSUME NEW S \in SUBSET Frame, S # {}
  PROVE  Least(S) \in S
BY LeastIn, SizeAssumption DEF Frame

\* An empty frame is a table of entries that are not present.
LEMMA NoEntryType == NoEntry \in Entry /\ EmptyFrame \in [Index -> Entry]
BY DEF NoEntry, Entry, EmptyFrame

\* The fields Give changes.
LEMMA GiveFields ==
  ASSUME NEW k \in KType, NEW f \in Frame, NEW e \in PTE \cup {NULL}
  PROVE  /\ Give(k, f, e) \in KType
         /\ Give(k, f, e).map = [k.map EXCEPT ![f] = IF e = NULL THEN RESERVED ELSE e]
         /\ Give(k, f, e).entry = [k.entry EXCEPT ![f] = EmptyFrame]
         /\ Give(k, f, e).dead = k.dead
BY NoEntryType DEF Give, KType, Content

\* The three ways an entry is updated.
LEMMA EntryUpdates ==
  ASSUME NEW r \in Entry, NEW g \in Frame
  PROVE  /\ [r EXCEPT !.present = FALSE, !.base = NULL] \in Entry
         /\ [r EXCEPT !.present = TRUE, !.base = g] \in Entry
         /\ [r EXCEPT !.dirty = TRUE] \in Entry
BY DEF Entry

\* The fields of a kernel and their types.
LEMMA KFields ==
  ASSUME NEW k \in KType
  PROVE  /\ k.map \in [Frame -> PTE \cup {NULL, RESERVED}]
         /\ k.entry \in [Frame -> [Index -> Entry]]
         /\ k.data \in [Frame -> Content]
         /\ k.swap \in [FileName -> Content \cup {NoFile}]
         /\ k.dead \in BOOLEAN
BY DEF KType

\* The swap file of an entry has a name.
LEMMA SwapNameIn ==
  ASSUME NEW g \in Frame, NEW i \in Index
  PROVE  SwapName(<<g, i>>) \in FileName
BY DEF SwapName, FileName, PTE

\* What evicting the page of entry i of the table in frame g leaves behind.
Evicted(k, f, g, i, v) ==
  /\ v \in KType
  /\ v.map = [k.map EXCEPT ![f] = NULL]
  /\ ~v.entry[g][i].present
  /\ \A h \in Frame : \A j \in Index : h # g \/ j # i => v.entry[h][j] = k.entry[h][j]
  /\ v.dead = k.dead

\* Evict does what Evicted says.
LEMMA EvictFields ==
  ASSUME NEW k \in KType, NEW f \in Frame, k.map[f] \in PTE,
         NEW g, NEW i, k.map[f] = <<g, i>>,
         k.entry[g][i].base \in Frame
  PROVE  Evicted(k, f, g, i, Evict(k, f))
<1> DEFINE pte == <<g, i>>
           gone == [k.entry[g][i] EXCEPT !.present = FALSE, !.base = NULL]
<1>1. g \in Frame /\ i \in Index
  BY DEF PTE
<1>2. SwapName(pte) \in FileName
  BY <1>1 DEF SwapName, FileName, PTE
<1>3. Evict(k, f) = [k EXCEPT !.swap = [k.swap EXCEPT ![SwapName(pte)] = k.data[k.entry[g][i].base]],
                              !.entry = [k.entry EXCEPT ![g][i] = gone],
                              !.map = [k.map EXCEPT ![f] = NULL]]
  BY <1>1 DEF Evict
<1>4. k.data[k.entry[g][i].base] \in Content
  BY KFields, <1>1
<1>5. gone \in Entry
  <2>1. k.entry[g][i] \in Entry
    BY <1>1, KFields
  <2> QED
    BY <2>1 DEF Entry
<1> HIDE DEF pte, gone
<1>6. /\ k.map \in [Frame -> PTE \cup {NULL, RESERVED}]
      /\ k.entry \in [Frame -> [Index -> Entry]]
      /\ k.swap \in [FileName -> Content \cup {NoFile}]
  BY KFields, <1>1
<1>7. /\ [k.map EXCEPT ![f] = NULL] \in [Frame -> PTE \cup {NULL, RESERVED}]
      /\ [k.entry EXCEPT ![g][i] = gone] \in [Frame -> [Index -> Entry]]
      /\ [k.swap EXCEPT ![SwapName(pte)] = k.data[k.entry[g][i].base]]
           \in [FileName -> Content \cup {NoFile}]
  BY <1>1, <1>2, <1>4, <1>5, <1>6
<1>8. /\ Evict(k, f).map = [k.map EXCEPT ![f] = NULL]
      /\ Evict(k, f).entry = [k.entry EXCEPT ![g][i] = gone]
      /\ Evict(k, f).swap = [k.swap EXCEPT ![SwapName(pte)] = k.data[k.entry[g][i].base]]
      /\ Evict(k, f).data = k.data
      /\ Evict(k, f).dead = k.dead
  BY <1>3 DEF KType
<1>9. Evict(k, f) \in KType
  BY <1>3, <1>7 DEF KType
<1>10. ~gone.present
  <2>1. k.entry[g][i] \in Entry
    BY <1>1, KFields
  <2> QED
    BY <2>1 DEF Entry, gone
<1>11. ~ Evict(k, f).entry[g][i].present
  BY <1>1, <1>6, <1>8, <1>10
<1>12. ASSUME NEW h \in Frame, NEW j \in Index, h # g \/ j # i
       PROVE  Evict(k, f).entry[h][j] = k.entry[h][j]
  BY <1>1, <1>6, <1>8, <1>12
<1>13. Evict(k, f).map = [k.map EXCEPT ![f] = NULL] /\ Evict(k, f).dead = k.dead
  BY <1>8
<1> QED
  BY <1>9, <1>11, <1>12, <1>13 DEF Evicted

------------------------------------------------------------------------------
(* Ownership of frames, for a kernel k and page directories D.              *)

Points(k, D, p, i) == D[p] # NULL /\ k.entry[D[p]][i].present
Base(k, D, p, i) == k.entry[D[p]][i].base
IsTable(k, D, g) ==
  \E p \in Process : \E i \in Index : Points(k, D, p, i) /\ Base(k, D, p, i) = g

DirectoriesOwned(k, D) ==
  /\ \A p \in Process : D[p] # NULL => k.map[D[p]] = RESERVED
  /\ \A p, q \in Process : D[p] # NULL /\ D[p] = D[q] => p = q
TablesOwned(k, D) ==
  /\ \A p \in Process : \A i \in Index : Points(k, D, p, i) =>
       /\ Base(k, D, p, i) \in Frame
       /\ k.map[Base(k, D, p, i)] = RESERVED
       /\ \A q \in Process : D[q] # Base(k, D, p, i)
  /\ \A p, q \in Process : \A i, j \in Index :
       /\ Points(k, D, p, i)
       /\ Points(k, D, q, j)
       /\ Base(k, D, p, i) = Base(k, D, q, j)
       => p = q /\ i = j
PagesOwned(k, D) ==
  \A g \in Frame : \A i \in Index : IsTable(k, D, g) /\ k.entry[g][i].present =>
     k.entry[g][i].base \in Frame /\ k.map[k.entry[g][i].base] = <<g, i>>
FramesOwned(k, D) ==
  \A f \in Frame :
    /\ \A g \in Frame : \A i \in Index : k.map[f] = <<g, i>> =>
         /\ IsTable(k, D, g)
         /\ k.entry[g][i].present
         /\ k.entry[g][i].base = f
    /\ k.map[f] = RESERVED => IsTable(k, D, f) \/ \E p \in Process : D[p] = f

Owns(k, D) == /\ DirectoriesOwned(k, D)
              /\ TablesOwned(k, D)
              /\ PagesOwned(k, D)
              /\ FramesOwned(k, D)

DType == [Process -> Frame \cup {NULL}]

\* What ask_kernel_for_frame leaves behind when it finds a frame: the frame is
\* empty and has its new owner, and the entry it was evicted from, if any, is
\* not present; everything else is as it was.
Handed(k, e, r) ==
  /\ r.frame \in Frame
  /\ r.k \in KType
  /\ r.k.dead = k.dead
  /\ k.map[r.frame] # RESERVED
  /\ r.k.map = [k.map EXCEPT ![r.frame] = IF e = NULL THEN RESERVED ELSE e]
  /\ \A h \in Frame : \A j \in Index :
       /\ h = r.frame => ~ r.k.entry[h][j].present
       /\ k.map[r.frame] = <<h, j>> => ~ r.k.entry[h][j].present
       /\ h # r.frame /\ k.map[r.frame] # <<h, j>> =>
            r.k.entry[h][j] = k.entry[h][j]

\* A frame that was asked for belongs to nobody else, whoever lost it.
LEMMA AskSpec ==
  ASSUME NEW k \in KType, NEW D \in DType, Owns(k, D), NEW e \in PTE \cup {NULL},
         NEW r, r = Ask(k, e), r.frame # NULL
  PROVE  Handed(k, e, r)
<1> DEFINE owner == IF e = NULL THEN RESERVED ELSE e
<1>0. \A j \in Index : EmptyFrame[j] = NoEntry /\ ~NoEntry.present
  BY DEF EmptyFrame, NoEntry
<1>1. CASE Free(k) # {}
  <2> DEFINE f == Least(Free(k))
  <2>1. f \in Frame /\ k.map[f] = NULL
    BY <1>1, LeastFrame DEF Free
  <2>2. r = [k |-> Give(k, f, e), frame |-> f]
    BY <1>1 DEF Ask
  <2> HIDE DEF f
  <2>3. /\ Give(k, f, e) \in KType
        /\ Give(k, f, e).map = [k.map EXCEPT ![f] = owner]
        /\ Give(k, f, e).entry = [k.entry EXCEPT ![f] = EmptyFrame]
        /\ Give(k, f, e).dead = k.dead
    BY <2>1, GiveFields
  <2>4. k.entry \in [Frame -> [Index -> Entry]]
    BY KFields
  <2>5. \A h \in Frame : \A j \in Index : k.map[f] # <<h, j>>
    BY <2>1, NullAssumption DEF PTE
  <2>6. k.map[f] # RESERVED
    BY <2>1, NullAssumption
  <2>7. r.frame = f /\ r.k = Give(k, f, e)
    BY <2>2
  <2>8. \A h \in Frame : \A j \in Index :
          r.k.entry[h][j] = IF h = f THEN NoEntry ELSE k.entry[h][j]
    BY <2>1, <2>3, <2>4, <2>7, <1>0
  <2>9. r.frame \in Frame /\ k.map[r.frame] # RESERVED
    BY <2>1, <2>6, <2>7
  <2>10. r.k \in KType /\ r.k.dead = k.dead
    BY <2>3, <2>7
  <2>11. r.k.map = [k.map EXCEPT ![r.frame] = owner]
    BY <2>3, <2>7
  <2>12. ASSUME NEW h \in Frame, NEW j \in Index
         PROVE  /\ h = r.frame => ~ r.k.entry[h][j].present
                /\ k.map[r.frame] = <<h, j>> => ~ r.k.entry[h][j].present
                /\ h # r.frame /\ k.map[r.frame] # <<h, j>> =>
                     r.k.entry[h][j] = k.entry[h][j]
    BY <2>5, <2>7, <2>8, <1>0
  <2> QED
    BY <2>9, <2>10, <2>11, <2>12 DEF Handed
<1>2. CASE Free(k) = {} /\ Evictable(k, e) # {}
  <2> DEFINE f == Least(Evictable(k, e))
  <2>1. f \in Frame /\ k.map[f] \notin {NULL, RESERVED}
    BY <1>2, LeastFrame DEF Evictable
  <2>2. r = [k |-> Give(Evict(k, f), f, e), frame |-> f]
    BY <1>2 DEF Ask
  <2> HIDE DEF f
  <2>3. PICK g \in Frame, i \in Index : k.map[f] = <<g, i>>
    BY <2>1, KFields DEF PTE
  <2>4. k.entry[g][i].base \in Frame
    BY <2>1, <2>3 DEF Owns, FramesOwned
  <2> DEFINE v == Evict(k, f)
  <2>5. /\ v \in KType
        /\ v.map = [k.map EXCEPT ![f] = NULL]
        /\ ~v.entry[g][i].present
        /\ \A h \in Frame : \A j \in Index :
             h # g \/ j # i => v.entry[h][j] = k.entry[h][j]
        /\ v.dead = k.dead
    <3>1. k.map[f] \in PTE
      BY <2>3 DEF PTE
    <3>2. Evicted(k, f, g, i, v)
      BY <3>1, <2>1, <2>3, <2>4, EvictFields
    <3> HIDE DEF v
    <3> QED
      BY <3>2 DEF Evicted
  <2> HIDE DEF v
  <2>6. /\ Give(v, f, e) \in KType
        /\ Give(v, f, e).map = [v.map EXCEPT ![f] = owner]
        /\ Give(v, f, e).entry = [v.entry EXCEPT ![f] = EmptyFrame]
        /\ Give(v, f, e).dead = v.dead
    BY <2>1, <2>5, GiveFields
  <2>7. /\ k.map \in [Frame -> PTE \cup {NULL, RESERVED}]
        /\ v.entry \in [Frame -> [Index -> Entry]]
    BY <2>5, KFields
  <2>8. Give(v, f, e).map = [k.map EXCEPT ![f] = owner]
    BY <2>1, <2>5, <2>6, <2>7
  <2>9. \A h \in Frame : \A j \in Index :
           Give(v, f, e).entry[h][j] = IF h = f THEN NoEntry ELSE v.entry[h][j]
    BY <2>1, <2>6, <2>7, <1>0
  <2>10. r.frame = f /\ r.k = Give(v, f, e)
    BY <2>2 DEF v
  <2>11. k.map[f] # RESERVED
    BY <2>1
  <2>12. ASSUME NEW h \in Frame, NEW j \in Index
         PROVE  /\ h = r.frame => ~ r.k.entry[h][j].present
                /\ k.map[r.frame] = <<h, j>> => ~ r.k.entry[h][j].present
                /\ h # r.frame /\ k.map[r.frame] # <<h, j>> =>
                     r.k.entry[h][j] = k.entry[h][j]
    <3>1. r.k.entry[h][j] = IF h = f THEN NoEntry ELSE v.entry[h][j]
      BY <2>9, <2>10
    <3>2. k.map[f] = <<h, j>> <=> h = g /\ j = i
      BY <2>3
    <3> QED
      BY <3>1, <3>2, <2>5, <2>10, <1>0
  <2>13. r.frame \in Frame /\ k.map[r.frame] # RESERVED
    BY <2>1, <2>10, <2>11
  <2>14. r.k \in KType /\ r.k.dead = k.dead
    BY <2>5, <2>6, <2>10
  <2>15. r.k.map = [k.map EXCEPT ![r.frame] = owner]
    BY <2>8, <2>10
  <2> QED
    BY <2>12, <2>13, <2>14, <2>15 DEF Handed
<1> QED
  BY <1>1, <1>2 DEF Ask

\* Handing out a frame touches no directory: a frame that is given away or
\* evicted from belongs to no paging structure.
LEMMA AskKeepsDirectories ==
  ASSUME NEW k \in KType, NEW D \in DType, Owns(k, D), NEW e \in PTE \cup {NULL},
         NEW r, r = Ask(k, e), r.frame # NULL
  PROVE  /\ \A p \in Process : D[p] # NULL =>
              /\ D[p] # r.frame
              /\ \A i \in Index : r.k.entry[D[p]][i] = k.entry[D[p]][i]
         /\ \A g \in Frame : IsTable(r.k, D, g) <=> IsTable(k, D, g)
         /\ \A g \in Frame : IsTable(k, D, g) => g # r.frame /\ k.map[g] = RESERVED
<1>0. /\ r.frame \in Frame
      /\ r.k \in KType
      /\ r.k.dead = k.dead
      /\ k.map[r.frame] # RESERVED
      /\ r.k.map = [k.map EXCEPT ![r.frame] = IF e = NULL THEN RESERVED ELSE e]
      /\ \A h \in Frame : \A j \in Index :
           /\ h = r.frame => ~ r.k.entry[h][j].present
           /\ k.map[r.frame] = <<h, j>> => ~ r.k.entry[h][j].present
           /\ h # r.frame /\ k.map[r.frame] # <<h, j>> =>
                r.k.entry[h][j] = k.entry[h][j]
  <2>1. Handed(k, e, r)
    BY AskSpec
  <2> QED
    BY <2>1 DEF Handed
<1>1. ASSUME NEW p \in Process, D[p] # NULL
      PROVE  D[p] # r.frame /\ D[p] \in Frame
  BY <1>0, <1>1 DEF Owns, DirectoriesOwned, DType
<1>2. ASSUME NEW p \in Process, D[p] # NULL, NEW i \in Index
      PROVE  r.k.entry[D[p]][i] = k.entry[D[p]][i]
  <2>1. ~ IsTable(k, D, D[p])
    BY <1>1, <1>2 DEF Owns, TablesOwned, IsTable
  <2>2. k.map[r.frame] # <<D[p], i>>
    BY <1>0, <1>1, <1>2, <2>1 DEF Owns, FramesOwned
  <2> QED
    BY <1>0, <1>1, <1>2, <2>2
<1>3. \A g \in Frame : IsTable(r.k, D, g) <=> IsTable(k, D, g)
  BY <1>2 DEF IsTable, Points, Base
<1>4. \A g \in Frame : IsTable(k, D, g) => g # r.frame /\ k.map[g] = RESERVED
  BY <1>0 DEF IsTable, Owns, TablesOwned
<1> QED
  BY <1>1, <1>2, <1>3, <1>4

\* A frame asked for as a directory, given to a process that has none.
LEMMA NewDirectoryOwns ==
  ASSUME NEW k \in KType, NEW D \in DType, Owns(k, D),
         NEW p \in Process, D[p] = NULL,
         NEW r, r = Ask(k, NULL), r.frame # NULL
  PROVE  /\ [D EXCEPT ![p] = r.frame] \in DType
         /\ Owns(r.k, [D EXCEPT ![p] = r.frame])
         /\ \A i \in Index : ~ r.k.entry[r.frame][i].present
         /\ \A q \in Process : \A i \in Index : D[q] # NULL =>
              r.k.entry[D[q]][i] = k.entry[D[q]][i]
<1> DEFINE D2 == [D EXCEPT ![p] = r.frame]
           f == r.frame
<1>1. /\ f \in Frame
      /\ r.k \in KType
      /\ k.map[f] # RESERVED
      /\ r.k.map = [k.map EXCEPT ![f] = RESERVED]
      /\ \A j \in Index : ~ r.k.entry[f][j].present
      /\ \A h \in Frame : \A j \in Index :
           /\ k.map[f] = <<h, j>> => ~ r.k.entry[h][j].present
           /\ h # f /\ k.map[f] # <<h, j>> => r.k.entry[h][j] = k.entry[h][j]
  <2>1. Handed(k, NULL, r)
    BY AskSpec
  <2> QED
    BY <2>1 DEF Handed
<1>2. /\ \A q \in Process : D[q] # NULL =>
           /\ D[q] # f
           /\ \A i \in Index : r.k.entry[D[q]][i] = k.entry[D[q]][i]
      /\ \A g \in Frame : IsTable(r.k, D, g) <=> IsTable(k, D, g)
      /\ \A g \in Frame : IsTable(k, D, g) => g # f /\ k.map[g] = RESERVED
  BY AskKeepsDirectories
<1>3. D2 \in DType /\ \A q \in Process : D2[q] = IF q = p THEN f ELSE D[q]
  BY <1>1 DEF DType
<1>4. k.map \in [Frame -> PTE \cup {NULL, RESERVED}]
  BY KFields
<1> HIDE DEF D2, f
<1>5. \A q \in Process : \A i \in Index :
        /\ Points(r.k, D2, q, i) <=> q # p /\ Points(k, D, q, i)
        /\ Points(r.k, D2, q, i) => Base(r.k, D2, q, i) = Base(k, D, q, i)
  BY <1>1, <1>2, <1>3 DEF Points, Base
<1>6. \A g \in Frame : IsTable(r.k, D2, g) <=> IsTable(k, D, g)
  <2>1. \A i \in Index : ~ Points(k, D, p, i)
    BY DEF Points
  <2> QED
    BY <1>5, <2>1 DEF IsTable
<1>7. DirectoriesOwned(r.k, D2)
  BY <1>1, <1>2, <1>3, <1>4 DEF Owns, DirectoriesOwned, DType
<1>8. TablesOwned(r.k, D2)
  <2>1. ASSUME NEW q \in Process, NEW i \in Index, Points(r.k, D2, q, i)
        PROVE  /\ Base(r.k, D2, q, i) \in Frame
               /\ r.k.map[Base(r.k, D2, q, i)] = RESERVED
               /\ \A s \in Process : D2[s] # Base(r.k, D2, q, i)
    <3>1. Points(k, D, q, i) /\ Base(r.k, D2, q, i) = Base(k, D, q, i)
      BY <1>5, <2>1
    <3>2. /\ Base(k, D, q, i) \in Frame
          /\ k.map[Base(k, D, q, i)] = RESERVED
          /\ \A s \in Process : D[s] # Base(k, D, q, i)
      BY <3>1 DEF Owns, TablesOwned
    <3> QED
      BY <3>1, <3>2, <1>1, <1>3, <1>4
  <2>2. ASSUME NEW q \in Process, NEW s \in Process, NEW i \in Index, NEW j \in Index,
               Points(r.k, D2, q, i), Points(r.k, D2, s, j),
               Base(r.k, D2, q, i) = Base(r.k, D2, s, j)
        PROVE  q = s /\ i = j
    BY <2>2, <1>5 DEF Owns, TablesOwned
  <2> QED
    BY <2>1, <2>2 DEF TablesOwned
<1>9. PagesOwned(r.k, D2)
  <2>1. ASSUME NEW g \in Frame, NEW i \in Index,
               IsTable(r.k, D2, g), r.k.entry[g][i].present
        PROVE  r.k.entry[g][i].base \in Frame /\ r.k.map[r.k.entry[g][i].base] = <<g, i>>
    <3>1. IsTable(k, D, g) /\ g # f
      BY <1>2, <1>6, <2>1
    <3>2. k.map[f] # <<g, i>> /\ r.k.entry[g][i] = k.entry[g][i]
      BY <1>1, <2>1, <3>1
    <3>3. k.entry[g][i].base \in Frame /\ k.map[k.entry[g][i].base] = <<g, i>>
      BY <2>1, <3>1, <3>2 DEF Owns, PagesOwned
    <3> DEFINE h == k.entry[g][i].base
    <3>4. h \in Frame /\ k.map[h] = <<g, i>> /\ h # f
      BY <3>2, <3>3
    <3>5. r.k.entry[g][i].base = h
      BY <3>2
    <3> HIDE DEF h
    <3>6. r.k.map[h] = k.map[h]
      BY <1>1, <1>4, <3>4
    <3> QED
      BY <3>4, <3>5, <3>6
  <2> QED
    BY <2>1 DEF PagesOwned
<1>10. FramesOwned(r.k, D2)
  <2>1. ASSUME NEW h \in Frame, NEW g \in Frame, NEW i \in Index, r.k.map[h] = <<g, i>>
        PROVE  IsTable(r.k, D2, g) /\ r.k.entry[g][i].present /\ r.k.entry[g][i].base = h
    <3>1. h # f /\ k.map[h] = <<g, i>>
      <4>1. <<g, i>> # RESERVED
        BY NullAssumption DEF PTE
      <4> QED
        BY <2>1, <4>1, <1>1, <1>4
    <3>2. IsTable(k, D, g) /\ k.entry[g][i].present /\ k.entry[g][i].base = h
      BY <3>1 DEF Owns, FramesOwned
    <3>3. g # f /\ k.map[f] # <<g, i>>
      <4>1. k.map[f] = <<g, i>> => k.entry[g][i].base = f
        BY <1>1 DEF Owns, FramesOwned
      <4> QED
        BY <3>1, <3>2, <4>1, <1>2
    <3> QED
      BY <3>2, <3>3, <1>1, <1>6
  <2>2. ASSUME NEW h \in Frame, r.k.map[h] = RESERVED
        PROVE  IsTable(r.k, D2, h) \/ \E q \in Process : D2[q] = h
    <3>1. CASE h = f
      BY <3>1, <1>3
    <3>2. CASE h # f
      <4>1. IsTable(k, D, h) \/ \E q \in Process : D[q] = h
        BY <2>2, <3>2, <1>1, <1>4 DEF Owns, FramesOwned
      <4>2. \A q \in Process : D[q] = h => D2[q] = h
        BY <1>3, NullAssumption
      <4> QED
        BY <4>1, <4>2, <1>6
    <3> QED
      BY <3>1, <3>2
  <2> QED
    BY <2>1, <2>2 DEF FramesOwned
<1> QED
  BY <1>1, <1>2, <1>3, <1>7, <1>8, <1>9, <1>10 DEF Owns, D2, f

Linked(k, f, i, g, k2) ==
  /\ k2 \in KType
  /\ k2.map = k.map
  /\ k2.dead = k.dead
  /\ k2.entry[f][i].present
  /\ k2.entry[f][i].base = g
  /\ \A h \in Frame : \A j \in Index : h # f \/ j # i => k2.entry[h][j] = k.entry[h][j]

\* Link does what Linked says.
LEMMA LinkSpec ==
  ASSUME NEW k \in KType, NEW f \in Frame, NEW i \in Index, NEW g \in Frame
  PROVE  Linked(k, f, i, g, Link(k, f, i, g))
<1> DEFINE linked == [k.entry[f][i] EXCEPT !.present = TRUE, !.base = g]
<1>1. k.entry[f][i] \in Entry /\ k.entry \in [Frame -> [Index -> Entry]]
  BY KFields
<1>2. linked \in Entry /\ linked.present /\ linked.base = g
  BY <1>1 DEF Entry
<1>3. Link(k, f, i, g) = [k EXCEPT !.entry = [k.entry EXCEPT ![f][i] = linked]]
  BY DEF Link
<1> HIDE DEF linked
<1>4. [k.entry EXCEPT ![f][i] = linked] \in [Frame -> [Index -> Entry]]
  BY <1>1, <1>2
<1>5. Link(k, f, i, g) \in KType
  BY <1>3, <1>4 DEF KType
<1>6. /\ Link(k, f, i, g).map = k.map
      /\ Link(k, f, i, g).dead = k.dead
      /\ Link(k, f, i, g).entry = [k.entry EXCEPT ![f][i] = linked]
  BY <1>3 DEF KType
<1> QED
  BY <1>1, <1>2, <1>5, <1>6 DEF Linked

\* Directory entries that are present stay present, with the same table.
KeepsTables(k, k2, D) ==
  \A p \in Process : \A i \in Index : Points(k, D, p, i) =>
    Points(k2, D, p, i) /\ Base(k2, D, p, i) = Base(k, D, p, i)

\* A new page table for an entry of a directory that is not present.
LEMMA NewTableOwns ==
  ASSUME NEW k \in KType, NEW D \in DType, Owns(k, D), ~ k.dead,
         NEW p \in Process, D[p] # NULL, NEW i \in Index, ~ k.entry[D[p]][i].present,
         ~ NewTable(k, D[p], i).dead
  PROVE  /\ NewTable(k, D[p], i) \in KType
         /\ Owns(NewTable(k, D[p], i), D)
         /\ Points(NewTable(k, D[p], i), D, p, i)
         /\ KeepsTables(k, NewTable(k, D[p], i), D)
         /\ \A j \in Index :
              ~ NewTable(k, D[p], i).entry[Base(NewTable(k, D[p], i), D, p, i)][j].present
<1> DEFINE r == Ask(k, NULL)
           f == r.frame
           d == D[p]
           k2 == NewTable(k, d, i)
<1>0. d \in Frame
  BY DEF DType
<1>1. f # NULL /\ k2 = Link(r.k, d, i, f)
  BY DEF NewTable, Dead, KType
<1> HIDE DEF r
<1>2. Handed(k, NULL, r)
  BY <1>1, AskSpec DEF r
<1>3. /\ f \in Frame
      /\ r.k \in KType
      /\ k.map[f] # RESERVED
      /\ r.k.map = [k.map EXCEPT ![f] = RESERVED]
      /\ \A j \in Index : ~ r.k.entry[f][j].present
      /\ \A h \in Frame : \A j \in Index :
           /\ k.map[f] = <<h, j>> => ~ r.k.entry[h][j].present
           /\ h # f /\ k.map[f] # <<h, j>> => r.k.entry[h][j] = k.entry[h][j]
  BY <1>2 DEF Handed
<1>4. /\ \A q \in Process : D[q] # NULL =>
           /\ D[q] # f
           /\ \A j \in Index : r.k.entry[D[q]][j] = k.entry[D[q]][j]
      /\ \A g \in Frame : IsTable(k, D, g) => g # f /\ k.map[g] = RESERVED
  BY <1>1, AskKeepsDirectories DEF r
<1>5. Linked(r.k, d, i, f, k2)
  BY <1>0, <1>1, <1>3, LinkSpec
<1>6. /\ k2 \in KType
      /\ k2.map = [k.map EXCEPT ![f] = RESERVED]
      /\ k2.entry[d][i].present
      /\ k2.entry[d][i].base = f
      /\ \A h \in Frame : \A j \in Index : h # d \/ j # i => k2.entry[h][j] = r.k.entry[h][j]
  BY <1>3, <1>5 DEF Linked
<1>7. k.map \in [Frame -> PTE \cup {NULL, RESERVED}]
  BY KFields
<1>20. \A h \in Frame : k2.map[h] = IF h = f THEN RESERVED ELSE k.map[h]
  BY <1>3, <1>6, <1>7
<1>8. \A q \in Process : D[q] # NULL => D[q] \in Frame /\ (D[q] = d => q = p)
  BY DEF DType, Owns, DirectoriesOwned
<1> HIDE DEF f, k2
<1>9. \A q \in Process : \A j \in Index :
        /\ Points(k2, D, q, j) <=> Points(k, D, q, j) \/ (q = p /\ j = i)
        /\ Points(k2, D, q, j) =>
             Base(k2, D, q, j) = IF q = p /\ j = i THEN f ELSE Base(k, D, q, j)
  BY <1>4, <1>6, <1>8 DEF Points, Base
<1>10. ~ Points(k, D, p, i)
  BY DEF Points
<1>11. \A g \in Frame : IsTable(k2, D, g) <=> IsTable(k, D, g) \/ g = f
  BY <1>9, <1>10 DEF IsTable
<1>12. DirectoriesOwned(k2, D)
  BY <1>3, <1>4, <1>20, <1>8 DEF Owns, DirectoriesOwned
<1>13. TablesOwned(k2, D)
  <2>1. ASSUME NEW q \in Process, NEW j \in Index, Points(k2, D, q, j)
        PROVE  /\ Base(k2, D, q, j) \in Frame
               /\ k2.map[Base(k2, D, q, j)] = RESERVED
               /\ \A s \in Process : D[s] # Base(k2, D, q, j)
    <3>1. CASE q = p /\ j = i
      BY <2>1, <3>1, <1>3, <1>4, <1>20, <1>9, NullAssumption
    <3>2. CASE ~ (q = p /\ j = i)
      <4>1. Points(k, D, q, j) /\ Base(k2, D, q, j) = Base(k, D, q, j)
        BY <2>1, <3>2, <1>9
      <4>2. /\ Base(k, D, q, j) \in Frame
            /\ k.map[Base(k, D, q, j)] = RESERVED
            /\ \A s \in Process : D[s] # Base(k, D, q, j)
        BY <4>1 DEF Owns, TablesOwned
      <4> QED
        BY <4>1, <4>2, <1>20
    <3> QED
      BY <3>1, <3>2
  <2>2. ASSUME NEW q \in Process, NEW s \in Process, NEW j \in Index, NEW l \in Index,
               Points(k2, D, q, j), Points(k2, D, s, l),
               Base(k2, D, q, j) = Base(k2, D, s, l)
        PROVE  q = s /\ j = l
    <3>1. ASSUME NEW t \in Process, NEW m \in Index, Points(k, D, t, m)
          PROVE  Base(k, D, t, m) # f
      BY <3>1, <1>3 DEF Owns, TablesOwned
    <3>2. CASE q = p /\ j = i
      BY <2>2, <3>1, <3>2, <1>9, <1>10
    <3>3. CASE s = p /\ l = i
      BY <2>2, <3>1, <3>3, <1>9, <1>10
    <3>4. CASE ~ (q = p /\ j = i) /\ ~ (s = p /\ l = i)
      <4>1. Points(k, D, q, j) /\ Points(k, D, s, l) /\ Base(k, D, q, j) = Base(k, D, s, l)
        BY <2>2, <3>4, <1>9
      <4> QED
        BY <4>1 DEF Owns, TablesOwned
    <3> QED
      BY <3>2, <3>3, <3>4
  <2> QED
    BY <2>1, <2>2 DEF TablesOwned
<1>14. PagesOwned(k2, D)
  <2>1. ASSUME NEW g \in Frame, NEW j \in Index, IsTable(k2, D, g), k2.entry[g][j].present
        PROVE  k2.entry[g][j].base \in Frame /\ k2.map[k2.entry[g][j].base] = <<g, j>>
    <3>1. g # d
      BY <2>1, <1>13 DEF TablesOwned, IsTable
    <3>2. k2.entry[g][j] = r.k.entry[g][j]
      BY <3>1, <1>6
    <3>3. g # f /\ IsTable(k, D, g)
      BY <2>1, <3>2, <1>3, <1>11
    <3>4. k.map[f] # <<g, j>> /\ r.k.entry[g][j] = k.entry[g][j]
      BY <2>1, <3>2, <3>3, <1>3
    <3>5. k.entry[g][j].base \in Frame /\ k.map[k.entry[g][j].base] = <<g, j>>
      BY <2>1, <3>2, <3>3, <3>4 DEF Owns, PagesOwned
    <3> DEFINE h == k.entry[g][j].base
    <3>6. h \in Frame /\ k.map[h] = <<g, j>> /\ h # f
      BY <3>4, <3>5
    <3>7. k2.entry[g][j].base = h
      BY <3>2, <3>4
    <3> HIDE DEF h
    <3>8. k2.map[h] = k.map[h]
      BY <1>20, <3>6
    <3> QED
      BY <3>6, <3>7, <3>8
  <2> QED
    BY <2>1 DEF PagesOwned
<1>15. FramesOwned(k2, D)
  <2>1. ASSUME NEW h \in Frame, NEW g \in Frame, NEW j \in Index, k2.map[h] = <<g, j>>
        PROVE  IsTable(k2, D, g) /\ k2.entry[g][j].present /\ k2.entry[g][j].base = h
    <3>1. h # f /\ k.map[h] = <<g, j>>
      <4>1. <<g, j>> # RESERVED
        BY NullAssumption DEF PTE
      <4> QED
        BY <2>1, <4>1, <1>20
    <3>2. IsTable(k, D, g) /\ k.entry[g][j].present /\ k.entry[g][j].base = h
      BY <3>1 DEF Owns, FramesOwned
    <3>3. k.map[f] # <<g, j>>
      BY <3>1, <3>2, <1>3 DEF Owns, FramesOwned
    <3>4. g # f /\ g # d
      BY <3>2, <1>4 DEF IsTable, Owns, TablesOwned
    <3> QED
      BY <3>2, <3>3, <3>4, <1>3, <1>6, <1>11
  <2>2. ASSUME NEW h \in Frame, k2.map[h] = RESERVED
        PROVE  IsTable(k2, D, h) \/ \E q \in Process : D[q] = h
    <3>1. CASE h = f
      BY <3>1, <1>11
    <3>2. CASE h # f
      BY <2>2, <3>2, <1>3, <1>20, <1>11 DEF Owns, FramesOwned
    <3> QED
      BY <3>1, <3>2
  <2> QED
    BY <2>1, <2>2 DEF FramesOwned
<1>16. \A j \in Index : ~ k2.entry[f][j].present
  BY <1>3, <1>4, <1>6
<1>17. Points(k2, D, p, i) /\ Base(k2, D, p, i) = f
  BY <1>9
<1>18. KeepsTables(k, k2, D)
  BY <1>9, <1>10 DEF KeepsTables
<1>19. Owns(k2, D)
  BY <1>12, <1>13, <1>14, <1>15 DEF Owns
<1> QED
  BY <1>6, <1>16, <1>17, <1>18, <1>19 DEF k2

\* What a new page for entry i of the table in frame g changes.
PageAdded(k, D, g, i, k2) ==
  /\ k2 \in KType
  /\ Owns(k2, D)
  /\ KeepsTables(k, k2, D)
  /\ k2.entry[g][i].present
  /\ \A h \in Frame : IsTable(k2, D, h) <=> IsTable(k, D, h)
  /\ \A j \in Index : j # i => (k2.entry[g][j].present => k.entry[g][j].present)

\* A frame for the page of an entry that is not present, of a page table.
LEMMA NewPageOwns ==
  ASSUME NEW k \in KType, NEW D \in DType, Owns(k, D), ~ k.dead,
         NEW g \in Frame, NEW i \in Index, IsTable(k, D, g), ~ k.entry[g][i].present,
         ~ NewPage(k, <<g, i>>).dead
  PROVE  PageAdded(k, D, g, i, NewPage(k, <<g, i>>))
<1> DEFINE e == <<g, i>>
           r == Ask(k, e)
           f == r.frame
           k2 == NewPage(k, e)
<1>0. e \in PTE /\ e # NULL /\ e # RESERVED
  BY NullAssumption DEF PTE
<1>1. f # NULL /\ k2 = Link(r.k, g, i, f)
  BY DEF NewPage, Dead, KType
<1> HIDE DEF r, e
<1>2. Handed(k, e, r)
  BY <1>0, <1>1, AskSpec DEF r
<1>3. /\ f \in Frame
      /\ r.k \in KType
      /\ k.map[f] # RESERVED
      /\ r.k.map = [k.map EXCEPT ![f] = e]
      /\ \A h \in Frame : \A j \in Index :
           /\ h = f => ~ r.k.entry[h][j].present
           /\ k.map[f] = <<h, j>> => ~ r.k.entry[h][j].present
           /\ h # f /\ k.map[f] # <<h, j>> => r.k.entry[h][j] = k.entry[h][j]
  BY <1>0, <1>2 DEF Handed
<1>4. /\ \A q \in Process : D[q] # NULL =>
           /\ D[q] # f
           /\ \A j \in Index : r.k.entry[D[q]][j] = k.entry[D[q]][j]
      /\ \A h \in Frame : IsTable(k, D, h) => h # f /\ k.map[h] = RESERVED
  BY <1>0, <1>1, AskKeepsDirectories DEF r
<1>5. Linked(r.k, g, i, f, k2)
  BY <1>1, <1>3, LinkSpec
<1>6. /\ k2 \in KType
      /\ k2.map = [k.map EXCEPT ![f] = e]
      /\ k2.entry[g][i].present
      /\ k2.entry[g][i].base = f
      /\ \A h \in Frame : \A j \in Index : h # g \/ j # i => k2.entry[h][j] = r.k.entry[h][j]
  BY <1>3, <1>5 DEF Linked
<1>7. k.map \in [Frame -> PTE \cup {NULL, RESERVED}]
  BY KFields
<1>20. \A h \in Frame : k2.map[h] = IF h = f THEN e ELSE k.map[h]
  BY <1>3, <1>6, <1>7
<1>8. \A q \in Process : D[q] # NULL => D[q] \in Frame /\ D[q] # g
  BY DEF DType, Owns, TablesOwned, IsTable
<1> HIDE DEF f, k2
<1>9. \A q \in Process : \A j \in Index :
        /\ Points(k2, D, q, j) <=> Points(k, D, q, j)
        /\ Points(k2, D, q, j) => Base(k2, D, q, j) = Base(k, D, q, j)
  BY <1>4, <1>6, <1>8 DEF Points, Base
<1>10. g # f
  BY <1>4
<1>11. \A h \in Frame : IsTable(k2, D, h) <=> IsTable(k, D, h)
  BY <1>9 DEF IsTable
<1>12. DirectoriesOwned(k2, D)
  BY <1>3, <1>4, <1>20, <1>8 DEF Owns, DirectoriesOwned
<1>13. TablesOwned(k2, D)
  <2>1. ASSUME NEW q \in Process, NEW j \in Index, Points(k2, D, q, j)
        PROVE  /\ Base(k2, D, q, j) \in Frame
               /\ k2.map[Base(k2, D, q, j)] = RESERVED
               /\ \A s \in Process : D[s] # Base(k2, D, q, j)
    <3>1. Points(k, D, q, j) /\ Base(k2, D, q, j) = Base(k, D, q, j)
      BY <2>1, <1>9
    <3>2. /\ Base(k, D, q, j) \in Frame
          /\ k.map[Base(k, D, q, j)] = RESERVED
          /\ \A s \in Process : D[s] # Base(k, D, q, j)
      BY <3>1 DEF Owns, TablesOwned
    <3> QED
      BY <3>1, <3>2, <1>3, <1>20
  <2>2. ASSUME NEW q \in Process, NEW s \in Process, NEW j \in Index, NEW l \in Index,
               Points(k2, D, q, j), Points(k2, D, s, l),
               Base(k2, D, q, j) = Base(k2, D, s, l)
        PROVE  q = s /\ j = l
    BY <2>2, <1>9 DEF Owns, TablesOwned
  <2> QED
    BY <2>1, <2>2 DEF TablesOwned
<1>14. PagesOwned(k2, D)
  <2>1. ASSUME NEW h \in Frame, NEW j \in Index, IsTable(k2, D, h), k2.entry[h][j].present
        PROVE  k2.entry[h][j].base \in Frame /\ k2.map[k2.entry[h][j].base] = <<h, j>>
    <3>1. CASE h = g /\ j = i
      BY <3>1, <1>3, <1>6, <1>20 DEF e
    <3>2. CASE ~ (h = g /\ j = i)
      <4>1. IsTable(k, D, h) /\ h # f
        BY <2>1, <1>4, <1>11
      <4>2. k2.entry[h][j] = r.k.entry[h][j]
        BY <3>2, <1>6
      <4>3. k.map[f] # <<h, j>> /\ r.k.entry[h][j] = k.entry[h][j]
        BY <2>1, <4>1, <4>2, <1>3
      <4>4. k.entry[h][j].base \in Frame /\ k.map[k.entry[h][j].base] = <<h, j>>
        BY <2>1, <4>1, <4>2, <4>3 DEF Owns, PagesOwned
      <4> QED
        BY <4>2, <4>3, <4>4, <1>20
    <3> QED
      BY <3>1, <3>2
  <2> QED
    BY <2>1 DEF PagesOwned
<1>15. FramesOwned(k2, D)
  <2>1. ASSUME NEW h \in Frame, NEW l \in Frame, NEW j \in Index, k2.map[h] = <<l, j>>
        PROVE  IsTable(k2, D, l) /\ k2.entry[l][j].present /\ k2.entry[l][j].base = h
    <3>1. CASE h = f
      <4>1. <<l, j>> = <<g, i>>
        BY <2>1, <3>1, <1>20 DEF e
      <4>2. l = g /\ j = i
        BY <4>1
      <4> QED
        BY <3>1, <4>2, <1>6, <1>11
    <3>2. CASE h # f
      <4>1. k.map[h] = <<l, j>>
        BY <2>1, <3>2, <1>20
      <4>2. IsTable(k, D, l) /\ k.entry[l][j].present /\ k.entry[l][j].base = h
        BY <4>1 DEF Owns, FramesOwned
      <4>3. k.map[f] # <<l, j>>
        BY <3>2, <4>2, <1>3 DEF Owns, FramesOwned
      <4>4. l # f /\ ~ (l = g /\ j = i)
        BY <4>2, <1>4
      <4> QED
        BY <4>2, <4>3, <4>4, <1>3, <1>6, <1>11
    <3> QED
      BY <3>1, <3>2
  <2>2. ASSUME NEW h \in Frame, k2.map[h] = RESERVED
        PROVE  IsTable(k2, D, h) \/ \E q \in Process : D[q] = h
    <3>1. k.map[h] = RESERVED
      BY <2>2, <1>0, <1>3, <1>20
    <3> QED
      BY <3>1, <1>11 DEF Owns, FramesOwned
  <2> QED
    BY <2>1, <2>2 DEF FramesOwned
<1>16. Owns(k2, D)
  BY <1>12, <1>13, <1>14, <1>15 DEF Owns
<1>17. KeepsTables(k, k2, D)
  BY <1>9 DEF KeepsTables
<1>18. \A j \in Index : j # i => (k2.entry[g][j].present => k.entry[g][j].present)
  BY <1>3, <1>6, <1>10
<1> QED
  BY <1>6, <1>11, <1>16, <1>17, <1>18 DEF k2, e, PageAdded

\* Reading a page from disk and storing to one change no present bit, no base
\* and no owner.
SameShape(k, k2) ==
  /\ k2 \in KType
  /\ k2.map = k.map
  /\ k2.dead = k.dead
  /\ \A g \in Frame : \A i \in Index :
       /\ k2.entry[g][i].present = k.entry[g][i].present
       /\ k2.entry[g][i].base = k.entry[g][i].base

\* A kernel that is dead stays dead, and its record keeps its type.
LEMMA DeadType ==
  ASSUME NEW k \in KType
  PROVE  Dead(k) \in KType /\ Dead(k).dead
BY DEF Dead, KType

\* No later call brings a dead program back.
LEMMA DeadPropagates ==
  ASSUME NEW k \in KType, NEW e, k.dead
  PROVE  NewPage(k, e).dead
<1>1. NewPage(k, e) = Dead(k)
  BY DEF NewPage
<1> QED
  BY <1>1, DeadType

\* A program that dies in NewPage leaves a kernel behind.
LEMMA NewPageDead ==
  ASSUME NEW k \in KType, NEW D \in DType, Owns(k, D), ~ k.dead,
         NEW e \in PTE, NewPage(k, e).dead
  PROVE  NewPage(k, e) \in KType
<1> DEFINE r == Ask(k, e)
<1>1. CASE r.frame = NULL
  <2>1. NewPage(k, e) = Dead(k)
    BY <1>1 DEF NewPage
  <2> QED
    BY <2>1, DeadType
<1>2. CASE r.frame # NULL
  <2>1. NewPage(k, e) = Link(r.k, e[1], e[2], r.frame)
    BY <1>2 DEF NewPage
  <2>2. Handed(k, e, r)
    BY <1>2, AskSpec
  <2>3. r.frame \in Frame /\ r.k \in KType /\ e[1] \in Frame /\ e[2] \in Index
    BY <2>2 DEF Handed, PTE
  <2> HIDE DEF r
  <2>4. Linked(r.k, e[1], e[2], r.frame, Link(r.k, e[1], e[2], r.frame))
    BY <2>3, LinkSpec
  <2> QED
    BY <2>1, <2>4 DEF Linked
<1> QED
  BY <1>1, <1>2

\* Contents, files and dirty bits say nothing of who owns a frame.
LEMMA SameShapeOwns ==
  ASSUME NEW k \in KType, NEW k2, SameShape(k, k2), NEW D \in DType, Owns(k, D)
  PROVE  /\ Owns(k2, D)
         /\ KeepsTables(k, k2, D)
         /\ \A g \in Frame : IsTable(k2, D, g) <=> IsTable(k, D, g)
<1>1. /\ k2.map = k.map
      /\ \A g \in Frame : \A i \in Index :
           /\ k2.entry[g][i].present = k.entry[g][i].present
           /\ k2.entry[g][i].base = k.entry[g][i].base
  BY DEF SameShape
<1>2. \A q \in Process : \A j \in Index :
        /\ Points(k2, D, q, j) <=> Points(k, D, q, j)
        /\ Points(k2, D, q, j) => Base(k2, D, q, j) = Base(k, D, q, j)
  BY <1>1 DEF Points, Base, DType
<1>3. \A g \in Frame : IsTable(k2, D, g) <=> IsTable(k, D, g)
  BY <1>2 DEF IsTable
<1>4. DirectoriesOwned(k2, D)
  BY <1>1 DEF Owns, DirectoriesOwned
<1>5. TablesOwned(k2, D)
  BY <1>1, <1>2 DEF Owns, TablesOwned
<1>6. PagesOwned(k2, D)
  <2>1. ASSUME NEW g \in Frame, NEW i \in Index, IsTable(k2, D, g), k2.entry[g][i].present
        PROVE  k2.entry[g][i].base \in Frame /\ k2.map[k2.entry[g][i].base] = <<g, i>>
    <3>1. k.entry[g][i].base \in Frame /\ k.map[k.entry[g][i].base] = <<g, i>>
      BY <2>1, <1>1, <1>3 DEF Owns, PagesOwned
    <3>2. k2.entry[g][i].base = k.entry[g][i].base
      BY <1>1
    <3> QED
      BY <3>1, <3>2, <1>1
  <2> QED
    BY <2>1 DEF PagesOwned
<1>7. FramesOwned(k2, D)
  BY <1>1, <1>3 DEF Owns, FramesOwned
<1> QED
  BY <1>2, <1>3, <1>4, <1>5, <1>6, <1>7 DEF Owns, KeepsTables

\* Reading a page from disk moves no frame.
LEMMA ReadFromDiskShape ==
  ASSUME NEW k \in KType, NEW g \in Frame, NEW i \in Index
  PROVE  SameShape(k, ReadFromDisk(k, <<g, i>>))
<1> DEFINE b == k.entry[g][i].base
           file == k.swap[SwapName(<<g, i>>)]
           k2 == ReadFromDisk(k, <<g, i>>)
<1>1. CASE k2 = k
  BY <1>1 DEF SameShape
<1>2. CASE k2 # k
  <2>1. file # NoFile /\ k2 = [k EXCEPT !.data[b] = file]
    BY <1>2 DEF ReadFromDisk
  <2>2. file \in Content
    BY <2>1, SwapNameIn, KFields
  <2> HIDE DEF file, b, k2
  <2>3. [k.data EXCEPT ![b] = file] \in [Frame -> Content]
    BY <2>2, KFields
  <2>4. k2 = [k EXCEPT !.data = [k.data EXCEPT ![b] = file]]
    BY <2>1
  <2>5. k2 \in KType /\ k2.map = k.map /\ k2.dead = k.dead /\ k2.entry = k.entry
    BY <2>3, <2>4 DEF KType
  <2> QED
    BY <2>5 DEF SameShape, k2
<1> QED
  BY <1>1, <1>2

\* Storing to a page moves no frame.
LEMMA StoredShape ==
  ASSUME NEW k \in KType, NEW g \in Frame, NEW i \in Index,
         NEW p \in Process, NEW v \in Value
  PROVE  SameShape(k, Stored(k, <<g, i>>, <<p, v>>))
<1> DEFINE b == k.entry[g][i].base
           marked == [k.entry[g][i] EXCEPT !.dirty = TRUE]
           k2 == Stored(k, <<g, i>>, <<p, v>>)
<1>1. k.entry[g][i] \in Entry /\ k.entry \in [Frame -> [Index -> Entry]]
  BY KFields
<1>2. marked \in Entry /\ marked.present = k.entry[g][i].present /\ marked.base = b
  BY <1>1 DEF Entry
<1>3. k2 = [k EXCEPT !.data = [k.data EXCEPT ![b] = <<p, v>>],
                     !.entry = [k.entry EXCEPT ![g][i] = marked]]
  BY DEF Stored
<1> HIDE DEF b, marked, k2
<1>4. [k.data EXCEPT ![b] = <<p, v>>] \in [Frame -> Content]
  <2>1. <<p, v>> \in Content
    BY DEF Content
  <2> QED
    BY <2>1, KFields
<1>5. [k.entry EXCEPT ![g][i] = marked] \in [Frame -> [Index -> Entry]]
  BY <1>1, <1>2
<1>6. /\ k2 \in KType
      /\ k2.map = k.map
      /\ k2.dead = k.dead
      /\ k2.entry = [k.entry EXCEPT ![g][i] = marked]
  BY <1>3, <1>4, <1>5 DEF KType
<1> QED
  <2>1. ASSUME NEW h \in Frame, NEW j \in Index
        PROVE  /\ k2.entry[h][j].present = k.entry[h][j].present
               /\ k2.entry[h][j].base = k.entry[h][j].base
    <3>1. CASE h = g /\ j = i
      <4>1. k2.entry[h][j] = marked
        BY <1>1, <1>6, <3>1
      <4> QED
        BY <1>2, <3>1, <4>1 DEF b
    <3>2. CASE h # g \/ j # i
      <4>1. k2.entry[h][j] = k.entry[h][j]
        BY <1>1, <1>6, <3>2
      <4> QED
        BY <4>1
    <3> QED
      BY <3>1, <3>2
  <2>2. SameShape(k, k2)
    BY <1>6, <2>1 DEF SameShape
  <2> QED
    BY <2>2 DEF k2, b

------------------------------------------------------------------------------
(* The TLB.                                                                 *)

Node == [addr : Page, entry : PTE] \cup {[addr |-> 0, entry |-> NULL]}

\* Every translation in the list is what the walk through D[p] finds in k.
Coherent(k, D, t, p) ==
  \A n \in DOMAIN t : t[n].entry # NULL =>
    /\ Points(k, D, p, DirIndex(t[n].addr))
    /\ t[n].entry = <<Base(k, D, p, DirIndex(t[n].addr)), TableIndex(t[n].addr)>>

\* A flushed TLB answers nothing.
LEMMA FlushedCoherent ==
  /\ Flushed \in Seq(Node)
  /\ \A n \in DOMAIN Flushed : Flushed[n].entry = NULL
BY DEF Flushed, Node

\* A node with an entry is the node of a page.
LEMMA NodeAddress ==
  ASSUME NEW n \in Node, n.entry # NULL
  PROVE  n.addr \in Page /\ n.entry \in PTE
BY DEF Node

\* tlb_get_pte only reorders the nodes, and answers one of them.
LEMMA TlbGetSpec ==
  ASSUME NEW t \in Seq(Node), NEW a \in Page
  PROVE  /\ TlbGet(t, a).tlb \in Seq(Node)
         /\ \A n \in DOMAIN TlbGet(t, a).tlb :
              \E m \in DOMAIN t : TlbGet(t, a).tlb[n] = t[m]
         /\ TlbGet(t, a).entry # NULL =>
              \E m \in DOMAIN t : t[m].addr = a /\ t[m].entry = TlbGet(t, a).entry
<1>1. CASE Holding(t, a) = {}
  BY <1>1 DEF TlbGet
<1>2. CASE Holding(t, a) # {}
  <2> DEFINE i == Least(Holding(t, a))
  <2>1. i \in Holding(t, a)
    <3>1. Holding(t, a) \in SUBSET Nat
      BY DEF Holding
    <3> QED
      BY <1>2, <3>1, LeastIn
  <2>2. TlbGet(t, a) = [tlb |-> Promote(t, i), entry |-> t[i].entry]
    BY <1>2 DEF TlbGet
  <2> HIDE DEF i
  <2>3. i \in 1 .. Len(t) /\ t[i].addr = a
    BY <2>1 DEF Holding
  <2>4. \A j \in 1 .. Len(t) : \E m \in 1 .. Len(t) : Promote(t, i)[j] = t[m]
    BY <2>3 DEF Promote
  <2>5. Promote(t, i) \in Seq(Node) /\ DOMAIN Promote(t, i) = 1 .. Len(t)
    BY <2>3 DEF Promote
  <2> QED
    BY <2>2, <2>3, <2>4, <2>5
<1> QED
  BY <1>1, <1>2

\* tlb_add_pte adds the one node and keeps no other than there were.
LEMMA TlbAddSpec ==
  ASSUME NEW t \in Seq(Node), NEW a \in Page, NEW e \in PTE
  PROVE  /\ TlbAdd(t, a, e) \in Seq(Node)
         /\ \A n \in DOMAIN TlbAdd(t, a, e) :
              \/ TlbAdd(t, a, e)[n] = [addr |-> a, entry |-> e]
              \/ \E m \in DOMAIN t : TlbAdd(t, a, e)[n] = t[m]
<1> DEFINE new == [addr |-> a, entry |-> e]
<1>1. Kept(t) \in Int /\ Kept(t) <= Len(t) /\ Len(t) \in Nat
  BY DEF Kept
<1>2. Kept(t) + 1 \in Nat
  BY SizeAssumption DEF Kept
<1>3. new \in Node
  BY DEF Node
<1> HIDE DEF new
<1>4. TlbAdd(t, a, e) = [j \in 1 .. Kept(t) + 1 |-> IF j = 1 THEN new ELSE t[j - 1]]
  BY DEF TlbAdd, new
<1>5. \A j \in 1 .. Kept(t) + 1 : j # 1 => j - 1 \in 1 .. Len(t)
  BY <1>1, <1>2
<1>6. TlbAdd(t, a, e) \in Seq(Node) /\ DOMAIN TlbAdd(t, a, e) = 1 .. Kept(t) + 1
  <2>1. \A j \in 1 .. Kept(t) + 1 : TlbAdd(t, a, e)[j] \in Node
    BY <1>3, <1>4, <1>5
  <2>2. TlbAdd(t, a, e) \in [1 .. Kept(t) + 1 -> Node]
    BY <2>1, <1>4
  <2> QED
    BY <1>2, <1>4, <2>2
<1>7. \A j \in 1 .. Kept(t) + 1 :
        \/ TlbAdd(t, a, e)[j] = new
        \/ \E m \in 1 .. Len(t) : TlbAdd(t, a, e)[j] = t[m]
  BY <1>4, <1>5
<1> QED
  BY <1>6, <1>7 DEF new

\* The TLB stays right as long as no table moves.
LEMMA CoherentKept ==
  ASSUME NEW k, NEW k2, NEW D, KeepsTables(k, k2, D),
         NEW p \in Process, NEW t \in Seq(Node), Coherent(k, D, t, p)
  PROVE  Coherent(k2, D, t, p)
<1> SUFFICES ASSUME NEW n \in DOMAIN t, t[n].entry # NULL
             PROVE  /\ Points(k2, D, p, DirIndex(t[n].addr))
                    /\ t[n].entry = <<Base(k2, D, p, DirIndex(t[n].addr)), TableIndex(t[n].addr)>>
  BY DEF Coherent
<1>1. DirIndex(t[n].addr) \in Index
  <2>1. t[n] \in Node
    OBVIOUS
  <2> QED
    BY <2>1, NodeAddress DEF Index
<1>2. /\ Points(k, D, p, DirIndex(t[n].addr))
      /\ t[n].entry = <<Base(k, D, p, DirIndex(t[n].addr)), TableIndex(t[n].addr)>>
  BY DEF Coherent
<1> QED
  BY <1>1, <1>2 DEF KeepsTables

\* Two calls that move no table move none.
LEMMA KeepsTablesTransitive ==
  ASSUME NEW k, NEW k1, NEW k2, NEW D, KeepsTables(k, k1, D), KeepsTables(k1, k2, D)
  PROVE  KeepsTables(k, k2, D)
BY DEF KeepsTables

------------------------------------------------------------------------------
(* The handlers of mmu.c.                                                   *)

KInv == /\ K \in KType
        /\ page_directories \in DType
        /\ Owns(K, page_directories)
CInv == /\ tlb \in Seq(Node)
        /\ Coherent(K, page_directories, tlb, curr_pid)
        /\ curr_pid \notin Process => \A n \in DOMAIN tlb : tlb[n].entry = NULL

\* What an access of page a by process p leaves behind.
Translated(p, a, t) ==
  /\ t.k \in KType
  /\ Owns(t.k, page_directories)
  /\ t.tlb \in Seq(Node)
  /\ Coherent(t.k, page_directories, t.tlb, p)
  /\ KeepsTables(K, t.k, page_directories)
  /\ \E g \in Frame : \E i \in Index : t.pte = <<g, i>>

\* The fault of an access keeps frames owned and the TLB right.
LEMMA TranslateSpec ==
  ASSUME KInv, CInv, NEW p \in Process, page_directories[p] # NULL, NEW a \in Page,
         ~ Translate(p, a).k.dead
  PROVE  Translated(p, a, Translate(p, a))
<1> DEFINE D == page_directories
           t0 == TlbFor(p)
           got == TlbGet(t0, a)
           x == DirIndex(a)
           y == TableIndex(a)
           k1 == IF got.entry = NULL /\ ~ entries[D[p]][x].present
                 THEN NewTable(K, D[p], x) ELSE K
           pte == IF got.entry = NULL THEN <<k1.entry[D[p]][x].base, y>> ELSE got.entry
           k2 == IF k1.dead \/ k1.entry[pte[1]][pte[2]].present THEN k1
                 ELSE ReadFromDisk(NewPage(k1, pte), pte)
           t2 == IF got.entry = NULL THEN TlbAdd(got.tlb, a, pte) ELSE got.tlb
<1>1. Translate(p, a) = [k |-> k2, pte |-> pte, tlb |-> t2]
  BY Zenon DEF Translate
<1>2. x \in Index /\ y \in Index
  BY DEF Index
<1>3. K \in KType /\ D \in DType /\ Owns(K, D) /\ ~ K.dead /\ K.entry = entries
  BY DEF KInv, K
<1> HIDE DEF D, x, y
<1>4. t0 \in Seq(Node) /\ Coherent(K, D, t0, p)
  <2>1. CASE p = curr_pid
    BY <2>1 DEF TlbFor, CInv, D
  <2>2. CASE p # curr_pid
    BY <2>2, FlushedCoherent DEF TlbFor, Coherent
  <2> QED
    BY <2>1, <2>2
<1> HIDE DEF t0
<1>5. /\ got.tlb \in Seq(Node)
      /\ \A n \in DOMAIN got.tlb : \E m \in DOMAIN t0 : got.tlb[n] = t0[m]
      /\ got.entry # NULL => \E m \in DOMAIN t0 : t0[m].addr = a /\ t0[m].entry = got.entry
  BY <1>4, TlbGetSpec
<1> HIDE DEF got
<1>6. Coherent(K, D, got.tlb, p)
  BY <1>4, <1>5 DEF Coherent
<1>7. got.entry # NULL => Points(K, D, p, x) /\ got.entry = <<Base(K, D, p, x), y>>
  BY <1>4, <1>5 DEF Coherent, x, y
<1>8. ~ k2.dead /\ ~ k1.dead
  <2> HIDE DEF k1, pte
  <2>1. ~ k2.dead
    BY <1>1
  <2>2. k1.dead => k2.dead
    OBVIOUS
  <2> QED
    BY <2>1, <2>2
<1>9. k1 \in KType /\ Owns(k1, D) /\ KeepsTables(K, k1, D) /\ Points(k1, D, p, x)
  <2>1. CASE got.entry = NULL /\ ~ entries[D[p]][x].present
    BY <2>1, <1>2, <1>3, <1>8, NewTableOwns DEF D
  <2>2. CASE ~ (got.entry = NULL /\ ~ entries[D[p]][x].present)
    <3>1. k1 = K
      BY <2>2
    <3>2. Points(K, D, p, x)
      BY <2>2, <1>3, <1>7 DEF Points, D
    <3> QED
      BY <3>1, <3>2, <1>3 DEF KeepsTables
  <2> QED
    BY <2>1, <2>2
<1> DEFINE g == Base(k1, D, p, x)
<1>10. pte = <<g, y>>
  <2>1. CASE got.entry = NULL
    BY <2>1 DEF Base
  <2>2. CASE got.entry # NULL
    BY <2>2, <1>2, <1>7, <1>9 DEF KeepsTables
  <2> QED
    BY <2>1, <2>2
<1>11. g \in Frame /\ IsTable(k1, D, g)
  BY <1>2, <1>9 DEF Owns, TablesOwned, IsTable
<1> HIDE DEF k1, g, pte
<1>12. k2 \in KType /\ Owns(k2, D) /\ KeepsTables(k1, k2, D)
  <2>1. CASE k1.entry[g][y].present
    <3>1. k2 = k1
      BY <2>1, <1>10
    <3> QED
      BY <3>1, <1>9 DEF KeepsTables
  <2>2. CASE ~ k1.entry[g][y].present
    <3> DEFINE k3 == NewPage(k1, <<g, y>>)
    <3>1. k2 = ReadFromDisk(k3, <<g, y>>)
      BY <2>2, <1>8, <1>10
    <3>2. ~ k3.dead
      BY <3>1, <1>8 DEF ReadFromDisk
    <3>3. k3 \in KType /\ Owns(k3, D) /\ KeepsTables(k1, k3, D)
      BY <2>2, <3>2, <1>2, <1>3, <1>8, <1>9, <1>11, NewPageOwns DEF PageAdded
    <3> HIDE DEF k3
    <3>4. SameShape(k3, k2)
      BY <3>1, <3>3, <1>2, <1>11, ReadFromDiskShape
    <3>5. k2 \in KType /\ Owns(k2, D) /\ KeepsTables(k3, k2, D)
      BY <3>3, <3>4, <1>3, SameShapeOwns DEF SameShape
    <3> QED
      BY <3>3, <3>5, KeepsTablesTransitive
  <2> QED
    BY <2>1, <2>2
<1>13. KeepsTables(K, k2, D)
  BY <1>9, <1>12, KeepsTablesTransitive
<1> HIDE DEF k2
<1>14. Coherent(k2, D, got.tlb, p)
  BY <1>5, <1>6, <1>13, CoherentKept
<1>15. t2 \in Seq(Node) /\ Coherent(k2, D, t2, p)
  <2>1. CASE got.entry # NULL
    BY <2>1, <1>5, <1>14
  <2>2. CASE got.entry = NULL
    <3>1. t2 = TlbAdd(got.tlb, a, pte) /\ pte \in PTE
      BY <2>2, <1>2, <1>10, <1>11 DEF PTE
    <3>2. /\ t2 \in Seq(Node)
          /\ \A n \in DOMAIN t2 : \/ t2[n] = [addr |-> a, entry |-> pte]
                                  \/ \E m \in DOMAIN got.tlb : t2[n] = got.tlb[m]
      BY <3>1, <1>5, TlbAddSpec
    <3> HIDE DEF t2
    <3>3. Points(k2, D, p, x) /\ Base(k2, D, p, x) = g
      BY <1>2, <1>9, <1>12 DEF KeepsTables, g
    <3>4. ASSUME NEW n \in DOMAIN t2, t2[n].entry # NULL
          PROVE  /\ Points(k2, D, p, DirIndex(t2[n].addr))
                 /\ t2[n].entry = <<Base(k2, D, p, DirIndex(t2[n].addr)), TableIndex(t2[n].addr)>>
      <4>1. CASE t2[n] = [addr |-> a, entry |-> pte]
        BY <4>1, <3>3, <1>10 DEF x, y
      <4>2. CASE \E m \in DOMAIN got.tlb : t2[n] = got.tlb[m]
        BY <4>2, <3>4, <1>14 DEF Coherent
      <4> QED
        BY <4>1, <4>2, <3>2
    <3> QED
      BY <3>2, <3>4 DEF Coherent
  <2> QED
    BY <2>1, <2>2
<1> HIDE DEF t2
<1>16. /\ Translate(p, a).k = k2
       /\ Translate(p, a).tlb = t2
       /\ Translate(p, a).pte = <<g, y>>
  BY <1>1, <1>10
<1> QED
  <2>1. /\ Owns(k2, page_directories)
        /\ Coherent(k2, page_directories, t2, p)
        /\ KeepsTables(K, k2, page_directories)
    BY <1>12, <1>13, <1>15 DEF D
  <2> DEFINE t == Translate(p, a)
  <2>2. t.k = k2 /\ t.tlb = t2 /\ t.pte = <<g, y>>
    BY <1>16
  <2> HIDE DEF t
  <2>3. \E h \in Frame : \E i \in Index : t.pte = <<h, i>>
    BY <1>2, <1>11, <2>2
  <2>4. Translated(p, a, t)
    <3>1. t.k \in KType /\ t.tlb \in Seq(Node)
      BY Zenon, <1>12, <1>15, <2>2
    <3>2. /\ Owns(t.k, page_directories)
          /\ Coherent(t.k, page_directories, t.tlb, p)
          /\ KeepsTables(K, t.k, page_directories)
      BY Zenon, <2>1, <2>2
    <3> QED
      BY Zenon, <2>3, <3>1, <3>2 DEF Translated
  <2> QED
    BY <2>4 DEF t

\* The frames of a new process are its own.
LEMMA BuiltSpec ==
  ASSUME KInv, NEW p \in Process, page_directories[p] = NULL, ~ Built.k.dead,
         NEW D2, D2 = [page_directories EXCEPT ![p] = Built.dir]
  PROVE  /\ Built.k \in KType
         /\ D2 \in DType
         /\ D2[p] # NULL
         /\ Owns(Built.k, D2)
         /\ \A t \in Seq(Node) : \A q \in Process :
              Coherent(K, page_directories, t, q) => Coherent(Built.k, D2, t, q)
<1> DEFINE D == page_directories
           r == Ask(K, NULL)
           d == r.frame
           k1 == IF d = NULL THEN Dead(K) ELSE NewTable(r.k, d, 0)
           g == k1.entry[d][0].base
           k2 == NewPage(k1, <<g, 1>>)
           k3 == NewPage(k2, <<g, 2>>)
<1>1. K \in KType /\ D \in DType /\ Owns(K, D) /\ ~ K.dead
  BY DEF KInv, K
<1>2. {0, 1, 2} \subseteq Index
  BY DEF Index
<1>3. Built = IF k1.dead THEN [k |-> k1, dir |-> NULL] ELSE [k |-> k3, dir |-> d]
  BY DEF Built
<1>4. ~ k1.dead /\ Built.k = k3 /\ Built.dir = d /\ ~ k3.dead
  BY <1>3
<1>5. d # NULL /\ k1 = NewTable(r.k, d, 0)
  BY <1>4 DEF Dead, K
<1> HIDE DEF D, r, k1, k2, k3
<1>7. D2 = [D EXCEPT ![p] = d]
  BY <1>4 DEF D
<1>8. /\ D2 \in DType
      /\ Owns(r.k, D2)
      /\ \A i \in Index : ~ r.k.entry[d][i].present
      /\ \A q \in Process : \A i \in Index : D[q] # NULL =>
           r.k.entry[D[q]][i] = K.entry[D[q]][i]
  <2>1. r = Ask(K, NULL) /\ r.frame # NULL /\ D[p] = NULL
    BY <1>5 DEF r, D
  <2>2. [D EXCEPT ![p] = r.frame] = D2
    BY <1>7
  <2>3. /\ [D EXCEPT ![p] = r.frame] \in DType
        /\ Owns(r.k, [D EXCEPT ![p] = r.frame])
        /\ \A i \in Index : ~ r.k.entry[r.frame][i].present
        /\ \A q \in Process : \A i \in Index : D[q] # NULL =>
             r.k.entry[D[q]][i] = K.entry[D[q]][i]
    BY <1>1, <2>1, NewDirectoryOwns
  <2> QED
    BY <2>2, <2>3
<1>9. Handed(K, NULL, r)
  BY <1>1, <1>5, AskSpec DEF r
<1>10. r.k \in KType /\ ~ r.k.dead /\ d \in Frame
  BY <1>1, <1>9 DEF Handed
<1>11. D2[p] = d /\ \A q \in Process : q # p => D2[q] = D[q]
  BY <1>1, <1>7 DEF DType
<1> HIDE DEF d
<1>12. /\ k1 \in KType
       /\ Owns(k1, D2)
       /\ Points(k1, D2, p, 0)
       /\ KeepsTables(r.k, k1, D2)
       /\ \A j \in Index : ~ k1.entry[Base(k1, D2, p, 0)][j].present
  <2>1. ~ r.k.entry[D2[p]][0].present
    BY <1>2, <1>8, <1>11
  <2>2. k1 = NewTable(r.k, D2[p], 0)
    BY <1>5, <1>11
  <2>3. D2[p] # NULL /\ 0 \in Index
    BY <1>2, <1>5, <1>11
  <2> QED
    BY <1>4, <1>8, <1>10, <2>1, <2>2, <2>3, NewTableOwns
<1>13. g = Base(k1, D2, p, 0)
  BY <1>11 DEF Base
<1> HIDE DEF g
<1>14. g \in Frame /\ IsTable(k1, D2, g)
  BY <1>2, <1>12, <1>13 DEF Owns, TablesOwned, IsTable
<1>6. ~ k2.dead
  <2> SUFFICES ASSUME k2.dead PROVE FALSE
    OBVIOUS
  <2>1. k2 = NewPage(k1, <<g, 1>>) /\ <<g, 1>> \in PTE
    BY <1>2, <1>14 DEF k2, PTE
  <2>2. k2 \in KType
    BY <1>4, <1>8, <1>12, <2>1, NewPageDead
  <2>3. k3 = NewPage(k2, <<g, 2>>)
    BY DEF k3
  <2>4. NewPage(k2, <<g, 2>>).dead
    BY <2>2, DeadPropagates
  <2> QED
    BY <1>4, <2>3, <2>4
<1>15. /\ k2 \in KType
       /\ Owns(k2, D2)
       /\ KeepsTables(k1, k2, D2)
       /\ IsTable(k2, D2, g)
       /\ ~ k2.entry[g][2].present
  <2>1. ~ k1.entry[g][1].present /\ ~ k1.entry[g][2].present
    BY <1>2, <1>12, <1>13
  <2>2. 1 \in Index /\ k2 = NewPage(k1, <<g, 1>>) /\ ~ NewPage(k1, <<g, 1>>).dead
    BY <1>2, <1>6 DEF k2
  <2>3. PageAdded(k1, D2, g, 1, k2)
    BY <1>4, <1>8, <1>12, <1>14, <2>1, <2>2, NewPageOwns
  <2>4. k2.entry[g][2].present => k1.entry[g][2].present
    BY <1>2, <2>3 DEF PageAdded
  <2> QED
    BY <1>14, <2>1, <2>3, <2>4 DEF PageAdded
<1>16. k3 \in KType /\ Owns(k3, D2) /\ KeepsTables(k2, k3, D2)
  <2>1. 2 \in Index /\ k3 = NewPage(k2, <<g, 2>>) /\ ~ NewPage(k2, <<g, 2>>).dead
    BY <1>2, <1>4 DEF k3
  <2>2. PageAdded(k2, D2, g, 2, k3)
    BY <1>6, <1>8, <1>14, <1>15, <2>1, NewPageOwns
  <2> QED
    BY <2>2 DEF PageAdded
<1>17. KeepsTables(r.k, k3, D2)
  BY <1>12, <1>15, <1>16, KeepsTablesTransitive
<1>18. ASSUME NEW t \in Seq(Node), NEW q \in Process, Coherent(K, D, t, q)
       PROVE  Coherent(k3, D2, t, q)
  <2>1. Coherent(r.k, D2, t, q)
    <3> SUFFICES ASSUME NEW n \in DOMAIN t, t[n].entry # NULL
                 PROVE  /\ Points(r.k, D2, q, DirIndex(t[n].addr))
                        /\ t[n].entry = <<Base(r.k, D2, q, DirIndex(t[n].addr)), TableIndex(t[n].addr)>>
      BY DEF Coherent
    <3>1. DirIndex(t[n].addr) \in Index
      <4>1. t[n] \in Node
        OBVIOUS
      <4> QED
        BY <4>1, NodeAddress DEF Index
    <3>2. /\ Points(K, D, q, DirIndex(t[n].addr))
          /\ t[n].entry = <<Base(K, D, q, DirIndex(t[n].addr)), TableIndex(t[n].addr)>>
      BY <1>18 DEF Coherent
    <3>3. D[q] # NULL /\ q # p
      BY <3>2 DEF Points, D
    <3> QED
      BY <3>1, <3>2, <3>3, <1>8, <1>11 DEF Points, Base
  <2> QED
    BY <2>1, <1>17, CoherentKept
<1> QED
  BY <1>4, <1>5, <1>8, <1>11, <1>16, <1>18 DEF D

\* What giving back the frames R of process p changes; R is its directory, its
\* tables and the pages of its tables.
Released(k, D, p, R, k2, D2) ==
  /\ k2 \in KType
  /\ k2.dead = k.dead
  /\ k2.entry = k.entry
  /\ \A f \in Frame : k2.map[f] = IF f \in R THEN NULL ELSE k.map[f]
  /\ D2 \in DType
  /\ D2[p] = NULL
  /\ \A q \in Process : q # p => D2[q] = D[q]
  /\ \A f \in Frame : f \in R <=>
       \/ f = D[p]
       \/ \E i \in Index : Points(k, D, p, i) /\ Base(k, D, p, i) = f
       \/ \E i \in Index : \E j \in Index :
            /\ Points(k, D, p, i)
            /\ k.entry[Base(k, D, p, i)][j].present
            /\ k.entry[Base(k, D, p, i)][j].base = f

\* Release does what Released says.
LEMMA ReleaseSpec ==
  ASSUME NEW k \in KType, NEW D \in DType, NEW p \in Process, D[p] # NULL
  PROVE  Released(k, D, p, Owned(k, D[p]), Release(k, D[p]), [D EXCEPT ![p] = NULL])
<1> DEFINE d == D[p]
           R == Owned(k, d)
           k2 == Release(k, d)
           D2 == [D EXCEPT ![p] = NULL]
<1>1. k.map \in [Frame -> PTE \cup {NULL, RESERVED}]
  BY KFields
<1>2. /\ k2 \in KType
      /\ k2.dead = k.dead
      /\ k2.entry = k.entry
      /\ \A f \in Frame : k2.map[f] = IF f \in R THEN NULL ELSE k.map[f]
  <2> DEFINE m == [f \in Frame |-> IF f \in R THEN NULL ELSE k.map[f]]
             s == [n \in FileName |->
                     IF \E g \in Tables(k, d), i \in Index : n = RemovedName(<<g, i>>)
                     THEN NoFile ELSE k.swap[n]]
  <2>1. k2 = [k EXCEPT !.map = m, !.swap = s]
    BY DEF Release
  <2>2. s \in [FileName -> Content \cup {NoFile}]
    BY KFields
  <2>3. m \in [Frame -> PTE \cup {NULL, RESERVED}]
    BY <1>1
  <2>4. \A f \in Frame : m[f] = IF f \in R THEN NULL ELSE k.map[f]
    OBVIOUS
  <2> HIDE DEF m, s
  <2> QED
    BY <2>1, <2>2, <2>3, <2>4 DEF KType
<1>3. /\ D2 \in DType
      /\ D2[p] = NULL
      /\ \A q \in Process : q # p => D2[q] = D[q]
  BY DEF DType
<1>4. \A f \in Frame : f \in R <=>
        \/ f = d
        \/ \E i \in Index : Points(k, D, p, i) /\ Base(k, D, p, i) = f
        \/ \E i \in Index : \E j \in Index :
             /\ Points(k, D, p, i)
             /\ k.entry[Base(k, D, p, i)][j].present
             /\ k.entry[Base(k, D, p, i)][j].base = f
  BY DEF Owned, Tables, Pages, Points, Base
<1> HIDE DEF R, k2, D2
<1> QED
  BY <1>2, <1>3, <1>4 DEF Released, R, k2, D2

\* A removed process gives back its frames and no other process's.
LEMMA ReleasedOwns ==
  ASSUME NEW k \in KType, NEW D \in DType, Owns(k, D), NEW p \in Process, D[p] # NULL,
         NEW R, NEW k2, NEW D2, Released(k, D, p, R, k2, D2)
  PROVE  /\ Owns(k2, D2)
         /\ \A q \in Process : \A i \in Index : q # p =>
              /\ Points(k2, D2, q, i) <=> Points(k, D, q, i)
              /\ Base(k2, D2, q, i) = Base(k, D, q, i)
<1> DEFINE d == D[p]
<1>1. k.map \in [Frame -> PTE \cup {NULL, RESERVED}]
  BY KFields
<1>2. /\ k2 \in KType
      /\ k2.dead = k.dead
      /\ k2.entry = k.entry
      /\ \A f \in Frame : k2.map[f] = IF f \in R THEN NULL ELSE k.map[f]
  BY DEF Released
<1>3. /\ D2 \in DType
      /\ D2[p] = NULL
      /\ \A q \in Process : q # p => D2[q] = D[q]
  BY DEF Released
<1>4. \A q \in Process : \A i \in Index : q # p =>
        /\ Points(k2, D2, q, i) <=> Points(k, D, q, i)
        /\ Base(k2, D2, q, i) = Base(k, D, q, i)
  BY <1>2, <1>3 DEF Points, Base
<1>5. \A f \in Frame : f \in R <=>
        \/ f = d
        \/ \E i \in Index : Points(k, D, p, i) /\ Base(k, D, p, i) = f
        \/ \E i \in Index : \E j \in Index :
             /\ Points(k, D, p, i)
             /\ k.entry[Base(k, D, p, i)][j].present
             /\ k.entry[Base(k, D, p, i)][j].base = f
  BY DEF Released
<1> HIDE DEF d
<1>6. \A i \in Index : ~ Points(k2, D2, p, i)
  BY <1>3 DEF Points
<1>7. \A g \in Frame : IsTable(k2, D2, g) <=>
        \E q \in Process : \E i \in Index : q # p /\ Points(k, D, q, i) /\ Base(k, D, q, i) = g
  BY <1>4, <1>6 DEF IsTable
\* A frame of process p is its directory, one of its tables, or belongs to an
\* entry of one of its tables.
<1>8. ASSUME NEW f \in Frame, f \in R
      PROVE  \/ f = d
             \/ \E i \in Index : Points(k, D, p, i) /\ Base(k, D, p, i) = f
             \/ \E i \in Index : \E j \in Index :
                  /\ Points(k, D, p, i)
                  /\ Base(k, D, p, i) \in Frame
                  /\ k.map[f] = <<Base(k, D, p, i), j>>
  <2>1. ASSUME NEW i \in Index, NEW j \in Index, Points(k, D, p, i),
               k.entry[Base(k, D, p, i)][j].present,
               k.entry[Base(k, D, p, i)][j].base = f
        PROVE  Base(k, D, p, i) \in Frame /\ k.map[f] = <<Base(k, D, p, i), j>>
    <3>1. Base(k, D, p, i) \in Frame /\ IsTable(k, D, Base(k, D, p, i))
      BY <2>1 DEF Owns, TablesOwned, IsTable
    <3> QED
      BY <2>1, <3>1 DEF Owns, PagesOwned
  <2> QED
    BY <1>5, <1>8, <2>1
<1>9. ASSUME NEW f \in Frame, k.map[f] = RESERVED, f \in R
      PROVE  f = d \/ \E i \in Index : Points(k, D, p, i) /\ Base(k, D, p, i) = f
  <2>1. \A g \in Frame : \A j \in Index : <<g, j>> # RESERVED
    BY NullAssumption DEF PTE
  <2> QED
    BY <1>8, <1>9, <2>1
<1>10. ASSUME NEW q \in Process, q # p, D[q] # NULL
       PROVE  D[q] \in Frame /\ D[q] \notin R
  BY <1>9, <1>10 DEF DType, Owns, DirectoriesOwned, TablesOwned, d
<1>11. ASSUME NEW q \in Process, q # p, NEW i \in Index, Points(k, D, q, i)
       PROVE  /\ Base(k, D, q, i) \in Frame
              /\ k.map[Base(k, D, q, i)] = RESERVED
              /\ Base(k, D, q, i) \notin R
  <2>1. /\ Base(k, D, q, i) \in Frame
        /\ k.map[Base(k, D, q, i)] = RESERVED
        /\ Base(k, D, q, i) # d
        /\ \A j \in Index : Points(k, D, p, j) => Base(k, D, p, j) # Base(k, D, q, i)
    BY <1>11 DEF Owns, TablesOwned, d
  <2> QED
    BY <2>1, <1>9
<1>12. DirectoriesOwned(k2, D2)
  <2>1. ASSUME NEW q \in Process, D2[q] # NULL
        PROVE  k2.map[D2[q]] = RESERVED
    BY <2>1, <1>2, <1>3, <1>10 DEF Owns, DirectoriesOwned
  <2>2. ASSUME NEW q \in Process, NEW s \in Process, D2[q] # NULL, D2[q] = D2[s]
        PROVE  q = s
    BY <2>2, <1>3 DEF Owns, DirectoriesOwned
  <2> QED
    BY <2>1, <2>2 DEF DirectoriesOwned
<1>13. TablesOwned(k2, D2)
  <2>1. ASSUME NEW q \in Process, NEW i \in Index, Points(k2, D2, q, i)
        PROVE  /\ Base(k2, D2, q, i) \in Frame
               /\ k2.map[Base(k2, D2, q, i)] = RESERVED
               /\ \A s \in Process : D2[s] # Base(k2, D2, q, i)
    <3>1. q # p /\ Points(k, D, q, i) /\ Base(k2, D2, q, i) = Base(k, D, q, i)
      BY <2>1, <1>4, <1>6
    <3>2. \A s \in Process : D[s] # Base(k, D, q, i)
      BY <3>1 DEF Owns, TablesOwned
    <3>3. /\ Base(k, D, q, i) \in Frame
          /\ k.map[Base(k, D, q, i)] = RESERVED
          /\ Base(k, D, q, i) \notin R
      BY <3>1, <1>11
    <3>4. k2.map[Base(k, D, q, i)] = RESERVED
      BY <3>3, <1>2
    <3>5. \A s \in Process : D2[s] # Base(k, D, q, i)
      BY <3>2, <3>3, <1>3, NullAssumption
    <3> QED
      BY <3>1, <3>3, <3>4, <3>5
  <2>2. ASSUME NEW q \in Process, NEW s \in Process, NEW i \in Index, NEW j \in Index,
               Points(k2, D2, q, i), Points(k2, D2, s, j),
               Base(k2, D2, q, i) = Base(k2, D2, s, j)
        PROVE  q = s /\ i = j
    <3>1. /\ Points(k, D, q, i)
          /\ Points(k, D, s, j)
          /\ Base(k, D, q, i) = Base(k, D, s, j)
      BY <2>2, <1>4, <1>6
    <3> QED
      BY <3>1 DEF Owns, TablesOwned
  <2> QED
    BY <2>1, <2>2 DEF TablesOwned
<1>14. PagesOwned(k2, D2)
  <2>1. ASSUME NEW g \in Frame, NEW i \in Index, IsTable(k2, D2, g), k2.entry[g][i].present
        PROVE  k2.entry[g][i].base \in Frame /\ k2.map[k2.entry[g][i].base] = <<g, i>>
    <3> DEFINE f == k.entry[g][i].base
    <3>1. PICK q \in Process, l \in Index :
            q # p /\ Points(k, D, q, l) /\ Base(k, D, q, l) = g
      BY <2>1, <1>7
    <3>2. IsTable(k, D, g)
      BY <3>1 DEF IsTable
    <3>3. f \in Frame /\ k.map[f] = <<g, i>>
      BY <2>1, <3>2, <1>2 DEF Owns, PagesOwned
    <3>4. f \notin R
      <4>1. f # d /\ \A j \in Index : Points(k, D, p, j) => Base(k, D, p, j) # f
        <5>1. <<g, i>> # RESERVED
          BY NullAssumption DEF PTE
        <5> QED
          BY <3>3, <5>1 DEF Owns, DirectoriesOwned, TablesOwned, d
      <4>2. ASSUME NEW j \in Index, NEW n \in Index, Points(k, D, p, j),
                   k.map[f] = <<Base(k, D, p, j), n>>
            PROVE  FALSE
        <5>1. Base(k, D, p, j) = g
          BY <4>2, <3>3
        <5> QED
          BY <5>1, <4>2, <3>1 DEF Owns, TablesOwned
      <4> QED
        BY <4>1, <4>2, <3>3, <1>8
    <3> QED
      BY <3>3, <3>4, <1>2
  <2> QED
    BY <2>1 DEF PagesOwned
<1>15. FramesOwned(k2, D2)
  <2>1. ASSUME NEW f \in Frame, NEW g \in Frame, NEW i \in Index, k2.map[f] = <<g, i>>
        PROVE  IsTable(k2, D2, g) /\ k2.entry[g][i].present /\ k2.entry[g][i].base = f
    <3>1. f \notin R /\ k.map[f] = <<g, i>>
      <4>1. <<g, i>> # NULL
        BY NullAssumption DEF PTE
      <4> QED
        BY <2>1, <4>1, <1>2
    <3>2. IsTable(k, D, g) /\ k.entry[g][i].present /\ k.entry[g][i].base = f
      BY <3>1 DEF Owns, FramesOwned
    <3>3. PICK q \in Process, j \in Index : Points(k, D, q, j) /\ Base(k, D, q, j) = g
      BY <3>2 DEF IsTable
    <3>4. q # p
      BY <3>1, <3>2, <3>3, <1>5
    <3> QED
      BY <3>2, <3>3, <3>4, <1>2, <1>7
  <2>2. ASSUME NEW f \in Frame, k2.map[f] = RESERVED
        PROVE  IsTable(k2, D2, f) \/ \E q \in Process : D2[q] = f
    <3>1. f \notin R /\ k.map[f] = RESERVED
      BY <2>2, <1>2, NullAssumption
    <3>2. CASE \E q \in Process : D[q] = f
      BY <3>1, <3>2, <1>3, <1>5 DEF d
    <3>3. CASE IsTable(k, D, f)
      <4>1. PICK q \in Process, j \in Index : Points(k, D, q, j) /\ Base(k, D, q, j) = f
        BY <3>3 DEF IsTable
      <4>2. q # p
        BY <3>1, <4>1, <1>5
      <4> QED
        BY <4>1, <4>2, <1>7
    <3> QED
      BY <3>1, <3>2, <3>3 DEF Owns, FramesOwned
  <2> QED
    BY <2>1, <2>2 DEF FramesOwned
<1> QED
  BY <1>2, <1>3, <1>4, <1>12, <1>13, <1>14, <1>15 DEF Owns

------------------------------------------------------------------------------
(* The inductive invariant.                                                 *)

SInv == /\ DOMAIN segmentations = Process
        /\ \A p \in Process : DOMAIN segmentations[p] =
                               IF page_directories[p] = NULL THEN {} ELSE 1 .. 7
        /\ curr_pid \in Process \cup {0}
        /\ crashed \in BOOLEAN

IInv == KInv /\ CInv /\ SInv

\* A process has seven segments, or none.
LEMMA SegmentsGiven == DOMAIN InitialSegments = 1 .. 7 /\ DOMAIN NoSegments = {}
BY DEF InitialSegments, NoSegments

\* mmu_create makes the invariant true.
LEMMA InitIInv == Init => IInv
<1> SUFFICES ASSUME Init
             PROVE  IInv
  OBVIOUS
<1> USE DEF Init
<1>1. K \in KType
  BY NoEntryType DEF K, KType, Content
<1>2. page_directories \in DType /\ \A p \in Process : page_directories[p] = NULL
  BY DEF DType
<1>3. \A f \in Frame : K.map[f] = NULL
  BY DEF K
<1>4. Owns(K, page_directories)
  <2>1. \A g \in Frame : \A i \in Index : NULL # <<g, i>>
    BY NullAssumption DEF PTE
  <2> QED
    BY <1>2, <1>3, <2>1, NullAssumption
       DEF Owns, DirectoriesOwned, TablesOwned, PagesOwned, FramesOwned, IsTable, Points
<1>5. CInv
  <2>1. tlb = Flushed
    OBVIOUS
  <2> HIDE DEF Init
  <2>2. tlb \in Seq(Node) /\ \A n \in DOMAIN tlb : tlb[n].entry = NULL
    BY <2>1, FlushedCoherent
  <2> QED
    BY <2>2 DEF CInv, Coherent
<1>6. SInv
  BY SegmentsGiven DEF SInv
<1> QED
  BY <1>1, <1>2, <1>4, <1>5, <1>6 DEF IInv, KInv

\* A handler ends in the kernel it computed.
LEMMA KernelSet ==
  ASSUME NEW k \in KType, ~ k.dead, SetKernel(k)
  PROVE  K' = k
BY DEF SetKernel, K, KType

\* Steps that change only the segments, the reply or crashed.
LEMMA KernelUnchanged ==
  ASSUME IInv, UNCHANGED <<kernelVars, page_directories>>
  PROVE  K' = K /\ KInv'
<1>1. K' = K
  BY DEF kernelVars, K
<1> QED
  BY <1>1 DEF IInv, KInv

\* An access outside the segments keeps the invariant.
LEMMA SegFaultIInv ==
  ASSUME IInv, NEW p \in Process, NEW a, NEW op, SegFault(p, a, op)
  PROVE  IInv'
<1> USE DEF SegFault
<1>1. K' = K /\ KInv'
  BY KernelUnchanged
<1>2. CInv'
  <2>1. CASE p = curr_pid
    BY <2>1, <1>1 DEF TlbFor, IInv, CInv
  <2>2. CASE p # curr_pid
    BY <2>2, FlushedCoherent DEF TlbFor, CInv, Coherent
  <2> QED
    BY <2>1, <2>2
<1>3. SInv'
  BY DEF IInv, SInv
<1> QED
  BY <1>1, <1>2, <1>3 DEF IInv

\* Both accesses, whatever they do to the page they reach.
LEMMA AccessIInv ==
  ASSUME IInv, NEW p \in Process, Alive(p), NEW a \in Page,
         Access(p, a, Translate(p, a)), NEW k2, SameShape(Translate(p, a).k, k2),
         SetKernel(k2)
  PROVE  IInv'
<1> DEFINE t == Translate(p, a)
<1>1. ~ t.k.dead /\ page_directories[p] # NULL
  BY DEF Access, Alive
<1>2. Translated(p, a, t)
  BY <1>1, TranslateSpec DEF IInv
<1>3. /\ tlb' = t.tlb
      /\ curr_pid' = p
      /\ UNCHANGED <<page_directories, segmentations>>
  BY DEF Access
<1> HIDE DEF t
<1>4. K' = k2
  BY <1>1, KernelSet DEF SameShape, t
<1>5. page_directories \in DType
  BY DEF IInv, KInv
<1>6. Owns(k2, page_directories) /\ KeepsTables(t.k, k2, page_directories)
  BY <1>2, <1>5, SameShapeOwns DEF Translated, t
<1>7. Coherent(k2, page_directories, t.tlb, p)
  BY <1>2, <1>6, CoherentKept DEF Translated
<1>8. KInv'
  BY <1>3, <1>4, <1>5, <1>6 DEF KInv, SameShape
<1>9. CInv'
  BY <1>2, <1>3, <1>4, <1>7 DEF CInv, Translated
<1>10. SInv'
  BY <1>3 DEF IInv, SInv, SetKernel
<1> QED
  BY <1>8, <1>9, <1>10 DEF IInv

\* A read keeps the invariant.
LEMMA ReadFromIInv ==
  ASSUME IInv, NEW p \in Process, NEW a \in Page, ReadFrom(p, a)
  PROVE  IInv'
<1> DEFINE t == Translate(p, a)
<1>1. Alive(p) /\ Access(p, a, t) /\ SetKernel(t.k)
  BY DEF ReadFrom, Inside
<1>2. Translated(p, a, t)
  BY <1>1, TranslateSpec DEF IInv, Access, Alive
<1>3. SameShape(t.k, t.k)
  BY <1>2 DEF Translated, SameShape
<1> QED
  BY <1>1, <1>3, AccessIInv

\* A write keeps the invariant.
LEMMA WriteToIInv ==
  ASSUME IInv, NEW p \in Process, NEW a \in Page, NEW v \in Value, WriteTo(p, a, v)
  PROVE  IInv'
<1> DEFINE t == Translate(p, a)
<1>1. Alive(p) /\ Access(p, a, t)
  BY DEF WriteTo, Inside
<1>2. Translated(p, a, t)
  BY <1>1, TranslateSpec DEF IInv, Access, Alive
<1>3. CASE SetKernel(t.k)
  <2>1. SameShape(t.k, t.k)
    BY <1>2 DEF Translated, SameShape
  <2> QED
    BY <1>1, <1>3, <2>1, AccessIInv
<1>4. CASE SetKernel(Stored(t.k, t.pte, <<p, v>>))
  <2>1. SameShape(t.k, Stored(t.k, t.pte, <<p, v>>))
    BY <1>2, StoredShape DEF Translated
  <2> QED
    BY <1>1, <1>4, <2>1, AccessIInv
<1>5. SetKernel(t.k) \/ SetKernel(Stored(t.k, t.pte, <<p, v>>))
  BY DEF WriteTo
<1> QED
  BY <1>3, <1>4, <1>5

\* The death of the program keeps the invariant.
LEMMA CrashIInv ==
  ASSUME IInv, Crash
  PROVE  IInv'
<1>1. K' = K /\ KInv'
  BY KernelUnchanged DEF Crash, mmuVars
<1>2. CInv'
  BY <1>1 DEF Crash, mmuVars, IInv, CInv
<1>3. SInv'
  BY DEF Crash, mmuVars, IInv, SInv
<1> QED
  BY <1>1, <1>2, <1>3 DEF IInv

\* mmu_add_process keeps the invariant.
LEMMA AddProcessIInv ==
  ASSUME IInv, NEW p \in Process, AddProcess(p)
  PROVE  IInv'
<1>1. CASE Built.k.dead
  BY <1>1, CrashIInv DEF AddProcess
<1>2. CASE ~ Built.k.dead
  <2> DEFINE D2 == [page_directories EXCEPT ![p] = Built.dir]
  <2>1. /\ page_directories[p] = NULL
        /\ SetKernel(Built.k)
        /\ page_directories' = D2
        /\ segmentations' = [segmentations EXCEPT ![p] = InitialSegments]
        /\ UNCHANGED <<tlb, curr_pid>>
    BY <1>2 DEF AddProcess
  <2>2. /\ Built.k \in KType
        /\ D2 \in DType
        /\ D2[p] # NULL
        /\ Owns(Built.k, D2)
        /\ \A t \in Seq(Node) : \A q \in Process :
             Coherent(K, page_directories, t, q) => Coherent(Built.k, D2, t, q)
    BY <1>2, <2>1, BuiltSpec DEF IInv
  <2>3. \A q \in Process : q # p => D2[q] = page_directories[q]
    BY DEF IInv, KInv, DType
  <2> HIDE DEF D2
  <2>4. K' = Built.k
    BY <1>2, <2>1, <2>2, KernelSet
  <2>5. KInv'
    BY <2>1, <2>2, <2>4 DEF KInv
  <2>6. CInv'
    <3>1. CASE curr_pid \in Process
      BY <3>1, <2>1, <2>2, <2>4 DEF IInv, CInv
    <3>2. CASE curr_pid \notin Process
      BY <3>2, <2>1 DEF IInv, CInv, Coherent
    <3> QED
      BY <3>1, <3>2
  <2>7. SInv'
    <3>1. \A q \in Process : segmentations'[q] =
             IF q = p THEN InitialSegments ELSE segmentations[q]
      BY <2>1 DEF IInv, SInv
    <3>2. DOMAIN segmentations' = Process
      BY <2>1 DEF IInv, SInv
    <3>3. \A q \in Process : DOMAIN segmentations'[q] =
             IF page_directories'[q] = NULL THEN {} ELSE 1 .. 7
      BY <3>1, <2>1, <2>2, <2>3, SegmentsGiven DEF IInv, SInv
    <3> QED
      BY <3>2, <3>3, <2>1 DEF IInv, SInv, SetKernel
  <2> QED
    BY <2>5, <2>6, <2>7 DEF IInv
<1> QED
  BY <1>1, <1>2

\* mmu_remove_process keeps the invariant.
LEMMA RemoveProcessIInv ==
  ASSUME IInv, NEW p \in Process, RemoveProcess(p)
  PROVE  IInv'
<1> DEFINE D == page_directories
           D2 == [D EXCEPT ![p] = NULL]
           k2 == Release(K, D[p])
           R == Owned(K, D[p])
<1>1. /\ D[p] # NULL
      /\ SetKernel(k2)
      /\ page_directories' = D2
      /\ segmentations' = [segmentations EXCEPT ![p] = NoSegments]
      /\ tlb' = IF curr_pid = p THEN Flushed ELSE tlb
      /\ curr_pid' = curr_pid
  BY DEF RemoveProcess, Alive
<1>2. K \in KType /\ D \in DType /\ Owns(K, D) /\ ~ K.dead
  BY DEF IInv, KInv, K
<1>3. Released(K, D, p, R, k2, D2)
  BY <1>1, <1>2, ReleaseSpec
<1> HIDE DEF D, D2, k2, R
<1>4. /\ Owns(k2, D2)
      /\ \A q \in Process : \A i \in Index : q # p =>
           /\ Points(k2, D2, q, i) <=> Points(K, D, q, i)
           /\ Base(k2, D2, q, i) = Base(K, D, q, i)
  BY <1>1, <1>2, <1>3, ReleasedOwns
<1>5. /\ k2 \in KType
      /\ ~ k2.dead
      /\ D2 \in DType
      /\ D2[p] = NULL
      /\ \A q \in Process : q # p => D2[q] = D[q]
  BY <1>2, <1>3 DEF Released
<1>6. K' = k2
  BY <1>1, <1>5, KernelSet
<1>7. KInv'
  BY <1>1, <1>4, <1>5, <1>6 DEF KInv
<1>8. CInv'
  <2>1. CASE curr_pid = p
    BY <2>1, <1>1, FlushedCoherent DEF CInv, Coherent
  <2>2. CASE curr_pid # p /\ curr_pid \in Process
    <3>1. tlb \in Seq(Node) /\ Coherent(K, D, tlb, curr_pid)
      BY DEF IInv, CInv, D
    <3>2. ASSUME NEW n \in DOMAIN tlb, tlb[n].entry # NULL
          PROVE  /\ Points(k2, D2, curr_pid, DirIndex(tlb[n].addr))
                 /\ tlb[n].entry = <<Base(k2, D2, curr_pid, DirIndex(tlb[n].addr)),
                                     TableIndex(tlb[n].addr)>>
      <4>1. tlb[n] \in Node
        BY <3>1
      <4>2. DirIndex(tlb[n].addr) \in Index
        BY <3>2, <4>1, NodeAddress DEF Index
      <4>3. /\ Points(K, D, curr_pid, DirIndex(tlb[n].addr))
            /\ tlb[n].entry = <<Base(K, D, curr_pid, DirIndex(tlb[n].addr)),
                                TableIndex(tlb[n].addr)>>
        BY <3>1, <3>2 DEF Coherent
      <4> QED
        BY <2>2, <4>2, <4>3, <1>4
    <3>3. Coherent(k2, D2, tlb, curr_pid)
      BY <3>2 DEF Coherent
    <3> QED
      BY <2>2, <3>1, <3>3, <1>1, <1>6 DEF CInv
  <2>3. CASE curr_pid # p /\ curr_pid \notin Process
    BY <2>3, <1>1 DEF IInv, CInv, Coherent
  <2> QED
    BY <2>1, <2>2, <2>3
<1>9. SInv'
  <2>1. \A q \in Process : segmentations'[q] =
           IF q = p THEN NoSegments ELSE segmentations[q]
    BY <1>1 DEF IInv, SInv
  <2>2. DOMAIN segmentations' = Process
    BY <1>1 DEF IInv, SInv
  <2>3. \A q \in Process : DOMAIN segmentations'[q] =
           IF page_directories'[q] = NULL THEN {} ELSE 1 .. 7
    BY <2>1, <1>1, <1>5, SegmentsGiven DEF IInv, SInv, D
  <2> QED
    BY <2>2, <2>3, <1>1 DEF IInv, SInv, SetKernel
<1> QED
  BY <1>7, <1>8, <1>9 DEF IInv

\* mmu_delete keeps the invariant.
LEMMA DeleteIInv ==
  ASSUME IInv, Delete
  PROVE  IInv'
<1> DEFINE D == page_directories
           freed(f) == \E p \in Process : D[p] # NULL /\ f \in Owned(K, D[p])
<1>1. /\ entry_mapping' = [f \in Frame |-> IF freed(f) THEN NULL ELSE entry_mapping[f]]
      /\ swap' = [n \in FileName |-> NoFile]
      /\ page_directories' = [p \in Process |-> NULL]
      /\ segmentations' = [p \in Process |-> NoSegments]
      /\ tlb' = Flushed
      /\ curr_pid' = 0
      /\ UNCHANGED <<entries, data, crashed>>
  BY DEF Delete
<1>2. K \in KType /\ D \in DType /\ Owns(K, D) /\ K.map = entry_mapping /\ K.entry = entries
  BY DEF IInv, KInv, K
<1>3. \A p \in Process : D[p] # NULL => \A f \in Frame : f \in Owned(K, D[p]) <=>
        \/ f = D[p]
        \/ \E i \in Index : Points(K, D, p, i) /\ Base(K, D, p, i) = f
        \/ \E i \in Index : \E j \in Index :
             /\ Points(K, D, p, i)
             /\ K.entry[Base(K, D, p, i)][j].present
             /\ K.entry[Base(K, D, p, i)][j].base = f
  BY <1>2, ReleaseSpec DEF Released
<1>4. \A f \in Frame : K'.map[f] = IF freed(f) THEN NULL ELSE K.map[f]
  BY <1>1, <1>2 DEF K
<1>5. K' \in KType
  <2>1. /\ entry_mapping \in [Frame -> PTE \cup {NULL, RESERVED}]
        /\ entries \in [Frame -> [Index -> Entry]]
        /\ data \in [Frame -> Content]
    BY <1>2, KFields DEF K
  <2>2. /\ entry_mapping' \in [Frame -> PTE \cup {NULL, RESERVED}]
        /\ entries' \in [Frame -> [Index -> Entry]]
        /\ data' \in [Frame -> Content]
        /\ swap' \in [FileName -> Content \cup {NoFile}]
    <3> HIDE DEF freed
    <3> QED
      BY <1>1, <2>1
  <2> QED
    BY <2>2 DEF K, KType
\* Every frame that had an owner is given back.
<1>6. ASSUME NEW f \in Frame
      PROVE  K'.map[f] # RESERVED /\ \A g \in Frame : \A i \in Index : K'.map[f] # <<g, i>>
  <2>1. CASE freed(f)
    <3>1. K'.map[f] = NULL
      BY <2>1, <1>4
    <3>2. \A g \in Frame : \A i \in Index : NULL # <<g, i>>
      BY NullAssumption DEF PTE
    <3> QED
      BY <3>1, <3>2, NullAssumption
  <2>2. CASE ~ freed(f)
    <3>1. K'.map[f] = K.map[f]
      BY <2>2, <1>4
    <3>2. \A p \in Process : D[p] # f
      BY <2>2, <1>3, NullAssumption
    <3>3. ASSUME NEW p \in Process, NEW i \in Index, Points(K, D, p, i)
          PROVE  /\ Base(K, D, p, i) # f
                 /\ \A j \in Index :
                      ~ (/\ K.entry[Base(K, D, p, i)][j].present
                         /\ K.entry[Base(K, D, p, i)][j].base = f)
      <4>1. D[p] # NULL
        BY <3>3 DEF Points
      <4> QED
        BY <2>2, <3>3, <4>1, <1>3
    <3>4. ~ IsTable(K, D, f)
      BY <3>3 DEF IsTable
    <3> HIDE DEF freed, D
    <3>5. K.map[f] # RESERVED
      BY <3>2, <3>4, <1>2 DEF Owns, FramesOwned
    <3>6. \A g \in Frame : \A i \in Index : K.map[f] # <<g, i>>
      <4> SUFFICES ASSUME NEW g \in Frame, NEW i \in Index, K.map[f] = <<g, i>>
                   PROVE  FALSE
        OBVIOUS
      <4>1. IsTable(K, D, g) /\ K.entry[g][i].present /\ K.entry[g][i].base = f
        BY <1>2 DEF Owns, FramesOwned
      <4> QED
        BY <4>1, <3>3 DEF IsTable
    <3> QED
      BY <3>1, <3>5, <3>6
  <2> QED
    BY <2>1, <2>2
<1>7. page_directories' \in DType /\ \A p \in Process : page_directories'[p] = NULL
  BY <1>1 DEF DType
<1>8. Owns(K', page_directories')
  BY <1>6, <1>7 DEF Owns, DirectoriesOwned, TablesOwned, PagesOwned, FramesOwned, IsTable, Points
<1>9. KInv'
  BY <1>5, <1>7, <1>8 DEF KInv
<1>10. CInv'
  BY <1>1, FlushedCoherent DEF CInv, Coherent
<1>11. SInv'
  BY <1>1, SegmentsGiven DEF IInv, SInv
<1> QED
  BY <1>9, <1>10, <1>11 DEF IInv

\* Growing or shrinking a segment keeps the invariant.
LEMMA ResizeIInv ==
  ASSUME IInv, NEW p \in Process, NEW s, NEW n, Resize(p, s, n)
  PROVE  IInv'
<1>1. /\ segmentations' = [segmentations EXCEPT ![p][s] = Moved(segmentations[p][s], n)]
      /\ UNCHANGED <<kernelVars, page_directories, tlb, curr_pid, crashed>>
  BY DEF Resize
<1>2. K' = K /\ KInv'
  BY <1>1, KernelUnchanged
<1>3. CInv'
  BY <1>1, <1>2 DEF IInv, CInv
<1>4. SInv'
  <2>1. /\ DOMAIN segmentations' = Process
        /\ \A q \in Process : DOMAIN segmentations'[q] = DOMAIN segmentations[q]
    BY <1>1 DEF IInv, SInv
  <2> QED
    BY <1>1, <2>1 DEF IInv, SInv
<1> QED
  BY <1>2, <1>3, <1>4 DEF IInv

\* The invariant is inductive.
LEMMA NextIInv == IInv /\ [Next]_vars => IInv'
<1> SUFFICES ASSUME IInv, [Next]_vars
             PROVE  IInv'
  OBVIOUS
<1>1. CASE UNCHANGED vars
  <2>1. K' = K /\ KInv'
    BY <1>1, KernelUnchanged DEF vars, mmuVars
  <2>2. CInv' /\ SInv'
    BY <1>1, <2>1 DEF vars, mmuVars, IInv, CInv, SInv
  <2> QED
    BY <2>1, <2>2 DEF IInv
<1>2. ASSUME NEW p \in Process, Use(p)
      PROVE  IInv'
  <2>1. ASSUME NEW a \in Page, NEW op, SegFault(p, a, op)
        PROVE  IInv'
    BY <2>1, SegFaultIInv
  <2>2. ASSUME NEW a \in Page, ReadFrom(p, a)
        PROVE  IInv'
    BY <2>2, ReadFromIInv
  <2>3. ASSUME NEW a \in Page, AccessCrash(p, a)
        PROVE  IInv'
    BY <2>3, CrashIInv DEF AccessCrash
  <2>4. ASSUME NEW a \in Page, NEW v \in Value, WriteTo(p, a, v)
        PROVE  IInv'
    BY <2>4, WriteToIInv
  <2>5. CASE AddProcess(p)
    BY <2>5, AddProcessIInv
  <2>6. ASSUME NEW s \in Resizable, NEW n \in {-1, 1}, Resize(p, s, n)
        PROVE  IInv'
    BY <2>6, ResizeIInv
  <2> QED
    BY <1>2, <2>1, <2>2, <2>3, <2>4, <2>5, <2>6 DEF Use
<1>3. ASSUME NEW p \in Process, RemoveProcess(p)
      PROVE  IInv'
  BY <1>3, RemoveProcessIInv
<1>4. CASE Delete
  BY <1>4, DeleteIInv
<1> QED
  BY <1>1, <1>2, <1>3, <1>4 DEF Next

\* The invariant holds in every behaviour.
LEMMA SpecIInv == Spec => []IInv
BY InitIInv, NextIInv, PTL DEF Spec

------------------------------------------------------------------------------
(* What the invariant says in the words of MMUProperties.                   *)

\* The types the run checks.
LEMMA IInvTypeOK == IInv => TypeOK
<1> SUFFICES ASSUME IInv
             PROVE  TypeOK
  OBVIOUS
<1>1. /\ entry_mapping \in [Frame -> PTE \cup {NULL, RESERVED}]
      /\ entries \in [Frame -> [Index -> Entry]]
      /\ data \in [Frame -> Content]
      /\ swap \in [FileName -> Content \cup {NoFile}]
  BY KFields DEF IInv, KInv, K
<1>2. Node \subseteq [addr : Page \cup {0}, entry : PTE \cup {NULL}]
  BY DEF Node
<1>3. tlb \in Seq([addr : Page \cup {0}, entry : PTE \cup {NULL}])
  <2> DEFINE T == [addr : Page \cup {0}, entry : PTE \cup {NULL}]
  <2>1. tlb \in Seq(Node)
    BY DEF IInv, CInv
  <2>2. /\ Len(tlb) \in Nat
        /\ tlb = [n \in 1 .. Len(tlb) |-> tlb[n]]
        /\ \A n \in 1 .. Len(tlb) : tlb[n] \in Node
    BY <2>1
  <2>3. \A n \in 1 .. Len(tlb) : tlb[n] \in T
    BY <1>2, <2>2
  <2> HIDE DEF T
  <2>4. tlb \in Seq(T)
    BY <2>2, <2>3
  <2> QED
    BY <2>4 DEF T
<1> QED
  BY <1>1, <1>3 DEF IInv, KInv, SInv, DType, TypeOK, Entry

\* Directories and page tables, as the properties name them.
LEMMA TablesOfIInv ==
  ASSUME IInv
  PROVE  /\ \A f : f \in Directories <=> \E p \in Process : page_directories[p] # NULL /\ page_directories[p] = f
         /\ \A f : f \in PageTables <=> f \in Frame /\ IsTable(K, page_directories, f)
         /\ \A p \in Live : \A i \in Index : i \in PresentIn(page_directories[p]) <=>
              Points(K, page_directories, p, i)
         /\ \A p, i : TableOf(p, i) = Base(K, page_directories, p, i)
<1> DEFINE D == page_directories
<1>1. K.entry = entries /\ D \in DType /\ Owns(K, D)
  BY DEF K, IInv, KInv
<1>2. \A p \in Process : D[p] # NULL <=> p \in Live
  BY DEF Live
<1>3. \A f : f \in Directories <=> \E p \in Process : D[p] # NULL /\ D[p] = f
  BY DEF Directories, Live
<1>4. \A p \in Live : \A i \in Index : i \in PresentIn(D[p]) <=> Points(K, D, p, i)
  <2> SUFFICES ASSUME NEW p \in Live, NEW i \in Index
               PROVE  i \in PresentIn(D[p]) <=> Points(K, D, p, i)
    OBVIOUS
  <2>1. D[p] # NULL
    BY DEF Live
  <2>2. i \in PresentIn(D[p]) <=> entries[D[p]][i].present
    BY DEF PresentIn
  <2> QED
    BY <1>1, <2>1, <2>2 DEF Points
<1>5. \A p, i : TableOf(p, i) = Base(K, D, p, i)
  BY <1>1 DEF TableOf, Base
<1>6. \A p \in Process : \A i \in Index : Points(K, D, p, i) => p \in Live
  BY DEF Points, Live
<1>7. \A f : f \in PageTables <=> f \in Frame /\ \E p \in Live : \E i \in PresentIn(D[p]) : f = TableOf(p, i)
  BY DEF PageTables
<1>8. Live \subseteq Process /\ \A p : PresentIn(D[p]) \subseteq Index
  BY DEF Live, PresentIn
<1> HIDE DEF D
<1>9. \A f : f \in PageTables <=> f \in Frame /\ IsTable(K, D, f)
  BY <1>4, <1>5, <1>6, <1>7, <1>8 DEF IsTable
<1> QED
  BY <1>3, <1>4, <1>5, <1>9 DEF D

\* The ownership of directories and tables.
LEMMA IInvTables == IInv => TablesAreReserved
<1> SUFFICES ASSUME IInv
             PROVE  TablesAreReserved
  OBVIOUS
<1> DEFINE D == page_directories
<1>1. Owns(K, D) /\ K.map = entry_mapping
  BY DEF IInv, KInv, K
<1>2. /\ \A f : f \in Directories <=> \E p \in Process : D[p] # NULL /\ D[p] = f
      /\ \A f : f \in PageTables <=> f \in Frame /\ IsTable(K, D, f)
      /\ \A p \in Live : \A i \in Index : i \in PresentIn(D[p]) <=> Points(K, D, p, i)
      /\ \A p, i : TableOf(p, i) = Base(K, D, p, i)
  BY TablesOfIInv
<1>3. Live \subseteq Process /\ \A p \in Live : D[p] # NULL /\ PresentIn(D[p]) \subseteq Index
  BY DEF Live, PresentIn
<1> HIDE DEF D
<1>4. \A f \in Directories \cup PageTables : entry_mapping[f] = RESERVED
  BY <1>1, <1>2 DEF Owns, DirectoriesOwned, TablesOwned, IsTable
<1>5. Directories \cap PageTables = {}
  BY <1>1, <1>2 DEF Owns, TablesOwned, IsTable
<1>6. \A p, q \in Live : D[p] = D[q] => p = q
  BY <1>1, <1>3 DEF Owns, DirectoriesOwned
<1>7. ASSUME NEW p \in Live, NEW q \in Live,
             NEW i \in PresentIn(D[p]), NEW j \in PresentIn(D[q]), TableOf(p, i) = TableOf(q, j)
      PROVE  p = q /\ i = j
  <2>1. /\ p \in Process /\ q \in Process /\ i \in Index /\ j \in Index
        /\ Points(K, D, p, i)
        /\ Points(K, D, q, j)
        /\ Base(K, D, p, i) = Base(K, D, q, j)
    BY <1>2, <1>3, <1>7
  <2> QED
    BY <1>1, <2>1 DEF Owns, TablesOwned
<1> QED
  BY <1>4, <1>5, <1>6, <1>7 DEF TablesAreReserved, D

\* The ownership of pages.
LEMMA IInvOwners == IInv => OwnersAgree
<1> SUFFICES ASSUME IInv
             PROVE  OwnersAgree
  OBVIOUS
<1> DEFINE D == page_directories
<1>1. Owns(K, D) /\ K.map = entry_mapping /\ K.entry = entries
  BY DEF IInv, KInv, K
<1>2. \A f : f \in PageTables <=> f \in Frame /\ IsTable(K, D, f)
  BY TablesOfIInv
<1> HIDE DEF D
<1>3. ASSUME NEW t \in PageTables, NEW i \in PresentIn(t)
      PROVE  entry_mapping[entries[t][i].base] = <<t, i>>
  <2>1. i \in Index /\ entries[t][i].present
    BY DEF PresentIn
  <2> QED
    BY <2>1, <1>1, <1>2 DEF Owns, PagesOwned
<1>4. ASSUME NEW f \in Frame, entry_mapping[f] \in PTE
      PROVE  LET e == entry_mapping[f]
             IN /\ e[1] \in PageTables
                /\ entries[e[1]][e[2]].present
                /\ entries[e[1]][e[2]].base = f
  <2>1. PICK g \in Frame, i \in Index : entry_mapping[f] = <<g, i>>
    BY <1>4 DEF PTE
  <2>2. IsTable(K, D, g) /\ entries[g][i].present /\ entries[g][i].base = f
    BY <2>1, <1>1 DEF Owns, FramesOwned
  <2> QED
    BY <2>1, <2>2, <1>2
<1> QED
  BY <1>3, <1>4 DEF OwnersAgree

\* A reserved frame has an owner.
LEMMA IInvNoLeak == IInv => NoFrameLeak
<1> SUFFICES ASSUME IInv, NEW f \in Frame, entry_mapping[f] = RESERVED
             PROVE  f \in Directories \cup PageTables
  BY DEF NoFrameLeak
<1>1. Owns(K, page_directories) /\ K.map = entry_mapping
  BY DEF IInv, KInv, K
<1>2. IsTable(K, page_directories, f) \/ \E p \in Process : page_directories[p] = f
  BY <1>1 DEF Owns, FramesOwned
<1> QED
  BY <1>2, TablesOfIInv, NullAssumption

\* The TLB of the current process.
LEMMA IInvCoherent == IInv => TLBCoherent
<1> SUFFICES ASSUME IInv, NEW n \in DOMAIN tlb, tlb[n].entry # NULL
             PROVE  /\ curr_pid \in Live
                    /\ LET dir == entries[page_directories[curr_pid]]
                           a == tlb[n].addr
                       IN /\ dir[DirIndex(a)].present
                          /\ tlb[n].entry = <<dir[DirIndex(a)].base, TableIndex(a)>>
  BY DEF TLBCoherent
<1>1. curr_pid \in Process
  BY DEF IInv, CInv
<1>2. /\ Points(K, page_directories, curr_pid, DirIndex(tlb[n].addr))
      /\ tlb[n].entry = <<Base(K, page_directories, curr_pid, DirIndex(tlb[n].addr)),
                          TableIndex(tlb[n].addr)>>
  BY DEF IInv, CInv, Coherent
<1>3. K.entry = entries
  BY DEF K
<1> QED
  BY <1>1, <1>2, <1>3 DEF Points, Base, Live

------------------------------------------------------------------------------
(* The theorems.                                                            *)

\* Every variable keeps its type, whatever the callers do and however many
\* frames, pages, processes and TLB nodes there are.
THEOREM TypeCorrect == Spec => []TypeOK
BY SpecIInv, IInvTypeOK, PTL

\* Directories and tables have frames of their own that no eviction can take:
\* ask_kernel_for_frame never pages out a paging structure.
THEOREM StructuresAreSafe == Spec => []TablesAreReserved
BY SpecIInv, IInvTables, PTL

\* entry_mapping and the page tables agree in both directions.
THEOREM OwnersAlwaysAgree == Spec => []OwnersAgree
BY SpecIInv, IInvOwners, PTL

\* mmu_remove_process and mmu_delete give back every paging structure.
THEOREM NothingLeaks == Spec => []NoFrameLeak
BY SpecIInv, IInvNoLeak, PTL

\* The TLB never answers for a process what its page directory would not:
\* flushing on a context switch and on removal is enough.
THEOREM TranslationsAgree == Spec => []TLBCoherent
BY SpecIInv, IInvCoherent, PTL

------------------------------------------------------------------------------
(* Limits: the TLB never grows past MAX_NODES nor holds a page twice, and   *)
(* the program dies for want of a frame only when fewer than three frames   *)
(* hold no paging structure.                                                *)

------------------------------------------------------------------------------
(* The TLB.                                                                 *)

\* A list of nodes of at most MAX_NODES translations, one node a page.
Cache(t) == /\ t \in Seq(Node)
            /\ Len(t) \in 1 .. MaxNodes
            /\ \A m, n \in DOMAIN t : t[m].addr = t[n].addr => m = n

\* The calloc'ed node of a flushed TLB is a list of one.
LEMMA FlushedIsCache == Cache(Flushed)
<1>1. Flushed \in Seq(Node)
  BY FlushedCoherent
<1>2. Len(Flushed) = 1 /\ DOMAIN Flushed = 1 .. 1
  BY DEF Flushed
<1> QED
  BY <1>1, <1>2, SizeAssumption DEF Cache

\* tlb_get_pte reorders the list; when it answers NULL the page is not in it:
\* only the node of address 0 has a NULL entry, and no page is at 0.
LEMMA TlbGetIsCache ==
  ASSUME NEW t, Cache(t), NEW a \in Page
  PROVE  /\ Cache(TlbGet(t, a).tlb)
         /\ TlbGet(t, a).entry = NULL =>
              \A n \in DOMAIN TlbGet(t, a).tlb : TlbGet(t, a).tlb[n].addr # a
<1>0. /\ t \in Seq(Node)
      /\ Len(t) \in 1 .. MaxNodes
      /\ \A m, n \in DOMAIN t : t[m].addr = t[n].addr => m = n
  BY DEF Cache
<1>1. CASE Holding(t, a) = {}
  <2>1. TlbGet(t, a) = [tlb |-> t, entry |-> NULL]
    BY <1>1 DEF TlbGet
  <2>2. \A n \in DOMAIN t : t[n].addr # a
    BY <1>1 DEF Holding
  <2> QED
    BY <2>1, <2>2
<1>2. CASE Holding(t, a) # {}
  <2> DEFINE i == Least(Holding(t, a))
  <2>1. i \in Holding(t, a)
    <3>1. Holding(t, a) \in SUBSET Nat
      BY <1>0 DEF Holding
    <3> QED
      BY <1>2, <3>1, LeastIn
  <2>2. TlbGet(t, a) = [tlb |-> Promote(t, i), entry |-> t[i].entry]
    BY <1>2 DEF TlbGet
  <2> HIDE DEF i
  <2>3. i \in 1 .. Len(t) /\ t[i].addr = a /\ Len(t) \in Nat
    BY <1>0, <2>1 DEF Holding
  <2>4. t[i].entry # NULL
    <3>1. t[i] \in Node /\ a # 0
      BY <1>0, <2>3, SizeAssumption
    <3> QED
      BY <2>3, <3>1, NullAssumption DEF Node
  <2>5. Promote(t, i) \in Seq(Node) /\ Len(Promote(t, i)) = Len(t) /\ DOMAIN Promote(t, i) = 1 .. Len(t)
    BY <1>0, <2>3 DEF Promote
  <2> DEFINE from(j) == IF j = 1 THEN i ELSE IF j <= i THEN j - 1 ELSE j
  <2>6. \A j \in 1 .. Len(t) : from(j) \in 1 .. Len(t) /\ Promote(t, i)[j] = t[from(j)]
    BY <2>3 DEF Promote
  <2>7. \A m, n \in 1 .. Len(t) : from(m) = from(n) => m = n
    BY <2>3
  <2> HIDE DEF from
  <2>8. \A m, n \in 1 .. Len(t) : Promote(t, i)[m].addr = Promote(t, i)[n].addr => m = n
    <3> SUFFICES ASSUME NEW m \in 1 .. Len(t), NEW n \in 1 .. Len(t),
                        Promote(t, i)[m].addr = Promote(t, i)[n].addr
                 PROVE  m = n
      OBVIOUS
    <3>1. DOMAIN t = 1 .. Len(t)
      BY <1>0
    <3>2. t[from(m)].addr = t[from(n)].addr
      BY <2>6
    <3>3. from(m) = from(n)
      BY <1>0, <2>6, <3>1, <3>2
    <3> QED
      BY <2>7, <3>3
  <2>9. Cache(Promote(t, i))
    BY <1>0, <2>5, <2>8 DEF Cache
  <2> QED
    BY <2>2, <2>4, <2>9
<1> QED
  BY <1>1, <1>2

\* tlb_add_pte of a page that is not in the list.
LEMMA TlbAddIsCache ==
  ASSUME NEW t, Cache(t), NEW a \in Page, NEW e \in PTE,
         \A n \in DOMAIN t : t[n].addr # a
  PROVE  Cache(TlbAdd(t, a, e))
<1> DEFINE u == TlbAdd(t, a, e)
           new == [addr |-> a, entry |-> e]
<1>0. /\ t \in Seq(Node)
      /\ Len(t) \in 1 .. MaxNodes
      /\ \A m, n \in DOMAIN t : t[m].addr = t[n].addr => m = n
  BY DEF Cache
<1>1. Len(t) \in Nat /\ Kept(t) \in Nat /\ Kept(t) <= Len(t) /\ Kept(t) + 1 \in 1 .. MaxNodes
  BY <1>0, SizeAssumption DEF Kept
<1>2. u \in Seq(Node)
  BY <1>0, TlbAddSpec
<1>3. new.addr = a
  OBVIOUS
<1> HIDE DEF new
<1>4. u = [j \in 1 .. Kept(t) + 1 |-> IF j = 1 THEN new ELSE t[j - 1]]
  BY DEF TlbAdd, new
<1> HIDE DEF u
<1>5. DOMAIN u = 1 .. Kept(t) + 1 /\ Len(u) = Kept(t) + 1
  BY <1>1, <1>2, <1>4
<1>6. \A j \in DOMAIN u : IF j = 1 THEN u[j].addr = a
                          ELSE j - 1 \in DOMAIN t /\ u[j] = t[j - 1]
  BY <1>0, <1>1, <1>3, <1>4
<1>7. \A m, n \in DOMAIN u : u[m].addr = u[n].addr => m = n
  <2> SUFFICES ASSUME NEW m \in DOMAIN u, NEW n \in DOMAIN u, u[m].addr = u[n].addr
               PROVE  m = n
    OBVIOUS
  <2>1. m \in Int /\ n \in Int
    BY <1>1, <1>5
  <2>2. CASE m = 1 \/ n = 1
    BY <2>1, <2>2, <1>6
  <2>3. CASE m # 1 /\ n # 1
    <3>1. m - 1 = n - 1
      BY <2>3, <1>0, <1>6
    <3> QED
      BY <2>1, <3>1
  <2> QED
    BY <2>2, <2>3
<1>8. Cache(u)
  BY <1>1, <1>2, <1>5, <1>7 DEF Cache
<1> QED
  BY <1>8 DEF u

\* Both accesses leave a cache behind.
LEMMA TranslateIsCache ==
  ASSUME IInv, Cache(tlb), NEW p \in Process, page_directories[p] # NULL, NEW a \in Page,
         ~ Translate(p, a).k.dead
  PROVE  Cache(Translate(p, a).tlb)
<1> DEFINE t0 == TlbFor(p)
           got == TlbGet(t0, a)
           t == Translate(p, a)
<1>1. Cache(t0)
  BY FlushedIsCache DEF TlbFor
<1>2. t.pte \in PTE
  <2>1. Translated(p, a, t)
    BY TranslateSpec DEF IInv
  <2> HIDE DEF t
  <2> QED
    BY <2>1 DEF Translated, PTE
<1>3. t.tlb = IF got.entry = NULL THEN TlbAdd(got.tlb, a, t.pte) ELSE got.tlb
  BY DEF Translate
<1> HIDE DEF t0, t
<1>4. /\ Cache(got.tlb)
      /\ got.entry = NULL => \A n \in DOMAIN got.tlb : got.tlb[n].addr # a
  BY <1>1, TlbGetIsCache
<1> HIDE DEF got
<1>5. CASE got.entry = NULL
  BY <1>2, <1>3, <1>4, <1>5, TlbAddIsCache DEF t
<1>6. CASE got.entry # NULL
  BY <1>3, <1>4, <1>6 DEF t
<1> QED
  BY <1>5, <1>6

\* Every call keeps the TLB short and without duplicates.
LEMMA NextIsCache == IInv /\ Cache(tlb) /\ [Next]_vars => Cache(tlb)'
<1> SUFFICES ASSUME IInv, Cache(tlb), [Next]_vars
             PROVE  Cache(tlb')
  BY DEF Cache
<1>1. ASSUME NEW p \in Process, NEW a \in Page, Alive(p), Access(p, a, Translate(p, a))
      PROVE  Cache(tlb')
  BY <1>1, TranslateIsCache DEF Alive, Access
<1>2. ASSUME NEW p \in Process, Use(p)
      PROVE  Cache(tlb')
  <2>1. ASSUME NEW a \in Page, NEW op, SegFault(p, a, op)
        PROVE  Cache(tlb')
    BY <2>1, FlushedIsCache DEF SegFault, TlbFor
  <2>2. ASSUME NEW a \in Page, ReadFrom(p, a)
        PROVE  Cache(tlb')
    BY <2>2, <1>1 DEF ReadFrom, Inside
  <2>3. ASSUME NEW a \in Page, AccessCrash(p, a)
        PROVE  Cache(tlb')
    BY <2>3 DEF AccessCrash, Crash, mmuVars
  <2>4. ASSUME NEW a \in Page, NEW v \in Value, WriteTo(p, a, v)
        PROVE  Cache(tlb')
    BY <2>4, <1>1 DEF WriteTo, Inside
  <2>5. CASE AddProcess(p)
    BY <2>5 DEF AddProcess, Crash, mmuVars
  <2>6. ASSUME NEW s \in Resizable, NEW n \in {-1, 1}, Resize(p, s, n)
        PROVE  Cache(tlb')
    BY <2>6 DEF Resize
  <2> QED
    BY <1>2, <2>1, <2>2, <2>3, <2>4, <2>5, <2>6 DEF Use
<1>3. ASSUME NEW p \in Process, RemoveProcess(p)
      PROVE  Cache(tlb')
  BY <1>3, FlushedIsCache DEF RemoveProcess
<1>4. CASE Delete
  BY <1>4, FlushedIsCache DEF Delete
<1>5. CASE UNCHANGED vars
  BY <1>5 DEF vars, mmuVars
<1> QED
  BY <1>2, <1>3, <1>4, <1>5 DEF Next

------------------------------------------------------------------------------
(* Frames.                                                                  *)

\* The frames a call can get: those no paging structure holds.
Spare(k) == {f \in Frame : k.map[f] # RESERVED}

\* ask_kernel_for_frame answers 0 only when every frame is a directory's or a
\* table's; the frame e would replace, which may not be evicted, is no
\* exception: an entry that is not present owns none.
LEMMA AskFails ==
  ASSUME NEW k \in KType, NEW D \in DType, Owns(k, D), NEW e \in PTE \cup {NULL},
         e # NULL => ~ k.entry[e[1]][e[2]].present,
         Ask(k, e).frame = NULL
  PROVE  Spare(k) = {}
<1>1. CASE Free(k) # {}
  <2>1. Ask(k, e).frame = Least(Free(k)) /\ Least(Free(k)) \in Frame
    BY <1>1, LeastFrame DEF Ask, Free
  <2> QED
    BY <2>1, NullAssumption
<1>2. CASE Free(k) = {} /\ Evictable(k, e) # {}
  <2>1. Ask(k, e).frame = Least(Evictable(k, e)) /\ Least(Evictable(k, e)) \in Frame
    BY <1>2, LeastFrame DEF Ask, Evictable
  <2> QED
    BY <2>1, NullAssumption
<1>3. CASE Free(k) = {} /\ Evictable(k, e) = {}
  <2> SUFFICES ASSUME NEW f \in Frame, k.map[f] # RESERVED
               PROVE  FALSE
    BY DEF Spare
  <2>1. k.map[f] = e /\ e # NULL
    BY <1>3 DEF Free, Evictable
  <2>2. PICK g \in Frame, i \in Index : e = <<g, i>>
    BY <2>1 DEF PTE
  <2>3. k.entry[g][i].present
    BY <2>1, <2>2 DEF Owns, FramesOwned
  <2> QED
    BY <2>1, <2>2, <2>3
<1> QED
  BY <1>1, <1>2, <1>3

\* A new table takes one spare frame, and fails only when there is none.
LEMMA NewTableSpare ==
  ASSUME NEW k \in KType, NEW D \in DType, Owns(k, D), ~ k.dead,
         NEW d \in Frame, NEW i \in Index
  PROVE  IF NewTable(k, d, i).dead THEN Spare(k) = {}
         ELSE \E f \in Frame : Spare(NewTable(k, d, i)) = Spare(k) \ {f}
<1> DEFINE r == Ask(k, NULL)
           k2 == NewTable(k, d, i)
<1>1. CASE r.frame = NULL
  <2>1. k2.dead
    BY <1>1, DeadType DEF NewTable
  <2>2. Spare(k) = {}
    BY <1>1, AskFails
  <2> QED
    BY <2>1, <2>2
<1>2. CASE r.frame # NULL
  <2>1. k2 = Link(r.k, d, i, r.frame)
    BY <1>2 DEF NewTable
  <2>2. Handed(k, NULL, r)
    BY <1>2, AskSpec
  <2> HIDE DEF r, k2
  <2>3. r.frame \in Frame /\ r.k \in KType /\ ~ r.k.dead /\ r.k.map = [k.map EXCEPT ![r.frame] = RESERVED]
    BY <2>2 DEF Handed
  <2>4. k2.map = r.k.map /\ ~ k2.dead
    BY <2>1, <2>3, LinkSpec DEF Linked
  <2>5. Spare(k2) = Spare(k) \ {r.frame}
    BY <2>3, <2>4, KFields DEF Spare
  <2> QED
    BY <2>3, <2>4, <2>5 DEF k2
<1> QED
  BY <1>1, <1>2

\* A new page fails only when no frame is spare, and leaves the frame it got
\* spare: the next call may evict it.
LEMMA NewPageSpare ==
  ASSUME NEW k \in KType, NEW D \in DType, Owns(k, D), ~ k.dead,
         NEW g \in Frame, NEW i \in Index, ~ k.entry[g][i].present
  PROVE  IF NewPage(k, <<g, i>>).dead THEN Spare(k) = {}
         ELSE Spare(NewPage(k, <<g, i>>)) # {}
<1> DEFINE e == <<g, i>>
           r == Ask(k, e)
           k2 == NewPage(k, e)
<1>0. e \in PTE /\ e # NULL /\ e # RESERVED
  BY NullAssumption DEF PTE
<1>1. CASE r.frame = NULL
  <2>1. k2.dead
    BY <1>1, DeadType DEF NewPage
  <2>2. Spare(k) = {}
    BY <1>0, <1>1, AskFails
  <2> QED
    BY <2>1, <2>2
<1>2. CASE r.frame # NULL
  <2>1. k2 = Link(r.k, g, i, r.frame)
    BY <1>2 DEF NewPage
  <2>2. Handed(k, e, r)
    BY <1>0, <1>2, AskSpec
  <2> HIDE DEF r, k2, e
  <2>3. r.frame \in Frame /\ r.k \in KType /\ ~ r.k.dead /\ r.k.map = [k.map EXCEPT ![r.frame] = e]
    BY <1>0, <2>2 DEF Handed
  <2>4. k2.map = r.k.map /\ ~ k2.dead
    BY <2>1, <2>3, LinkSpec DEF Linked
  <2>5. r.frame \in Spare(k2)
    BY <1>0, <2>3, <2>4, KFields DEF Spare
  <2> QED
    BY <2>3, <2>4, <2>5 DEF k2, e
<1> QED
  BY <1>1, <1>2

\* At most two frames are spare: fewer than a directory, a table and a page need.
Exhausted(k) == \E f, g \in Frame : Spare(k) \subseteq {f, g}

\* An access dies only when paging structures leave at most two frames.
LEMMA TranslateDies ==
  ASSUME IInv, NEW p \in Process, page_directories[p] # NULL, NEW a \in Page,
         Translate(p, a).k.dead
  PROVE  Exhausted(K)
<1> DEFINE D == page_directories
           t0 == TlbFor(p)
           got == TlbGet(t0, a)
           x == DirIndex(a)
           y == TableIndex(a)
           k1 == IF got.entry = NULL /\ ~ entries[D[p]][x].present
                 THEN NewTable(K, D[p], x) ELSE K
           pte == IF got.entry = NULL THEN <<k1.entry[D[p]][x].base, y>> ELSE got.entry
           k2 == IF k1.dead \/ k1.entry[pte[1]][pte[2]].present THEN k1
                 ELSE ReadFromDisk(NewPage(k1, pte), pte)
<1>1. Translate(p, a).k = k2
  BY DEF Translate
<1>2. x \in Index /\ y \in Index
  BY DEF Index
<1>3. K \in KType /\ D \in DType /\ Owns(K, D) /\ ~ K.dead /\ K.entry = entries
  BY DEF IInv, KInv, K
<1>4. D[p] \in Frame
  BY <1>3 DEF DType
<1> HIDE DEF D, x, y
<1>5. t0 \in Seq(Node) /\ Coherent(K, D, t0, p)
  <2>1. CASE p = curr_pid
    BY <2>1 DEF TlbFor, IInv, CInv, D
  <2>2. CASE p # curr_pid
    BY <2>2, FlushedCoherent DEF TlbFor, Coherent
  <2> QED
    BY <2>1, <2>2
<1> HIDE DEF t0
<1>6. got.entry # NULL => \E m \in DOMAIN t0 : t0[m].addr = a /\ t0[m].entry = got.entry
  BY <1>5, TlbGetSpec
<1> HIDE DEF got
<1>7. got.entry # NULL => Points(K, D, p, x) /\ got.entry = <<Base(K, D, p, x), y>>
  BY <1>5, <1>6 DEF Coherent, x, y
<1>8. CASE k1.dead
  <2>1. k1 = NewTable(K, D[p], x)
    BY <1>3, <1>8
  <2>2. Spare(K) = {}
    BY <1>2, <1>3, <1>4, <1>8, <2>1, NewTableSpare
  <2> QED
    BY <1>4, <2>2 DEF Exhausted
<1>9. CASE ~ k1.dead
  <2>1. /\ k1 \in KType /\ Owns(k1, D) /\ Points(k1, D, p, x) /\ KeepsTables(K, k1, D)
        /\ \E f \in Frame : Spare(K) \subseteq Spare(k1) \cup {f}
    <3>1. CASE got.entry = NULL /\ ~ entries[D[p]][x].present
      <4>1. k1 = NewTable(K, D[p], x)
        BY <3>1
      <4>2. k1 \in KType /\ Owns(k1, D) /\ Points(k1, D, p, x) /\ KeepsTables(K, k1, D)
        BY <1>2, <1>3, <1>9, <3>1, <4>1, NewTableOwns DEF D
      <4>3. \E f \in Frame : Spare(k1) = Spare(K) \ {f}
        BY <1>2, <1>3, <1>4, <1>9, <4>1, NewTableSpare
      <4> QED
        BY <4>2, <4>3
    <3>2. CASE ~ (got.entry = NULL /\ ~ entries[D[p]][x].present)
      <4>1. k1 = K
        BY <3>2
      <4>2. Points(K, D, p, x)
        BY <3>2, <1>3, <1>7 DEF Points, D
      <4> QED
        BY <1>3, <1>4, <4>1, <4>2 DEF KeepsTables
    <3> QED
      BY <3>1, <3>2
  <2> DEFINE g == Base(k1, D, p, x)
  <2>2. pte = <<g, y>>
    <3>1. CASE got.entry = NULL
      BY <3>1 DEF Base
    <3>2. CASE got.entry # NULL
      BY <3>2, <1>2, <1>7, <2>1 DEF KeepsTables
    <3> QED
      BY <3>1, <3>2
  <2>3. g \in Frame /\ IsTable(k1, D, g)
    BY <1>2, <2>1 DEF Owns, TablesOwned, IsTable
  <2> HIDE DEF k1, g, pte
  <2>4. k2 = ReadFromDisk(NewPage(k1, <<g, y>>), <<g, y>>) /\ ~ k1.entry[g][y].present
    BY <1>1, <1>9, <2>2
  <2>5. NewPage(k1, <<g, y>>).dead
    <3>1. SUFFICES ASSUME ~ NewPage(k1, <<g, y>>).dead
                   PROVE  FALSE
      OBVIOUS
    <3>2. NewPage(k1, <<g, y>>) \in KType
      BY <1>2, <1>3, <1>9, <2>1, <2>3, <2>4, <3>1, NewPageOwns DEF PageAdded
    <3>3. k2.dead = NewPage(k1, <<g, y>>).dead
      BY <1>2, <2>3, <2>4, <3>2, ReadFromDiskShape DEF SameShape
    <3> QED
      BY <1>1, <3>1, <3>3
  <2>6. Spare(k1) = {}
    BY <1>2, <1>3, <1>9, <2>1, <2>3, <2>4, <2>5, NewPageSpare
  <2> QED
    BY <2>1, <2>6 DEF Exhausted
<1> QED
  BY <1>8, <1>9

\* mmu_add_process dies only when it cannot get its three frames.
LEMMA BuiltDies ==
  ASSUME IInv, NEW p \in Process, page_directories[p] = NULL, Built.k.dead
  PROVE  Exhausted(K)
<1> DEFINE D == page_directories
           r == Ask(K, NULL)
           d == r.frame
           D2 == [D EXCEPT ![p] = d]
           k1 == IF d = NULL THEN Dead(K) ELSE NewTable(r.k, d, 0)
           g == k1.entry[d][0].base
           k2 == NewPage(k1, <<g, 1>>)
           k3 == NewPage(k2, <<g, 2>>)
<1>1. K \in KType /\ D \in DType /\ Owns(K, D) /\ ~ K.dead
  BY DEF IInv, KInv, K
<1>2. {0, 1, 2} \subseteq Index /\ 0 \in Frame
  BY SizeAssumption DEF Index, Frame
<1>3. Built.k = IF k1.dead THEN k1 ELSE k3
  BY DEF Built
<1>4. CASE d = NULL
  <2>1. Spare(K) = {}
    BY <1>1, <1>4, AskFails
  <2> QED
    BY <1>2, <2>1 DEF Exhausted
<1>5. CASE d # NULL
  <2>1. k1 = NewTable(r.k, d, 0)
    BY <1>5
  <2>2. Handed(K, NULL, r)
    BY <1>1, <1>5, AskSpec
  <2>3. /\ D2 \in DType
        /\ Owns(r.k, D2)
        /\ \A i \in Index : ~ r.k.entry[d][i].present
    BY <1>1, <1>5, NewDirectoryOwns
  <2>4. D2[p] = d
    BY <1>1 DEF DType
  <2> HIDE DEF D, r, k1, k2, k3, D2
  <2>5. r.k \in KType /\ ~ r.k.dead /\ d \in Frame /\ r.k.map = [K.map EXCEPT ![d] = RESERVED]
    BY <1>1, <2>2 DEF Handed
  <2> HIDE DEF d
  <2>6. Spare(K) \subseteq Spare(r.k) \cup {d}
    BY <1>1, <2>5, KFields DEF Spare
  <2>7. CASE k1.dead
    <3>1. Spare(r.k) = {}
      BY <1>2, <2>1, <2>3, <2>5, <2>7, NewTableSpare
    <3> QED
      BY <2>5, <2>6, <3>1 DEF Exhausted
  <2>8. CASE ~ k1.dead
    <3>1. PICK f \in Frame : Spare(k1) = Spare(r.k) \ {f}
      BY <1>2, <2>1, <2>3, <2>5, <2>8, NewTableSpare
    <3>2. /\ k1 \in KType
          /\ Owns(k1, D2)
          /\ Points(k1, D2, p, 0)
          /\ \A j \in Index : ~ k1.entry[Base(k1, D2, p, 0)][j].present
      <4>1. ~ r.k.entry[D2[p]][0].present /\ k1 = NewTable(r.k, D2[p], 0) /\ D2[p] # NULL
        BY <1>2, <1>5, <2>1, <2>3, <2>4
      <4> QED
        BY <1>2, <2>3, <2>5, <2>8, <4>1, NewTableOwns
    <3>3. g = Base(k1, D2, p, 0)
      BY <2>4 DEF Base
    <3> HIDE DEF g
    <3>4. g \in Frame /\ IsTable(k1, D2, g) /\ \A j \in Index : ~ k1.entry[g][j].present
      BY <1>2, <3>2, <3>3 DEF Owns, TablesOwned, IsTable
    <3>5. Built.k = k3 /\ k3.dead
      BY <1>3, <2>8
    <3>6. CASE k2.dead
      <4>1. Spare(k1) = {}
        BY <1>2, <2>3, <2>8, <3>2, <3>4, <3>6, NewPageSpare DEF k2
      <4> QED
        BY <2>5, <2>6, <3>1, <4>1 DEF Exhausted
    <3>7. CASE ~ k2.dead
      <4>1. Spare(k2) # {}
        BY <1>2, <2>3, <2>8, <3>2, <3>4, <3>7, NewPageSpare DEF k2
      <4>2. PageAdded(k1, D2, g, 1, k2)
        BY <1>2, <2>3, <2>8, <3>2, <3>4, <3>7, NewPageOwns DEF k2
      <4>3. k2 \in KType /\ Owns(k2, D2) /\ ~ k2.entry[g][2].present
        BY <1>2, <3>4, <4>2 DEF PageAdded
      <4>4. Spare(k2) = {}
        BY <1>2, <2>3, <3>4, <3>5, <3>7, <4>3, NewPageSpare DEF k3
      <4> QED
        BY <4>1, <4>4
    <3> QED
      BY <3>6, <3>7
  <2> QED
    BY <2>7, <2>8
<1> QED
  BY <1>4, <1>5

\* A kernel that came out of a handler alive replaces the old one; nothing
\* happens after a crash.
CrashedExhausted == crashed => Exhausted(K)

\* A call that crashes finds the frames exhausted, and nothing changes after it.
LEMMA NextExhausted == IInv /\ CrashedExhausted /\ [Next]_vars => CrashedExhausted'
<1> SUFFICES ASSUME IInv, CrashedExhausted, [Next]_vars
             PROVE  CrashedExhausted'
  OBVIOUS
<1>1. ASSUME Crash, Exhausted(K)
      PROVE  CrashedExhausted'
  <2>1. K' = K
    BY <1>1 DEF Crash, kernelVars, K
  <2> QED
    BY <1>1, <2>1 DEF CrashedExhausted, Exhausted, Spare
<1>2. ASSUME ~ crashed, crashed' = crashed
      PROVE  CrashedExhausted'
  BY <1>2 DEF CrashedExhausted
<1>3. ASSUME NEW p \in Process, Use(p)
      PROVE  CrashedExhausted'
  <2>1. ASSUME NEW a \in Page, NEW op, SegFault(p, a, op)
        PROVE  CrashedExhausted'
    BY <2>1, <1>2 DEF SegFault, Alive
  <2>2. ASSUME NEW a \in Page, ReadFrom(p, a)
        PROVE  CrashedExhausted'
    BY <2>2, <1>2 DEF ReadFrom, Inside, Alive, SetKernel
  <2>3. ASSUME NEW a \in Page, AccessCrash(p, a)
        PROVE  CrashedExhausted'
    BY <2>3, <1>1, TranslateDies DEF AccessCrash, Inside, Alive
  <2>4. ASSUME NEW a \in Page, NEW v \in Value, WriteTo(p, a, v)
        PROVE  CrashedExhausted'
    BY <2>4, <1>2 DEF WriteTo, Inside, Alive, SetKernel
  <2>5. CASE AddProcess(p)
    BY <2>5, <1>1, <1>2, BuiltDies DEF AddProcess, SetKernel
  <2>6. ASSUME NEW s \in Resizable, NEW n \in {-1, 1}, Resize(p, s, n)
        PROVE  CrashedExhausted'
    BY <2>6, <1>2 DEF Resize, Alive
  <2> QED
    BY <1>3, <2>1, <2>2, <2>3, <2>4, <2>5, <2>6 DEF Use
<1>4. ASSUME NEW p \in Process, RemoveProcess(p)
      PROVE  CrashedExhausted'
  BY <1>4, <1>2 DEF RemoveProcess, Alive, SetKernel
<1>5. CASE Delete
  BY <1>5, <1>2 DEF Delete
<1>6. CASE UNCHANGED vars
  <2>1. K' = K /\ crashed' = crashed
    BY <1>6 DEF vars, kernelVars, K
  <2> QED
    BY <2>1 DEF CrashedExhausted, Exhausted, Spare
<1> QED
  BY <1>3, <1>4, <1>5, <1>6 DEF Next

\* Two frames are fewer than three.
LEMMA ExhaustedIsFew ==
  ASSUME CrashedExhausted
  PROVE  CrashOnlyWhenExhausted
<1> DEFINE left == {f \in Frame : entry_mapping[f] # RESERVED}
<1> SUFFICES ASSUME crashed
             PROVE  Cardinality(left) < 3
  BY DEF CrashOnlyWhenExhausted
<1>1. left = Spare(K)
  BY DEF Spare, K
<1>2. PICK f, g \in Frame : left \subseteq {f, g}
  BY <1>1 DEF CrashedExhausted, Exhausted
<1> HIDE DEF left
<1>3. IsFiniteSet({f}) /\ Cardinality({f}) = 1
  BY FS_Singleton
<1>4. {f, g} = {f} \cup {g}
  OBVIOUS
<1>5. IsFiniteSet({f} \cup {g}) /\ Cardinality({f} \cup {g}) \in {1, 2}
  BY <1>3, FS_AddElement
<1>6. IsFiniteSet(left) /\ Cardinality(left) <= Cardinality({f, g})
  BY <1>2, <1>4, <1>5, FS_Subset
<1>7. Cardinality(left) \in Nat
  BY <1>6, FS_CardinalityType
<1> QED
  BY <1>4, <1>5, <1>6, <1>7

------------------------------------------------------------------------------
(* The theorems.                                                            *)

\* However long the program runs, the TLB holds at most MAX_NODES nodes and
\* never two of the same page: tlb_add_pte is only reached after tlb_get_pte
\* missed, and a full list loses its tail first.
THEOREM TLBStaysACache == Spec => []TLBIsACache
<1>1. Init => Cache(tlb)
  BY FlushedIsCache DEF Init
<1>2. IInv /\ Cache(tlb) => TLBIsACache
  BY DEF Cache, TLBIsACache
<1> QED
  BY <1>1, <1>2, SpecIInv, NextIsCache, PTL DEF Spec

\* The program uses the address 0 that ask_kernel_for_frame answers only when
\* directories and tables hold all frames but two: as long as more frames hold
\* pages or nothing, every access and every mmu_add_process succeeds.
THEOREM DiesOnlyWhenExhausted == Spec => []CrashOnlyWhenExhausted
<1>1. Init => CrashedExhausted
  BY DEF Init, CrashedExhausted
<1> QED
  BY <1>1, ExhaustedIsFew, SpecIInv, NextExhausted, PTL DEF Spec
==============================================================================
