------------------------------- MODULE MC_MMU -------------------------------
(***************************************************************************)
(* Instances of the MMU for TLC.                                           *)
(***************************************************************************)
EXTENDS MMUProperties

CONSTANT v1
MCProcess == {0, 1}
MCValue == {v1}
\* Page 1 of the testing memory and the second page of DATA, in the region of
\* another page table.
MCPages == {1, 32851}
\* The last page the testing segment lets in, and the first page of TEXT,
\* which may not be written.
MCEdges == {3, 32840}
MCLast == {3}
MCTesting == {TESTING}
MCNone == {}

\* What a frame held before it was freed is never read again (Give empties
\* it), so states that differ only there are taken as one.
MCView ==
  <<entry_mapping, swap, page_directories, segmentations, tlb, curr_pid, last, crashed,
    [f \in Directories \cup PageTables |-> entries[f]],
    [f \in {g \in Frame : entry_mapping[g] \in PTE} |-> data[f]]>>

\* Nothing is ever stored when Value is empty: every page and every swap file
\* is zero, and the paging structures do not depend on them.
MCStructure ==
  <<entry_mapping, page_directories, segmentations, tlb, curr_pid, crashed,
    [f \in Directories \cup PageTables |->
       [i \in Index |-> [present |-> entries[f][i].present, base |-> entries[f][i].base]]]>>
=============================================================================
