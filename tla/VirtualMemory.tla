---------------------------- MODULE VirtualMemory ----------------------------
(***************************************************************************)
(* What the memory management unit of ideal_indirection promises its       *)
(* callers: every process sees a private array of pages, zero at first,    *)
(* that keeps what was last stored in it.  There are no frames, no page    *)
(* tables, no TLB and no disk here; MMU.tla is shown to implement this.    *)
(***************************************************************************)
CONSTANTS Process,     \* process identifiers
          Page,        \* virtual pages the callers touch
          Value,       \* what a caller can store in a page
          Zero,        \* the contents of a page nobody has stored to
          SEGV,        \* the reply to an access outside the segments
          NULL

Content == {Zero} \cup (Process \X Value)
Blank == [a \in Page |-> Zero]

VARIABLES space,       \* space[p]: the pages of p, NULL when p does not exist
          readable,    \* readable[p], writable[p]: the pages its segments
          writable,    \*   let it read and write
          reply        \* what the last call answered

vars == <<space, readable, writable, reply>>

Reply(op, p, v) == [op |-> op, pid |-> p, value |-> v]

Nobody == [p \in Process |-> {}]

Init == /\ space = [p \in Process |-> NULL]
        /\ readable = Nobody
        /\ writable = Nobody
        /\ reply = Reply("none", NULL, NULL)

\* The segments of p change, and nobody else's.
Segments(p) == /\ readable' \in [Process -> SUBSET Page]
               /\ writable' \in [Process -> SUBSET Page]
               /\ \A q \in Process \ {p} : /\ readable'[q] = readable[q]
                                           /\ writable'[q] = writable[q]

\* A new process starts from blank pages.
Create(p) == /\ space[p] = NULL
             /\ space' = [space EXCEPT ![p] = Blank]
             /\ Segments(p)
             /\ reply' = Reply("add", p, NULL)

Destroy(p) == /\ space' = [space EXCEPT ![p] = NULL]
              /\ Segments(p)
              /\ reply' = Reply("remove", p, NULL)

Shutdown == /\ space' = [p \in Process |-> NULL]
            /\ readable' = Nobody
            /\ writable' = Nobody
            /\ reply' = Reply("delete", NULL, NULL)

\* The segments of one process move; no page changes.
Resize(p) == /\ space[p] # NULL
             /\ Segments(p)
             /\ reply' = Reply("resize", p, NULL)
             /\ UNCHANGED space

Load(p, a) ==
  /\ space[p] # NULL
  /\ reply' = Reply("read", p, IF a \in readable[p] THEN space[p][a] ELSE SEGV)
  /\ UNCHANGED <<space, readable, writable>>

Store(p, a, v) ==
  /\ space[p] # NULL
  /\ \/ /\ a \in writable[p]
        /\ space' = [space EXCEPT ![p][a] = <<p, v>>]
        /\ reply' = Reply("write", p, NULL)
     \/ /\ a \notin writable[p]
        /\ reply' = Reply("write", p, SEGV)
        /\ UNCHANGED space
  /\ UNCHANGED <<readable, writable>>

Next == \/ Shutdown
        \/ \E p \in Process :
              \/ Create(p) \/ Destroy(p) \/ Resize(p)
              \/ \E a \in Page : Load(p, a) \/ \E v \in Value : Store(p, a, v)

Spec == Init /\ [][Next]_vars
=============================================================================
