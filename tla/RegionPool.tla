------------------------------ MODULE RegionPool ------------------------------
(***************************************************************************)
(* What a DMA allocator promises, whichever backend provides it: a pool of *)
(* addresses from which callers get contiguous regions of their own.  An   *)
(* allocation takes addresses nobody owns, a deallocation gives back the   *)
(* whole of one region, and neither touches anybody else's.                *)
(***************************************************************************)
EXTENDS Integers

CONSTANT Addr    \* the addresses, an interval of the integers

VARIABLES
  owner,    \* address -> number of the allocation that owns it, 0: nobody
  issued    \* allocations begun

poolVars == <<owner, issued>>

Init == owner = [a \in Addr |-> 0] /\ issued = 0

Allocate(first, end) ==
  /\ first <= end /\ \A a \in first..end : owner[a] = 0
  /\ issued' = issued + 1
  /\ owner' = [a \in Addr |-> IF a \in first..end THEN issued' ELSE owner[a]]

\* An allocation that fails consumes its number only.
Fail == issued' = issued + 1 /\ UNCHANGED owner

Release(id) ==
  /\ id # 0
  /\ owner' = [a \in Addr |-> IF owner[a] = id THEN 0 ELSE owner[a]]
  /\ UNCHANGED issued

Next ==
  \/ \E first, end \in Addr : Allocate(first, end)
  \/ Fail
  \/ \E id \in {owner[a] : a \in Addr} : Release(id)

Spec == Init /\ [][Next]_poolVars
==============================================================================
