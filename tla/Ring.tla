-------------------------------- MODULE Ring --------------------------------
(***************************************************************************)
(* Position arithmetic of a ring of QLen slots.  The k-th entry ever       *)
(* written goes to slot k % QLen; writers that tag entries with a phase    *)
(* invert it on every lap, starting with TRUE on lap 0.                    *)
(***************************************************************************)
EXTENDS Integers

CONSTANT QLen       \* number of slots of each ring (the `len` of both queues)

ASSUME QLenAssumption == QLen \in Nat /\ QLen >= 2

Slots == 0..(QLen - 1)

\* Slot and lap parity of the k-th entry.  The zeroed ring of the start is
\* lap -1, whose phase is FALSE.
Slot(k)  == k % QLen
Phase(k) == (k \div QLen) % 2 = 0
==============================================================================
