--------------------------- MODULE QueuePairProofs ---------------------------
(***************************************************************************)
(* The safety properties of QueuePair for every ring length, every number  *)
(* of commands and every controller behaviour, from one inductive          *)
(* invariant that ties each ring index to an absolute position.            *)
(***************************************************************************)
EXTENDS QueuePair, RingLemmas, FiniteSetTheorems

\* Position behind sq_head: what the last consumed completion reported.
HeadPos == IF reaped = 0 THEN 0 ELSE heads[reaped]

\* Position behind cq_head and cq_phase.
CqPos == reaped + (IF pc \in {"poll", "copy"} THEN n - 1
                   ELSE IF pc = "cqdbl" THEN n ELSE 0)

\* The locals of the call under way agree with the client's count.
CallInv ==
  /\ pc \in {"submit", "sqdbl"} => todo >= 1
  /\ pc \notin {"submit", "sqdbl"} => reqs = 0
  /\ pc \in {"poll", "copy", "cqdbl"} /\ call # "complete_io" => n = 1
  /\ outstanding + reqs = rung - reaped

\* The submission ring.
SqInv ==
  /\ sq_tail = Slot(submitted) /\ sqTDBL = Slot(rung) /\ sq_head = Slot(HeadPos)
  /\ reaped <= HeadPos /\ HeadPos <= fetched /\ fetched <= rung
  /\ submitted <= HeadPos + QLen - 1
  /\ \A k \in fetched..(submitted - 1) : sqMem[Slot(k)] = k

\* The submission queue heads reported with the completions.
HeadsInv ==
  /\ Len(heads) = Len(posts)
  /\ \A i \in 1..Len(posts) : i <= heads[i] /\ heads[i] <= fetched
  /\ \A i, j \in 1..Len(posts) : i <= j => heads[i] <= heads[j]

\* The completion ring: where the driver looks, and what it can find there.
CqInv ==
  /\ cq_head = Slot(CqPos) /\ (cq_phase <=> Phase(CqPos))
  /\ cqHDBL = Slot(reaped)
  /\ reaped <= Len(posts) /\ Len(posts) <= reaped + QLen - 1

\* The slot of each of the last QLen positions carries that position's phase
\* and, once posted, that completion.
RingInv ==
  \A j \in (Len(posts) - QLen)..(Len(posts) - 1) :
    LET e == cqMem[Slot(j)]
    IN  /\ e.phase <=> Phase(j)
        /\ j >= 0 => /\ [cmd |-> e.cmd, ok |-> e.ok] = posts[j + 1]
                     /\ e.sq_head = Slot(heads[j + 1])

\* The entry a completion call is about to use.
EntryInv ==
  /\ pc = "copy" => reaped + n <= Len(posts)
  /\ pc = "cqdbl" => /\ reaped + n <= Len(posts)
                     /\ [cmd |-> entry.cmd, ok |-> entry.ok] = posts[reaped + n]
                     /\ entry.sq_head = Slot(heads[reaped + n])

\* Every fetched command is either in flight or answered.
CmdInv ==
  /\ inflight \subseteq 0..(fetched - 1) /\ IsFiniteSet(inflight)
  /\ Cardinality(inflight) = fetched - Len(posts)
  /\ \A i \in 1..Len(posts) : posts[i].cmd \in 0..(fetched - 1) \ inflight
  /\ \A c \in 0..(fetched - 1) :
       c \in inflight \/ \E i \in 1..Len(posts) : posts[i].cmd = c

\* The inductive invariant.
IndInv ==
  TypeOK /\ CallInv /\ SqInv /\ HeadsInv /\ CqInv /\ RingInv /\ EntryInv /\ CmdInv
-----------------------------------------------------------------------------
\* The index arithmetic stays within the ring.
LEMMA IndexType ==
  ASSUME NEW s \in Slots, NEW k \in Nat
  PROVE  (s + k) % QLen \in Slots
<1>1. s + k \in Int
  BY QLenAssumption DEF Slots
<1> QED BY <1>1, SlotType DEF Slot

\* What a returning call leaves in its locals is well typed.
LEMMA ReturnType ==
  ASSUME return
  PROVE  /\ pc' = "idle" /\ call' = "none" /\ n' \in 1..(QLen - 1)
         /\ todo' \in Nat /\ reqs' \in Nat /\ entry' \in Entry
BY QLenAssumption DEF return, NoEntry, NoCmd, Entry, Slots

\* Every step keeps the variables in their types.
LEMMA TypeStep ==
  ASSUME TypeOK, [Next]_vars
  PROVE  TypeOK'
<1>1. ASSUME NEW k \in 1..MaxChunks, submit_io(k) PROVE TypeOK'
  BY <1>1, BoundAssumption DEF submit_io, TypeOK, driverVars, deviceVars
<1>2. CASE submit
  <2>1. (sq_tail + 1) % QLen \in Slots
    BY IndexType DEF TypeOK
  <2> QED BY <1>2, <2>1 DEF submit, TypeOK, callVars, deviceVars
<1>3. CASE ring_sq
  BY <1>3, ReturnType DEF ring_sq, TypeOK, driverVars, deviceVars
<1>4. CASE submit_full
  BY <1>4, ReturnType DEF submit_full, TypeOK, driverVars, deviceVars
<1>5. ASSUME NEW k \in 1..MaxWait, complete_io(k) PROVE TypeOK'
  <2>1. k \in 1..(QLen - 1) /\ k - 1 \in Nat
    BY WaitAssumption, QLenAssumption
  <2>2. (cq_head + (k - 1)) % QLen \in Slots
    BY <2>1, IndexType DEF TypeOK
  <2>3. cq_head + k - 1 = cq_head + (k - 1)
    BY QLenAssumption DEF TypeOK, Slots
  <2> QED
    BY <1>5, <2>1, <2>2, <2>3 DEF complete_io, complete_n, TypeOK, deviceVars
<1>6. ASSUME NEW c \in Calls \ {"complete_io"}, quick_poll(c) PROVE TypeOK'
  BY <1>6, CallAssumption, QLenAssumption DEF quick_poll, TypeOK, driverVars, deviceVars
<1>7. CASE poll_hit
  BY <1>7 DEF poll_hit, TypeOK, driverVars, callVars, deviceVars
<1>8. CASE poll_miss
  BY <1>8, ReturnType DEF poll_miss, TypeOK, driverVars, deviceVars
<1>9. CASE complete
  <2>1. (cq_head + 1) % QLen \in Slots
    BY IndexType DEF TypeOK
  <2> QED BY <1>9, <2>1 DEF complete, TypeOK, deviceVars
<1>10. CASE ring_cq
  <2>1. entry.sq_head \in Slots /\ result \in {"none", "success", "failed"}
    BY DEF TypeOK, Entry, result
  <2>2. outstanding - n \in Int /\ reaped + n \in Nat
    BY QLenAssumption DEF TypeOK
  <2> QED BY <1>10, <2>1, <2>2, ReturnType DEF ring_cq, TypeOK, deviceVars
<1>11. CASE device_fetch
  <2>1. Slot(fetched) \in Slots
    BY SlotType DEF TypeOK
  <2>2. sqMem[Slot(fetched)] \in Int
    BY <2>1 DEF TypeOK
  <2>3. inflight' \in SUBSET Int
    BY <1>11, <2>2 DEF device_fetch, TypeOK
  <2> QED BY <1>11, <2>3 DEF device_fetch, TypeOK, driverVars, callVars
<1>12. ASSUME NEW c \in inflight, NEW ok \in Outcomes, device_post(c, ok) PROVE TypeOK'
  <2>1. /\ Slot(fetched) \in Slots /\ Slot(Len(posts)) \in Slots
        /\ Phase(Len(posts)) \in BOOLEAN /\ ok \in BOOLEAN /\ c \in Int
    BY SlotType, OutcomeAssumption DEF TypeOK, Phase
  <2>2. cqMem' \in [Slots -> Entry]
    BY <1>12, <2>1 DEF device_post, Entry, TypeOK
  <2>3. posts' \in Seq([cmd : Int, ok : BOOLEAN]) /\ heads' \in Seq(Nat)
    BY <1>12, <2>1 DEF device_post, TypeOK
  <2>4. inflight' \in SUBSET Int
    BY <1>12 DEF device_post, TypeOK
  <2> QED BY <1>12, <2>2, <2>3, <2>4 DEF device_post, TypeOK, driverVars, callVars
<1>13. CASE UNCHANGED vars
  BY <1>13 DEF vars, TypeOK, driverVars, callVars, deviceVars
<1> QED
  BY <1>1, <1>2, <1>3, <1>4, <1>5, <1>6, <1>7, <1>8, <1>9, <1>10, <1>11, <1>12, <1>13
  DEF Next, ClientCall, DriverStep, DevicePost

\* Type correctness, for every ring length and every bound.
THEOREM TypeCorrect == Spec => []TypeOK
<1>1. Init => TypeOK
  BY QLenAssumption DEF Init, TypeOK, NoEntry, NoCmd, Entry, Slots
<1>2. TypeOK /\ [Next]_vars => TypeOK'
  BY TypeStep
<1> QED BY <1>1, <1>2, PTL DEF Spec
-----------------------------------------------------------------------------
(***************************************************************************)
(* Each action preserves the invariant.  SharedParts names the conjuncts   *)
(* that only the controller's steps can disturb.                           *)
(***************************************************************************)
SharedParts == HeadsInv /\ RingInv /\ CmdInv

\* A step of the driver does not touch what the controller wrote.
LEMMA SharedStep ==
  ASSUME SharedParts, UNCHANGED <<cqMem, deviceVars>>
  PROVE  SharedParts'
BY DEF SharedParts, HeadsInv, RingInv, CmdInv, deviceVars

\* The absolute positions are integers.
LEMMA PosType ==
  ASSUME IndInv
  PROVE  HeadPos \in Int /\ rung \in Int /\ CqPos \in Int
BY QLenAssumption DEF IndInv, TypeOK, HeadsInv, CqInv, HeadPos, rung, CqPos

\* submit_io starts a call and touches no ring.
LEMMA SubmitIoStep ==
  ASSUME IndInv, NEW k \in 1..MaxChunks, submit_io(k)
  PROVE  (CallInv /\ SqInv /\ CqInv /\ EntryInv)'
<1> USE DEF IndInv, TypeOK
<1>1. rung' = rung /\ HeadPos' = HeadPos /\ CqPos' = CqPos
  BY DEF submit_io, rung, HeadPos, CqPos, deviceVars
<1>2. CallInv'
  BY <1>1, BoundAssumption DEF submit_io, CallInv
<1>3. SqInv'
  BY <1>1 DEF submit_io, SqInv, driverVars, deviceVars
<1>4. CqInv' /\ EntryInv'
  BY <1>1 DEF submit_io, CqInv, EntryInv, driverVars, deviceVars
<1> QED BY <1>2, <1>3, <1>4

\* submit fills the slot at tail, which no unfetched command occupies.
LEMMA SubmitStep ==
  ASSUME IndInv, submit
  PROVE  (CallInv /\ SqInv /\ CqInv /\ EntryInv)'
<1> USE DEF IndInv, TypeOK
<1>1. rung' = rung /\ rung = submitted /\ HeadPos' = HeadPos /\ CqPos' = CqPos
  BY DEF submit, rung, HeadPos, CqPos, deviceVars, callVars
<1>2. CallInv'
  BY <1>1 DEF submit, CallInv, callVars
<1>3. submitted + 1 <= HeadPos + QLen - 1
  <2>1. HeadPos \in Int /\ submitted \in Int
    BY PosType
  <2>2. (sq_tail + 1) % QLen = Slot(submitted + 1)
    BY SlotAdd, QLenAssumption DEF SqInv
  <2>3. Slot(HeadPos) # Slot(submitted + 1)
    BY <2>2 DEF submit, is_full, SqInv
  <2>4. ASSUME submitted = HeadPos + QLen - 1 PROVE FALSE
    <3>1. submitted + 1 = HeadPos + QLen
      BY <2>1, <2>4, QLenAssumption
    <3> QED BY <3>1, <2>1, <2>3, SlotLap
  <2> QED BY <2>1, <2>4, QLenAssumption DEF SqInv
<1>4. sq_tail' = Slot(submitted')
  BY SlotAdd, QLenAssumption DEF submit, SqInv
<1>5. \A k \in fetched'..(submitted' - 1) : sqMem'[Slot(k)] = k
  <2> SUFFICES ASSUME NEW k \in fetched..submitted
               PROVE  sqMem'[Slot(k)] = k
    BY DEF submit, deviceVars
  <2>1. k \in Int /\ Slot(k) \in Slots /\ sq_tail = Slot(submitted)
    BY SlotType DEF SqInv
  <2>2. CASE k = submitted
    BY <2>1, <2>2 DEF submit
  <2>3. CASE k < submitted
    <3>1. submitted < k + QLen
      BY <1>3, PosType, QLenAssumption DEF SqInv
    <3>2. Slot(k) # Slot(submitted)
      BY <2>1, <2>3, <3>1, SlotDistinct
    <3> QED BY <2>1, <2>3, <3>2 DEF submit, SqInv
  <2> QED BY <2>2, <2>3
<1>6. SqInv'
  BY <1>1, <1>3, <1>4, <1>5 DEF submit, SqInv, deviceVars
<1>7. CqInv' /\ EntryInv'
  BY <1>1 DEF submit, CqInv, EntryInv, deviceVars, callVars
<1> QED BY <1>2, <1>6, <1>7

\* The tail doorbell announces exactly the command just written.
LEMMA RingSqStep ==
  ASSUME IndInv, ring_sq
  PROVE  (CallInv /\ SqInv /\ CqInv /\ EntryInv)'
<1> USE DEF IndInv, TypeOK
<1>1. /\ rung' = rung + 1 /\ rung + 1 = submitted
      /\ HeadPos' = HeadPos /\ CqPos' = CqPos
  BY DEF ring_sq, return, rung, HeadPos, CqPos, deviceVars
<1>2. CallInv'
  <2>0. rung \in Int /\ reaped \in Int /\ reqs \in Int /\ outstanding \in Int
    BY PosType
  <2>1. pc = "sqdbl" /\ outstanding + reqs = rung - reaped /\ reaped' = reaped
    BY DEF ring_sq, CallInv
  <2>2. CASE todo > 1 /\ pc' = "submit" /\ todo' = todo - 1 /\ reqs' = reqs + 1
             /\ outstanding' = outstanding
    BY <1>1, <2>0, <2>1, <2>2 DEF CallInv
  <2>3. CASE return /\ outstanding' = outstanding + reqs + 1
    BY <1>1, <2>0, <2>1, <2>3 DEF return, CallInv
  <2> QED BY <2>2, <2>3 DEF ring_sq
<1>3. SqInv'
  BY <1>1, PosType DEF ring_sq, return, SqInv, driverVars, deviceVars
<1>4. CqInv' /\ EntryInv'
  BY <1>1 DEF ring_sq, return, CqInv, EntryInv, driverVars, deviceVars
<1> QED BY <1>2, <1>3, <1>4

\* Giving up on a full queue returns the number of commands pushed.
LEMMA SubmitFullStep ==
  ASSUME IndInv, submit_full
  PROVE  (CallInv /\ SqInv /\ CqInv /\ EntryInv)'
<1> USE DEF IndInv, TypeOK
<1>1. rung' = rung /\ HeadPos' = HeadPos /\ CqPos' = CqPos
  BY DEF submit_full, return, rung, HeadPos, CqPos, deviceVars
<1>2. CallInv'
  BY <1>1 DEF submit_full, return, CallInv
<1>3. SqInv'
  BY <1>1 DEF submit_full, return, SqInv, driverVars, deviceVars
<1>4. CqInv' /\ EntryInv'
  BY <1>1 DEF submit_full, return, CqInv, EntryInv, driverVars, deviceVars
<1> QED BY <1>2, <1>3, <1>4

\* complete_n jumps over k - 1 entries and keeps the expected phase right.
LEMMA CompleteIoStep ==
  ASSUME IndInv, NEW k \in 1..MaxWait, complete_io(k)
  PROVE  (CallInv /\ SqInv /\ CqInv /\ EntryInv)'
<1> USE DEF IndInv, TypeOK
<1>1. /\ rung' = rung /\ HeadPos' = HeadPos
      /\ CqPos = reaped /\ CqPos' = reaped + (k - 1)
  BY DEF complete_io, rung, HeadPos, CqPos, deviceVars
<1>2. CallInv'
  BY <1>1 DEF complete_io, CallInv
<1>3. SqInv'
  BY <1>1 DEF complete_io, SqInv, deviceVars
<1>4. cq_head' = Slot(CqPos') /\ (cq_phase' <=> Phase(CqPos'))
  <2>1. reaped \in Int /\ k - 1 \in 0..QLen
    BY WaitAssumption, QLenAssumption
  <2>2. Slot(reaped) \in Int /\ Slot(reaped) + k - 1 = Slot(reaped) + (k - 1)
    BY SlotType, QLenAssumption DEF Slots
  <2>3. /\ (Slot(reaped) + (k - 1)) % QLen = Slot(reaped + (k - 1))
        /\ Phase(reaped + (k - 1)) = IF Slot(reaped) + (k - 1) >= QLen
                                     THEN ~Phase(reaped) ELSE Phase(reaped)
    BY <2>1, SlotAdd
  <2>4. cq_head = Slot(reaped) /\ (cq_phase <=> Phase(reaped)) /\ Phase(reaped) \in BOOLEAN
    BY <1>1 DEF CqInv, Phase
  <2> QED BY <1>1, <2>2, <2>3, <2>4 DEF complete_io, complete_n
<1>5. CqInv' /\ EntryInv'
  BY <1>4 DEF complete_io, CqInv, EntryInv, deviceVars
<1> QED BY <1>2, <1>3, <1>5

\* A quick poll looks at the next entry.
LEMMA QuickPollStep ==
  ASSUME IndInv, NEW c \in Calls \ {"complete_io"}, quick_poll(c)
  PROVE  (CallInv /\ SqInv /\ CqInv /\ EntryInv)'
<1> USE DEF IndInv, TypeOK
<1>1. rung' = rung /\ HeadPos' = HeadPos /\ CqPos' = CqPos
  BY DEF quick_poll, rung, HeadPos, CqPos, deviceVars
<1>2. CallInv'
  BY <1>1 DEF quick_poll, CallInv
<1>3. SqInv'
  BY <1>1 DEF quick_poll, SqInv, driverVars, deviceVars
<1>4. CqInv' /\ EntryInv'
  BY <1>1 DEF quick_poll, CqInv, EntryInv, driverVars, deviceVars
<1> QED BY <1>2, <1>3, <1>4

\* The awaited position: the tag in its slot tells whether it is posted.
LEMMA PhaseTells ==
  ASSUME IndInv, pc = "poll"
  PROVE  phase_matches <=> reaped + n <= Len(posts)
<1> USE DEF IndInv, TypeOK
<1> DEFINE p == reaped + n - 1
<1>1. p \in Int /\ CqPos = p /\ cq_head = Slot(p) /\ (cq_phase <=> Phase(p))
  BY QLenAssumption DEF CqPos, CqInv
<1>2. /\ Len(posts) \in Nat /\ reaped <= p /\ p < Len(posts) + QLen
      /\ Len(posts) < reaped + QLen
  BY QLenAssumption DEF CqInv
<1>3. cqMem[Slot(p)].phase \in BOOLEAN /\ Phase(p) \in BOOLEAN
  BY <1>1, SlotType DEF Entry, Phase
<1>4. CASE p < Len(posts)
  <2>1. p \in (Len(posts) - QLen)..(Len(posts) - 1)
    BY <1>1, <1>2, <1>4, QLenAssumption
  <2>2. cqMem[Slot(p)].phase <=> Phase(p)
    BY <2>1 DEF RingInv
  <2> QED BY <1>1, <1>3, <1>4, <2>2, QLenAssumption DEF phase_matches
<1>5. CASE p >= Len(posts)
  <2> DEFINE j == p - QLen
  <2>1. j \in (Len(posts) - QLen)..(Len(posts) - 1) /\ j \in Int /\ j + QLen = p
    BY <1>1, <1>2, <1>5, QLenAssumption
  <2>2. cqMem[Slot(j)].phase <=> Phase(j)
    BY <2>1 DEF RingInv
  <2>3. Slot(p) = Slot(j) /\ Phase(p) = ~Phase(j)
    BY <2>1, SlotLap
  <2>4. ~phase_matches
    BY <1>1, <1>3, <2>2, <2>3 DEF phase_matches
  <2> QED BY <1>1, <1>5, <2>4, QLenAssumption
<1> QED BY <1>1, <1>2, <1>4, <1>5

\* A matching tag means that the awaited completion is there.
LEMMA PollHitStep ==
  ASSUME IndInv, poll_hit
  PROVE  (CallInv /\ SqInv /\ CqInv /\ EntryInv)'
<1> USE DEF IndInv, TypeOK
<1>1. rung' = rung /\ HeadPos' = HeadPos /\ CqPos' = CqPos
  BY DEF poll_hit, rung, HeadPos, CqPos, deviceVars, callVars
<1>2. CallInv'
  BY <1>1 DEF poll_hit, CallInv, callVars
<1>3. SqInv'
  BY <1>1 DEF poll_hit, SqInv, driverVars, deviceVars
<1>4. CqInv'
  BY <1>1 DEF poll_hit, CqInv, driverVars, deviceVars
<1>5. EntryInv'
  BY PhaseTells DEF poll_hit, EntryInv, callVars, deviceVars
<1> QED BY <1>2, <1>3, <1>4, <1>5

\* A quick poll that finds nothing leaves the queues alone.
LEMMA PollMissStep ==
  ASSUME IndInv, poll_miss
  PROVE  (CallInv /\ SqInv /\ CqInv /\ EntryInv)'
<1> USE DEF IndInv, TypeOK
<1>1. rung' = rung /\ HeadPos' = HeadPos /\ CqPos' = CqPos
  BY DEF poll_miss, return, rung, HeadPos, CqPos, CallInv, deviceVars
<1>2. CallInv'
  BY <1>1 DEF poll_miss, return, CallInv
<1>3. SqInv'
  BY <1>1 DEF poll_miss, return, SqInv, driverVars, deviceVars
<1>4. CqInv' /\ EntryInv'
  BY <1>1 DEF poll_miss, return, CqInv, EntryInv, driverVars, deviceVars
<1> QED BY <1>2, <1>3, <1>4

\* complete copies the awaited entry and advances head and phase by one.
LEMMA CompleteStep ==
  ASSUME IndInv, complete
  PROVE  (CallInv /\ SqInv /\ CqInv /\ EntryInv)'
<1> USE DEF IndInv, TypeOK
<1> DEFINE p == reaped + n - 1
<1>1. /\ rung' = rung /\ HeadPos' = HeadPos
      /\ p \in Int /\ CqPos = p /\ CqPos' = p + 1
  BY QLenAssumption DEF complete, rung, HeadPos, CqPos, deviceVars
<1>2. CallInv'
  BY <1>1 DEF complete, CallInv
<1>3. SqInv'
  BY <1>1 DEF complete, SqInv, deviceVars
<1>4. cq_head' = Slot(CqPos') /\ (cq_phase' <=> Phase(CqPos'))
  <2>1. cq_head = Slot(p) /\ (cq_phase <=> Phase(p)) /\ Phase(p) \in BOOLEAN
    BY <1>1 DEF CqInv, Phase
  <2> HIDE DEF p
  <2>2. 1 \in 0..QLen
    BY QLenAssumption
  <2>3. /\ (Slot(p) + 1) % QLen = Slot(p + 1)
        /\ Phase(p + 1) = IF Slot(p) + 1 >= QLen THEN ~Phase(p) ELSE Phase(p)
    BY <1>1, <2>2, SlotAdd
  <2>4. Slot(p) + 1 >= QLen <=> (Slot(p) + 1) % QLen = 0
    BY <1>1, WrapsToZero
  <2> QED BY <1>1, <2>1, <2>3, <2>4 DEF complete
<1>5. CqInv'
  BY <1>4 DEF complete, CqInv, deviceVars
<1>6. EntryInv'
  <2>1. reaped + n <= Len(posts) /\ p >= 0 /\ p + 1 = reaped + n
    BY QLenAssumption DEF complete, EntryInv
  <2>2. p \in (Len(posts) - QLen)..(Len(posts) - 1)
    BY <1>1, <2>1, QLenAssumption DEF CqInv
  <2>3. /\ [cmd |-> cqMem[Slot(p)].cmd, ok |-> cqMem[Slot(p)].ok] = posts[p + 1]
        /\ cqMem[Slot(p)].sq_head = Slot(heads[p + 1])
    BY <2>1, <2>2 DEF RingInv
  <2>4. entry' = cqMem[Slot(p)] /\ pc' = "cqdbl" /\ UNCHANGED <<reaped, n, posts, heads>>
    BY <1>1 DEF complete, CqInv, deviceVars
  <2> HIDE DEF p
  <2> QED BY <2>1, <2>3, <2>4 DEF EntryInv
<1> QED BY <1>2, <1>3, <1>5, <1>6

\* The head doorbell releases exactly the consumed slots, and sub_queue.head
\* moves forward to a position the controller has fetched up to.
LEMMA RingCqStep ==
  ASSUME IndInv, ring_cq
  PROVE  (CallInv /\ SqInv /\ CqInv /\ EntryInv)'
<1> USE DEF IndInv, TypeOK
<1>1. /\ rung' = rung /\ CqPos' = CqPos /\ CqPos = reaped + n
      /\ reaped + n <= Len(posts) /\ reaped + n \in 1..Len(posts)
      /\ reaped' = reaped + n /\ HeadPos' = heads[reaped + n]
  BY QLenAssumption DEF ring_cq, return, rung, HeadPos, CqPos, EntryInv, deviceVars
<1>2. CallInv'
  <2>1. rung \in Int /\ reaped \in Int /\ n \in Int /\ outstanding \in Int
    BY PosType, QLenAssumption
  <2>2. outstanding = rung - reaped
    BY <2>1 DEF ring_cq, CallInv
  <2> QED BY <1>1, <2>1, <2>2 DEF ring_cq, return, CallInv
<1>3. heads[reaped + n] \in Int /\ HeadPos \in Int /\ HeadPos <= heads[reaped + n]
  <2>1. heads[reaped + n] \in Int
    BY <1>1 DEF HeadsInv
  <2>2. CASE reaped = 0
    BY <1>1, <2>1, <2>2 DEF HeadsInv, HeadPos
  <2>3. CASE reaped # 0
    <3>1. reaped \in 1..Len(posts) /\ reaped <= reaped + n
      BY <1>1, <2>3, QLenAssumption
    <3> QED BY <1>1, <2>1, <2>3, <3>1, PosType DEF HeadsInv, HeadPos
  <2> QED BY <2>2, <2>3
<1>4. SqInv'
  <2>1. sq_head' = Slot(HeadPos')
    BY <1>1 DEF ring_cq, EntryInv
  <2>2. reaped' <= HeadPos' /\ HeadPos' <= fetched'
    <3>1. reaped + n <= heads[reaped + n] /\ heads[reaped + n] <= fetched
      BY <1>1 DEF HeadsInv
    <3>2. fetched' = fetched
      BY DEF ring_cq, deviceVars
    <3> QED BY ONLY <1>1, <3>1, <3>2
  <2>3. submitted' <= HeadPos' + QLen - 1
    <3>1. submitted \in Int /\ submitted <= HeadPos + QLen - 1 /\ submitted' = submitted
      BY DEF ring_cq, SqInv
    <3> QED BY ONLY <1>1, <1>3, <3>1, QLenAssumption
  <2> QED BY <1>1, <2>1, <2>2, <2>3 DEF ring_cq, return, SqInv, deviceVars
<1>5. CqInv'
  <2>1. cqHDBL' = Slot(reaped') /\ cq_head' = Slot(CqPos') /\ (cq_phase' <=> Phase(CqPos'))
    BY <1>1 DEF ring_cq, CqInv
  <2> QED BY <1>1, <2>1, QLenAssumption DEF ring_cq, CqInv, deviceVars
<1>6. EntryInv'
  BY DEF ring_cq, return, EntryInv
<1> QED BY <1>2, <1>4, <1>5, <1>6

\* The controller fetches the next command in submission order.
LEMMA FetchStep ==
  ASSUME IndInv, device_fetch
  PROVE  (CallInv /\ SqInv /\ CqInv /\ EntryInv /\ SharedParts)'
<1> USE DEF IndInv, TypeOK
<1>1. rung' = rung /\ HeadPos' = HeadPos /\ CqPos' = CqPos
  BY DEF device_fetch, rung, HeadPos, CqPos, callVars
<1>2. fetched < rung /\ rung <= submitted /\ rung \in Int
  <2>1. rung \in Int /\ fetched \in Int
    BY PosType
  <2> QED BY <2>1 DEF device_fetch, SqInv, rung
<1>3. sqMem[Slot(fetched)] = fetched
  BY <1>2 DEF SqInv
<1>4. CallInv' /\ EntryInv'
  BY <1>1 DEF device_fetch, CallInv, EntryInv, callVars
<1>5. SqInv'
  BY <1>1, <1>2, PosType DEF device_fetch, SqInv, driverVars
<1>6. CqInv'
  BY <1>1 DEF device_fetch, CqInv, driverVars
<1>7. HeadsInv' /\ RingInv'
  BY DEF device_fetch, HeadsInv, RingInv
<1>8. CmdInv'
  <2>1. /\ inflight' = inflight \cup {fetched} /\ fetched' = fetched + 1
        /\ posts' = posts /\ fetched \notin inflight
    BY <1>3 DEF device_fetch, CmdInv
  <2>2. IsFiniteSet(inflight') /\ Cardinality(inflight') = Cardinality(inflight) + 1
    BY <2>1, FS_AddElement DEF CmdInv
  <2>3. inflight' \subseteq 0..(fetched' - 1)
    BY <2>1 DEF CmdInv
  <2>4. Cardinality(inflight') = fetched' - Len(posts')
    BY <2>1, <2>2 DEF CmdInv
  <2>5. \A i \in 1..Len(posts') : posts'[i].cmd \in 0..(fetched' - 1) \ inflight'
    <3>1. fetched \in Nat /\ \A i \in 1..Len(posts) : posts[i].cmd \in 0..(fetched - 1) \ inflight
      BY DEF CmdInv
    <3> SUFFICES ASSUME NEW i \in 1..Len(posts)
                 PROVE  posts[i].cmd \in 0..(fetched' - 1) \ inflight'
      BY <2>1
    <3>2. posts[i].cmd \in 0..(fetched - 1) /\ posts[i].cmd \notin inflight
      BY ONLY <3>1
    <3> QED BY ONLY <2>1, <3>1, <3>2
  <2>6. \A c \in 0..(fetched' - 1) :
          c \in inflight' \/ \E i \in 1..Len(posts') : posts'[i].cmd = c
    BY <2>1 DEF CmdInv
  <2> QED BY <2>2, <2>3, <2>4, <2>5, <2>6 DEF CmdInv
<1> QED BY <1>4, <1>5, <1>6, <1>7, <1>8 DEF SharedParts

\* The controller posts into a slot whose completion was consumed.
LEMMA PostStep ==
  ASSUME IndInv, NEW c \in inflight, NEW ok \in Outcomes, device_post(c, ok)
  PROVE  (CallInv /\ SqInv /\ CqInv /\ EntryInv /\ SharedParts)'
<1> USE DEF IndInv, TypeOK
<1> DEFINE L == Len(posts)
<1> DEFINE new == [cmd |-> c, ok |-> ok]
<1>1. /\ L \in Nat /\ posts' = Append(posts, new) /\ heads' = Append(heads, fetched)
      /\ Len(posts') = L + 1 /\ Len(heads) = L /\ Len(heads') = L + 1
      /\ posts'[L + 1] = new /\ heads'[L + 1] = fetched
      /\ \A i \in 1..L : posts'[i] = posts[i] /\ heads'[i] = heads[i]
  BY OutcomeAssumption DEF device_post, HeadsInv
<1>2. L + 1 <= reaped + QLen - 1
  <2>1. L \in Int /\ reaped \in Int /\ reaped <= L /\ L <= reaped + QLen - 1
    BY <1>1 DEF CqInv
  <2>2. Slot(L + 1) # Slot(reaped)
    BY DEF device_post, CqInv
  <2> HIDE DEF L
  <2>3. L # reaped + QLen - 1
    <3> SUFFICES ASSUME L = reaped + QLen - 1 PROVE FALSE
      OBVIOUS
    <3>1. L + 1 = reaped + QLen
      BY <2>1, QLenAssumption
    <3> QED BY <2>1, <2>2, <3>1, SlotLap
  <2> QED BY <2>1, <2>3, QLenAssumption
<1>3. L + 1 <= fetched
  <2>1. Cardinality(inflight) \in Nat /\ Cardinality(inflight) # 0
    BY FS_CardinalityType, FS_EmptySet DEF CmdInv
  <2> QED BY <1>1, <2>1 DEF CmdInv
<1>4. rung' = rung /\ CqPos' = CqPos /\ HeadPos' = HeadPos
  BY <1>1 DEF device_post, rung, CqPos, HeadPos, CqInv, callVars
<1>5. CallInv'
  BY <1>4 DEF device_post, CallInv, callVars
<1>6. SqInv'
  BY <1>4 DEF device_post, SqInv, driverVars
<1>7. CqInv'
  BY <1>1, <1>2, <1>4 DEF device_post, CqInv, driverVars
<1>8. HeadsInv'
  <2>1. \A i \in 1..(L + 1) : i <= heads'[i] /\ heads'[i] <= fetched
    BY <1>1, <1>3 DEF HeadsInv
  <2>2. \A i, j \in 1..(L + 1) : i <= j => heads'[i] <= heads'[j]
    <3>1. /\ L \in Nat /\ fetched \in Nat
          /\ \A i \in 1..L : heads[i] \in Nat /\ heads[i] <= fetched
          /\ \A i, j \in 1..L : i <= j => heads[i] <= heads[j]
      BY <1>1 DEF HeadsInv
    <3> HIDE DEF L
    <3> SUFFICES ASSUME NEW i \in 1..(L + 1), NEW j \in 1..(L + 1), i <= j
                 PROVE  heads'[i] <= heads'[j]
      OBVIOUS
    <3>2. CASE j \in 1..L
      BY ONLY <1>1, <3>1, <3>2, i \in 1..(L + 1), i <= j
    <3>3. CASE j = L + 1 /\ i \in 1..L
      BY ONLY <1>1, <3>1, <3>3
    <3>4. CASE j = L + 1 /\ i = L + 1
      BY ONLY <1>1, <3>1, <3>4
    <3> QED BY ONLY <3>1, <3>2, <3>3, <3>4, i \in 1..(L + 1), j \in 1..(L + 1), i <= j
  <2> QED BY <1>1, <2>1, <2>2 DEF device_post, HeadsInv
<1>9. EntryInv'
  <2>1. reaped + n \in Nat /\ reaped + n >= 1
    BY QLenAssumption
  <2> QED BY <1>1, <2>1 DEF device_post, EntryInv, callVars
<1>10. RingInv'
  <2>0. (Len(posts') - QLen)..(Len(posts') - 1) = (L + 1 - QLen)..L
    BY <1>1, QLenAssumption
  <2> SUFFICES ASSUME NEW j \in (L + 1 - QLen)..L
               PROVE  /\ cqMem'[Slot(j)].phase <=> Phase(j)
                      /\ j >= 0 => /\ [cmd |-> cqMem'[Slot(j)].cmd, ok |-> cqMem'[Slot(j)].ok]
                                        = posts'[j + 1]
                                   /\ cqMem'[Slot(j)].sq_head = Slot(heads'[j + 1])
    BY <2>0 DEF RingInv
  <2>1. j \in Int /\ L \in Int /\ Slot(j) \in Slots /\ Slot(L) \in Slots
    BY <1>1, SlotType, QLenAssumption
  <2>2. CASE j = L
    BY <1>1, <2>1, <2>2 DEF device_post
  <2>3. CASE j < L
    <3>1. j \in (L - QLen)..(L - 1) /\ L < j + QLen
      BY <1>1, <2>1, <2>3, QLenAssumption
    <3>2. Slot(j) # Slot(L)
      BY <2>1, <2>3, <3>1, SlotDistinct
    <3>3. cqMem'[Slot(j)] = cqMem[Slot(j)]
      BY <2>1, <3>2 DEF device_post
    <3>4. j >= 0 => posts'[j + 1] = posts[j + 1] /\ heads'[j + 1] = heads[j + 1]
      BY <1>1, <2>1, <2>3
    <3> QED BY <3>1, <3>3, <3>4 DEF RingInv
  <2> QED BY <2>1, <2>2, <2>3
<1>11. CmdInv'
  <2>1. inflight' = inflight \ {c} /\ fetched' = fetched
    BY DEF device_post
  <2>2. IsFiniteSet(inflight') /\ Cardinality(inflight') = Cardinality(inflight) - 1
    BY <2>1, FS_RemoveElement DEF CmdInv
  <2>3. inflight' \subseteq 0..(fetched' - 1) /\ c \in 0..(fetched' - 1)
    BY <2>1 DEF CmdInv
  <2>4. Cardinality(inflight') = fetched' - Len(posts')
    BY <1>1, <2>1, <2>2 DEF CmdInv
  <2>5. \A i \in 1..(L + 1) : posts'[i].cmd \in 0..(fetched' - 1) \ inflight'
    <3>1. posts'[L + 1].cmd = c
      BY <1>1
    <3>2. \A i \in 1..L : posts'[i].cmd \in 0..(fetched' - 1) \ inflight'
      BY <1>1, <2>1 DEF CmdInv
    <3> HIDE DEF L
    <3> QED BY <1>1, <2>1, <2>3, <3>1, <3>2
  <2>6. \A d \in 0..(fetched' - 1) :
          d \in inflight' \/ \E i \in 1..(L + 1) : posts'[i].cmd = d
    BY <1>1, <2>1 DEF CmdInv
  <2> QED BY <1>1, <2>2, <2>3, <2>4, <2>5, <2>6 DEF CmdInv
<1> QED BY <1>5, <1>6, <1>7, <1>8, <1>9, <1>10, <1>11 DEF SharedParts

\* The zeroed rings of a new queue pair satisfy the invariant: their tags are
\* those of the lap before the first.
LEMMA InitInv == Init => IndInv
<1> SUFFICES ASSUME Init PROVE IndInv
  OBVIOUS
<1> USE QLenAssumption
<1>1. TypeOK
  BY DEF Init, TypeOK, NoEntry, NoCmd, Entry, Slots
<1>2. Slot(0) = 0 /\ Phase(0)
  <2>1. 0 = QLen * 0 + 0
    OBVIOUS
  <2>2. 0 \div QLen = 0 /\ 0 % QLen = 0
    BY <2>1, Unique
  <2> QED BY <2>2 DEF Slot, Phase
<1>3. CallInv /\ SqInv /\ HeadsInv /\ CqInv /\ EntryInv
  BY <1>2 DEF Init, CallInv, SqInv, HeadsInv, CqInv, EntryInv, rung, HeadPos, CqPos
<1>4. RingInv
  <2> SUFFICES ASSUME NEW j \in (0 - QLen)..(0 - 1)
               PROVE  cqMem[Slot(j)].phase <=> Phase(j)
    BY DEF Init, RingInv
  <2>1. j \in Int /\ j + QLen \in 0..(QLen - 1)
    OBVIOUS
  <2>2. j + QLen = QLen * 0 + (j + QLen)
    BY <2>1
  <2>3. (j + QLen) \div QLen = 0
    BY <2>1, <2>2, Unique
  <2>4. Phase(j + QLen)
    BY <2>3 DEF Phase
  <2>5. ~Phase(j) /\ Slot(j) \in Slots
    BY <2>1, <2>4, SlotLap, SlotType
  <2> QED BY <2>5 DEF Init, NoEntry
<1>5. CmdInv
  BY FS_EmptySet DEF Init, CmdInv
<1> QED BY <1>1, <1>3, <1>4, <1>5 DEF IndInv

\* Every step preserves the invariant.
LEMMA NextInv == IndInv /\ [Next]_vars => IndInv'
<1> SUFFICES ASSUME IndInv, [Next]_vars PROVE IndInv'
  OBVIOUS
<1>1. TypeOK'
  BY TypeStep DEF IndInv
<1> DEFINE DriverParts == CallInv /\ SqInv /\ CqInv /\ EntryInv
<1>2. SUFFICES (DriverParts /\ SharedParts)'
  BY <1>1 DEF IndInv, SharedParts
<1>3. SharedParts
  BY DEF IndInv, SharedParts
<1>4. ASSUME ClientCall \/ DriverStep PROVE (DriverParts /\ SharedParts)'
  <2>1. DriverParts'
    BY <1>4, SubmitIoStep, SubmitStep, RingSqStep, SubmitFullStep, CompleteIoStep,
       QuickPollStep, PollHitStep, PollMissStep, CompleteStep, RingCqStep
    DEF ClientCall, DriverStep
  <2>2. UNCHANGED <<cqMem, deviceVars>>
    BY <1>4 DEF ClientCall, DriverStep, submit_io, submit, ring_sq, submit_full,
       complete_io, quick_poll, poll_hit, poll_miss, complete, ring_cq
  <2> QED BY <2>1, <2>2, <1>3, SharedStep
<1>5. CASE device_fetch
  BY <1>5, FetchStep
<1>6. CASE DevicePost
  BY <1>6, PostStep DEF DevicePost
<1>7. CASE UNCHANGED vars
  <2>1. UNCHANGED <<cqMem, deviceVars>>
    BY <1>7 DEF vars
  <2>2. DriverParts'
    BY <1>7 DEF IndInv, CallInv, SqInv, CqInv, EntryInv, rung, HeadPos, CqPos,
                vars, driverVars, callVars, deviceVars
  <2> QED BY <2>1, <2>2, <1>3, SharedStep
<1> QED BY <1>4, <1>5, <1>6, <1>7 DEF Next

\* The inductive invariant holds in every reachable state.
THEOREM Invariance == Spec => []IndInv
BY InitInv, NextInv, PTL DEF Spec
-----------------------------------------------------------------------------
\* No command is overwritten before the controller fetched it.
THEOREM SubmissionsAreIntact == Spec => []SubmissionsIntact
<1>1. ASSUME IndInv PROVE SubmissionsIntact
  <2> USE DEF IndInv, TypeOK
  <2>1. fetched <= rung /\ rung <= fetched + QLen - 1
    <3>1. rung \in Int /\ HeadPos \in Int /\ rung <= submitted
      BY <1>1, PosType DEF rung
    <3> QED BY <1>1, <3>1, QLenAssumption DEF SqInv
  <2>2. \A k \in fetched..(submitted - 1) : sqMem[Slot(k)] = k
    BY <1>1 DEF SqInv
  <2>3. inflight \cup {posts[i].cmd : i \in DOMAIN posts} = 0..(fetched - 1)
    <3>1. DOMAIN posts = 1..Len(posts)
      BY <1>1
    <3>2. ASSUME NEW c \in inflight \cup {posts[i].cmd : i \in DOMAIN posts}
          PROVE  c \in 0..(fetched - 1)
      BY <1>1, <3>1 DEF CmdInv
    <3>3. ASSUME NEW c \in 0..(fetched - 1)
          PROVE  c \in inflight \cup {posts[i].cmd : i \in DOMAIN posts}
      BY <1>1, <3>1 DEF CmdInv
    <3> QED BY <3>2, <3>3
  <2> QED BY <2>1, <2>2, <2>3 DEF SubmissionsIntact
<1> QED BY <1>1, Invariance, PTL

\* No posted completion is overwritten before the driver consumed it.
THEOREM CompletionsAreIntact == Spec => []CompletionsIntact
<1>1. ASSUME IndInv PROVE CompletionsIntact
  <2> SUFFICES ASSUME NEW j \in reaped..(Len(posts) - 1)
               PROVE  [cmd |-> cqMem[Slot(j)].cmd, ok |-> cqMem[Slot(j)].ok] = posts[j + 1]
    BY DEF CompletionsIntact
  <2>1. j \in (Len(posts) - QLen)..(Len(posts) - 1) /\ j >= 0
    BY <1>1, QLenAssumption DEF IndInv, TypeOK, CqInv
  <2> QED BY <1>1, <2>1 DEF IndInv, RingInv
<1> QED BY <1>1, Invariance, PTL

\* The phase tag works: the entry a completion call uses is the awaited one.
THEOREM EntryAwaited == Spec => []EntryIsAwaited
<1>1. IndInv => EntryIsAwaited
  BY DEF IndInv, EntryInv, EntryIsAwaited
<1> QED BY <1>1, Invariance, PTL

\* The client's count is exact between calls.
THEOREM CountIsExact == Spec => []OutstandingExact
<1>1. IndInv => OutstandingExact
  BY DEF IndInv, TypeOK, CallInv, OutstandingExact, rung
<1> QED BY <1>1, Invariance, PTL

\* With nothing left to consume, head has caught up with tail: the last
\* completion was posted when every command had been fetched.
LEMMA DrainedEmpty ==
  ASSUME IndInv, pc = "idle", reaped = submitted
  PROVE  is_empty
<1>1. HeadPos \in Int /\ rung = submitted
  BY PosType DEF rung
<1>2. HeadPos = submitted
  BY <1>1 DEF IndInv, TypeOK, SqInv
<1> QED BY <1>2 DEF IndInv, SqInv, is_empty

\* A drained queue pair is empty, as the clients assert.
THEOREM Drained == Spec => []DrainedIsEmpty
BY DrainedEmpty, Invariance, PTL DEF DrainedIsEmpty

\* A full queue holds QLen - 1 commands that are not consumed: is_full sees
\* the head the controller reported, which the consumed ones have passed.
LEMMA FullBusy ==
  ASSUME IndInv, is_full
  PROVE  submitted - reaped >= QLen - 1
<1> USE DEF IndInv, TypeOK
<1>1. HeadPos \in Int /\ submitted \in Int /\ reaped \in Int /\ reaped <= HeadPos
  BY PosType DEF SqInv
<1>2. HeadPos <= submitted /\ submitted <= HeadPos + QLen - 1
  BY <1>1, PosType DEF SqInv, rung
<1>3. Slot(HeadPos) = Slot(submitted + 1)
  BY <1>1, SlotAdd, QLenAssumption DEF SqInv, is_full
<1>4. ~(submitted + 1 < HeadPos + QLen)
  BY <1>1, <1>2, <1>3, SlotDistinct
<1> QED BY <1>1, <1>4, QLenAssumption

\* submit_io gives up only when QLen - 1 commands wait for their completion.
THEOREM FullMeansBusy == Spec => []FullOnlyWhenBusy
BY FullBusy, Invariance, PTL DEF FullOnlyWhenBusy
-----------------------------------------------------------------------------
(***************************************************************************)
(* The queue pair implements the channel.                                  *)
(***************************************************************************)
\* A new queue pair is a new channel.
LEMMA ChannelInit == Init => Channel!Init
BY DEF Init, Channel!Init, rung

\* Every step of the queue pair is a step of the channel or leaves it alone:
\* ring_sq hands over a command, device_post answers, ring_cq takes the
\* answers up to the awaited one, poll_miss finds nothing.
LEMMA ChannelStep ==
  ASSUME IndInv, [Next]_vars
  PROVE  [Channel!Next]_Channel!channelVars
<1> USE DEF IndInv, TypeOK
<1>1. CASE ring_sq
  <2>1. rung' = rung + 1
    BY <1>1 DEF ring_sq, return, rung
  <2>2. Channel!Hand
    BY <1>1, <2>1 DEF ring_sq, Channel!Hand, deviceVars
  <2> QED BY <2>2 DEF Channel!Next
<1>2. ASSUME NEW c \in inflight, NEW ok \in Outcomes, device_post(c, ok)
      PROVE  Channel!Answer
  <2>1. c \in 0..(rung - 1) /\ ok \in BOOLEAN
    <3>1. c \in 0..(fetched - 1) /\ rung \in Int /\ fetched <= rung
      BY PosType DEF CmdInv, SqInv
    <3> QED BY <3>1, OutcomeAssumption
  <2>2. \A i \in DOMAIN posts : posts[i].cmd # c
    <3>1. DOMAIN posts = 1..Len(posts)
      OBVIOUS
    <3> QED BY <3>1 DEF CmdInv
  <2>3. /\ posts' = Append(posts, [cmd |-> c, ok |-> ok])
        /\ rung' = rung /\ reaped' = reaped /\ ret' = ret
    BY <1>2 DEF device_post, rung
  <2> QED BY <2>1, <2>2, <2>3 DEF Channel!Answer
<1>3. CASE ring_cq
  <2>1. reaped + n \in (reaped + 1)..Len(posts) /\ entry.ok = posts[reaped + n].ok
    BY <1>3, QLenAssumption DEF ring_cq, EntryInv
  <2>2. ret' \in IF posts[reaped + n].ok THEN {"success"} ELSE {"success", "failed"}
    BY <1>3, <2>1 DEF ring_cq, result
  <2>3. rung' = rung /\ posts' = posts /\ reaped' = reaped + n
    BY <1>3 DEF ring_cq, return, rung, deviceVars
  <2>4. Channel!Take
    BY <2>1, <2>2, <2>3 DEF Channel!Take
  <2> QED BY <2>4 DEF Channel!Next
<1>4. CASE poll_miss
  <2>1. reaped = Len(posts)
    BY <1>4, PhaseTells DEF poll_miss, CallInv, CqInv
  <2>2. Channel!Miss
    BY <1>4, <2>1 DEF poll_miss, return, rung, Channel!Miss, deviceVars
  <2> QED BY <2>2 DEF Channel!Next
<1>5. CASE submit
  BY <1>5 DEF submit, rung, Channel!channelVars, deviceVars
<1>6. CASE submit_full
  BY <1>6 DEF submit_full, return, rung, Channel!channelVars, deviceVars
<1>7. CASE poll_hit \/ complete \/ device_fetch
  BY <1>7 DEF poll_hit, complete, device_fetch, rung, Channel!channelVars, deviceVars
<1>8. CASE ClientCall
  BY <1>8 DEF ClientCall, submit_io, complete_io, quick_poll, rung,
              Channel!channelVars, deviceVars
<1>9. CASE UNCHANGED vars
  BY <1>9 DEF vars, rung, Channel!channelVars, deviceVars
<1>10. CASE DevicePost
  BY <1>2, <1>10 DEF DevicePost, Channel!Next
<1> QED
  BY <1>1, <1>3, <1>4, <1>5, <1>6, <1>7, <1>8, <1>9, <1>10 DEF Next, DriverStep

\* The queue pair implements the channel: every command handed over is
\* executed at most once, a completion call reports on the right command,
\* never a failure for a success, and a poll misses nothing that is there.
THEOREM Refinement == Spec => ImplementsChannel
<1>1. IndInv /\ [Next]_vars => [Channel!Next]_Channel!channelVars
  BY ChannelStep
<1> QED BY <1>1, ChannelInit, Invariance, PTL DEF Spec, ImplementsChannel, Channel!Spec
-----------------------------------------------------------------------------
\* A completion call other than quick_poll reports a failure exactly if the
\* last command it consumed failed.
THEOREM FailuresReported == Spec => FailureReported
<1>1. ASSUME IndInv, [Next]_vars, reaped' # reaped, call # "quick_poll"
      PROVE  ret' = "failed" <=> ~posts[reaped'].ok
  <2>1. ring_cq
    BY <1>1 DEF Next, ClientCall, DriverStep, DevicePost, submit_io, submit, ring_sq,
       submit_full, complete_io, quick_poll, poll_hit, poll_miss, complete,
       device_fetch, device_post, vars
  <2>2. reaped' = reaped + n /\ ret' = result /\ entry.ok = posts[reaped + n].ok
    BY <1>1, <2>1 DEF ring_cq, IndInv, EntryInv
  <2>3. entry.ok \in BOOLEAN
    BY <1>1 DEF IndInv, TypeOK, Entry
  <2> QED BY <1>1, <2>2, <2>3 DEF result
<1> QED BY <1>1, Invariance, PTL DEF Spec, FailureReported
==============================================================================
