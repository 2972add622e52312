-------------------------- MODULE DepthClientProofs --------------------------
(***************************************************************************)
(* The safety properties of DepthClient for every ring length, every depth *)
(* below it and every number of commands.  The client counts on its own,   *)
(* so the invariant says at every point of its loop how far its two counts *)
(* are from those of the queue pair; what the queue pair guarantees (its   *)
(* inductive invariant) shows that a push cannot fail meanwhile and that   *)
(* the drained queue is empty.                                             *)
(***************************************************************************)
EXTENDS DepthClient, QueuePairProofs

\* The client has not yet counted `pushed` of the commands that are in the
\* queue and `consumed` of the completions that were taken out of it.
Uncounted(pushed, consumed) ==
  /\ outstanding_ops = submitted - reaped - pushed + consumed
  /\ total_io_ops = reaped - consumed

\* A completion call c for k completions is under way.
Polling(c, k) == pc \in {"poll", "copy", "cqdbl"} /\ call = c /\ n = k

ClientTypeInv ==
  /\ poll \in Calls \ {"complete_io"}
  /\ stage \in {"loop", "poll", "polled", "check", "waited", "submit", "submitted",
                "draining", "deleted", "exited"}
  /\ outstanding_ops \in 0..Depth /\ total_io_ops \in Nat

\* Between two calls the counts are exact.
RestInv ==
  /\ stage \in {"loop", "poll", "check", "submit"} => pc = "idle" /\ Uncounted(0, 0)
  /\ stage = "submit" => outstanding_ops < Depth

\* A poll consumes one completion or none, and its result says which.
PolledInv ==
  stage = "polled" =>
    \/ Polling(poll, 1) /\ Uncounted(0, 0)
    \/ pc = "idle" /\ ret = "none" /\ Uncounted(0, 0)
    \/ pc = "idle" /\ ret = "success" /\ Uncounted(0, 1)
    \/ pc = "idle" /\ ret = "failed" /\ checks_result /\ Uncounted(0, 1)

\* The wait at the full depth consumes one completion.
WaitedInv ==
  stage = "waited" =>
    /\ outstanding_ops = Depth
    /\ \/ Polling("complete_io", 1) /\ Uncounted(0, 0)
       \/ pc = "idle" /\ ret \in {"success", "failed"} /\ Uncounted(0, 1)

\* submit_io pushes its one command.
SubmittedInv ==
  stage = "submitted" =>
    /\ outstanding_ops < Depth
    /\ \/ pc = "submit" /\ todo = 1 /\ Uncounted(0, 0)
       \/ pc = "sqdbl" /\ todo = 1 /\ Uncounted(1, 0)
       \/ pc = "idle" /\ Uncounted(1, 0)

\* The last wait is for all that is left.
DrainedInv ==
  /\ stage = "draining" =>
       \/ Polling("complete_io", outstanding_ops) /\ Uncounted(0, 0)
       \/ pc = "idle" /\ reaped = submitted /\ total_io_ops + outstanding_ops = submitted
  /\ stage = "deleted" => pc = "idle" /\ reaped = submitted /\ total_io_ops = submitted

\* Up to the last wait every completion is looked at on its own: none that was
\* consumed failed, unless the call that consumed it has just returned.
FailInv ==
  /\ checks_result
  /\ stage \in {"loop", "poll", "check", "submit", "submitted", "polled", "waited"}
  /\ ~(stage \in {"polled", "waited"} /\ pc = "idle" /\ ret = "failed")
  => \A i \in 1..reaped : posts[i].ok

\* The inductive invariant of the client, on top of that of the queue pair.
ClientInv ==
  /\ ClientTypeInv /\ RestInv /\ PolledInv /\ WaitedInv /\ SubmittedInv
  /\ DrainedInv /\ FailInv
-----------------------------------------------------------------------------
\* Every step of the client and of its queue pair is one that QueuePair allows:
\* the client polls with one of the quick polls, pushes one command at a time
\* and waits for at most Depth completions.
LEMMA PairAllows == ClientInv /\ [ClientNext]_allVars => [Next]_vars
<1> SUFFICES ASSUME ClientInv, [ClientNext]_allVars PROVE [Next]_vars
  OBVIOUS
<1> USE DEF ClientInv, ClientTypeInv
<1>1. CASE poll_again
  BY <1>1 DEF poll_again, Next, ClientCall
<1>2. CASE wait_one
  <2>1. 1 \in 1..MaxWait
    BY WaitAssumption, QLenAssumption
  <2> QED BY <1>2, <2>1, DepthAssumption DEF wait_one, Next, ClientCall
<1>3. CASE submit_next
  <2>1. 1 \in 1..MaxChunks
    BY BoundAssumption
  <2> QED BY <1>3, <2>1 DEF submit_next, Next, ClientCall
<1>4. CASE drain
  <2>1. outstanding_ops \in 1..MaxWait
    BY <1>4, DepthAssumption, QLenAssumption DEF drain
  <2> QED BY <1>4, <2>1, DepthAssumption DEF drain, Next, ClientCall
<1>5. CASE polled_some \/ polled_none \/ waited_one \/ submitted_one \/ drained \/ exit
  BY <1>5 DEF polled_some, polled_none, waited_one, submitted_one, drained, exit, Between
<1>6. CASE PairStep
  BY <1>6 DEF PairStep, Next
<1>7. CASE UNCHANGED allVars
  BY <1>7 DEF allVars
<1> QED
  BY <1>1, <1>2, <1>3, <1>4, <1>5, <1>6, <1>7 DEF ClientNext, ClientStep

\* A new client on a new queue pair has counted everything there is.
LEMMA ClientInitInv == ClientInit => ClientInv
<1> SUFFICES ASSUME ClientInit PROVE ClientInv
  OBVIOUS
<1>1. ClientTypeInv /\ stage = "loop" /\ pc = "idle" /\ Uncounted(0, 0) /\ reaped = 0
  BY DepthAssumption, QLenAssumption DEF ClientInit, Init, ClientTypeInv, Uncounted
<1> QED
  BY <1>1 DEF ClientInv, RestInv, PolledInv, WaitedInv, SubmittedInv, DrainedInv, FailInv

\* No more completions are consumed than commands were written.
LEMMA ConsumedWritten == IndInv => submitted \in Nat /\ reaped \in Nat /\ reaped <= submitted
<1> SUFFICES ASSUME IndInv PROVE submitted \in Nat /\ reaped \in Nat /\ reaped <= submitted
  OBVIOUS
<1>1. submitted \in Nat /\ reaped \in Nat /\ HeadPos \in Int /\ rung \in Int /\ fetched \in Int
  BY PosType DEF IndInv, TypeOK
<1>2. reaped <= HeadPos /\ HeadPos <= fetched /\ fetched <= rung /\ rung <= submitted
  BY <1>1 DEF IndInv, SqInv, rung
<1> QED BY <1>1, <1>2

\* The client's own steps: each either begins a call with exact counts or
\* counts what the call that returned has done.
LEMMA ClientStepInv ==
  ASSUME IndInv, ClientInv, ClientStep
  PROVE  ClientInv'
<1> USE DEF ClientInv, ClientTypeInv
<1>0. /\ submitted \in Nat /\ reaped \in Nat /\ reaped <= submitted
      /\ outstanding_ops \in 0..Depth /\ Depth \in Nat \ {0} /\ total_io_ops \in Nat
  BY ConsumedWritten, DepthAssumption, QLenAssumption
<1>1. CASE poll_again
  <2>1. /\ stage \in {"loop", "poll"} /\ stage' = "polled"
        /\ Polling(poll, 1)' /\ Uncounted(0, 0)'
        /\ UNCHANGED <<poll, outstanding_ops, total_io_ops, reaped, posts>>
    BY <1>1 DEF poll_again, quick_poll, RestInv, Polling, Uncounted, deviceVars
  <2>2. FailInv'
    BY <2>1 DEF FailInv, Polling, checks_result
  <2> QED BY <2>1, <2>2 DEF RestInv, PolledInv, WaitedInv, SubmittedInv, DrainedInv
<1>2. CASE polled_some
  <2>1. /\ stage = "polled" /\ pc = "idle" /\ ret = "success" /\ Uncounted(0, 1)
        /\ stage' = "poll" /\ UNCHANGED poll
        /\ UNCHANGED <<pc, ret, submitted, reaped, posts>>
        /\ outstanding_ops' = outstanding_ops - 1 /\ total_io_ops' = total_io_ops + 1
    BY <1>2 DEF polled_some, Between, PolledInv, Polling, vars, deviceVars
  <2>2. Uncounted(0, 0)' /\ outstanding_ops' \in 0..Depth /\ total_io_ops' \in Nat
    BY <1>0, <2>1 DEF Uncounted
  <2>3. FailInv'
    BY <2>1 DEF FailInv, checks_result
  <2> QED BY <2>1, <2>2, <2>3 DEF RestInv, PolledInv, WaitedInv, SubmittedInv, DrainedInv
<1>3. CASE polled_none
  <2>1. /\ stage = "polled" /\ pc = "idle" /\ ret = "none" /\ Uncounted(0, 0)
        /\ stage' = "check" /\ UNCHANGED <<poll, outstanding_ops, total_io_ops>>
        /\ UNCHANGED <<pc, ret, submitted, reaped, posts>>
    BY <1>3 DEF polled_none, Between, PolledInv, Polling, vars, deviceVars
  <2>2. Uncounted(0, 0)'
    BY <2>1 DEF Uncounted
  <2>3. FailInv'
    BY <2>1 DEF FailInv, checks_result
  <2> QED BY <2>1, <2>2, <2>3 DEF RestInv, PolledInv, WaitedInv, SubmittedInv, DrainedInv
<1>4. CASE wait_one
  <2>1. /\ stage = "check" /\ stage' = "waited" /\ outstanding_ops' = Depth
        /\ Polling("complete_io", 1)' /\ Uncounted(0, 0)'
        /\ UNCHANGED <<poll, outstanding_ops, total_io_ops, reaped, posts>>
    BY <1>4 DEF wait_one, at_depth, complete_io, RestInv, Polling, Uncounted, deviceVars
  <2>2. FailInv'
    BY <2>1 DEF FailInv, Polling, checks_result
  <2> QED BY <2>1, <2>2 DEF RestInv, PolledInv, WaitedInv, SubmittedInv, DrainedInv
<1>5. CASE waited_one
  <2>1. /\ stage = "waited" /\ pc = "idle" /\ (ret = "success" \/ ~checks_result)
        /\ Uncounted(0, 1) /\ outstanding_ops = Depth
        /\ stage' = "submit" /\ UNCHANGED poll
        /\ UNCHANGED <<pc, ret, submitted, reaped, posts>>
        /\ outstanding_ops' = outstanding_ops - 1 /\ total_io_ops' = total_io_ops + 1
    BY <1>5 DEF waited_one, Between, WaitedInv, Polling, vars, deviceVars
  <2>2. /\ Uncounted(0, 0)' /\ outstanding_ops' \in 0..Depth /\ total_io_ops' \in Nat
        /\ outstanding_ops' < Depth
    BY <1>0, <2>1 DEF Uncounted
  <2>3. FailInv'
    BY <2>1 DEF FailInv, checks_result
  <2> QED BY <2>1, <2>2, <2>3 DEF RestInv, PolledInv, WaitedInv, SubmittedInv, DrainedInv
<1>6. CASE submit_next
  <2>1. /\ stage \in {"check", "submit"} /\ stage' = "submitted" /\ outstanding_ops # Depth
        /\ pc' = "submit" /\ todo' = 1 /\ Uncounted(0, 0)'
        /\ UNCHANGED <<poll, outstanding_ops, total_io_ops, reaped, posts>>
    BY <1>0, <1>6 DEF submit_next, at_depth, submit_io, RestInv, Uncounted, deviceVars
  <2>2. outstanding_ops' < Depth
    BY <1>0, <2>1
  <2>3. FailInv'
    BY <2>1 DEF FailInv, checks_result
  <2> QED BY <2>1, <2>2, <2>3 DEF RestInv, PolledInv, WaitedInv, SubmittedInv, DrainedInv
<1>7. CASE submitted_one
  <2>1. /\ stage = "submitted" /\ pc = "idle" /\ Uncounted(1, 0) /\ outstanding_ops < Depth
        /\ stage' = "loop" /\ UNCHANGED <<poll, total_io_ops>>
        /\ UNCHANGED <<pc, ret, submitted, reaped, posts>>
        /\ outstanding_ops' = outstanding_ops + 1
    BY <1>7 DEF submitted_one, Between, SubmittedInv, vars, deviceVars
  <2>2. Uncounted(0, 0)' /\ outstanding_ops' \in 0..Depth
    BY <1>0, <2>1 DEF Uncounted
  <2>3. FailInv'
    BY <2>1 DEF FailInv, checks_result
  <2> QED BY <2>1, <2>2, <2>3 DEF RestInv, PolledInv, WaitedInv, SubmittedInv, DrainedInv
<1>8. CASE drain
  <2>1. /\ stage' = "draining"
        /\ Polling("complete_io", outstanding_ops)' /\ Uncounted(0, 0)'
        /\ UNCHANGED <<poll, outstanding_ops, total_io_ops>>
    BY <1>8 DEF drain, complete_io, RestInv, Polling, Uncounted
  <2> QED
    BY <2>1 DEF RestInv, PolledInv, WaitedInv, SubmittedInv, DrainedInv, FailInv
<1>9. CASE drained
  <2>1. /\ pc = "idle" /\ reaped = submitted /\ total_io_ops + outstanding_ops = submitted
    BY <1>0, <1>9 DEF drained, Between, RestInv, DrainedInv, Uncounted, Polling
  <2>2. stage' = "deleted"
    BY <1>9, <2>1, DrainedEmpty DEF drained
  <2>3. /\ outstanding_ops' = 0 /\ total_io_ops' = submitted
        /\ UNCHANGED <<poll, pc, submitted, reaped>>
    BY <1>9, <2>1 DEF drained, Between, vars
  <2> QED
    BY <1>0, <2>1, <2>2, <2>3
    DEF RestInv, PolledInv, WaitedInv, SubmittedInv, DrainedInv, FailInv
<1>10. CASE exit
  <2>1. stage' = "exited" /\ UNCHANGED <<poll, outstanding_ops, total_io_ops>>
    BY <1>10 DEF exit
  <2> QED
    BY <2>1 DEF RestInv, PolledInv, WaitedInv, SubmittedInv, DrainedInv, FailInv
<1> QED
  BY <1>1, <1>2, <1>3, <1>4, <1>5, <1>6, <1>7, <1>8, <1>9, <1>10 DEF ClientStep

\* A step that moves no count and returns from no call.
Quiet ==
  /\ UNCHANGED <<poll, stage, outstanding_ops, total_io_ops>>
  /\ UNCHANGED <<call, n, todo, ret, submitted, reaped>>
  /\ \/ pc' = pc
     \/ pc \in {"poll", "copy"} /\ pc' \in {"copy", "cqdbl"}
  /\ \A i \in 1..reaped : posts'[i] = posts[i]

\* The counts are as far apart as before such a step, and a call that was under
\* way still is.
LEMMA QuietStep ==
  ASSUME ClientInv, Quiet
  PROVE  ClientInv'
<1> USE DEF ClientInv, Quiet
<1>1. /\ Uncounted(0, 0)' <=> Uncounted(0, 0)
      /\ Uncounted(0, 1)' <=> Uncounted(0, 1)
      /\ Uncounted(1, 0)' <=> Uncounted(1, 0)
  BY DEF Uncounted
<1>2. /\ Polling(poll, 1) => Polling(poll, 1)'
      /\ Polling("complete_io", 1) => Polling("complete_io", 1)'
      /\ Polling("complete_io", outstanding_ops) => Polling("complete_io", outstanding_ops)'
  BY DEF Polling
<1>3. ClientTypeInv' /\ RestInv'
  BY <1>1 DEF ClientTypeInv, RestInv
<1>4. PolledInv'
  BY <1>1, <1>2 DEF PolledInv, checks_result
<1>5. WaitedInv' /\ SubmittedInv' /\ DrainedInv'
  BY <1>1, <1>2 DEF WaitedInv, SubmittedInv, DrainedInv
<1>6. FailInv'
  BY DEF FailInv, checks_result
<1> QED BY <1>3, <1>4, <1>5, <1>6

\* The steps of the queue pair: only submit, which moves submitted, and the end
\* of a call concern the client.
LEMMA PairStepInv ==
  ASSUME IndInv, ClientInv, PairStep
  PROVE  ClientInv'
<1> USE DEF ClientInv, ClientTypeInv
<1>0. /\ submitted \in Nat /\ reaped \in Nat /\ reaped <= submitted
      /\ outstanding_ops \in 0..Depth /\ Depth \in Nat \ {0} /\ total_io_ops \in Nat
      /\ Depth <= QLen - 1 /\ QLen \in Nat
  BY ConsumedWritten, DepthAssumption, QLenAssumption
<1>1. UNCHANGED <<poll, stage, outstanding_ops, total_io_ops>>
  BY DEF PairStep, clientVars
<1>2. CASE device_fetch \/ poll_hit \/ complete
  <2>1. Quiet
    BY <1>1, <1>2 DEF device_fetch, poll_hit, complete, callVars, deviceVars, Quiet
  <2> QED BY <2>1, QuietStep
<1>3. CASE DevicePost
  <2>1. PICK c \in inflight, ok \in Outcomes : device_post(c, ok)
    BY <1>3 DEF DevicePost
  <2>2. posts \in Seq([cmd : Int, ok : BOOLEAN]) /\ reaped <= Len(posts)
    BY DEF IndInv, TypeOK, CqInv
  <2>3. \A i \in 1..reaped : posts'[i] = posts[i]
    BY <1>0, <2>1, <2>2 DEF device_post
  <2>4. Quiet
    BY <1>1, <2>1, <2>3 DEF device_post, callVars, Quiet
  <2> QED BY <2>4, QuietStep
<1>4. CASE submit
  <2>1. stage \notin {"loop", "poll", "check", "submit", "polled", "waited", "draining", "deleted"}
    BY <1>4 DEF submit, RestInv, PolledInv, WaitedInv, DrainedInv, Polling
  <2>2. /\ submitted' = submitted + 1 /\ pc' = "sqdbl"
        /\ UNCHANGED <<todo, reaped, posts>>
    BY <1>4 DEF submit, callVars, deviceVars
  <2>3. SubmittedInv'
    BY <1>0, <1>1, <1>4, <2>2 DEF submit, SubmittedInv, Uncounted
  <2>4. FailInv'
    BY <1>1, <2>1, <2>2 DEF FailInv, checks_result
  <2> QED BY <1>1, <2>1, <2>3, <2>4 DEF RestInv, PolledInv, WaitedInv, DrainedInv
<1>5. CASE ring_sq
  <2>1. stage \notin {"loop", "poll", "check", "submit", "polled", "waited", "draining", "deleted"}
    BY <1>5 DEF ring_sq, RestInv, PolledInv, WaitedInv, DrainedInv, Polling
  <2>2. stage = "submitted" => pc' = "idle" /\ todo = 1 /\ Uncounted(1, 0)
    BY <1>5 DEF ring_sq, return, SubmittedInv
  <2>3. UNCHANGED <<submitted, reaped, posts>>
    BY <1>5 DEF ring_sq, deviceVars
  <2>4. SubmittedInv'
    BY <1>1, <2>2, <2>3 DEF SubmittedInv, Uncounted
  <2>5. FailInv'
    BY <1>1, <2>1, <2>3 DEF FailInv, checks_result
  <2> QED BY <1>1, <2>1, <2>4, <2>5 DEF RestInv, PolledInv, WaitedInv, DrainedInv
<1>6. CASE submit_full
  <2>1. stage \notin {"loop", "poll", "check", "submit", "polled", "waited", "draining", "deleted"}
    BY <1>6 DEF submit_full, RestInv, PolledInv, WaitedInv, DrainedInv, Polling
  <2>2. stage # "submitted"
    <3>1. submitted - reaped >= QLen - 1
      BY <1>6, FullBusy DEF submit_full
    <3> QED BY <1>0, <1>6, <3>1 DEF submit_full, SubmittedInv, Uncounted
  <2> QED BY <1>1, <2>1, <2>2 DEF RestInv, PolledInv, WaitedInv, SubmittedInv, DrainedInv, FailInv
<1>7. CASE poll_miss
  <2>1. /\ pc = "poll" /\ call # "complete_io" /\ pc' = "idle" /\ ret' = "none"
        /\ UNCHANGED <<submitted, reaped, posts>>
    BY <1>7 DEF poll_miss, return, deviceVars
  <2>2. stage \in {"polled", "exited"}
    BY <2>1 DEF RestInv, WaitedInv, SubmittedInv, DrainedInv, Polling
  <2>3. PolledInv'
    BY <1>1, <2>1 DEF PolledInv, Uncounted, Polling
  <2>4. FailInv'
    BY <1>1, <2>1 DEF FailInv, checks_result
  <2> QED BY <1>1, <2>2, <2>3, <2>4 DEF RestInv, WaitedInv, SubmittedInv, DrainedInv
<1>8. CASE ring_cq
  <2>1. /\ pc = "cqdbl" /\ pc' = "idle" /\ ret' = result /\ reaped' = reaped + n
        /\ UNCHANGED <<submitted, posts>>
    BY <1>8 DEF ring_cq, return, deviceVars
  <2>2. stage \in {"polled", "waited", "draining", "exited"}
    BY <2>1 DEF RestInv, SubmittedInv, DrainedInv
  <2>3. /\ stage = "polled" => call = poll /\ n = 1 /\ Uncounted(0, 0)
        /\ stage = "waited" => /\ call = "complete_io" /\ n = 1 /\ Uncounted(0, 0)
                              /\ outstanding_ops = Depth
        /\ stage = "draining" => n = outstanding_ops /\ Uncounted(0, 0)
    BY <2>1 DEF PolledInv, WaitedInv, DrainedInv, Polling
  <2>4. entry.ok = posts[reaped + n].ok
    BY <2>1 DEF IndInv, EntryInv
  <2>5. PolledInv'
    <3>1. poll \in {"quick_poll", "quick_poll_result"}
      BY CallAssumption
    <3>2. stage = "polled" => Uncounted(0, 1)'
      BY <1>0, <1>1, <2>1, <2>3 DEF Uncounted
    <3>3. stage = "polled" => ret' = "success" \/ (ret' = "failed" /\ checks_result')
      BY <1>1, <2>1, <2>3, <3>1 DEF result, checks_result
    <3> QED BY <1>1, <2>1, <3>2, <3>3 DEF PolledInv
  <2>6. WaitedInv'
    BY <1>0, <1>1, <2>1, <2>3 DEF WaitedInv, Uncounted, result
  <2>7. DrainedInv'
    BY <1>0, <1>1, <2>1, <2>2, <2>3 DEF DrainedInv, Uncounted
  <2>8. FailInv'
    <3> SUFFICES ASSUME checks_result', stage' \in {"polled", "waited"}, ret' # "failed",
                        NEW i \in 1..reaped'
                 PROVE  posts[i].ok
      BY <1>1, <2>1, <2>2 DEF FailInv
    <3>1. n = 1 /\ call # "quick_poll" /\ checks_result
      BY <1>1, <2>3 DEF checks_result
    <3>2. entry.ok
      BY <2>1, <3>1 DEF result
    <3>3. CASE i = reaped + 1
      BY <2>4, <3>1, <3>2, <3>3
    <3>4. CASE i \in 1..reaped
      BY <1>1, <2>1, <3>1, <3>4 DEF FailInv
    <3> QED BY <1>0, <2>1, <3>1, <3>3, <3>4
  <2> QED BY <1>1, <2>2, <2>5, <2>6, <2>7, <2>8 DEF RestInv, SubmittedInv
<1> QED
  BY <1>2, <1>3, <1>4, <1>5, <1>6, <1>7, <1>8 DEF PairStep, DriverStep

\* Both invariants hold of the client's specification.
THEOREM ClientInvariance == ClientSpec => [](IndInv /\ ClientInv)
<1>1. ClientInit => IndInv /\ ClientInv
  BY InitInv, ClientInitInv DEF ClientInit
<1>2. IndInv /\ ClientInv /\ [ClientNext]_allVars => (IndInv /\ ClientInv)'
  <2> SUFFICES ASSUME IndInv, ClientInv, [ClientNext]_allVars PROVE IndInv' /\ ClientInv'
    OBVIOUS
  <2>1. IndInv'
    BY PairAllows, NextInv
  <2>2. CASE UNCHANGED allVars
    <3>1. Quiet
      BY <2>2 DEF allVars, vars, clientVars, callVars, deviceVars, Quiet
    <3> QED BY <2>1, <3>1, QuietStep
  <2> QED BY <2>1, <2>2, ClientStepInv, PairStepInv DEF ClientNext
<1> QED BY <1>1, <1>2, PTL DEF ClientSpec

\* Every wait of the client is for completions that will come: complete_io,
\* which checks nothing, is given a number of commands that are in the queue.
THEOREM WaitsAreCovered == ClientSpec => []WaitsCovered
<1>1. IndInv /\ ClientInv => WaitsCovered
  <2> SUFFICES ASSUME IndInv, ClientInv PROVE WaitsCovered
    OBVIOUS
  <2>1. submitted \in Nat /\ reaped \in Nat /\ Depth \in Nat \ {0}
    BY ConsumedWritten, DepthAssumption, QLenAssumption
  <2> QED BY <2>1 DEF ClientInv, ClientTypeInv, RestInv, Uncounted, WaitsCovered
<1> QED BY <1>1, ClientInvariance, PTL

\* submit_io, whose result the client ignores, never finds the queue full.
THEOREM RequestsArePushed == ClientSpec => []EveryRequestPushed
<1>1. IndInv /\ ClientInv => EveryRequestPushed
  <2> SUFFICES ASSUME IndInv, ClientInv, stage = "submitted", pc = "submit"
               PROVE  ~is_full /\ outstanding_ops < Depth
    BY DEF EveryRequestPushed
  <2>1. outstanding_ops < Depth /\ outstanding_ops = submitted - reaped
    BY ConsumedWritten DEF ClientInv, SubmittedInv, Uncounted
  <2>2. ~(submitted - reaped >= QLen - 1)
    BY <2>1, ConsumedWritten, DepthAssumption, QLenAssumption
  <2> QED BY <2>1, <2>2, FullBusy
<1> QED BY <1>1, ClientInvariance, PTL

\* The client that ends has counted every command exactly once, and its
\* assertion that the queue is empty never fails.
THEOREM TotalsAreExact == ClientSpec => []TotalsExact
<1>1. ClientInv => TotalsExact
  BY DEF ClientInv, ClientTypeInv, DrainedInv, TotalsExact
<1> QED BY <1>1, ClientInvariance, PTL

\* The client that looks at the results does not go on after a failure.
THEOREM FailuresStop == ClientSpec => []FailureStops
<1>1. ClientInv => FailureStops
  BY DEF ClientInv, FailInv, FailureStops
<1> QED BY <1>1, ClientInvariance, PTL

\* The client is one of those QueuePair describes: all that is proved of the
\* queue pair for an arbitrary client holds for this one.
THEOREM ClientUsesPair == ClientSpec => Spec
<1>1. ClientInit => Init
  BY DEF ClientInit
<1> QED BY <1>1, PairAllows, ClientInvariance, PTL DEF ClientSpec, Spec
==============================================================================
