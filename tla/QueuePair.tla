------------------------------ MODULE QueuePair ------------------------------
(***************************************************************************)
(* One NVMe I/O queue pair of vroom: the driver half is queues.rs and      *)
(* NvmeQueuePair of nvme.rs; the controller half is modelled from what     *)
(* that code relies on (ring memory, doorbell registers, completion        *)
(* entries with a phase tag and the submission queue head).                *)
(*                                                                         *)
(* The driver and the controller run concurrently on two rings in shared   *)
(* memory.  Every access to shared memory or to a doorbell register is a   *)
(* step of its own.  A command is represented by its submission ordinal    *)
(* 0, 1, 2, ...; its payload is not needed here.                           *)
(***************************************************************************)
EXTENDS Ring, Sequences

CONSTANTS
  MaxCmds,    \* bound: commands submitted in one behaviour
  MaxChunks,  \* bound: chunks of one submit_io call
  MaxWait,    \* largest n of a complete_io(n) call
  Outcomes,   \* command outcomes the controller may report (TRUE: status 0)
  Calls       \* completion calls the client uses

ASSUME BoundAssumption == MaxCmds \in Nat /\ MaxChunks \in Nat \ {0}
\* A ring of QLen slots never holds QLen completions, so a caller that waits
\* for QLen at once waits forever: complete_io is used with n < QLen.
ASSUME WaitAssumption == MaxWait \in 1..(QLen - 1)
ASSUME OutcomeAssumption == Outcomes \subseteq BOOLEAN
ASSUME CallAssumption ==
  Calls \subseteq {"complete_io", "quick_poll", "quick_poll_result"}

NoCmd == -1                        \* a slot of a fresh, zeroed ring

Entry == [phase : BOOLEAN, sq_head : Slots, cmd : Int, ok : BOOLEAN]
NoEntry == [phase |-> FALSE, sq_head |-> 0, cmd |-> NoCmd, ok |-> TRUE]

VARIABLES
  sq_head, sq_tail,    \* SubmissionQueue
  cq_head, cq_phase,   \* CompletionQueue
  sqMem, cqMem,        \* the two rings in DMA memory
  sqTDBL, cqHDBL,      \* doorbell registers of the controller
  pc,                  \* where the driver is within a call
  call, n,             \* the completion call under way and its argument
  todo, reqs,          \* submit_io: chunks left, requests pushed
  entry,               \* completion entry copied out of the ring
  ret,                 \* result of the last completion call
  outstanding,         \* the client's count, kept from return values alone
  fetched, inflight,   \* controller: commands fetched, and not yet answered
  submitted, reaped,   \* history: commands written, completions consumed
  posts, heads         \* history: completions posted, and `fetched` at each

driverVars == <<sq_head, sq_tail, cq_head, cq_phase>>
callVars   == <<call, n, todo, reqs, entry>>
deviceVars == <<fetched, inflight, posts, heads>>
vars == <<driverVars, callVars, deviceVars, sqMem, cqMem, sqTDBL, cqHDBL, pc,
          ret, outstanding, submitted, reaped>>

Init ==
  /\ sq_head = 0 /\ sq_tail = 0
  /\ cq_head = 0 /\ cq_phase = TRUE
  /\ sqMem = [s \in Slots |-> NoCmd]
  /\ cqMem = [s \in Slots |-> NoEntry]
  /\ sqTDBL = 0 /\ cqHDBL = 0
  /\ pc = "idle" /\ call = "none" /\ n = 1
  /\ todo = 0 /\ reqs = 0 /\ entry = NoEntry
  /\ ret = "none" /\ outstanding = 0
  /\ fetched = 0 /\ inflight = {}
  /\ submitted = 0 /\ reaped = 0
  /\ posts = <<>> /\ heads = <<>>

\* A call returns: its locals are gone.
return ==
  /\ pc' = "idle" /\ call' = "none" /\ n' = 1
  /\ todo' = 0 /\ reqs' = 0 /\ entry' = NoEntry

(***************************************************************************)
(* Submission: submit_io pushes one command per chunk and rings the        *)
(* doorbell after each.                                                    *)
(***************************************************************************)
\* Faulty variants, for mutation runs: the check is missing; it is off by one.
is_full_never == FALSE
is_full_early == sq_head = (sq_tail + 2) % QLen
is_full == sq_head = (sq_tail + 1) % QLen
is_empty == sq_head = sq_tail

submit_io(k) ==
  /\ pc = "idle"
  /\ submitted + k <= MaxCmds
  /\ pc' = "submit" /\ todo' = k /\ reqs' = 0
  /\ UNCHANGED <<driverVars, deviceVars, call, n, entry, sqMem, cqMem, sqTDBL,
                 cqHDBL, ret, outstanding, submitted, reaped>>

\* Faulty variant: the tail does not wrap.
submit_no_wrap ==
  /\ pc = "submit" /\ ~is_full
  /\ sqMem' = [sqMem EXCEPT ![sq_tail] = submitted]
  /\ sq_tail' = sq_tail + 1
  /\ submitted' = submitted + 1
  /\ pc' = "sqdbl"
  /\ UNCHANGED <<sq_head, cq_head, cq_phase, callVars, deviceVars, cqMem, sqTDBL,
                 cqHDBL, ret, outstanding, reaped>>

\* SubmissionQueue::submit: the command goes to the slot at tail.
submit ==
  /\ pc = "submit" /\ ~is_full
  /\ sqMem' = [sqMem EXCEPT ![sq_tail] = submitted]
  /\ sq_tail' = (sq_tail + 1) % QLen
  /\ submitted' = submitted + 1
  /\ pc' = "sqdbl"
  /\ UNCHANGED <<sq_head, cq_head, cq_phase, callVars, deviceVars, cqMem, sqTDBL,
                 cqHDBL, ret, outstanding, reaped>>

\* The tail doorbell; after the last chunk the call returns reqs.
ring_sq ==
  /\ pc = "sqdbl"
  /\ sqTDBL' = sq_tail
  /\ \/ /\ todo > 1
        /\ pc' = "submit" /\ todo' = todo - 1 /\ reqs' = reqs + 1
        /\ UNCHANGED <<call, n, entry, outstanding>>
     \/ /\ todo = 1
        /\ return
        /\ outstanding' = outstanding + reqs + 1
  /\ UNCHANGED <<driverVars, deviceVars, sqMem, cqMem, cqHDBL, ret, submitted,
                 reaped>>

\* Faulty variant: the rejected chunk is counted.
submit_full_counted ==
  /\ pc = "submit" /\ is_full
  /\ return
  /\ outstanding' = outstanding + reqs + 1
  /\ UNCHANGED <<driverVars, deviceVars, sqMem, cqMem, sqTDBL, cqHDBL,
                 ret, submitted, reaped>>

\* The queue is full: the call gives up and returns the chunks pushed so far.
submit_full ==
  /\ pc = "submit" /\ is_full
  /\ return
  /\ outstanding' = outstanding + reqs
  /\ UNCHANGED <<driverVars, deviceVars, sqMem, cqMem, sqTDBL, cqHDBL,
                 ret, submitted, reaped>>

(***************************************************************************)
(* Completion.  complete_io(k) first moves head over k - 1 entries without *)
(* looking at them (complete_n) and then spins on the k-th.                *)
(***************************************************************************)
\* Faulty variant: the jump over the end of the ring keeps the phase.
complete_n_no_flip(k) ==
  /\ cq_head' = (cq_head + k - 1) % QLen
  /\ UNCHANGED cq_phase

complete_n(k) ==
  /\ cq_head' = (cq_head + k - 1) % QLen
  /\ cq_phase' = IF cq_head + k - 1 >= QLen THEN ~cq_phase ELSE cq_phase

complete_io(k) ==
  /\ pc = "idle" /\ k <= outstanding
  /\ pc' = "poll" /\ call' = "complete_io" /\ n' = k
  /\ complete_n(k)
  /\ UNCHANGED <<sq_head, sq_tail, deviceVars, todo, reqs, entry, sqMem, cqMem,
                 sqTDBL, cqHDBL, ret, outstanding, submitted, reaped>>

\* quick_poll and quick_poll_result look at the next entry once.
quick_poll(c) ==
  /\ pc = "idle"
  /\ pc' = "poll" /\ call' = c /\ n' = 1
  /\ UNCHANGED <<driverVars, deviceVars, todo, reqs, entry, sqMem, cqMem, sqTDBL,
                 cqHDBL, ret, outstanding, submitted, reaped>>

\* CompletionQueue::complete, first access to the entry: the phase tag.
phase_matches == cqMem[cq_head].phase = cq_phase

\* Faulty variant: the doorbell is rung before the entry is copied.
poll_hit_rings ==
  /\ pc = "poll" /\ phase_matches
  /\ pc' = "copy"
  /\ cqHDBL' = (cq_head + 1) % QLen
  /\ UNCHANGED <<driverVars, callVars, deviceVars, sqMem, cqMem, sqTDBL,
                 ret, outstanding, submitted, reaped>>

poll_hit ==
  /\ pc = "poll" /\ phase_matches
  /\ pc' = "copy"
  /\ UNCHANGED <<driverVars, callVars, deviceVars, sqMem, cqMem, sqTDBL, cqHDBL,
                 ret, outstanding, submitted, reaped>>

\* A quick poll that finds nothing returns; complete_spin tries again.
poll_miss ==
  /\ pc = "poll" /\ ~phase_matches
  /\ call # "complete_io"
  /\ return
  /\ ret' = "none"
  /\ UNCHANGED <<driverVars, deviceVars, sqMem, cqMem, sqTDBL, cqHDBL,
                 outstanding, submitted, reaped>>

\* Faulty variant: the phase is not inverted at the end of the ring.
complete_no_flip ==
  /\ pc = "copy"
  /\ entry' = cqMem[cq_head]
  /\ cq_head' = (cq_head + 1) % QLen
  /\ pc' = "cqdbl"
  /\ UNCHANGED <<sq_head, sq_tail, cq_phase, call, n, todo, reqs, deviceVars, sqMem,
                 cqMem, sqTDBL, cqHDBL, ret, outstanding, submitted, reaped>>

\* CompletionQueue::complete, second access: the entry is copied.
complete ==
  /\ pc = "copy"
  /\ entry' = cqMem[cq_head]
  /\ cq_head' = (cq_head + 1) % QLen
  /\ cq_phase' = IF cq_head' = 0 THEN ~cq_phase ELSE cq_phase
  /\ pc' = "cqdbl"
  /\ UNCHANGED <<sq_head, sq_tail, call, n, todo, reqs, deviceVars, sqMem, cqMem,
                 sqTDBL, cqHDBL, ret, outstanding, submitted, reaped>>

\* Faulty variants: the status test is inverted; the status is ignored.
result_inverted == IF entry.ok THEN "failed" ELSE "success"
result_ignored == "success"

\* The result of a completion call: quick_poll prints a failure and returns
\* the same Some(()) as for a success.
result == IF entry.ok \/ call = "quick_poll" THEN "success" ELSE "failed"

\* Faulty variants: the doorbell is not rung; sub_queue.head is not updated.
ring_cq_with(doorbell, head) ==
  /\ pc = "cqdbl"
  /\ cqHDBL' = doorbell
  /\ sq_head' = head
  /\ ret' = result
  /\ reaped' = reaped + n
  /\ outstanding' = outstanding - n
  /\ return
  /\ UNCHANGED <<sq_tail, cq_head, cq_phase, deviceVars, sqMem, cqMem,
                 sqTDBL, submitted>>
ring_cq_silent == ring_cq_with(cqHDBL, entry.sq_head)
ring_cq_stale_head == ring_cq_with(cq_head, sq_head)

\* The head doorbell frees the consumed slots; sub_queue.head follows the
\* controller's; the call returns.
ring_cq ==
  /\ pc = "cqdbl"
  /\ cqHDBL' = cq_head
  /\ sq_head' = entry.sq_head
  /\ ret' = result
  /\ reaped' = reaped + n
  /\ outstanding' = outstanding - n
  /\ return
  /\ UNCHANGED <<sq_tail, cq_head, cq_phase, deviceVars, sqMem, cqMem,
                 sqTDBL, submitted>>

(***************************************************************************)
(* The controller: it fetches commands in ring order up to the tail        *)
(* doorbell, executes them in any order, and posts a completion while the  *)
(* completion ring has a free slot.                                        *)
(***************************************************************************)
device_fetch ==
  /\ Slot(fetched) # sqTDBL
  /\ inflight' = inflight \cup {sqMem[Slot(fetched)]}
  /\ fetched' = fetched + 1
  /\ UNCHANGED <<driverVars, callVars, posts, heads, sqMem, cqMem, sqTDBL, cqHDBL,
                 pc, ret, outstanding, submitted, reaped>>

device_post(c, ok) ==
  /\ c \in inflight
  /\ Slot(Len(posts) + 1) # cqHDBL
  /\ cqMem' = [cqMem EXCEPT ![Slot(Len(posts))] =
                 [phase |-> Phase(Len(posts)), sq_head |-> Slot(fetched),
                  cmd |-> c, ok |-> ok]]
  /\ inflight' = inflight \ {c}
  /\ posts' = Append(posts, [cmd |-> c, ok |-> ok])
  /\ heads' = Append(heads, fetched)
  /\ UNCHANGED <<driverVars, callVars, fetched, sqMem, sqTDBL, cqHDBL, pc, ret,
                 outstanding, submitted, reaped>>

ClientCall ==
  \/ \E k \in 1..MaxChunks : submit_io(k)
  \/ "complete_io" \in Calls /\ \E k \in 1..MaxWait : complete_io(k)
  \/ \E c \in Calls \ {"complete_io"} : quick_poll(c)

DriverStep ==
  submit \/ ring_sq \/ submit_full \/ poll_hit \/ poll_miss \/ complete \/ ring_cq

DevicePost == \E c \in inflight, ok \in Outcomes : device_post(c, ok)

Next == ClientCall \/ DriverStep \/ device_fetch \/ DevicePost

Spec == Init /\ [][Next]_vars

\* A call that has begun is executed to its end by its thread, and a working
\* controller fetches and answers.  Nothing obliges the client to call.
FairSpec ==
  /\ Spec
  /\ WF_vars(DriverStep)
  /\ WF_vars(device_fetch)
  /\ WF_vars(DevicePost)
-----------------------------------------------------------------------------
\* The variables have their types.
TypeOK ==
  /\ sq_head \in Slots /\ sq_tail \in Slots
  /\ cq_head \in Slots /\ cq_phase \in BOOLEAN
  /\ sqMem \in [Slots -> Int] /\ cqMem \in [Slots -> Entry]
  /\ sqTDBL \in Slots /\ cqHDBL \in Slots
  /\ pc \in {"idle", "submit", "sqdbl", "poll", "copy", "cqdbl"}
  /\ call \in {"none", "complete_io", "quick_poll", "quick_poll_result"}
  /\ n \in 1..(QLen - 1)
  /\ todo \in Nat /\ reqs \in Nat /\ entry \in Entry
  /\ ret \in {"none", "success", "failed"} /\ outstanding \in Int
  /\ fetched \in Nat /\ inflight \in SUBSET Int
  /\ submitted \in Nat /\ reaped \in Nat
  /\ posts \in Seq([cmd : Int, ok : BOOLEAN]) /\ heads \in Seq(Nat)

\* Commands whose doorbell has been rung.
rung == IF pc = "sqdbl" THEN submitted - 1 ELSE submitted

\* No command is overwritten before the controller fetched it: is_full, which
\* goes by the last head the controller reported, never lets submit_io reuse
\* a slot too early, and the doorbell never runs ahead of the slot write.
SubmissionsIntact ==
  /\ fetched <= rung /\ rung <= fetched + QLen - 1
  /\ \A k \in fetched..(submitted - 1) : sqMem[Slot(k)] = k
  /\ inflight \cup {posts[i].cmd : i \in DOMAIN posts} = 0..(fetched - 1)

\* No posted completion is overwritten before the driver consumed it: the
\* head doorbell never releases a slot that is still to be read.
CompletionsIntact ==
  \A j \in reaped..(Len(posts) - 1) :
    LET e == cqMem[Slot(j)]
    IN  [cmd |-> e.cmd, ok |-> e.ok] = posts[j + 1]

\* The phase tag works: the entry complete() copies is the n-th completion
\* after the last consumed one, never one of an earlier lap, although
\* complete_n skips n - 1 entries without looking at their tags.
EntryIsAwaited ==
  pc = "cqdbl" =>
    /\ reaped + n <= Len(posts)
    /\ [cmd |-> entry.cmd, ok |-> entry.ok] = posts[reaped + n]

\* Between calls the client's count, kept from the values that submit_io
\* returns and the completions it asked for, is the number of commands whose
\* completion is still to be consumed: a partial push of submit_io on a full
\* queue is reported exactly.
OutstandingExact ==
  pc = "idle" => outstanding = submitted - reaped

\* A drained queue pair is empty, as the clients assert before they delete it
\* (assert!(qpair.sub_queue.is_empty())), whatever the order in which the
\* controller completed the commands.
DrainedIsEmpty ==
  pc = "idle" /\ reaped = submitted => is_empty

\* submit_io gives up only when QLen - 1 commands wait for their completion:
\* a client that keeps fewer outstanding never loses a request.
FullOnlyWhenBusy ==
  pc \in {"idle", "submit"} /\ is_full => submitted - reaped >= QLen - 1

\* complete_io and quick_poll_result report a failure exactly if the last of
\* the commands whose completions they consumed has failed: a client that
\* consumes one at a time learns of every failure, and of no other.
FailureReported ==
  [][reaped' # reaped /\ call # "quick_poll" =>
       (ret' = "failed" <=> ~posts[reaped'].ok)]_vars

\* The queue pair implements the channel its callers rely on.
Channel == INSTANCE IoChannel WITH
  handed <- rung, answers <- posts, taken <- reaped

ImplementsChannel == Channel!Spec

\* A complete_io(n) for commands that were submitted returns: its spin loop
\* ends although the completion ring may fill up meanwhile.
SpinReturns == pc = "poll" ~> pc = "idle"
==============================================================================
