----------------------------- MODULE DepthClient -----------------------------
(***************************************************************************)
(* A thread that keeps up to Depth commands outstanding on a queue pair of *)
(* its own: qd_n_multithread of examples/throughput.rs, which polls with   *)
(* quick_poll, and qd_n of tests/queue_depth_test.rs, which polls with     *)
(* quick_poll_result and exits on a failure.  The thread counts its        *)
(* commands itself: it does not look at what submit_io returns, nor (in    *)
(* throughput) at what complete_io returns.                                *)
(*                                                                         *)
(* The calls are those of QueuePair, whose driver and controller steps     *)
(* interleave as before; this module replaces its arbitrary client.        *)
(***************************************************************************)
EXTENDS QueuePair

CONSTANT Depth   \* queue_depth

\* The ring is longer than the queue depth (QUEUE_LENGTH is 16384), a wait for
\* the whole depth is one that QueuePair allows, and complete_io is among the
\* calls that are used.
ASSUME DepthAssumption ==
  Depth \in 1..(QLen - 1) /\ MaxWait = QLen - 1 /\ "complete_io" \in Calls

VARIABLES
  poll,             \* the polling call this client uses
  stage,            \* where the client is between its calls
  outstanding_ops,  \* its count of commands without a completion
  total_io_ops      \* its count of completed commands

clientVars == <<poll, stage, outstanding_ops, total_io_ops>>
allVars == <<vars, clientVars>>

ClientInit ==
  /\ Init
  /\ poll \in Calls \ {"complete_io"}
  /\ stage = "loop" /\ outstanding_ops = 0 /\ total_io_ops = 0

\* The pair is between two calls, and the client looks at what came back.
Between == pc = "idle" /\ UNCHANGED vars
checks_result == poll = "quick_poll_result"

\* while quick_poll().is_some(): until there is nothing to consume.  An
\* iteration of the outer loop starts with it, as long as there is time (the
\* time is up at the latest when the bound on commands is reached).
poll_again ==
  /\ stage = "poll" \/ (stage = "loop" /\ submitted < MaxCmds)
  /\ quick_poll(poll)
  /\ stage' = "polled"
  /\ UNCHANGED <<poll, outstanding_ops, total_io_ops>>

polled_some ==
  /\ stage = "polled" /\ Between /\ ret = "success"
  /\ outstanding_ops' = outstanding_ops - 1
  /\ total_io_ops' = total_io_ops + 1
  /\ stage' = "poll"
  /\ UNCHANGED poll

polled_none ==
  /\ stage = "polled" /\ Between /\ ret = "none"
  /\ stage' = "check"
  /\ UNCHANGED <<poll, outstanding_ops, total_io_ops>>

\* Faulty variant, for mutation runs: the depth is not looked at.
at_depth_never == FALSE
at_depth == outstanding_ops = Depth

\* At the full depth the client waits for one completion first.
wait_one ==
  /\ stage = "check" /\ at_depth
  /\ complete_io(1)
  /\ stage' = "waited"
  /\ UNCHANGED <<poll, outstanding_ops, total_io_ops>>

waited_one ==
  /\ stage = "waited" /\ Between
  /\ ret = "success" \/ ~checks_result
  /\ outstanding_ops' = outstanding_ops - 1
  /\ total_io_ops' = total_io_ops + 1
  /\ stage' = "submit"
  /\ UNCHANGED poll

\* The next command uses the outstanding_ops-th part of the buffer.
submit_next ==
  /\ \/ stage = "submit"
     \/ stage = "check" /\ ~at_depth
  /\ submit_io(1)
  /\ stage' = "submitted"
  /\ UNCHANGED <<poll, outstanding_ops, total_io_ops>>

submitted_one ==
  /\ stage = "submitted" /\ Between
  /\ outstanding_ops' = outstanding_ops + 1
  /\ stage' = "loop"
  /\ UNCHANGED <<poll, total_io_ops>>

\* The time is up: the rest is awaited with one call.
drain ==
  /\ stage = "loop" /\ outstanding_ops # 0
  /\ complete_io(outstanding_ops)
  /\ stage' = "draining"
  /\ UNCHANGED <<poll, outstanding_ops, total_io_ops>>

\* assert!(qpair.sub_queue.is_empty()), then the pair is deleted.
drained ==
  /\ Between
  /\ \/ stage = "draining"
     \/ stage = "loop" /\ outstanding_ops = 0
  /\ total_io_ops' = total_io_ops + outstanding_ops
  /\ outstanding_ops' = 0
  /\ stage' = IF is_empty THEN "deleted" ELSE "panicked"
  /\ UNCHANGED poll

\* process::exit(1): the test learns of a failed command.
exit ==
  /\ stage \in {"polled", "waited"} /\ Between
  /\ ret = "failed" /\ checks_result
  /\ stage' = "exited"
  /\ UNCHANGED <<poll, outstanding_ops, total_io_ops>>

ClientStep ==
  \/ poll_again \/ polled_some \/ polled_none \/ wait_one \/ waited_one
  \/ submit_next \/ submitted_one \/ drain \/ drained \/ exit

PairStep ==
  /\ DriverStep \/ device_fetch \/ DevicePost
  /\ UNCHANGED clientVars

ClientNext == ClientStep \/ PairStep

\* The thread and the controller go on; the loop ends because time passes.
ClientSpec ==
  /\ ClientInit /\ [][ClientNext]_allVars
  /\ WF_allVars(ClientStep)
  /\ WF_allVars(DriverStep /\ UNCHANGED clientVars)
  /\ WF_allVars(device_fetch /\ UNCHANGED clientVars)
  /\ WF_allVars(DevicePost /\ UNCHANGED clientVars)
-----------------------------------------------------------------------------
Ended == {"deleted", "panicked", "exited"}

\* Every wait is covered: when the client is about to wait for n completions,
\* n commands whose completions are not consumed really are in the queue, and
\* n is less than the ring length.  complete_io checks neither, and would spin
\* forever.
WaitsCovered ==
  pc = "idle" =>
    /\ stage = "check" /\ outstanding_ops = Depth => submitted - reaped >= 1
    /\ stage = "loop" => outstanding_ops \in 0..Depth /\ outstanding_ops <= submitted - reaped

\* submit_io, whose result the client ignores, never finds the queue full, and
\* the part of the buffer it is given lies in the buffer of Depth parts.
EveryRequestPushed ==
  stage = "submitted" => pc # "submit" \/ (~is_full /\ outstanding_ops < Depth)

\* The client that ends normally has counted every command exactly once, with
\* the last wait consuming the rest whatever the order of the completions, and
\* its assertion that the queue is empty holds.
TotalsExact ==
  /\ stage # "panicked"
  /\ stage = "deleted" => total_io_ops = submitted /\ reaped = submitted

\* The client that looks at the results does not go on after a failure, unless
\* the failed command is one of those the last wait skips.
FailureStops ==
  checks_result /\ stage \in {"loop", "poll", "check", "submit"} /\ pc = "idle" =>
    \A i \in 1..reaped : posts[i].ok

\* The client ends.
ClientEnds == <>(stage \in Ended)
==============================================================================
