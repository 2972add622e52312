------------------------------ MODULE NvmeDevice ------------------------------
(***************************************************************************)
(* Bringing a controller up and creating and deleting I/O queue pairs:     *)
(* NvmeDevice::init, create_io_queue_pair and delete_io_queue_pair, with   *)
(* submit_and_complete_admin, against a controller that may refuse any     *)
(* admin command and a process that may die between any two steps.         *)
(*                                                                         *)
(* The device object is used under a mutex, so one operation runs at a     *)
(* time; the controller, and the clients' I/O on the queue pairs, run      *)
(* concurrently with it.  A DMA region is a number; what the controller    *)
(* holds on to after the driver gave it up is what this module is about.   *)
(***************************************************************************)
EXTENDS Integers

CONSTANTS
  DoorbellQids,  \* largest queue id whose doorbells lie within BAR0
  CtrlQids,      \* largest queue id the controller supports
  MaxFaults,     \* bound: refused admin commands and failed allocations
  MaxCrashes,    \* bound: deaths of the driver process
  MaxRegions     \* bound: DMA regions allocated in one behaviour

\* The doorbells of queue 1 lie within BAR0: init relies on it unchecked.
ASSUME DeviceAssumption ==
  /\ DoorbellQids \in Nat \ {0} /\ CtrlQids \in Nat
  /\ MaxFaults \in Nat /\ MaxCrashes \in Nat /\ MaxRegions \in Nat

None == 0                       \* no region; no queue id
Regions == 1..MaxRegions
Qids == 1..(DoorbellQids + 1)   \* q_id may end up one past the last doorbell
Ops == {"create_cq", "create_sq", "delete_sq", "delete_cq"}
NoReq == [op |-> "none", qid |-> None, mem |-> None]

\* An NvmeQueuePair, or the parts of one that exist so far.
NoPair == [id |-> None, sq |-> None, cq |-> None]

VARIABLES
  pc,          \* step of the operation under way; "none": no device object
  q_id,        \* next queue id (NvmeDevice.q_id)
  cur,         \* queue pair being created or deleted
  admin,       \* [sq, cq]: regions of the admin queues
  pairs,       \* queue pairs handed to clients and not given back
  failed,      \* queue pairs whose deletion failed; the client still has them
  mapped,      \* regions mapped for DMA
  last,        \* last region allocated
  en, rdy,     \* CC.EN and CSTS.RDY
  asq, acq,    \* controller's admin queue registers
  sqs, cqs,    \* controller: I/O queues, a set of [qid, mem]
  req, resp,   \* admin command and its status
  owned,       \* history: this process has reset the controller
  faults, crashes

hostVars == <<pc, q_id, cur, admin, pairs, failed, mapped, last, owned>>
ctrlVars == <<en, rdy, asq, acq, sqs, cqs>>
vars == <<hostVars, ctrlVars, req, resp, faults, crashes>>

\* The controller is found as a previous driver left it: off, or running with
\* queues in memory that is not ours (region None).
Init ==
  /\ pc = "none" /\ q_id = 1 /\ cur = NoPair
  /\ admin = [sq |-> None, cq |-> None]
  /\ pairs = {} /\ failed = {} /\ mapped = {} /\ last = 0
  /\ en \in BOOLEAN /\ rdy = en
  /\ asq = None /\ acq = None
  /\ sqs = IF en THEN {[qid |-> 1, mem |-> None]} ELSE {}
  /\ cqs = sqs
  /\ req = NoReq /\ resp = "none"
  /\ owned = FALSE /\ faults = 0 /\ crashes = 0

\* Allocating k regions: numbers last + 1 .. last + k.
Allocate(k) ==
  /\ last + k <= MaxRegions
  /\ last' = last + k
  /\ mapped' = mapped \cup (last + 1)..(last + k)

Fault == faults < MaxFaults /\ faults' = faults + 1

\* submit_and_complete_admin: submit and ring; then spin for the status.
issue(op, qid, mem) ==
  /\ req' = [op |-> op, qid |-> qid, mem |-> mem]
  /\ resp' = "none"
done(status) == resp = status /\ resp' = "none" /\ UNCHANGED req

(***************************************************************************)
(* NvmeDevice::init.                                                       *)
(***************************************************************************)
\* The I/O buffer, the PRP list, the admin queues and the first I/O queues are
\* allocated before the controller is touched.
init_allocate ==
  /\ pc = "none"
  /\ Allocate(6)
  /\ admin' = [sq |-> last + 3, cq |-> last + 4]
  /\ cur' = [id |-> 1, sq |-> last + 5, cq |-> last + 6]
  /\ q_id' = 1
  /\ pc' = "disable"
  /\ UNCHANGED <<ctrlVars, pairs, failed, req, resp, owned, faults, crashes>>

\* One of the allocations fails: the regions before it stay mapped.
init_no_memory ==
  /\ pc = "none" /\ Fault
  /\ \E k \in 0..5 : Allocate(k)
  /\ UNCHANGED <<ctrlVars, pc, q_id, cur, admin, pairs, failed, req, resp, owned,
                 crashes>>

\* Faulty variant: CC.EN is left as it is.
init_disable_skipped ==
  /\ pc = "disable"
  /\ pc' = "wait_off"
  /\ UNCHANGED <<ctrlVars, q_id, cur, admin, pairs, failed, mapped,
                 last, owned, req, resp, faults, crashes>>

init_disable ==
  /\ pc = "disable"
  /\ en' = FALSE
  /\ pc' = "wait_off"
  /\ UNCHANGED <<rdy, asq, acq, sqs, cqs, q_id, cur, admin, pairs, failed, mapped,
                 last, owned, req, resp, faults, crashes>>

\* Faulty variant: CSTS.RDY is not waited for.
init_wait_off_skipped ==
  /\ pc = "wait_off"
  /\ pc' = "admin_regs" /\ owned' = TRUE
  /\ UNCHANGED <<ctrlVars, q_id, cur, admin, pairs, failed, mapped, last, req, resp,
                 faults, crashes>>

init_wait_off ==
  /\ pc = "wait_off" /\ ~rdy
  /\ pc' = "admin_regs" /\ owned' = TRUE
  /\ UNCHANGED <<ctrlVars, q_id, cur, admin, pairs, failed, mapped, last, req, resp,
                 faults, crashes>>

init_admin_regs ==
  /\ pc = "admin_regs"
  /\ asq' = admin.sq /\ acq' = admin.cq
  /\ pc' = "enable"
  /\ UNCHANGED <<en, rdy, sqs, cqs, q_id, cur, admin, pairs, failed, mapped, last,
                 owned, req, resp, faults, crashes>>

init_enable ==
  /\ pc = "enable"
  /\ en' = TRUE
  /\ pc' = "wait_on"
  /\ UNCHANGED <<rdy, asq, acq, sqs, cqs, q_id, cur, admin, pairs, failed, mapped,
                 last, owned, req, resp, faults, crashes>>

init_wait_on ==
  /\ pc = "wait_on" /\ rdy
  /\ issue("create_cq", cur.id, cur.cq)
  /\ pc' = "init_cq"
  /\ UNCHANGED <<ctrlVars, q_id, cur, admin, pairs, failed, mapped, last, owned,
                 faults, crashes>>

init_cq_created ==
  /\ pc = "init_cq" /\ resp = "ok"
  /\ issue("create_sq", cur.id, cur.sq)
  /\ pc' = "init_sq"
  /\ UNCHANGED <<ctrlVars, q_id, cur, admin, pairs, failed, mapped, last, owned,
                 faults, crashes>>

\* Queue pair 1 is the device object's own; it is never handed out.
init_sq_created ==
  /\ pc = "init_sq" /\ done("ok")
  /\ q_id' = q_id + 1 /\ cur' = NoPair
  /\ pc' = "ready"
  /\ UNCHANGED <<ctrlVars, admin, pairs, failed, mapped, last, owned, faults, crashes>>

\* An error return of init drops the device object: nothing is undone.
init_error ==
  /\ pc \in {"init_cq", "init_sq"} /\ done("err")
  /\ cur' = NoPair
  /\ pc' = "none"
  /\ UNCHANGED <<ctrlVars, q_id, admin, pairs, failed, mapped, last, owned, faults,
                 crashes>>

(***************************************************************************)
(* create_io_queue_pair: completion queue first, then the submission queue *)
(* that refers to it; q_id advances only when both exist.  The length is    *)
(* at most QUEUE_LENGTH, as with every caller: the controller is told the  *)
(* length asked for, the rings have at most QUEUE_LENGTH entries.          *)
(***************************************************************************)
\* Faulty variant: the doorbell offset is not checked.
create_io_queue_pair_unchecked ==
  /\ pc = "ready"
  /\ last + 2 <= MaxRegions
  /\ Allocate(1)
  /\ cur' = [id |-> q_id, sq |-> None, cq |-> last + 1]
  /\ issue("create_cq", q_id, last + 1)
  /\ pc' = "create_cq"
  /\ UNCHANGED <<ctrlVars, q_id, admin, pairs, failed, owned, faults, crashes>>

create_io_queue_pair ==
  /\ pc = "ready"
  /\ q_id <= DoorbellQids              \* otherwise the bounds assertion panics
  /\ last + 2 <= MaxRegions            \* bound: room for both queues
  /\ Allocate(1)
  /\ cur' = [id |-> q_id, sq |-> None, cq |-> last + 1]
  /\ issue("create_cq", q_id, last + 1)
  /\ pc' = "create_cq"
  /\ UNCHANGED <<ctrlVars, q_id, admin, pairs, failed, owned, faults, crashes>>

\* Faulty variant: the controller is given the completion queue's address.
create_cq_created_wrong_address ==
  /\ pc = "create_cq" /\ resp = "ok"
  /\ Allocate(1)
  /\ cur' = [cur EXCEPT !.sq = last + 1]
  /\ issue("create_sq", cur.id, cur.cq)
  /\ pc' = "create_sq"
  /\ UNCHANGED <<ctrlVars, q_id, admin, pairs, failed, owned, faults, crashes>>

create_cq_created ==
  /\ pc = "create_cq" /\ resp = "ok"
  /\ Allocate(1)
  /\ cur' = [cur EXCEPT !.sq = last + 1]
  /\ issue("create_sq", cur.id, last + 1)
  /\ pc' = "create_sq"
  /\ UNCHANGED <<ctrlVars, q_id, admin, pairs, failed, owned, faults, crashes>>

create_sq_created ==
  /\ pc = "create_sq" /\ done("ok")
  /\ q_id' = q_id + 1
  /\ pairs' = pairs \cup {cur} /\ cur' = NoPair
  /\ pc' = "ready"
  /\ UNCHANGED <<ctrlVars, admin, failed, mapped, last, owned, faults, crashes>>

\* A refused command: the queues allocated so far are forgotten, not freed.
create_error ==
  /\ pc \in {"create_cq", "create_sq"} /\ done("err")
  /\ cur' = NoPair
  /\ pc' = "ready"
  /\ UNCHANGED <<ctrlVars, q_id, admin, pairs, failed, mapped, last, owned, faults,
                 crashes>>

\* A failed allocation, of the completion queue or of the submission queue.
create_no_memory ==
  /\ \/ pc = "ready" /\ q_id <= DoorbellQids /\ UNCHANGED <<req, resp>>
     \/ pc = "create_cq" /\ done("ok")
  /\ Fault
  /\ cur' = NoPair
  /\ pc' = "ready"
  /\ UNCHANGED <<ctrlVars, q_id, admin, pairs, failed, mapped, last, owned, crashes>>

(***************************************************************************)
(* delete_io_queue_pair: submission queue, completion queue, then the      *)
(* memory of both.  The caller keeps the queue pair when it returns Err.   *)
(***************************************************************************)
delete_io_queue_pair(p) ==
  /\ pc = "ready"
  /\ cur' = p
  /\ pairs' = pairs \ {p} /\ failed' = failed \ {p}
  /\ issue("delete_sq", p.id, None)
  /\ pc' = "delete_sq"
  /\ UNCHANGED <<ctrlVars, q_id, admin, mapped, last, owned, faults, crashes>>

\* Faulty variant: both rings are freed before the completion queue is deleted.
delete_sq_deleted_frees ==
  /\ pc = "delete_sq" /\ resp = "ok"
  /\ issue("delete_cq", cur.id, None)
  /\ mapped' = mapped \ {cur.sq, cur.cq}
  /\ pc' = "delete_cq"
  /\ UNCHANGED <<ctrlVars, q_id, cur, admin, pairs, failed, last, owned,
                 faults, crashes>>

delete_sq_deleted ==
  /\ pc = "delete_sq" /\ resp = "ok"
  /\ issue("delete_cq", cur.id, None)
  /\ pc' = "delete_cq"
  /\ UNCHANGED <<ctrlVars, q_id, cur, admin, pairs, failed, mapped, last, owned,
                 faults, crashes>>

delete_cq_deleted ==
  /\ pc = "delete_cq" /\ done("ok")
  /\ mapped' = mapped \ {cur.sq, cur.cq}
  /\ cur' = NoPair
  /\ pc' = "ready"
  /\ UNCHANGED <<ctrlVars, q_id, admin, pairs, failed, last, owned, faults, crashes>>

\* Unmapping fails, for the first region or for the second.
delete_unmap_fails ==
  /\ pc = "delete_cq" /\ done("ok") /\ Fault
  /\ mapped' \in {mapped, mapped \ {cur.sq}}
  /\ failed' = failed \cup {cur} /\ cur' = NoPair
  /\ pc' = "ready"
  /\ UNCHANGED <<ctrlVars, q_id, admin, pairs, last, owned, crashes>>

delete_error ==
  /\ pc \in {"delete_sq", "delete_cq"} /\ done("err")
  /\ failed' = failed \cup {cur} /\ cur' = NoPair
  /\ pc' = "ready"
  /\ UNCHANGED <<ctrlVars, q_id, admin, pairs, mapped, last, owned, faults, crashes>>

(***************************************************************************)
(* The controller.                                                         *)
(***************************************************************************)
\* Clearing CC.EN resets the controller: it forgets its queues and the
\* command it was executing, and clears CSTS.RDY.
ctrl_reset ==
  /\ rdy /\ ~en
  /\ rdy' = FALSE
  /\ sqs' = {} /\ cqs' = {}
  /\ req' = NoReq
  /\ UNCHANGED <<hostVars, en, asq, acq, resp, faults, crashes>>

ctrl_start ==
  /\ ~rdy /\ en
  /\ rdy' = TRUE
  /\ UNCHANGED <<hostVars, en, asq, acq, sqs, cqs, req, resp, faults, crashes>>

Has(queues, qid) == \E q \in queues : q.qid = qid
Without(queues, qid) == {q \in queues : q.qid # qid}

Valid(r) ==
  CASE r.op = "create_cq" -> r.qid <= CtrlQids /\ ~Has(cqs, r.qid)
    [] r.op = "create_sq" -> Has(cqs, r.qid) /\ ~Has(sqs, r.qid)
    [] r.op = "delete_sq" -> Has(sqs, r.qid)
    [] r.op = "delete_cq" -> Has(cqs, r.qid) /\ ~Has(sqs, r.qid)

\* Somebody is there to read the status: the issuer may have died.
Waiting == pc \in {"init_cq", "init_sq", "create_cq", "create_sq", "delete_sq", "delete_cq"}

ctrl_execute ==
  /\ rdy /\ en /\ req # NoReq /\ Valid(req)
  /\ req' = NoReq
  /\ resp' = IF Waiting THEN "ok" ELSE "none"
  /\ sqs' = CASE req.op = "create_sq" -> sqs \cup {[qid |-> req.qid, mem |-> req.mem]}
              [] req.op = "delete_sq" -> Without(sqs, req.qid)
              [] OTHER -> sqs
  /\ cqs' = CASE req.op = "create_cq" -> cqs \cup {[qid |-> req.qid, mem |-> req.mem]}
              [] req.op = "delete_cq" -> Without(cqs, req.qid)
              [] OTHER -> cqs
  /\ UNCHANGED <<hostVars, en, rdy, asq, acq, faults, crashes>>

ctrl_refuse ==
  /\ rdy /\ en /\ req # NoReq
  /\ IF Valid(req) THEN Fault ELSE UNCHANGED faults
  /\ req' = NoReq
  /\ resp' = IF Waiting THEN "err" ELSE "none"
  /\ UNCHANGED <<hostVars, ctrlVars, crashes>>

(***************************************************************************)
(* The process dies.  The system takes its memory back; the controller is  *)
(* not told.                                                               *)
(***************************************************************************)
die ==
  /\ pc' = "none" /\ cur' = NoPair
  /\ pairs' = {} /\ failed' = {} /\ mapped' = {}
  /\ resp' = "none" /\ owned' = FALSE
  /\ UNCHANGED <<ctrlVars, q_id, admin, last, req, faults>>

crash ==
  /\ mapped # {} /\ crashes < MaxCrashes
  /\ crashes' = crashes + 1
  /\ die

\* The doorbell of queue q_id would lie outside BAR0.
create_panics ==
  /\ pc = "ready" /\ q_id > DoorbellQids
  /\ die
  /\ UNCHANGED crashes

InitStep ==
  \/ init_allocate \/ init_no_memory \/ init_disable \/ init_wait_off
  \/ init_admin_regs \/ init_enable \/ init_wait_on \/ init_cq_created
  \/ init_sq_created \/ init_error

CreateStep ==
  \/ create_io_queue_pair \/ create_cq_created \/ create_sq_created
  \/ create_error \/ create_no_memory \/ create_panics

DeleteStep ==
  \/ \E p \in pairs \cup failed : delete_io_queue_pair(p)
  \/ delete_sq_deleted \/ delete_cq_deleted \/ delete_unmap_fails \/ delete_error

CtrlStep == ctrl_reset \/ ctrl_start \/ ctrl_execute \/ ctrl_refuse

Next == InitStep \/ CreateStep \/ DeleteStep \/ CtrlStep \/ crash

Spec == Init /\ [][Next]_vars

\* The steps of an operation that has begun.
Continue ==
  /\ pc \notin {"none", "ready"}
  /\ InitStep \/ CreateStep \/ DeleteStep

\* An operation that has begun is executed to its end, and the controller
\* follows CC.EN and answers admin commands.
FairSpec == Spec /\ WF_vars(Continue) /\ WF_vars(CtrlStep)
-----------------------------------------------------------------------------
PartialPairs == [id : Qids \cup {None}, sq : Regions \cup {None}, cq : Regions \cup {None}]

Queues == [qid : Qids, mem : Regions \cup {None}]

\* The variables have their types.
TypeOK ==
  /\ pc \in {"none", "disable", "wait_off", "admin_regs", "enable", "wait_on",
             "init_cq", "init_sq", "ready", "create_cq", "create_sq", "delete_sq",
             "delete_cq"}
  /\ q_id \in Qids /\ cur \in PartialPairs
  /\ pairs \subseteq PartialPairs /\ failed \subseteq PartialPairs
  /\ mapped \subseteq Regions /\ last \in Regions \cup {None}
  /\ en \in BOOLEAN /\ rdy \in BOOLEAN /\ owned \in BOOLEAN
  /\ asq \in Regions \cup {None} /\ acq \in Regions \cup {None}
  /\ sqs \subseteq Queues /\ cqs \subseteq Queues
  /\ req \in [op : Ops \cup {"none"}, qid : Qids \cup {None}, mem : Regions \cup {None}]
  /\ resp \in {"none", "ok", "err"}
  /\ faults \in 0..MaxFaults /\ crashes \in 0..MaxCrashes

\* Memory the controller may read or write at any moment.
CtrlMemory ==
  {q.mem : q \in sqs \cup cqs} \cup IF rdy THEN {asq, acq} ELSE {}

\* Once a process has reset the controller, the controller never holds on to
\* memory that is not mapped: neither refused commands halfway through a
\* creation or a deletion, nor a predecessor that died with its queues live
\* and a command under way, leave it with a ring in freed memory.
CtrlMemoryMapped == owned => CtrlMemory \subseteq mapped

\* Every queue pair a client holds and has not tried to delete is backed by
\* the two queues of its id on the controller, in the memory the client
\* uses; no two have the same id or memory; queue 1 stays with the device.
PairsBacked ==
  /\ \A p \in pairs :
       /\ p.id # 1
       /\ [qid |-> p.id, mem |-> p.sq] \in sqs
       /\ [qid |-> p.id, mem |-> p.cq] \in cqs
       /\ p.sq \in mapped /\ p.cq \in mapped
  /\ \A p, q \in pairs : p # q => p.id # q.id /\ {p.sq, p.cq} \cap {q.sq, q.cq} = {}

\* The admin queue registers change only while the controller is not ready.
AdminRegsStable == [][rdy => UNCHANGED <<asq, acq>>]_vars

\* Every operation returns: no spin loop of init or of an admin command waits
\* for something that will not happen.
OperationsReturn == pc \notin {"none", "ready"} ~> pc \in {"none", "ready"}
==============================================================================
