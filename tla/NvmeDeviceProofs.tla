--------------------------- MODULE NvmeDeviceProofs ---------------------------
(***************************************************************************)
(* The safety properties of NvmeDevice for every number of queues, faults, *)
(* crashes and regions.  The inductive invariant says where each operation *)
(* stands with the controller, and that no region and no queue id is used  *)
(* for two things.                                                         *)
(***************************************************************************)
EXTENDS NvmeDevice, TLAPS

\* The steps before the device object exists.
InitPcs == {"none", "disable", "wait_off", "admin_regs", "enable", "wait_on",
            "init_cq", "init_sq"}
Creating == {"create_cq", "create_sq"}
Deleting == {"delete_sq", "delete_cq"}

\* The types, in the detail that the proofs need: a queue pair has an id, and
\* a command other than NoReq is about a queue.
TypeInv ==
  /\ TypeOK
  /\ admin \in [sq : Regions \cup {None}, cq : Regions \cup {None}]
  /\ req # NoReq => req.op \in Ops /\ req.qid \in Qids

\* CC.EN and CSTS.RDY follow the steps of init, and a controller that is not
\* ready has no queues and no command.
EnableInv ==
  /\ ~rdy => sqs = {} /\ cqs = {} /\ req = NoReq
  /\ pc \in {"wait_off", "admin_regs", "enable"} => ~en
  /\ pc \in {"admin_regs", "enable"} => ~rdy
  /\ pc \notin {"none", "disable", "wait_off", "admin_regs", "enable"} => en
  /\ pc \notin {"none", "disable", "wait_off", "admin_regs", "enable", "wait_on"} => rdy
  /\ pc \notin {"none", "disable", "wait_off"} => owned
  /\ pc \in {"none", "disable"} /\ owned => en /\ rdy   \* an error return of init
  /\ pc \notin {"none", "disable", "wait_off", "admin_regs"} =>
       asq = admin.sq /\ acq = admin.cq

\* The admin command that the operation under way waits for.
Command ==
  CASE pc \in {"init_cq", "create_cq"} -> [op |-> "create_cq", qid |-> cur.id, mem |-> cur.cq]
    [] pc \in {"init_sq", "create_sq"} -> [op |-> "create_sq", qid |-> cur.id, mem |-> cur.sq]
    [] pc = "delete_sq" -> [op |-> "delete_sq", qid |-> cur.id, mem |-> None]
    [] pc = "delete_cq" -> [op |-> "delete_cq", qid |-> cur.id, mem |-> None]
    [] OTHER -> NoReq

\* A command is the one of the operation under way, or (before the controller
\* is reset) one of a process that died.
CommandInv ==
  /\ resp # "none" => Waiting /\ req = NoReq
  /\ Waiting /\ resp = "none" => req = Command
  /\ owned /\ ~Waiting => req = NoReq

\* Queue ids: the pairs have ids below q_id, all different; the pair under
\* creation has q_id.
IdInv ==
  /\ pc \in InitPcs => pairs = {} /\ failed = {}
  /\ pc \in InitPcs \ {"none"} => q_id = 1 /\ cur.id = 1
  /\ pc \notin InitPcs => q_id > 1
  /\ pc \in Creating => cur.id = q_id /\ q_id <= DoorbellQids
  /\ pc \in Deleting => /\ cur.id \in 2..(q_id - 1)
                        /\ \A p \in pairs \cup failed : p.id # cur.id
  /\ \A p \in pairs \cup failed : p.id \in 2..(q_id - 1)
  /\ \A p, q \in pairs \cup failed : p # q => p.id # q.id

Mem(p) == {p.sq, p.cq} \ {None}
Live == pairs \cup failed \cup {cur}

\* Each region is used for one thing, and none beyond the last allocated.
DisjointInv ==
  /\ \A p \in Live : Mem(p) \subseteq 1..last
  /\ \A p, q \in Live : p # q => Mem(p) \cap Mem(q) = {}
  /\ {admin.sq, admin.cq, asq, acq} \subseteq 0..last
  /\ \A p \in Live : Mem(p) \cap {admin.sq, admin.cq, asq, acq} = {}

\* What the operation under way needs is mapped.
MappedInv ==
  /\ mapped \subseteq 1..last
  /\ pc # "none" => admin.sq \in mapped /\ admin.cq \in mapped
  /\ pc \in (InitPcs \ {"none"}) \cup {"create_sq"} => cur.sq \in mapped
  /\ pc \in (InitPcs \ {"none"}) \cup Creating => cur.cq \in mapped
  /\ pc \in {"none", "ready"} => cur = NoPair

\* The queues of the controller lie in mapped memory, and the memory of a pair
\* is used by the queues of its id only.
QueueInv ==
  owned =>
    /\ \A q \in sqs \cup cqs : q.mem \in mapped
    /\ \A q \in sqs \cup cqs, p \in Live : q.mem \in Mem(p) => q.qid = p.id
    /\ rdy => asq \in mapped /\ acq \in mapped

Backed(p) ==
  /\ [qid |-> p.id, mem |-> p.sq] \in sqs
  /\ [qid |-> p.id, mem |-> p.cq] \in cqs
  /\ p.sq \in mapped /\ p.cq \in mapped

\* How far the pair under way has got on the controller.
ProgressInv ==
  /\ \A p \in pairs : Backed(p)
  /\ pc = "create_cq" /\ resp = "ok" => [qid |-> cur.id, mem |-> cur.cq] \in cqs
  /\ pc = "create_sq" => [qid |-> cur.id, mem |-> cur.cq] \in cqs
  /\ pc = "create_sq" /\ resp = "ok" => [qid |-> cur.id, mem |-> cur.sq] \in sqs
  /\ pc = "delete_cq" /\ resp = "ok" => ~Has(sqs, cur.id) /\ ~Has(cqs, cur.id)

\* The inductive invariant.
IndInv ==
  /\ TypeInv /\ EnableInv /\ CommandInv /\ IdInv
  /\ DisjointInv /\ MappedInv /\ QueueInv /\ ProgressInv
-----------------------------------------------------------------------------
\* Every step keeps the types.  An id is an id of a queue because a creation starts
\* only below DoorbellQids.
LEMMA TypeStep ==
  ASSUME IndInv, [Next]_vars
  PROVE  TypeInv'
<1> USE DeviceAssumption DEF IndInv, hostVars, ctrlVars,
       TypeInv, TypeOK, PartialPairs, Queues, NoPair, NoReq, Qids, Regions, Ops, None,
       IdInv, InitPcs, Creating, Deleting, CommandInv, Waiting, Command
<1>1. CASE init_allocate
  BY <1>1 DEF init_allocate, Allocate
<1>2. CASE init_no_memory
  BY <1>2 DEF init_no_memory, Allocate, Fault
<1>3. CASE init_disable
  <2>1. en' \in BOOLEAN /\ rdy' \in BOOLEAN /\ owned' \in BOOLEAN
    BY <1>3 DEF init_disable
  <2> QED BY <1>3, <2>1 DEF init_disable
<1>4. CASE init_wait_off
  BY <1>4 DEF init_wait_off
<1>5. CASE init_admin_regs
  BY <1>5 DEF init_admin_regs
<1>6. CASE init_enable
  BY <1>6 DEF init_enable
<1>7. CASE init_wait_on
  BY <1>7 DEF init_wait_on, issue
<1>8. CASE init_cq_created
  BY <1>8 DEF init_cq_created, issue
<1>9. CASE init_sq_created
  BY <1>9 DEF init_sq_created, done
<1>10. CASE init_error
  BY <1>10 DEF init_error, done
<1>11. CASE create_io_queue_pair
  BY <1>11 DEF create_io_queue_pair, Allocate, issue
<1>12. CASE create_cq_created
  BY <1>12 DEF create_cq_created, Allocate, issue
<1>13. CASE create_sq_created
  BY <1>13 DEF create_sq_created, done
<1>14. CASE create_error
  BY <1>14 DEF create_error, done
<1>15. CASE create_no_memory
  BY <1>15 DEF create_no_memory, done, Fault
<1>16. CASE create_panics
  <2>1. en' \in BOOLEAN /\ rdy' \in BOOLEAN /\ owned' \in BOOLEAN
    BY <1>16 DEF create_panics, die
  <2> QED BY <1>16, <2>1 DEF create_panics, die
<1>17. ASSUME NEW p \in pairs \cup failed, delete_io_queue_pair(p) PROVE TypeInv'
  BY <1>17 DEF delete_io_queue_pair, issue
<1>18. CASE delete_sq_deleted
  BY <1>18 DEF delete_sq_deleted, issue
<1>19. CASE delete_cq_deleted
  BY <1>19 DEF delete_cq_deleted, done
<1>20. CASE delete_unmap_fails
  BY <1>20 DEF delete_unmap_fails, done, Fault
<1>21. CASE delete_error
  BY <1>21 DEF delete_error, done
<1>22. CASE ctrl_reset
  <2>1. en' \in BOOLEAN /\ rdy' \in BOOLEAN /\ owned' \in BOOLEAN
    BY <1>22 DEF ctrl_reset
  <2> QED BY <1>22, <2>1 DEF ctrl_reset
<1>23. CASE ctrl_start
  BY <1>23 DEF ctrl_start
<1>24. CASE ctrl_execute
  BY <1>24 DEF ctrl_execute, Has, Without
<1>25. CASE ctrl_refuse
  BY <1>25 DEF ctrl_refuse, Fault
<1>26. CASE crash
  <2>1. en' \in BOOLEAN /\ rdy' \in BOOLEAN /\ owned' \in BOOLEAN
    BY <1>26 DEF crash, die
  <2> QED BY <1>26, <2>1 DEF crash, die
<1>27. CASE UNCHANGED vars
  BY <1>27 DEF vars
<1> QED
  BY <1>1, <1>2, <1>3, <1>4, <1>5, <1>6, <1>7, <1>8, <1>9, <1>10, <1>11, <1>12, <1>13, <1>14,
     <1>15, <1>16, <1>17, <1>18, <1>19, <1>20, <1>21, <1>22, <1>23, <1>24, <1>25, <1>26, <1>27
  DEF Next, InitStep, CreateStep, DeleteStep, CtrlStep

\* Every step keeps the host and the controller in step over CC.EN and CSTS.RDY.
LEMMA EnableStep ==
  ASSUME IndInv, [Next]_vars
  PROVE  EnableInv'
<1> USE DeviceAssumption DEF IndInv, hostVars, ctrlVars,
       EnableInv, CommandInv, Waiting, TypeInv, TypeOK
<1>1. CASE init_allocate
  BY <1>1 DEF init_allocate, Allocate
<1>2. CASE init_no_memory
  BY <1>2 DEF init_no_memory, Allocate, Fault
<1>3. CASE init_disable
  BY <1>3 DEF init_disable
<1>4. CASE init_wait_off
  BY <1>4 DEF init_wait_off
<1>5. CASE init_admin_regs
  BY <1>5 DEF init_admin_regs
<1>6. CASE init_enable
  BY <1>6 DEF init_enable
<1>7. CASE init_wait_on
  BY <1>7 DEF init_wait_on, issue
<1>8. CASE init_cq_created
  BY <1>8 DEF init_cq_created, issue
<1>9. CASE init_sq_created
  BY <1>9 DEF init_sq_created, done
<1>10. CASE init_error
  BY <1>10 DEF init_error, done
<1>11. CASE create_io_queue_pair
  BY <1>11 DEF create_io_queue_pair, Allocate, issue
<1>12. CASE create_cq_created
  BY <1>12 DEF create_cq_created, Allocate, issue
<1>13. CASE create_sq_created
  BY <1>13 DEF create_sq_created, done
<1>14. CASE create_error
  BY <1>14 DEF create_error, done
<1>15. CASE create_no_memory
  BY <1>15 DEF create_no_memory, done, Fault
<1>16. CASE create_panics
  BY <1>16 DEF create_panics, die
<1>17. ASSUME NEW p \in pairs \cup failed, delete_io_queue_pair(p) PROVE EnableInv'
  BY <1>17 DEF delete_io_queue_pair, issue
<1>18. CASE delete_sq_deleted
  BY <1>18 DEF delete_sq_deleted, issue
<1>19. CASE delete_cq_deleted
  BY <1>19 DEF delete_cq_deleted, done
<1>20. CASE delete_unmap_fails
  BY <1>20 DEF delete_unmap_fails, done, Fault
<1>21. CASE delete_error
  BY <1>21 DEF delete_error, done
<1>22. CASE ctrl_reset
  BY <1>22 DEF ctrl_reset
<1>23. CASE ctrl_start
  BY <1>23 DEF ctrl_start
<1>24. CASE ctrl_execute
  BY <1>24 DEF ctrl_execute, Has, Without
<1>25. CASE ctrl_refuse
  BY <1>25 DEF ctrl_refuse, Fault
<1>26. CASE crash
  BY <1>26 DEF crash, die
<1>27. CASE UNCHANGED vars
  BY <1>27 DEF vars
<1> QED
  BY <1>1, <1>2, <1>3, <1>4, <1>5, <1>6, <1>7, <1>8, <1>9, <1>10, <1>11, <1>12, <1>13, <1>14,
     <1>15, <1>16, <1>17, <1>18, <1>19, <1>20, <1>21, <1>22, <1>23, <1>24, <1>25, <1>26, <1>27
  DEF Next, InitStep, CreateStep, DeleteStep, CtrlStep

\* Every step keeps the admin command that of the operation under way.
LEMMA CommandStep ==
  ASSUME IndInv, [Next]_vars
  PROVE  CommandInv'
<1> USE DeviceAssumption DEF IndInv, hostVars, ctrlVars,
       CommandInv, Command, Waiting, EnableInv, TypeInv, TypeOK, None, NoReq
<1>1. CASE init_allocate
  BY <1>1 DEF init_allocate, Allocate
<1>2. CASE init_no_memory
  BY <1>2 DEF init_no_memory, Allocate, Fault
<1>3. CASE init_disable
  BY <1>3 DEF init_disable
<1>4. CASE init_wait_off
  BY <1>4 DEF init_wait_off
<1>5. CASE init_admin_regs
  BY <1>5 DEF init_admin_regs
<1>6. CASE init_enable
  BY <1>6 DEF init_enable
<1>7. CASE init_wait_on
  BY <1>7 DEF init_wait_on, issue
<1>8. CASE init_cq_created
  BY <1>8 DEF init_cq_created, issue
<1>9. CASE init_sq_created
  BY <1>9 DEF init_sq_created, done
<1>10. CASE init_error
  BY <1>10 DEF init_error, done
<1>11. CASE create_io_queue_pair
  BY <1>11 DEF create_io_queue_pair, Allocate, issue
<1>12. CASE create_cq_created
  BY <1>12 DEF create_cq_created, Allocate, issue
<1>13. CASE create_sq_created
  BY <1>13 DEF create_sq_created, done
<1>14. CASE create_error
  BY <1>14 DEF create_error, done
<1>15. CASE create_no_memory
  BY <1>15 DEF create_no_memory, done, Fault
<1>16. CASE create_panics
  BY <1>16 DEF create_panics, die
<1>17. ASSUME NEW p \in pairs \cup failed, delete_io_queue_pair(p) PROVE CommandInv'
  BY <1>17 DEF delete_io_queue_pair, issue
<1>18. CASE delete_sq_deleted
  BY <1>18 DEF delete_sq_deleted, issue
<1>19. CASE delete_cq_deleted
  BY <1>19 DEF delete_cq_deleted, done
<1>20. CASE delete_unmap_fails
  BY <1>20 DEF delete_unmap_fails, done, Fault
<1>21. CASE delete_error
  BY <1>21 DEF delete_error, done
<1>22. CASE ctrl_reset
  BY <1>22 DEF ctrl_reset
<1>23. CASE ctrl_start
  BY <1>23 DEF ctrl_start
<1>24. CASE ctrl_execute
  BY <1>24 DEF ctrl_execute, Has, Without
<1>25. CASE ctrl_refuse
  BY <1>25 DEF ctrl_refuse, Fault
<1>26. CASE crash
  BY <1>26 DEF crash, die
<1>27. CASE UNCHANGED vars
  BY <1>27 DEF vars
<1> QED
  BY <1>1, <1>2, <1>3, <1>4, <1>5, <1>6, <1>7, <1>8, <1>9, <1>10, <1>11, <1>12, <1>13, <1>14,
     <1>15, <1>16, <1>17, <1>18, <1>19, <1>20, <1>21, <1>22, <1>23, <1>24, <1>25, <1>26, <1>27
  DEF Next, InitStep, CreateStep, DeleteStep, CtrlStep

\* Every step keeps the queue ids apart.
LEMMA IdStep ==
  ASSUME IndInv, [Next]_vars
  PROVE  IdInv'
<1> USE DeviceAssumption DEF IndInv, hostVars, ctrlVars,
       IdInv, InitPcs, Creating, Deleting, NoPair, TypeInv, TypeOK, Qids, PartialPairs
<1>1. CASE init_allocate
  BY <1>1 DEF init_allocate, Allocate
<1>2. CASE init_no_memory
  BY <1>2 DEF init_no_memory, Allocate, Fault
<1>3. CASE init_disable
  BY <1>3 DEF init_disable
<1>4. CASE init_wait_off
  BY <1>4 DEF init_wait_off
<1>5. CASE init_admin_regs
  BY <1>5 DEF init_admin_regs
<1>6. CASE init_enable
  BY <1>6 DEF init_enable
<1>7. CASE init_wait_on
  BY <1>7 DEF init_wait_on, issue
<1>8. CASE init_cq_created
  BY <1>8 DEF init_cq_created, issue
<1>9. CASE init_sq_created
  BY <1>9 DEF init_sq_created, done
<1>10. CASE init_error
  BY <1>10 DEF init_error, done
<1>11. CASE create_io_queue_pair
  BY <1>11 DEF create_io_queue_pair, Allocate, issue
<1>12. CASE create_cq_created
  BY <1>12 DEF create_cq_created, Allocate, issue
<1>13. CASE create_sq_created
  BY <1>13 DEF create_sq_created, done
<1>14. CASE create_error
  BY <1>14 DEF create_error, done
<1>15. CASE create_no_memory
  BY <1>15 DEF create_no_memory, done, Fault
<1>16. CASE create_panics
  BY <1>16 DEF create_panics, die
<1>17. ASSUME NEW p \in pairs \cup failed, delete_io_queue_pair(p) PROVE IdInv'
  BY <1>17 DEF delete_io_queue_pair, issue
<1>18. CASE delete_sq_deleted
  BY <1>18 DEF delete_sq_deleted, issue
<1>19. CASE delete_cq_deleted
  BY <1>19 DEF delete_cq_deleted, done
<1>20. CASE delete_unmap_fails
  BY <1>20 DEF delete_unmap_fails, done, Fault
<1>21. CASE delete_error
  BY <1>21 DEF delete_error, done
<1>22. CASE ctrl_reset
  BY <1>22 DEF ctrl_reset
<1>23. CASE ctrl_start
  BY <1>23 DEF ctrl_start
<1>24. CASE ctrl_execute
  BY <1>24 DEF ctrl_execute, Has, Without
<1>25. CASE ctrl_refuse
  BY <1>25 DEF ctrl_refuse, Fault
<1>26. CASE crash
  BY <1>26 DEF crash, die
<1>27. CASE UNCHANGED vars
  BY <1>27 DEF vars
<1> QED
  BY <1>1, <1>2, <1>3, <1>4, <1>5, <1>6, <1>7, <1>8, <1>9, <1>10, <1>11, <1>12, <1>13, <1>14,
     <1>15, <1>16, <1>17, <1>18, <1>19, <1>20, <1>21, <1>22, <1>23, <1>24, <1>25, <1>26, <1>27
  DEF Next, InitStep, CreateStep, DeleteStep, CtrlStep

\* Giving pairs up, or moving them between the sets, keeps regions apart.
LEMMA LiveShrinks ==
  ASSUME DisjointInv, Live' \subseteq Live \cup {NoPair},
         UNCHANGED <<last, admin, asq, acq>>
  PROVE  DisjointInv'
<1>1. Mem(NoPair) = {}
  BY DEF Mem, NoPair, None
<1> QED BY <1>1 DEF DisjointInv, Mem

\* Fresh regions for the pair under way keep regions apart.
LEMMA LiveGrows ==
  ASSUME DisjointInv, last \in Nat, last' \in Nat, last <= last',
         cur \notin pairs \cup failed \/ Mem(cur) = {},
         UNCHANGED <<pairs, failed, admin, asq, acq>>,
         Mem(cur') \subseteq Mem(cur) \cup (last + 1)..last'
  PROVE  DisjointInv'
<1>1. Live' = pairs \cup failed \cup {cur'}
  BY DEF Live
<1>2. \A p \in pairs \cup failed : Mem(p) \cap Mem(cur) = {} /\ Mem(p) \subseteq 1..last
  BY DEF DisjointInv, Live
<1>3. \A p \in pairs \cup failed : Mem(p) \cap Mem(cur') = {}
  BY <1>2 DEF Mem
<1>4. Mem(cur) \subseteq 1..last /\ Mem(cur) \cap {admin.sq, admin.cq, asq, acq} = {}
  BY DEF DisjointInv, Live
<1>5. Mem(cur') \subseteq 1..last' /\ Mem(cur') \cap {admin.sq, admin.cq, asq, acq} = {}
  BY <1>4 DEF DisjointInv, Mem
<1>6. /\ \A p \in pairs \cup failed : Mem(p) \subseteq 1..last'
      /\ \A p \in pairs \cup failed : Mem(p) \cap {admin.sq, admin.cq, asq, acq} = {}
      /\ \A p, q \in pairs \cup failed : p # q => Mem(p) \cap Mem(q) = {}
      /\ {admin.sq, admin.cq, asq, acq} \subseteq 0..last'
  BY DEF DisjointInv, Live
<1> QED BY <1>1, <1>3, <1>5, <1>6 DEF DisjointInv, Mem

\* Every step keeps the regions apart: allocations are fresh, everything else only
\* moves pairs about.
LEMMA DisjointStep ==
  ASSUME IndInv, [Next]_vars
  PROVE  DisjointInv'
<1> USE DeviceAssumption DEF IndInv, hostVars, ctrlVars
<1>t. last \in Nat /\ (pc \in {"none", "ready"} => Mem(cur) = {})
  BY DEF TypeInv, TypeOK, Regions, None, MappedInv, Mem, NoPair
<1>1. CASE init_allocate
  BY <1>1, <1>t DEF init_allocate, Allocate, DisjointInv, Live, Mem, MappedInv, IdInv, InitPcs
<1>2. CASE init_no_memory
  <2>1. last' \in Nat /\ last <= last'
    BY <1>2, <1>t DEF init_no_memory, Allocate
  <2> QED BY <1>2, <2>1, <1>t, LiveGrows DEF init_no_memory, Mem
<1>3. CASE init_disable
  BY <1>3, <1>t DEF init_disable, DisjointInv, Live, Mem, MappedInv
<1>4. CASE init_wait_off
  BY <1>4, <1>t DEF init_wait_off, DisjointInv, Live, Mem, MappedInv
<1>5. CASE init_admin_regs
  BY <1>5, <1>t DEF init_admin_regs, DisjointInv, Live, Mem, MappedInv
<1>6. CASE init_enable
  BY <1>6, <1>t DEF init_enable, DisjointInv, Live, Mem, MappedInv
<1>7. CASE init_wait_on
  BY <1>7, <1>t DEF init_wait_on, issue, DisjointInv, Live, Mem, MappedInv
<1>8. CASE init_cq_created
  BY <1>8, <1>t DEF init_cq_created, issue, DisjointInv, Live, Mem, MappedInv
<1>9. CASE init_sq_created
  BY <1>9, LiveShrinks DEF init_sq_created, done, Live
<1>10. CASE init_error
  BY <1>10, LiveShrinks DEF init_error, done, Live
<1>11. CASE create_io_queue_pair
  <2>1. last' = last + 1 /\ Mem(cur') \subseteq {last + 1}
    BY <1>11 DEF create_io_queue_pair, Allocate, Mem
  <2> QED BY <1>11, <2>1, <1>t, LiveGrows DEF create_io_queue_pair
<1>12. CASE create_cq_created
  <2>1. last' = last + 1 /\ Mem(cur') \subseteq Mem(cur) \cup {last + 1}
    BY <1>12 DEF create_cq_created, Allocate, Mem, TypeInv, TypeOK, PartialPairs
  <2>2. cur \notin pairs \cup failed
    BY <1>12 DEF create_cq_created, IdInv, Creating, TypeInv, TypeOK, Qids
  <2> QED BY <1>12, <2>1, <2>2, <1>t, LiveGrows DEF create_cq_created
<1>13. CASE create_sq_created
  BY <1>13, LiveShrinks DEF create_sq_created, done, Live
<1>14. CASE create_error
  BY <1>14, LiveShrinks DEF create_error, done, Live
<1>15. CASE create_no_memory
  BY <1>15, LiveShrinks DEF create_no_memory, done, Fault, Live
<1>16. CASE create_panics
  BY <1>16, LiveShrinks DEF create_panics, die, Live
<1>17. ASSUME NEW p \in pairs \cup failed, delete_io_queue_pair(p) PROVE DisjointInv'
  BY <1>17, LiveShrinks DEF delete_io_queue_pair, issue, Live
<1>18. CASE delete_sq_deleted
  BY <1>18, <1>t DEF delete_sq_deleted, issue, DisjointInv, Live, Mem, MappedInv
<1>19. CASE delete_cq_deleted
  BY <1>19, LiveShrinks DEF delete_cq_deleted, done, Live
<1>20. CASE delete_unmap_fails
  BY <1>20, LiveShrinks DEF delete_unmap_fails, done, Fault, Live
<1>21. CASE delete_error
  BY <1>21, LiveShrinks DEF delete_error, done, Live
<1>22. CASE ctrl_reset
  BY <1>22, <1>t DEF ctrl_reset, DisjointInv, Live, Mem, MappedInv
<1>23. CASE ctrl_start
  BY <1>23, <1>t DEF ctrl_start, DisjointInv, Live, Mem, MappedInv
<1>24. CASE ctrl_execute
  BY <1>24, <1>t DEF ctrl_execute, Has, Without, DisjointInv, Live, Mem, MappedInv
<1>25. CASE ctrl_refuse
  BY <1>25, <1>t DEF ctrl_refuse, Fault, DisjointInv, Live, Mem, MappedInv
<1>26. CASE crash
  BY <1>26, LiveShrinks DEF crash, die, Live
<1>27. CASE UNCHANGED vars
  BY <1>27, <1>t DEF vars, DisjointInv, Live, Mem, MappedInv
<1> QED
  BY <1>1, <1>2, <1>3, <1>4, <1>5, <1>6, <1>7, <1>8, <1>9, <1>10, <1>11, <1>12, <1>13, <1>14,
     <1>15, <1>16, <1>17, <1>18, <1>19, <1>20, <1>21, <1>22, <1>23, <1>24, <1>25, <1>26, <1>27
  DEF Next, InitStep, CreateStep, DeleteStep, CtrlStep

\* When both queues of a pair are deleted nothing else lies in its memory: not
\* the other queues, not the other pairs, not the admin queues.
LEMMA FreedUnused ==
  ASSUME IndInv, pc = "delete_cq", resp = "ok"
  PROVE  LET kept == mapped \ {cur.sq, cur.cq}
         IN  /\ \A q \in sqs \cup cqs : q.mem \in kept
             /\ \A p \in pairs : p.sq \in kept /\ p.cq \in kept
             /\ {admin.sq, admin.cq, asq, acq} \subseteq kept
<1> USE DEF IndInv
<1>1. owned /\ rdy /\ None \notin mapped
  BY DEF EnableInv, MappedInv, None
<1>2. \A q \in sqs \cup cqs : q.mem \in mapped /\ q.mem \notin Mem(cur)
  BY <1>1 DEF QueueInv, ProgressInv, Has, Live
<1>3. \A p \in pairs : p # cur /\ p.sq \in mapped /\ p.cq \in mapped
  BY DEF IdInv, Deleting, ProgressInv, Backed
<1>4. \A p \in pairs : Mem(p) \cap Mem(cur) = {}
  BY <1>3 DEF DisjointInv, Live
<1>5. {admin.sq, admin.cq, asq, acq} \subseteq mapped
  BY <1>1 DEF MappedInv, QueueInv
<1>6. {admin.sq, admin.cq, asq, acq} \cap Mem(cur) = {}
  BY DEF DisjointInv, Live
<1> QED BY <1>1, <1>2, <1>3, <1>4, <1>5, <1>6 DEF Mem

\* Every step keeps mapped what the operation under way needs.
LEMMA MappedStep ==
  ASSUME IndInv, [Next]_vars
  PROVE  MappedInv'
<1> USE DeviceAssumption DEF IndInv, hostVars, ctrlVars,
       MappedInv, InitPcs, Creating, NoPair, TypeInv, TypeOK, Regions, None
<1>1. CASE init_allocate
  BY <1>1 DEF init_allocate, Allocate
<1>2. CASE init_no_memory
  BY <1>2 DEF init_no_memory, Allocate, Fault
<1>3. CASE init_disable
  BY <1>3 DEF init_disable
<1>4. CASE init_wait_off
  BY <1>4 DEF init_wait_off
<1>5. CASE init_admin_regs
  BY <1>5 DEF init_admin_regs
<1>6. CASE init_enable
  BY <1>6 DEF init_enable
<1>7. CASE init_wait_on
  BY <1>7 DEF init_wait_on, issue
<1>8. CASE init_cq_created
  BY <1>8 DEF init_cq_created, issue
<1>9. CASE init_sq_created
  BY <1>9 DEF init_sq_created, done
<1>10. CASE init_error
  BY <1>10 DEF init_error, done
<1>11. CASE create_io_queue_pair
  BY <1>11 DEF create_io_queue_pair, Allocate, issue
<1>12. CASE create_cq_created
  <2>1. last \in Nat /\ last' = last + 1 /\ mapped' = mapped \cup {last + 1}
    BY <1>12 DEF create_cq_created, Allocate
  <2>2. cur'.sq = last + 1 /\ cur'.cq = cur.cq
    BY <1>12 DEF create_cq_created, PartialPairs
  <2> QED BY <1>12, <2>1, <2>2 DEF create_cq_created
<1>13. CASE create_sq_created
  BY <1>13 DEF create_sq_created, done
<1>14. CASE create_error
  BY <1>14 DEF create_error, done
<1>15. CASE create_no_memory
  BY <1>15 DEF create_no_memory, done, Fault
<1>16. CASE create_panics
  BY <1>16 DEF create_panics, die
<1>17. ASSUME NEW p \in pairs \cup failed, delete_io_queue_pair(p) PROVE MappedInv'
  BY <1>17 DEF delete_io_queue_pair, issue
<1>18. CASE delete_sq_deleted
  BY <1>18 DEF delete_sq_deleted, issue
<1>19. CASE delete_cq_deleted
  BY <1>19, FreedUnused DEF delete_cq_deleted, done
<1>20. CASE delete_unmap_fails
  BY <1>20, FreedUnused DEF delete_unmap_fails, done
<1>21. CASE delete_error
  BY <1>21 DEF delete_error, done
<1>22. CASE ctrl_reset
  BY <1>22 DEF ctrl_reset
<1>23. CASE ctrl_start
  BY <1>23 DEF ctrl_start
<1>24. CASE ctrl_execute
  BY <1>24 DEF ctrl_execute, Has, Without
<1>25. CASE ctrl_refuse
  BY <1>25 DEF ctrl_refuse, Fault
<1>26. CASE crash
  BY <1>26 DEF crash, die
<1>27. CASE UNCHANGED vars
  BY <1>27 DEF vars
<1> QED
  BY <1>1, <1>2, <1>3, <1>4, <1>5, <1>6, <1>7, <1>8, <1>9, <1>10, <1>11, <1>12, <1>13, <1>14,
     <1>15, <1>16, <1>17, <1>18, <1>19, <1>20, <1>21, <1>22, <1>23, <1>24, <1>25, <1>26, <1>27
  DEF Next, InitStep, CreateStep, DeleteStep, CtrlStep

\* A command that is executed for a process that owns the controller is the one
\* of its operation under way; otherwise there are no pairs.
LEMMA Executed ==
  ASSUME IndInv, req # NoReq
  PROVE  /\ owned => Waiting /\ req = Command
         /\ ~owned => pairs = {} /\ ~Waiting
BY DEF IndInv, CommandInv, EnableInv, Waiting, IdInv, InitPcs

\* Every step keeps the queues in mapped memory, each in memory of its own pair.
LEMMA QueueStep ==
  ASSUME IndInv, [Next]_vars
  PROVE  QueueInv'
<1> USE DeviceAssumption DEF IndInv, hostVars, ctrlVars, QueueInv
<1>1. CASE init_allocate
  BY <1>1 DEF init_allocate, Allocate, Live, Mem, EnableInv, MappedInv, DisjointInv, NoPair, None, TypeInv, TypeOK, Regions
<1>2. CASE init_no_memory
  BY <1>2 DEF init_no_memory, Allocate, Fault, Live, Mem, EnableInv, MappedInv, DisjointInv, NoPair, None, TypeInv, TypeOK, Regions
<1>3. CASE init_disable
  BY <1>3 DEF init_disable, Live, Mem, EnableInv, MappedInv, DisjointInv, NoPair, None, TypeInv, TypeOK, Regions
<1>4. CASE init_wait_off
  BY <1>4 DEF init_wait_off, Live, Mem, EnableInv, MappedInv, DisjointInv, NoPair, None, TypeInv, TypeOK, Regions
<1>5. CASE init_admin_regs
  BY <1>5 DEF init_admin_regs, Live, Mem, EnableInv, MappedInv, DisjointInv, NoPair, None, TypeInv, TypeOK, Regions
<1>6. CASE init_enable
  BY <1>6 DEF init_enable, Live, Mem, EnableInv, MappedInv, DisjointInv, NoPair, None, TypeInv, TypeOK, Regions
<1>7. CASE init_wait_on
  BY <1>7 DEF init_wait_on, issue, Live, Mem, EnableInv, MappedInv, DisjointInv, NoPair, None, TypeInv, TypeOK, Regions
<1>8. CASE init_cq_created
  BY <1>8 DEF init_cq_created, issue, Live, Mem, EnableInv, MappedInv, DisjointInv, NoPair, None, TypeInv, TypeOK, Regions
<1>9. CASE init_sq_created
  BY <1>9 DEF init_sq_created, done, Live, Mem, EnableInv, MappedInv, DisjointInv, NoPair, None, TypeInv, TypeOK, Regions
<1>10. CASE init_error
  BY <1>10 DEF init_error, done, Live, Mem, EnableInv, MappedInv, DisjointInv, NoPair, None, TypeInv, TypeOK, Regions
<1>11. CASE create_io_queue_pair
  BY <1>11 DEF create_io_queue_pair, Allocate, issue, Live, Mem, EnableInv, MappedInv, DisjointInv, NoPair, None, TypeInv, TypeOK, Regions
<1>12. CASE create_cq_created
  <2>1. last \in Nat /\ mapped \subseteq mapped' /\ mapped \subseteq 1..last
    BY <1>12 DEF create_cq_created, Allocate, TypeInv, TypeOK, Regions, None, MappedInv
  <2>2. Mem(cur') \subseteq Mem(cur) \cup {last + 1} /\ cur'.id = cur.id
    BY <1>12 DEF create_cq_created, Mem, TypeInv, TypeOK, PartialPairs
  <2>3. Live' = pairs \cup failed \cup {cur'}
    BY <1>12 DEF create_cq_created, Live
  <2>4. owned => \A q \in sqs \cup cqs, p \in Live' : q.mem \in Mem(p) => q.qid = p.id
    BY <2>1, <2>2, <2>3 DEF Live
  <2> QED BY <1>12, <2>1, <2>4 DEF create_cq_created, Mem
<1>13. CASE create_sq_created
  BY <1>13 DEF create_sq_created, done, Live, Mem, EnableInv, MappedInv, DisjointInv, NoPair, None, TypeInv, TypeOK, Regions
<1>14. CASE create_error
  BY <1>14 DEF create_error, done, Live, Mem, EnableInv, MappedInv, DisjointInv, NoPair, None, TypeInv, TypeOK, Regions
<1>15. CASE create_no_memory
  BY <1>15 DEF create_no_memory, done, Fault, Live, Mem, EnableInv, MappedInv, DisjointInv, NoPair, None, TypeInv, TypeOK, Regions
<1>16. CASE create_panics
  BY <1>16 DEF create_panics, die, Live, Mem, EnableInv, MappedInv, DisjointInv, NoPair, None, TypeInv, TypeOK, Regions
<1>17. ASSUME NEW p \in pairs \cup failed, delete_io_queue_pair(p) PROVE QueueInv'
  BY <1>17 DEF delete_io_queue_pair, issue, Live, Mem, EnableInv, MappedInv, DisjointInv, NoPair, None, TypeInv, TypeOK, Regions
<1>18. CASE delete_sq_deleted
  BY <1>18 DEF delete_sq_deleted, issue, Live, Mem, EnableInv, MappedInv, DisjointInv, NoPair, None, TypeInv, TypeOK, Regions
<1>19. CASE delete_cq_deleted
  <2>1. Live' \subseteq Live \cup {NoPair} /\ Mem(NoPair) = {}
    BY <1>19 DEF delete_cq_deleted, Live, Mem, NoPair, None
  <2> QED BY <1>19, <2>1, FreedUnused DEF delete_cq_deleted, done
<1>20. CASE delete_unmap_fails
  <2>1. Live' \subseteq Live \cup {NoPair} /\ Mem(NoPair) = {}
    BY <1>20 DEF delete_unmap_fails, Live, Mem, NoPair, None
  <2>2. mapped \ {cur.sq, cur.cq} \subseteq mapped'
    BY <1>20 DEF delete_unmap_fails
  <2> QED BY <1>20, <2>1, <2>2, FreedUnused DEF delete_unmap_fails, done
<1>21. CASE delete_error
  BY <1>21 DEF delete_error, done, Live, Mem, EnableInv, MappedInv, DisjointInv, NoPair, None, TypeInv, TypeOK, Regions
<1>22. CASE ctrl_reset
  BY <1>22 DEF ctrl_reset, Live, Mem, EnableInv, MappedInv, DisjointInv, NoPair, None, TypeInv, TypeOK, Regions
<1>23. CASE ctrl_start
  BY <1>23 DEF ctrl_start, Live, Mem, EnableInv, MappedInv, DisjointInv, NoPair, None, TypeInv, TypeOK, Regions
<1>24. CASE ctrl_execute
  <2> SUFFICES ASSUME owned PROVE QueueInv'
    BY <1>24 DEF ctrl_execute
  <2>1. Waiting /\ req = Command
    BY <1>24, Executed DEF ctrl_execute
  <2>2. \A q \in (sqs \cup cqs)' : \/ q \in sqs \cup cqs
                                   \/ q.qid = cur.id /\ q.mem \in Mem(cur) \cap mapped
    BY <1>24, <2>1 DEF ctrl_execute, Command, Waiting, Without, MappedInv, InitPcs, Creating,
       Mem, None
  <2>3. \A p \in Live : Mem(p) \cap Mem(cur) # {} => p = cur
    BY DEF DisjointInv, Live
  <2> QED BY <1>24, <2>2, <2>3 DEF ctrl_execute, Live
<1>25. CASE ctrl_refuse
  BY <1>25 DEF ctrl_refuse, Fault, Live, Mem, EnableInv, MappedInv, DisjointInv, NoPair, None, TypeInv, TypeOK, Regions
<1>26. CASE crash
  BY <1>26 DEF crash, die, Live, Mem, EnableInv, MappedInv, DisjointInv, NoPair, None, TypeInv, TypeOK, Regions
<1>27. CASE UNCHANGED vars
  BY <1>27 DEF vars, Live, Mem, EnableInv, MappedInv, DisjointInv, NoPair, None, TypeInv, TypeOK, Regions
<1> QED
  BY <1>1, <1>2, <1>3, <1>4, <1>5, <1>6, <1>7, <1>8, <1>9, <1>10, <1>11, <1>12, <1>13, <1>14,
     <1>15, <1>16, <1>17, <1>18, <1>19, <1>20, <1>21, <1>22, <1>23, <1>24, <1>25, <1>26, <1>27
  DEF Next, InitStep, CreateStep, DeleteStep, CtrlStep

\* Every step keeps the pairs backed by their queues, and the pair under way as far
\* as its operation has got.
LEMMA ProgressStep ==
  ASSUME IndInv, [Next]_vars
  PROVE  ProgressInv'
<1> USE DeviceAssumption DEF IndInv, hostVars, ctrlVars, ProgressInv, Backed
<1>1. CASE init_allocate
  BY <1>1 DEF init_allocate, Allocate, CommandInv, Waiting, IdInv, InitPcs, EnableInv, Creating
<1>2. CASE init_no_memory
  BY <1>2 DEF init_no_memory, Allocate, Fault, CommandInv, Waiting, IdInv, InitPcs, EnableInv, Creating
<1>3. CASE init_disable
  BY <1>3 DEF init_disable, CommandInv, Waiting, IdInv, InitPcs, EnableInv, Creating
<1>4. CASE init_wait_off
  BY <1>4 DEF init_wait_off, CommandInv, Waiting, IdInv, InitPcs, EnableInv, Creating
<1>5. CASE init_admin_regs
  BY <1>5 DEF init_admin_regs, CommandInv, Waiting, IdInv, InitPcs, EnableInv, Creating
<1>6. CASE init_enable
  BY <1>6 DEF init_enable, CommandInv, Waiting, IdInv, InitPcs, EnableInv, Creating
<1>7. CASE init_wait_on
  BY <1>7 DEF init_wait_on, issue, CommandInv, Waiting, IdInv, InitPcs, EnableInv, Creating
<1>8. CASE init_cq_created
  BY <1>8 DEF init_cq_created, issue, CommandInv, Waiting, IdInv, InitPcs, EnableInv, Creating
<1>9. CASE init_sq_created
  BY <1>9 DEF init_sq_created, done, CommandInv, Waiting, IdInv, InitPcs, EnableInv, Creating
<1>10. CASE init_error
  BY <1>10 DEF init_error, done, CommandInv, Waiting, IdInv, InitPcs, EnableInv, Creating
<1>11. CASE create_io_queue_pair
  BY <1>11 DEF create_io_queue_pair, Allocate, issue, CommandInv, Waiting, IdInv, InitPcs, EnableInv, Creating
<1>12. CASE create_cq_created
  BY <1>12 DEF create_cq_created, Allocate, issue, CommandInv, Waiting, IdInv, InitPcs, EnableInv, Creating
<1>13. CASE create_sq_created
  BY <1>13 DEF create_sq_created, done, MappedInv, Creating
<1>14. CASE create_error
  BY <1>14 DEF create_error, done, CommandInv, Waiting, IdInv, InitPcs, EnableInv, Creating
<1>15. CASE create_no_memory
  BY <1>15 DEF create_no_memory, done, Fault, CommandInv, Waiting, IdInv, InitPcs, EnableInv, Creating
<1>16. CASE create_panics
  BY <1>16 DEF create_panics, die, CommandInv, Waiting, IdInv, InitPcs, EnableInv, Creating
<1>17. ASSUME NEW p \in pairs \cup failed, delete_io_queue_pair(p) PROVE ProgressInv'
  BY <1>17 DEF delete_io_queue_pair, issue, CommandInv, Waiting, IdInv, InitPcs, EnableInv, Creating
<1>18. CASE delete_sq_deleted
  BY <1>18 DEF delete_sq_deleted, issue, CommandInv, Waiting, IdInv, InitPcs, EnableInv, Creating
<1>19. CASE delete_cq_deleted
  BY <1>19, FreedUnused DEF delete_cq_deleted, done
<1>20. CASE delete_unmap_fails
  BY <1>20, FreedUnused DEF delete_unmap_fails, done
<1>21. CASE delete_error
  BY <1>21 DEF delete_error, done, CommandInv, Waiting, IdInv, InitPcs, EnableInv, Creating
<1>22. CASE ctrl_reset
  BY <1>22 DEF ctrl_reset, CommandInv, Waiting, IdInv, InitPcs, EnableInv, Creating
<1>23. CASE ctrl_start
  BY <1>23 DEF ctrl_start, CommandInv, Waiting, IdInv, InitPcs, EnableInv, Creating
<1>24. CASE ctrl_execute
  <2>1. CASE ~owned
    BY <1>24, <2>1, Executed DEF ctrl_execute, Waiting
  <2>2. CASE owned
    <3>1. Waiting /\ req = Command
      BY <1>24, <2>2, Executed DEF ctrl_execute
    <3>2. \A p \in pairs : p.id # cur.id
      BY <3>1 DEF IdInv, InitPcs, Waiting, Creating, Deleting, TypeInv, TypeOK, Qids
    <3>3. \A p \in pairs : Backed(p)'
      BY <1>24, <3>1, <3>2 DEF ctrl_execute, Command, Waiting, Without
    <3>4. pc = "create_cq" => [qid |-> cur.id, mem |-> cur.cq] \in cqs'
      BY <1>24, <3>1 DEF ctrl_execute, Command
    <3>5. pc = "create_sq" => /\ [qid |-> cur.id, mem |-> cur.cq] \in cqs'
                              /\ [qid |-> cur.id, mem |-> cur.sq] \in sqs'
      BY <1>24, <3>1 DEF ctrl_execute, Command
    <3>6. pc = "delete_cq" => ~Has(sqs', cur.id) /\ ~Has(cqs', cur.id)
      BY <1>24, <3>1 DEF ctrl_execute, Command, Valid, Has, Without
    <3> QED BY <1>24, <3>3, <3>4, <3>5, <3>6 DEF ctrl_execute, Has
  <2> QED BY <2>1, <2>2
<1>25. CASE ctrl_refuse
  BY <1>25 DEF ctrl_refuse, Fault, CommandInv, Waiting, IdInv, InitPcs, EnableInv, Creating
<1>26. CASE crash
  BY <1>26 DEF crash, die, CommandInv, Waiting, IdInv, InitPcs, EnableInv, Creating
<1>27. CASE UNCHANGED vars
  BY <1>27 DEF vars, CommandInv, Waiting, IdInv, InitPcs, EnableInv, Creating
<1> QED
  BY <1>1, <1>2, <1>3, <1>4, <1>5, <1>6, <1>7, <1>8, <1>9, <1>10, <1>11, <1>12, <1>13, <1>14,
     <1>15, <1>16, <1>17, <1>18, <1>19, <1>20, <1>21, <1>22, <1>23, <1>24, <1>25, <1>26, <1>27
  DEF Next, InitStep, CreateStep, DeleteStep, CtrlStep

\* The initial states satisfy the invariant: nothing is allocated, and what the
\* controller still has is not this process's.
LEMMA InitInv == Init => IndInv
<1> SUFFICES ASSUME Init PROVE IndInv
  OBVIOUS
<1> USE DeviceAssumption DEF Init, NoPair, None
<1>1. TypeInv
  <2>1. sqs \subseteq Queues /\ cqs \subseteq Queues
    BY DEF Queues, Qids
  <2>2. en \in BOOLEAN /\ rdy \in BOOLEAN /\ owned \in BOOLEAN
    OBVIOUS
  <2> QED BY <2>1, <2>2 DEF TypeInv, TypeOK, PartialPairs, NoReq, Qids, Regions, Ops
<1>2. EnableInv /\ CommandInv /\ QueueInv /\ ProgressInv
  BY DEF EnableInv, CommandInv, Waiting, QueueInv, ProgressInv
<1>3. IdInv /\ DisjointInv /\ MappedInv
  BY DEF IdInv, InitPcs, Creating, Deleting, DisjointInv, MappedInv, Live, Mem
<1> QED BY <1>1, <1>2, <1>3 DEF IndInv

\* The invariant holds in every reachable state.
THEOREM Invariance == Spec => []IndInv
<1>1. IndInv /\ [Next]_vars => IndInv'
  BY TypeStep, EnableStep, CommandStep, IdStep, DisjointStep, MappedStep, QueueStep,
     ProgressStep DEF IndInv
<1> QED BY <1>1, InitInv, PTL DEF Spec

\* Type correctness of the bring-up and of the queue management, for every number
\* of queues, faults, crashes and regions.
THEOREM TypeCorrect == Spec => []TypeOK
<1>1. IndInv => TypeOK
  BY DEF IndInv, TypeInv
<1> QED BY <1>1, Invariance, PTL

\* Once a process has reset the controller (init), the controller holds on to no
\* memory that is not mapped, whatever create_io_queue_pair and
\* delete_io_queue_pair fail at, and whatever a dead predecessor left behind.
THEOREM CtrlMemoryIsMapped == Spec => []CtrlMemoryMapped
<1>1. IndInv => CtrlMemoryMapped
  BY DEF IndInv, QueueInv, CtrlMemoryMapped, CtrlMemory
<1> QED BY <1>1, Invariance, PTL

\* Every queue pair that create_io_queue_pair returned, and that no
\* delete_io_queue_pair was called for, is backed by its two queues, in memory
\* that no other pair uses.
THEOREM PairsAreBacked == Spec => []PairsBacked
<1>1. ASSUME IndInv PROVE PairsBacked
  <2>1. \A p \in pairs : p.id # 1 /\ Backed(p)
    BY <1>1 DEF IndInv, IdInv, ProgressInv
  <2>2. 0 \notin mapped
    BY <1>1 DEF IndInv, MappedInv
  <2>3. \A p \in pairs : None \notin {p.sq, p.cq}
    BY <2>1, <2>2 DEF Backed, None
  <2>4. \A p, q \in pairs : p # q => p.id # q.id /\ Mem(p) \cap Mem(q) = {}
    BY <1>1 DEF IndInv, IdInv, DisjointInv, Live
  <2> QED BY <2>1, <2>3, <2>4 DEF PairsBacked, Backed, Mem
<1> QED BY <1>1, Invariance, PTL

\* init writes the admin queue registers only while the controller is not ready:
\* it has waited for CSTS.RDY to be cleared, and nothing sets it in between.
THEOREM AdminRegsAreStable == Spec => AdminRegsStable
<1>1. IndInv /\ [Next]_vars => [rdy => UNCHANGED <<asq, acq>>]_vars
  BY DEF IndInv, EnableInv, Next, InitStep, CreateStep, DeleteStep, CtrlStep,
     init_allocate, init_no_memory, init_disable, init_wait_off, init_admin_regs,
     init_enable, init_wait_on, init_cq_created, init_sq_created, init_error,
     create_io_queue_pair, create_cq_created, create_sq_created, create_error,
     create_no_memory, create_panics, delete_io_queue_pair, delete_sq_deleted,
     delete_cq_deleted, delete_unmap_fails, delete_error, ctrl_reset, ctrl_start,
     ctrl_execute, ctrl_refuse, crash, die, ctrlVars
<1> QED BY <1>1, Invariance, PTL DEF Spec, AdminRegsStable
==============================================================================
