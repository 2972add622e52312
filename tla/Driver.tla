-------------------------------- MODULE Driver --------------------------------
(***************************************************************************)
(* vroom::init_with_page_size: the class of the PCI device, the memory     *)
(* access (DeviceAccess), the controller (NvmeDevice::init, here one step: *)
(* it is the subject of NvmeDevice), and its namespaces (Namespaces).      *)
(* Several threads bring up devices at the same time.                      *)
(***************************************************************************)
EXTENDS DeviceAccess, Namespaces

CONSTANT IommufdUsers   \* threads that call Vfio::init_with_args themselves

\* The iommufd way in checks no class: its callers know vfio0 for a controller.
ASSUME DriverAssumption ==
  /\ Controllers \subseteq Devices /\ IommufdUsers \subseteq Threads
  /\ IommufdUsers # {} => Vfio0 \in Controllers

driverVars == <<accessVars, nsVars>>

DriverInit == AccessInit /\ NsInit

\* A device of another class is rejected before anything is touched.
start(t) ==
  /\ \/ \E d \in Controllers, page \in Pages : init_with_page_size(t, d, page)
     \/ \E d \in Devices \ Controllers : begin(t, d, "idle", "setup")
     \/ t \in IommufdUsers /\ init_iommufd(t)
  /\ UNCHANGED nsVars

access(t) == AccessStep(t, "nvme") /\ UNCHANGED nsVars

\* The rest of NvmeDevice::init.
nvme_init(t) ==
  /\ At(t, "nvme")
  /\ \/ /\ fresh_device(th[t].dev)
        /\ Goto(t, "identify")
        /\ UNCHANGED <<mutex, objects, refusals>>
     \/ /\ fail(t, "refused")
        /\ objects' = Dropped(th[t].dev)
        /\ UNCHANGED nsVars
  /\ UNCHANGED <<kernelVars, shareVars, taken, inits>>

\* identify_controller_print, identify_namespace_list(0), and each namespace.
identify(t) ==
  /\ At(t, "identify")
  /\ NsBringUp(th[t].dev)
  /\ UNCHANGED accessVars

identified(t) ==
  /\ At(t, "identify")
  /\ \/ /\ stage[th[t].dev] = "ready"
        /\ Goto(t, "idle")
        /\ UNCHANGED objects
     \/ /\ stage[th[t].dev] = "error"
        /\ th' = [th EXCEPT ![t].at = "idle", ![t].why = "refused"]
        /\ objects' = Dropped(th[t].dev)
  /\ UNCHANGED <<kernelVars, shareVars, mutex, taken, inits, refusals, nsVars>>

InUse(d) == stage[d] = "ready" /\ \A t \in Threads : th[t].dev = d => At(t, "idle")

use(d) == InUse(d) /\ NsUse(d) /\ UNCHANGED accessVars

\* The caller drops the NvmeDevice.  No type implements Drop: the memory, the
\* descriptors and the state of the kernel stay.
drop_device(d) ==
  /\ InUse(d)
  /\ Enter(d, "none")
  /\ objects' = Dropped(d)
  /\ UNCHANGED <<kernelVars, shareVars, mutex, th, taken, inits, refusals,
                 ctrl, buffer, namespaces, todo, doubtful, denied, denials, uses>>

ThreadStep(t) == access(t) \/ nvme_init(t) \/ identify(t) \/ identified(t)

DriverNext ==
  \/ \E t \in Threads : start(t) \/ ThreadStep(t)
  \/ \E d \in Controllers : use(d) \/ drop_device(d)

\* A thread goes on with the call it is in.
DriverSpec ==
  DriverInit /\ [][DriverNext]_driverVars /\ \A t \in Threads : WF_driverVars(ThreadStep(t))
-----------------------------------------------------------------------------
\* The variables of the composition have their types.
TypeOK == AccessTypeOK /\ NsTypeOK

\* Every initialisation ends: the mutex, which is held over all the system
\* calls, is given back on every path.
InitReturns ==
  \A t \in Threads : ~At(t, "idle") ~> At(t, "idle")
==============================================================================
