----------------------------- MODULE DeviceAccess -----------------------------
(***************************************************************************)
(* How a process gets hold of a device: MemoryAccess::init_with_page_size, *)
(* Vfio::init_with_args (a group and a container, or iommufd) and          *)
(* Physical::init_with_args.  Several threads may be at it; they share the *)
(* map of group descriptors behind a mutex, IOVA_WIDTH, and the kernel.    *)
(*                                                                         *)
(* The kernel is modelled by what the calls rely on: a group can be opened *)
(* once and excludes iommufd, is attached to one container, and a          *)
(* container accepts an IOMMU once, and only if it has a group.  The code  *)
(* closes no descriptor, whatever fails.                                   *)
(***************************************************************************)
EXTENDS Integers, FiniteSets

CONSTANTS
  Threads,
  Devices,
  NoThread,      \* nobody holds the mutex
  iommu_group,   \* device -> its group, for the devices that have one
  Width,         \* device -> width of its IOMMU, for those from Intel
  Viable,        \* groups whose devices are all bound to VFIO
  Stub,          \* devices bound to pci-stub
  Vfio0,         \* the device behind /dev/vfio/devices/vfio0
  Pages,         \* page sizes asked for
  MaxInits,      \* bound: initialisations in one behaviour
  MaxRefusals    \* bound: requests the kernel or the controller refuses

Groups == {iommu_group[d] : d \in DOMAIN iommu_group}
is_enabled(d) == d \in DOMAIN iommu_group

ASSUME AccessAssumption ==
  /\ NoThread \notin Threads
  /\ DOMAIN iommu_group \subseteq Devices /\ DOMAIN Width \subseteq Devices
  /\ \A d \in DOMAIN Width : Width[d] \in 1..64
  /\ Viable \subseteq Groups /\ Stub \subseteq Devices
  /\ Vfio0 \in DOMAIN iommu_group
  /\ Pages \subseteq {"4K", "2M", "1G"}
  /\ MaxInits \in Nat /\ MaxRefusals \in Nat

X86_VA_WIDTH == 47
NoSpace == 0     \* a container, or an I/O address space, is a number from 1 on

VARIABLES
  gfds,        \* VFIO_GROUP_FILE_DESCRIPTORS: groups whose descriptor is kept
  mutex,       \* the thread that holds its lock
  IOVA_WIDTH,
  opened,      \* kernel: groups that are open
  attached,    \* kernel: group -> its container
  iommuOn,     \* kernel: containers with an IOMMU
  bound,       \* kernel: device bound to an iommufd -> its address space
  command,     \* kernel: device -> bits set in its PCI command register
  th,          \* thread -> its call: [at, dev, space, why]
  objects,     \* the Vfio and Physical objects in use: [dev, mode, space]
  taken,       \* history: group -> the space of the call that took it
  inits, refusals

kernelVars == <<opened, attached, iommuOn, bound, command>>
shareVars == <<gfds, IOVA_WIDTH>>
accessVars == <<kernelVars, shareVars, mutex, th, objects, taken, inits, refusals>>

AccessInit ==
  /\ gfds = {} /\ mutex = NoThread /\ IOVA_WIDTH = X86_VA_WIDTH
  /\ opened = {} /\ attached = [g \in Groups |-> NoSpace]
  /\ iommuOn = {} /\ bound = [d \in {} |-> NoSpace]
  /\ command = [d \in Devices |-> {}]
  /\ th = [t \in Threads |-> [at |-> "idle", dev |-> Vfio0, space |-> NoSpace,
                              why |-> "none"]]
  /\ objects = {} /\ taken = [g \in Groups |-> NoSpace]
  /\ inits = 0 /\ refusals = 0

At(t, place) == th[t].at = place
group(t) == iommu_group[th[t].dev]
Goto(t, place) == th' = [th EXCEPT ![t].at = place]

(***************************************************************************)
(* Returning: the lock guard, if there is one, goes out of scope.          *)
(***************************************************************************)
\* Faulty variant, for mutation runs: an error return keeps the lock.
unlock_kept(t) == UNCHANGED mutex
unlock(t) == mutex' = IF mutex = t THEN NoThread ELSE mutex

\* An error.  "refused": the kernel refused what it may well grant; "setup":
\* the machine is not set up; "busy": the kernel cannot grant it any more.
fail(t, why) ==
  /\ th' = [th EXCEPT ![t].at = "idle", ![t].why = why]
  /\ IF why = "refused"
     THEN refusals < MaxRefusals /\ refusals' = refusals + 1
     ELSE UNCHANGED refusals
  /\ unlock(t)

\* The object is handed to the caller, who maps the device's registers next.
hand_out(t, mode) ==
  /\ objects' = objects \cup {[dev |-> th[t].dev, mode |-> mode, space |-> th[t].space]}
  /\ Goto(t, "resource")
  /\ mutex' = IF mutex = t THEN NoThread ELSE mutex
  /\ UNCHANGED refusals

(***************************************************************************)
(* The way in.  A device that is not behind an IOMMU is used by at most    *)
(* one object (nothing else would keep two from driving it), and iommufd   *)
(* only for the device that vfio0 is (the code opens no other).            *)
(***************************************************************************)
Available(t, d) ==
  is_enabled(d) \/ /\ \A o \in objects : o.dev # d
                   /\ \A u \in Threads \ {t} : th[u].dev = d => At(u, "idle")

begin(t, d, first, why) ==
  /\ At(t, "idle") /\ inits < MaxInits
  /\ inits' = inits + 1
  /\ th' = [th EXCEPT ![t] = [at |-> first, dev |-> d, space |-> inits + 1, why |-> why]]
  /\ UNCHANGED <<kernelVars, shareVars, mutex, objects, taken, refusals>>

\* MemoryAccess::init_with_page_size: VFIO if the device has an IOMMU group.
init_with_page_size(t, d, page) ==
  /\ Available(t, d)
  /\ IF is_enabled(d) THEN begin(t, d, "width", "none")
     ELSE IF page # "4K" THEN begin(t, d, "stub", "none")
     ELSE begin(t, d, "idle", "setup")     \* 4 KiB pages are rejected at once

\* Vfio::init_with_args with use_iommufd.
init_iommufd(t) == begin(t, Vfio0, "iommufd", "none")

(***************************************************************************)
(* Vfio::init_with_args.                                                   *)
(***************************************************************************)
is_intel_iommu(d) == d \in DOMAIN Width
get_intel_iommu_gaw(d) == Width[d]

\* The width is one for the process: it is overwritten, not lowered.
check_intel_iommu(t) ==
  /\ At(t, "width")
  /\ IOVA_WIDTH' = IF is_intel_iommu(th[t].dev) THEN get_intel_iommu_gaw(th[t].dev)
                   ELSE IOVA_WIDTH
  /\ Goto(t, "container")
  /\ UNCHANGED <<kernelVars, gfds, mutex, objects, taken, inits, refusals>>

\* A new container; its API version and its support of type 1.
open_container(t) ==
  /\ At(t, "container")
  /\ \/ Goto(t, "lock") /\ UNCHANGED <<mutex, refusals>>
     \/ fail(t, "refused")
  /\ UNCHANGED <<kernelVars, shareVars, objects, taken, inits>>

lock(t) ==
  /\ At(t, "lock") /\ mutex = NoThread
  /\ mutex' = t
  /\ Goto(t, IF group(t) \in gfds THEN "iommu" ELSE "open")
  /\ UNCHANGED <<kernelVars, shareVars, objects, taken, inits, refusals>>

Takes(t) == taken' = [taken EXCEPT ![group(t)] = th[t].space]

GroupFree(g) == g \notin opened /\ \A d \in DOMAIN bound : iommu_group[d] # g

open_group(t) ==
  /\ At(t, "open")
  /\ \/ /\ GroupFree(group(t))
        /\ opened' = opened \cup {group(t)} /\ Takes(t)
        /\ Goto(t, "attach") /\ UNCHANGED <<mutex, refusals>>
     \/ ~GroupFree(group(t)) /\ fail(t, "busy") /\ UNCHANGED <<opened, taken>>
     \/ fail(t, "refused") /\ UNCHANGED <<opened, taken>>
  /\ UNCHANGED <<attached, iommuOn, bound, command, shareVars, objects, inits>>

\* Faulty variant: the container is not set.
attach_group_unset(t) ==
  /\ At(t, "attach")
  /\ gfds' = gfds \cup {group(t)}
  /\ Goto(t, "iommu")
  /\ UNCHANGED <<kernelVars, IOVA_WIDTH, mutex, objects, taken, inits, refusals>>

\* Is the group viable?  Then it joins the container, and the map.
attach_group(t) ==
  /\ At(t, "attach")
  /\ \/ /\ group(t) \in Viable
        /\ attached' = [attached EXCEPT ![group(t)] = th[t].space]
        /\ gfds' = gfds \cup {group(t)}
        /\ Goto(t, "iommu") /\ UNCHANGED <<mutex, refusals>>
     \/ /\ \/ group(t) \notin Viable /\ fail(t, "setup")
           \/ fail(t, "refused")
        /\ UNCHANGED <<attached, gfds>>
  /\ UNCHANGED <<opened, iommuOn, bound, command, IOVA_WIDTH, objects, taken, inits>>

SpaceReady(t) == th[t].space \notin iommuOn /\ \E g \in Groups : attached[g] = th[t].space

\* Faulty variant: the result of the call is ignored.
set_iommu_ignored(t) ==
  /\ At(t, "iommu")
  /\ iommuOn' = IF SpaceReady(t) THEN iommuOn \cup {th[t].space} ELSE iommuOn
  /\ Goto(t, "device")
  /\ UNCHANGED <<opened, attached, bound, command, shareVars, mutex, objects,
                 taken, inits, refusals>>

set_iommu(t) ==
  /\ At(t, "iommu")
  /\ \/ /\ SpaceReady(t)
        /\ iommuOn' = iommuOn \cup {th[t].space}
        /\ Goto(t, "device") /\ UNCHANGED <<mutex, refusals>>
     \/ ~SpaceReady(t) /\ fail(t, "busy") /\ UNCHANGED iommuOn
     \/ fail(t, "refused") /\ UNCHANGED iommuOn
  /\ UNCHANGED <<opened, attached, bound, command, shareVars, objects, taken, inits>>

SetBits(d, bits) == command' = [command EXCEPT ![d] = @ \cup bits]

\* The device descriptor, the IOMMU information, and Vfio::enable_dma.
get_device(t) ==
  /\ At(t, "device")
  /\ \/ /\ SetBits(th[t].dev, {"bus_master"})
        /\ hand_out(t, "vfio")
     \/ fail(t, "refused") /\ UNCHANGED <<command, objects>>
  /\ UNCHANGED <<opened, attached, iommuOn, bound, shareVars, taken, inits>>

(***************************************************************************)
(* Vfio::init_iommufd: the device is bound to a new iommufd and attached   *)
(* to a new I/O address space.                                             *)
(***************************************************************************)
bind_iommufd(t) ==
  /\ At(t, "iommufd")
  /\ \/ /\ group(t) \notin opened /\ th[t].dev \notin DOMAIN bound
        /\ bound' = [d \in DOMAIN bound \cup {th[t].dev} |->
                       IF d = th[t].dev THEN NoSpace ELSE bound[d]]
        /\ Takes(t)
        /\ Goto(t, "ioas") /\ UNCHANGED <<mutex, refusals>>
     \/ /\ group(t) \in opened \/ th[t].dev \in DOMAIN bound
        /\ fail(t, "busy") /\ UNCHANGED <<bound, taken>>
     \/ fail(t, "refused") /\ UNCHANGED <<bound, taken>>
  /\ UNCHANGED <<opened, attached, iommuOn, command, shareVars, objects, inits>>

attach_ioas(t) ==
  /\ At(t, "ioas")
  /\ \/ /\ bound' = [bound EXCEPT ![th[t].dev] = th[t].space]
        /\ SetBits(th[t].dev, {"bus_master"})
        /\ hand_out(t, "iommufd")
     \/ fail(t, "refused") /\ UNCHANGED <<bound, command, objects>>
  /\ UNCHANGED <<opened, attached, iommuOn, shareVars, taken, inits>>

(***************************************************************************)
(* Physical::init_with_args.                                               *)
(***************************************************************************)
\* enable_dma, then disable_interrupts.
stub_bits == {"bus_master", "interrupt_disable"}

physical_init(t) ==
  /\ At(t, "stub")
  /\ \/ /\ th[t].dev \in Stub
        /\ SetBits(th[t].dev, stub_bits)
        /\ hand_out(t, "physical")
     \/ /\ th[t].dev \notin Stub
        /\ fail(t, "setup") /\ UNCHANGED <<command, objects>>
     \/ /\ \E bits \in {{}, {"bus_master"}} :
             (bits # {} => th[t].dev \in Stub) /\ SetBits(th[t].dev, bits)
        /\ fail(t, "refused") /\ UNCHANGED objects
  /\ UNCHANGED <<opened, attached, iommuOn, bound, shareVars, taken, inits>>

(***************************************************************************)
(* Mapping::map_resource of the object; on an error the caller drops it,   *)
(* which gives nothing back to the kernel.                                 *)
(***************************************************************************)
Dropped(d) == {o \in objects : o.dev # d}

map_resource(t, next) ==
  /\ At(t, "resource")
  /\ \/ Goto(t, next) /\ UNCHANGED <<mutex, objects, refusals>>
     \/ fail(t, "refused") /\ objects' = Dropped(th[t].dev)
  /\ UNCHANGED <<kernelVars, shareVars, taken, inits>>

AccessStep(t, next) ==
  \/ check_intel_iommu(t) \/ open_container(t) \/ lock(t) \/ open_group(t)
  \/ attach_group(t) \/ set_iommu(t) \/ get_device(t)
  \/ bind_iommufd(t) \/ attach_ioas(t) \/ physical_init(t) \/ map_resource(t, next)
-----------------------------------------------------------------------------
AccessTypeOK ==
  /\ gfds \subseteq Groups /\ opened \subseteq Groups
  /\ mutex \in Threads \cup {NoThread} /\ IOVA_WIDTH \in 1..64
  /\ attached \in [Groups -> 0..MaxInits] /\ iommuOn \subseteq 1..MaxInits
  /\ DOMAIN bound \subseteq Devices
  /\ command \in [Devices -> SUBSET stub_bits] /\ taken \in [Groups -> 0..MaxInits]
  /\ inits \in 0..MaxInits /\ refusals \in 0..MaxRefusals

\* An object that was handed out can do DMA for its device: the group of the
\* device is attached to the very container the object maps memory in and that
\* container has an IOMMU (or the device to its I/O address space), the device
\* is a bus master, and without VFIO its interrupts are off.
ObjectsUsable ==
  \A o \in objects :
    /\ "bus_master" \in command[o.dev]
    /\ o.mode = "vfio" => attached[iommu_group[o.dev]] = o.space /\ o.space \in iommuOn
    /\ o.mode = "iommufd" => bound[o.dev] = o.space
    /\ o.mode = "physical" => "interrupt_disable" \in command[o.dev]

\* A call is turned away as too late only if another call has taken the group
\* first.  So of the calls for a group that nobody uses, one is not: the one
\* that opens it (or binds the device) also gets the group into its container
\* and an IOMMU for it, unless the kernel refuses or the group is not viable,
\* whatever the other threads do in between.
TakerGoesOn ==
  \A t \in Threads : th[t].why = "busy" => taken[group(t)] \notin {NoSpace, th[t].space}

\* Initialisation for a device that nobody uses fails only if something was
\* refused or is not set up: being bound to the VFIO driver is all it takes.
FailsOnlyIfRefused ==
  [][\A t \in Threads :
       th'[t].why = "busy" /\ th[t].why # "busy" =>
         \E o \in objects : o.dev = th[t].dev]_accessVars
==============================================================================
