----------------------------- MODULE DriverProofs -----------------------------
(***************************************************************************)
(* The safety properties of Driver for every number of threads, devices    *)
(* and groups.  The invariant says what a thread at each point of its call *)
(* has obtained from the kernel, and that what it relies on (the container *)
(* its group is in, the address space its device is in) is its own.        *)
(***************************************************************************)
EXTENDS Driver, NamespacesProofs

\* Between lock and the end of Vfio::init_with_args.
Locked == {"open", "attach", "iommu", "device"}
GroupPlaces == {"width", "container", "lock"} \cup Locked
Places == GroupPlaces \cup
  {"idle", "iommufd", "ioas", "stub", "resource", "nvme", "identify"}

Whys == {"none", "setup", "busy", "refused"}

AccessTypeInv ==
  /\ AccessTypeOK
  /\ th \in [Threads -> [at : Places, dev : Devices, space : Nat, why : Whys]]
  /\ DOMAIN bound \subseteq {Vfio0}
  /\ objects \subseteq [dev : Devices, mode : {"vfio", "iommufd", "physical"},
                        space : Nat \ {0}]

\* Each way in is taken by the devices it is for.
PlaceInv ==
  \A t \in Threads :
    /\ th[t].at \in GroupPlaces => is_enabled(th[t].dev)
    /\ th[t].at \in {"iommufd", "ioas"} => th[t].dev = Vfio0
    /\ ~At(t, "idle") => th[t].dev \in Controllers /\ th[t].space # NoSpace

\* The mutex is held exactly by the thread that is between lock and its end.
LockInv == \A t \in Threads : mutex = t <=> th[t].at \in Locked

\* A space belongs to one call, whose group is the one that may be in it.
SpaceInv ==
  /\ \A t \in Threads : th[t].space <= inits
  /\ \A t, u \in Threads : t # u /\ th[t].space = th[u].space => th[t].space = NoSpace
  /\ \A g \in Groups : attached[g] <= inits
  /\ \A s \in iommuOn : s <= inits
  /\ \A g \in Groups, t \in Threads :
       attached[g] # NoSpace /\ attached[g] = th[t].space =>
         is_enabled(th[t].dev) /\ group(t) = g

\* What a thread on its way through VFIO has obtained.
GroupInv ==
  /\ gfds \subseteq opened
  /\ \A g \in Groups : attached[g] # NoSpace => g \in gfds
  /\ \A t \in Threads :
       /\ At(t, "open") \/ At(t, "attach") => group(t) \notin gfds
       /\ At(t, "attach") => group(t) \in opened
       /\ At(t, "iommu") => group(t) \in gfds
       /\ th[t].at \in GroupPlaces \ {"device"} => th[t].space \notin iommuOn
       /\ At(t, "device") => attached[group(t)] = th[t].space /\ th[t].space \in iommuOn

\* The device bound to iommufd waits for one thread to attach it.
IoasInv ==
  /\ \A t \in Threads :
       At(t, "ioas") => Vfio0 \in DOMAIN bound /\ bound[Vfio0] = NoSpace
  /\ \A t, u \in Threads : At(t, "ioas") /\ At(u, "ioas") => t = u

\* The objects can do DMA, with what nobody else can take away.
ObjectInv ==
  \A o \in objects :
    /\ "bus_master" \in command[o.dev]
    /\ o.mode = "vfio" => /\ is_enabled(o.dev)
                          /\ attached[iommu_group[o.dev]] = o.space /\ o.space \in iommuOn
    /\ o.mode = "iommufd" => o.dev \in DOMAIN bound /\ bound[o.dev] = o.space
    /\ o.mode = "physical" => "interrupt_disable" \in command[o.dev]

\* A call that has not yet obtained its group.
Fresh(t) == th[t].at \in {"width", "container", "lock", "open", "iommufd"}

\* Another call has taken the group of thread t.
TooLate(t) == taken[group(t)] \notin {NoSpace, th[t].space}

\* A group that is not free was taken by one call, and a call that finds its
\* group taken, or in another container, is not that one.
BusyInv ==
  /\ \A g \in Groups : taken[g] <= inits /\ (GroupFree(g) <=> taken[g] = NoSpace)
  /\ \A t \in Threads :
       /\ Fresh(t) => taken[group(t)] # th[t].space
       /\ At(t, "iommu") => attached[group(t)] = th[t].space \/ TooLate(t)
       /\ th[t].why = "busy" => is_enabled(th[t].dev) /\ TooLate(t)

\* The inductive invariant of the threads.
AccessInv ==
  /\ AccessTypeInv /\ PlaceInv /\ LockInv /\ SpaceInv /\ GroupInv /\ IoasInv
  /\ ObjectInv /\ BusyInv

\* The inductive invariant of the driver.
IndInv == AccessInv /\ NsInv
-----------------------------------------------------------------------------
(***************************************************************************)
(* How a step of thread t looks to the others.                             *)
(***************************************************************************)
\* Thread t goes on to place p with result w, on the same device and space.
Moves(t, p, w) ==
  /\ th' \in [Threads -> [at : Places, dev : Devices, space : Nat, why : Whys]]
  /\ \A u \in Threads \ {t} : th'[u] = th[u]
  /\ th'[t].at = p /\ th'[t].why = w
  /\ th'[t].dev = th[t].dev /\ th'[t].space = th[t].space

\* The command registers only gain bits.
CommandGrows ==
  /\ command' \in [Devices -> SUBSET stub_bits]
  /\ \A d \in Devices : command[d] \subseteq command'[d]

Released(t) == mutex' = IF mutex = t THEN NoThread ELSE mutex

\* Goto moves the thread.
LEMMA GotoMoves ==
  ASSUME AccessTypeInv, NEW t \in Threads, NEW p \in Places, Goto(t, p)
  PROVE  Moves(t, p, th[t].why)
BY DEF AccessTypeInv, Goto, Moves

\* fail ends the call with its reason and gives the lock back.
LEMMA FailMoves ==
  ASSUME AccessTypeInv, NEW t \in Threads, NEW w \in Whys, fail(t, w)
  PROVE  /\ Moves(t, "idle", w) /\ Released(t) /\ refusals' \in 0..MaxRefusals
<1>1. "idle" \in Places
  BY DEF Places
<1>2. Moves(t, "idle", w)
  BY <1>1 DEF AccessTypeInv, fail, Moves
<1>3. Released(t)
  BY DEF fail, unlock, Released
<1>4. refusals' \in 0..MaxRefusals
  BY AccessAssumption DEF AccessTypeInv, AccessTypeOK, fail
<1> QED BY <1>2, <1>3, <1>4

\* Setting bits of the command register.
LEMMA BitsGrow ==
  ASSUME AccessTypeInv, NEW d \in Devices, NEW bits \in SUBSET stub_bits, SetBits(d, bits)
  PROVE  CommandGrows /\ bits \subseteq command'[d]
BY DEF AccessTypeInv, AccessTypeOK, SetBits, CommandGrows

\* A call that ends, with or without success, gives the lock back and nothing
\* else; only objects may go.
LEMMA EndStep ==
  ASSUME AccessInv, NEW t \in Threads, NEW w \in Whys, Moves(t, "idle", w),
         w = "busy" => is_enabled(th[t].dev) /\ TooLate(t),
         UNCHANGED <<gfds, IOVA_WIDTH, opened, attached, iommuOn, bound, taken, inits>>,
         Released(t), objects' \subseteq objects, CommandGrows,
         refusals' \in 0..MaxRefusals
  PROVE  AccessInv'
<1> USE DEF AccessInv
<1>1. AccessTypeInv'
  BY DEF AccessTypeInv, AccessTypeOK, Moves, Released, CommandGrows
<1>2. PlaceInv'
  BY DEF PlaceInv, Moves, At, GroupPlaces, Locked
<1>3. LockInv'
  BY AccessAssumption DEF LockInv, Moves, Released, Locked
<1>4. SpaceInv'
  BY DEF SpaceInv, Moves, group
<1>5. GroupInv'
  BY DEF GroupInv, Moves, At, group, GroupPlaces, Locked
<1>6. IoasInv'
  BY DEF IoasInv, Moves, At
<1>7. ObjectInv'
  BY DEF ObjectInv, CommandGrows, AccessTypeInv
<1>8. BusyInv'
  BY DEF BusyInv, Moves, At, group, Fresh, TooLate, GroupFree
<1> QED BY <1>1, <1>2, <1>3, <1>4, <1>5, <1>6, <1>7, <1>8

\* The places a call goes on from without taking anything, and where to.
Advances(t, p) ==
  \/ At(t, "width") /\ p = "container"
  \/ At(t, "container") /\ p = "lock"
  \/ At(t, "resource") /\ p = "nvme"
  \/ At(t, "nvme") /\ p = "identify"

\* A thread goes on with its call without taking anything.
LEMMA AdvanceStep ==
  ASSUME AccessInv, NEW t \in Threads, NEW p, Moves(t, p, th[t].why), Advances(t, p),
         IOVA_WIDTH' \in 1..64,
         UNCHANGED <<gfds, mutex, opened, attached, iommuOn, bound, command, objects, taken,
                     inits, refusals>>
  PROVE  AccessInv'
<1> USE DEF AccessInv, Advances
<1>1. AccessTypeInv'
  BY DEF AccessTypeInv, AccessTypeOK, Moves
<1>2. PlaceInv'
  BY DEF PlaceInv, Moves, At, GroupPlaces, Locked
<1>3. LockInv'
  BY DEF LockInv, Moves, Locked, At
<1>4. SpaceInv'
  BY DEF SpaceInv, Moves, group
<1>5. GroupInv'
  BY DEF GroupInv, Moves, At, group, GroupPlaces, Locked
<1>6. IoasInv' /\ ObjectInv'
  BY DEF IoasInv, ObjectInv, Moves, At
<1>7. BusyInv'
  BY DEF BusyInv, Moves, At, group, Fresh, TooLate, GroupFree
<1> QED BY <1>1, <1>2, <1>3, <1>4, <1>5, <1>6, <1>7

\* A new call gets a space that nobody has, and counts for its group.
LEMMA BeginStep ==
  ASSUME AccessInv, NEW t \in Threads, NEW d \in Devices, NEW p, NEW w \in {"none", "setup"},
         begin(t, d, p, w),
         \/ p = "idle"
         \/ p = "width" /\ is_enabled(d) /\ d \in Controllers
         \/ p = "stub" /\ d \in Controllers
         \/ p = "iommufd" /\ d = Vfio0 /\ d \in Controllers
  PROVE  AccessInv'
<1> USE DEF AccessInv
<1>1. /\ At(t, "idle") /\ inits \in Nat /\ inits + 1 <= MaxInits /\ inits' = inits + 1
      /\ UNCHANGED <<opened, attached, iommuOn, bound, command, gfds, IOVA_WIDTH, mutex,
                     objects, taken, refusals>>
  BY AccessAssumption DEF begin, kernelVars, shareVars, AccessTypeInv, AccessTypeOK
<1>2. /\ th' \in [Threads -> [at : Places, dev : Devices, space : Nat, why : Whys]]
      /\ \A u \in Threads \ {t} : th'[u] = th[u]
      /\ th'[t].at = p /\ th'[t].why = w /\ th'[t].dev = d /\ th'[t].space = inits + 1
  BY <1>1 DEF begin, AccessTypeInv, Places, GroupPlaces, Whys
<1>4. AccessTypeInv'
  BY <1>1, <1>2, AccessAssumption DEF AccessTypeInv, AccessTypeOK
<1>5. PlaceInv'
  BY <1>1, <1>2, AccessAssumption DEF PlaceInv, At, GroupPlaces, Locked, is_enabled, NoSpace
<1>6. LockInv'
  BY <1>1, <1>2 DEF LockInv, Locked, At
<1>7. SpaceInv'
  <2>1. \A u \in Threads : th[u].space \in Nat /\ th[u].space <= inits
    BY DEF SpaceInv, AccessTypeInv
  <2>2. \A g \in Groups : attached[g] \in Nat /\ attached[g] <= inits
    BY DEF SpaceInv, AccessTypeInv, AccessTypeOK
  <2>3. \A s \in iommuOn : s \in Nat /\ s <= inits
    BY DEF SpaceInv, AccessTypeInv, AccessTypeOK
  <2> QED BY <1>1, <1>2, <2>1, <2>2, <2>3 DEF SpaceInv, group
<1>8. GroupInv'
  <2>1. inits + 1 \notin iommuOn
    BY <1>1 DEF SpaceInv, AccessTypeInv, AccessTypeOK
  <2> QED BY <1>1, <1>2, <2>1 DEF GroupInv, At, group, GroupPlaces, Locked
<1>9. IoasInv' /\ ObjectInv'
  BY <1>1, <1>2 DEF IoasInv, ObjectInv, At
<1>10. BusyInv'
  <2>1. \A g \in Groups : taken[g] \in Nat /\ taken[g] <= inits /\ taken[g] # inits + 1
    BY <1>1 DEF BusyInv, AccessTypeInv, AccessTypeOK
  <2>2. \A g \in Groups : taken'[g] <= inits' /\ (GroupFree(g)' <=> taken'[g] = NoSpace)
    BY <1>1, <2>1 DEF BusyInv, GroupFree
  <2>3. p \in {"width", "iommufd"} => group(t)' \in Groups
    BY <1>2, AccessAssumption DEF group, is_enabled, Groups
  <2>4. \A u \in Threads :
          /\ Fresh(u)' => taken'[group(u)'] # th'[u].space
          /\ At(u, "iommu")' => attached'[group(u)'] = th'[u].space \/ TooLate(u)'
          /\ th'[u].why = "busy" => is_enabled(th'[u].dev) /\ TooLate(u)'
    BY <1>1, <1>2, <2>1, <2>3 DEF BusyInv, Fresh, TooLate, At, group
  <2> QED BY <2>2, <2>4 DEF BusyInv
<1> QED BY <1>4, <1>5, <1>6, <1>7, <1>8, <1>9, <1>10

\* The lock is taken; a group that is in the map is skipped to the container.
LEMMA LockStep ==
  ASSUME AccessInv, NEW t \in Threads, lock(t)
  PROVE  AccessInv'
<1> USE DEF AccessInv
<1>1. /\ At(t, "lock") /\ mutex = NoThread /\ mutex' = t
      /\ UNCHANGED <<opened, attached, iommuOn, bound, command, gfds, IOVA_WIDTH,
                     objects, taken, inits, refusals>>
  BY DEF lock, kernelVars, shareVars
<1>2. PICK p \in {"iommu", "open"} :
        Moves(t, p, th[t].why) /\ (p = "iommu" <=> group(t) \in gfds)
  BY GotoMoves DEF lock, Places, GroupPlaces, Locked
<1>3. is_enabled(th[t].dev) /\ group(t) \in Groups
  BY <1>1 DEF PlaceInv, At, GroupPlaces, is_enabled, group, Groups
<1>4. AccessTypeInv'
  BY <1>1, <1>2 DEF AccessTypeInv, AccessTypeOK, Moves
<1>5. PlaceInv'
  BY <1>1, <1>2, <1>3 DEF PlaceInv, Moves, At, GroupPlaces, Locked
<1>6. LockInv'
  BY <1>1, <1>2, AccessAssumption DEF LockInv, Moves, Locked
<1>7. SpaceInv'
  BY <1>1, <1>2 DEF SpaceInv, Moves, group
<1>8. GroupInv'
  BY <1>1, <1>2 DEF GroupInv, Moves, At, group, GroupPlaces, Locked
<1>9. IoasInv' /\ ObjectInv'
  BY <1>1, <1>2 DEF IoasInv, ObjectInv, Moves, At
<1>10. BusyInv'
  <2>1. p = "iommu" => TooLate(t)
    <3>1. group(t) \in gfds => ~GroupFree(group(t))
      BY DEF GroupInv, GroupFree
    <3>2. Fresh(t)
      BY <1>1 DEF Fresh, At
    <3> QED BY <1>2, <1>3, <3>1, <3>2 DEF BusyInv, TooLate
  <2> QED BY <1>1, <1>2, <1>3, <2>1 DEF BusyInv, Moves, At, group, Fresh, TooLate, GroupFree
<1> QED BY <1>4, <1>5, <1>6, <1>7, <1>8, <1>9, <1>10

\* A call takes a group that is free: from then on the group is that call's,
\* and every other call for it comes too late.
LEMMA TakeStep ==
  ASSUME AccessInv, NEW t \in Threads, Fresh(t), group(t) \in Groups, GroupFree(group(t)),
         Takes(t), NEW p \in {"attach", "ioas"}, Moves(t, p, th[t].why),
         \A g \in Groups : GroupFree(g)' <=> GroupFree(g) /\ g # group(t),
         UNCHANGED <<attached, inits>>
  PROVE  taken' \in [Groups -> 0..MaxInits] /\ BusyInv'
<1> USE DEF AccessInv
<1>1. th[t].space \in Nat \ {0} /\ th[t].space <= inits /\ th[t].space \in 0..MaxInits
  <2>1. th[t].space \in Nat \ {0} /\ th[t].space <= inits
    BY DEF AccessTypeInv, SpaceInv, PlaceInv, Fresh, At, NoSpace
  <2> QED BY <2>1, AccessAssumption DEF AccessTypeInv, AccessTypeOK
<1>2. /\ taken' \in [Groups -> 0..MaxInits] /\ taken'[group(t)] = th[t].space
      /\ \A g \in Groups : g # group(t) => taken'[g] = taken[g]
  BY <1>1 DEF Takes, AccessTypeInv, AccessTypeOK
<1>3. taken[group(t)] = NoSpace
  BY DEF BusyInv
<1>4. \A g \in Groups : taken'[g] <= inits' /\ (GroupFree(g)' <=> taken'[g] = NoSpace)
  BY <1>1, <1>2 DEF BusyInv, NoSpace
<1>5. \A u \in Threads : TooLate(u) /\ is_enabled(th[u].dev) => TooLate(u)'
  <2> SUFFICES ASSUME NEW u \in Threads, TooLate(u), is_enabled(th[u].dev) PROVE TooLate(u)'
    OBVIOUS
  <2>1. group(u) \in Groups /\ group(u) # group(t)
    BY <1>3 DEF TooLate, is_enabled, group, Groups
  <2>2. group(u)' = group(u) /\ th'[u].space = th[u].space
    BY DEF Moves, group
  <2> QED BY <1>2, <2>1, <2>2 DEF TooLate
<1>6. \A u \in Threads : Fresh(u)' => taken'[group(u)'] # th'[u].space
  <2> SUFFICES ASSUME NEW u \in Threads, Fresh(u)' PROVE taken'[group(u)'] # th'[u].space
    OBVIOUS
  <2>1. u # t /\ Fresh(u) /\ th'[u] = th[u]
    BY DEF Moves, Fresh
  <2>2. group(u) \in Groups
    BY <2>1, AccessAssumption
    DEF PlaceInv, Fresh, GroupPlaces, Locked, is_enabled, group, Groups
  <2>3. th[u].space # th[t].space
    BY <1>1, <2>1 DEF SpaceInv, NoSpace
  <2> QED BY <1>2, <2>1, <2>2, <2>3 DEF BusyInv, group
<1>7. \A u \in Threads : At(u, "iommu") => is_enabled(th[u].dev)
  BY DEF PlaceInv, At, GroupPlaces, Locked
<1>8. \A u \in Threads :
        /\ At(u, "iommu")' => attached'[group(u)'] = th'[u].space \/ TooLate(u)'
        /\ th'[u].why = "busy" => is_enabled(th'[u].dev) /\ TooLate(u)'
  <2>1. \A u \in Threads : At(u, "iommu")' => At(u, "iommu") /\ u # t
    BY DEF Moves, At
  <2> QED BY <1>5, <1>7, <2>1 DEF BusyInv, Moves, At, group
<1> QED BY <1>2, <1>4, <1>6, <1>8 DEF BusyInv

\* The group is opened.
LEMMA OpenStep ==
  ASSUME AccessInv, NEW t \in Threads, At(t, "open"), GroupFree(group(t)),
         opened' = opened \cup {group(t)}, Moves(t, "attach", th[t].why), Takes(t),
         UNCHANGED <<attached, iommuOn, bound, command, gfds, IOVA_WIDTH, mutex, objects,
                     inits, refusals>>
  PROVE  AccessInv'
<1> USE DEF AccessInv
<1>1. is_enabled(th[t].dev) /\ group(t) \in Groups
  BY DEF PlaceInv, At, GroupPlaces, Locked, is_enabled, group, Groups
<1>8. taken' \in [Groups -> 0..MaxInits] /\ BusyInv'
  <2>1. Fresh(t) /\ \A g \in Groups : GroupFree(g)' <=> GroupFree(g) /\ g # group(t)
    BY DEF Fresh, At, GroupFree
  <2> QED BY <1>1, <2>1, TakeStep
<1>2. AccessTypeInv'
  BY <1>1, <1>8 DEF AccessTypeInv, AccessTypeOK, Moves
<1>3. PlaceInv'
  BY <1>1 DEF PlaceInv, Moves, At, GroupPlaces, Locked
<1>4. LockInv'
  BY DEF LockInv, Moves, Locked, At
<1>5. SpaceInv'
  BY DEF SpaceInv, Moves, group
<1>6. GroupInv'
  BY DEF GroupInv, Moves, At, group, GroupPlaces, Locked
<1>7. IoasInv' /\ ObjectInv'
  BY DEF IoasInv, ObjectInv, Moves, At
<1> QED BY <1>2, <1>3, <1>4, <1>5, <1>6, <1>7, <1>8

\* The group joins the container of the thread that opened it: no object and no
\* other thread has to do with the group's container.
LEMMA AttachStep ==
  ASSUME AccessInv, NEW t \in Threads, At(t, "attach"),
         attached' = [attached EXCEPT ![group(t)] = th[t].space],
         gfds' = gfds \cup {group(t)}, Moves(t, "iommu", th[t].why),
         UNCHANGED <<opened, iommuOn, bound, command, IOVA_WIDTH, mutex, objects, taken,
                     inits, refusals>>
  PROVE  AccessInv'
<1> USE DEF AccessInv
<1>1. /\ is_enabled(th[t].dev) /\ group(t) \in Groups /\ group(t) \notin gfds
      /\ attached[group(t)] = NoSpace /\ group(t) \in opened
  BY DEF PlaceInv, GroupInv, At, GroupPlaces, Locked, is_enabled, group, Groups
<1>2. /\ attached' \in [Groups -> 0..MaxInits] /\ attached'[group(t)] = th[t].space
      /\ \A g \in Groups : g # group(t) => attached'[g] = attached[g]
      /\ th[t].space \in Nat \ {0} /\ th[t].space <= inits
  <2>1. th[t].space \in Nat \ {0} /\ th[t].space <= inits
    BY DEF AccessTypeInv, SpaceInv, PlaceInv, At, NoSpace
  <2>2. th[t].space \in 0..MaxInits
    BY <2>1, AccessAssumption DEF AccessTypeInv, AccessTypeOK
  <2> QED BY <1>1, <2>1, <2>2 DEF AccessTypeInv, AccessTypeOK
<1>3. AccessTypeInv'
  BY <1>1, <1>2 DEF AccessTypeInv, AccessTypeOK, Moves
<1>4. PlaceInv'
  BY <1>1 DEF PlaceInv, Moves, At, GroupPlaces, Locked
<1>5. LockInv'
  BY DEF LockInv, Moves, Locked, At
<1>6. SpaceInv'
  <2>1. \A g \in Groups : attached'[g] <= inits
    BY <1>2 DEF SpaceInv
  <2>2. ASSUME NEW g \in Groups, NEW u \in Threads, attached'[g] # NoSpace,
               attached'[g] = th[u].space
        PROVE  is_enabled(th[u].dev) /\ group(u) = g
    <3>1. CASE g = group(t)
      <4>1. u = t
        BY <1>2, <2>2, <3>1 DEF SpaceInv, NoSpace
      <4> QED BY <1>1, <3>1, <4>1
    <3>2. CASE g # group(t)
      BY <1>2, <2>2, <3>2 DEF SpaceInv
    <3> QED BY <3>1, <3>2
  <2> QED BY <2>1, <2>2 DEF SpaceInv, Moves, group
<1>7. GroupInv'
  <2>1. \A u \in Threads \ {t} : th[u].at \notin Locked
    BY DEF LockInv, Locked, At
  <2>2. \A g \in Groups : attached'[g] # NoSpace => g \in gfds'
    BY <1>1, <1>2 DEF GroupInv
  <2> QED BY <1>1, <2>1, <2>2 DEF GroupInv, Moves, At, group, GroupPlaces, Locked
<1>8. IoasInv'
  BY DEF IoasInv, Moves, At
<1>9. ObjectInv'
  <2>1. ASSUME NEW o \in objects, o.mode = "vfio"
        PROVE  attached'[iommu_group[o.dev]] = o.space
    <3>1. iommu_group[o.dev] \in Groups /\ attached[iommu_group[o.dev]] = o.space /\ o.space # NoSpace
      BY <2>1 DEF ObjectInv, is_enabled, Groups, AccessTypeInv, NoSpace
    <3> QED BY <1>1, <1>2, <3>1
  <2> QED BY <2>1 DEF ObjectInv
<1>10. BusyInv'
  <2>1. \A g \in Groups : GroupFree(g)' <=> GroupFree(g)
    BY DEF GroupFree
  <2>2. \A u \in Threads : At(u, "iommu")' => u = t
    BY DEF LockInv, Moves, At, Locked
  <2>3. \A g \in Groups : taken'[g] <= inits' /\ (GroupFree(g)' <=> taken'[g] = NoSpace)
    BY <2>1 DEF BusyInv
  <2>4. \A u \in Threads :
          /\ Fresh(u)' => taken'[group(u)'] # th'[u].space
          /\ th'[u].why = "busy" => is_enabled(th'[u].dev) /\ TooLate(u)'
    BY DEF BusyInv, Fresh, TooLate, Moves, group
  <2>5. attached'[group(t)'] = th'[t].space
    BY <1>2 DEF Moves, group
  <2> QED BY <2>2, <2>3, <2>4, <2>5 DEF BusyInv
<1> QED BY <1>3, <1>4, <1>5, <1>6, <1>7, <1>8, <1>9, <1>10

\* The container with an IOMMU is the one the thread's own group is in.
LEMMA IommuStep ==
  ASSUME AccessInv, NEW t \in Threads, At(t, "iommu"), SpaceReady(t),
         iommuOn' = iommuOn \cup {th[t].space}, Moves(t, "device", th[t].why),
         UNCHANGED <<opened, attached, bound, command, gfds, IOVA_WIDTH, mutex, objects,
                     taken, inits, refusals>>
  PROVE  AccessInv'
<1> USE DEF AccessInv
<1>1. /\ is_enabled(th[t].dev) /\ th[t].space \in Nat \ {0} /\ th[t].space <= inits
  BY DEF PlaceInv, SpaceInv, AccessTypeInv, At, GroupPlaces, Locked, NoSpace
<1>2. attached[group(t)] = th[t].space
  BY <1>1 DEF SpaceReady, SpaceInv, NoSpace
<1>3. AccessTypeInv'
  <2>1. th[t].space \in 1..MaxInits
    BY <1>1, AccessAssumption DEF AccessTypeInv, AccessTypeOK
  <2> QED BY <2>1 DEF AccessTypeInv, AccessTypeOK, Moves
<1>4. PlaceInv'
  BY <1>1 DEF PlaceInv, Moves, At, GroupPlaces, Locked
<1>5. LockInv'
  BY DEF LockInv, Moves, Locked, At
<1>6. SpaceInv'
  BY <1>1 DEF SpaceInv, Moves, group
<1>7. GroupInv'
  <2>1. \A u \in Threads \ {t} : th[u].space # th[t].space
    BY <1>1 DEF SpaceInv, NoSpace
  <2> QED BY <1>2, <2>1 DEF GroupInv, Moves, At, group, GroupPlaces, Locked
<1>8. IoasInv' /\ ObjectInv'
  BY DEF IoasInv, ObjectInv, Moves, At
<1>9. BusyInv'
  BY DEF BusyInv, Moves, At, group, Fresh, TooLate, GroupFree
<1> QED BY <1>3, <1>4, <1>5, <1>6, <1>7, <1>8, <1>9

\* The device is bound to iommufd, where it waits for this thread alone.
LEMMA BindStep ==
  ASSUME AccessInv, NEW t \in Threads, At(t, "iommufd"),
         group(t) \notin opened, th[t].dev \notin DOMAIN bound,
         bound' = [d \in DOMAIN bound \cup {th[t].dev} |->
                     IF d = th[t].dev THEN NoSpace ELSE bound[d]],
         Moves(t, "ioas", th[t].why), Takes(t),
         UNCHANGED <<opened, attached, iommuOn, command, gfds, IOVA_WIDTH, mutex, objects,
                     inits, refusals>>
  PROVE  AccessInv'
<1> USE DEF AccessInv
<1>1. /\ th[t].dev = Vfio0 /\ is_enabled(Vfio0) /\ group(t) = iommu_group[Vfio0]
      /\ group(t) \in Groups /\ Vfio0 \in Devices
  BY AccessAssumption DEF PlaceInv, At, is_enabled, group, Groups
<1>2. DOMAIN bound = {} /\ DOMAIN bound' = {Vfio0} /\ bound'[Vfio0] = NoSpace
  BY <1>1 DEF AccessTypeInv
<1>10. taken' \in [Groups -> 0..MaxInits] /\ BusyInv'
  <2>1. Fresh(t) /\ GroupFree(group(t))
    BY <1>2 DEF Fresh, At, GroupFree
  <2>2. \A g \in Groups : GroupFree(g)' <=> GroupFree(g) /\ g # group(t)
    BY <1>1, <1>2 DEF GroupFree
  <2> QED BY <1>1, <2>1, <2>2, TakeStep
<1>3. AccessTypeInv'
  BY <1>1, <1>2, <1>10 DEF AccessTypeInv, AccessTypeOK, Moves
<1>4. PlaceInv'
  BY <1>1 DEF PlaceInv, Moves, At, GroupPlaces, Locked
<1>5. LockInv'
  BY DEF LockInv, Moves, Locked, At
<1>6. SpaceInv'
  BY DEF SpaceInv, Moves, group
<1>7. GroupInv'
  BY DEF GroupInv, Moves, At, group, GroupPlaces, Locked
<1>8. IoasInv'
  BY <1>2 DEF IoasInv, Moves, At
<1>9. ObjectInv'
  BY <1>2 DEF ObjectInv
<1> QED BY <1>3, <1>4, <1>5, <1>6, <1>7, <1>8, <1>9, <1>10

\* An object is handed out that can do DMA; what the earlier ones use stays.
LEMMA HandOutStep ==
  ASSUME AccessInv, NEW t \in Threads, NEW mode,
         \/ mode = "vfio" /\ At(t, "device") /\ UNCHANGED bound
         \/ /\ mode = "iommufd" /\ At(t, "ioas")
            /\ bound' = [bound EXCEPT ![th[t].dev] = th[t].space]
         \/ mode = "physical" /\ At(t, "stub") /\ UNCHANGED bound,
         hand_out(t, mode), CommandGrows, "bus_master" \in command'[th[t].dev],
         mode = "physical" => "interrupt_disable" \in command'[th[t].dev],
         UNCHANGED <<opened, attached, iommuOn, gfds, IOVA_WIDTH, taken, inits>>
  PROVE  AccessInv'
<1> USE DEF AccessInv
<1> DEFINE new == [dev |-> th[t].dev, mode |-> mode, space |-> th[t].space]
<1>1. /\ objects' = objects \cup {new} /\ Released(t) /\ refusals' = refusals
      /\ Moves(t, "resource", th[t].why)
  BY GotoMoves DEF hand_out, Released, Places
<1>2. /\ new \in [dev : Devices, mode : {"vfio", "iommufd", "physical"}, space : Nat \ {0}]
  BY DEF AccessTypeInv, PlaceInv, At, NoSpace
<1>3. DOMAIN bound' = DOMAIN bound /\ (bound' = bound \/ At(t, "ioas"))
  OBVIOUS
<1>4. AccessTypeInv'
  BY <1>1, <1>2, <1>3 DEF AccessTypeInv, AccessTypeOK, Moves, Released, CommandGrows
<1>5. PlaceInv'
  BY <1>1 DEF PlaceInv, Moves, At, GroupPlaces, Locked
<1>6. LockInv'
  BY <1>1, AccessAssumption DEF LockInv, Moves, Released, Locked
<1>7. SpaceInv'
  BY <1>1 DEF SpaceInv, Moves, group
<1>8. GroupInv'
  BY <1>1 DEF GroupInv, Moves, At, group, GroupPlaces, Locked
<1>9. IoasInv'
  BY <1>1, <1>3 DEF IoasInv, Moves, At
<1>10. ObjectInv'
  <2>1. ASSUME NEW o \in objects
        PROVE  /\ "bus_master" \in command'[o.dev]
               /\ o.mode = "vfio" => /\ is_enabled(o.dev) /\ o.space \in iommuOn
                                     /\ attached[iommu_group[o.dev]] = o.space
               /\ o.mode = "iommufd" => o.dev \in DOMAIN bound' /\ bound'[o.dev] = o.space
               /\ o.mode = "physical" => "interrupt_disable" \in command'[o.dev]
    <3>1. o.dev \in Devices /\ o.space # NoSpace
      BY DEF AccessTypeInv, NoSpace
    <3>2. ASSUME o.mode = "iommufd" PROVE bound'[o.dev] = o.space
      <4>1. o.dev = Vfio0 /\ bound[Vfio0] = o.space
        BY <3>2 DEF ObjectInv, AccessTypeInv
      <4> QED BY <1>3, <3>1, <3>2, <4>1 DEF ObjectInv, IoasInv
    <3> QED BY <1>3, <3>1, <3>2 DEF ObjectInv, CommandGrows
  <2>2. /\ mode = "vfio" => /\ is_enabled(th[t].dev) /\ th[t].space \in iommuOn
                            /\ attached[iommu_group[th[t].dev]] = th[t].space
        /\ mode = "iommufd" => th[t].dev \in DOMAIN bound' /\ bound'[th[t].dev] = th[t].space
    BY DEF PlaceInv, GroupInv, IoasInv, At, group, GroupPlaces, Locked
  <2> QED BY <1>1, <2>1, <2>2 DEF ObjectInv
<1>11. BusyInv'
  <2>1. \A g \in Groups : GroupFree(g)' <=> GroupFree(g)
    BY <1>3 DEF GroupFree
  <2> QED BY <1>1, <2>1 DEF BusyInv, Moves, At, group, Fresh, TooLate
<1> QED BY <1>4, <1>5, <1>6, <1>7, <1>8, <1>9, <1>10, <1>11

\* Every step of the way to an object.
LEMMA AccessSteps ==
  ASSUME AccessInv, NEW t \in Threads, AccessStep(t, "nvme")
  PROVE  AccessInv'
<1> USE DEF kernelVars, shareVars
<1>0. AccessTypeInv /\ th[t].dev \in Devices
  BY DEF AccessInv, AccessTypeInv
<1>1. /\ {"container", "lock", "attach", "iommu", "device", "ioas", "nvme"} \subseteq Places
      /\ {"setup", "busy", "refused"} \subseteq Whys
  BY DEF Places, GroupPlaces, Locked, Whys
<1>2. UNCHANGED command => CommandGrows
  BY <1>0 DEF CommandGrows, AccessTypeInv, AccessTypeOK
<1>3. \A w \in {"setup", "refused"} : fail(t, w) /\ CommandGrows /\ objects' \subseteq objects
        /\ UNCHANGED <<gfds, IOVA_WIDTH, opened, attached, iommuOn, bound, taken, inits>>
        => AccessInv'
  BY <1>0, <1>1, FailMoves, EndStep
<1>4. ASSUME fail(t, "busy"), is_enabled(th[t].dev), TooLate(t), CommandGrows,
             UNCHANGED <<gfds, IOVA_WIDTH, opened, attached, iommuOn, bound, taken, inits,
                         objects>>
      PROVE  AccessInv'
  BY <1>0, <1>1, <1>4, FailMoves, EndStep
<1>5. CASE check_intel_iommu(t)
  <2>1. IOVA_WIDTH' \in 1..64
    BY <1>0, <1>5, AccessAssumption
    DEF check_intel_iommu, is_intel_iommu, get_intel_iommu_gaw, AccessTypeInv, AccessTypeOK
  <2>2. Moves(t, "container", th[t].why)
    BY <1>0, <1>1, <1>5, GotoMoves DEF check_intel_iommu
  <2>4. Advances(t, "container")
    BY <1>5 DEF check_intel_iommu, Advances
  <2>3. UNCHANGED <<gfds, mutex, opened, attached, iommuOn, bound, command, objects, taken,
                    inits, refusals>>
    BY <1>5 DEF check_intel_iommu
  <2> QED BY <2>1, <2>2, <2>3, <2>4, AdvanceStep
<1>6. CASE open_container(t)
  <2>1. IOVA_WIDTH \in 1..64
    BY <1>0 DEF AccessTypeInv, AccessTypeOK
  <2>2. CASE Goto(t, "lock") /\ UNCHANGED <<mutex, refusals>>
    <3>1. Moves(t, "lock", th[t].why) /\ Advances(t, "lock")
      BY <1>0, <1>1, <1>6, <2>2, GotoMoves DEF open_container, Advances
    <3> QED BY <1>6, <2>1, <2>2, <3>1, AdvanceStep DEF open_container
  <2>3. CASE fail(t, "refused")
    BY <1>2, <1>3, <1>6, <2>3 DEF open_container
  <2> QED BY <1>6, <2>2, <2>3 DEF open_container
<1>7. CASE lock(t)
  BY <1>7, LockStep
<1>8. CASE open_group(t)
  <2>1. CASE /\ GroupFree(group(t)) /\ opened' = opened \cup {group(t)} /\ Takes(t)
             /\ Goto(t, "attach") /\ UNCHANGED <<mutex, refusals>>
    BY <1>0, <1>1, <1>8, <2>1, GotoMoves, OpenStep DEF open_group
  <2>2. CASE ~GroupFree(group(t)) /\ fail(t, "busy") /\ UNCHANGED <<opened, taken>>
    <3>1. is_enabled(th[t].dev) /\ group(t) \in Groups
      BY <1>8 DEF open_group, AccessInv, PlaceInv, At, GroupPlaces, Locked, is_enabled,
                  group, Groups
    <3>2. TooLate(t)
      BY <1>8, <2>2, <3>1 DEF open_group, AccessInv, BusyInv, TooLate, Fresh, At
    <3> QED BY <1>2, <1>4, <1>8, <2>2, <3>1, <3>2 DEF open_group
  <2>3. CASE fail(t, "refused") /\ UNCHANGED <<opened, taken>>
    BY <1>2, <1>3, <1>8, <2>3 DEF open_group
  <2> QED BY <1>8, <2>1, <2>2, <2>3 DEF open_group
<1>9. CASE attach_group(t)
  <2>1. CASE /\ attached' = [attached EXCEPT ![group(t)] = th[t].space]
             /\ gfds' = gfds \cup {group(t)}
             /\ Goto(t, "iommu") /\ UNCHANGED <<mutex, refusals>>
    BY <1>0, <1>1, <1>9, <2>1, GotoMoves, AttachStep DEF attach_group
  <2>2. CASE (fail(t, "setup") \/ fail(t, "refused")) /\ UNCHANGED <<attached, gfds>>
    BY <1>2, <1>3, <1>9, <2>2 DEF attach_group
  <2> QED BY <1>9, <2>1, <2>2 DEF attach_group
<1>10. CASE set_iommu(t)
  <2>1. CASE /\ SpaceReady(t) /\ iommuOn' = iommuOn \cup {th[t].space}
             /\ Goto(t, "device") /\ UNCHANGED <<mutex, refusals>>
    BY <1>0, <1>1, <1>10, <2>1, GotoMoves, IommuStep DEF set_iommu
  <2>2. CASE ~SpaceReady(t) /\ fail(t, "busy") /\ UNCHANGED iommuOn
    <3>1. is_enabled(th[t].dev) /\ group(t) \in Groups
      BY <1>10 DEF set_iommu, AccessInv, PlaceInv, At, GroupPlaces, Locked, is_enabled,
                   group, Groups
    <3>2. attached[group(t)] # th[t].space
      BY <1>10, <2>2, <3>1
      DEF set_iommu, AccessInv, GroupInv, SpaceReady, At, GroupPlaces, Locked
    <3>3. TooLate(t)
      BY <1>10, <3>2 DEF set_iommu, AccessInv, BusyInv
    <3> QED BY <1>2, <1>4, <1>10, <2>2, <3>1, <3>3 DEF set_iommu
  <2>3. CASE fail(t, "refused") /\ UNCHANGED iommuOn
    BY <1>2, <1>3, <1>10, <2>3 DEF set_iommu
  <2> QED BY <1>10, <2>1, <2>2, <2>3 DEF set_iommu
<1>11. CASE get_device(t)
  <2>1. CASE SetBits(th[t].dev, {"bus_master"}) /\ hand_out(t, "vfio")
    <3>1. CommandGrows /\ "bus_master" \in command'[th[t].dev]
      BY <1>0, <2>1, BitsGrow DEF stub_bits
    <3> QED BY <1>11, <2>1, <3>1, HandOutStep DEF get_device
  <2>2. CASE fail(t, "refused") /\ UNCHANGED <<command, objects>>
    BY <1>2, <1>3, <1>11, <2>2 DEF get_device
  <2> QED BY <1>11, <2>1, <2>2 DEF get_device
<1>12. CASE bind_iommufd(t)
  <2>1. CASE /\ group(t) \notin opened /\ th[t].dev \notin DOMAIN bound
             /\ bound' = [d \in DOMAIN bound \cup {th[t].dev} |->
                            IF d = th[t].dev THEN NoSpace ELSE bound[d]]
             /\ Takes(t)
             /\ Goto(t, "ioas") /\ UNCHANGED <<mutex, refusals>>
    BY <1>0, <1>1, <1>12, <2>1, GotoMoves, BindStep DEF bind_iommufd
  <2>2. CASE /\ group(t) \in opened \/ th[t].dev \in DOMAIN bound
             /\ fail(t, "busy") /\ UNCHANGED <<bound, taken>>
    <3>1. is_enabled(th[t].dev) /\ group(t) \in Groups
      BY <1>12, AccessAssumption DEF bind_iommufd, AccessInv, PlaceInv, At, is_enabled,
                                     group, Groups
    <3>2. ~GroupFree(group(t))
      BY <2>2 DEF GroupFree, group
    <3>3. TooLate(t)
      BY <1>12, <3>1, <3>2 DEF bind_iommufd, AccessInv, BusyInv, TooLate, Fresh, At
    <3> QED BY <1>2, <1>4, <1>12, <2>2, <3>1, <3>3 DEF bind_iommufd
  <2>3. CASE fail(t, "refused") /\ UNCHANGED <<bound, taken>>
    BY <1>2, <1>3, <1>12, <2>3 DEF bind_iommufd
  <2> QED BY <1>12, <2>1, <2>2, <2>3 DEF bind_iommufd
<1>13. CASE attach_ioas(t)
  <2>1. CASE /\ bound' = [bound EXCEPT ![th[t].dev] = th[t].space]
             /\ SetBits(th[t].dev, {"bus_master"}) /\ hand_out(t, "iommufd")
    <3>1. CommandGrows /\ "bus_master" \in command'[th[t].dev]
      BY <1>0, <2>1, BitsGrow DEF stub_bits
    <3> QED BY <1>13, <2>1, <3>1, HandOutStep DEF attach_ioas
  <2>2. CASE fail(t, "refused") /\ UNCHANGED <<bound, command, objects>>
    BY <1>2, <1>3, <1>13, <2>2 DEF attach_ioas
  <2> QED BY <1>13, <2>1, <2>2 DEF attach_ioas
<1>14. CASE physical_init(t)
  <2>1. CASE SetBits(th[t].dev, stub_bits) /\ hand_out(t, "physical")
    <3>1. /\ CommandGrows /\ "bus_master" \in command'[th[t].dev]
          /\ "interrupt_disable" \in command'[th[t].dev]
      BY <1>0, <2>1, BitsGrow DEF stub_bits
    <3> QED BY <1>14, <2>1, <3>1, HandOutStep DEF physical_init
  <2>2. CASE fail(t, "setup") /\ UNCHANGED <<command, objects>>
    BY <1>2, <1>3, <1>14, <2>2 DEF physical_init
  <2>3. CASE /\ \E bits \in {{}, {"bus_master"}} :
                  (bits # {} => th[t].dev \in Stub) /\ SetBits(th[t].dev, bits)
             /\ fail(t, "refused") /\ UNCHANGED objects
    <3>1. CommandGrows
      BY <1>0, <2>3, BitsGrow DEF stub_bits
    <3> QED BY <1>3, <1>14, <2>3, <3>1 DEF physical_init
  <2> QED BY <1>14, <2>1, <2>2, <2>3 DEF physical_init
<1>15. CASE map_resource(t, "nvme")
  <2>1. IOVA_WIDTH \in 1..64
    BY <1>0 DEF AccessTypeInv, AccessTypeOK
  <2>2. CASE Goto(t, "nvme") /\ UNCHANGED <<mutex, objects, refusals>>
    <3>1. Moves(t, "nvme", th[t].why)
      BY <1>0, <1>1, <1>15, <2>2, GotoMoves
    <3>3. Advances(t, "nvme")
      BY <1>15 DEF map_resource, Advances
    <3>2. /\ IOVA_WIDTH' \in 1..64
          /\ UNCHANGED <<gfds, mutex, opened, attached, iommuOn, bound, command, objects, taken,
                         inits, refusals>>
      BY <1>15, <2>1, <2>2 DEF map_resource
    <3> QED BY <3>1, <3>2, <3>3, AdvanceStep
  <2>3. CASE fail(t, "refused") /\ objects' = Dropped(th[t].dev)
    BY <1>2, <1>3, <1>15, <2>3 DEF map_resource, Dropped
  <2> QED BY <1>15, <2>2, <2>3 DEF map_resource
<1> QED
  BY <1>5, <1>6, <1>7, <1>8, <1>9, <1>10, <1>11, <1>12, <1>13, <1>14, <1>15 DEF AccessStep

\* The steps around it: the class check and the choice of the way in, the
\* controller's initialisation, the end of bring-up, the drop.
LEMMA ThreadSteps ==
  ASSUME AccessInv, NEW t \in Threads, start(t) \/ nvme_init(t) \/ identified(t)
  PROVE  AccessInv'
<1> USE DEF kernelVars, shareVars
<1>0. AccessTypeInv /\ th[t].dev \in Devices /\ IOVA_WIDTH \in 1..64
  BY DEF AccessInv, AccessTypeInv, AccessTypeOK
<1>1. {"identify", "idle"} \subseteq Places /\ "refused" \in Whys /\ th[t].why \in Whys
  BY <1>0 DEF Places, Whys, AccessTypeInv
<1>2. UNCHANGED command => CommandGrows
  BY <1>0 DEF CommandGrows, AccessTypeInv, AccessTypeOK
<1>3. CASE start(t)
  <2>1. ASSUME NEW d \in Controllers, NEW page \in Pages, init_with_page_size(t, d, page)
        PROVE  AccessInv'
    <3>1. d \in Devices
      BY DriverAssumption
    <3> QED BY <2>1, <3>1, BeginStep DEF init_with_page_size
  <2>2. ASSUME NEW d \in Devices \ Controllers, begin(t, d, "idle", "setup")
        PROVE  AccessInv'
    BY <2>2, BeginStep
  <2>3. ASSUME t \in IommufdUsers, init_iommufd(t) PROVE AccessInv'
    <3>1. Vfio0 \in Controllers /\ Vfio0 \in Devices
      BY <2>3, DriverAssumption, AccessAssumption
    <3> QED BY <2>3, <3>1, BeginStep DEF init_iommufd
  <2> QED BY <1>3, <2>1, <2>2, <2>3 DEF start
<1>4. CASE nvme_init(t)
  <2>1. CASE Goto(t, "identify") /\ UNCHANGED <<mutex, objects, refusals>>
    <3>1. Moves(t, "identify", th[t].why) /\ Advances(t, "identify")
      BY <1>0, <1>1, <1>4, <2>1, GotoMoves DEF nvme_init, Advances
    <3> QED BY <1>0, <1>4, <2>1, <3>1, AdvanceStep DEF nvme_init
  <2>2. CASE fail(t, "refused") /\ objects' = Dropped(th[t].dev)
    BY <1>0, <1>1, <1>2, <1>4, <2>2, FailMoves, EndStep DEF nvme_init, Dropped
  <2> QED BY <1>4, <2>1, <2>2 DEF nvme_init
<1>5. CASE identified(t)
  <2>1. Released(t) /\ refusals' \in 0..MaxRefusals
    BY <1>0, <1>5 DEF identified, Released, AccessInv, LockInv, At, Locked, AccessTypeInv,
                      AccessTypeOK
  <2>2. CASE Goto(t, "idle") /\ UNCHANGED objects
    <3>1. Moves(t, "idle", th[t].why)
      BY <1>0, <1>1, <2>2, GotoMoves
    <3>2. th[t].why = "busy" => is_enabled(th[t].dev) /\ TooLate(t)
      BY DEF AccessInv, BusyInv
    <3> QED BY <1>1, <1>2, <1>5, <2>1, <2>2, <3>1, <3>2, EndStep DEF identified
  <2>3. CASE /\ th' = [th EXCEPT ![t].at = "idle", ![t].why = "refused"]
             /\ objects' = Dropped(th[t].dev)
    <3>1. Moves(t, "idle", "refused")
      BY <1>0, <1>1, <2>3 DEF AccessTypeInv, Moves
    <3> QED BY <1>1, <1>2, <1>5, <2>1, <2>3, <3>1, EndStep DEF identified, Dropped
  <2> QED BY <1>5, <2>2, <2>3 DEF identified
<1> QED BY <1>3, <1>4, <1>5

\* A step that changes the objects at most by dropping some.
LEMMA AccessStutter ==
  ASSUME AccessInv, objects' \subseteq objects,
         UNCHANGED <<kernelVars, shareVars, mutex, th, taken, inits, refusals>>
  PROVE  AccessInv'
<1> USE DEF AccessInv, kernelVars, shareVars
<1>1. AccessTypeInv' /\ PlaceInv' /\ LockInv'
  BY DEF AccessTypeInv, AccessTypeOK, PlaceInv, LockInv, At
<1>2. SpaceInv' /\ GroupInv' /\ IoasInv'
  BY DEF SpaceInv, GroupInv, IoasInv, At, group
<1>3. ObjectInv' /\ BusyInv'
  BY DEF ObjectInv, BusyInv, Fresh, TooLate, At, group, GroupFree
<1> QED BY <1>1, <1>2, <1>3

\* Nobody has anything at first.
LEMMA AccessInitInv == AccessInit => AccessInv
<1> SUFFICES ASSUME AccessInit PROVE AccessInv
  OBVIOUS
<1> USE AccessAssumption DEF AccessInit, NoSpace
<1>1. Vfio0 \in Devices
  OBVIOUS
<1>2. AccessTypeInv
  BY <1>1 DEF AccessTypeInv, AccessTypeOK, Places, Whys, X86_VA_WIDTH
<1>3. PlaceInv /\ LockInv
  BY DEF PlaceInv, LockInv, At, GroupPlaces, Locked
<1>4. SpaceInv /\ GroupInv /\ IoasInv /\ ObjectInv
  BY DEF SpaceInv, GroupInv, IoasInv, ObjectInv, At, GroupPlaces, Locked
<1>5. BusyInv
  BY DEF BusyInv, Fresh, At, GroupFree
<1> QED BY <1>2, <1>3, <1>4, <1>5 DEF AccessInv
-----------------------------------------------------------------------------
\* The inductive invariant holds in every reachable state.
THEOREM Invariance == DriverSpec => []IndInv
<1>1. DriverInit => IndInv
  BY AccessInitInv, NsInitInv DEF DriverInit, IndInv
<1>2. IndInv /\ [DriverNext]_driverVars => IndInv'
  <2> SUFFICES ASSUME IndInv, [DriverNext]_driverVars PROVE AccessInv' /\ NsInv'
    BY DEF IndInv
  <2>0. AccessInv /\ NsInv
    BY DEF IndInv
  <2>1. \A t \in Threads : ~At(t, "idle") => th[t].dev \in Controllers
    BY <2>0 DEF AccessInv, PlaceInv
  <2>2. ASSUME UNCHANGED accessVars PROVE AccessInv'
    BY <2>0, <2>2, AccessStutter DEF accessVars
  <2>3. ASSUME NEW t \in Threads, start(t) PROVE AccessInv' /\ NsInv'
    BY <2>0, <2>3, ThreadSteps, NsStutter DEF start
  <2>4. ASSUME NEW t \in Threads, access(t) PROVE AccessInv' /\ NsInv'
    BY <2>0, <2>4, AccessSteps, NsStutter DEF access
  <2>5. ASSUME NEW t \in Threads, nvme_init(t) PROVE AccessInv' /\ NsInv'
    <3>1. th[t].dev \in Controllers
      BY <2>1, <2>5 DEF nvme_init, At
    <3> QED BY <2>0, <2>5, <3>1, ThreadSteps, FreshDevice, NsStutter DEF nvme_init
  <2>6. ASSUME NEW t \in Threads, identify(t) PROVE AccessInv' /\ NsInv'
    <3>1. th[t].dev \in Controllers
      BY <2>1, <2>6 DEF identify, At
    <3> QED BY <2>0, <2>2, <2>6, <3>1, NsStep DEF identify
  <2>7. ASSUME NEW t \in Threads, identified(t) PROVE AccessInv' /\ NsInv'
    BY <2>0, <2>7, ThreadSteps, NsStutter DEF identified
  <2>8. ASSUME NEW d \in Controllers, use(d) PROVE AccessInv' /\ NsInv'
    BY <2>0, <2>2, <2>8, NsStep DEF use
  <2>9. ASSUME NEW d \in Controllers, drop_device(d) PROVE AccessInv' /\ NsInv'
    BY <2>0, <2>9, AccessStutter, NsDrop DEF drop_device, Dropped
  <2>10. CASE UNCHANGED driverVars
    BY <2>0, <2>2, <2>10, NsStutter DEF driverVars
  <2> QED
    BY <2>3, <2>4, <2>5, <2>6, <2>7, <2>8, <2>9, <2>10 DEF DriverNext, ThreadStep
<1> QED BY <1>1, <1>2, PTL DEF DriverSpec

\* Type correctness of the composition.
THEOREM TypeCorrect == DriverSpec => []TypeOK
<1>1. IndInv => TypeOK
  BY DEF IndInv, AccessInv, AccessTypeInv, NsInv, DeviceNsInv, MapInv, TypeOK, NsTypeOK
<1> QED BY <1>1, Invariance, PTL

\* An object that was handed out can do DMA for its device, however the threads
\* interleave and whatever the kernel refuses.
THEOREM ObjectsAreUsable == DriverSpec => []ObjectsUsable
<1>1. IndInv => ObjectsUsable
  BY DEF IndInv, AccessInv, ObjectInv, ObjectsUsable
<1> QED BY <1>1, Invariance, PTL

\* A call is turned away only if another call took its group first.
THEOREM TakersGoOn == DriverSpec => []TakerGoesOn
<1>1. IndInv => TakerGoesOn
  BY DEF IndInv, AccessInv, BusyInv, TooLate, TakerGoesOn
<1> QED BY <1>1, Invariance, PTL

\* The map of a device that is up agrees with the controller, except where a
\* refusal or a format has made an entry doubtful.
THEOREM NamespacesAreExact == DriverSpec => []NamespacesExact
<1>1. IndInv => NamespacesExact
  <2> SUFFICES ASSUME IndInv, NEW d \in Controllers, stage[d] = "ready"
               PROVE  /\ \A id \in DOMAIN ctrl[d] \ doubtful[d] :
                           id \in DOMAIN namespaces[d] /\ namespaces[d][id] = ctrl[d][id]
                      /\ DOMAIN namespaces[d] \subseteq DOMAIN ctrl[d] \cup doubtful[d]
    BY DEF NamespacesExact
  <2>1. MapInv(d) /\ ExactInv(d)
    BY DEF IndInv, NsInv, DeviceNsInv
  <2>2. Pending(d) = {}
    BY <2>1 DEF MapInv, Pending
  <2> QED BY <2>1, <2>2 DEF ExactInv
<1> QED BY <1>1, Invariance, PTL

\* Operations on existing namespaces panic only after a refused command, or on
\* blocks that have outgrown the map.
THEOREM PanicsAreExplained == DriverSpec => []PanicsExplained
<1>1. IndInv => PanicsExplained
  BY DEF IndInv, NsInv, DeviceNsInv, CleanInv, PanicsExplained
<1> QED BY <1>1, Invariance, PTL
==============================================================================
