# vroom in TLA+

vroom is a userspace NVMe driver in Rust. This directory holds TLA+ modules
that model its core, TLC configurations that check them on small instances, and
proofs, checked by TLAPS, that the safety properties hold for instances of every
size.

## The system

| component | source | state | operations | interacts with |
|---|---|---|---|---|
| submission and completion queues | `src/queues.rs` | ring memory, `head`, `tail`, `phase`, `len`, doorbell address | `submit`, `submit_checked`, `complete`, `complete_n`, `complete_spin`, `is_full`, `is_empty` | the controller, through DMA memory and doorbell registers |
| I/O queue pair | `src/nvme.rs`, `NvmeQueuePair` | the two queues, `id` | `submit_io`, `complete_io`, `quick_poll`, `quick_poll_result` | queues; owned by one client thread, concurrent with the controller |
| device bring-up and queue management | `src/nvme.rs`, `NvmeDevice` | registers, admin queues, first I/O queues, `q_id` | `init`, `create_io_queue_pair`, `delete_io_queue_pair`, `submit_and_complete_admin` | controller registers, allocator; shared by clients under a mutex |
| data path | `src/nvme.rs`, `src/memory.rs` | `buffer`, `prp_list`, `io_sq`, `io_cq` | `write`, `read`, `write_prp`, `write_copied`, `read_copied`, `batched_write`, `batched_read`, `DmaChunks` | controller; the caller's memory |
| DMA memory | `src/mapping.rs`, `vfio.rs`, `physical.rs`, `memory.rs` | page size, DMA windows, hugetlbfs files | `allocate`, `deallocate`, `set_page_size` | kernel (mmap, VFIO, pagemap) |
| namespaces | `src/nvme.rs`, `src/cmd.rs` | `namespaces` map, shared `buffer` | `identify_controller`, `identify_namespace_list`, `identify_namespace`, `format_namespace` | admin queue; transfers look blocks up in the map |
| device access | `src/vfio.rs`, `physical.rs`, `mapping.rs`, `pci.rs`, `macros.rs` | map of group descriptors behind a mutex, `IOVA_WIDTH`, descriptors in the kernel, PCI command register | `MemoryAccess::init_with_page_size`, `Vfio::init_with_args` (group or iommufd), `Physical::init_with_args`, `map_resource` | kernel; other threads of the process |
| library entry | `src/lib.rs` | none of its own | `init`, `init_with_page_size` | device access, `NvmeDevice::init`, namespaces |
| clients with a queue depth | `examples/throughput.rs`, `tests/queue_depth_test.rs` | counts of outstanding and completed commands | loop of poll, wait, submit; drain; delete | queue pair |
| kernel interface, errors | `ioctl_op.rs`, `vfio_structs.rs`, `error.rs` | none | constants, structures, messages | |
| other examples and tests | `examples/`, `tests/` | none | sequences of blocking transfers | data path |

What is hard here: the driver and the controller share two rings without a
lock, and the only sign of a new completion is one bit; the driver's idea of
the submission queue's head is a report from the past; the controller completes
in any order; every wait is a spin loop without a timeout; the controller keeps
addresses of memory the driver may give back, and outlives the driver process;
one PRP list and one buffer serve every transfer and every identify command,
whose failures mostly go unnoticed; sizes pass through truncating divisions,
page rounding and two ideas of a block; several threads share a map of
descriptors that no error path gives back. The list of hazards in `PROJECT.json` places each
of these at its line.

## Modules

| module | models | checked / proved |
|---|---|---|
| `IoChannel` | abstract: commands handed over, answers in any order, answers consumed in order | specification only |
| `Ring`, `RingLemmas` | ring arithmetic: slot and phase of an absolute position | lemmas proved |
| `QueuePair` | `queues.rs` and `NvmeQueuePair` against a controller | TLC, TLAPS |
| `QueuePairProofs`, `MCQueuePair` | inductive invariant and theorems about `QueuePair` | TLAPS, and TLC for the invariant |
| `DepthClient` | the clients with a queue depth, on top of `QueuePair` | TLC, TLAPS |
| `DepthClientProofs` | inductive invariant and theorems about `DepthClient`, on top of those of `QueuePair` | TLAPS, and TLC for the invariant |
| `NvmeDevice` | bring-up, creation and deletion of queue pairs, faults, death of the process | TLC, TLAPS |
| `NvmeDeviceProofs` | inductive invariant and theorems about `NvmeDevice` | TLAPS, and TLC for the invariant |
| `RegionPool` | abstract: callers get contiguous regions of their own | specification only |
| `DmaMemory` | `allocate`, `deallocate`, `set_page_size` of both backends; refines `RegionPool` | TLC, TLAPS |
| `DmaMemoryProofs` | inductive invariant, theorems and refinement of `DmaMemory` | TLAPS, and TLC for the invariant |
| `DataPath` | all blocking transfers, with chunks, PRP entries and lists, block sizes | TLC, TLAPS |
| `DataPathProofs`, `MCDataPath` | inductive invariant and theorems about `DataPath`; the slices it is checked with | TLAPS, and TLC for the invariant |
| `DeviceAccess` | how threads get hold of devices through VFIO, iommufd or sysfs | TLC and TLAPS, in `Driver` |
| `Namespaces` | the controller's namespaces and the map the device object keeps | TLC and TLAPS, in `Driver` |
| `NamespacesProofs` | what the operations of `Namespaces` preserve | lemmas proved |
| `Driver` | `init_with_page_size`: composition of `DeviceAccess` and `Namespaces`; use and drop of devices | TLC, TLAPS |
| `DriverProofs`, `MCDriver` | inductive invariant and theorems about `Driver`; the machines it is checked on | TLAPS, and TLC for the invariant |

A definition that begins with "Faulty variant" is a plausible bug, used only to
see that the properties notice it.

### QueuePair

`sq_head`, `sq_tail`, `cq_head`, `cq_phase` are the fields of the two queues,
`sqMem` and `cqMem` the rings in DMA memory, `sqTDBL` and `cqHDBL` the doorbell
registers. A driver call runs through `pc`: `submit_io` writes a slot
(`submit`), rings (`ring_sq`), and goes on with the next chunk or returns;
`complete_io(n)` jumps over n - 1 entries (`complete_n`), reads the phase tag
(`poll_hit`, `poll_miss`), copies the entry (`complete`), rings and returns
(`ring_cq`). Each access to shared memory is a step, so the controller
(`device_fetch`, `device_post`, external) acts between any two of them. A
command is its submission ordinal; addresses and block numbers of commands are
the subject of `DataPath`. `outstanding` is the count a client keeps from
return values, as in `examples/` and `tests/`. `submitted`, `reaped`, `posts`
and `heads` are history variables.

Two preconditions of the callers are stated, because the code does not check
them: `complete_io(n)` is used with n below the ring length (`WaitAssumption`)
and with no more than the outstanding commands (guard of `complete_io`).
Otherwise the spin loop never ends.

### DepthClient

Extends `QueuePair` and replaces its arbitrary client by the loop of
`qd_n_multithread` (polls with `quick_poll`) and `qd_n` (polls with
`quick_poll_result` and exits on a failure). `stage` is the place in that loop
between two calls; `outstanding_ops` and `total_io_ops` are the client's own
counts, kept without looking at what `submit_io` returns. The elapsed time is a
choice: the loop may end before any iteration, and does at the latest at
`MaxCmds`. The threads of `qd_n_multithread` share only the device's mutex
during allocation, creation and deletion, which `NvmeDevice` covers, so one
thread with its queue pair stands for all. The preconditions of `QueuePair` on
`complete_io` are conjuncts of its action; that this client always meets them is
`WaitsCovered`, and that it is not stuck for failing to, `ClientEnds`.
`EveryRequestPushed` says that the part of the buffer a command uses is inside
the buffer; that it is not shared with a command in flight is not true (the part
is chosen by the number of outstanding commands) and nothing claims it.

### NvmeDevice

One operation runs at a time (the object is shared behind a mutex), the
controller runs concurrently. A DMA region is a number; `mapped` are the regions
the device may access, `sqs`, `cqs`, `asq`, `acq` what the controller remembers.
The controller may refuse any command, allocations and unmappings may fail, and
the process may die between any two steps (`crash`), leaving the controller
running; the next `init` has to cope. `die` is also what a failed assertion
does. Error paths follow the code: nothing is undone on the way out of `init`
and `create_io_queue_pair`, memory is leaked, and `delete_io_queue_pair` leaves
the queue pair with its caller. A precondition of `create_io_queue_pair(len)`
that the code does not check is `len <= QUEUE_LENGTH`, which all callers meet:
the controller is told `len - 1`, while the rings use `min(len, QUEUE_LENGTH)`
entries. The length is therefore not a part of this model; that of the rings is
`QLen` of `QueuePair`.

### DmaMemory

Addresses are units of the smallest page. `host` is the address space, `iommu`
the DMA windows, `files` the hugetlbfs files, `dmas` what callers hold. The
kernel is modelled by what the code relies on (`MmapChoices`, `MunmapOk`), and
may refuse requests. A deallocation that removed the DMA window and then fails
is counted as given back: the caller cannot use the memory any more. A
deallocation is one step: that the window goes before the memory, and not after
it, is in the code's order and not visible to `NoWindowToFreed`, which sees a
window that outlives the call.

`RegionPool` is what is left of the allocator for its callers and the device:
an address belongs to the allocation that is mapped there as long as its holder
has it and the device reaches it (`Owner`). `ImplementsPool` checks that each
step of either backend takes unowned addresses for one new region, gives back
one whole region, or changes nothing.

### DataPath

Lengths, addresses, page and list sizes are the real ones; contents are tracked
per 512 byte sector as symbolic values, so a wrong address shows up as a wrong
value. Each chunk becomes one command (`namespace_io`) or a batch (`push`); the
controller (external) follows the PRP entries and the list as the commands name
them, and refuses pages that are not aligned. An entry that the driver left 0
(`ReachesPage0`) is an address like any other: without an IOMMU the controller
transfers at physical page 0 and reports success; with one a read's data is
dropped there without the controller noticing (`Arrivals`), or the command
fails; the model has all three. Panics (`unwrap` of a failed
completion, slices beyond the buffer, divisions by zero) are steps. With
`QUEUE_LENGTH` = 16384 a batch of at most 4096 commands never fills the queue;
`push_full` is the branch the code has for it, and is reached in the model with
a short queue. `ns_block` is the block size in the map of namespaces: the
copied and batched transfers divide by it, while `namespace_io` decides on the
PRP entries with 512 byte blocks; with 4096 byte blocks a copy of more than one
page therefore lacks its second entry, and a batch cut into pieces below a block
trips the assertion (`push_panics`). `hidden` records that a command failed whose completion was not
the last of its batch: the driver cannot know, and the properties allow for it
exactly the sectors that were left as they were; for a read these have what the
buffer held in their place before the call, or from an earlier chunk (`Stale`).
Assumed: `write`, `read` and `write_prp` are used with 512 byte blocks only
(hardcoded); slices start a page or lie within one (`SliceAssumption`).

`Expressible` says of a call that the PRP entries the code computes name the
memory of every chunk: `write_prp` lists whole pages; a copy has a right second
entry for 512 byte blocks only, and never a right third one; the pieces of a
batch divide the chunk into whole blocks, start a page if they need two, and
need no third. It is no assumption of the model: other calls are made in the
runs as well. `WritesExact` and `ReadsExact` have a part that holds for every
call, also one with wrong entries or that panics (nothing outside the blocks,
the buffer or the slice of the call changes, but for a read the memory), and a
part about the data that holds for expressible calls; `copied_three_pages` shows
what can happen to the data of others. The statistics counters are left out;
nothing reads them.

### DeviceAccess, Namespaces, Driver

A thread's call runs through `th[t].at`. For VFIO: the width of the IOMMU
(`check_intel_iommu`), a new container, the mutex (`lock`), the group (opened
and attached, or found in `gfds`), `set_iommu`, the device and the bus master
bit (`get_device`), then the registers (`map_resource`). Each system call is a
step that succeeds, fails because the kernel cannot grant it ("busy"), or is
refused ("refused", bounded); the early return releases the mutex and nothing
else. The kernel is external: a group is opened once and excludes iommufd, and
`VFIO_SET_IOMMU` needs a container with a group and without an IOMMU. Assumed:
iommufd is used for the device that `/dev/vfio/devices/vfio0` is, the only path
the code opens; a device without an IOMMU has one object at a time, since
nothing prevents a second. `taken` records which call took a group, by opening
it or by binding its device to iommufd.

The buffer of a device object is abstracted to the kind of its contents, which
is what identify commands whose failure is ignored decode instead of an answer.
`doubtful` are the namespaces the map may be wrong about, `denied` the devices
that refused a command for reasons of their own. A transfer unwraps the look-up,
divides by the block size and unwraps the completion; it may fail, without a
refusal that counts, if a format has given the namespace larger blocks than the
map says (`Outgrown`): the command then asks for more than the namespace has, or
than its PRP entries name. That a command of a fresh entry may fail for its PRP
entries is the subject of `DataPath` and counts as a refusal here. Assumed: at most six namespaces, so that a list decoded
as namespace data gives block size 0, and what identify controller data reads
like as a list (`Words`) are not ids of namespaces. The controller's list is any
ascending list of its first `ListLen` ids (`ListsOf`; with at most `ListLen`
namespaces there is one). `Driver` joins the two along
`init_with_page_size`, with the rest of `NvmeDevice::init` as one step that
succeeds or fails. No type implements `Drop`: `drop_device` leaves the kernel's
state as it is.

## Runs

| run | shows | bounds |
|---|---|---|
| `rings` | type; no command overwritten; the phase tag selects the awaited completion; the client's count is exact; a drained queue is empty; a full queue is busy; failures are reported; refinement of `IoChannel`; the inductive invariant of the proofs | rings of 3 slots, 5 commands: both rings wrap, n = 1, 2, both outcomes |
| `laps` | no completion is overwritten before it is copied; `complete_io` ends | 6 commands, two laps of both rings: the controller needs a sixth command before it can catch up with the driver's head; fair controller |
| `depth` | the depth clients: every wait is covered, every request is pushed, totals are exact, failures stop the test, the client ends; the inductive invariant of the proofs | depth 2 on rings of 3 slots (the tightest case), 6 commands, both outcomes, both ways of polling |
| `queues` | the controller never keeps a ring in unmapped memory once it was reset; every queue pair in use is backed; admin registers change only while the controller is off; every wait ends; the inductive invariant of the proofs | 3 faults, 1 death, 3 doorbells, 20 regions |
| `held_memory` | memory somebody holds stays mapped and reachable; no window to freed memory; refinement of `RegionPool`; the inductive invariant of the proofs | 8 units, 3 page sizes, 3 allocations, 1 refusal, both backends |
| `transfers` | no transfer touches what it has no business with; what an expressible transfer that returns has moved is exactly what was asked; every transfer ends, in a panic if need be, unless its batch exceeds the queue; the inductive invariant of the proofs | 2 calls of every kind, expressible or not, up to 3 chunks, a PRP list of 128 pages followed by a 129th page, 1 failing command, blocks of 512 and 4096 bytes |
| `bringup` | objects handed out can do DMA; a call is turned away only if another took its group first; the map of namespaces is exact but for what is doubtful; panics need a refused command or blocks that have outgrown the map; every initialisation ends; the inductive invariant of the proofs | 2 threads, 2 devices in a group, 1 without IOMMU, 1 of another class; formatting enlarges the blocks of one and shrinks those of the others; 2 initialisations, 1 refused call, 1 refused command, 2 uses |
| `page_size_grows`, `narrow_iommu`, `copied_three_pages`, `page4k_buffer`, `second_device` | disagreements, below | |

Three slots are the smallest ring on which full, empty and a jump of
`complete_n` over the end differ; two would make "full" and "one outstanding"
the same. `complete_n` and the flip in `complete` meet in all positions with
n = 1, 2. Larger rings and longer behaviours are covered by the proofs. In
`queues` the bounds allow a creation that fails between its two commands, its
retry, a deletion that fails halfway and its retry, and a death in any of these
states. Two initialisations are enough in `bringup` for a race, for a second
device of a group and for a device brought up again after it was dropped. In
`held_memory` eight units hold two allocations of two pages with a
neighbour on either side.

`CHECK_DEADLOCK FALSE` appears where the client may stop calling or the process
may have panicked, ended or exited; `rings` and `laps` check deadlock: a client
can always poll.

### Fairness

`FairSpec` assumes weak fairness of the driver's steps within a call (the thread
that made the call keeps running; a call has no other thread to wait for) and of
the controller's (it fetches what is announced and answers what it fetched,
follows CC.EN, answers admin commands). `ClientSpec`
adds the client thread, whose loop ends because time passes (`drain` is the only
step left at the bound), and `DriverSpec` assumes that each thread goes on with
its initialisation; the mutex needs no strong fairness, since an initialisation
takes it once and a thread initialises a bounded number of times. Nothing
obliges a client to make a call otherwise, and no fairness is assumed for faults or deaths.

### Disagreements found

* `page_size_grows`: `Vfio::deallocate` rounds with the page size of now. After
  `set_page_size` to larger pages it unmaps memory beyond the allocation.
* `narrow_iommu`: `allocate_2mib` unmaps the slack in front of the aligned
  address; if there is none, `munmap` of length 0 fails and so does the call.
* `copied_three_pages`: `init` puts the second page at entry 0 of the PRP list,
  `namespace_io` starts at entry 1; copied transfers above 8192 bytes skip a page.
  Blocks of 4096 bytes break `CopiesExact` in another way, for copies above one
  page (take `BlockSizes = {4096}` and a slice of 6144 bytes to see it):
  `write_copied` counts blocks of the namespace's size, `namespace_io` takes them
  for 512 bytes each and leaves the second PRP entry 0. Without an IOMMU the
  controller transfers at physical page 0 and the call returns Ok; half of what
  is on the disk is not the caller's.
* `page4k_buffer`: the "2MiB of buffer" is 4 KiB with 4 KiB pages; larger copied
  transfers panic.
* `second_device`: every `init_with_args` opens a new container, but only the
  first for a group attaches the group; `VFIO_SET_IOMMU` of the second container
  fails. A second device of a group, or a device dropped and initialised again,
  cannot be used.

The models also contain behaviour that no text of the repository speaks about,
and that no run therefore reports: `write_prp` overwrites the list that batched
transfers of more than two pages per command rely on, and lists only whole
pages; `submit_io` moves its pointer into the list 64 times too far for every
command of a batch but the first; a batch whose first commands fail returns Ok;
a namespace that was formatted keeps its old block size in the map;
`IOVA_WIDTH` is overwritten by the next device's IOMMU;
`Physical::deallocate` leaves the hugetlbfs file and its pages. The calls of
`transfers` reach the first three of these, in sequences in which `write_prp`
has replaced the list before; its properties say of them only what no call may
do.

## Proofs

The theorems hold for every value of the constants that satisfies the named
assumptions; TLC evaluates these in the runs, and checks every inductive
invariant on a small instance (`rings`, `depth`, `queues`, `held_memory`,
`transfers`, `bringup`). None of the properties is inductive as it stands, so each module
has an invariant `IndInv` (`ClientInv` on top of it for the client) made of named
parts, a lemma per action, or per part, that the steps keep it, and theorems
that read the properties off it.

### Queue pair (`QueuePairProofs`)

Proved for every ring length of at least 2, every bound, every set of outcomes
and calls: type correctness, `SubmissionsIntact`, `CompletionsIntact`,
`EntryIsAwaited`, `OutstandingExact`, `DrainedIsEmpty`, `FullOnlyWhenBusy`,
`FailureReported`, and that `QueuePair` implements `IoChannel`. Assumptions:
`QLenAssumption`, `BoundAssumption`, `WaitAssumption`, `OutcomeAssumption`,
`CallAssumption`.

A ring index says nothing about the lap it is on. The invariant therefore ties
every index and phase to an absolute position that history variables count:

* `SqInv`: `sq_tail`, the tail doorbell and `sq_head` are the slots of
  `submitted`, the announced commands and the head reported with the last
  consumed completion; reaped <= reported head <= fetched <= announced, and
  `submitted` stays within one ring length of the reported head.
* `HeadsInv`: reported heads grow, and the i-th is at least i.
* `CqInv`: `cq_head` and `cq_phase` are slot and phase of the awaited position;
  the controller is less than a ring length ahead of the doorbell.
* `RingInv`: the slots of the last QLen positions carry their phases. This is
  what makes a stale tag recognisable: the awaited slot holds either the awaited
  position or the one a lap earlier, which has the other phase (`PhaseTells`).
* `EntryInv`, `CallInv`, `CmdInv`: the entry in hand, the locals of the call, and
  that every fetched command is either in flight or answered (by counting, so
  that the completion of the last answered command reports all of them fetched).

`RingLemmas` supplies the arithmetic of slots and phases (`SlotDistinct`,
`SlotLap`, `WrapsToZero`), since modulo by a variable is beyond the solvers.
One lemma per action shows that it keeps `IndInv`; the refinement maps each
action to a step of `IoChannel` or to a stutter.

### Clients with a queue depth (`DepthClientProofs`)

Proved for every ring length and every depth below it: `WaitsCovered`,
`EveryRequestPushed`, `TotalsExact`, `FailureStops`, and `ClientSpec => Spec`,
by which every theorem about the queue pair holds with this client.
`DepthAssumption` is what the clients do: the depth is below the ring length and
`complete_io` is among their calls.

The client never looks at what `submit_io` returns. `ClientInv` says at every
point of the loop by how much its two counts are off from the queue pair's:
`Uncounted(pushed, consumed)`. With `FullBusy` of `QueuePairProofs`, fewer than
`QLen - 1` outstanding commands mean a push succeeds; with `DrainedEmpty` the
last wait leaves the queue empty. `FailInv` carries that no consumed completion
has failed unless the call that consumed it has just returned so.

### Bring-up and queue management (`NvmeDeviceProofs`)

Proved for every number of doorbells (at least one I/O queue has one,
`DeviceAssumption`), of queues the controller grants, faults, deaths and regions:
type correctness, `CtrlMemoryMapped`, `PairsBacked`, and the action property
`AdminRegsStable`. The invariant: `EnableInv` (CC.EN and CSTS.RDY follow the steps of
`init`; a controller that is not ready has no queues), `CommandInv` (the command
under way is the one the operation waits for, or that of a process that died),
`IdInv` and `DisjointInv` (no id and no region is used for two things, also
after failed creations and deletions that are tried again), `MappedInv`,
`QueueInv` (the memory of a pair is used by the queues of its id only: this is
why unmapping after a deletion cannot hit another queue), `ProgressInv` (how far
the pair under way has got on the controller).

### DMA memory (`DmaMemoryProofs`)

Proved for every address space, every set of page sizes of which the larger are
multiples of the smaller, both backends and any sequence of requests: type
correctness; and, under `GrowWhileHeld = FALSE`, `HeldMemoryIntact`,
`NoWindowToFreed` and the refinement of `RegionPool`. The hypothesis is needed:
`page_size_grows` is the counterexample without it. `HeldInv` adds to the
properties that a held region is a multiple of the current page size, so that the
rounding in `deallocate` gives back what `allocate` took, that numbers are
unique, and that each window belongs to a held region. `Division`, `Multiple` and
the lemmas after them are the arithmetic of rounding.

### Device access, namespaces, library entry (`NamespacesProofs`, `DriverProofs`)

Proved for every set of threads, devices and groups, every layout of namespaces
within the list's length, and every pattern of refusals: type correctness,
`ObjectsUsable`, `TakerGoesOn`, `NamespacesExact`, `PanicsExplained`.
Assumptions: `AccessAssumption`, `NamespaceAssumption` (layouts are finite and
well typed, see above), `DriverAssumption` (iommufd is used only if the device
behind `vfio0` is an NVMe controller).

The threads' part of the invariant, `AccessInv`, says what a thread at each place
has got: `LockInv` (the mutex is held exactly between `lock` and the end of
`init_with_args`), `SpaceInv` (a container belongs to one call), `GroupInv` (a
group is in `gfds` only if it is open; a thread that goes for the device has its
group attached to its own container, which has an IOMMU), `IoasInv`,
`ObjectInv`, `BusyInv` (a group is not free exactly if some call took it, and
that is another one if the call at hand has not got it: from the moment a group
is taken every other call for it comes too late, `TakeStep`). `NsInv` says of each device that what is
neither identified nor doubtful is still to be identified (`ExactInv`), and that
without a refusal every entry has a block size and only outgrown blocks make an
operation panic (`CleanInv`). The one fact about
data is `ListComplete`: an ascending list as long as the set of ids has them all.
`Moves`, `Released` and `CommandGrows` describe a step of a thread to the others,
so that each lemma deals with one way a step can look.

### Data path (`DataPathProofs`)

Proved for every buffer, queue length, set of slices, first blocks and batches
within `PathAssumption` and `SliceAssumption`: type correctness (`TypeCorrect`),
among it that a batch puts no more commands on the queue than it holds; and, for
any number of calls and chunks and any order in which the controller executes the
commands, `WritesExact` and `ReadsExact`. The theorems have no hypothesis; the
condition `Expressible` is in the properties, on the part about the data, and is
needed there: `copied_three_pages` is a counterexample without it, and so is a
copy of more than a page on 4096 byte blocks.

The properties speak of a call that has returned; the invariant follows it there.
A chunk consists of pieces, one for each command: `batch` of them in a batched
operation, one in the others, and piece p begins at sector
`PieceStart(p) = p * PieceSectors` of the chunk.

* `CallInv`: `at` is at a chunk boundary, and `lba` is where the chunk begins on the
  disk plus what its pieces so far take up. `Geometry`, `PieceFacts` and `Covering`
  turn this into arithmetic of sectors: the pieces of a chunk lie apart, and
  together they are the chunk. This is where the truncating divisions of
  `batched_write` matter, and where `Expressible` is used (`WholePieces`).
* `CommandInv`: every command on the queue stays within the blocks of the call.
  If the call is `Expressible`, it is for one of the pieces and its pages follow
  each other in memory (`Contiguous`). The list is shared, so this holds only
  because each chunk of `write_prp` fills it before its command and no other
  command of an expressible call needs it; `TwoPages`, `ListedPages` and
  `PagesReached` go through the cases of prp2. From it, `WriteEffect` and
  `ReadEffect` say which sectors a command moves.
* `KeptInv`: what no call changes, whatever its PRP entries name. A write keeps the
  rest of the disk and all memory but the buffer; a read keeps the disk, and one
  through the buffer the rest of the caller's bytes.
* `WriteInv`, `CopiedReadInv`, `DirectReadInv`, of expressible calls: the sectors of the chunks before
  `at` are done; a sector of the chunk under way is done, or as it was and then
  its piece is `Outstanding` (not pushed, dropped, or on the queue) or some
  command `Failed`; nothing else has changed. When the completions of the chunk
  are all there, no piece is outstanding (`WaitOver`, by counting), and with a good
  last status only a hidden failure is left. For writes the invariant also says
  that the memory of the chunk holds the caller's data until the chunk is done, and
  for copied reads what the buffer may hold for each sector (`Stale`), which grows
  from chunk to chunk as the buffer is used again (`StaleLater`).

One lemma per action or group of actions (`BeginStep`, `ChunkStep`, `QuietStep`,
`ExecuteStep`, `DoneStep`, `PanicStep`) shows that it keeps the data part.

### Only model-checked

The liveness properties, since fairness is out of the prover's reach:
`SpinReturns`, `ClientEnds`, `OperationsReturn`, `InitReturns` and
`TransferReturns`. Of the data path, what happens to the data of calls that are
not `Expressible` is shown by counterexample and not characterised any further.

## Not modelled

* Constants and structures of the kernel interface, error types: no state. Among
  them `IOMMU_IOAS_MAP_READABLE`, which has the value of
  `IOMMU_IOAS_MAP_WRITEABLE`; the library never takes the iommufd way itself.
* Commands of `cmd.rs` that are never submitted (features, log pages, events,
  write zeroes).
* Physical addresses: `virt_to_phys` reads `/proc/self/pagemap`, for the first
  page of an allocation only.
* Memory ordering: accesses to shared memory take effect in program order. On
  x86, the code's platform, this is right for registers and doorbells, which are
  accessed volatile. The rings are read and written by plain accesses
  (`queues.rs:87`, `121-129`): that the phase tag is read before the rest of the
  entry, and a slot written before the doorbell, is an assumption about the
  compiler.
* Command identifiers (id and tail of the queue, which repeat): the driver never
  reads them back.
* The contents of reused hugetlbfs files: rings start zeroed.
* The remaining examples and tests: they call blocking transfers one after the
  other, which the client of `DataPath` does in any order; measuring and
  printing are left out. `qd_n_multithread_latency_nanos` in `latency.rs`, whose
  ring is as long as its depth, is never called.

## Further work

Composition of `NvmeDevice` with `DmaMemory`: page size changes while queues are
live, and the contents of reused memory.
