------------------------------- MODULE DataPath -------------------------------
(***************************************************************************)
(* The blocking transfers of NvmeDevice: write, read, write_prp,           *)
(* write_copied, read_copied, batched_write and batched_read.  A transfer  *)
(* is cut into chunks, a chunk into commands; a command names its memory   *)
(* by two PRP entries, the second of which is an address, or points into   *)
(* the device object's shared PRP list.                                    *)
(*                                                                         *)
(* Lengths and addresses are the real ones, in bytes.  Contents are        *)
(* tracked per sector of 512 bytes: every sector of memory, of the disk    *)
(* and of the caller's slice starts with a value of its own, and transfers *)
(* move values.  A block of the namespace is one or several sectors.  The  *)
(* rings below the commands are the subject of QueuePair.                  *)
(***************************************************************************)
EXTENDS Integers, FiniteSets

CONSTANTS
  BufferSize,  \* size of the device object's buffer: one page of the allocator
  QLen,        \* QUEUE_LENGTH
  Slices,      \* operation -> the slices it is called with, a set of [base, len]
  Lbas,        \* first blocks
  BlockSizes,  \* the block sizes the namespace may be formatted with
  BatchLens,   \* batch_len arguments
  MaxCalls,    \* bound: operations in one behaviour
  MaxFaults    \* bound: commands that fail on the controller

Page == 4096
Block == 512                     \* of write, read, namespace_io; a sector
ListLen == 512                   \* entries of the PRP list
MaxBlocks == 65536               \* blocks of a command: a u16, counted from 0
buffer == 4194304                \* buffer.phys
prp_list_phys == 8192            \* prp_list.phys

Direct == {"write", "read"}
Prp == {"prp_write", "prp_read"}            \* write_prp with write true, false
Copied == {"write_copied", "read_copied"}
Batched == {"batched_write", "batched_read"}
Writing == {"write", "prp_write", "write_copied", "batched_write"}
ThroughBuffer == Copied \cup Batched

Min2(a, b) == IF a < b THEN a ELSE b

\* The chunk length each operation passes to chunks(), and the lengths of the
\* chunks (DmaChunks) a slice is cut into.
chunk_size(op) ==
  IF op \in Direct THEN 2 * Page ELSE IF op \in Batched THEN 512 * Page ELSE 128 * Page
Chunks(op, len) == {Min2(chunk_size(op), len), len % chunk_size(op)} \ {0}

ASSUME PathAssumption ==
  /\ BufferSize \in Nat \ {0} /\ BufferSize % Page = 0
  /\ QLen \in Nat \ {0, 1} /\ MaxCalls \in Nat /\ MaxFaults \in Nat
  /\ DOMAIN Slices \subseteq Direct \cup Prp \cup Copied \cup Batched
  /\ Lbas \subseteq Nat /\ BatchLens \subseteq Nat \ {0}
  /\ BlockSizes \subseteq {Block, Page}

\* A Dma slice consists of whole sectors outside the buffer and starts a page
\* or lies within one: the code computes no PRP entries for other slices.
ASSUME SliceAssumption ==
  \A op \in DOMAIN Slices : \A s \in Slices[op] :
    /\ s.base \in Nat /\ s.len \in Nat \ {0}
    /\ op \notin ThroughBuffer =>
         /\ s.base % Block = 0 /\ s.len % Block = 0
         /\ s.base >= buffer + 512 * Page
         /\ s.base % Page = 0 \/ (s.base % Page) + s.len <= Page

VARIABLES
  prp_list,   \* NvmeDevice.prp_list: entry -> address
  mem,        \* DMA memory: sector address -> value, where it has changed
  disk,       \* namespace 1: sector -> value, where it has changed
  ns_block,   \* namespaces[1].block_size
  app,        \* the &[u8] of a copied operation, likewise, by sector
  pc,         \* step of the operation under way
  call,       \* its arguments: [op, base, len, lba, batch]
  at, lba,    \* bytes handed to the controller so far; next block
  i, batch,   \* commands of this chunk: next and number
  cmds,       \* commands submitted and not executed
  posted,     \* completions of this chunk
  status,     \* status of the last completion, TRUE: success
  hidden,     \* a command failed whose completion was not the last of its chunk
  before,     \* [mem, disk, app] when the operation was called
  calls, faults

dataVars == <<mem, disk, app>>
callVars == <<call, at, lba, i, batch, before>>
boundVars == <<ns_block, hidden, calls, faults>>
vars == <<prp_list, dataVars, pc, callVars, cmds, posted, status, boundVars>>

NoCall == [op |-> "none", base |-> 0, len |-> 0, lba |-> 0, batch |-> 1]
Nothing == [mem |-> <<>>, disk |-> <<>>, app |-> <<>>]

\* NvmeDevice::init fills the list: entry 0 is the buffer's second page.
Init ==
  /\ prp_list = [k \in 0..(ListLen - 1) |->
                   IF k < ListLen - 1 THEN buffer + (k + 1) * Page ELSE 0]
  /\ mem = <<>> /\ disk = <<>> /\ app = <<>>
  /\ pc = "idle" /\ call = NoCall
  /\ at = 0 /\ lba = 0 /\ i = 0 /\ batch = 1
  /\ ns_block \in BlockSizes
  /\ cmds = {} /\ posted = 0 /\ status = TRUE /\ hidden = FALSE
  /\ before = Nothing /\ calls = 0 /\ faults = 0

\* What is where: the sector itself as long as nothing was stored in it.
Value(store, kind, x) == IF x \in DOMAIN store THEN store[x] ELSE <<kind, x>>

\* A store with the sectors of new overwritten.
Stored(store, new) ==
  [x \in DOMAIN new \cup DOMAIN store |-> IF x \in DOMAIN new THEN new[x] ELSE store[x]]

Sectors(len) == (len + Block - 1) \div Block

\* Blocks of the namespace for len bytes, and sectors in a block.
Blocks(len) == (len + ns_block - 1) \div ns_block
spb == ns_block \div Block

(***************************************************************************)
(* Calls and chunks.                                                       *)
(***************************************************************************)
\* write, read and write_prp count in blocks of 512 bytes: they are called
\* only where the namespace does, too.
begin(op, s, b, k) ==
  /\ pc = "idle" /\ calls < MaxCalls
  /\ op \notin ThroughBuffer => ns_block = Block
  /\ calls' = calls + 1
  /\ call' = [op |-> op, base |-> s.base, len |-> s.len, lba |-> b, batch |-> k]
  /\ at' = 0 /\ lba' = b /\ i' = 0 /\ batch' = 1 /\ posted' = 0 /\ hidden' = FALSE
  /\ before' = [mem |-> mem, disk |-> disk, app |-> app]
  /\ pc' = "chunk"
  /\ UNCHANGED <<prp_list, dataVars, ns_block, cmds, status, faults>>

\* DmaChunks::next: the next part of the slice.
chunk_len == Min2(chunk_size(call.op), call.len - at)
chunk_addr == IF call.op \in ThroughBuffer THEN buffer ELSE call.base + at

panic ==
  /\ pc' = "panicked"
  /\ UNCHANGED <<prp_list, dataVars, callVars, cmds, posted, status, boundVars>>

\* copy_from_slice into self.buffer[..len]: the buffer holds the chunk.
CopyIn(len) ==
  [k \in {buffer + j * Block : j \in 0..(Sectors(len) - 1)} |->
     Value(app, "app", (at \div Block) + (k - buffer) \div Block)]

\* The controller's command.  The size of a block that decides on prp2, and
\* the pointer for more than two pages, differ between namespace_io and
\* submit_io.
Command(addr, blocks, size, list) ==
  [write |-> call.op \in Writing, lba |-> lba, blocks |-> blocks, prp1 |-> addr,
   prp2 |-> IF blocks * size <= Page THEN 0
            ELSE IF blocks * size <= 2 * Page THEN addr + Page ELSE list]

\* Faulty variant: the next chunk goes to the same blocks.
namespace_io_same_lba(addr, blocks) ==
  /\ cmds' = {Command(addr, blocks, Block, prp_list_phys + 8)}
  /\ posted' = 0
  /\ lba' = lba
  /\ batch' = 1 /\ i' = 1
  /\ pc' = "wait"
  /\ UNCHANGED <<call, at, before, status, boundVars>>

\* namespace_io: one command, its doorbell, then the wait for it.
namespace_io(addr, blocks) ==
  /\ cmds' = {Command(addr, blocks, Block, prp_list_phys + 8)}
  /\ posted' = 0
  /\ lba' = lba + blocks
  /\ batch' = 1 /\ i' = 1
  /\ pc' = "wait"
  /\ UNCHANGED <<call, at, before, status, boundVars>>

\* A chunk of write or read.
direct_chunk ==
  /\ pc = "chunk" /\ call.op \in Direct
  /\ namespace_io(chunk_addr, Sectors(chunk_len))
  /\ UNCHANGED <<prp_list, dataVars>>

\* write_prp lists the chunk's whole pages, from entry 0 on.
prp_chunk ==
  /\ pc = "chunk" /\ call.op \in Prp
  /\ prp_list' = [k \in 0..(ListLen - 1) |->
                    IF k < chunk_len \div Page THEN chunk_addr + k * Page ELSE prp_list[k]]
  /\ namespace_io(chunk_addr, Sectors(chunk_len))
  /\ UNCHANGED dataVars

\* A chunk of write_copied goes through the buffer; the slice of the buffer
\* must exist.
write_copied_chunk ==
  /\ pc = "chunk" /\ call.op = "write_copied" /\ chunk_len <= BufferSize
  /\ mem' = Stored(mem, CopyIn(chunk_len))
  /\ namespace_io(buffer, Blocks(chunk_len))
  /\ UNCHANGED <<prp_list, disk, app>>

read_copied_chunk ==
  /\ pc = "chunk" /\ call.op = "read_copied"
  /\ namespace_io(buffer, Blocks(chunk_len))
  /\ UNCHANGED <<prp_list, dataVars>>

\* batched_write, batched_read: the chunk is divided into batch_len commands.
batch_len == Min2(call.batch, chunk_len \div Block)
batch_size == chunk_len \div batch_len

batched_chunk ==
  /\ pc = "chunk" /\ call.op \in Batched /\ batch_len > 0
  /\ IF call.op = "batched_write"
     THEN chunk_len <= BufferSize /\ mem' = Stored(mem, CopyIn(chunk_len))
     ELSE UNCHANGED mem
  /\ batch' = batch_len /\ i' = 0 /\ posted' = 0
  /\ pc' = "push"
  /\ UNCHANGED <<prp_list, disk, app, call, at, lba, before, cmds, status, boundVars>>

\* Index out of bounds, or division by zero.
chunk_panics ==
  /\ pc = "chunk"
  /\ \/ call.op \in {"write_copied", "batched_write"} /\ chunk_len > BufferSize
     \/ call.op \in Batched /\ batch_len = 0
  /\ panic

\* NvmeDevice::submit_io: the list pointer moves with the address.
submit_io(addr, blocks) ==
  Command(addr, blocks, ns_block, prp_list_phys + (addr - buffer) \div 8)

piece_blocks == batch_size \div ns_block

\* Faulty variant: submit instead of submit_checked.
push_unchecked ==
  /\ pc = "push" /\ i < batch /\ piece_blocks > 0
  /\ cmds' = cmds \cup {submit_io(buffer + i * batch_size, piece_blocks)}
  /\ lba' = lba + piece_blocks
  /\ i' = i + 1
  /\ UNCHANGED <<prp_list, dataVars, pc, call, at, batch, before, posted, status,
                 boundVars>>

push ==
  /\ pc = "push" /\ i < batch /\ piece_blocks > 0 /\ i < QLen - 1
  /\ cmds' = cmds \cup {submit_io(buffer + i * batch_size, piece_blocks)}
  /\ lba' = lba + piece_blocks
  /\ i' = i + 1
  /\ UNCHANGED <<prp_list, dataVars, pc, call, at, batch, before, posted, status,
                 boundVars>>

\* Faulty variant: the queue is taken for full too early.
push_full_early ==
  /\ pc = "push" /\ i < batch /\ piece_blocks > 0 /\ i >= QLen - 3
  /\ lba' = lba + piece_blocks
  /\ i' = i + 1
  /\ UNCHANGED <<prp_list, dataVars, pc, call, at, batch, before, cmds, posted,
                 status, boundVars>>

\* submit_checked finds the queue full: the command is dropped.
push_full ==
  /\ pc = "push" /\ i < batch /\ piece_blocks > 0 /\ i >= QLen - 1
  /\ lba' = lba + piece_blocks
  /\ i' = i + 1
  /\ UNCHANGED <<prp_list, dataVars, pc, call, at, batch, before, cmds, posted,
                 status, boundVars>>

\* submit_io asserts that there is at least one block.
push_panics ==
  /\ pc = "push" /\ i < batch /\ piece_blocks = 0
  /\ panic

push_done ==
  /\ pc = "push" /\ i = batch
  /\ pc' = "wait"
  /\ UNCHANGED <<prp_list, dataVars, callVars, cmds, posted, status, boundVars>>

(***************************************************************************)
(* The controller executes the submitted commands in any order.            *)
(***************************************************************************)
Length(c) == c.blocks * spb                       \* in sectors
\* Sectors are counted from the start of the first page of the command.  Two
\* pages are at prp1 and prp2, more at prp1 and in the list prp2 points to.
FirstSector(c) == (c.prp1 % Page) \div Block
LastPage(c) == ((FirstSector(c) + Length(c) - 1) * Block) \div Page
PageAddr(c, p) ==
  LET entry == ((c.prp2 - prp_list_phys) \div 8) + p - 1
  IN  IF p = 0 THEN c.prp1 - (c.prp1 % Page)
      ELSE IF LastPage(c) = 1 THEN c.prp2
      ELSE IF entry \in 0..(ListLen - 1) THEN prp_list[entry] ELSE 0
DeviceAddr(c, k) ==
  LET byte == (FirstSector(c) + k) * Block
  IN  PageAddr(c, byte \div Page) + (byte % Page)

\* The sector of the command at address a of page p.
SectorAt(c, p, a) == (p * Page + (a % Page)) \div Block - FirstSector(c)

\* A controller accepts pages after the first only at page boundaries.
PrpValid(c) == \A p \in 1..LastPage(c) : PageAddr(c, p) % Page = 0

\* A PRP entry that the driver left 0: without an IOMMU page 0 is memory like
\* any other, with one nothing is mapped there.
ReachesPage0(c) == \E p \in 1..LastPage(c) : PageAddr(c, p) = 0

\* What a write leaves on the disk and a read in memory.
FirstOnDisk(c) == c.lba * spb
Written(c) ==
  [b \in FirstOnDisk(c)..(FirstOnDisk(c) + Length(c) - 1) |->
     Value(mem, "mem", DeviceAddr(c, b - FirstOnDisk(c)))]
Fetched(c) ==
  [a \in {DeviceAddr(c, k) : k \in 0..(Length(c) - 1)} |->
     LET p == CHOOSE q \in 0..LastPage(c) : PageAddr(c, q) = a - (a % Page)
     IN  Value(disk, "disk", FirstOnDisk(c) + SectorAt(c, p, a))]

\* An IOMMU drops what is sent to page 0, and the controller does not notice.
Arrivals(c) ==
  LET data == Fetched(c)
  IN  {data, [a \in DOMAIN data \ 0..(Page - 1) |-> data[a]]}

device_execute(c) ==
  /\ PrpValid(c)
  /\ \/ c.write /\ UNCHANGED mem /\ \E data \in {Written(c)} : disk' = Stored(disk, data)
     \/ ~c.write /\ UNCHANGED disk /\ \E data \in Arrivals(c) : mem' = Stored(mem, data)
  /\ cmds' = cmds \ {c} /\ posted' = posted + 1 /\ status' = TRUE
  /\ UNCHANGED <<prp_list, app, pc, callVars, boundVars>>

\* What the controller, or the IOMMU, always may refuse is no fault.
device_refuse(c) ==
  /\ IF PrpValid(c) /\ ~ReachesPage0(c)
     THEN faults < MaxFaults /\ faults' = faults + 1
     ELSE UNCHANGED faults
  /\ cmds' = cmds \ {c} /\ posted' = posted + 1 /\ status' = FALSE
  /\ hidden' = (hidden \/ posted + 1 < batch)
  /\ UNCHANGED <<prp_list, dataVars, pc, callVars, ns_block, calls>>

(***************************************************************************)
(* complete_io(n) returns when n completions are there, and looks at the   *)
(* status of the last; its callers unwrap the result.                      *)
(***************************************************************************)
Reading == call.op \in {"read_copied", "batched_read"}

\* copy_from_slice out of self.buffer[..len].
CopyOut(len) ==
  [s \in (at \div Block)..((at \div Block) + Sectors(len) - 1) |->
     Value(mem, "mem", buffer + (s - at \div Block) * Block)]

\* What follows the wait may panic: a bad status, a buffer shorter than the
\* chunk, or write_prp dividing by its number of whole pages.
WaitFails ==
  \/ ~status
  \/ Reading /\ chunk_len > BufferSize
  \/ call.op \in Prp /\ chunk_len < Page

\* Faulty variant: the caller's slice is not filled.
chunk_done_no_copy ==
  /\ pc = "wait" /\ posted = batch /\ ~WaitFails
  /\ at' = at + chunk_len
  /\ pc' = IF at' < call.len THEN "chunk" ELSE "idle"
  /\ UNCHANGED <<prp_list, dataVars, call, lba, i, batch, before, cmds, posted,
                 status, boundVars>>

chunk_done ==
  /\ pc = "wait" /\ posted = batch /\ ~WaitFails
  /\ app' = IF Reading THEN Stored(app, CopyOut(chunk_len)) ELSE app
  /\ at' = at + chunk_len
  /\ pc' = IF at' < call.len THEN "chunk" ELSE "idle"
  /\ UNCHANGED <<prp_list, mem, disk, call, lba, i, batch, before, cmds, posted,
                 status, boundVars>>

wait_panics ==
  /\ pc = "wait" /\ posted = batch /\ WaitFails
  /\ panic

Call ==
  \E op \in DOMAIN Slices : \E s \in Slices[op], b \in Lbas :
    \E k \in IF op \in Batched THEN BatchLens ELSE {1} : begin(op, s, b, k)

DriverStep ==
  \/ direct_chunk \/ prp_chunk \/ write_copied_chunk \/ read_copied_chunk
  \/ batched_chunk \/ chunk_panics \/ push \/ push_full \/ push_panics \/ push_done
  \/ chunk_done \/ wait_panics

DeviceStep == \E c \in cmds : device_execute(c) \/ device_refuse(c)

Next == Call \/ DriverStep \/ DeviceStep

Spec == Init /\ [][Next]_vars

\* The thread goes on with an operation it has begun; the controller executes
\* what it is given.
FairSpec == Spec /\ WF_vars(DriverStep) /\ WF_vars(DeviceStep)
-----------------------------------------------------------------------------
\* The variables have their types.
TypeOK ==
  /\ prp_list \in [0..(ListLen - 1) -> Nat]
  /\ pc \in {"idle", "chunk", "push", "wait", "panicked"}
  /\ call.op \in DOMAIN Slices \cup {"none"}
  /\ at \in 0..call.len /\ lba \in Nat
  /\ batch \in Nat \ {0} /\ i \in 0..batch /\ posted \in 0..batch
  /\ Cardinality(cmds) <= QLen - 1 /\ status \in BOOLEAN
  /\ \A c \in cmds : c.blocks \in 1..MaxBlocks
  /\ ns_block \in BlockSizes /\ hidden \in BOOLEAN
  /\ calls \in 0..MaxCalls /\ faults \in 0..MaxFaults

Returned(ops) == pc = "idle" /\ call.op \in ops
Span == 0..(Sectors(call.len) - 1)
OnDisk(s) == call.lba * spb + s

\* The sectors of the blocks that hold the slice: the last may be partly used.
Covered == {OnDisk(s) : s \in 0..(Blocks(call.len) * spb - 1)}

\* Memory outside the buffer, except the given sectors, is as it was.
OthersKept(written) ==
  \A a \in DOMAIN mem \ written :
    a \in buffer..(buffer + BufferSize - 1) \/ mem[a] = Value(before.mem, "mem", a)

\* What a write puts into sector s of its blocks.
Source(s) ==
  IF call.op \in ThroughBuffer THEN Value(before.app, "app", s)
  ELSE Value(before.mem, "mem", call.base + s * Block)

\* The commands of the call cover its chunks, and the PRP entries that the code
\* computes name their memory.  write_prp lists whole pages.  A copy has no
\* right entry for a third page (the list is entered one entry too late), and on
\* blocks of 4096 bytes none for a second.  A batch divides the chunk into whole
\* blocks, or into pieces smaller than one (which panics); the list is not used
\* for the pieces, and a piece starts a page if it needs a second.
Expressible ==
  \A len \in Chunks(call.op, call.len) :
    /\ call.op \in Prp => len % Page = 0 \/ len <= 2 * Page
    /\ call.op \in Copied => len <= Page \/ (len <= 2 * Page /\ ns_block = Block)
    /\ call.op \in Batched /\ len >= Block =>
         LET pieces == Min2(call.batch, len \div Block)
             size == len \div pieces
         IN  /\ len % (pieces * ns_block) = 0 \/ len < pieces * ns_block
             /\ \A p \in 0..(pieces - 1) :
                  \/ ((p * size) % Page) + size <= Page
                  \/ (p * size) % Page = 0 /\ size <= 2 * Page

\* The blocks hold the caller's sectors, in order.  Where complete_io(batch_len)
\* overlooked a failed command, a sector may have kept its old contents.
SliceOnDisk ==
  \A s \in Span :
    \/ Value(disk, "disk", OnDisk(s)) = Source(s)
    \/ hidden /\ Value(disk, "disk", OnDisk(s)) = Value(before.disk, "disk", OnDisk(s))

\* A write never changes the disk outside the blocks from lba on that the slice
\* needs, anybody's memory but the buffer, or the caller's slice, not even if
\* its PRP entries are wrong or it panics; and if they are right and it
\* returns, it has put the caller's sectors into these blocks, whatever
\* operation used the buffer and the PRP list before, whatever the block size
\* and in whatever order the controller executed the commands.
WritesExact ==
  /\ call.op \in Writing =>
       /\ \A b \in DOMAIN disk \ Covered : disk[b] = Value(before.disk, "disk", b)
       /\ OthersKept({}) /\ app = before.app
  /\ Returned(Writing) /\ Expressible => SliceOnDisk

\* What may be in the buffer's place for sector s of a batch from before: each
\* chunk overwrites the whole buffer of 4096 sectors.
Stale(s) ==
  {Value(before.mem, "mem", buffer + (s % 4096) * Block)} \cup
  {Value(disk, "disk", OnDisk(t)) : t \in {u \in 0..(s - 1) : (s - u) % 4096 = 0}}

\* A read never changes the disk, or of the caller's bytes any but the slice.
\* If its PRP entries are right and it returns, it has filled the slice, in
\* order, from the blocks from lba on, and nobody else's memory has changed.
\* Where complete_io overlooked a failed command, a sector of the slice may
\* instead have what the buffer held in its place before the call or from an
\* earlier chunk.
ReadsExact ==
  /\ call.op \notin Writing \cup {"none"} =>
       /\ disk = before.disk
       /\ IF call.op \in ThroughBuffer
          THEN \A s \in DOMAIN app \ Span : app[s] = Value(before.app, "app", s)
          ELSE app = before.app
  /\ Returned({"read", "prp_read"}) /\ Expressible =>
       /\ \A s \in Span :
            Value(mem, "mem", call.base + s * Block) = Value(disk, "disk", OnDisk(s))
       /\ OthersKept({call.base + s * Block : s \in Span})
  /\ Returned({"read_copied", "batched_read"}) /\ Expressible =>
       /\ \A s \in Span :
            \/ Value(app, "app", s) = Value(disk, "disk", OnDisk(s))
            \/ hidden /\ Value(app, "app", s) \in Stale(s)
       /\ OthersKept({})

\* A copied write that returns has stored the caller's bytes.
CopiesExact == Returned({"write_copied"}) => SliceOnDisk

\* No operation of the client brings the process down.
NoPanic == pc # "panicked"

\* Every operation ends, unless it waits for the completions of a batch that
\* was larger than the queue.
TransferReturns ==
  pc \in {"chunk", "push", "wait"} ~> pc \in {"idle", "panicked"} \/ batch > QLen - 1
==============================================================================
