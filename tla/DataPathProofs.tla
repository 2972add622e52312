---------------------------- MODULE DataPathProofs ----------------------------
(***************************************************************************)
(* The safety properties of DataPath for every buffer, queue length, batch *)
(* and slice.  The invariant follows a transfer chunk by chunk, and a      *)
(* chunk piece by piece: a piece is what one command moves, a batch has    *)
(* several and the other operations have one.  What it says of contents    *)
(* is said of calls that are Expressible.                                  *)
(***************************************************************************)
EXTENDS DataPath, FiniteSetTheorems, TLAPS

Busy == pc \in {"chunk", "push", "wait"}
InChunk == pc \in {"push", "wait"}

\* The first block of the chunk under way, and the pieces of the chunk.
FirstBlock == call.lba + at \div ns_block
PieceBlocks == IF call.op \in Batched THEN piece_blocks ELSE Blocks(chunk_len)
PieceSectors == PieceBlocks * spb
PieceStart(p) == p * PieceSectors       \* in sectors of the chunk
PieceAddr(p) == chunk_addr + PieceStart(p) * Block

\* The types, and how many commands a batch has on the queue.
TypeInv ==
  /\ TypeOK
  /\ IsFiniteSet(cmds) /\ posted + Cardinality(cmds) <= Min2(i, QLen - 1)
  /\ call \in [op : DOMAIN Slices \cup {"none"}, base : Nat, len : Nat, lba : Nat,
               batch : Nat \ {0}]
  /\ pc # "idle" => call.op # "none"
  /\ Busy => at < call.len
  /\ pc \in {"idle", "chunk"} => cmds = {}
  /\ pc = "push" => call.op \in Batched /\ batch = batch_len

\* How far the call has got.
CallInv ==
  /\ call.op # "none" =>
       /\ \E s \in Slices[call.op] : s.base = call.base /\ s.len = call.len
       /\ call.op \in Batched => call.batch \in BatchLens
       /\ call.op \notin ThroughBuffer => ns_block = Block
       /\ pc = "idle" => at = call.len
  /\ Busy => at % chunk_size(call.op) = 0 /\ call.lba <= lba
  /\ pc = "chunk" => lba <= FirstBlock /\ (Expressible => lba = FirstBlock)
  /\ InChunk => /\ lba <= FirstBlock + i * PieceBlocks
                /\ Expressible => lba = FirstBlock + i * PieceBlocks
                /\ i > 0 => PieceBlocks > 0
                /\ batch = IF call.op \in Batched THEN batch_len ELSE 1
  /\ pc = "wait" => i = batch
  /\ hidden => call.op \in Batched

\* The pages of the command follow each other in memory.
Contiguous(c) ==
  \A p \in 0..LastPage(c) : PageAddr(c, p) = c.prp1 - (c.prp1 % Page) + p * Page

\* Every command stays within the blocks of the call; if the call is
\* expressible, it is for a piece and reaches the piece's memory.
CommandInv ==
  \A c \in cmds :
    /\ InChunk /\ i > 0
    /\ c.write = (call.op \in Writing) /\ c.lba \in Nat /\ c.blocks = PieceBlocks
    /\ call.lba <= c.lba /\ c.lba + c.blocks <= call.lba + Blocks(call.len)
    /\ Expressible =>
         /\ \E p \in 0..(i - 1) : /\ c.lba = FirstBlock + p * PieceBlocks
                                  /\ c.prp1 = PieceAddr(p)
         /\ Contiguous(c)

\* A piece that is not on the disk, or in memory, yet, and a command that failed.
Outstanding(p) == p >= Min2(i, QLen - 1) \/ \E c \in cmds : c.prp1 = PieceAddr(p)
Failed == hidden \/ (posted = batch /\ ~status)

\* The pieces' sectors that belong to the slice.
ChunkSector(p, k) == PieceStart(p) + k < Sectors(chunk_len)
SectorOf(p, k) == at \div Block + PieceStart(p) + k

NowOnDisk(s) == Value(disk, "disk", OnDisk(s))
OldOnDisk(s) == Value(before.disk, "disk", OnDisk(s))

\* What no call changes, whatever its PRP entries are.
OutsideKept == \A b \in DOMAIN disk \ Covered : disk[b] = Value(before.disk, "disk", b)
RestOfApp == \A s \in DOMAIN app \ Span : app[s] = Value(before.app, "app", s)
KeptInv ==
  /\ call.op \in Writing => OutsideKept /\ OthersKept({}) /\ app = before.app
  /\ call.op \notin Writing \cup {"none"} => disk = before.disk
  /\ call.op \in ThroughBuffer \ Writing => RestOfApp
  /\ call.op \notin ThroughBuffer \cup {"none"} => app = before.app

\* A write: what is done, what the commands of the chunk will move, which
\* sectors of it they have moved, and what is still as it was.
DoneWritten ==
  \A s \in 0..(Sectors(at) - 1) :
    NowOnDisk(s) = Source(s) \/ (hidden /\ NowOnDisk(s) = OldOnDisk(s))
ChunkLoaded ==
  \A j \in 0..(Sectors(chunk_len) - 1) :
    Value(mem, "mem", chunk_addr + j * Block) = Source(at \div Block + j)
ChunkWritten ==
  \A p \in 0..(batch - 1), k \in 0..(PieceSectors - 1) :
    ChunkSector(p, k) =>
      \/ NowOnDisk(SectorOf(p, k)) = Source(SectorOf(p, k))
      \/ /\ NowOnDisk(SectorOf(p, k)) = OldOnDisk(SectorOf(p, k))
         /\ Failed \/ Outstanding(p)
RestKept ==
  \A s \in Span :
    s >= Sectors(IF InChunk THEN at + chunk_len ELSE at) => NowOnDisk(s) = OldOnDisk(s)

WriteInv ==
  call.op \in Writing /\ pc # "panicked" =>
    /\ DoneWritten /\ (InChunk => ChunkLoaded /\ ChunkWritten) /\ RestKept
    /\ call.op \notin ThroughBuffer => mem = before.mem

\* The first chunk is the longest: the buffer holds all of them.
Fits == Min2(chunk_size(call.op), call.len) <= BufferSize

\* A read through the buffer, and a read into the caller's memory, likewise.
DoneCopied ==
  \A s \in 0..(Sectors(at) - 1) :
    Value(app, "app", s) = NowOnDisk(s) \/ (hidden /\ Value(app, "app", s) \in Stale(s))
BufferStale ==
  \A j \in 0..(Sectors(chunk_len) - 1) :
    Value(mem, "mem", buffer + j * Block) \in Stale(at \div Block + j)
ChunkFetched ==
  \A p \in 0..(batch - 1), k \in 0..(PieceSectors - 1) :
    ChunkSector(p, k) =>
      \/ Value(mem, "mem", PieceAddr(p) + k * Block) = NowOnDisk(SectorOf(p, k))
      \/ /\ Value(mem, "mem", PieceAddr(p) + k * Block) \in Stale(SectorOf(p, k))
         /\ Failed \/ Outstanding(p)

CopiedReadInv ==
  call.op \in ThroughBuffer \ Writing /\ pc # "panicked" =>
    /\ DoneCopied
    /\ (pc = "chunk" => BufferStale) /\ (InChunk => ChunkFetched)
    /\ at > 0 => Fits
    /\ Fits => OthersKept({})

SliceSectors == {call.base + s * Block : s \in Span}
DoneRead ==
  \A s \in 0..(Sectors(at) - 1) : Value(mem, "mem", call.base + s * Block) = NowOnDisk(s)
ChunkRead ==
  \A p \in 0..(batch - 1), k \in 0..(PieceSectors - 1) :
    \/ Value(mem, "mem", PieceAddr(p) + k * Block) = NowOnDisk(SectorOf(p, k))
    \/ Failed \/ Outstanding(p)

DirectReadInv ==
  call.op \notin ThroughBuffer \cup Writing \cup {"none"} /\ pc # "panicked" =>
    /\ DoneRead /\ (InChunk => ChunkRead) /\ OthersKept(SliceSectors)

\* The inductive invariant.
IndInv ==
  /\ TypeInv /\ CallInv /\ CommandInv /\ KeptInv
  /\ Expressible => WriteInv /\ CopiedReadInv /\ DirectReadInv
-----------------------------------------------------------------------------
USE DEF Page, Block

(***************************************************************************)
(* Types.                                                                  *)
(***************************************************************************)
\* Euclidean division.
LEMMA Division ==
  ASSUME NEW p \in Nat \ {0}, NEW n \in Nat
  PROVE  /\ n \div p \in Nat /\ n \div p <= n
         /\ n % p \in Nat /\ n % p < p
         /\ n = p * (n \div p) + (n % p)
BY Z3

\* The constants of the driver's memory.
LEMMA Constants ==
  /\ buffer \in Nat /\ buffer % 4096 = 0 /\ buffer > 8192 + 65536
  /\ prp_list_phys = 8192 /\ ListLen = 512 /\ MaxBlocks \in Nat /\ MaxBlocks >= 4096
BY SMT DEF buffer, prp_list_phys, ListLen, MaxBlocks

\* The sizes a chunk may have.
LEMMA ChunkSizes ==
  ASSUME NEW op
  PROVE  /\ chunk_size(op) \in Nat \ {0} /\ chunk_size(op) <= 512 * 4096
         /\ chunk_size(op) % 4096 = 0
BY SMT DEF chunk_size

\* The sizes a block and the chunk under way may have.
LEMMA ChunkFacts ==
  ASSUME TypeInv, Busy
  PROVE  /\ call.len \in Nat /\ at \in Nat /\ at < call.len
         /\ chunk_len \in Nat \ {0} /\ chunk_len <= 512 * 4096 /\ chunk_len <= call.len - at
         /\ ns_block \in {512, 4096} /\ spb \in {1, 8} /\ ns_block = spb * 512
         /\ Sectors(chunk_len) \in Nat \ {0} /\ Sectors(chunk_len) <= 4096
         /\ Blocks(chunk_len) \in Nat \ {0} /\ Blocks(chunk_len) <= 4096
<1>1. call.len \in Nat /\ at \in Nat /\ at < call.len
  BY SMT DEF TypeInv, TypeOK
<1>2. ns_block \in {512, 4096}
  BY PathAssumption, SMT DEF TypeInv, TypeOK
<1>3. spb \in {1, 8} /\ ns_block = spb * 512
  BY <1>2, SMT DEF spb
<1>4. chunk_len \in Nat \ {0} /\ chunk_len <= 512 * 4096 /\ chunk_len <= call.len - at
  BY <1>1, ChunkSizes, SMT DEF chunk_len, Min2
<1>5. Sectors(chunk_len) \in Nat \ {0} /\ Sectors(chunk_len) <= 4096
  BY <1>4, SMT DEF Sectors
<1>6. Blocks(chunk_len) \in Nat \ {0} /\ Blocks(chunk_len) <= 4096
  <2>1. CASE ns_block = 512
    BY <1>4, <2>1, SMT DEF Blocks
  <2>2. CASE ns_block = 4096
    BY <1>4, <2>2, SMT DEF Blocks
  <2> QED BY <1>2, <2>1, <2>2
<1> QED BY <1>1, <1>2, <1>3, <1>4, <1>5, <1>6

\* When the completions of a chunk are all there, its commands are done.
LEMMA WaitOver ==
  ASSUME TypeInv, posted = batch
  PROVE  cmds = {} /\ i = batch /\ batch <= QLen - 1
<1>1. Cardinality(cmds) \in Nat
  BY FS_CardinalityType DEF TypeInv
<1>2. Cardinality(cmds) = 0 /\ i = batch /\ batch <= QLen - 1
  BY <1>1, PathAssumption DEF TypeInv, TypeOK, Min2
<1> QED BY <1>2, FS_EmptySet DEF TypeInv

\* A set of one command is finite.
LEMMA OneCommand == ASSUME NEW c PROVE IsFiniteSet({c}) /\ Cardinality({c}) = 1
BY FS_Singleton

\* A command of namespace_io is the only one.
LEMMA SingleTypes ==
  ASSUME TypeInv, pc = "chunk", NEW a, NEW b \in Nat \ {0}, b <= MaxBlocks, namespace_io(a, b),
         prp_list' \in [0..(ListLen - 1) -> Nat]
  PROVE  TypeInv'
<1> DEFINE c == Command(a, b, 512, prp_list_phys + 8)
<1>1. cmds' = {c} /\ c.blocks = b
  BY DEF namespace_io, Command
<1> HIDE DEF c
<1>2. IsFiniteSet(cmds') /\ Cardinality(cmds') = 1
  BY <1>1, OneCommand
<1>4. /\ at' = at /\ call' = call /\ pc' = "wait" /\ posted' = 0 /\ i' = 1 /\ batch' = 1
      /\ lba' = lba + b
      /\ status' = status /\ ns_block' = ns_block /\ hidden' = hidden /\ calls' = calls
      /\ faults' = faults
  BY DEF namespace_io, Busy, boundVars
<1>5. QLen - 1 >= 1 /\ QLen \in Nat /\ MaxBlocks \in Nat
  BY PathAssumption, Constants
<1>3. TypeOK'
  BY <1>1, <1>2, <1>4, <1>5, SMT
  DEF TypeInv, TypeOK
<1> QED BY <1>2, <1>3, <1>4, <1>5 DEF TypeInv, Min2, Busy

\* The pieces of a batch.
LEMMA BatchTypes ==
  ASSUME TypeInv, Busy, call.op \in Batched, batch_len > 0
  PROVE  /\ batch_len \in Nat \ {0} /\ batch_len <= 4096
         /\ batch_size \in Nat /\ batch_size <= chunk_len
         /\ piece_blocks \in Nat /\ piece_blocks <= 4096
<1>1. /\ chunk_len \in Nat \ {0} /\ chunk_len <= 512 * 4096
      /\ ns_block \in {512, 4096} /\ call.batch \in Nat \ {0}
  BY ChunkFacts DEF TypeInv
<1>2. batch_len \in Nat \ {0} /\ batch_len <= 4096
  BY <1>1, SMT DEF batch_len, Min2
<1>3. batch_size \in Nat /\ batch_size <= chunk_len
  BY <1>1, <1>2, Division DEF batch_size
<1>4. piece_blocks \in Nat /\ piece_blocks <= 4096
  <2>1. CASE ns_block = 512
    BY <1>1, <1>3, <2>1, SMT DEF piece_blocks
  <2>2. CASE ns_block = 4096
    BY <1>1, <1>3, <2>2, SMT DEF piece_blocks
  <2> QED BY <1>1, <2>1, <2>2
<1> QED BY <1>2, <1>3, <1>4

\* Every step keeps the types.
LEMMA TypeStep == TypeInv /\ [Next]_vars => TypeInv'
<1> SUFFICES ASSUME TypeInv, [Next]_vars PROVE TypeInv'
  OBVIOUS
<1> USE DEF dataVars, callVars, boundVars
<1>1. ASSUME NEW op \in DOMAIN Slices, NEW s \in Slices[op], NEW b \in Lbas,
             NEW k \in IF op \in Batched THEN BatchLens ELSE {1}, begin(op, s, b, k)
      PROVE  TypeInv'
  <2>1. s.base \in Nat /\ s.len \in Nat \ {0} /\ b \in Nat /\ k \in Nat \ {0}
    BY <1>1, PathAssumption, SliceAssumption
  <2>2. cmds' = {} /\ IsFiniteSet({}) /\ Cardinality({}) = 0
    BY <1>1, FS_EmptySet DEF TypeInv, begin
  <2>3. op # "none"
    BY PathAssumption DEF Direct, Prp, Copied, Batched
  <2>4. call' = [op |-> op, base |-> s.base, len |-> s.len, lba |-> b, batch |-> k]
    BY <1>1 DEF begin
  <2>5. TypeOK'
    <3>1. /\ at' = 0 /\ lba' = b /\ i' = 0 /\ batch' = 1 /\ posted' = 0 /\ pc' = "chunk"
          /\ calls' = calls + 1 /\ calls < MaxCalls /\ call'.op = op /\ call'.len = s.len
          /\ UNCHANGED <<prp_list, ns_block, status, faults>>
      BY <1>1 DEF begin
    <3>2. hidden' \in BOOLEAN /\ status' \in BOOLEAN
      BY <1>1 DEF TypeInv, TypeOK, begin
    <3> QED BY <2>1, <2>2, <3>1, <3>2, PathAssumption DEF TypeInv, TypeOK
  <2>6. pc' = "chunk" /\ at' = 0 /\ i' = 0 /\ posted' = 0
    BY <1>1 DEF begin
  <2> QED BY <2>1, <2>2, <2>3, <2>4, <2>5, <2>6, PathAssumption DEF TypeInv, Min2, Busy
<1>2. ASSUME direct_chunk \/ prp_chunk \/ write_copied_chunk \/ read_copied_chunk
      PROVE  TypeInv'
  <2>1. pc = "chunk" /\ Busy
    BY <1>2 DEF direct_chunk, prp_chunk, write_copied_chunk, read_copied_chunk, Busy
  <2>2. /\ Sectors(chunk_len) \in Nat \ {0} /\ Sectors(chunk_len) <= 4096
        /\ Blocks(chunk_len) \in Nat \ {0} /\ Blocks(chunk_len) <= 4096
        /\ chunk_len \in Nat /\ at \in Nat /\ call.base \in Nat
    BY <2>1, ChunkFacts DEF TypeInv
  <2>5. chunk_addr \in Nat
    BY <2>2, Constants DEF chunk_addr
  <2>3. prp_list' \in [0..(ListLen - 1) -> Nat]
    <3>1. CASE prp_chunk
      <4>1. \A k \in 0..(ListLen - 1) : prp_list[k] \in Nat /\ chunk_addr + k * 4096 \in Nat
        BY <2>5, Constants DEF TypeInv, TypeOK
      <4> DEFINE entry(k) ==
            IF k < chunk_len \div 4096 THEN chunk_addr + k * 4096 ELSE prp_list[k]
      <4>2. \A k \in 0..(ListLen - 1) : entry(k) \in Nat
        BY <4>1
      <4>3. prp_list' = [k \in 0..(ListLen - 1) |-> entry(k)]
        BY <3>1 DEF prp_chunk
      <4> HIDE DEF entry
      <4> QED BY <4>2, <4>3
    <3>2. CASE prp_list' = prp_list
      BY <3>2 DEF TypeInv, TypeOK
    <3> QED BY <1>2, <3>1, <3>2 DEF direct_chunk, write_copied_chunk, read_copied_chunk
  <2>4. \E a : \E b \in Nat \ {0} : b <= MaxBlocks /\ namespace_io(a, b)
    BY <1>2, <2>2, Constants DEF direct_chunk, prp_chunk, write_copied_chunk, read_copied_chunk
  <2> QED BY <2>1, <2>3, <2>4, SingleTypes
<1>3. CASE batched_chunk
  <2>1. Busy /\ cmds = {} /\ batch_len > 0 /\ call.op \in Batched
    BY <1>3 DEF batched_chunk, Busy, TypeInv
  <2>2. batch_len \in Nat \ {0} /\ batch_len <= 4096
    BY <2>1, BatchTypes
  <2>3. /\ batch' = batch_len /\ i' = 0 /\ posted' = 0 /\ pc' = "push"
        /\ UNCHANGED <<prp_list, call, at, lba, cmds, status, ns_block, hidden, calls, faults>>
    BY <1>3 DEF batched_chunk
  <2>4. batch_len' = batch_len
    BY <2>3 DEF batch_len, chunk_len
  <2>5. TypeOK'
    BY <2>1, <2>2, <2>3 DEF TypeInv, TypeOK
  <2>6. Cardinality(cmds) = 0 /\ QLen \in Nat \ {0, 1}
    BY <2>1, FS_EmptySet, PathAssumption
  <2> QED BY <2>1, <2>2, <2>3, <2>4, <2>5, <2>6 DEF TypeInv, Min2, Busy
<1>4. CASE push
  <2> DEFINE c == submit_io(buffer + i * batch_size, piece_blocks)
  <2>1. Busy /\ call.op \in Batched /\ batch = batch_len /\ batch_len > 0
    BY <1>4 DEF push, TypeInv, Busy, TypeOK
  <2>2. piece_blocks \in Nat \ {0} /\ piece_blocks <= 4096
    BY <1>4, <2>1, BatchTypes DEF push
  <2>3. cmds' = cmds \cup {c} /\ c.blocks = piece_blocks
    BY <1>4 DEF push, submit_io, Command
  <2>4. IsFiniteSet(cmds) /\ Cardinality(cmds) \in Nat
    BY FS_CardinalityType DEF TypeInv
  <2> HIDE DEF c
  <2>5. IsFiniteSet(cmds') /\ Cardinality(cmds') \in Nat
        /\ Cardinality(cmds') <= Cardinality(cmds) + 1
    <3>1. CASE c \in cmds
      <4>1. cmds' = cmds
        BY <2>3, <3>1, Zenon
      <4> QED BY <2>4, <4>1
    <3>2. CASE c \notin cmds
      <4>1. IsFiniteSet(cmds') /\ Cardinality(cmds') = Cardinality(cmds) + 1
        BY <2>3, <2>4, <3>2, FS_AddElement, Zenon
      <4> QED BY <2>4, <4>1
    <3> QED BY <3>1, <3>2
  <2>6. /\ i' = i + 1 /\ i < batch /\ i < QLen - 1 /\ lba' = lba + piece_blocks
        /\ UNCHANGED <<prp_list, pc, call, at, batch, posted, status, ns_block, hidden, calls,
                       faults>>
    BY <1>4 DEF push
  <2>7. batch_len' = batch_len
    BY <2>6 DEF batch_len, chunk_len
  <2>8. posted' + Cardinality(cmds') <= Min2(i', QLen - 1)
    BY <2>4, <2>5, <2>6, PathAssumption DEF TypeInv, TypeOK, Min2
  <2>9. TypeOK'
    BY <2>2, <2>3, <2>5, <2>6, <2>8, PathAssumption, Constants DEF TypeInv, TypeOK, Min2
  <2>10. pc = "push"
    BY <1>4 DEF push
  <2> QED BY <2>1, <2>5, <2>6, <2>7, <2>8, <2>9, <2>10 DEF TypeInv, Busy
<1>5. CASE push_full
  <2>1. Busy /\ call.op \in Batched /\ batch = batch_len /\ batch_len > 0
    BY <1>5 DEF push_full, TypeInv, Busy, TypeOK
  <2>2. piece_blocks \in Nat \ {0} /\ piece_blocks <= 4096
    BY <1>5, <2>1, BatchTypes DEF push_full
  <2>3. /\ i' = i + 1 /\ i < batch /\ i >= QLen - 1 /\ lba' = lba + piece_blocks
        /\ UNCHANGED <<prp_list, pc, call, at, batch, posted, status, ns_block, hidden, calls,
                       faults, cmds>>
    BY <1>5 DEF push_full
  <2>4. batch_len' = batch_len
    BY <2>3 DEF batch_len, chunk_len
  <2>5. TypeOK' /\ posted' + Cardinality(cmds') <= Min2(i', QLen - 1)
    BY <2>2, <2>3, PathAssumption DEF TypeInv, TypeOK, Min2
  <2> QED BY <2>1, <2>3, <2>4, <2>5 DEF TypeInv, Busy
<1>6. CASE push_done
  <2>1. pc = "push" /\ pc' = "wait" /\ TypeOK'
    BY <1>6 DEF push_done, TypeInv, TypeOK
  <2> QED BY <1>6, <2>1 DEF push_done, TypeInv, Busy
<1>7. ASSUME panic, pc # "idle" PROVE TypeInv'
  <2>1. TypeOK'
    BY <1>7 DEF panic, TypeInv, TypeOK
  <2> QED BY <1>7, <2>1 DEF panic, TypeInv, Busy
<1>8. CASE chunk_panics \/ push_panics \/ wait_panics
  BY <1>7, <1>8 DEF chunk_panics, push_panics, wait_panics
<1>9. CASE chunk_done
  <2>1. Busy /\ cmds = {} /\ pc = "wait" /\ call.op # "none"
    BY <1>9, WaitOver DEF chunk_done, Busy, TypeInv
  <2>2. at + chunk_len \in 0..call.len /\ at \in Nat /\ chunk_len \in Nat
    BY <2>1, ChunkFacts
  <2>3. /\ at' = at + chunk_len /\ pc' = IF at' < call.len THEN "chunk" ELSE "idle"
        /\ UNCHANGED <<prp_list, call, lba, i, batch, cmds, posted, status, ns_block, hidden,
                       calls, faults>>
    BY <1>9 DEF chunk_done
  <2>4. TypeOK'
    BY <2>2, <2>3 DEF TypeInv, TypeOK
  <2> QED BY <2>1, <2>2, <2>3, <2>4 DEF TypeInv, Busy
<1>10. ASSUME NEW c \in cmds, device_execute(c) \/ device_refuse(c) PROVE TypeInv'
  <2>1. IsFiniteSet(cmds) /\ Cardinality(cmds) \in Nat /\ Cardinality(cmds) # 0
    BY <1>10, FS_CardinalityType, FS_EmptySet DEF TypeInv
  <2>2. /\ cmds' = cmds \ {c} /\ posted' = posted + 1
        /\ UNCHANGED <<prp_list, pc, call, at, lba, i, batch, ns_block, calls>>
    BY <1>10 DEF device_execute, device_refuse
  <2>3. status' \in BOOLEAN /\ hidden' \in BOOLEAN
    <3>1. CASE device_execute(c)
      BY <3>1, Zenon DEF device_execute, TypeInv, TypeOK
    <3>2. CASE device_refuse(c)
      BY <3>2, Zenon DEF device_refuse, TypeInv, TypeOK
    <3> QED BY <1>10, <3>1, <3>2
  <2>4. faults' \in 0..MaxFaults
    BY <1>10, PathAssumption DEF device_execute, device_refuse, TypeInv, TypeOK
  <2>5. IsFiniteSet(cmds') /\ Cardinality(cmds') = Cardinality(cmds) - 1
    BY <1>10, <2>1, <2>2, FS_RemoveElement
  <2>6. posted' + Cardinality(cmds') <= Min2(i', QLen - 1)
    BY <2>1, <2>2, <2>5, PathAssumption DEF TypeInv, TypeOK, Min2
  <2>7. posted' \in 0..batch /\ Cardinality(cmds') <= QLen - 1
    BY <2>1, <2>2, <2>5, <2>6, PathAssumption DEF TypeInv, TypeOK, Min2
  <2>8. TypeOK'
    BY <2>2, <2>3, <2>4, <2>7 DEF TypeInv, TypeOK
  <2>9. pc \notin {"idle", "chunk"}
    BY <1>10 DEF TypeInv
  <2>10. batch_len' = batch_len
    BY <2>2 DEF batch_len, chunk_len
  <2> QED BY <2>2, <2>5, <2>6, <2>8, <2>9, <2>10 DEF TypeInv, Busy
<1>11. CASE UNCHANGED vars
  <2>1. TypeOK' /\ batch_len' = batch_len
    BY <1>11 DEF vars, TypeInv, TypeOK, batch_len, chunk_len
  <2> QED BY <1>11, <2>1 DEF vars, TypeInv, Busy
<1> QED
  BY <1>1, <1>2, <1>3, <1>4, <1>5, <1>6, <1>8, <1>9, <1>10, <1>11
  DEF Next, Call, DriverStep, DeviceStep

\* A fresh device object has its types.
LEMMA TypeInit == Init => TypeInv
<1> SUFFICES ASSUME Init PROVE TypeInv
  OBVIOUS
<1>1. \A k \in 0..(ListLen - 1) :
        (IF k < ListLen - 1 THEN buffer + (k + 1) * 4096 ELSE 0) \in Nat
  BY Constants
<1>2. prp_list \in [0..(ListLen - 1) -> Nat]
  BY <1>1 DEF Init
<1>3. IsFiniteSet(cmds) /\ Cardinality(cmds) = 0 /\ cmds = {}
  BY FS_EmptySet DEF Init
<1>4. status \in BOOLEAN /\ hidden \in BOOLEAN
  BY Zenon DEF Init
<1>5. /\ pc = "idle" /\ call = NoCall /\ at = 0 /\ lba = 0 /\ i = 0 /\ batch = 1
      /\ ns_block \in BlockSizes /\ posted = 0 /\ calls = 0 /\ faults = 0
  BY DEF Init
<1>6. call.op = "none" /\ call.len = 0
  BY <1>5 DEF NoCall
<1>7. TypeOK
  BY <1>2, <1>3, <1>4, <1>5, <1>6, PathAssumption DEF TypeOK
<1> QED BY <1>3, <1>5, <1>7, PathAssumption DEF TypeInv, NoCall, Min2, Busy

\* The variables have their types for every buffer size, queue length, set of
\* slices and of batches: no more commands are outstanding than the queue has
\* room for, and every command moves at least one block and no more than its
\* u16 can say.
THEOREM TypeCorrect == Spec => []TypeOK
<1>1. TypeInv => TypeOK
  BY DEF TypeInv
<1> QED BY <1>1, TypeInit, TypeStep, PTL DEF Spec
-----------------------------------------------------------------------------
HIDE DEF Page, Block

(***************************************************************************)
(* Sectors, chunks and pieces.                                             *)
(***************************************************************************)
\* A chunk has at most 4096 sectors.
LEMMA SectorBound ==
  ASSUME NEW n \in Nat, n <= 512 * 4096
  PROVE  Sectors(n) \in Nat /\ Sectors(n) <= 4096
<1>1. (n + 512 - 1) \div 512 \in Nat /\ (n + 512 - 1) \div 512 <= 4096
  BY Z3
<1> QED BY <1>1 DEF Sectors, Block

\* Where a chunk begins and ends, in sectors of the slice and of the disk.
LEMMA Geometry ==
  ASSUME TypeInv, CallInv, Busy
  PROVE  /\ at \div Block \in Nat /\ at = (at \div Block) * Block
         /\ Sectors(at) = at \div Block
         /\ Sectors(chunk_len) \in Nat \ {0} /\ Sectors(chunk_len) <= 4096
         /\ Sectors(at + chunk_len) = at \div Block + Sectors(chunk_len)
         /\ at \div Block + Sectors(chunk_len) <= Sectors(call.len)
         /\ Sectors(call.len) \in Nat
         /\ Sectors(chunk_len) <= Blocks(chunk_len) * spb
         /\ at \div Block + Blocks(chunk_len) * spb <= Blocks(call.len) * spb
         /\ Blocks(chunk_len) * spb \in Nat
         /\ at + chunk_len < call.len =>
              /\ chunk_len = chunk_size(call.op)
              /\ Blocks(chunk_len) * spb = Sectors(chunk_len)
         /\ chunk_len <= BufferSize => Blocks(chunk_len) * spb * Block <= BufferSize
         /\ (at \div ns_block) * spb = at \div Block
<1> DEFINE l == chunk_len
           n == call.len
           z == chunk_size(call.op)
<1>1. /\ n \in Nat /\ at \in Nat /\ l \in Nat \ {0} /\ l <= 512 * 4096 /\ l <= n - at
      /\ ns_block \in {512, 4096}
  BY ChunkFacts
<1>2. /\ z \in Nat \ {0} /\ z % 4096 = 0
      /\ at % z = 0 /\ (at + l < n => l = z)
  BY <1>1, ChunkSizes DEF CallInv, chunk_len, Min2
<1>3. at % 4096 = 0
  BY <1>1, <1>2 DEF chunk_size, Page
<1>4. BufferSize \in Nat /\ BufferSize % 4096 = 0
  BY PathAssumption DEF Page
<1>5. /\ Sectors(at) = (at + 511) \div 512 /\ Sectors(l) = (l + 511) \div 512
      /\ Sectors(at + l) = (at + l + 511) \div 512 /\ Sectors(n) = (n + 511) \div 512
  BY <1>1, SMT DEF Sectors, Block
<1> HIDE DEF l, n, z
<1>6. CASE ns_block = 512
  <2>1. spb = 1 /\ Blocks(l) = (l + 511) \div 512 /\ Blocks(n) = (n + 511) \div 512
    BY <1>1, <1>6 DEF spb, Blocks, Block
  <2>2. /\ Blocks(l) * spb = Sectors(l) /\ Blocks(n) * spb = Sectors(n)
        /\ (at \div ns_block) * spb = at \div 512 /\ Sectors(l) \in Nat /\ Sectors(n) \in Nat
    BY <1>1, <1>5, <1>6, <2>1, SMT
  <2>3. l <= BufferSize => Sectors(l) * 512 <= BufferSize
    BY <1>1, <1>4, <1>5, SMT
  <2> HIDE DEF l, n, z
  <2>4. /\ at \div 512 \in Nat /\ at = (at \div 512) * 512
        /\ Sectors(at) = at \div 512
        /\ Sectors(l) \in Nat \ {0} /\ Sectors(l) <= 4096
        /\ Sectors(at + l) = at \div 512 + Sectors(l)
        /\ at \div 512 + Sectors(l) <= Sectors(n)
    BY <1>1, <1>3, <1>5, SMT
  <2> QED BY <1>1, <1>2, <2>2, <2>3, <2>4, SMT DEF Block, l, n, z
<1>7. CASE ns_block = 4096
  <2>1. spb = 8 /\ Blocks(l) = (l + 4095) \div 4096 /\ Blocks(n) = (n + 4095) \div 4096
    BY <1>1, <1>7 DEF spb, Blocks, Block
  <2> QED BY <1>1, <1>2, <1>3, <1>4, <1>5, <1>7, <2>1, SMT DEF Block, l, n, z
<1> QED BY <1>1, <1>6, <1>7

\* The pieces of a chunk: a batch is at most as long as its chunk.
LEMMA PieceTypes ==
  ASSUME TypeInv, CallInv, InChunk
  PROVE  /\ PieceBlocks \in Nat /\ PieceSectors \in Nat /\ batch \in Nat \ {0}
         /\ call.op \in Batched => batch * PieceSectors * Block <= chunk_len
         /\ call.op \notin Batched => batch = 1 /\ PieceSectors = Blocks(chunk_len) * spb
<1>1. Busy /\ batch \in Nat \ {0} /\ batch = IF call.op \in Batched THEN batch_len ELSE 1
  BY DEF InChunk, Busy, TypeInv, TypeOK, CallInv
<1>2. /\ chunk_len \in Nat \ {0} /\ Blocks(chunk_len) \in Nat \ {0}
      /\ spb \in {1, 8} /\ ns_block \in {512, 4096} /\ ns_block = spb * 512
  BY <1>1, ChunkFacts
<1>3. CASE call.op \notin Batched
  BY <1>1, <1>2, <1>3 DEF PieceBlocks, PieceSectors
<1>4. CASE call.op \in Batched
  <2>1. batch = batch_len /\ batch_size \in Nat /\ piece_blocks \in Nat
    BY <1>1, <1>4, BatchTypes
  <2>2. batch * batch_size <= chunk_len
    <3>3. batch \in Nat \ {0} /\ chunk_len \in Nat
      BY <1>1, <1>2
    <3>1. /\ chunk_len = batch * (chunk_len \div batch) + (chunk_len % batch)
          /\ chunk_len % batch \in Nat /\ chunk_len \div batch \in Nat
      BY <3>3, Division, Zenon
    <3> DEFINE q == chunk_len \div batch
               r == chunk_len % batch
    <3>2. chunk_len = batch * q + r /\ r \in Nat /\ q \in Nat /\ batch_size = q
      BY <2>1, <3>1 DEF batch_size
    <3> HIDE DEF q, r
    <3> QED BY <1>1, <3>2, SMT
  <2>3. piece_blocks * ns_block <= batch_size
    <3>1. CASE ns_block = 512
      BY <2>1, <3>1, SMT DEF piece_blocks
    <3>2. CASE ns_block = 4096
      BY <2>1, <3>2, SMT DEF piece_blocks
    <3> QED BY <1>2, <3>1, <3>2
  <2>4. PieceBlocks = piece_blocks /\ PieceSectors = piece_blocks * spb
    BY <1>4 DEF PieceBlocks, PieceSectors
  <2>5. PieceSectors \in Nat /\ PieceSectors * 512 <= batch_size
    BY <1>2, <2>1, <2>3, <2>4
  <2>6. batch * (PieceSectors * 512) <= batch * batch_size
    BY <1>1, <2>1, <2>5, Z3
  <2>7. batch * (PieceSectors * 512) = batch * PieceSectors * Block
        /\ batch * (PieceSectors * 512) \in Nat /\ batch * batch_size \in Nat
    BY <1>1, <2>1, <2>5, Z3 DEF Block
  <2>8. batch * PieceSectors * Block <= chunk_len
    <3> DEFINE x == batch * (PieceSectors * 512)
               y == batch * batch_size
    <3>1. x <= y /\ y <= chunk_len /\ x \in Nat /\ y \in Nat /\ chunk_len \in Nat
      BY <1>2, <2>2, <2>6, <2>7
    <3> HIDE DEF x, y
    <3>2. x <= chunk_len
      BY <3>1
    <3> QED BY <2>7, <3>2 DEF x
  <2> QED BY <1>1, <1>4, <2>1, <2>4, <2>5, <2>8
<1> QED BY <1>3, <1>4

\* Pieces follow each other without overlapping and stay within the chunk's
\* blocks, and within its sectors unless it is the last chunk.
LEMMA PieceFacts ==
  ASSUME TypeInv, CallInv, InChunk
  PROVE  /\ \A p \in Nat : PieceStart(p) \in Nat
         /\ \A p, q \in Nat : p < q => PieceStart(p) + PieceSectors <= PieceStart(q)
         /\ \A p \in 0..(batch - 1) :
              /\ PieceStart(p) + PieceSectors <= Blocks(chunk_len) * spb
              /\ at + chunk_len < call.len =>
                   PieceStart(p) + PieceSectors <= Sectors(chunk_len)
<1> DEFINE S == PieceSectors
<1>1. Busy
  BY DEF InChunk, Busy
<1>2. S \in Nat /\ batch \in Nat \ {0}
  BY PieceTypes
<1>3. Blocks(chunk_len) * spb \in Nat /\ Sectors(chunk_len) <= Blocks(chunk_len) * spb
      /\ (at + chunk_len < call.len => Blocks(chunk_len) * spb = Sectors(chunk_len))
      /\ chunk_len \in Nat
  BY <1>1, Geometry, ChunkFacts
<1>4. batch * S <= Blocks(chunk_len) * spb
      /\ (at + chunk_len < call.len => batch * S <= Sectors(chunk_len))
  <2>1. CASE call.op \in Batched
    <3>1. batch * S \in Nat /\ (batch * S) * 512 <= chunk_len
      BY <1>2, <2>1, PieceTypes DEF Block
    <3>2. batch * S <= Sectors(chunk_len)
      BY <1>3, <3>1 DEF Sectors, Block
    <3> DEFINE y == batch * S
               e == Blocks(chunk_len) * spb
    <3>3. y <= Sectors(chunk_len) /\ y \in Nat /\ Sectors(chunk_len) <= e /\ e \in Nat
      BY <1>3, <3>1, <3>2
    <3>4. Sectors(chunk_len) \in Nat
      BY <1>1, ChunkFacts
    <3> HIDE DEF y, e
    <3>5. y <= e
      BY <3>3, <3>4
    <3> QED BY <3>3, <3>5 DEF y, e
  <2>2. CASE call.op \notin Batched
    <3>1. batch = 1 /\ S = Blocks(chunk_len) * spb
      BY <2>2, PieceTypes
    <3> QED BY <1>3, <3>1
  <2> QED BY <2>1, <2>2
<1>5. \A p \in Nat : PieceStart(p) = p * S
  BY DEF PieceStart
<1> HIDE DEF S
<1>6. ASSUME NEW p \in Nat, NEW q \in Nat, p < q PROVE p * S + S <= q * S /\ p * S \in Nat
  BY <1>2, <1>6, Z3
<1>7. ASSUME NEW p \in 0..(batch - 1) PROVE p * S + S <= batch * S
  BY <1>2, <1>6, <1>7
<1>8. \A p \in Nat : p * S \in Nat
  BY <1>2
<1>9. \A p \in 0..(batch - 1) : p \in Nat /\ p * S \in Nat /\ batch * S \in Nat
  BY <1>2, <1>8
<1>10. ASSUME NEW p \in 0..(batch - 1)
       PROVE  /\ PieceStart(p) + S <= Blocks(chunk_len) * spb
              /\ at + chunk_len < call.len => PieceStart(p) + S <= Sectors(chunk_len)
  <2> DEFINE x == p * S
             y == batch * S
             e == Blocks(chunk_len) * spb
  <2>1. PieceStart(p) = x /\ x + S <= y /\ x \in Nat /\ y \in Nat /\ y <= e /\ e \in Nat
    BY <1>3, <1>4, <1>5, <1>7, <1>9
  <2>2. Sectors(chunk_len) \in Nat
    BY <1>1, ChunkFacts
  <2>3. at + chunk_len < call.len => e = Sectors(chunk_len)
    BY <1>3
  <2> HIDE DEF x, y, e
  <2>4. PieceStart(p) + S <= e
    BY <1>2, <2>1
  <2> QED BY <2>3, <2>4 DEF e
<1> QED BY <1>5, <1>6, <1>8, <1>10 DEF S

\* The chunk under way is one of those the assumptions speak of.
LEMMA InChunks ==
  ASSUME TypeInv, CallInv, Busy
  PROVE  chunk_len \in Chunks(call.op, call.len)
<1> DEFINE z == chunk_size(call.op)
           n == call.len
<1>1. /\ n \in Nat /\ at \in Nat /\ at < n /\ z \in Nat \ {0} /\ at % z = 0
      /\ chunk_len = IF z < n - at THEN z ELSE n - at
  BY ChunkFacts, ChunkSizes DEF CallInv, chunk_len, Min2
<1>2. Chunks(call.op, n) = {IF z < n THEN z ELSE n, n % z} \ {0}
  BY DEF Chunks, Min2
<1> HIDE DEF n
<1>3. CASE z < n - at
  BY <1>1, <1>2, <1>3 DEF z, n
<1>4. CASE n - at <= z
  <2>1. CASE n - at = z
    BY <1>1, <1>2, <2>1 DEF n
  <2>2. CASE n - at < z
    <3>1. n % z = n - at
      BY <1>1, <2>2, Z3 DEF z, chunk_size, Page
    <3> QED BY <1>1, <1>2, <2>2, <3>1 DEF n
  <2> HIDE DEF z
  <2> QED BY <1>1, <1>4, <2>1, <2>2
<1> HIDE DEF z
<1> QED BY <1>1, <1>3, <1>4

\* A length that whole pieces of whole blocks make up.
LEMMA WholePieces ==
  ASSUME NEW len \in Nat, NEW b \in Nat \ {0}, NEW size \in Nat \ {0},
         len % (b * size) = 0 \/ len < b * size, (len \div b) \div size > 0
  PROVE  len = b * ((len \div b) \div size) * size
<1> DEFINE q == len \div b
           m == q \div size
<1>1. /\ q \in Nat /\ len % b \in Nat /\ len % b < b /\ len = b * q + (len % b)
      /\ m \in Nat /\ q % size \in Nat /\ q % size < size /\ q = size * m + (q % size)
  BY Division
<1>2. m > 0
  OBVIOUS
<1>3. b * size \in Nat \ {0}
  BY Z3
<1>4. len % (b * size) \in Nat
      /\ len = (b * size) * (len \div (b * size)) + (len % (b * size))
      /\ len \div (b * size) \in Nat
  BY <1>3, Division
<1> HIDE DEF m, q
<1>5. b * q >= b * (size * m)
  <2>1. q >= size * m /\ size * m \in Nat
    BY <1>1
  <2> HIDE DEF q, m
  <2> QED BY <1>1, <2>1, Z3
<1>6. len >= b * size
  <2>1. b * (size * m) >= b * size
    BY <1>1, <1>2, Z3
  <2> QED BY <1>1, <1>5, <2>1, Z3
<1>7. len % (b * size) = 0
  BY <1>3, <1>6
<1>8. PICK t \in Nat : len = (b * size) * t
  <2> DEFINE y == b * size
             w == len \div y
  <2>1. len = y * w + 0 /\ w \in Nat /\ y \in Nat
    BY <1>3, <1>4, <1>7
  <2> HIDE DEF y, w
  <2>2. len = y * w
    BY <2>1
  <2> QED BY <2>1, <2>2 DEF y
<1>9. len = b * (size * t)
  BY <1>8, Z3
<1>10. q = size * t
  <2>1. size * t \in Nat
    BY <1>8
  <2> DEFINE u == size * t
  <2>2. len = b * u /\ u \in Nat
    BY <1>9, <2>1
  <2> HIDE DEF u
  <2>3. q = u
    BY <2>2, Z3 DEF q
  <2> QED BY <2>3 DEF u
<1>11. m = t
  BY <1>8, <1>10, Z3 DEF m
<1> QED BY <1>8, <1>11, Z3 DEF m, q

\* The pieces of a batch that is expressible: they make up the chunk, unless they
\* are smaller than a block, and lie within a page or begin one.
LEMMA BatchPieces ==
  ASSUME Expressible, TypeInv, CallInv, InChunk, call.op \in Batched
  PROVE  /\ chunk_len % (batch * ns_block) = 0 \/ chunk_len < batch * ns_block
         /\ \A p \in 0..(batch - 1) :
              \/ ((p * batch_size) % Page) + batch_size <= Page
              \/ (p * batch_size) % Page = 0 /\ batch_size <= 2 * Page
<1>1. Busy /\ batch \in Nat \ {0}
  BY PieceTypes DEF InChunk, Busy
<1>2. chunk_len \in Nat \ {0} /\ chunk_len \in Chunks(call.op, call.len)
  BY <1>1, ChunkFacts, InChunks
<1>3. batch = batch_len /\ call.batch \in Nat \ {0}
  BY <1>1 DEF CallInv, TypeInv
<1>4. /\ batch = Min2(call.batch, chunk_len \div Block) /\ chunk_len >= Block
      /\ batch_size = chunk_len \div Min2(call.batch, chunk_len \div Block)
  BY <1>1, <1>2, <1>3 DEF batch_len, batch_size, Min2, Block
<1>5. \A len \in Chunks(call.op, call.len) : len >= Block =>
        LET pieces == Min2(call.batch, len \div Block)
            size == len \div pieces
        IN  /\ len % (pieces * ns_block) = 0 \/ len < pieces * ns_block
            /\ \A p \in 0..(pieces - 1) :
                 \/ ((p * size) % Page) + size <= Page
                 \/ (p * size) % Page = 0 /\ size <= 2 * Page
  BY Zenon DEF Expressible
<1> QED BY <1>2, <1>4, <1>5, Zenon

\* The commands of a batch make up the chunk.
LEMMA WholeBatch ==
  ASSUME Expressible, TypeInv, CallInv, InChunk, call.op \in Batched, PieceBlocks > 0
  PROVE  chunk_len = batch * PieceBlocks * ns_block /\ batch_size = PieceBlocks * ns_block
<1>1. Busy /\ PieceBlocks \in Nat /\ batch \in Nat \ {0}
  BY PieceTypes DEF InChunk, Busy
<1>2. chunk_len \in Nat \ {0} /\ ns_block \in {512, 4096}
  BY <1>1, ChunkFacts
<1>3. /\ batch = batch_len /\ PieceBlocks = (chunk_len \div batch) \div ns_block
      /\ call.batch \in Nat \ {0}
  BY <1>1 DEF CallInv, PieceBlocks, piece_blocks, batch_size, TypeInv
<1>5. chunk_len % (batch * ns_block) = 0 \/ chunk_len < batch * ns_block
  BY BatchPieces
<1>6. (chunk_len \div batch) \div ns_block > 0 /\ ns_block \in Nat \ {0}
  BY <1>1, <1>2, <1>3
<1>7. chunk_len = batch * PieceBlocks * ns_block
  <2>1. chunk_len \in Nat
    BY <1>2
  <2> QED BY <1>1, <1>3, <1>5, <1>6, <2>1, WholePieces
<1>8. batch_size = PieceBlocks * ns_block
  <2> DEFINE u == PieceBlocks * ns_block
  <2>1. u \in Nat /\ chunk_len = batch * u
    BY <1>1, <1>2, <1>7, Z3
  <2> HIDE DEF u
  <2>2. chunk_len \div batch = u
    BY <1>1, <2>1, Z3
  <2> QED BY <1>3, <2>2 DEF batch_size, u
<1> QED BY <1>7, <1>8

\* When the commands of a chunk are all submitted, they cover it.
LEMMA Covering ==
  ASSUME Expressible, TypeInv, CallInv, pc = "wait", NEW j \in 0..(Sectors(chunk_len) - 1)
  PROVE  \E p \in 0..(batch - 1), k \in 0..(PieceSectors - 1) : j = PieceStart(p) + k
<1> DEFINE S == PieceSectors
           L == Sectors(chunk_len)
<1>1. /\ Busy /\ InChunk /\ i = batch /\ i > 0 /\ PieceBlocks > 0
      /\ PieceBlocks \in Nat /\ S \in Nat /\ batch \in Nat \ {0}
  <2>1. Busy /\ InChunk
    BY DEF Busy, InChunk
  <2>2. PieceBlocks \in Nat /\ S \in Nat /\ batch \in Nat \ {0}
    BY <2>1, PieceTypes
  <2> QED BY <2>1, <2>2 DEF CallInv
<1>2. /\ chunk_len \in Nat \ {0} /\ L \in Nat \ {0}
      /\ spb \in {1, 8} /\ ns_block \in {512, 4096} /\ ns_block = spb * 512
  BY <1>1, ChunkFacts
<1>3. S > 0 /\ S = PieceBlocks * spb
  BY <1>1, <1>2 DEF PieceSectors
<1>4. L <= batch * S
  <2>1. CASE call.op \notin Batched
    <3>1. batch = 1 /\ S = Blocks(chunk_len) * spb /\ L <= Blocks(chunk_len) * spb
      BY <1>1, <2>1, PieceTypes, Geometry
    <3> QED BY <1>1, <3>1
  <2>2. CASE call.op \in Batched
    <3>5. chunk_len = batch * PieceBlocks * ns_block
      BY <1>1, <2>2, WholeBatch
    <3>6. chunk_len = (batch * S) * 512 /\ batch * S \in Nat
      BY <1>1, <1>2, <1>3, <3>5, Z3
    <3> QED BY <1>2, <3>6 DEF Sectors, Block
  <2> QED BY <2>1, <2>2
<1> HIDE DEF S, L
<1>5. /\ j \in Nat /\ j < L
  BY <1>2 DEF L
<1>6. /\ j \div S \in Nat /\ j % S \in Nat /\ j % S < S /\ j = S * (j \div S) + (j % S)
  <2>1. S \in Nat \ {0}
    BY <1>1, <1>3
  <2> QED BY <1>5, <2>1, Division, Zenon
<1>7. j \div S < batch
  <2> DEFINE p == j \div S
             k == j % S
             e == batch * S
  <2>1. p \in Nat /\ k \in Nat /\ j = S * p + k /\ j < e /\ e \in Nat
    BY <1>1, <1>2, <1>4, <1>5, <1>6
  <2> HIDE DEF p, k
  <2>2. S * p < S * batch
    BY <1>1, <2>1, Z3
  <2>3. p < batch
    BY <1>1, <1>3, <2>1, <2>2, Z3 DEF e
  <2> QED BY <2>3 DEF p
<1>8. PieceStart(j \div S) = (j \div S) * S
  BY DEF PieceStart, S
<1> DEFINE p == j \div S
           k == j % S
<1>9. p \in 0..(batch - 1) /\ k \in 0..(S - 1)
  <2>1. p \in Nat /\ k \in Nat /\ k < S /\ p < batch
    BY <1>6, <1>7
  <2> HIDE DEF p, k
  <2> QED BY <1>1, <2>1
<1>10. j = PieceStart(p) + k
  BY <1>1, <1>6, <1>8
<1> HIDE DEF p, k
<1> QED BY <1>9, <1>10 DEF S

\* Where the blocks of the chunk and of its pieces are on the disk.
LEMMA DiskPlace ==
  ASSUME TypeInv, CallInv, InChunk
  PROVE  /\ OnDisk(0) \in Nat /\ \A s \in Nat : OnDisk(s) = OnDisk(0) + s
         /\ \A p \in Nat : (FirstBlock + p * PieceBlocks) * spb
                            = OnDisk(0) + at \div Block + PieceStart(p)
         /\ \A p \in Nat : PieceBlocks \in Nat /\ FirstBlock + p * PieceBlocks \in Nat
<1>1. Busy
  BY DEF InChunk, Busy
<1>2. /\ spb \in {1, 8} /\ call.lba \in Nat /\ PieceBlocks \in Nat /\ PieceSectors \in Nat
      /\ at \div Block \in Nat /\ (at \div ns_block) * spb = at \div Block
      /\ ns_block \in {512, 4096} /\ at \in Nat
  BY <1>1, ChunkFacts, Geometry, PieceTypes DEF TypeInv
<1>3. at \div ns_block \in Nat
  BY <1>2, SMT
<1>4. \A s \in Nat : OnDisk(s) = call.lba * spb + s /\ call.lba * spb \in Nat
  BY <1>2 DEF OnDisk
<1> DEFINE f == at \div ns_block
           A == at \div Block
<1>5. FirstBlock = call.lba + f /\ f * spb = A /\ f \in Nat /\ A \in Nat
  BY <1>2, <1>3 DEF FirstBlock
<1>6. \A p : PieceStart(p) = p * (PieceBlocks * spb)
  BY DEF PieceStart, PieceSectors
<1> HIDE DEF f, A
<1>7. ASSUME NEW p \in Nat
      PROVE  /\ (FirstBlock + p * PieceBlocks) * spb = call.lba * spb + A + PieceStart(p)
             /\ FirstBlock + p * PieceBlocks \in Nat
  <2>1. PieceStart(p) = p * (PieceBlocks * spb)
    BY <1>6
  <2> DEFINE X == p * PieceBlocks
  <2>4. X \in Nat /\ p * (PieceBlocks * spb) = X * spb
    BY <1>2, Z3
  <2> HIDE DEF X
  <2>5. FirstBlock + X \in Nat
    BY <1>2, <1>5, <2>4
  <2>2. CASE spb = 1
    BY <1>2, <1>5, <2>1, <2>2, <2>4, SMT DEF X
  <2>3. CASE spb = 8
    <3>1. (FirstBlock + X) * 8 = call.lba * 8 + A + X * 8
      BY <1>2, <1>5, <2>3, <2>4, SMT
    <3>2. (FirstBlock + X) * spb = call.lba * spb + A + PieceStart(p)
      BY <2>1, <2>3, <2>4, <3>1
    <3> QED BY <2>5, <3>2 DEF X
  <2> QED BY <1>2, <2>2, <2>3, <2>5 DEF X
<1>8. OnDisk(0) = call.lba * spb
  BY <1>4
<1>9. OnDisk(0) \in Nat /\ \A s \in Nat : OnDisk(s) = OnDisk(0) + s
  BY <1>4, <1>8
<1>10. \A p \in Nat : (FirstBlock + p * PieceBlocks) * spb = OnDisk(0) + A + PieceStart(p)
  BY <1>7, <1>8
<1>11. \A p \in Nat : PieceBlocks \in Nat /\ FirstBlock + p * PieceBlocks \in Nat
  <2>1. PieceBlocks \in Nat
    BY <1>2
  <2>2. ASSUME NEW p \in Nat PROVE FirstBlock + p * PieceBlocks \in Nat
    BY <1>7
  <2> QED BY <2>1, <2>2, Zenon
<1>12. \A p \in Nat : (FirstBlock + p * PieceBlocks) * spb
                      = OnDisk(0) + at \div Block + PieceStart(p)
  BY <1>10, Zenon DEF A
<1> QED BY <1>9, <1>11, <1>12, Zenon
-----------------------------------------------------------------------------
(***************************************************************************)
(* What a command moves.                                                   *)
(***************************************************************************)
\* A store holds the new contents where there are some.
LEMMA StoredDomain ==
  ASSUME NEW f, NEW g PROVE DOMAIN Stored(f, g) = DOMAIN g \cup DOMAIN f
BY DEF Stored

\* The sectors of a command in the pages from that of address a on.
LEMMA PageArithmetic ==
  ASSUME NEW a \in Nat, a % 512 = 0, NEW k \in Nat, NEW n \in Nat, k < n,
         NEW f, f = (a % 4096) \div 512,
         NEW byte, byte = (f + k) * 512,
         NEW p, p = byte \div 4096
  PROVE  /\ f \in Nat /\ byte \in Nat /\ p \in Nat /\ p <= ((f + n - 1) * 512) \div 4096
         /\ a - (a % 4096) + p * 4096 + (byte % 4096) = a + k * 512
         /\ (a + k * 512) - ((a + k * 512) % 4096) = a - (a % 4096) + p * 4096
         /\ (p * 4096 + ((a + k * 512) % 4096)) \div 512 - f = k
         /\ f * 512 = a % 4096 /\ f < 8
<1>1. f \in Nat /\ f * 512 = a % 4096 /\ f < 8 /\ a % 4096 \in Nat
  BY SMT
<1>2. byte \in Nat /\ p \in Nat /\ byte = p * 4096 + (byte % 4096) /\ byte % 4096 \in Nat
      /\ byte % 4096 < 4096
  BY <1>1, SMT
<1>3. p <= ((f + n - 1) * 512) \div 4096
  BY <1>1, SMT
<1>4. a - (a % 4096) + p * 4096 + (byte % 4096) = a + k * 512
  BY <1>1, <1>2, SMT
<1>5. (a + k * 512) % 4096 = byte % 4096
  BY <1>1, <1>2, <1>4, SMT
<1> QED BY <1>1, <1>2, <1>3, <1>4, <1>5, SMT

\* A command for consecutive pages reaches consecutive sectors of memory.
LEMMA Reach ==
  ASSUME NEW c, c.prp1 \in Nat, c.prp1 % Block = 0, Contiguous(c),
         Length(c) \in Nat, NEW k \in 0..(Length(c) - 1)
  PROVE  /\ DeviceAddr(c, k) = c.prp1 + k * Block
         /\ \A q \in 0..LastPage(c) :
              PageAddr(c, q) = (c.prp1 + k * Block) - ((c.prp1 + k * Block) % Page)
              => SectorAt(c, q, c.prp1 + k * Block) = k
         /\ \E q \in 0..LastPage(c) :
              PageAddr(c, q) = (c.prp1 + k * Block) - ((c.prp1 + k * Block) % Page)
<1> DEFINE a == c.prp1
           n == Length(c)
           f == (a % 4096) \div 512
           byte == (f + k) * 512
           p == byte \div 4096
<1>1. a \in Nat /\ a % 512 = 0 /\ n \in Nat /\ k \in Nat /\ k < n
  BY SMT DEF Block
<1>2. /\ f \in Nat /\ byte \in Nat /\ p \in Nat /\ p <= ((f + n - 1) * 512) \div 4096
      /\ a - (a % 4096) + p * 4096 + (byte % 4096) = a + k * 512
      /\ (a + k * 512) - ((a + k * 512) % 4096) = a - (a % 4096) + p * 4096
      /\ (p * 4096 + ((a + k * 512) % 4096)) \div 512 - f = k
  <2> HIDE DEF a, n
  <2> QED BY <1>1, PageArithmetic
<1>3. FirstSector(c) = f /\ LastPage(c) = ((f + n - 1) * 512) \div 4096
  BY DEF FirstSector, LastPage, Page, Block
<1>4. DeviceAddr(c, k) = PageAddr(c, p) + (byte % 4096)
  BY <1>3 DEF DeviceAddr, Page, Block
<1>5. \A q \in 0..LastPage(c) : PageAddr(c, q) = a - (a % 4096) + q * 4096
  BY DEF Contiguous, Page
<1>6. \A q, b : SectorAt(c, q, b) = (q * 4096 + (b % 4096)) \div 512 - f
  BY <1>3 DEF SectorAt, Page, Block
<1>7. LastPage(c) \in Nat /\ p \in 0..LastPage(c)
  <2> HIDE DEF a, n, f, byte, p
  <2> QED BY <1>1, <1>2, <1>3, SMT
<1>8. PageAddr(c, p) = a - (a % 4096) + p * 4096
  BY <1>5, <1>7
<1> HIDE DEF a, n, f, byte, p
<1>9. DeviceAddr(c, k) = a + k * 512
  BY <1>2, <1>4, <1>8
<1>10. ASSUME NEW q \in 0..LastPage(c), PageAddr(c, q) = (a + k * 512) - ((a + k * 512) % 4096)
       PROVE  SectorAt(c, q, a + k * 512) = k
  <2>1. a - (a % 4096) + q * 4096 = a - (a % 4096) + p * 4096 /\ q \in Nat
    BY <1>2, <1>5, <1>7, <1>10
  <2>2. q = p
    BY <1>1, <1>2, <2>1, SMT
  <2> QED BY <1>2, <1>6, <2>2
<1>11. \E q \in 0..LastPage(c) : PageAddr(c, q) = (a + k * 512) - ((a + k * 512) % 4096)
  BY <1>2, <1>7, <1>8
<1> QED BY <1>9, <1>10, <1>11 DEF a, Page, Block

\* What a write of such a command leaves on the disk.
LEMMA WriteEffect ==
  ASSUME NEW c, c.prp1 \in Nat, c.prp1 % Block = 0, Contiguous(c),
         Length(c) \in Nat, FirstOnDisk(c) \in Nat, disk' = Stored(disk, Written(c))
  PROVE  /\ \A k \in 0..(Length(c) - 1) :
              Value(disk', "disk", FirstOnDisk(c) + k) = Value(mem, "mem", c.prp1 + k * Block)
         /\ \A b : b \notin FirstOnDisk(c)..(FirstOnDisk(c) + Length(c) - 1) =>
              Value(disk', "disk", b) = Value(disk, "disk", b)
         /\ DOMAIN disk' \subseteq
              DOMAIN disk \cup FirstOnDisk(c)..(FirstOnDisk(c) + Length(c) - 1)
<1> DEFINE d == FirstOnDisk(c)
           g == Written(c)
<1>1. DOMAIN g = d..(d + Length(c) - 1)
  BY DEF Written
<1>2. ASSUME NEW k \in 0..(Length(c) - 1)
      PROVE  d + k \in DOMAIN g /\ g[d + k] = Value(mem, "mem", c.prp1 + k * Block)
  <2>1. d + k \in d..(d + Length(c) - 1) /\ (d + k) - d = k
    BY SMT
  <2>2. DeviceAddr(c, k) = c.prp1 + k * Block
    BY Reach
  <2>3. g[d + k] = Value(mem, "mem", DeviceAddr(c, (d + k) - d))
    BY <2>1 DEF Written
  <2> QED BY <1>1, <2>1, <2>2, <2>3
<1> HIDE DEF g, d
<1>3. disk' = Stored(disk, g)
  BY DEF g
<1>4. \A k \in 0..(Length(c) - 1) : Value(disk', "disk", d + k) = g[d + k]
  <2>1. \A x \in DOMAIN g : Value(Stored(disk, g), "disk", x) = g[x]
    BY DEF Stored, Value
  <2> QED BY <1>2, <1>3, <2>1
<1>5. \A k \in 0..(Length(c) - 1) : Value(disk', "disk", d + k) = Value(mem, "mem", c.prp1 + k * Block)
  BY <1>2, <1>4, Zenon
<1>6. \A b : b \notin DOMAIN g => Value(disk', "disk", b) = Value(disk, "disk", b)
  <2>1. \A b : b \notin DOMAIN g => Value(Stored(disk, g), "disk", b) = Value(disk, "disk", b)
    BY DEF Stored, Value
  <2> QED BY <1>3, <2>1
<1>7. DOMAIN disk' \subseteq DOMAIN disk \cup DOMAIN g
  BY <1>3, StoredDomain, Zenon
<1> QED BY <1>1, <1>5, <1>6, <1>7, Zenon DEF d

\* What a read leaves in memory.
LEMMA ReadEffect ==
  ASSUME NEW c, c.prp1 \in Nat, c.prp1 % Block = 0, Contiguous(c),
         Length(c) \in Nat, FirstOnDisk(c) \in Nat, mem' = Stored(mem, Fetched(c))
  PROVE  /\ \A k \in 0..(Length(c) - 1) :
              Value(mem', "mem", c.prp1 + k * Block) = Value(disk, "disk", FirstOnDisk(c) + k)
         /\ \A a : a \notin {c.prp1 + k * Block : k \in 0..(Length(c) - 1)} =>
              Value(mem', "mem", a) = Value(mem, "mem", a)
         /\ DOMAIN mem' \subseteq
              DOMAIN mem \cup {c.prp1 + k * Block : k \in 0..(Length(c) - 1)}
<1> DEFINE R == {c.prp1 + k * Block : k \in 0..(Length(c) - 1)}
           g == Fetched(c)
           W(a) == CHOOSE q \in 0..LastPage(c) : PageAddr(c, q) = a - (a % Page)
<1>1. {DeviceAddr(c, k) : k \in 0..(Length(c) - 1)} = R
  <2>1. \A k \in 0..(Length(c) - 1) : DeviceAddr(c, k) = c.prp1 + k * Block
    BY Reach
  <2> QED BY <2>1, Zenon
<1>2. g = [a \in R |-> Value(disk, "disk", FirstOnDisk(c) + SectorAt(c, W(a), a))]
  BY <1>1 DEF Fetched
<1>3. DOMAIN g = R
  BY <1>2
<1>4. ASSUME NEW k \in 0..(Length(c) - 1)
      PROVE  /\ c.prp1 + k * Block \in DOMAIN g
             /\ g[c.prp1 + k * Block] = Value(disk, "disk", FirstOnDisk(c) + k)
  <2> DEFINE a == c.prp1 + k * Block
  <2>1. a \in R
    OBVIOUS
  <2>2. \E q \in 0..LastPage(c) : PageAddr(c, q) = a - (a % Page)
    BY Reach
  <2>3. W(a) \in 0..LastPage(c) /\ PageAddr(c, W(a)) = a - (a % Page)
    BY <2>2, Zenon
  <2>4. SectorAt(c, W(a), a) = k
    <3> HIDE DEF W
    <3> QED BY <2>3, Reach
  <2>5. g[a] = Value(disk, "disk", FirstOnDisk(c) + SectorAt(c, W(a), a))
    BY <1>2, <2>1
  <2> HIDE DEF g, R, W
  <2> QED BY <1>3, <2>1, <2>4, <2>5
<1> HIDE DEF g, R, W
<1>5. mem' = Stored(mem, g)
  BY DEF g
<1>6. \A k \in 0..(Length(c) - 1) : Value(mem', "mem", c.prp1 + k * Block) = g[c.prp1 + k * Block]
  <2>1. \A x \in DOMAIN g : Value(Stored(mem, g), "mem", x) = g[x]
    BY DEF Stored, Value
  <2> QED BY <1>4, <1>5, <2>1
<1>7. \A k \in 0..(Length(c) - 1) :
        Value(mem', "mem", c.prp1 + k * Block) = Value(disk, "disk", FirstOnDisk(c) + k)
  BY <1>4, <1>6, Zenon
<1>8. \A a : a \notin DOMAIN g => Value(mem', "mem", a) = Value(mem, "mem", a)
  <2>1. \A a : a \notin DOMAIN g => Value(Stored(mem, g), "mem", a) = Value(mem, "mem", a)
    BY DEF Stored, Value
  <2> QED BY <1>5, <2>1
<1>9. DOMAIN mem' \subseteq DOMAIN mem \cup DOMAIN g
  BY <1>5, StoredDomain, Zenon
<1> QED BY <1>3, <1>7, <1>8, <1>9, Zenon DEF R

\* Nothing of a read into memory behind page 0 is lost.
LEMMA AllArrives ==
  ASSUME NEW c, c.prp1 \in Nat, c.prp1 % Block = 0, Contiguous(c), Length(c) \in Nat,
         c.prp1 >= Page, NEW data \in Arrivals(c)
  PROVE  data = Fetched(c)
<1> DEFINE g == Fetched(c)
<1>1. DOMAIN g = {DeviceAddr(c, k) : k \in 0..(Length(c) - 1)} /\ g = [a \in DOMAIN g |-> g[a]]
  BY DEF Fetched
<1>2. ASSUME NEW k \in 0..(Length(c) - 1) PROVE DeviceAddr(c, k) \notin 0..(Page - 1)
  <2>1. DeviceAddr(c, k) = c.prp1 + k * 512
    BY Reach DEF Block
  <2>2. c.prp1 \in Nat /\ c.prp1 >= 4096 /\ k \in Nat
    BY DEF Page
  <2>3. Page - 1 \in Nat /\ Page - 1 < 4096
    BY DEF Page
  <2>4. PICK a : a = c.prp1 + k * 512
    OBVIOUS
  <2>5. a \in Nat /\ a >= 4096
    BY <2>2, <2>4
  <2>6. a \notin 0..(Page - 1)
    BY <2>3, <2>5
  <2> QED BY <2>1, <2>4, <2>6
<1>3. DOMAIN g \ 0..(Page - 1) = DOMAIN g
  BY <1>1, <1>2
<1>4. data = g \/ data = [a \in DOMAIN g \ 0..(Page - 1) |-> g[a]]
  BY DEF Arrivals
<1> HIDE DEF g
<1> QED BY <1>1, <1>3, <1>4 DEF g

\* Where a command stays within a page, or begins a page and has the address of
\* the next, it needs no list.
LEMMA TwoPages ==
  ASSUME NEW c, c.prp1 \in Nat, Length(c) \in Nat \ {0},
         \/ (c.prp1 % Page) + Length(c) * Block <= Page
         \/ c.prp1 % Page = 0 /\ Length(c) * Block <= 2 * Page /\ c.prp2 = c.prp1 + Page
  PROVE  Contiguous(c)
<1> DEFINE a == c.prp1
           n == Length(c)
           f == (a % 4096) \div 512
           l == LastPage(c)
<1>1. l = ((f + n - 1) * 512) \div 4096
  BY DEF LastPage, FirstSector, Page, Block
<1>2. a \in Nat /\ n \in Nat \ {0} /\ a % 4096 \in Nat
  BY SMT
<1>3. PageAddr(c, 0) = a - (a % 4096)
  BY DEF PageAddr, Page
<1>4. CASE (a % 4096) + n * 512 <= 4096
  <2>1. l = 0
    <3> HIDE DEF a, n
    <3> QED BY <1>1, <1>2, <1>4, SMT
  <2> HIDE DEF a, l
  <2> QED BY <1>2, <1>3, <2>1 DEF Contiguous, Page, l, a
<1>5. CASE a % 4096 = 0 /\ n * 512 <= 2 * 4096 /\ c.prp2 = a + 4096
  <2>1. l = 0 \/ l = 1
    <3> HIDE DEF a, n
    <3> QED BY <1>1, <1>2, <1>5, SMT
  <2> HIDE DEF l
  <2>2. l = 1 => PageAddr(c, 1) = a + 4096
    BY <1>5 DEF PageAddr, l
  <2>3. \A p \in 0..l : p = 0 \/ (p = 1 /\ l = 1)
    BY <2>1
  <2>4. a - (a % 4096) + 0 * 4096 = a - (a % 4096) /\ a - (a % 4096) + 1 * 4096 = a + 4096
    BY <1>2, <1>5
  <2> HIDE DEF a
  <2>5. \A p \in 0..l : PageAddr(c, p) = a - (a % 4096) + p * 4096
    BY <1>3, <2>2, <2>3, <2>4
  <2> QED BY <2>5 DEF Contiguous, Page, l, a
<1> QED BY <1>4, <1>5 DEF Page, Block

\* Where write_prp has filled the list, it names the pages of the command.
LEMMA ListedPages ==
  ASSUME NEW c, c.prp1 \in Nat, c.prp1 % Page = 0, c.prp2 = prp_list_phys + 8,
         NEW n \in Nat, n > 2, n <= 128, Length(c) = n * 8,
         \A k \in 0..(ListLen - 1) : k < n => prp_list[k] = c.prp1 + k * Page
  PROVE  Contiguous(c)
<1> DEFINE a == c.prp1
           l == LastPage(c)
<1>1. FirstSector(c) = 0
  BY SMT DEF FirstSector, Page, Block
<1>2. l = n - 1
  BY <1>1, SMT DEF LastPage, Page, Block
<1>3. ASSUME NEW p \in 0..l PROVE PageAddr(c, p) = a - (a % 4096) + p * 4096
  <2>1. a % 4096 = 0 /\ a \in Nat
    BY DEF Page
  <2>2. CASE p = 0
    <3>1. PageAddr(c, p) = a - (a % 4096)
      BY <2>2 DEF PageAddr, Page
    <3> QED BY <2>1, <2>2, <3>1
  <2>3. CASE p # 0
    <3>1. ((c.prp2 - prp_list_phys) \div 8) + p - 1 = p /\ p \in 0..(ListLen - 1) /\ p < n
      BY <1>2, Constants, SMT
    <3>2. PageAddr(c, p) = prp_list[p]
      <4> HIDE DEF l
      <4> QED BY <1>2, <2>3, <3>1 DEF PageAddr, l
    <3>3. prp_list[p] = a + p * 4096
      BY <3>1 DEF Page
    <3> HIDE DEF a, l
    <3>4. p \in Nat
      BY <1>2
    <3> QED BY <2>1, <3>2, <3>3, <3>4
  <2> QED BY <2>2, <2>3
<1> QED BY <1>3 DEF Contiguous, Page

\* A transfer's memory lies behind the driver's own, at a sector boundary.
LEMMA ChunkAddr ==
  ASSUME TypeInv, CallInv, Busy
  PROVE  /\ chunk_addr \in Nat /\ chunk_addr >= buffer /\ chunk_addr % Block = 0
         /\ call.op \in ThroughBuffer => chunk_addr = buffer
         /\ call.op \notin ThroughBuffer =>
              /\ ns_block = Block /\ Blocks(chunk_len) = Sectors(chunk_len)
              /\ chunk_addr = call.base + at /\ call.base >= buffer + 512 * Page
              /\ chunk_addr % Page = 0 \/ (chunk_addr % Page) + chunk_len <= Page
<1>1. call.len \in Nat /\ at \in Nat /\ chunk_len \in Nat /\ chunk_len <= call.len - at
  BY ChunkFacts
<1>2. at % chunk_size(call.op) = 0 /\ call.op # "none" /\ call.op \in DOMAIN Slices
      /\ call.base \in Nat
  BY DEF CallInv, TypeInv, TypeOK, Busy
<1>3. at % 4096 = 0
  BY <1>1, <1>2 DEF chunk_size, Page
<1>4. CASE call.op \in ThroughBuffer
  <2>1. chunk_addr = buffer
    BY <1>4 DEF chunk_addr
  <2> QED BY <1>4, <2>1, Constants DEF Block
<1>5. CASE call.op \notin ThroughBuffer
  <2>1. chunk_addr = call.base + at /\ ns_block = Block
    BY <1>2, <1>5 DEF chunk_addr, CallInv
  <2>2. PICK s \in Slices[call.op] : s.base = call.base /\ s.len = call.len
    BY <1>2 DEF CallInv
  <2>3. /\ s.base % Block = 0 /\ s.len % Block = 0
        /\ s.base >= buffer + 512 * Page
        /\ s.base % Page = 0 \/ (s.base % Page) + s.len <= Page
    BY <1>2, <1>5, <2>2, SliceAssumption, Zenon
  <2>4. Blocks(chunk_len) = Sectors(chunk_len)
    BY <2>1 DEF Blocks, Sectors
  <2>5. chunk_addr \in Nat /\ chunk_addr >= buffer /\ chunk_addr % 512 = 0
    BY <1>1, <1>2, <1>3, <2>1, <2>2, <2>3, Constants, SMT DEF Block, Page
  <2>6. chunk_addr % 4096 = 0 \/ (chunk_addr % 4096) + chunk_len <= 4096
    <3>1. CASE call.base % 4096 = 0
      BY <1>1, <1>2, <1>3, <2>1, <3>1, SMT
    <3>2. CASE (call.base % 4096) + call.len <= 4096
      <4>1. at = 0
        BY <1>1, <1>2, <1>3, <3>2, ChunkFacts, SMT
      <4> QED BY <1>1, <1>2, <2>1, <3>2, <4>1
    <3> QED BY <2>2, <2>3, <3>1, <3>2 DEF Page
  <2> QED BY <1>5, <2>1, <2>2, <2>3, <2>4, <2>5, <2>6 DEF Block, Page
<1> QED BY <1>4, <1>5

\* The command of a chunk that is not a batch.
LEMMA SingleCommand ==
  ASSUME TypeInv, CallInv, pc = "chunk", call.op \notin Batched,
         NEW c, c = Command(chunk_addr, Blocks(chunk_len), Block, prp_list_phys + 8)
  PROVE  /\ c.write = (call.op \in Writing) /\ c.lba = lba /\ c.blocks = Blocks(chunk_len)
         /\ c.prp1 = chunk_addr /\ Length(c) = Blocks(chunk_len) * spb
         /\ c.prp2 = IF Blocks(chunk_len) * Block <= Page THEN 0
                     ELSE IF Blocks(chunk_len) * Block <= 2 * Page THEN chunk_addr + Page
                     ELSE prp_list_phys + 8
BY DEF Command, Length

\* If the call is expressible, the command needs no list, or it is one of
\* write_prp for whole pages.
LEMMA SingleEntries ==
  ASSUME Expressible, TypeInv, CallInv, pc = "chunk", call.op \notin Batched,
         NEW c, c = Command(chunk_addr, Blocks(chunk_len), Block, prp_list_phys + 8)
  PROVE  \/ (c.prp1 % Page) + Length(c) * Block <= Page
         \/ c.prp1 % Page = 0 /\ Length(c) * Block <= 2 * Page /\ c.prp2 = c.prp1 + Page
         \/ /\ call.op \in Prp /\ c.prp2 = prp_list_phys + 8 /\ chunk_addr % Page = 0
            /\ chunk_len % Page = 0 /\ chunk_len > 2 * Page /\ chunk_len <= 128 * Page
            /\ Length(c) = (chunk_len \div Page) * 8
<1> DEFINE b == Blocks(chunk_len)
<1>1. Busy
  BY DEF Busy
<1>2. /\ c.prp1 = chunk_addr /\ Length(c) = b * spb
      /\ c.prp2 = IF b * 512 <= 4096 THEN 0
                  ELSE IF b * 512 <= 2 * 4096 THEN chunk_addr + 4096 ELSE prp_list_phys + 8
  BY SingleCommand DEF Page, Block
<1>3. /\ chunk_len \in Nat \ {0} /\ ns_block \in {512, 4096} /\ spb \in {1, 8}
      /\ ns_block = spb * 512 /\ b \in Nat \ {0} /\ b = (chunk_len + ns_block - 1) \div ns_block
      /\ chunk_addr \in Nat /\ chunk_addr % 512 = 0
  BY <1>1, ChunkFacts, ChunkAddr DEF Blocks, Block
<1>4. call.op \in Direct \cup Prp \cup Copied /\ chunk_len \in Chunks(call.op, call.len)
  BY <1>1, PathAssumption, InChunks DEF TypeInv, TypeOK, Busy
<1>5. /\ call.op \in Prp => chunk_len % Page = 0 \/ chunk_len <= 2 * Page
      /\ call.op \in Copied => chunk_len <= Page \/ (chunk_len <= 2 * Page /\ ns_block = Block)
  BY <1>4, Zenon DEF Expressible
<1>6. call.op \in Direct => chunk_len <= 2 * Page
  BY <1>1, <1>3, ChunkFacts, ChunkSizes DEF chunk_len, Min2, chunk_size, Page
<1>7. call.op \in Copied => chunk_addr % 4096 = 0
  BY <1>1, ChunkAddr, Constants DEF ThroughBuffer
<1>8. call.op \notin Copied =>
        ns_block = 512 /\ (chunk_addr % 4096 = 0 \/ (chunk_addr % 4096) + chunk_len <= 4096)
  BY <1>1, ChunkAddr DEF ThroughBuffer, Block, Page
<1>9. CASE ns_block = 4096
  <2>1. b = 1 /\ spb = 8 /\ chunk_addr % 4096 = 0
    BY <1>3, <1>5, <1>7, <1>8, <1>9, SMT DEF Page, Block
  <2> QED BY <1>2, <2>1 DEF Page, Block
<1>10. CASE ns_block = 512 /\ (chunk_addr % 4096) + chunk_len <= 4096
  <2>1. (chunk_addr % 4096) + b * 512 <= 4096
    BY <1>3, <1>10, SMT
  <2> QED BY <1>2, <1>3, <1>10, <2>1 DEF Page, Block
<1>11. CASE /\ ns_block = 512 /\ chunk_addr % 4096 = 0 /\ chunk_len <= 2 * 4096
            /\ ~((chunk_addr % 4096) + chunk_len <= 4096)
  <2>1. b * 512 <= 2 * 4096 /\ b * 512 > 4096 /\ spb = 1
    BY <1>3, <1>11, SMT
  <2> QED BY <1>2, <1>3, <1>11, <2>1 DEF Page, Block
<1>12. CASE ns_block = 512 /\ chunk_addr % 4096 = 0 /\ chunk_len > 2 * 4096
  <2>1. call.op \in Prp /\ chunk_len % 4096 = 0
    BY <1>3, <1>4, <1>5, <1>6, <1>12 DEF Page, Block
  <2>2. spb = 1 /\ b * 512 > 2 * 4096 /\ b = (chunk_len \div 4096) * 8
    BY <1>3, <1>12, <2>1, SMT
  <2>3. c.prp2 = prp_list_phys + 8
    BY <1>2, <1>3, <2>2
  <2>4. chunk_len <= 128 * 4096
    <3>1. call.op \notin Batched \cup Direct
      BY <2>1 DEF Prp, Batched, Direct
    <3> QED BY <1>1, <3>1, ChunkFacts DEF chunk_len, chunk_size, Min2, Page
  <2>5. Length(c) = (chunk_len \div 4096) * 8
    BY <1>2, <1>3, <2>2
  <2> QED BY <1>12, <2>1, <2>3, <2>4, <2>5 DEF Page
<1>13. CASE call.op \in Copied
  BY <1>3, <1>7, <1>9, <1>10, <1>11, <1>12, <1>13
<1>14. CASE call.op \notin Copied
  BY <1>3, <1>8, <1>9, <1>10, <1>11, <1>12, <1>14
<1> QED BY <1>13, <1>14

\* The two lemmas on PRP entries as predicates, which hold of any state.
TwoPagesReached ==
  \A c : /\ c.prp1 \in Nat /\ Length(c) \in Nat \ {0}
         /\ \/ (c.prp1 % Page) + Length(c) * Block <= Page
            \/ c.prp1 % Page = 0 /\ Length(c) * Block <= 2 * Page /\ c.prp2 = c.prp1 + Page
         => Contiguous(c)
ListedPagesReached ==
  \A c, n :
    /\ c.prp1 \in Nat /\ c.prp1 % Page = 0 /\ c.prp2 = prp_list_phys + 8
    /\ n \in Nat /\ n > 2 /\ n <= 128 /\ Length(c) = n * 8
    /\ \A k \in 0..(ListLen - 1) : k < n => prp_list[k] = c.prp1 + k * Page
    => Contiguous(c)

\* Both hold.
LEMMA PagesReached == TwoPagesReached /\ ListedPagesReached
<1>1. TwoPagesReached
  BY TwoPages DEF TwoPagesReached
<1>2. ListedPagesReached
  BY ListedPages DEF ListedPagesReached
<1> QED BY <1>1, <1>2
-----------------------------------------------------------------------------
(***************************************************************************)
(* The call and its commands.                                              *)
(***************************************************************************)
\* What depends on the call only.
LEMMA SameCall ==
  ASSUME UNCHANGED <<call, ns_block>>
  PROVE  Expressible' = Expressible /\ Covered' = Covered /\ Span' = Span
<1>1. Expressible' = Expressible
  BY DEF Expressible
<1>2. Covered' = Covered /\ Span' = Span
  BY DEF Covered, Span, OnDisk, spb, Blocks
<1> QED BY <1>1, <1>2

\* What depends on the call and the chunk only.
LEMMA Frame ==
  ASSUME UNCHANGED <<call, at, ns_block>>
  PROVE  /\ chunk_len' = chunk_len /\ chunk_addr' = chunk_addr /\ spb' = spb
         /\ FirstBlock' = FirstBlock /\ PieceBlocks' = PieceBlocks
         /\ PieceSectors' = PieceSectors /\ batch_len' = batch_len /\ batch_size' = batch_size
         /\ Span' = Span /\ Covered' = Covered /\ Fits' = Fits
         /\ \A len : Blocks(len)' = Blocks(len)
         /\ \A p : PieceStart(p)' = PieceStart(p) /\ PieceAddr(p)' = PieceAddr(p)
         /\ \A p, k : /\ ChunkSector(p, k)' = ChunkSector(p, k)
                      /\ SectorOf(p, k)' = SectorOf(p, k)
         /\ \A s : OnDisk(s)' = OnDisk(s)
         /\ Expressible' = Expressible
<1>1. chunk_len' = chunk_len /\ chunk_addr' = chunk_addr /\ spb' = spb
  BY DEF chunk_len, chunk_addr, spb
<1>2. \A len : Blocks(len)' = Blocks(len)
  BY DEF Blocks
<1>3. \A s : OnDisk(s)' = OnDisk(s)
  BY <1>1 DEF OnDisk
<1>4. batch_len' = batch_len /\ batch_size' = batch_size /\ piece_blocks' = piece_blocks
  BY <1>1 DEF batch_len, batch_size, piece_blocks
<1>5. PieceBlocks' = PieceBlocks /\ FirstBlock' = FirstBlock
  BY <1>1, <1>2, <1>4 DEF PieceBlocks, FirstBlock
<1>6. PieceSectors' = PieceSectors
  BY <1>1, <1>5 DEF PieceSectors
<1>7. \A p : PieceStart(p)' = PieceStart(p) /\ PieceAddr(p)' = PieceAddr(p)
  BY <1>1, <1>6 DEF PieceStart, PieceAddr
<1>8. \A p, k : ChunkSector(p, k)' = ChunkSector(p, k) /\ SectorOf(p, k)' = SectorOf(p, k)
  BY <1>1, <1>7 DEF ChunkSector, SectorOf
<1>9. Span' = Span /\ Fits' = Fits
  BY DEF Span, Fits
<1>10. Covered' = Covered
  BY <1>1, <1>2, <1>3 DEF Covered
<1>11. Expressible' = Expressible
  BY SameCall
<1> QED BY <1>1, <1>2, <1>3, <1>4, <1>5, <1>6, <1>7, <1>8, <1>9, <1>10, <1>11

\* Where a command's pages are depends on the list only.
LEMMA CommandFrame ==
  ASSUME UNCHANGED <<prp_list, ns_block>>, NEW c
  PROVE  Contiguous(c)' = Contiguous(c)
<1>1. spb' = spb
  BY DEF spb
<1>2. LastPage(c)' = LastPage(c)
  BY <1>1 DEF LastPage, Length
<1>3. \A p : PageAddr(c, p)' = PageAddr(c, p)
  BY <1>2 DEF PageAddr
<1> QED BY <1>2, <1>3 DEF Contiguous

\* While commands are outstanding, the driver pushes or waits; a device step
\* touches neither the call nor the chunk.
LEMMA DeviceFrame ==
  ASSUME TypeInv, CallInv, CommandInv, NEW c \in cmds, device_execute(c) \/ device_refuse(c)
  PROVE  /\ InChunk /\ Busy /\ posted \in Nat /\ posted < batch
         /\ cmds' = cmds \ {c} /\ posted' = posted + 1
         /\ UNCHANGED <<prp_list, pc, call, at, lba, i, batch, ns_block, before, app>>
<1>1. InChunk /\ Busy
  BY DEF CommandInv, InChunk, Busy
<1>2. cmds' = cmds \ {c} /\ posted' = posted + 1
      /\ UNCHANGED <<prp_list, pc, call, at, lba, i, batch, ns_block, before, app>>
  BY DEF device_execute, device_refuse, callVars, dataVars, boundVars
<1>3. posted \in Nat /\ posted < batch
  <2>1. IsFiniteSet(cmds) /\ Cardinality(cmds) \in Nat /\ Cardinality(cmds) # 0
    BY FS_CardinalityType, FS_EmptySet DEF TypeInv
  <2> QED BY <2>1, PathAssumption DEF TypeInv, TypeOK, Min2
<1> QED BY <1>1, <1>2, <1>3

\* The operation that chunk steps share: one command for the whole chunk.
LEMMA SingleStep ==
  ASSUME TypeInv, CallInv, [Next]_vars,
         direct_chunk \/ prp_chunk \/ write_copied_chunk \/ read_copied_chunk
  PROVE  /\ pc = "chunk" /\ call.op \notin Batched
         /\ cmds' = {Command(chunk_addr, Blocks(chunk_len), Block, prp_list_phys + 8)}
         /\ posted' = 0 /\ lba' = lba + Blocks(chunk_len)
         /\ batch' = 1 /\ i' = 1 /\ pc' = "wait"
         /\ UNCHANGED <<call, at, before, status, ns_block, hidden, calls, faults, disk, app>>
<1> USE DEF namespace_io, boundVars, dataVars
<1>1. ASSUME direct_chunk \/ prp_chunk, call.op \in Direct \cup Prp
      PROVE  chunk_addr = chunk_addr /\ Sectors(chunk_len) = Blocks(chunk_len)
  <2>1. Busy /\ call.op \notin ThroughBuffer
    BY <1>1 DEF direct_chunk, prp_chunk, Busy, ThroughBuffer, Direct, Prp, Copied, Batched
  <2> QED BY <2>1, ChunkAddr
<1>2. CASE direct_chunk
  BY <1>1, <1>2 DEF direct_chunk, Direct, Batched
<1>3. CASE prp_chunk
  BY <1>1, <1>3 DEF prp_chunk, Prp, Batched
<1>4. CASE write_copied_chunk
  BY <1>4 DEF write_copied_chunk, chunk_addr, ThroughBuffer, Copied, Batched
<1>5. CASE read_copied_chunk
  BY <1>5 DEF read_copied_chunk, chunk_addr, ThroughBuffer, Copied, Batched
<1> QED BY <1>2, <1>3, <1>4, <1>5

\* A panicking call leaves no command behind.
LEMMA PanicStep ==
  ASSUME TypeInv, CallInv, chunk_panics \/ push_panics \/ wait_panics
  PROVE  panic /\ cmds = {}
<1>1. CASE chunk_panics
  BY <1>1 DEF chunk_panics, TypeInv
<1>2. CASE wait_panics
  BY <1>2, WaitOver DEF wait_panics
<1>3. CASE push_panics
  <2>1. pc = "push" /\ piece_blocks = 0 /\ call.op \in Batched /\ panic
    BY <1>3 DEF push_panics, TypeInv
  <2>2. i = 0
    BY <2>1 DEF CallInv, InChunk, PieceBlocks, TypeInv, TypeOK
  <2>3. posted + Cardinality(cmds) <= 0 /\ posted \in Nat /\ Cardinality(cmds) \in Nat
    BY <2>2, FS_CardinalityType, PathAssumption DEF TypeInv, TypeOK, Min2
  <2>4. Cardinality(cmds) = 0
    BY <2>3
  <2> QED BY <2>1, <2>4, FS_EmptySet DEF TypeInv
<1> QED BY <1>1, <1>2, <1>3

\* The first block is a number.
LEMMA FirstType == ASSUME TypeInv, Busy PROVE FirstBlock \in Nat
<1>1. at \in Nat /\ ns_block \in {512, 4096} /\ call.lba \in Nat
  BY ChunkFacts DEF TypeInv
<1>2. CASE ns_block = 512
  BY <1>1, <1>2, SMT DEF FirstBlock
<1>3. CASE ns_block = 4096
  BY <1>1, <1>3, SMT DEF FirstBlock
<1> QED BY <1>1, <1>2, <1>3

\* The next chunk's first block follows the chunk's last.
LEMMA NextBlock ==
  ASSUME TypeInv, CallInv, pc = "wait", at + chunk_len < call.len
  PROVE  /\ lba <= call.lba + (at + chunk_len) \div ns_block
         /\ Expressible => lba = call.lba + (at + chunk_len) \div ns_block
         /\ (at + chunk_len) % chunk_size(call.op) = 0
<1>1. Busy /\ InChunk /\ i = batch /\ batch \in Nat \ {0} /\ call.lba \in Nat /\ lba \in Nat
  BY DEF Busy, InChunk, CallInv, TypeInv, TypeOK
<1>2. /\ at \in Nat /\ chunk_len \in Nat \ {0} /\ ns_block \in {512, 4096}
      /\ spb \in {1, 8} /\ ns_block = spb * 512
      /\ chunk_len = chunk_size(call.op) /\ at % chunk_size(call.op) = 0
  BY <1>1, ChunkFacts, Geometry DEF CallInv
<1>3. chunk_len % 4096 = 0 /\ at % 4096 = 0 /\ (at + chunk_len) % chunk_size(call.op) = 0
  BY <1>2, SMT DEF chunk_size, Page
<1>4. PieceBlocks \in Nat /\ batch * PieceBlocks \in Nat /\ PieceSectors = PieceBlocks * spb
  BY <1>1, PieceTypes DEF PieceSectors
<1>5. /\ (batch * PieceBlocks) * ns_block <= chunk_len
      /\ Expressible => chunk_len = (batch * PieceBlocks) * ns_block
  <2>1. CASE call.op \in Batched
    <3>1. PieceBlocks > 0
      BY <1>1 DEF CallInv
    <3>2. Expressible => chunk_len = (batch * PieceBlocks) * ns_block
      BY <1>1, <2>1, <3>1, WholeBatch
    <3>3. batch * (PieceBlocks * spb) * 512 <= chunk_len
      BY <1>1, <1>4, <2>1, PieceTypes DEF Block
    <3>4. batch * (PieceBlocks * spb) * 512 = (batch * PieceBlocks) * ns_block
      BY <1>1, <1>2, <1>4, Z3
    <3> QED BY <3>2, <3>3, <3>4
  <2>2. CASE call.op \notin Batched
    <3>1. batch = 1 /\ PieceBlocks = (chunk_len + ns_block - 1) \div ns_block
      BY <1>1, <2>2 DEF CallInv, PieceBlocks, Blocks
    <3>2. chunk_len = PieceBlocks * ns_block
      <4>1. CASE ns_block = 512
        BY <1>2, <1>3, <3>1, <4>1, SMT
      <4>2. CASE ns_block = 4096
        <5>1. PieceBlocks = (chunk_len + 4095) \div 4096
          BY <1>2, <3>1, <4>2
        <5>2. chunk_len \in Nat /\ chunk_len % 4096 = 0
          BY <1>2, <1>3
        <5>3. chunk_len = PieceBlocks * 4096
          BY <5>1, <5>2, SMT
        <5> QED BY <4>2, <5>3
      <4> QED BY <1>2, <4>1, <4>2
    <3>3. chunk_len = (batch * PieceBlocks) * ns_block /\ chunk_len <= chunk_len
      BY <1>2, <1>4, <3>1, <3>2
    <3> QED BY <3>3
  <2> QED BY <2>1, <2>2
<1> DEFINE m == batch * PieceBlocks
           f == at \div ns_block
           g == (at + chunk_len) \div ns_block
<1>6. /\ m \in Nat /\ m * ns_block <= chunk_len /\ (Expressible => chunk_len = m * ns_block)
      /\ lba <= FirstBlock + m /\ (Expressible => lba = FirstBlock + m)
      /\ FirstBlock = call.lba + f
  BY <1>1, <1>4, <1>5 DEF CallInv, FirstBlock
<1> HIDE DEF m
<1>7. f + m <= g /\ f \in Nat /\ g \in Nat
  <2>1. CASE ns_block = 512
    BY <1>2, <1>6, <2>1, SMT
  <2>2. CASE ns_block = 4096
    BY <1>2, <1>6, <2>2, SMT
  <2> QED BY <1>2, <2>1, <2>2
<1>8. chunk_len = m * ns_block => f + m = g
  <2>1. CASE ns_block = 512
    BY <1>2, <1>6, <2>1, SMT
  <2>2. CASE ns_block = 4096
    BY <1>2, <1>6, <2>2, SMT
  <2> QED BY <1>2, <2>1, <2>2
<1> HIDE DEF f, g
<1>9. lba <= call.lba + g
  BY <1>1, <1>6, <1>7
<1>10. Expressible => lba = call.lba + g
  BY <1>1, <1>6, <1>7, <1>8
<1> QED BY <1>3, <1>9, <1>10 DEF g

\* The pieces stay within the blocks of the call.
LEMMA BlocksWithin ==
  ASSUME TypeInv, CallInv, InChunk, NEW p \in 0..batch
  PROVE  /\ FirstBlock + p * PieceBlocks <= call.lba + Blocks(call.len)
         /\ FirstBlock \in Nat /\ p * PieceBlocks \in Nat /\ Blocks(call.len) \in Nat
<1> DEFINE f == at \div ns_block
           m == p * PieceBlocks
           n == Blocks(call.len)
           E == Blocks(chunk_len) * spb
           A == at \div Block
<1>1. Busy /\ batch \in Nat \ {0} /\ call.lba \in Nat /\ PieceBlocks \in Nat /\ p \in Nat
  BY PieceTypes DEF InChunk, Busy, TypeInv
<1>2. /\ spb \in {1, 8} /\ ns_block \in {512, 4096} /\ at \in Nat /\ call.len \in Nat
      /\ A \in Nat /\ E \in Nat /\ A + E <= n * spb /\ f * spb = A
  BY <1>1, ChunkFacts, Geometry
<1>3. f \in Nat /\ n \in Nat
  <2>1. CASE ns_block = 512
    BY <1>2, <2>1, SMT DEF Blocks
  <2>2. CASE ns_block = 4096
    BY <1>2, <2>2, SMT DEF Blocks
  <2> QED BY <1>2, <2>1, <2>2
<1>4. m \in Nat
  BY <1>1
<1>5. m * spb <= E
  <2>1. CASE p = 0
    BY <1>1, <1>2, <2>1
  <2>2. CASE p # 0
    <3>1. p - 1 \in 0..(batch - 1)
      BY <1>1, <2>2
    <3>2. PieceStart(p - 1) + PieceSectors <= E
      BY <3>1, PieceFacts
    <3>3. PieceStart(p - 1) + PieceSectors = (p - 1) * (PieceBlocks * spb) + PieceBlocks * spb
      BY DEF PieceStart, PieceSectors
    <3>4. (p - 1) * (PieceBlocks * spb) + PieceBlocks * spb = (p * PieceBlocks) * spb
      BY <1>1, <1>2, Z3
    <3> QED BY <3>2, <3>3, <3>4
  <2> QED BY <2>1, <2>2
<1> HIDE DEF f, m, n, E, A
<1>6. f + m <= n
  BY <1>2, <1>3, <1>4, <1>5
<1>7. FirstBlock = call.lba + f
  BY DEF FirstBlock, f
<1> QED BY <1>1, <1>3, <1>4, <1>6, <1>7 DEF m, n

\* Every step keeps track of how far the call has got.
LEMMA CallStep ==
  ASSUME TypeInv, CallInv, CommandInv, [Next]_vars
  PROVE  CallInv'
<1> USE DEF dataVars, callVars, boundVars
<1>1. ASSUME NEW op \in DOMAIN Slices, NEW s \in Slices[op], NEW b \in Lbas,
             NEW k \in IF op \in Batched THEN BatchLens ELSE {1}, begin(op, s, b, k)
      PROVE  CallInv'
  <2>1. /\ call'.op = op /\ call'.base = s.base /\ call'.len = s.len /\ call'.lba = b
        /\ call'.batch = k
        /\ at' = 0 /\ lba' = b /\ hidden' = FALSE /\ pc' = "chunk" /\ ns_block' = ns_block
        /\ op \notin ThroughBuffer => ns_block = Block
    BY <1>1 DEF begin
  <2>2. b \in Nat /\ ns_block \in {512, 4096}
    BY PathAssumption DEF TypeInv, TypeOK, Page, Block
  <2>3. 0 % chunk_size(op) = 0 /\ 0 \div ns_block = 0
    BY <2>2, ChunkSizes DEF chunk_size, Page
  <2>4. lba' = FirstBlock' /\ lba' <= FirstBlock' /\ call'.lba <= lba'
    BY <2>1, <2>2, <2>3 DEF FirstBlock
  <2>5. at' % chunk_size(call'.op) = 0
    BY <2>1, <2>3
  <2>6. op \in Batched => k \in BatchLens
    OBVIOUS
  <2> QED BY <2>1, <2>4, <2>5, <2>6 DEF CallInv, Busy, InChunk, chunk_size
<1>2. ASSUME direct_chunk \/ prp_chunk \/ write_copied_chunk \/ read_copied_chunk
      PROVE  CallInv'
  <2>1. /\ pc = "chunk" /\ call.op \notin Batched /\ Busy
        /\ lba' = lba + Blocks(chunk_len) /\ batch' = 1 /\ i' = 1 /\ pc' = "wait"
        /\ UNCHANGED <<call, at, ns_block, hidden>>
    BY <1>2, SingleStep DEF Busy
  <2>2. PieceBlocks' = PieceBlocks /\ FirstBlock' = FirstBlock /\ Expressible' = Expressible
    BY <2>1, Frame
  <2>3. /\ PieceBlocks = Blocks(chunk_len) /\ PieceBlocks \in Nat \ {0} /\ lba <= FirstBlock
        /\ (Expressible => lba = FirstBlock) /\ lba \in Nat /\ FirstBlock \in Int
        /\ call.lba <= lba /\ call.lba \in Nat
    BY <2>1, ChunkFacts, FirstType DEF PieceBlocks, CallInv, TypeInv, TypeOK
  <2>4. /\ lba' <= FirstBlock' + i' * PieceBlocks' /\ call.lba <= lba'
        /\ Expressible' => lba' = FirstBlock' + i' * PieceBlocks'
    BY <2>1, <2>2, <2>3
  <2> QED BY <2>1, <2>2, <2>3, <2>4 DEF CallInv, Busy, InChunk, chunk_size
<1>3. CASE batched_chunk
  <2>1. /\ pc = "chunk" /\ call.op \in Batched /\ Busy /\ batch_len > 0
        /\ batch' = batch_len /\ i' = 0 /\ pc' = "push"
        /\ UNCHANGED <<call, at, ns_block, hidden, lba>>
    BY <1>3 DEF batched_chunk, Busy
  <2>2. PieceBlocks' = PieceBlocks /\ FirstBlock' = FirstBlock /\ batch_len' = batch_len
        /\ Expressible' = Expressible
    BY <2>1, Frame
  <2>3. /\ lba <= FirstBlock /\ (Expressible => lba = FirstBlock) /\ lba \in Nat
        /\ PieceBlocks \in Nat /\ FirstBlock \in Int /\ call.lba <= lba
    BY <2>1, BatchTypes, FirstType DEF PieceBlocks, CallInv, TypeInv, TypeOK
  <2>4. /\ lba' <= FirstBlock' + i' * PieceBlocks' /\ call.lba <= lba'
        /\ Expressible' => lba' = FirstBlock' + i' * PieceBlocks'
    BY <2>1, <2>2, <2>3
  <2> QED BY <2>1, <2>2, <2>4 DEF CallInv, Busy, InChunk, chunk_size
<1>4. CASE push \/ push_full
  <2>1. /\ pc = "push" /\ call.op \in Batched /\ Busy /\ InChunk
        /\ lba' = lba + piece_blocks /\ i' = i + 1 /\ piece_blocks > 0
        /\ UNCHANGED <<call, at, ns_block, hidden, pc, batch>>
    BY <1>4 DEF push, push_full, Busy, InChunk, TypeInv
  <2>2. PieceBlocks' = PieceBlocks /\ FirstBlock' = FirstBlock /\ batch_len' = batch_len
    BY <2>1, Frame
  <2>3. /\ PieceBlocks = piece_blocks /\ PieceBlocks \in Nat /\ i \in Nat /\ FirstBlock \in Int
        /\ lba <= FirstBlock + i * PieceBlocks /\ call.lba <= lba
        /\ (Expressible => lba = FirstBlock + i * PieceBlocks) /\ lba \in Nat /\ call.lba \in Nat
    BY <2>1, PieceTypes, FirstType DEF PieceBlocks, CallInv, TypeInv, TypeOK
  <2>5. Expressible' = Expressible
    BY <2>1, Frame
  <2>4. /\ lba' <= FirstBlock' + i' * PieceBlocks' /\ call.lba <= lba'
        /\ Expressible' => lba' = FirstBlock' + i' * PieceBlocks'
    <3>1. (i + 1) * PieceBlocks = i * PieceBlocks + PieceBlocks /\ i * PieceBlocks \in Nat
      BY <2>3, Z3
    <3> DEFINE x == i * PieceBlocks
               y == (i + 1) * PieceBlocks
    <3>2. /\ y = x + PieceBlocks /\ x \in Nat /\ lba <= FirstBlock + x
          /\ Expressible => lba = FirstBlock + x
      BY <2>3, <3>1
    <3> HIDE DEF x, y
    <3>3. /\ lba + PieceBlocks <= FirstBlock + y /\ call.lba <= lba + PieceBlocks
          /\ Expressible => lba + PieceBlocks = FirstBlock + y
      BY <2>3, <3>2
    <3> QED BY <2>1, <2>2, <2>3, <2>5, <3>3 DEF y
  <2> QED BY <2>1, <2>2, <2>3, <2>4 DEF CallInv, Busy, InChunk, chunk_size
<1>5. CASE push_done
  <2>1. /\ pc = "push" /\ pc' = "wait" /\ i = batch
        /\ UNCHANGED <<call, at, ns_block, hidden, lba, i, batch>>
    BY <1>5 DEF push_done
  <2>2. PieceBlocks' = PieceBlocks /\ FirstBlock' = FirstBlock /\ batch_len' = batch_len
        /\ Expressible' = Expressible
    BY <2>1, Frame
  <2> QED BY <2>1, <2>2 DEF CallInv, Busy, InChunk, chunk_size
<1>6. CASE chunk_panics \/ push_panics \/ wait_panics
  <2>1. pc' = "panicked" /\ UNCHANGED <<call, at, ns_block, hidden, lba, i, batch>>
    BY <1>6, PanicStep DEF panic
  <2> QED BY <2>1 DEF CallInv, Busy, InChunk, chunk_size
<1>7. CASE chunk_done
  <2>1. /\ pc = "wait" /\ Busy /\ at' = at + chunk_len
        /\ pc' = IF at' < call.len THEN "chunk" ELSE "idle"
        /\ UNCHANGED <<call, ns_block, hidden, lba, i, batch>>
    BY <1>7 DEF chunk_done, Busy
  <2>2. at \in Nat /\ chunk_len \in Nat /\ call.len \in Nat /\ chunk_len <= call.len - at
    BY <2>1, ChunkFacts
  <2>3. CASE at + chunk_len < call.len
    <3>1. /\ lba <= call.lba + (at + chunk_len) \div ns_block
          /\ Expressible => lba = call.lba + (at + chunk_len) \div ns_block
          /\ (at + chunk_len) % chunk_size(call.op) = 0 /\ call.lba <= lba
      BY <2>1, <2>3, NextBlock DEF CallInv
    <3>3. Expressible' = Expressible
      BY <2>1, SameCall
    <3>2. /\ lba' <= FirstBlock' /\ (Expressible' => lba' = FirstBlock') /\ call.lba <= lba'
          /\ at' % chunk_size(call'.op) = 0 /\ pc' = "chunk"
      BY <2>1, <2>3, <3>1, <3>3 DEF FirstBlock, chunk_size
    <3> QED BY <2>1, <3>2 DEF CallInv, Busy, InChunk, chunk_size
  <2>4. CASE ~(at + chunk_len < call.len)
    <3>1. pc' = "idle" /\ at' = call'.len
      BY <2>1, <2>2, <2>4
    <3> QED BY <2>1, <3>1 DEF CallInv, Busy, InChunk, chunk_size
  <2> QED BY <2>3, <2>4
<1>8. ASSUME NEW c \in cmds, device_execute(c) \/ device_refuse(c) PROVE CallInv'
  <2>1. /\ InChunk /\ posted \in Nat /\ posted < batch /\ batch \in Nat
        /\ UNCHANGED <<pc, call, at, lba, i, batch, ns_block>>
    BY <1>8, DeviceFrame DEF TypeInv, TypeOK
  <2>2. hidden' => call.op \in Batched
    <3>1. CASE device_execute(c)
      BY <3>1 DEF device_execute, CallInv
    <3>2. CASE device_refuse(c)
      <4>1. posted + 1 < batch => call.op \in Batched
        BY <2>1 DEF CallInv
      <4> QED BY <3>2, <4>1, Zenon DEF device_refuse, CallInv
    <3> QED BY <1>8, <3>1, <3>2
  <2>3. PieceBlocks' = PieceBlocks /\ FirstBlock' = FirstBlock /\ batch_len' = batch_len
        /\ Expressible' = Expressible
    BY <2>1, Frame
  <2> QED BY <2>1, <2>2, <2>3 DEF CallInv, Busy, InChunk, chunk_size
<1>9. CASE UNCHANGED vars
  <2>1. UNCHANGED <<pc, call, at, lba, i, batch, ns_block, hidden>>
    BY <1>9 DEF vars
  <2>2. PieceBlocks' = PieceBlocks /\ FirstBlock' = FirstBlock /\ batch_len' = batch_len
        /\ Expressible' = Expressible
    BY <2>1, Frame
  <2> QED BY <2>1, <2>2 DEF CallInv, Busy, InChunk, chunk_size
<1> QED
  BY <1>1, <1>2, <1>3, <1>4, <1>5, <1>6, <1>7, <1>8, <1>9
  DEF Next, Call, DriverStep, DeviceStep

\* The command of a chunk, for what the list holds after write_prp has filled it.
LEMMA SingleContiguous ==
  ASSUME Expressible, TypeInv, CallInv, [Next]_vars,
         direct_chunk \/ prp_chunk \/ write_copied_chunk \/ read_copied_chunk,
         NEW c \in cmds'
  PROVE  Contiguous(c)'
<1>1. /\ pc = "chunk" /\ Busy /\ call.op \notin Batched /\ UNCHANGED <<ns_block, call, at>>
      /\ c = Command(chunk_addr, Blocks(chunk_len), Block, prp_list_phys + 8)
  BY SingleStep DEF Busy
<1>2. c.prp1 = chunk_addr /\ Length(c) = Blocks(chunk_len) * spb
  BY <1>1, SingleCommand
<1>3. c.prp1 \in Nat /\ Length(c) \in Nat \ {0} /\ chunk_len \in Nat
  BY <1>1, <1>2, ChunkAddr, ChunkFacts
<1>4. Length(c)' = Length(c)
  BY <1>1 DEF Length, spb
<1>5. CASE \/ (c.prp1 % Page) + Length(c) * Block <= Page
           \/ c.prp1 % Page = 0 /\ Length(c) * Block <= 2 * Page /\ c.prp2 = c.prp1 + Page
  <2>1. TwoPagesReached'
    BY PagesReached, PTL
  <2> QED BY <1>3, <1>4, <1>5, <2>1 DEF TwoPagesReached
<1>6. CASE /\ call.op \in Prp /\ c.prp2 = prp_list_phys + 8 /\ chunk_addr % Page = 0
           /\ chunk_len % Page = 0 /\ chunk_len > 2 * Page /\ chunk_len <= 128 * Page
           /\ Length(c) = (chunk_len \div Page) * 8
  <2>1. chunk_len > 2 * 4096 /\ chunk_len <= 128 * 4096 /\ chunk_len % 4096 = 0
    BY <1>6 DEF Page
  <2>2. prp_chunk
    BY <1>6 DEF Prp, Direct, direct_chunk, write_copied_chunk, read_copied_chunk
  <2>3. \A k \in 0..(ListLen - 1) : k < chunk_len \div Page => prp_list'[k] = c.prp1 + k * Page
    BY <1>2, <2>2 DEF prp_chunk
  <2> DEFINE n == chunk_len \div Page
  <2>4. n \in Nat /\ n > 2 /\ n <= 128
    BY <1>3, <2>1, SMT DEF Page
  <2>5. ListedPagesReached'
    BY PagesReached, PTL
  <2>6. c.prp1 \in Nat /\ c.prp1 % Page = 0 /\ c.prp2 = prp_list_phys + 8 /\ Length(c)' = n * 8
    BY <1>2, <1>3, <1>4, <1>6
  <2> HIDE DEF n
  <2>7. \A k \in 0..(ListLen - 1) : k < n => prp_list'[k] = c.prp1 + k * Page
    BY <2>3 DEF n
  <2> QED BY <2>4, <2>5, <2>6, <2>7 DEF ListedPagesReached
<1> QED BY <1>1, <1>5, <1>6, SingleEntries

\* A command of a batch.
LEMMA BatchCommand ==
  ASSUME TypeInv, CallInv, pc = "push",
         NEW c, c = submit_io(buffer + i * batch_size, piece_blocks)
  PROVE  /\ c.write = (call.op \in Writing) /\ c.lba = lba /\ c.blocks = PieceBlocks
         /\ c.prp1 = buffer + i * batch_size
         /\ c.prp2 = IF c.blocks * ns_block <= Page THEN 0
                     ELSE IF c.blocks * ns_block <= 2 * Page THEN c.prp1 + Page
                     ELSE prp_list_phys + (c.prp1 - buffer) \div 8
BY DEF submit_io, Command, PieceBlocks, TypeInv

\* If the call is expressible, it reaches its piece.
LEMMA BatchContiguous ==
  ASSUME Expressible, TypeInv, CallInv, pc = "push", i < batch, piece_blocks > 0,
         NEW c, c = submit_io(buffer + i * batch_size, piece_blocks)
  PROVE  c.lba = FirstBlock + i * PieceBlocks /\ c.prp1 = PieceAddr(i) /\ Contiguous(c)
<1>1. InChunk /\ Busy /\ call.op \in Batched /\ i \in Nat /\ i < batch /\ batch \in Nat \ {0}
  BY DEF InChunk, Busy, TypeInv, TypeOK
<1>2. /\ PieceBlocks = piece_blocks /\ PieceBlocks \in Nat \ {0} /\ spb \in {1, 8}
      /\ ns_block \in {512, 4096} /\ ns_block = spb * 512 /\ lba = FirstBlock + i * PieceBlocks
  BY <1>1, PieceTypes, ChunkFacts DEF PieceBlocks, CallInv
<1>3. batch_size = PieceBlocks * ns_block
  BY <1>1, <1>2, WholeBatch
<1>4. buffer + i * batch_size = PieceAddr(i)
  <2>1. PieceAddr(i) = buffer + (i * (PieceBlocks * spb)) * 512
    BY <1>1 DEF PieceAddr, PieceStart, PieceSectors, chunk_addr, ThroughBuffer, Block
  <2>2. i * batch_size = (i * (PieceBlocks * spb)) * 512
    BY <1>1, <1>2, <1>3, Z3
  <2> QED BY <2>1, <2>2
<1>5. /\ c.lba = lba /\ c.blocks = PieceBlocks /\ c.prp1 = buffer + i * batch_size
      /\ c.prp2 = IF c.blocks * ns_block <= Page THEN 0
                  ELSE IF c.blocks * ns_block <= 2 * Page THEN c.prp1 + Page
                  ELSE prp_list_phys + (c.prp1 - buffer) \div 8
  BY BatchCommand
<1>6. \/ ((i * batch_size) % Page) + batch_size <= Page
      \/ (i * batch_size) % Page = 0 /\ batch_size <= 2 * Page
  <2>1. i \in 0..(batch - 1)
    BY <1>1
  <2> QED BY <1>1, <2>1, BatchPieces
<1> DEFINE x == i * batch_size
           z == batch_size
<1>7. x \in Nat /\ z \in Nat \ {0} /\ buffer \in Nat /\ buffer % 4096 = 0
  <2>1. z \in Nat \ {0}
    BY <1>2, <1>3
  <2> QED BY <1>1, <2>1, Constants
<1>8. Length(c) \in Nat \ {0} /\ Length(c) * 512 = z /\ c.blocks * ns_block = z
  BY <1>2, <1>3, <1>5 DEF Length
<1>9. /\ c.prp1 = buffer + x
      /\ (x % 4096) + z <= 4096 \/ (x % 4096 = 0 /\ z <= 2 * 4096)
      /\ c.prp2 = IF z <= 4096 THEN 0 ELSE IF z <= 2 * 4096 THEN c.prp1 + 4096
                  ELSE prp_list_phys + (c.prp1 - buffer) \div 8
  BY <1>5, <1>6, <1>8 DEF Page
<1> HIDE DEF x, z
<1>10. c.prp1 \in Nat /\ c.prp1 % 4096 = x % 4096 /\ x % 4096 \in Nat
  BY <1>7, <1>9, SMT
<1>11. \/ (c.prp1 % 4096) + Length(c) * 512 <= 4096
       \/ c.prp1 % 4096 = 0 /\ Length(c) * 512 <= 2 * 4096 /\ c.prp2 = c.prp1 + 4096
  BY <1>7, <1>8, <1>9, <1>10
<1>12. Contiguous(c)
  BY <1>8, <1>10, <1>11, TwoPages DEF Page, Block
<1> QED BY <1>2, <1>4, <1>5, <1>12

\* A wider interval.
LEMMA Widen ==
  ASSUME NEW a \in Nat, NEW b \in Nat, b >= a, NEW p \in 0..(a - 1) PROVE p \in 0..(b - 1)
OBVIOUS

\* The next piece is within the blocks of the call, and within i + 1 pieces.
LEMMA NextPiece ==
  ASSUME TypeInv, CallInv, pc = "push", i < batch
  PROVE  call.lba <= lba /\ lba + PieceBlocks <= call.lba + Blocks(call.len)
<1>1. InChunk /\ Busy /\ i \in Nat /\ batch \in Nat /\ i + 1 \in 0..batch /\ lba \in Nat
  BY DEF InChunk, Busy, TypeInv, TypeOK
<1>2. PieceBlocks \in Nat /\ call.lba <= lba /\ lba <= FirstBlock + i * PieceBlocks
  BY <1>1, PieceTypes DEF CallInv
<1>3. /\ FirstBlock + (i + 1) * PieceBlocks <= call.lba + Blocks(call.len)
      /\ FirstBlock \in Nat /\ Blocks(call.len) \in Nat
  BY <1>1, BlocksWithin
<1>4. (i + 1) * PieceBlocks = i * PieceBlocks + PieceBlocks /\ i * PieceBlocks \in Nat
  BY <1>1, <1>2, Z3
<1> DEFINE x == i * PieceBlocks
           y == (i + 1) * PieceBlocks
<1>5. /\ y = x + PieceBlocks /\ x \in Nat /\ lba <= FirstBlock + x
      /\ FirstBlock + y <= call.lba + Blocks(call.len)
  BY <1>2, <1>3, <1>4
<1>6. call.lba \in Nat
  BY DEF TypeInv
<1> HIDE DEF x, y
<1> QED BY <1>1, <1>2, <1>3, <1>5, <1>6

\* So is the only piece of a chunk that is not a batch.
LEMMA OnlyPiece ==
  ASSUME TypeInv, CallInv, pc = "chunk"
  PROVE  call.lba <= lba /\ lba + Blocks(chunk_len) <= call.lba + Blocks(call.len)
<1> DEFINE f == at \div ns_block
           m == Blocks(chunk_len)
           n == Blocks(call.len)
           A == at \div Block
<1>1. Busy /\ call.lba \in Nat /\ lba \in Nat /\ call.lba <= lba /\ lba <= call.lba + f
  BY DEF Busy, CallInv, TypeInv, TypeOK, FirstBlock
<1>2. /\ spb \in {1, 8} /\ ns_block \in {512, 4096} /\ at \in Nat /\ call.len \in Nat
      /\ A \in Nat /\ A + m * spb <= n * spb /\ f * spb = A /\ m \in Nat
  BY <1>1, ChunkFacts, Geometry
<1>3. f \in Nat /\ n \in Nat
  <2>1. CASE ns_block = 512
    BY <1>2, <2>1, SMT DEF Blocks
  <2>2. CASE ns_block = 4096
    BY <1>2, <2>2, SMT DEF Blocks
  <2> QED BY <1>2, <2>1, <2>2
<1> HIDE DEF f, m, n, A
<1>4. f + m <= n
  BY <1>2, <1>3
<1> QED BY <1>1, <1>2, <1>3, <1>4 DEF m, n

\* Every step keeps what is known of the commands.
LEMMA CommandStep ==
  ASSUME TypeInv, CallInv, CommandInv, [Next]_vars
  PROVE  CommandInv'
<1> USE DEF dataVars, callVars, boundVars
<1>1. ASSUME cmds' = {} PROVE CommandInv'
  BY <1>1 DEF CommandInv
<1>2. ASSUME UNCHANGED <<prp_list, call, at, ns_block>>, NEW c \in cmds, InChunk', i \in Nat,
             i' \in Nat, i' >= i
      PROVE  /\ i' > 0 /\ c.write = (call'.op \in Writing) /\ c.lba \in Nat
             /\ c.blocks = PieceBlocks' /\ call'.lba <= c.lba
             /\ c.lba + c.blocks <= call'.lba + Blocks(call.len)'
             /\ Expressible' =>
                  /\ \E p \in 0..(i' - 1) : /\ c.lba = FirstBlock' + p * PieceBlocks'
                                            /\ c.prp1 = PieceAddr(p)'
                  /\ Contiguous(c)'
  <2>1. /\ i > 0 /\ c.write = (call.op \in Writing) /\ c.lba \in Nat /\ c.blocks = PieceBlocks
        /\ call.lba <= c.lba /\ c.lba + c.blocks <= call.lba + Blocks(call.len)
    BY <1>2 DEF CommandInv
  <2>2. i \in Nat /\ i' \in Nat /\ i' >= i
    BY <1>2
  <2>3. FirstBlock' = FirstBlock /\ PieceBlocks' = PieceBlocks /\ Expressible' = Expressible
        /\ Blocks(call.len)' = Blocks(call.len)
    BY <1>2, Frame DEF Blocks
  <2>4. ASSUME Expressible
        PROVE  /\ \E p \in 0..(i' - 1) : /\ c.lba = FirstBlock' + p * PieceBlocks'
                                         /\ c.prp1 = PieceAddr(p)'
               /\ Contiguous(c)'
    <3>1. PICK p \in 0..(i - 1) : c.lba = FirstBlock + p * PieceBlocks /\ c.prp1 = PieceAddr(p)
      BY <1>2, <2>4 DEF CommandInv
    <3>2. p \in 0..(i' - 1)
      BY <2>2, Widen
    <3>3. PieceAddr(p)' = PieceAddr(p)
      BY <1>2, Frame
    <3>4. Contiguous(c)'
      BY <1>2, <2>4, CommandFrame DEF CommandInv
    <3> QED BY <2>3, <3>1, <3>2, <3>3, <3>4
  <2>5. i' > 0
    BY <2>1, <2>2
  <2> QED BY <1>2, <2>1, <2>3, <2>4, <2>5
<1>3. CASE Call
  BY <1>1, <1>3 DEF Call, begin, TypeInv
<1>4. ASSUME direct_chunk \/ prp_chunk \/ write_copied_chunk \/ read_copied_chunk
      PROVE  CommandInv'
  <2> SUFFICES ASSUME NEW c \in cmds'
               PROVE  /\ InChunk' /\ i' > 0
                      /\ c.write = (call'.op \in Writing) /\ c.lba \in Nat
                      /\ c.blocks = PieceBlocks' /\ call'.lba <= c.lba
                      /\ c.lba + c.blocks <= call'.lba + Blocks(call.len)'
                      /\ Expressible' =>
                           /\ \E p \in 0..(i' - 1) : /\ c.lba = FirstBlock' + p * PieceBlocks'
                                                     /\ c.prp1 = PieceAddr(p)'
                           /\ Contiguous(c)'
    BY DEF CommandInv
  <2>1. /\ pc = "chunk" /\ Busy /\ call.op \notin Batched /\ i' = 1 /\ pc' = "wait"
        /\ UNCHANGED <<call, at, ns_block>>
        /\ c = Command(chunk_addr, Blocks(chunk_len), Block, prp_list_phys + 8)
    BY <1>4, SingleStep DEF Busy
  <2>2. /\ c.write = (call.op \in Writing) /\ c.lba = lba /\ c.blocks = Blocks(chunk_len)
        /\ c.prp1 = chunk_addr
    BY <2>1, SingleCommand
  <2>3. /\ FirstBlock' = FirstBlock /\ PieceBlocks' = PieceBlocks
        /\ PieceAddr(0)' = PieceAddr(0) /\ Expressible' = Expressible
        /\ Blocks(call.len)' = Blocks(call.len)
    BY <2>1, Frame DEF Blocks
  <2>4. /\ PieceBlocks = Blocks(chunk_len) /\ PieceBlocks \in Nat
        /\ (Expressible => lba = FirstBlock)
        /\ lba \in Nat /\ spb \in Nat /\ chunk_addr \in Nat
    <3>1. Blocks(chunk_len) \in Nat /\ spb \in Nat /\ chunk_addr \in Nat
      BY <2>1, ChunkFacts, ChunkAddr
    <3> QED BY <2>1, <3>1 DEF PieceBlocks, CallInv, TypeInv, TypeOK
  <2>5. PieceAddr(0) = chunk_addr
    BY <2>4 DEF PieceAddr, PieceStart, PieceSectors, Block
  <2>6. Expressible => c.lba = FirstBlock' + 0 * PieceBlocks'
    BY <2>2, <2>3, <2>4
  <2>7. Expressible => Contiguous(c)'
    BY <1>4, SingleContiguous
  <2>8. call.lba <= lba /\ lba + Blocks(chunk_len) <= call.lba + Blocks(call.len)
    BY <2>1, OnlyPiece
  <2>9. InChunk' /\ i' > 0 /\ 0 \in 0..(i' - 1)
    BY <2>1 DEF InChunk
  <2> QED BY <2>1, <2>2, <2>3, <2>4, <2>5, <2>6, <2>7, <2>8, <2>9
<1>5. CASE batched_chunk
  BY <1>1, <1>5 DEF batched_chunk, TypeInv
<1>6. CASE push
  <2>1. /\ pc = "push" /\ i < batch /\ piece_blocks > 0 /\ i \in Nat /\ i' = i + 1
        /\ cmds' = cmds \cup {submit_io(buffer + i * batch_size, piece_blocks)}
        /\ UNCHANGED <<prp_list, pc, call, at, ns_block>>
    BY <1>6 DEF push, TypeInv, TypeOK
  <2>2. InChunk' /\ InChunk /\ i' \in Nat /\ i' > 0 /\ i' >= i
    BY <2>1 DEF InChunk
  <2>3. ASSUME NEW c, c = submit_io(buffer + i * batch_size, piece_blocks)
        PROVE  /\ c.write = (call'.op \in Writing) /\ c.lba \in Nat
               /\ c.blocks = PieceBlocks' /\ call'.lba <= c.lba
               /\ c.lba + c.blocks <= call'.lba + Blocks(call.len)'
               /\ Expressible' =>
                    /\ \E p \in 0..(i' - 1) : /\ c.lba = FirstBlock' + p * PieceBlocks'
                                              /\ c.prp1 = PieceAddr(p)'
                    /\ Contiguous(c)'
    <3>1. c.write = (call.op \in Writing) /\ c.lba = lba /\ c.blocks = PieceBlocks
      BY <2>1, <2>3, BatchCommand
    <3>2. /\ FirstBlock' = FirstBlock /\ PieceBlocks' = PieceBlocks
          /\ Expressible' = Expressible /\ Blocks(call.len)' = Blocks(call.len)
          /\ \A p : PieceAddr(p)' = PieceAddr(p)
      BY <2>1, Frame DEF Blocks
    <3>3. call.lba <= lba /\ lba + PieceBlocks <= call.lba + Blocks(call.len) /\ lba \in Nat
      BY <2>1, NextPiece DEF TypeInv, TypeOK
    <3>4. ASSUME Expressible
          PROVE  /\ \E p \in 0..(i' - 1) : /\ c.lba = FirstBlock' + p * PieceBlocks'
                                           /\ c.prp1 = PieceAddr(p)'
                 /\ Contiguous(c)'
      <4>1. c.lba = FirstBlock + i * PieceBlocks /\ c.prp1 = PieceAddr(i) /\ Contiguous(c)
        BY <2>1, <2>3, <3>4, BatchContiguous
      <4>2. Contiguous(c)'
        BY <2>1, <4>1, CommandFrame
      <4>3. PICK p \in 0..(i' - 1) : p = i
        BY <2>1
      <4>4. c.prp1 = PieceAddr(p) /\ c.lba = FirstBlock + p * PieceBlocks
        BY <4>1, <4>3
      <4> QED BY <3>2, <4>2, <4>4
    <3> QED BY <2>1, <3>1, <3>2, <3>3, <3>4
  <2>4. ASSUME NEW c \in cmds
        PROVE  /\ c.write = (call'.op \in Writing) /\ c.lba \in Nat
               /\ c.blocks = PieceBlocks' /\ call'.lba <= c.lba
               /\ c.lba + c.blocks <= call'.lba + Blocks(call.len)'
               /\ Expressible' =>
                    /\ \E p \in 0..(i' - 1) : /\ c.lba = FirstBlock' + p * PieceBlocks'
                                              /\ c.prp1 = PieceAddr(p)'
                    /\ Contiguous(c)'
    BY <1>2, <2>1, <2>2
  <2> QED BY <2>1, <2>2, <2>3, <2>4 DEF CommandInv
<1>7. CASE push_full \/ push_done
  <2>1. /\ UNCHANGED <<prp_list, call, at, ns_block, cmds>> /\ i \in Nat /\ i' \in Nat
        /\ i' >= i /\ InChunk'
    BY <1>7 DEF push_full, push_done, TypeInv, TypeOK, InChunk
  <2> QED BY <1>2, <2>1 DEF CommandInv
<1>8. CASE chunk_panics \/ push_panics \/ wait_panics
  BY <1>1, <1>8, PanicStep DEF panic
<1>9. CASE chunk_done
  BY <1>1, <1>9, WaitOver DEF chunk_done
<1>10. ASSUME NEW d \in cmds, device_execute(d) \/ device_refuse(d) PROVE CommandInv'
  <2>1. /\ UNCHANGED <<prp_list, call, at, ns_block, i, pc>> /\ cmds' = cmds \ {d} /\ InChunk
        /\ i \in Nat
    BY <1>10, DeviceFrame DEF TypeInv, TypeOK
  <2>2. InChunk' /\ i' \in Nat /\ i' >= i
    BY <2>1 DEF InChunk
  <2> QED BY <1>2, <2>1, <2>2 DEF CommandInv
<1>11. CASE UNCHANGED vars
  <2>1. UNCHANGED <<prp_list, call, at, ns_block, i, pc, cmds>> /\ i \in Nat
    BY <1>11 DEF vars, TypeInv, TypeOK
  <2>2. InChunk' = InChunk /\ i' \in Nat /\ i' >= i
    BY <2>1 DEF InChunk
  <2> QED BY <1>2, <2>1, <2>2 DEF CommandInv
<1> QED
  BY <1>3, <1>4, <1>5, <1>6, <1>7, <1>8, <1>9, <1>10, <1>11
  DEF Next, DriverStep, DeviceStep
-----------------------------------------------------------------------------
(***************************************************************************)
(* What the execution of a command does to the pieces.                     *)
(***************************************************************************)
\* The places of a piece's sectors.
LEMMA Places ==
  ASSUME TypeInv, CallInv, InChunk, NEW p \in Nat, NEW k \in Nat
  PROVE  /\ SectorOf(p, k) \in Nat /\ OnDisk(SectorOf(p, k)) = OnDisk(SectorOf(p, 0)) + k
         /\ SectorOf(p, k) = at \div Block + (PieceStart(p) + k)
         /\ SectorOf(p, k) = SectorOf(p, 0) + k
         /\ OnDisk(SectorOf(p, k)) \in Nat /\ PieceAddr(p) \in Nat
         /\ PieceAddr(p) + k * Block = chunk_addr + (PieceStart(p) + k) * Block
<1>1. Busy
  BY DEF InChunk, Busy
<1>2. PieceStart(p) \in Nat /\ at \div Block \in Nat /\ chunk_addr \in Nat
  BY <1>1, PieceFacts, Geometry, ChunkAddr
<1>3. OnDisk(0) \in Nat /\ \A s \in Nat : OnDisk(s) = OnDisk(0) + s
  BY DiskPlace
<1> DEFINE A == at \div Block
           T == PieceStart(p)
<1>4. SectorOf(p, k) = A + T + k /\ SectorOf(p, 0) = A + T + 0
      /\ PieceAddr(p) = chunk_addr + T * 512
  BY DEF SectorOf, PieceAddr, Block
<1>5. A \in Nat /\ T \in Nat
  BY <1>2
<1> HIDE DEF A, T
<1>6. SectorOf(p, k) \in Nat /\ SectorOf(p, 0) \in Nat /\ SectorOf(p, k) = SectorOf(p, 0) + k
      /\ SectorOf(p, k) = A + (T + k)
  BY <1>4, <1>5
<1>7. PieceAddr(p) \in Nat /\ PieceAddr(p) + k * 512 = chunk_addr + (T + k) * 512
  BY <1>2, <1>4, <1>5
<1>8. OnDisk(SectorOf(p, k)) = OnDisk(0) + SectorOf(p, k)
      /\ OnDisk(SectorOf(p, 0)) = OnDisk(0) + SectorOf(p, 0)
  BY <1>3, <1>6
<1> QED BY <1>3, <1>6, <1>7, <1>8 DEF A, T, Block

\* Different pieces have no sector in common.
LEMMA Apart ==
  ASSUME TypeInv, CallInv, InChunk, NEW p \in Nat, NEW q \in Nat, p # q,
         NEW k \in 0..(PieceSectors - 1), NEW m \in 0..(PieceSectors - 1)
  PROVE  SectorOf(p, k) # SectorOf(q, m) /\ PieceAddr(p) + k * Block # PieceAddr(q) + m * Block
<1> DEFINE S == PieceSectors
           T == PieceStart(p)
           U == PieceStart(q)
           A == at \div Block
<1>1. Busy
  BY DEF InChunk, Busy
<1>2. /\ S \in Nat /\ T \in Nat /\ U \in Nat /\ A \in Nat /\ chunk_addr \in Nat
      /\ k \in Nat /\ m \in Nat /\ k < S /\ m < S
  BY <1>1, PieceTypes, PieceFacts, Geometry, ChunkAddr
<1>3. p < q => T + S <= U
  BY PieceFacts
<1>4. q < p => U + S <= T
  BY PieceFacts
<1>5. /\ SectorOf(p, k) = A + (T + k) /\ SectorOf(q, m) = A + (U + m)
      /\ PieceAddr(p) + k * Block = chunk_addr + (T + k) * 512
      /\ PieceAddr(q) + m * Block = chunk_addr + (U + m) * 512
  <2>1. k \in Nat /\ m \in Nat
    BY <1>2
  <2>2. SectorOf(p, k) = A + (T + k) /\ PieceAddr(p) + k * Block = chunk_addr + (T + k) * Block
    BY <2>1, Places, Zenon
  <2>3. SectorOf(q, m) = A + (U + m) /\ PieceAddr(q) + m * Block = chunk_addr + (U + m) * Block
    BY <2>1, Places, Zenon
  <2> HIDE DEF S, T, U, A
  <2> QED BY <2>2, <2>3 DEF Block
<1> HIDE DEF S, T, U, A
<1>6. T + k # U + m
  BY <1>2, <1>3, <1>4
<1> QED BY <1>2, <1>5, <1>6

\* The piece of a command.
LEMMA PieceOf ==
  ASSUME Expressible, TypeInv, CallInv, CommandInv, NEW c \in cmds
  PROVE  \E p \in 0..(batch - 1) :
           /\ p \in Nat /\ c.prp1 = PieceAddr(p) /\ c.prp1 % Block = 0 /\ Contiguous(c)
           /\ c.prp1 >= Page
           /\ Length(c) = PieceSectors /\ FirstOnDisk(c) = OnDisk(SectorOf(p, 0))
<1>1. InChunk /\ Contiguous(c)
  BY DEF CommandInv
<1>2. Busy /\ i \in 0..batch /\ batch \in Nat
  BY <1>1 DEF InChunk, Busy, TypeInv, TypeOK
<1>3. PICK p \in 0..(i - 1) : c.lba = FirstBlock + p * PieceBlocks /\ c.prp1 = PieceAddr(p)
  BY DEF CommandInv
<1>4. p \in Nat /\ p \in 0..(batch - 1)
  BY <1>2
<1>5. Length(c) = PieceSectors
  BY DEF CommandInv, Length, PieceSectors
<1>6. FirstOnDisk(c) = OnDisk(0) + at \div Block + PieceStart(p)
  <2>1. FirstOnDisk(c) = (FirstBlock + p * PieceBlocks) * spb
    BY <1>3 DEF FirstOnDisk
  <2> QED BY <1>1, <1>4, <2>1, DiskPlace, Zenon
<1>7. /\ OnDisk(0) \in Nat /\ at \div Block \in Nat /\ PieceStart(p) \in Nat
      /\ SectorOf(p, 0) \in Nat /\ SectorOf(p, 0) = at \div Block + (PieceStart(p) + 0)
      /\ OnDisk(SectorOf(p, 0)) = OnDisk(0) + SectorOf(p, 0)
  <2>1. OnDisk(0) \in Nat /\ \A s \in Nat : OnDisk(s) = OnDisk(0) + s
    BY <1>1, DiskPlace
  <2>2. at \div Block \in Nat /\ PieceStart(p) \in Nat
    BY <1>1, <1>2, <1>4, Geometry, PieceFacts
  <2>3. SectorOf(p, 0) \in Nat /\ SectorOf(p, 0) = at \div Block + (PieceStart(p) + 0)
    BY <1>1, <1>4, Places
  <2> QED BY <2>1, <2>2, <2>3
<1>8. FirstOnDisk(c) = OnDisk(SectorOf(p, 0))
  <2> DEFINE A == at \div Block
  <2>1. A \in Nat /\ SectorOf(p, 0) = A + (PieceStart(p) + 0)
        /\ FirstOnDisk(c) = OnDisk(0) + A + PieceStart(p)
    BY <1>6, <1>7
  <2> HIDE DEF A
  <2> QED BY <1>7, <2>1
<1>9. c.prp1 % Block = 0 /\ c.prp1 >= Page
  <2>1. chunk_addr \in Nat /\ chunk_addr % 512 = 0 /\ chunk_addr >= 4096
    BY <1>2, ChunkAddr, Constants DEF Block
  <2>2. c.prp1 = chunk_addr + PieceStart(p) * 512
    BY <1>3 DEF PieceAddr, Block
  <2>3. PieceStart(p) \in Nat
    BY <1>7
  <2> DEFINE T == PieceStart(p)
  <2>4. c.prp1 = chunk_addr + T * 512 /\ T \in Nat
    BY <2>2, <2>3
  <2> HIDE DEF T
  <2>5. (chunk_addr + T * 512) % 512 = 0 /\ chunk_addr + T * 512 >= 4096
    BY <2>1, <2>4, SMT
  <2> QED BY <2>4, <2>5 DEF Block, Page
<1> QED BY <1>1, <1>3, <1>4, <1>5, <1>8, <1>9

\* The other pieces wait for their commands as before.
LEMMA StillOutstanding ==
  ASSUME TypeInv, CallInv, CommandInv, NEW c \in cmds, device_execute(c) \/ device_refuse(c),
         NEW p \in Nat, c.prp1 = PieceAddr(p), NEW q \in Nat, q # p, Outstanding(q),
         PieceSectors > 0
  PROVE  Outstanding(q)'
<1>1. InChunk /\ cmds' = cmds \ {c} /\ UNCHANGED <<call, at, ns_block, i>>
  BY DeviceFrame
<1>2. PieceAddr(q)' = PieceAddr(q)
  BY <1>1, Frame
<1>3. PieceAddr(q) # PieceAddr(p)
  <2>1. 0 \in 0..(PieceSectors - 1)
    BY <1>1, PieceTypes
  <2>2. PieceAddr(p) + 0 * Block # PieceAddr(q) + 0 * Block
    BY <1>1, <2>1, Apart
  <2>3. PieceAddr(p) \in Nat /\ PieceAddr(q) \in Nat
    BY <1>1, Places
  <2> QED BY <2>2
<1>4. CASE q >= Min2(i, QLen - 1)
  BY <1>1, <1>4 DEF Outstanding, Min2
<1>5. CASE \E d \in cmds : d.prp1 = PieceAddr(q)
  <2>1. PICK d \in cmds : d.prp1 = PieceAddr(q)
    BY <1>5
  <2>2. d \in cmds' /\ d.prp1 = PieceAddr(q)'
    BY <1>1, <1>2, <1>3, <2>1
  <2> QED BY <2>2 DEF Outstanding
<1> QED BY <1>4, <1>5 DEF Outstanding

\* A piece's sectors are in the blocks of the slice, and before the next chunk.
LEMMA PieceCovered ==
  ASSUME TypeInv, CallInv, InChunk, NEW p \in 0..(batch - 1), NEW k \in 0..(PieceSectors - 1)
  PROVE  /\ OnDisk(SectorOf(p, k)) \in Covered
         /\ SectorOf(p, k) >= at \div Block
         /\ \A s \in Span : s >= Sectors(at + chunk_len) => s # SectorOf(p, k)
         /\ PieceStart(p) + k < Blocks(chunk_len) * spb
<1> DEFINE A == at \div Block
           S == PieceSectors
           E == Blocks(chunk_len) * spb
           B == Blocks(call.len) * spb
           L == Sectors(chunk_len)
           T == PieceStart(p)
<1>1. Busy /\ batch \in Nat
  BY DEF InChunk, Busy, TypeInv, TypeOK
<1>2. /\ A \in Nat /\ E \in Nat /\ A + E <= B /\ L \in Nat /\ L <= E
      /\ Sectors(at + chunk_len) = A + L /\ (at + chunk_len < call.len => E = L)
  BY <1>1, Geometry
<1>3. p \in Nat /\ T \in Nat /\ T + S <= E /\ S \in Nat /\ k \in Nat /\ k < S
  BY <1>1, PieceFacts, PieceTypes
<1>4. SectorOf(p, k) = A + (T + k)
  BY <1>3, Places
<1>5. B \in Int
  <2>1. call.len \in Nat /\ ns_block \in {512, 4096} /\ spb \in {1, 8}
    BY <1>1, ChunkFacts
  <2>2. Blocks(call.len) \in Int
    BY <2>1 DEF Blocks
  <2> QED BY <2>1, <2>2
<1>6. Span = 0..(Sectors(call.len) - 1) /\ Covered = {OnDisk(s) : s \in 0..(B - 1)}
  BY DEF Span, Covered
<1>7. ASSUME NEW s \in Span, s >= Sectors(at + chunk_len) PROVE at + chunk_len < call.len
  <2>1. /\ at \in Nat /\ chunk_len \in Nat /\ call.len \in Nat
        /\ chunk_len <= call.len - at
    BY <1>1, ChunkFacts
  <2>2. CASE at + chunk_len = call.len
    <3>1. s \in 0..(Sectors(call.len) - 1) /\ s >= Sectors(call.len)
      BY <1>6, <1>7, <2>2
    <3>2. Sectors(call.len) \in Nat
      BY <1>1, Geometry
    <3> QED BY <3>1, <3>2
  <2> QED BY <2>1, <2>2
<1> HIDE DEF A, S, E, B, L, T
<1>8. A + (T + k) \in 0..(B - 1) /\ A + (T + k) >= A /\ T + k < E
  BY <1>2, <1>3, <1>5
<1>9. ASSUME NEW s \in Span, s >= Sectors(at + chunk_len) PROVE s # SectorOf(p, k)
  <2>1. E = L
    BY <1>2, <1>7, <1>9
  <2>2. s \in Int
    BY <1>6, <1>9, Geometry, <1>1
  <2>3. A + L > A + (T + k)
    BY <1>2, <1>8, <2>1, <1>3
  <2>4. s >= A + L
    BY <1>2, <1>9
  <2> QED BY <1>2, <1>3, <1>4, <2>2, <2>3, <2>4
<1> QED BY <1>4, <1>6, <1>8, <1>9 DEF A, T, E

\* A write command puts its piece on the disk and leaves the rest of it alone.
LEMMA PieceWritten ==
  ASSUME Expressible, TypeInv, CallInv, CommandInv, NEW c \in cmds, device_execute(c),
         call.op \in Writing
  PROVE  /\ mem' = mem
         /\ \E p \in 0..(batch - 1) :
              /\ p \in Nat /\ c.prp1 = PieceAddr(p)
              /\ \A k \in 0..(PieceSectors - 1) :
                   Value(disk', "disk", OnDisk(SectorOf(p, k)))
                     = Value(mem, "mem", PieceAddr(p) + k * Block)
              /\ \A s \in Nat : (\A k \in 0..(PieceSectors - 1) : s # SectorOf(p, k))
                   => Value(disk', "disk", OnDisk(s)) = Value(disk, "disk", OnDisk(s))
              /\ \A b \in DOMAIN disk' :
                   \/ \E k \in 0..(PieceSectors - 1) : b = OnDisk(SectorOf(p, k))
                   \/ b \in DOMAIN disk /\ disk'[b] = disk[b]
<1> DEFINE S == PieceSectors
<1>1. InChunk
  BY DEF CommandInv
<1>2. mem' = mem /\ disk' = Stored(disk, Written(c))
  <2>1. c.write = TRUE
    BY DEF CommandInv
  <2> QED BY <2>1 DEF device_execute
<1>3. PICK p \in 0..(batch - 1) :
        /\ p \in Nat /\ c.prp1 = PieceAddr(p) /\ c.prp1 % Block = 0 /\ Contiguous(c)
        /\ Length(c) = S /\ FirstOnDisk(c) = OnDisk(SectorOf(p, 0))
  BY <1>1, PieceOf
<1>4. S \in Nat /\ PieceAddr(p) \in Nat /\ OnDisk(SectorOf(p, 0)) \in Nat
      /\ SectorOf(p, 0) \in Nat
  BY <1>1, <1>3, PieceTypes, Places
<1> DEFINE d == FirstOnDisk(c)
<1>5. /\ \A k \in 0..(S - 1) :
           Value(disk', "disk", d + k) = Value(mem, "mem", PieceAddr(p) + k * Block)
      /\ \A b : b \notin d..(d + S - 1) => Value(disk', "disk", b) = Value(disk, "disk", b)
      /\ DOMAIN disk' \subseteq DOMAIN disk \cup d..(d + S - 1)
  BY <1>2, <1>3, <1>4, WriteEffect
<1>6. \A k \in 0..(S - 1) :
        /\ OnDisk(SectorOf(p, k)) = d + k /\ SectorOf(p, k) = SectorOf(p, 0) + k
  <2>1. \A k \in 0..(S - 1) : k \in Nat
    BY <1>4
  <2>2. \A k \in Nat : /\ OnDisk(SectorOf(p, k)) = OnDisk(SectorOf(p, 0)) + k
                       /\ SectorOf(p, k) = SectorOf(p, 0) + k
    BY <1>1, <1>3, Places
  <2> QED BY <1>3, <2>1, <2>2
<1>7. \A k \in 0..(S - 1) :
        Value(disk', "disk", OnDisk(SectorOf(p, k))) = Value(mem, "mem", PieceAddr(p) + k * Block)
  BY <1>5, <1>6
<1>8. ASSUME NEW b \in d..(d + S - 1)
      PROVE  \E k \in 0..(S - 1) : b = OnDisk(SectorOf(p, k))
  <2>1. d \in Nat
    BY <1>3, <1>4
  <2> HIDE DEF S, d
  <2>2. b - d \in 0..(S - 1) /\ b = d + (b - d)
    BY <1>4, <2>1
  <2> QED BY <1>6, <2>2
<1>9. ASSUME NEW s \in Nat, \A k \in 0..(S - 1) : s # SectorOf(p, k)
      PROVE  Value(disk', "disk", OnDisk(s)) = Value(disk, "disk", OnDisk(s))
  <2>1. /\ OnDisk(0) \in Nat /\ OnDisk(s) = OnDisk(0) + s
        /\ d = OnDisk(0) + SectorOf(p, 0)
    BY <1>1, <1>3, <1>4, DiskPlace
  <2>2. \A k \in 0..(S - 1) : s # SectorOf(p, 0) + k
    BY <1>6, <1>9
  <2> HIDE DEF S, d
  <2>3. ~(s - SectorOf(p, 0) \in 0..(S - 1))
    BY <1>4, <2>2
  <2>4. OnDisk(s) \notin d..(d + S - 1)
    BY <1>4, <2>1, <2>3
  <2> QED BY <1>5, <2>4
<1>10. ASSUME NEW b \in DOMAIN disk', b \notin d..(d + S - 1)
       PROVE  b \in DOMAIN disk /\ disk'[b] = disk[b]
  <2>1. b \in DOMAIN disk
    BY <1>5, <1>10
  <2>2. Value(disk', "disk", b) = Value(disk, "disk", b)
    BY <1>5, <1>10
  <2> QED BY <1>10, <2>1, <2>2 DEF Value
<1>11. \A b \in DOMAIN disk' : \/ \E k \in 0..(S - 1) : b = OnDisk(SectorOf(p, k))
                               \/ b \in DOMAIN disk /\ disk'[b] = disk[b]
  BY <1>8, <1>10
<1> HIDE DEF S, d
<1> QED BY <1>2, <1>3, <1>7, <1>9, <1>11 DEF S

\* A read command brings its piece into memory and leaves the rest of it alone.
LEMMA PieceFetched ==
  ASSUME Expressible, TypeInv, CallInv, CommandInv, NEW c \in cmds, device_execute(c),
         call.op \notin Writing
  PROVE  /\ disk' = disk
         /\ \E p \in 0..(batch - 1) :
              /\ p \in Nat /\ c.prp1 = PieceAddr(p)
              /\ \A k \in 0..(PieceSectors - 1) :
                   Value(mem', "mem", PieceAddr(p) + k * Block)
                     = Value(disk, "disk", OnDisk(SectorOf(p, k)))
              /\ \A a : (\A k \in 0..(PieceSectors - 1) : a # PieceAddr(p) + k * Block)
                   => Value(mem', "mem", a) = Value(mem, "mem", a)
              /\ \A a \in DOMAIN mem' :
                   \/ \E k \in 0..(PieceSectors - 1) : a = PieceAddr(p) + k * Block
                   \/ a \in DOMAIN mem /\ mem'[a] = mem[a]
<1> DEFINE S == PieceSectors
<1>1. InChunk
  BY DEF CommandInv
<1>3. PICK p \in 0..(batch - 1) :
        /\ p \in Nat /\ c.prp1 = PieceAddr(p) /\ c.prp1 % Block = 0 /\ Contiguous(c)
        /\ c.prp1 >= Page
        /\ Length(c) = S /\ FirstOnDisk(c) = OnDisk(SectorOf(p, 0))
  BY <1>1, PieceOf
<1>4. S \in Nat /\ PieceAddr(p) \in Nat /\ OnDisk(SectorOf(p, 0)) \in Nat
  BY <1>1, <1>3, PieceTypes, Places
<1>2. disk' = disk /\ mem' = Stored(mem, Fetched(c))
  <2>1. ~c.write
    BY DEF CommandInv
  <2>2. disk' = disk /\ \E data \in Arrivals(c) : mem' = Stored(mem, data)
    BY <2>1 DEF device_execute
  <2>3. \A data \in Arrivals(c) : data = Fetched(c)
    BY <1>3, <1>4, AllArrives
  <2> QED BY <2>2, <2>3
<1> DEFINE d == FirstOnDisk(c)
           R == {PieceAddr(p) + k * Block : k \in 0..(S - 1)}
<1>5. /\ \A k \in 0..(S - 1) :
           Value(mem', "mem", PieceAddr(p) + k * Block) = Value(disk, "disk", d + k)
      /\ \A a : a \notin R => Value(mem', "mem", a) = Value(mem, "mem", a)
      /\ DOMAIN mem' \subseteq DOMAIN mem \cup R
  BY <1>2, <1>3, <1>4, ReadEffect
<1>6. \A k \in 0..(S - 1) : OnDisk(SectorOf(p, k)) = d + k
  BY <1>1, <1>3, <1>4, Places
<1>7. \A k \in 0..(S - 1) : Value(mem', "mem", PieceAddr(p) + k * Block)
                             = Value(disk, "disk", OnDisk(SectorOf(p, k)))
  BY <1>5, <1>6
<1>8. \A a : (\A k \in 0..(S - 1) : a # PieceAddr(p) + k * Block) => a \notin R
  OBVIOUS
<1>9. \A a \in R : \E k \in 0..(S - 1) : a = PieceAddr(p) + k * Block
  OBVIOUS
<1> HIDE DEF S, d, R
<1>10. ASSUME NEW a \in DOMAIN mem', a \notin R
       PROVE  a \in DOMAIN mem /\ mem'[a] = mem[a]
  <2>1. a \in DOMAIN mem
    BY <1>5, <1>10
  <2>2. Value(mem', "mem", a) = Value(mem, "mem", a)
    BY <1>5, <1>10
  <2> QED BY <1>10, <2>1, <2>2 DEF Value
<1>11. \A a \in DOMAIN mem' : \/ \E k \in 0..(S - 1) : a = PieceAddr(p) + k * Block
                              \/ a \in DOMAIN mem /\ mem'[a] = mem[a]
  BY <1>9, <1>10
<1>12. \A a : (\A k \in 0..(S - 1) : a # PieceAddr(p) + k * Block)
              => Value(mem', "mem", a) = Value(mem, "mem", a)
  BY <1>5, <1>8
<1> QED BY <1>2, <1>3, <1>7, <1>11, <1>12 DEF S
-----------------------------------------------------------------------------
(***************************************************************************)
(* The contents.                                                           *)
(***************************************************************************)
\* What the properties compare, where the call and the contents stay.
LEMMA ContentFrame ==
  ASSUME UNCHANGED <<call, at, ns_block, before>>
  PROVE  /\ \A s : Source(s)' = Source(s) /\ OldOnDisk(s)' = OldOnDisk(s)
         /\ disk' = disk => \A s : NowOnDisk(s)' = NowOnDisk(s) /\ Stale(s)' = Stale(s)
         /\ SliceSectors' = SliceSectors
<1>1. /\ \A s : OnDisk(s)' = OnDisk(s)
      /\ Span' = Span
  BY Frame
<1>2. \A s : Source(s)' = Source(s)
  BY DEF Source
<1>3. \A s : OldOnDisk(s)' = OldOnDisk(s)
  BY <1>1 DEF OldOnDisk
<1>4. SliceSectors' = SliceSectors
  BY <1>1 DEF SliceSectors
<1>5. ASSUME disk' = disk PROVE \A s : NowOnDisk(s)' = NowOnDisk(s) /\ Stale(s)' = Stale(s)
  BY <1>1, <1>5 DEF NowOnDisk, Stale
<1> QED BY <1>2, <1>3, <1>4, <1>5

\* Memory other than what is overwritten is still as it was.
LEMMA KeptAfter ==
  ASSUME before' = before, NEW w, OthersKept(w),
         \A a \in DOMAIN mem' : \/ a \in w \/ a \in buffer..(buffer + BufferSize - 1)
                                \/ a \in DOMAIN mem /\ mem'[a] = mem[a]
  PROVE  OthersKept(w)'
BY DEF OthersKept

\* A step that moves no data and stays within the chunk keeps what is known of it.
LEMMA DataKept ==
  ASSUME WriteInv, CopiedReadInv, DirectReadInv, pc' = pc \/ (InChunk /\ InChunk'),
         UNCHANGED <<mem, disk, app, call, at, ns_block, before, batch>>,
         hidden => hidden',
         \A p \in 0..(batch - 1) : Failed \/ Outstanding(p) => Failed' \/ Outstanding(p)'
  PROVE  WriteInv' /\ CopiedReadInv' /\ DirectReadInv'
<1>1. /\ \A s : /\ Source(s)' = Source(s) /\ OldOnDisk(s)' = OldOnDisk(s)
                /\ NowOnDisk(s)' = NowOnDisk(s) /\ Stale(s)' = Stale(s)
      /\ SliceSectors' = SliceSectors
  BY ContentFrame
<1>2. /\ chunk_len' = chunk_len /\ chunk_addr' = chunk_addr
      /\ PieceSectors' = PieceSectors /\ Span' = Span /\ Covered' = Covered /\ Fits' = Fits
      /\ \A p : PieceAddr(p)' = PieceAddr(p)
      /\ \A p, k : ChunkSector(p, k)' = ChunkSector(p, k) /\ SectorOf(p, k)' = SectorOf(p, k)
  BY Frame
<1>3. /\ InChunk' = InChunk /\ (pc' = "panicked") = (pc = "panicked")
      /\ (pc' = "chunk") = (pc = "chunk")
  BY DEF InChunk
<1>4. \A w : OthersKept(w) => OthersKept(w)'
  BY DEF OthersKept
<1>5. DoneWritten => DoneWritten'
  BY <1>1 DEF DoneWritten
<1>6. ChunkLoaded => ChunkLoaded'
  BY <1>1, <1>2 DEF ChunkLoaded
<1>7. ChunkWritten => ChunkWritten'
  BY <1>1, <1>2 DEF ChunkWritten
<1>8. RestKept => RestKept'
  BY <1>1, <1>2, <1>3 DEF RestKept
<1>10. WriteInv'
  BY <1>3, <1>5, <1>6, <1>7, <1>8 DEF WriteInv
<1>11. DoneCopied => DoneCopied'
  BY <1>1 DEF DoneCopied
<1>12. ChunkFetched => ChunkFetched'
  BY <1>1, <1>2 DEF ChunkFetched
<1>17. BufferStale => BufferStale'
  BY <1>1, <1>2 DEF BufferStale
<1>13. CopiedReadInv'
  BY <1>2, <1>3, <1>4, <1>11, <1>12, <1>17 DEF CopiedReadInv
<1>14. DoneRead => DoneRead'
  BY <1>1 DEF DoneRead
<1>15. ChunkRead => ChunkRead'
  BY <1>1, <1>2 DEF ChunkRead
<1>16. DirectReadInv'
  BY <1>1, <1>3, <1>4, <1>14, <1>15 DEF DirectReadInv
<1> QED BY <1>10, <1>13, <1>16

\* The steps that move no data: commands that are submitted, dropped or
\* refused, and the end of the submissions.
LEMMA QuietStep ==
  ASSUME Expressible, TypeInv, CallInv, CommandInv, WriteInv, CopiedReadInv, DirectReadInv,
         \/ push \/ push_full \/ push_done \/ UNCHANGED vars
         \/ \E c \in cmds : device_refuse(c)
  PROVE  WriteInv' /\ CopiedReadInv' /\ DirectReadInv'
<1> USE DEF dataVars, callVars, boundVars
<1>1. i \in Nat /\ batch \in Nat \ {0} /\ QLen \in Nat \ {0, 1} /\ i <= batch
  BY PathAssumption DEF TypeInv, TypeOK
<1>2. ASSUME UNCHANGED <<call, at, ns_block>>
      PROVE  \A p : PieceAddr(p)' = PieceAddr(p)
  BY <1>2, Frame
<1>3. CASE push
  <2>1. /\ pc = "push" /\ i < batch /\ piece_blocks > 0 /\ i < QLen - 1 /\ i' = i + 1
        /\ cmds' = cmds \cup {submit_io(buffer + i * batch_size, piece_blocks)}
        /\ UNCHANGED <<mem, disk, app, call, at, ns_block, before, batch, hidden, posted,
                       status, pc>>
    BY <1>3 DEF push
  <2>2. PICK d : d = submit_io(buffer + i * batch_size, piece_blocks)
    OBVIOUS
  <2>3. d.prp1 = PieceAddr(i) /\ d \in cmds' /\ cmds \subseteq cmds'
    BY <2>1, <2>2, BatchContiguous
  <2>4. \A p : PieceAddr(p)' = PieceAddr(p)
    BY <1>2, <2>1
  <2>5. Failed' = Failed
    BY <2>1 DEF Failed
  <2>6. ASSUME NEW p \in 0..(batch - 1), Outstanding(p) PROVE Outstanding(p)'
    <3>1. CASE \E c \in cmds : c.prp1 = PieceAddr(p)
      BY <2>3, <2>4, <3>1 DEF Outstanding
    <3>2. CASE p = i
      BY <2>3, <2>4, <3>2 DEF Outstanding
    <3>3. CASE p # i /\ p >= Min2(i, QLen - 1)
      <4>1. p >= Min2(i', QLen - 1)
        BY <1>1, <2>1, <3>3 DEF Min2
      <4> QED BY <4>1 DEF Outstanding
    <3> QED BY <2>6, <3>1, <3>2, <3>3 DEF Outstanding
  <2> QED BY <2>1, <2>5, <2>6, DataKept
<1>4. CASE push_full
  <2>1. /\ pc = "push" /\ i < batch /\ i >= QLen - 1 /\ i' = i + 1
        /\ UNCHANGED <<mem, disk, app, call, at, ns_block, before, batch, hidden, posted,
                       status, pc, cmds>>
    BY <1>4 DEF push_full
  <2>2. \A p : PieceAddr(p)' = PieceAddr(p)
    BY <1>2, <2>1
  <2>3. Min2(i', QLen - 1) = Min2(i, QLen - 1)
    BY <1>1, <2>1 DEF Min2
  <2>4. \A p : Outstanding(p)' = Outstanding(p)
    BY <2>1, <2>2, <2>3 DEF Outstanding
  <2>5. Failed' = Failed
    BY <2>1 DEF Failed
  <2> QED BY <2>1, <2>4, <2>5, DataKept
<1>5. CASE push_done \/ UNCHANGED vars
  <2>1. /\ UNCHANGED <<mem, disk, app, call, at, ns_block, before, batch, hidden, posted,
                       status, cmds, i>>
        /\ pc' = pc \/ (InChunk /\ InChunk')
    BY <1>5 DEF push_done, vars, InChunk
  <2>2. \A p : PieceAddr(p)' = PieceAddr(p)
    BY <1>2, <2>1
  <2>4. \A p : Outstanding(p)' = Outstanding(p)
    BY <2>1, <2>2 DEF Outstanding
  <2>5. Failed' = Failed
    BY <2>1 DEF Failed
  <2> QED BY <2>1, <2>4, <2>5, DataKept
<1>6. ASSUME NEW c \in cmds, device_refuse(c)
      PROVE  WriteInv' /\ CopiedReadInv' /\ DirectReadInv'
  <2>1. posted \in Nat /\ posted < batch /\ posted' = posted + 1 /\ batch' = batch /\ pc' = pc
        /\ UNCHANGED <<app, call, at, ns_block, before>>
    BY <1>6, DeviceFrame
  <2>2. mem' = mem /\ disk' = disk /\ status' = FALSE
        /\ hidden' = (hidden \/ posted + 1 < batch)
    BY <1>6 DEF device_refuse
  <2>3. Failed'
    <3>1. CASE posted + 1 < batch
      BY <2>2, <3>1, Zenon DEF Failed
    <3>2. CASE ~(posted + 1 < batch)
      <4>1. posted' = batch'
        BY <1>1, <2>1, <3>2
      <4> QED BY <2>2, <4>1 DEF Failed
    <3> QED BY <3>1, <3>2
  <2>4. hidden => hidden'
    BY <2>2, Zenon
  <2> QED BY <2>1, <2>2, <2>3, <2>4, DataKept
<1> QED BY <1>3, <1>4, <1>5, <1>6

\* The pieces have sectors once one of them has been submitted.
LEMMA PiecesHaveSectors ==
  ASSUME TypeInv, CallInv, CommandInv, NEW c \in cmds
  PROVE  PieceSectors > 0 /\ i > 0
<1>1. InChunk /\ i \in Nat
  BY DEF CommandInv, TypeInv, TypeOK
<1>2. Busy /\ i > 0
  BY <1>1 DEF CommandInv, InChunk, Busy
<1>3. PieceBlocks > 0 /\ PieceBlocks \in Nat
  BY <1>1, <1>2, PieceTypes DEF CallInv
<1>4. spb \in {1, 8}
  BY <1>2, ChunkFacts
<1> QED BY <1>2, <1>3, <1>4 DEF PieceSectors

\* The execution of a write.
LEMMA ExecuteWrite ==
  ASSUME Expressible, TypeInv, CallInv, CommandInv, WriteInv, NEW c \in cmds,
         device_execute(c),
         call.op \in Writing
  PROVE  WriteInv'
<1> DEFINE S == PieceSectors
<1>1. /\ InChunk /\ Busy /\ posted \in Nat /\ posted < batch /\ pc # "panicked"
      /\ cmds' = cmds \ {c} /\ posted' = posted + 1
      /\ UNCHANGED <<prp_list, pc, call, at, lba, i, batch, ns_block, before, app>>
  BY DeviceFrame DEF InChunk
<1>2. mem' = mem
  BY PieceWritten
<1>3. PICK p \in 0..(batch - 1) :
        /\ p \in Nat /\ c.prp1 = PieceAddr(p)
        /\ \A k \in 0..(S - 1) : Value(disk', "disk", OnDisk(SectorOf(p, k)))
                                  = Value(mem, "mem", PieceAddr(p) + k * Block)
        /\ \A s \in Nat : (\A k \in 0..(S - 1) : s # SectorOf(p, k))
             => Value(disk', "disk", OnDisk(s)) = Value(disk, "disk", OnDisk(s))
        /\ \A b \in DOMAIN disk' :
             \/ \E k \in 0..(S - 1) : b = OnDisk(SectorOf(p, k))
             \/ b \in DOMAIN disk /\ disk'[b] = disk[b]
  BY PieceWritten
<1>4. /\ \A s : Source(s)' = Source(s) /\ OldOnDisk(s)' = OldOnDisk(s)
  BY <1>1, ContentFrame
<1>5. /\ chunk_len' = chunk_len /\ chunk_addr' = chunk_addr /\ InChunk'
      /\ PieceSectors' = PieceSectors /\ Span' = Span /\ Covered' = Covered
      /\ \A q : PieceAddr(q)' = PieceAddr(q)
      /\ \A q, k : ChunkSector(q, k)' = ChunkSector(q, k) /\ SectorOf(q, k)' = SectorOf(q, k)
      /\ \A s : OnDisk(s)' = OnDisk(s)
  BY <1>1, Frame DEF InChunk
<1>6. \A s : /\ NowOnDisk(s)' = Value(disk', "disk", OnDisk(s))
             /\ NowOnDisk(s) = Value(disk, "disk", OnDisk(s))
  BY <1>5 DEF NowOnDisk
<1>17. \A q, k : NowOnDisk(SectorOf(q, k))' = Value(disk', "disk", OnDisk(SectorOf(q, k)))
  <2>1. \A q, k : OnDisk(SectorOf(q, k))' = OnDisk(SectorOf(q, k))
    BY <1>1, <1>5, Frame DEF OnDisk
  <2> QED BY <2>1 DEF NowOnDisk
<1>7. \A s \in Nat : (\A k \in 0..(S - 1) : s # SectorOf(p, k)) => NowOnDisk(s)' = NowOnDisk(s)
  BY <1>3, <1>6
<1>8. hidden' = hidden /\ status' = TRUE
  BY DEF device_execute, boundVars
<1>9. S > 0 /\ S \in Nat /\ batch \in Nat
  BY <1>1, PiecesHaveSectors, PieceTypes
<1>10. \A k \in 0..(S - 1) :
         /\ SectorOf(p, k) >= at \div Block
         /\ \A s \in Span : s >= Sectors(at + chunk_len) => s # SectorOf(p, k)
  BY <1>1, PieceCovered
<1>11. DoneWritten'
  <2>1. DoneWritten
    BY <1>1 DEF WriteInv
  <2>2. Sectors(at) = at \div Block /\ at \div Block \in Nat
    BY <1>1, Geometry
  <2>3. ASSUME NEW s \in 0..(Sectors(at) - 1) PROVE NowOnDisk(s)' = NowOnDisk(s)
    <3> DEFINE A == at \div Block
    <3>1. A \in Nat /\ s \in 0..(A - 1) /\ \A k \in 0..(S - 1) : SectorOf(p, k) >= A
      BY <1>10, <2>2
    <3>4. \A k \in 0..(S - 1) : k \in Nat
      BY <1>9
    <3>2. \A k \in 0..(S - 1) : SectorOf(p, k) \in Nat
      BY <1>1, <1>3, <3>4, Places
    <3> HIDE DEF A, S
    <3>3. s \in Nat /\ \A k \in 0..(S - 1) : s # SectorOf(p, k)
      BY <3>1, <3>2
    <3> QED BY <1>7, <3>3
  <2> QED BY <1>1, <1>4, <1>8, <2>1, <2>3 DEF DoneWritten
<1>12. ChunkLoaded'
  <2>1. ChunkLoaded
    BY <1>1 DEF WriteInv
  <2> QED BY <1>1, <1>2, <1>4, <1>5, <2>1 DEF ChunkLoaded
<1>13. ChunkWritten'
  <2>1. ChunkWritten /\ ChunkLoaded
    BY <1>1 DEF WriteInv
  <2> SUFFICES ASSUME NEW q \in 0..(batch - 1), NEW k \in 0..(S - 1), ChunkSector(q, k)
               PROVE  \/ NowOnDisk(SectorOf(q, k))' = Source(SectorOf(q, k))
                      \/ /\ NowOnDisk(SectorOf(q, k))' = OldOnDisk(SectorOf(q, k))
                         /\ Failed' \/ Outstanding(q)'
    BY <1>1, <1>4, <1>5 DEF ChunkWritten
  <2>2. q \in Nat /\ k \in Nat
    BY <1>9
  <2>3. SectorOf(q, k) \in Nat /\ PieceStart(q) \in Nat
    BY <1>1, <2>2, Places, PieceFacts
  <2>4. CASE q = p
    <3>1. NowOnDisk(SectorOf(q, k))' = Value(mem, "mem", PieceAddr(q) + k * Block)
      BY <1>3, <1>17, <2>4
    <3>2. /\ PieceAddr(q) + k * Block = chunk_addr + (PieceStart(q) + k) * Block
          /\ SectorOf(q, k) = at \div Block + (PieceStart(q) + k)
      BY <1>1, <2>2, Places
    <3>3. PieceStart(q) + k \in 0..(Sectors(chunk_len) - 1)
      <4>1. Sectors(chunk_len) \in Nat
        BY <1>1, ChunkFacts
      <4> QED BY <2>2, <2>3, <4>1 DEF ChunkSector
    <3>4. Value(mem, "mem", chunk_addr + (PieceStart(q) + k) * Block)
            = Source(at \div Block + (PieceStart(q) + k))
      BY <2>1, <3>3 DEF ChunkLoaded
    <3> QED BY <3>1, <3>2, <3>4
  <2>5. CASE q # p
    <3>1. \A m \in 0..(S - 1) : SectorOf(q, k) # SectorOf(p, m)
      BY <1>1, <1>3, <2>2, <2>5, Apart
    <3>2. NowOnDisk(SectorOf(q, k))' = NowOnDisk(SectorOf(q, k))
      BY <1>3, <1>6, <1>17, <2>3, <3>1
    <3>3. Outstanding(q) => Outstanding(q)'
      BY <1>3, <1>9, <2>2, <2>5, StillOutstanding
    <3>4. Failed => Failed'
      BY <1>1, <1>8, <1>9 DEF Failed
    <3> QED BY <2>1, <3>2, <3>3, <3>4 DEF ChunkWritten
  <2> QED BY <2>4, <2>5
<1>14. RestKept'
  <2>1. RestKept
    BY <1>1 DEF WriteInv
  <2>2. ASSUME NEW s \in Span, s >= Sectors(at + chunk_len) PROVE NowOnDisk(s)' = OldOnDisk(s)
    <3>1. s \in Nat
      BY <1>1, Geometry DEF Span
    <3>2. NowOnDisk(s)' = NowOnDisk(s)
      BY <1>7, <1>10, <2>2, <3>1
    <3> QED BY <1>1, <2>1, <2>2, <3>2 DEF RestKept
  <2> QED BY <1>1, <1>4, <1>5, <2>2 DEF RestKept
<1> QED BY <1>1, <1>2, <1>11, <1>12, <1>13, <1>14 DEF WriteInv

\* The execution of a read through the buffer.
LEMMA ExecuteCopiedRead ==
  ASSUME Expressible, TypeInv, CallInv, CommandInv, CopiedReadInv, NEW c \in cmds,
         device_execute(c),
         call.op \in ThroughBuffer \ Writing
  PROVE  CopiedReadInv'
<1> DEFINE S == PieceSectors
<1>1. /\ InChunk /\ Busy /\ posted \in Nat /\ posted < batch /\ pc # "panicked"
      /\ cmds' = cmds \ {c} /\ posted' = posted + 1
      /\ UNCHANGED <<prp_list, pc, call, at, lba, i, batch, ns_block, before, app>>
  BY DeviceFrame DEF InChunk
<1>2. disk' = disk
  BY PieceFetched
<1>3. PICK p \in 0..(batch - 1) :
        /\ p \in Nat /\ c.prp1 = PieceAddr(p)
        /\ \A k \in 0..(S - 1) : Value(mem', "mem", PieceAddr(p) + k * Block)
                                  = Value(disk, "disk", OnDisk(SectorOf(p, k)))
        /\ \A a : (\A k \in 0..(S - 1) : a # PieceAddr(p) + k * Block)
             => Value(mem', "mem", a) = Value(mem, "mem", a)
        /\ \A a \in DOMAIN mem' :
             \/ \E k \in 0..(S - 1) : a = PieceAddr(p) + k * Block
             \/ a \in DOMAIN mem /\ mem'[a] = mem[a]
  BY PieceFetched
<1>4. \A s : NowOnDisk(s)' = NowOnDisk(s) /\ Stale(s)' = Stale(s)
  BY <1>1, <1>2, ContentFrame
<1>5. /\ PieceSectors' = PieceSectors /\ Span' = Span /\ Fits' = Fits /\ InChunk'
      /\ \A q : PieceAddr(q)' = PieceAddr(q)
      /\ \A q, k : ChunkSector(q, k)' = ChunkSector(q, k) /\ SectorOf(q, k)' = SectorOf(q, k)
  BY <1>1, Frame DEF InChunk
<1>6. hidden' = hidden /\ status' = TRUE
  BY DEF device_execute, boundVars
<1>7. S > 0 /\ S \in Nat /\ batch \in Nat
  BY <1>1, PiecesHaveSectors, PieceTypes
<1>8. DoneCopied'
  <2>1. DoneCopied
    BY <1>1 DEF CopiedReadInv
  <2> QED BY <1>1, <1>4, <1>6, <2>1 DEF DoneCopied
<1>9. ChunkFetched'
  <2>1. ChunkFetched
    BY <1>1 DEF CopiedReadInv
  <2> SUFFICES ASSUME NEW q \in 0..(batch - 1), NEW k \in 0..(S - 1), ChunkSector(q, k)
               PROVE  \/ Value(mem', "mem", PieceAddr(q) + k * Block) = NowOnDisk(SectorOf(q, k))
                      \/ /\ Value(mem', "mem", PieceAddr(q) + k * Block) \in Stale(SectorOf(q, k))
                         /\ Failed' \/ Outstanding(q)'
    BY <1>1, <1>4, <1>5 DEF ChunkFetched
  <2>2. q \in Nat /\ k \in Nat
    BY <1>7
  <2>3. CASE q = p
    BY <1>3, <2>3 DEF NowOnDisk
  <2>4. CASE q # p
    <3>1. \A m \in 0..(S - 1) : PieceAddr(q) + k * Block # PieceAddr(p) + m * Block
      BY <1>1, <1>3, <2>2, <2>4, Apart
    <3>2. Value(mem', "mem", PieceAddr(q) + k * Block) = Value(mem, "mem", PieceAddr(q) + k * Block)
      BY <1>3, <3>1
    <3>3. Outstanding(q) => Outstanding(q)'
      BY <1>3, <1>7, <2>2, <2>4, StillOutstanding
    <3>4. Failed => Failed'
      BY <1>1, <1>6, <1>7 DEF Failed
    <3> QED BY <2>1, <3>2, <3>3, <3>4 DEF ChunkFetched
  <2> QED BY <2>3, <2>4
<1>10. ASSUME Fits, OthersKept({}) PROVE OthersKept({})'
  <2>1. ASSUME NEW k \in 0..(S - 1)
        PROVE  PieceAddr(p) + k * Block \in buffer..(buffer + BufferSize - 1)
    <3> DEFINE x == PieceStart(p) + k
               e == Blocks(chunk_len) * spb
    <3>1. chunk_len <= BufferSize
      <4>1. /\ call.len \in Nat /\ at \in Nat /\ chunk_size(call.op) \in Nat
            /\ BufferSize \in Nat
        BY <1>1, ChunkFacts, ChunkSizes, PathAssumption
      <4> QED BY <1>10, <4>1 DEF Fits, chunk_len, Min2
    <3>2. e * 512 <= BufferSize /\ e \in Nat
      BY <1>1, <3>1, Geometry DEF Block
    <3>3. PieceAddr(p) + k * Block = buffer + x * 512 /\ x \in Nat /\ x < e
      <4>1. k \in Nat /\ PieceStart(p) \in Nat /\ chunk_addr = buffer
        BY <1>1, <1>3, <1>7, PieceFacts, ChunkAddr
      <4>2. PieceAddr(p) + k * Block = chunk_addr + (PieceStart(p) + k) * Block
        BY <1>1, <1>3, <4>1, Places
      <4>3. x < e
        BY <1>1, PieceCovered
      <4> HIDE DEF e
      <4> QED BY <4>1, <4>2, <4>3 DEF Block
    <3> HIDE DEF x, e
    <3>4. buffer \in Nat /\ BufferSize \in Nat
      BY Constants, PathAssumption
    <3> QED BY <3>2, <3>3, <3>4
  <2>2. \A a \in DOMAIN mem' : \/ a \in {} \/ a \in buffer..(buffer + BufferSize - 1)
                               \/ a \in DOMAIN mem /\ mem'[a] = mem[a]
    BY <1>3, <2>1
  <2> QED BY <1>1, <1>10, <2>2, KeptAfter
<1>11. Fits' => OthersKept({})'
  BY <1>1, <1>5, <1>10 DEF CopiedReadInv
<1> QED BY <1>1, <1>2, <1>5, <1>8, <1>9, <1>11 DEF CopiedReadInv, InChunk

\* The execution of a read into the caller's memory.
LEMMA ExecuteDirectRead ==
  ASSUME Expressible, TypeInv, CallInv, CommandInv, DirectReadInv, NEW c \in cmds,
         device_execute(c),
         call.op \notin ThroughBuffer \cup Writing \cup {"none"}
  PROVE  DirectReadInv'
<1> DEFINE S == PieceSectors
           A == at \div Block
<1>1. /\ InChunk /\ Busy /\ posted \in Nat /\ posted < batch /\ pc # "panicked"
      /\ cmds' = cmds \ {c} /\ posted' = posted + 1
      /\ UNCHANGED <<prp_list, pc, call, at, lba, i, batch, ns_block, before, app>>
  BY DeviceFrame DEF InChunk
<1>2. disk' = disk
  BY PieceFetched
<1>3. PICK p \in 0..(batch - 1) :
        /\ p \in Nat /\ c.prp1 = PieceAddr(p)
        /\ \A k \in 0..(S - 1) : Value(mem', "mem", PieceAddr(p) + k * Block)
                                  = Value(disk, "disk", OnDisk(SectorOf(p, k)))
        /\ \A a : (\A k \in 0..(S - 1) : a # PieceAddr(p) + k * Block)
             => Value(mem', "mem", a) = Value(mem, "mem", a)
        /\ \A a \in DOMAIN mem' :
             \/ \E k \in 0..(S - 1) : a = PieceAddr(p) + k * Block
             \/ a \in DOMAIN mem /\ mem'[a] = mem[a]
  BY PieceFetched
<1>4. /\ \A s : NowOnDisk(s)' = NowOnDisk(s)
      /\ SliceSectors' = SliceSectors
  BY <1>1, <1>2, ContentFrame
<1>5. /\ PieceSectors' = PieceSectors /\ InChunk'
      /\ \A q : PieceAddr(q)' = PieceAddr(q)
      /\ \A q, k : SectorOf(q, k)' = SectorOf(q, k)
  BY <1>1, Frame DEF InChunk
<1>6. hidden' = hidden /\ status' = TRUE
  BY DEF device_execute, boundVars
<1>7. S > 0 /\ S \in Nat /\ batch \in Nat
  BY <1>1, PiecesHaveSectors, PieceTypes
<1>8. /\ A \in Nat /\ Sectors(at) = A /\ call.base \in Nat /\ at = A * 512
      /\ chunk_addr = call.base + at
      /\ Sectors(call.len) \in Nat /\ A + Blocks(chunk_len) * spb <= Sectors(call.len)
      /\ Blocks(chunk_len) * spb \in Nat
  <2>1. ns_block = Block /\ Blocks(chunk_len) = Sectors(chunk_len) /\ chunk_addr = call.base + at
    BY <1>1, ChunkAddr
  <2>2. spb = 1
    BY <2>1 DEF spb, Block
  <2>3. /\ A \in Nat /\ Sectors(at) = A /\ at = A * 512 /\ Sectors(call.len) \in Nat
        /\ A + Sectors(chunk_len) <= Sectors(call.len) /\ Sectors(chunk_len) \in Nat
    BY <1>1, Geometry DEF Block
  <2>4. call.base \in Nat
    BY DEF TypeInv
  <2>5. Blocks(chunk_len) * spb = Sectors(chunk_len)
    BY <2>1, <2>2, <2>3
  <2> QED BY <2>1, <2>3, <2>4, <2>5
<1>9. ASSUME NEW k \in 0..(S - 1)
      PROVE  \E x \in Nat : /\ PieceAddr(p) + k * Block = call.base + (A + x) * Block
                            /\ A + x \in Span
  <2> DEFINE x == PieceStart(p) + k
             e == Blocks(chunk_len) * spb
  <2>1. k \in Nat /\ PieceStart(p) \in Nat
    BY <1>1, <1>3, <1>7, PieceFacts
  <2>2. PieceAddr(p) + k * Block = chunk_addr + (PieceStart(p) + k) * Block
    BY <1>1, <1>3, <2>1, Places
  <2>3. x \in Nat /\ x < e
    BY <1>1, <2>1, PieceCovered
  <2>4. PieceAddr(p) + k * Block = chunk_addr + x * 512 /\ A + e <= Sectors(call.len) /\ e \in Nat
    BY <1>8, <2>2 DEF Block
  <2> HIDE DEF x, e, A
  <2>5. A + x \in Span
    BY <1>8, <2>3, <2>4 DEF Span
  <2>6. chunk_addr + x * 512 = call.base + (A + x) * 512
    BY <1>8, <2>3
  <2> QED BY <2>3, <2>4, <2>5, <2>6 DEF Block
<1>10. DoneRead'
  <2>1. DoneRead
    BY <1>1 DEF DirectReadInv
  <2>2. ASSUME NEW s \in 0..(Sectors(at) - 1)
        PROVE  Value(mem', "mem", call.base + s * Block) = Value(mem, "mem", call.base + s * Block)
    <3>1. s \in Nat /\ s < A
      BY <1>8
    <3> HIDE DEF A
    <3>2. ASSUME NEW k \in 0..(S - 1) PROVE call.base + s * Block # PieceAddr(p) + k * Block
      <4>1. PICK x \in Nat : PieceAddr(p) + k * Block = call.base + (A + x) * Block
        BY <1>9
      <4>2. call.base + s * 512 # call.base + (A + x) * 512
        BY <1>8, <3>1
      <4> QED BY <4>1, <4>2 DEF Block
    <3> QED BY <1>3, <3>2
  <2> QED BY <1>1, <1>4, <2>1, <2>2 DEF DoneRead
<1>11. ChunkRead'
  <2>1. ChunkRead
    BY <1>1 DEF DirectReadInv
  <2> SUFFICES ASSUME NEW q \in 0..(batch - 1), NEW k \in 0..(S - 1)
               PROVE  \/ Value(mem', "mem", PieceAddr(q) + k * Block) = NowOnDisk(SectorOf(q, k))
                      \/ Failed' \/ Outstanding(q)'
    BY <1>1, <1>4, <1>5 DEF ChunkRead
  <2>2. q \in Nat /\ k \in Nat
    BY <1>7
  <2>3. CASE q = p
    BY <1>3, <2>3 DEF NowOnDisk
  <2>4. CASE q # p
    <3>1. \A m \in 0..(S - 1) : PieceAddr(q) + k * Block # PieceAddr(p) + m * Block
      BY <1>1, <1>3, <2>2, <2>4, Apart
    <3>2. Value(mem', "mem", PieceAddr(q) + k * Block) = Value(mem, "mem", PieceAddr(q) + k * Block)
      BY <1>3, <3>1
    <3>3. Outstanding(q) => Outstanding(q)'
      BY <1>3, <1>7, <2>2, <2>4, StillOutstanding
    <3>4. Failed => Failed'
      BY <1>1, <1>6, <1>7 DEF Failed
    <3> QED BY <2>1, <3>2, <3>3, <3>4 DEF ChunkRead
  <2> QED BY <2>3, <2>4
<1>12. OthersKept(SliceSectors)'
  <2>1. OthersKept(SliceSectors)
    BY <1>1 DEF DirectReadInv
  <2>2. PICK w : w = SliceSectors
    OBVIOUS
  <2>3. \A k \in 0..(S - 1) : PieceAddr(p) + k * Block \in w
    BY <1>9, <2>2 DEF SliceSectors
  <2>4. \A a \in DOMAIN mem' : \/ a \in w \/ a \in buffer..(buffer + BufferSize - 1)
                               \/ a \in DOMAIN mem /\ mem'[a] = mem[a]
    BY <1>3, <2>3
  <2>5. OthersKept(w)'
    BY <1>1, <2>1, <2>2, <2>4, KeptAfter
  <2> QED BY <1>4, <2>2, <2>5 DEF OthersKept
<1> QED BY <1>1, <1>2, <1>10, <1>11, <1>12 DEF DirectReadInv

\* A call begins with everything as it was.
LEMMA BeginStep ==
  ASSUME TypeInv, NEW op \in DOMAIN Slices, NEW sl \in Slices[op], NEW b \in Lbas,
         NEW kk \in IF op \in Batched THEN BatchLens ELSE {1}, begin(op, sl, b, kk)
  PROVE  WriteInv' /\ CopiedReadInv' /\ DirectReadInv'
<1>1. /\ call'.op = op /\ call'.base = sl.base /\ call'.len = sl.len /\ at' = 0
      /\ before'.mem = mem /\ before'.disk = disk /\ before'.app = app
      /\ pc' = "chunk" /\ ns_block' = ns_block
      /\ mem' = mem /\ disk' = disk /\ app' = app
  BY DEF begin, dataVars
<1>2. Sectors(0) = 0 /\ 0 \div Block = 0
  BY SMT DEF Sectors, Block
<1>3. ~InChunk'
  BY <1>1 DEF InChunk
<1>4. \A w : OthersKept(w)'
  BY <1>1 DEF OthersKept, Value
<1>5. \A s : NowOnDisk(s)' = OldOnDisk(s)'
  BY <1>1 DEF NowOnDisk, OldOnDisk
<1>6. DoneWritten' /\ DoneCopied' /\ DoneRead'
  BY <1>1, <1>2 DEF DoneWritten, DoneCopied, DoneRead
<1>7. RestKept'
  BY <1>5 DEF RestKept
<1>9. WriteInv'
  BY <1>1, <1>3, <1>6, <1>7 DEF WriteInv
<1>10. DirectReadInv'
  BY <1>1, <1>3, <1>4, <1>6 DEF DirectReadInv
<1>11. BufferStale'
  <2>1. chunk_len' \in Nat /\ chunk_len' <= 512 * 4096
    <3>1. sl.len \in Nat /\ chunk_size(op) \in Nat /\ chunk_size(op) <= 512 * 4096
      BY SliceAssumption, ChunkSizes
    <3>2. chunk_len' = Min2(chunk_size(op), sl.len - 0)
      BY <1>1 DEF chunk_len, chunk_size
    <3> QED BY <3>1, <3>2 DEF Min2
  <2>2. Sectors(chunk_len') \in Nat /\ Sectors(chunk_len') <= 4096
    BY <2>1, SectorBound
  <2>3. ASSUME NEW j \in 0..(Sectors(chunk_len') - 1)
        PROVE  Value(mem', "mem", buffer + j * Block) \in Stale(at \div Block + j)'
    <3>1. j \in Nat /\ j % 4096 = j
      BY <2>2, SMT
    <3>2. at' \div Block + j = j
      BY <1>1, <1>2, <3>1
    <3>3. Value(before'.mem, "mem", buffer + ((at' \div Block + j) % 4096) * Block)
            \in Stale(at \div Block + j)'
      BY DEF Stale
    <3> QED BY <1>1, <3>1, <3>2, <3>3
  <2>4. Sectors(chunk_len)' = Sectors(chunk_len')
    BY DEF Sectors
  <2> QED BY <2>3, <2>4 DEF BufferStale
<1>12. at' > 0 => Fits'
  BY <1>1
<1>14. CopiedReadInv'
  BY <1>1, <1>3, <1>4, <1>6, <1>11, <1>12 DEF CopiedReadInv
<1> QED BY <1>9, <1>10, <1>14

\* A copy into the buffer stays there.
LEMMA CopyKeeps ==
  ASSUME TypeInv, CallInv, Busy, chunk_len <= BufferSize, OthersKept({}),
         mem' = Stored(mem, CopyIn(chunk_len)), before' = before
  PROVE  OthersKept({})'
<1> DEFINE g == CopyIn(chunk_len)
           L == Sectors(chunk_len)
<1>1. L \in Nat /\ buffer \in Nat /\ BufferSize \in Nat
  BY ChunkFacts, Constants, PathAssumption
<1>2. L * 512 <= BufferSize
  <2> DEFINE e == Blocks(chunk_len) * spb
  <2>1. L <= e /\ e \in Nat /\ e * 512 <= BufferSize
    BY Geometry DEF Block
  <2> HIDE DEF e, L
  <2> QED BY <1>1, <2>1
<1>3. DOMAIN g = {buffer + j * Block : j \in 0..(L - 1)}
  BY DEF CopyIn
<1>4. \A k \in DOMAIN g : k \in buffer..(buffer + BufferSize - 1)
  <2> HIDE DEF L, g
  <2>1. ASSUME NEW j \in 0..(L - 1) PROVE buffer + j * Block \in buffer..(buffer + BufferSize - 1)
    BY <1>1, <1>2 DEF Block
  <2> QED BY <1>3, <2>1
<1>5. \A a \in DOMAIN Stored(mem, g) :
        a \in DOMAIN g \/ (a \in DOMAIN mem /\ Stored(mem, g)[a] = mem[a])
  BY DEF Stored
<1> HIDE DEF g, L
<1>6. \A a \in DOMAIN mem' : \/ a \in {} \/ a \in buffer..(buffer + BufferSize - 1)
                             \/ a \in DOMAIN mem /\ mem'[a] = mem[a]
  BY <1>4, <1>5 DEF g
<1> QED BY <1>6, KeptAfter

\* It puts the chunk where its commands take it from.
LEMMA Loaded ==
  ASSUME TypeInv, CallInv, Busy, call.op \in ThroughBuffer, app = before.app,
         mem' = Stored(mem, CopyIn(chunk_len)), NEW j \in 0..(Sectors(chunk_len) - 1)
  PROVE  Value(mem', "mem", chunk_addr + j * Block) = Source(at \div Block + j)
<1> DEFINE g == CopyIn(chunk_len)
           A == at \div Block
           N == {buffer + k * Block : k \in 0..(Sectors(chunk_len) - 1)}
           a == buffer + j * Block
<1>1. chunk_addr = buffer /\ A \in Nat /\ Sectors(chunk_len) \in Nat /\ buffer \in Nat
  BY ChunkAddr, Geometry, ChunkFacts, Constants
<1>2. DOMAIN g = N /\ \A k \in N : g[k] = Value(app, "app", A + (k - buffer) \div Block)
  BY DEF CopyIn
<1>3. a \in N
  OBVIOUS
<1>4. (a - buffer) \div Block = j
  BY <1>1, SMT DEF Block
<1>5. \A x : x \in DOMAIN g => Value(Stored(mem, g), "mem", x) = g[x]
  BY DEF Stored, Value
<1> HIDE DEF g, N, a, A
<1>6. Value(mem', "mem", a) = g[a] /\ g[a] = Value(app, "app", A + j)
  BY <1>2, <1>3, <1>4, <1>5 DEF g
<1>7. Source(A + j) = Value(before.app, "app", A + j)
  BY DEF Source
<1> QED BY <1>1, <1>6, <1>7 DEF a, A

PiecesTyped ==
  batch \in Nat \ {0} /\ PieceSectors \in Nat /\ \A p \in Nat : PieceStart(p) \in Nat

\* The pieces have their types.
LEMMA PieceTyping == TypeInv /\ CallInv /\ InChunk => PiecesTyped
BY PieceTypes, PieceFacts DEF PiecesTyped

\* A chunk begins with none of its pieces moved.
LEMMA ChunkStarts ==
  ASSUME TypeInv, CallInv, TypeInv', CallInv', KeptInv, WriteInv, CopiedReadInv,
         DirectReadInv, pc = "chunk", InChunk', UNCHANGED <<call, at, ns_block, before, disk, app, hidden>>,
         \A p \in 0..(batch' - 1) : Outstanding(p)',
         IF call.op \in Writing \cap ThroughBuffer
         THEN chunk_len <= BufferSize /\ mem' = Stored(mem, CopyIn(chunk_len))
         ELSE mem' = mem
  PROVE  WriteInv' /\ CopiedReadInv' /\ DirectReadInv'
<1> DEFINE S == PieceSectors
           A == at \div Block
           L == Sectors(chunk_len)
<1>1. Busy /\ ~InChunk /\ pc' # "chunk" /\ pc' # "panicked"
  BY DEF Busy, InChunk
<1>2. /\ \A s : /\ Source(s)' = Source(s) /\ OldOnDisk(s)' = OldOnDisk(s)
                /\ NowOnDisk(s)' = NowOnDisk(s) /\ Stale(s)' = Stale(s)
      /\ SliceSectors' = SliceSectors
  BY ContentFrame
<1>3. /\ chunk_len' = chunk_len /\ chunk_addr' = chunk_addr
      /\ PieceSectors' = PieceSectors /\ Span' = Span /\ Covered' = Covered /\ Fits' = Fits
      /\ \A p : PieceStart(p)' = PieceStart(p) /\ PieceAddr(p)' = PieceAddr(p)
      /\ \A p, k : ChunkSector(p, k)' = ChunkSector(p, k) /\ SectorOf(p, k)' = SectorOf(p, k)
  BY Frame
<1>4. PiecesTyped'
  BY PieceTyping, PTL
<1>5. batch' \in Nat /\ S \in Nat /\ \A p \in Nat : PieceStart(p) \in Nat
  BY <1>3, <1>4 DEF PiecesTyped
<1>6. /\ A \in Nat /\ L \in Nat /\ Sectors(at) = A /\ Sectors(at + chunk_len) = A + L
      /\ A + L <= Sectors(call.len) /\ Sectors(call.len) \in Nat /\ chunk_addr \in Nat
  BY <1>1, Geometry, ChunkAddr
<1>7. ASSUME NEW p \in 0..(batch' - 1), NEW k \in 0..(S - 1)
      PROVE  /\ SectorOf(p, k) = A + (PieceStart(p) + k)
             /\ PieceAddr(p) + k * Block = chunk_addr + (PieceStart(p) + k) * Block
             /\ ChunkSector(p, k) => /\ PieceStart(p) + k \in 0..(L - 1)
                                     /\ SectorOf(p, k) \in Span /\ SectorOf(p, k) >= Sectors(at)
  <2> DEFINE T == PieceStart(p)
  <2>1. T \in Nat /\ k \in Nat
    BY <1>5
  <2>2. SectorOf(p, k) = A + T + k /\ PieceAddr(p) = chunk_addr + T * 512
        /\ (ChunkSector(p, k) => T + k < L)
    BY DEF SectorOf, PieceAddr, Block, ChunkSector
  <2> HIDE DEF T, A, L, S
  <2>3. SectorOf(p, k) = A + (T + k)
    BY <1>6, <2>1, <2>2
  <2>4. PieceAddr(p) + k * 512 = chunk_addr + (T + k) * 512
    BY <1>6, <2>1, <2>2
  <2>5. ASSUME ChunkSector(p, k)
        PROVE  /\ T + k \in 0..(L - 1)
               /\ SectorOf(p, k) \in Span /\ SectorOf(p, k) >= Sectors(at)
    BY <1>6, <2>1, <2>2, <2>3, <2>5 DEF Span
  <2> QED BY <2>3, <2>4, <2>5 DEF T, Block
<1>8. WriteInv'
  <2> SUFFICES ASSUME call.op \in Writing PROVE WriteInv'
    BY DEF WriteInv
  <2>1. /\ DoneWritten /\ RestKept /\ app = before.app
        /\ call.op \notin ThroughBuffer => mem = before.mem
    BY DEF WriteInv, KeptInv
  <2>2. DoneWritten'
    BY <1>2, <2>1 DEF DoneWritten
  <2>4. RestKept'
    <3>1. ASSUME NEW s \in Span, s >= Sectors(at + chunk_len) PROVE s >= Sectors(at)
      <4>1. s \in Int
        BY <1>6 DEF Span
      <4> HIDE DEF A, L
      <4> QED BY <1>6, <3>1, <4>1
    <3> QED BY <1>1, <1>2, <1>3, <2>1, <3>1 DEF RestKept
  <2>5. ChunkWritten'
    <3> SUFFICES ASSUME NEW p \in 0..(batch' - 1), NEW k \in 0..(S - 1), ChunkSector(p, k)
                 PROVE  NowOnDisk(SectorOf(p, k)) = OldOnDisk(SectorOf(p, k))
      BY <1>2, <1>3 DEF ChunkWritten
    <3> QED BY <1>1, <1>7, <2>1 DEF RestKept
  <2>6. CASE call.op \in ThroughBuffer
    <3>1. mem' = Stored(mem, CopyIn(chunk_len))
      BY <2>6
    <3>2. \A j \in 0..(Sectors(chunk_len) - 1) :
            Value(mem', "mem", chunk_addr + j * Block) = Source(at \div Block + j)
      BY <1>1, <2>1, <2>6, <3>1, Loaded
    <3>3. ChunkLoaded'
      BY <1>2, <1>3, <3>2 DEF ChunkLoaded
    <3> QED BY <2>2, <2>4, <2>5, <2>6, <3>3 DEF WriteInv
  <2>7. CASE call.op \notin ThroughBuffer
    <3>1. mem' = mem /\ mem = before.mem
      BY <2>1, <2>7
    <3>2. ASSUME NEW j \in 0..(L - 1)
          PROVE  Value(mem', "mem", chunk_addr + j * Block) = Source(A + j)
      <4>1. chunk_addr = call.base + at /\ at = A * 512 /\ call.base \in Nat
        BY <1>1, <2>7, ChunkAddr, Geometry DEF Block, TypeInv
      <4>2. Source(A + j) = Value(before.mem, "mem", call.base + (A + j) * Block)
        BY <2>7 DEF Source
      <4> HIDE DEF A, L
      <4>3. chunk_addr + j * 512 = call.base + (A + j) * 512
        BY <1>6, <4>1
      <4> QED BY <3>1, <4>2, <4>3 DEF Block
    <3>3. ChunkLoaded'
      BY <1>2, <1>3, <3>2 DEF ChunkLoaded
    <3> QED BY <2>2, <2>4, <2>5, <3>1, <3>3 DEF WriteInv
  <2> QED BY <2>6, <2>7
<1>9. CopiedReadInv'
  <2> SUFFICES ASSUME call.op \in ThroughBuffer \ Writing PROVE CopiedReadInv'
    BY DEF CopiedReadInv
  <2>1. /\ DoneCopied /\ BufferStale
        /\ (at > 0 => Fits) /\ (Fits => OthersKept({})) /\ mem' = mem
    BY DEF CopiedReadInv
  <2>2. DoneCopied'
    BY <1>2, <2>1 DEF DoneCopied
  <2>3. ChunkFetched'
    <3> SUFFICES ASSUME NEW p \in 0..(batch' - 1), NEW k \in 0..(S - 1), ChunkSector(p, k)
                 PROVE  Value(mem', "mem", PieceAddr(p) + k * Block) \in Stale(SectorOf(p, k))
      BY <1>2, <1>3 DEF ChunkFetched
    <3>1. chunk_addr = buffer
      BY <1>1, ChunkAddr
    <3>2. /\ PieceAddr(p) + k * Block = buffer + (PieceStart(p) + k) * Block
          /\ PieceStart(p) + k \in 0..(L - 1)
          /\ SectorOf(p, k) = A + (PieceStart(p) + k)
      BY <1>7, <3>1
    <3>3. Value(mem, "mem", buffer + (PieceStart(p) + k) * Block) \in Stale(A + (PieceStart(p) + k))
      BY <2>1, <3>2 DEF BufferStale
    <3> QED BY <2>1, <3>2, <3>3
  <2>4. OthersKept({}) => OthersKept({})'
    BY <2>1 DEF OthersKept
  <2> QED BY <1>1, <1>3, <2>1, <2>2, <2>3, <2>4 DEF CopiedReadInv
<1>10. DirectReadInv'
  <2> SUFFICES ASSUME call.op \notin ThroughBuffer \cup Writing \cup {"none"}
               PROVE  DirectReadInv'
    BY DEF DirectReadInv
  <2>1. DoneRead /\ OthersKept(SliceSectors) /\ mem' = mem
    BY DEF DirectReadInv
  <2>2. DoneRead'
    BY <1>2, <2>1 DEF DoneRead
  <2>3. ChunkRead'
    BY DEF ChunkRead
  <2>4. OthersKept(SliceSectors)'
    BY <1>2, <2>1 DEF OthersKept
  <2> QED BY <2>1, <2>2, <2>3, <2>4 DEF DirectReadInv
<1> QED BY <1>8, <1>9, <1>10

\* The chunk steps.
LEMMA ChunkStep ==
  ASSUME TypeInv, CallInv, TypeInv', CallInv', [Next]_vars, KeptInv,
         WriteInv, CopiedReadInv, DirectReadInv,
         \/ direct_chunk \/ prp_chunk \/ write_copied_chunk \/ read_copied_chunk
         \/ batched_chunk
  PROVE  WriteInv' /\ CopiedReadInv' /\ DirectReadInv'
<1>1. CASE batched_chunk
  <2>1. /\ pc = "chunk" /\ pc' = "push" /\ i' = 0 /\ call.op \in Batched
        /\ UNCHANGED <<call, at, ns_block, before, disk, app, hidden>>
    BY <1>1 DEF batched_chunk, boundVars
  <2>2. InChunk'
    BY <2>1 DEF InChunk
  <2>3. ASSUME NEW p \in 0..(batch' - 1) PROVE Outstanding(p)'
    <3>1. p >= Min2(i', QLen - 1)
      BY <2>1, PathAssumption DEF Min2
    <3> QED BY <3>1 DEF Outstanding
  <2>4. call.op \in Writing \cap ThroughBuffer <=> call.op = "batched_write"
    BY <2>1 DEF Batched, Writing, ThroughBuffer
  <2>5. IF call.op \in Writing \cap ThroughBuffer
        THEN chunk_len <= BufferSize /\ mem' = Stored(mem, CopyIn(chunk_len))
        ELSE mem' = mem
    BY <1>1, <2>4 DEF batched_chunk
  <2> QED BY <2>1, <2>2, <2>3, <2>5, ChunkStarts
<1>2. CASE direct_chunk \/ prp_chunk \/ write_copied_chunk \/ read_copied_chunk
  <2>1. /\ pc = "chunk" /\ pc' = "wait" /\ batch' = 1 /\ call.op \notin Batched
        /\ cmds' = {Command(chunk_addr, Blocks(chunk_len), Block, prp_list_phys + 8)}
        /\ UNCHANGED <<call, at, ns_block, before, disk, app, hidden>>
    BY <1>2, SingleStep
  <2>2. InChunk' /\ Busy
    BY <2>1 DEF InChunk, Busy
  <2>3. ASSUME NEW p \in 0..(batch' - 1) PROVE Outstanding(p)'
    <3>1. p = 0
      BY <2>1
    <3>2. PICK c : c = Command(chunk_addr, Blocks(chunk_len), Block, prp_list_phys + 8)
      OBVIOUS
    <3>3. c \in cmds' /\ c.prp1 = chunk_addr
      BY <2>1, <3>2 DEF Command
    <3>4. PieceAddr(0) = chunk_addr
      <4>1. chunk_addr \in Nat /\ Blocks(chunk_len) \in Nat /\ spb \in Nat
        BY <2>2, ChunkAddr, ChunkFacts
      <4>2. PieceStart(0) = 0
        BY <2>1, <4>1 DEF PieceStart, PieceSectors, PieceBlocks
      <4> QED BY <4>1, <4>2 DEF PieceAddr, Block
    <3>5. PieceAddr(0)' = PieceAddr(0)
      BY <2>1, Frame
    <3>6. \E d \in cmds' : d.prp1 = PieceAddr(p)'
      BY <3>1, <3>3, <3>4, <3>5
    <3> QED BY <3>6 DEF Outstanding
  <2>4. IF call.op \in Writing \cap ThroughBuffer
        THEN chunk_len <= BufferSize /\ mem' = Stored(mem, CopyIn(chunk_len))
        ELSE mem' = mem
    <3>1. CASE write_copied_chunk
      BY <3>1 DEF write_copied_chunk, Writing, ThroughBuffer, Copied
    <3>2. CASE read_copied_chunk
      BY <3>2 DEF read_copied_chunk, Writing, dataVars
    <3>3. CASE direct_chunk
      BY <3>3 DEF direct_chunk, Direct, ThroughBuffer, Copied, Batched, dataVars
    <3>4. CASE prp_chunk
      BY <3>4 DEF prp_chunk, Prp, ThroughBuffer, Copied, Batched, dataVars
    <3> QED BY <1>2, <3>1, <3>2, <3>3, <3>4
  <2> QED BY <2>1, <2>2, <2>3, <2>4, ChunkStarts
<1> QED BY <1>1, <1>2

\* Every sector of the chunk was in one of the pieces that were waited for.
LEMMA SectorMoved ==
  ASSUME Expressible, TypeInv, CallInv, pc = "wait", NEW s \in Nat, s >= at \div Block,
         s < at \div Block + Sectors(chunk_len)
  PROVE  \E p \in 0..(batch - 1), k \in 0..(PieceSectors - 1) :
           /\ ChunkSector(p, k) /\ SectorOf(p, k) = s
           /\ PieceAddr(p) + k * Block = chunk_addr + (s - at \div Block) * Block
<1> DEFINE A == at \div Block
           L == Sectors(chunk_len)
<1>1. Busy /\ InChunk
  BY DEF Busy, InChunk
<1>2. A \in Nat /\ L \in Nat
  BY <1>1, Geometry
<1>3. s >= A /\ s < A + L
  OBVIOUS
<1> HIDE DEF A, L
<1>4. s - A \in 0..(L - 1) /\ s = A + (s - A)
  BY <1>2, <1>3
<1>5. PICK p \in 0..(batch - 1), k \in 0..(PieceSectors - 1) : s - A = PieceStart(p) + k
  BY <1>4, Covering DEF L
<1>6. p \in Nat /\ k \in Nat
  BY <1>1, PieceTypes
<1>7. SectorOf(p, k) = A + (s - A)
  BY <1>1, <1>5, <1>6, Places DEF A
<1>8. PieceAddr(p) + k * Block = chunk_addr + (s - A) * Block
  BY <1>1, <1>5, <1>6, Places
<1>9. ChunkSector(p, k)
  <2>1. s - A < L
    BY <1>2, <1>3
  <2> QED BY <1>5, <2>1 DEF ChunkSector, L
<1> QED BY <1>4, <1>7, <1>8, <1>9 DEF A

\* When a chunk is done its pieces are, and the call goes on behind it.
LEMMA DoneFrame ==
  ASSUME TypeInv, CallInv, chunk_done
  PROVE  /\ pc = "wait" /\ Busy /\ InChunk /\ ~InChunk' /\ pc # "panicked"
         /\ at' = at + chunk_len /\ Sectors(at') = at \div Block + Sectors(chunk_len)
         /\ UNCHANGED <<mem, disk, call, ns_block, before, hidden>>
         /\ \A s : /\ Source(s)' = Source(s) /\ OldOnDisk(s)' = OldOnDisk(s)
                   /\ NowOnDisk(s)' = NowOnDisk(s) /\ Stale(s)' = Stale(s)
         /\ Span' = Span /\ Covered' = Covered /\ Fits' = Fits /\ SliceSectors' = SliceSectors
         /\ \A p \in 0..(batch - 1) : ~Outstanding(p)
         /\ Failed => hidden
         /\ \A w : OthersKept(w) => OthersKept(w)'
<1>1. /\ pc = "wait" /\ posted = batch /\ ~WaitFails /\ at' = at + chunk_len
      /\ pc' \in {"chunk", "idle"}
      /\ UNCHANGED <<mem, disk, call, ns_block, before, hidden>>
  BY DEF chunk_done, boundVars
<1>2. Busy /\ InChunk /\ ~InChunk' /\ pc # "panicked"
  BY <1>1 DEF Busy, InChunk
<1>3. Sectors(at') = at \div Block + Sectors(chunk_len)
  BY <1>1, <1>2, Geometry
<1>4. \A s : OnDisk(s)' = OnDisk(s)
  BY <1>1 DEF OnDisk, spb
<1>5. \A s : Source(s)' = Source(s)
  BY <1>1 DEF Source
<1>6. \A s : OldOnDisk(s)' = OldOnDisk(s) /\ NowOnDisk(s)' = NowOnDisk(s)
  BY <1>1, <1>4 DEF OldOnDisk, NowOnDisk
<1>7. \A s : Stale(s)' = Stale(s)
  BY <1>1, <1>4 DEF Stale
<1>8. Span' = Span /\ Covered' = Covered /\ Fits' = Fits /\ SliceSectors' = SliceSectors
  BY <1>1 DEF Span, Covered, OnDisk, spb, Blocks, Fits, SliceSectors
<1>9. \A p \in 0..(batch - 1) : ~Outstanding(p)
  <2>1. cmds = {} /\ i = batch /\ batch <= QLen - 1 /\ batch \in Nat /\ QLen \in Nat
    BY <1>1, WaitOver, PathAssumption DEF TypeInv, TypeOK
  <2>2. \A p \in 0..(batch - 1) : ~(p >= Min2(i, QLen - 1))
    BY <2>1 DEF Min2
  <2> QED BY <2>1, <2>2 DEF Outstanding
<1>10. Failed => hidden
  BY <1>1 DEF Failed, WaitFails
<1>11. \A w : OthersKept(w) => OthersKept(w)'
  BY <1>1 DEF OthersKept
<1> QED BY <1>1, <1>2, <1>3, <1>5, <1>6, <1>7, <1>8, <1>9, <1>10, <1>11

\* A chunk of a write that is done is on the disk.
LEMMA DoneWrite ==
  ASSUME Expressible, TypeInv, CallInv, WriteInv, chunk_done, call.op \in Writing
  PROVE  WriteInv'
<1> DEFINE A == at \div Block
           L == Sectors(chunk_len)
<1>1. /\ pc = "wait" /\ Busy /\ InChunk /\ ~InChunk' /\ pc # "panicked"
      /\ at' = at + chunk_len /\ Sectors(at') = A + L
      /\ UNCHANGED <<mem, disk, call, ns_block, before, hidden>>
      /\ Span' = Span /\ Covered' = Covered
      /\ \A p \in 0..(batch - 1) : ~Outstanding(p)
      /\ Failed => hidden
  BY DoneFrame
<1>2. \A s : /\ Source(s)' = Source(s) /\ OldOnDisk(s)' = OldOnDisk(s)
             /\ NowOnDisk(s)' = NowOnDisk(s)
  BY DoneFrame
<1>3. /\ DoneWritten /\ ChunkLoaded /\ ChunkWritten /\ RestKept
      /\ call.op \notin ThroughBuffer => mem = before.mem
  BY <1>1 DEF WriteInv
<1>4. A \in Nat /\ L \in Nat /\ Sectors(at) = A /\ Sectors(at + chunk_len) = A + L
  BY <1>1, Geometry
<1> HIDE DEF A, L
<1>5. DoneWritten'
  <2> SUFFICES ASSUME NEW s \in 0..(A + L - 1)
               PROVE  NowOnDisk(s) = Source(s) \/ (hidden /\ NowOnDisk(s) = OldOnDisk(s))
    BY <1>1, <1>2, <1>4 DEF DoneWritten
  <2>1. CASE s < A
    BY <2>1, <1>3, <1>4 DEF DoneWritten
  <2>2. CASE s >= A
    <3>1. s \in Nat /\ s < A + L
      BY <1>4
    <3>2. PICK p \in 0..(batch - 1), k \in 0..(PieceSectors - 1) :
            ChunkSector(p, k) /\ SectorOf(p, k) = s
      BY <2>2, <3>1, <1>1, SectorMoved DEF A, L
    <3> QED BY <3>2, <1>1, <1>3 DEF ChunkWritten
  <2> QED BY <2>1, <2>2, <1>4
<1>6. RestKept'
  BY <1>1, <1>2, <1>3, <1>4 DEF RestKept
<1> QED BY <1>1, <1>3, <1>5, <1>6 DEF WriteInv

\* A chunk of a read that is done is in the caller's memory.
LEMMA DoneDirectRead ==
  ASSUME Expressible, TypeInv, CallInv, DirectReadInv, chunk_done,
         call.op \notin ThroughBuffer \cup Writing \cup {"none"}
  PROVE  DirectReadInv'
<1> DEFINE A == at \div Block
           L == Sectors(chunk_len)
<1>1. /\ pc = "wait" /\ Busy /\ InChunk /\ ~InChunk' /\ pc # "panicked"
      /\ at' = at + chunk_len /\ Sectors(at') = A + L
      /\ UNCHANGED <<mem, disk, call, ns_block, before, hidden>>
      /\ SliceSectors' = SliceSectors
      /\ \A p \in 0..(batch - 1) : ~Outstanding(p)
      /\ Failed => hidden
  BY DoneFrame
<1>2. \A s : NowOnDisk(s)' = NowOnDisk(s)
  BY DoneFrame
<1>3. DoneRead /\ ChunkRead /\ OthersKept(SliceSectors)
  BY <1>1 DEF DirectReadInv
<1>4. A \in Nat /\ L \in Nat /\ Sectors(at) = A /\ at = A * 512
  BY <1>1, Geometry DEF Block
<1>5. ~Failed
  BY <1>1 DEF CallInv, ThroughBuffer
<1>6. chunk_addr = call.base + A * 512 /\ call.base \in Nat
  BY <1>4 DEF chunk_addr, TypeInv
<1> HIDE DEF A, L
<1>7. DoneRead'
  <2> SUFFICES ASSUME NEW s \in 0..(A + L - 1)
               PROVE  Value(mem, "mem", call.base + s * Block) = NowOnDisk(s)
    BY <1>1, <1>2, <1>4 DEF DoneRead
  <2>1. CASE s < A
    BY <2>1, <1>3, <1>4 DEF DoneRead
  <2>2. CASE s >= A
    <3>1. s \in Nat /\ s < A + L
      BY <1>4
    <3>2. PICK p \in 0..(batch - 1), k \in 0..(PieceSectors - 1) :
            /\ SectorOf(p, k) = s
            /\ PieceAddr(p) + k * Block = chunk_addr + (s - A) * Block
      BY <2>2, <3>1, <1>1, SectorMoved DEF A, L
    <3>3. chunk_addr + (s - A) * Block = call.base + s * Block
      BY <1>4, <1>6, <3>1 DEF Block
    <3> QED BY <3>2, <3>3, <1>1, <1>3, <1>5 DEF ChunkRead
  <2> QED BY <2>1, <2>2, <1>4
<1>8. OthersKept(SliceSectors)'
  <2>1. PICK w : w = SliceSectors
    OBVIOUS
  <2>2. OthersKept(w)'
    BY <2>1, <1>3, DoneFrame
  <2> QED BY <2>1, <2>2, <1>1 DEF OthersKept
<1> QED BY <1>1, <1>7, <1>8 DEF DirectReadInv

\* What the buffer may hold for a sector, it may hold a buffer's length later.
LEMMA StaleLater ==
  ASSUME NEW s \in Nat, NEW n \in Nat, n = 4096
  PROVE  NowOnDisk(s) \in Stale(s + n) /\ Stale(s) \subseteq Stale(s + n)
<1> DEFINE first == Value(before.mem, "mem", buffer + (s % 4096) * Block)
           Earlier(t) == {u \in 0..(t - 1) : (t - u) % 4096 = 0}
           old(t) == Value(disk, "disk", OnDisk(t))
<1>1. (s + n) % 4096 = s % 4096
  BY SMT
<1>2. Earlier(s) \subseteq Earlier(s + n)
  BY SMT
<1>3. s \in Earlier(s + n)
  BY SMT
<1>4. /\ Stale(s) = {first} \cup {old(t) : t \in Earlier(s)}
      /\ Stale(s + n) = {first} \cup {old(t) : t \in Earlier(s + n)}
  BY <1>1 DEF Stale
<1>5. NowOnDisk(s) = old(s)
  BY DEF NowOnDisk
<1> HIDE DEF first, Earlier, old
<1> QED BY <1>2, <1>3, <1>4, <1>5

\* Only a batch has a second chunk in the buffer, and its chunks fill 4096 sectors.
LEMMA SecondChunk ==
  ASSUME Expressible, TypeInv, CallInv, Busy, call.op \in ThroughBuffer,
         at + chunk_len < call.len
  PROVE  /\ call.op \in Batched /\ Sectors(chunk_len) = 4096
         /\ (at + chunk_len) \div Block = at \div Block + 4096
<1>1. chunk_len = chunk_size(call.op) /\ at = (at \div Block) * Block /\ at \div Block \in Nat
  BY Geometry
<1>2. call.op \in Batched
  <2> SUFFICES ASSUME call.op \in Copied PROVE FALSE
    BY DEF ThroughBuffer
  <2>1. call.op \notin Direct \cup Batched
    BY DEF Copied, Direct, Batched
  <2>3. chunk_len \in Chunks(call.op, call.len) /\ chunk_len \in Nat
    BY InChunks, ChunkFacts
  <2>4. chunk_len <= 2 * Page
    <3>1. chunk_len <= Page \/ chunk_len <= 2 * Page
      BY <2>3, Zenon DEF Expressible
    <3> QED BY <2>3, <3>1, SMT DEF Page
  <2>5. chunk_len = 128 * Page
    BY <1>1, <2>1 DEF chunk_size
  <2> QED BY <2>4, <2>5, SMT DEF Page
<1>3. chunk_len = 512 * 4096
  BY <1>1, <1>2, SMT DEF chunk_size, Batched, Direct, Page
<1>4. Sectors(chunk_len) = 4096
  BY <1>3, SMT DEF Sectors, Block
<1> DEFINE A == at \div Block
<1>5. A \in Nat /\ at = A * 512
  BY <1>1 DEF Block
<1> HIDE DEF A
<1>6. (at + chunk_len) \div 512 = A + 4096
  BY <1>3, <1>5, SMT
<1> QED BY <1>2, <1>4, <1>6 DEF A, Block

\* A chunk of a read through the buffer that is done is in the caller's slice.
LEMMA DoneCopiedRead ==
  ASSUME Expressible, TypeInv, CallInv, CopiedReadInv, chunk_done,
         call.op \in ThroughBuffer \ Writing
  PROVE  CopiedReadInv'
<1> DEFINE A == at \div Block
           L == Sectors(chunk_len)
<1>1. /\ pc = "wait" /\ Busy /\ InChunk /\ ~InChunk' /\ pc # "panicked"
      /\ at' = at + chunk_len /\ Sectors(at') = A + L
      /\ mem' = mem /\ disk' = disk /\ call' = call /\ before' = before /\ hidden' = hidden
      /\ Span' = Span /\ Fits' = Fits
      /\ \A p \in 0..(batch - 1) : ~Outstanding(p)
      /\ Failed => hidden
  BY DoneFrame
<1>2. \A s : NowOnDisk(s)' = NowOnDisk(s) /\ Stale(s)' = Stale(s)
  BY DoneFrame
<1>3. /\ DoneCopied /\ ChunkFetched
      /\ at > 0 => Fits
      /\ Fits => OthersKept({})
  BY <1>1 DEF CopiedReadInv
<1>4. /\ A \in Nat /\ L \in Nat /\ Sectors(at) = A
      /\ A + L <= Sectors(call.len) /\ Sectors(call.len) \in Nat
  BY <1>1, Geometry
<1>5. chunk_addr = buffer /\ Reading /\ call.op # "none"
  BY DEF chunk_addr, Reading, ThroughBuffer, Copied, Batched, Writing
<1>6. chunk_len <= BufferSize /\ app' = Stored(app, CopyOut(chunk_len))
  <2>1. ~(Reading /\ chunk_len > BufferSize)
    BY DEF chunk_done, WaitFails
  <2>2. chunk_len \in Nat /\ BufferSize \in Nat
    BY <1>1, ChunkFacts, PathAssumption
  <2> QED BY <1>5, <2>1, <2>2 DEF chunk_done
<1> DEFINE copied(s) == Value(mem, "mem", buffer + (s - A) * Block)
           C == A..(A + L - 1)
<1>7. CopyOut(chunk_len) = [s \in C |-> copied(s)]
  BY DEF CopyOut
<1>8. /\ DOMAIN app' = C \cup DOMAIN app
      /\ \A s \in C : Value(app', "app", s) = copied(s)
      /\ \A s : s \notin C => Value(app', "app", s) = Value(app, "app", s)
  <2> HIDE DEF C, copied
  <2> QED BY <1>6, <1>7 DEF Stored, Value
<1> HIDE DEF A, L
<1>9. ASSUME NEW s \in C
      PROVE  copied(s) = NowOnDisk(s) \/ (hidden /\ copied(s) \in Stale(s))
  <2>1. s \in Nat /\ s >= A /\ s < A + L
    BY <1>4
  <2>2. PICK p \in 0..(batch - 1), k \in 0..(PieceSectors - 1) :
          /\ ChunkSector(p, k) /\ SectorOf(p, k) = s
          /\ PieceAddr(p) + k * Block = buffer + (s - A) * Block
    BY <2>1, <1>1, <1>5, SectorMoved DEF A, L
  <2> QED BY <2>2, <1>1, <1>3 DEF ChunkFetched
<1>10. DoneCopied'
  <2> SUFFICES ASSUME NEW s \in 0..(A + L - 1)
               PROVE  Value(app', "app", s) = NowOnDisk(s)
                      \/ (hidden /\ Value(app', "app", s) \in Stale(s))
    BY <1>1, <1>2, <1>4 DEF DoneCopied
  <2>1. CASE s < A
    <3>1. s \notin C /\ s \in 0..(A - 1)
      BY <2>1, <1>4
    <3> QED BY <3>1, <1>3, <1>4, <1>8 DEF DoneCopied
  <2>2. CASE s >= A
    <3>1. s \in C
      BY <2>2, <1>4
    <3> QED BY <3>1, <1>8, <1>9
  <2> QED BY <2>1, <2>2, <1>4
<1>12. Fits
  <2>1. CASE at > 0
    BY <2>1, <1>3
  <2>2. CASE at = 0
    <3>1. call.len \in Nat /\ chunk_size(call.op) \in Nat
      BY ChunkSizes DEF TypeInv
    <3>2. chunk_len = Min2(chunk_size(call.op), call.len)
      BY <2>2, <3>1 DEF chunk_len
    <3> QED BY <1>6, <3>2 DEF Fits
  <2> QED BY <2>1, <2>2, <1>1, ChunkFacts
<1>13. OthersKept({})'
  BY <1>3, <1>12, DoneFrame
<1>14. ASSUME pc' = "chunk" PROVE BufferStale'
  <2>1. at + chunk_len < call.len
    BY <1>1, <1>14 DEF chunk_done
  <2>2. L = 4096 /\ (at + chunk_len) \div Block = A + L /\ call.op \in Batched
    BY <1>1, <2>1, SecondChunk DEF A, L
  <2>3. \A j \in 0..(L - 1) : copied(A + j) = Value(mem, "mem", buffer + j * Block)
    <3> SUFFICES ASSUME NEW j \in 0..(L - 1)
                 PROVE  copied(A + j) = Value(mem, "mem", buffer + j * Block)
      OBVIOUS
    <3>1. (A + j) - A = j
      BY <1>4
    <3> QED BY <3>1
  <2>4. ASSUME NEW j \in 0..(L - 1)
        PROVE  Value(mem, "mem", buffer + j * Block) \in Stale(A + L + j)
    <3>1. A + j \in C /\ A + j \in Nat /\ A + L + j = (A + j) + L
      BY <1>4
    <3>2. NowOnDisk(A + j) \in Stale((A + j) + L) /\ Stale(A + j) \subseteq Stale((A + j) + L)
      BY <1>4, <2>2, <3>1, StaleLater
    <3> HIDE DEF copied, C
    <3>3. copied(A + j) = NowOnDisk(A + j) \/ copied(A + j) \in Stale(A + j)
      BY <1>9, <3>1
    <3>4. copied(A + j) \in Stale(A + L + j)
      BY <3>1, <3>2, <3>3
    <3> QED BY <2>3, <3>4
  <2>5. Sectors(chunk_len)' <= L /\ Sectors(chunk_len)' \in Int
    <3>1. chunk_len' = Min2(chunk_size(call.op), call.len - at')
      BY <1>1 DEF chunk_len
    <3>2. /\ chunk_size(call.op) \in Nat /\ chunk_size(call.op) <= 512 * 4096
          /\ call.len \in Nat /\ at' \in Nat
      BY <1>1, ChunkSizes, ChunkFacts DEF TypeInv
    <3>3. chunk_len' \in Nat /\ chunk_len' <= 512 * 4096
      BY <1>1, <2>1, <3>1, <3>2 DEF Min2
    <3>4. Sectors(chunk_len') \in Nat /\ Sectors(chunk_len') <= 4096
      BY <3>3, SectorBound
    <3> QED BY <2>2, <3>4 DEF Sectors
  <2>6. (at \div Block)' = A + L
    BY <1>1, <2>2
  <2> SUFFICES ASSUME NEW j \in 0..(Sectors(chunk_len)' - 1)
               PROVE  Value(mem, "mem", buffer + j * Block) \in Stale(A + L + j)
    BY <1>1, <1>2, <2>6 DEF BufferStale
  <2> QED BY <1>4, <2>4, <2>5
<1> QED
  BY <1>1, <1>10, <1>12, <1>13, <1>14 DEF CopiedReadInv

(***************************************************************************)
(* What no call changes, however wrong its PRP entries are.                *)
(***************************************************************************)
\* A command writes only to blocks of the call.
LEMMA WrittenCovered ==
  ASSUME TypeInv, CallInv, CommandInv, NEW c \in cmds
  PROVE  DOMAIN Written(c) \subseteq Covered
<1> DEFINE n == Blocks(call.len)
<1>1. Busy /\ InChunk
  BY DEF CommandInv, InChunk, Busy
<1>2. /\ spb \in {1, 8} /\ call.lba \in Nat /\ c.lba \in Nat /\ call.lba <= c.lba
      /\ c.lba + c.blocks <= call.lba + n /\ c.blocks \in Nat
  BY <1>1, ChunkFacts, PieceTypes DEF CommandInv, TypeInv
<1>3. n \in Nat
  <2>1. 0 \in 0..batch
    BY <1>1, PieceTypes
  <2> QED BY <1>1, <2>1, BlocksWithin
<1>4. DOMAIN Written(c) = (c.lba * spb)..(c.lba * spb + c.blocks * spb - 1)
  BY DEF Written, FirstOnDisk, Length
<1>5. Covered = {OnDisk(s) : s \in 0..(n * spb - 1)}
  BY DEF Covered
<1> HIDE DEF n
<1>6. ASSUME NEW b \in (c.lba * spb)..(c.lba * spb + c.blocks * spb - 1)
      PROVE  b - call.lba * spb \in 0..(n * spb - 1) /\ b = call.lba * spb + (b - call.lba * spb)
  <2>1. CASE spb = 1
    BY <1>2, <1>3, <1>6, <2>1
  <2>2. CASE spb = 8
    BY <1>2, <1>3, <1>6, <2>2
  <2> QED BY <1>2, <2>1, <2>2
<1> QED BY <1>4, <1>5, <1>6 DEF OnDisk

\* A chunk is copied only into the caller's slice.
LEMMA CopyOutSpan ==
  ASSUME TypeInv, CallInv, Busy PROVE DOMAIN CopyOut(chunk_len) \subseteq Span
<1> DEFINE A == at \div Block
           L == Sectors(chunk_len)
<1>1. A \in Nat /\ L \in Nat /\ A + L <= Sectors(call.len) /\ Sectors(call.len) \in Nat
  BY Geometry
<1>2. DOMAIN CopyOut(chunk_len) = A..(A + L - 1)
  BY DEF CopyOut
<1> HIDE DEF A, L
<1> QED BY <1>1, <1>2 DEF Span

\* What a store holds where nothing new is stored.
LEMMA StoredElsewhere ==
  ASSUME NEW f, NEW g, NEW x \in DOMAIN Stored(f, g), x \notin DOMAIN g
  PROVE  x \in DOMAIN f /\ Stored(f, g)[x] = f[x]
BY DEF Stored

\* Once begun, a call stays the same until the next.
LEMMA CallKept ==
  ASSUME DriverStep \/ DeviceStep \/ UNCHANGED vars
  PROVE  UNCHANGED <<call, ns_block, before>>
<1> USE DEF callVars, boundVars
<1>1. CASE DriverStep
  BY <1>1
  DEF DriverStep, direct_chunk, prp_chunk, write_copied_chunk, read_copied_chunk,
      namespace_io, batched_chunk, chunk_panics, push, push_full, push_panics, push_done,
      chunk_done, wait_panics, panic
<1>2. CASE DeviceStep
  BY <1>2 DEF DeviceStep, device_execute, device_refuse
<1>3. CASE UNCHANGED vars
  BY <1>3 DEF vars
<1> QED BY <1>1, <1>2, <1>3

\* Every step keeps what no call changes.
LEMMA KeptStep ==
  ASSUME TypeInv, CallInv, CommandInv, KeptInv, [Next]_vars
  PROVE  KeptInv'
<1> USE DEF dataVars
<1>1. ASSUME NEW op \in DOMAIN Slices, NEW s \in Slices[op], NEW b \in Lbas,
             NEW k \in IF op \in Batched THEN BatchLens ELSE {1}, begin(op, s, b, k)
      PROVE  KeptInv'
  <2>1. /\ before'.mem = mem' /\ before'.disk = disk' /\ before'.app = app'
    BY <1>1 DEF begin
  <2>2. OutsideKept' /\ OthersKept({})' /\ RestOfApp'
    BY <2>1 DEF OutsideKept, OthersKept, RestOfApp, Value
  <2> QED BY <2>1, <2>2 DEF KeptInv
<1>2. ASSUME DriverStep \/ DeviceStep \/ UNCHANGED vars,
             disk' = disk, app' = app, call.op \in Writing => OthersKept({})'
      PROVE  KeptInv'
  <2>1. UNCHANGED <<call, ns_block, before>> /\ Covered' = Covered /\ Span' = Span
    BY <1>2, CallKept, SameCall
  <2>2. (OutsideKept => OutsideKept') /\ (RestOfApp => RestOfApp')
    BY <1>2, <2>1 DEF OutsideKept, RestOfApp
  <2> QED BY <1>2, <2>1, <2>2 DEF KeptInv
<1>3. ASSUME DriverStep \/ DeviceStep \/ UNCHANGED vars, UNCHANGED dataVars PROVE KeptInv'
  <2>1. OthersKept({}) => OthersKept({})'
    BY <1>3, CallKept DEF OthersKept
  <2> QED BY <1>2, <1>3, <2>1 DEF KeptInv
<1>4. ASSUME DriverStep, pc = "chunk", call.op \in ThroughBuffer, chunk_len <= BufferSize,
             mem' = Stored(mem, CopyIn(chunk_len)), disk' = disk, app' = app
      PROVE  KeptInv'
  <2>1. OthersKept({}) => OthersKept({})'
    BY <1>4, CallKept, CopyKeeps DEF Busy
  <2> QED BY <1>2, <1>4, <2>1 DEF KeptInv
<1>5. CASE direct_chunk \/ prp_chunk \/ read_copied_chunk
  BY <1>3, <1>5 DEF direct_chunk, prp_chunk, read_copied_chunk, DriverStep
<1>6. CASE write_copied_chunk
  BY <1>4, <1>6 DEF write_copied_chunk, DriverStep, ThroughBuffer, Copied
<1>7. CASE batched_chunk
  <2>1. CASE call.op = "batched_write"
    BY <1>4, <1>7, <2>1 DEF batched_chunk, DriverStep, ThroughBuffer
  <2>2. CASE call.op # "batched_write"
    BY <1>3, <1>7, <2>2 DEF batched_chunk, DriverStep
  <2> QED BY <2>1, <2>2
<1>8. CASE push \/ push_full \/ push_done \/ chunk_panics \/ push_panics \/ wait_panics
  BY <1>3, <1>8
  DEF push, push_full, push_done, chunk_panics, push_panics, wait_panics, panic, DriverStep
<1>9. CASE chunk_done
  <2>1. DriverStep /\ mem' = mem /\ disk' = disk /\ pc = "wait" /\ Busy
    BY <1>9 DEF chunk_done, DriverStep, Busy
  <2>2. CASE ~Reading
    BY <1>3, <1>9, <2>1, <2>2 DEF chunk_done
  <2>3. CASE Reading
    <3>1. /\ UNCHANGED <<call, ns_block, before>> /\ Span' = Span
          /\ app' = Stored(app, CopyOut(chunk_len))
      BY <1>9, <2>1, <2>3, CallKept, SameCall DEF chunk_done
    <3>2. call.op \in ThroughBuffer \ Writing
      BY <2>3 DEF Reading, ThroughBuffer, Copied, Batched, Writing
    <3>3. DOMAIN CopyOut(chunk_len) \subseteq Span
      BY <2>1, CopyOutSpan
    <3>4. RestOfApp => RestOfApp'
      BY <3>1, <3>3, StoredElsewhere DEF RestOfApp
    <3> QED BY <2>1, <3>1, <3>2, <3>4 DEF KeptInv
  <2> QED BY <2>2, <2>3
<1>10. ASSUME NEW c \in cmds, device_refuse(c) PROVE KeptInv'
  BY <1>3, <1>10 DEF device_refuse, DeviceStep
<1>11. ASSUME NEW c \in cmds, device_execute(c) PROVE KeptInv'
  <2>1. DeviceStep /\ app' = app /\ c.write = (call.op \in Writing)
    BY <1>11 DEF device_execute, DeviceStep, CommandInv
  <2>2. CASE call.op \notin Writing
    <3>1. disk' = disk
      BY <1>11, <2>1, <2>2 DEF device_execute
    <3> QED BY <1>2, <2>1, <2>2, <3>1
  <2>3. CASE call.op \in Writing
    <3>1. /\ UNCHANGED <<call, ns_block, before>> /\ Covered' = Covered
          /\ mem' = mem /\ disk' = Stored(disk, Written(c))
      BY <1>11, <2>1, <2>3, CallKept, SameCall DEF device_execute
    <3>2. DOMAIN Written(c) \subseteq Covered
      BY WrittenCovered
    <3>3. OutsideKept => OutsideKept'
      BY <3>1, <3>2, StoredElsewhere DEF OutsideKept
    <3>4. OthersKept({}) => OthersKept({})'
      BY <3>1 DEF OthersKept
    <3> QED BY <2>1, <2>3, <3>1, <3>3, <3>4 DEF KeptInv
  <2> QED BY <2>2, <2>3
<1>12. CASE UNCHANGED vars
  BY <1>3, <1>12 DEF vars
<1> QED
  BY <1>1, <1>5, <1>6, <1>7, <1>8, <1>9, <1>10, <1>11, <1>12
  DEF Next, Call, DriverStep, DeviceStep
-----------------------------------------------------------------------------
(***************************************************************************)
(* The invariant.                                                          *)
(***************************************************************************)
\* Nothing is known of the data before the first call.
LEMMA InvInit == Init => IndInv
<1> SUFFICES ASSUME Init PROVE IndInv
  OBVIOUS
<1>1. TypeInv
  BY TypeInit
<1>2. pc = "idle" /\ call.op = "none" /\ cmds = {} /\ hidden = FALSE
  BY DEF Init, NoCall
<1>3. "none" \notin Writing /\ "none" \notin ThroughBuffer
  BY DEF Writing, ThroughBuffer, Copied, Batched
<1>4. CallInv
  BY <1>2 DEF CallInv, Busy, InChunk
<1>5. CommandInv
  BY <1>2 DEF CommandInv
<1>6. WriteInv /\ CopiedReadInv /\ DirectReadInv
  BY <1>2, <1>3 DEF WriteInv, CopiedReadInv, DirectReadInv
<1>7. KeptInv
  BY <1>2, <1>3 DEF KeptInv
<1> QED BY <1>1, <1>4, <1>5, <1>6, <1>7 DEF IndInv

\* What is known of the data after a command has been executed.
LEMMA ExecuteStep ==
  ASSUME Expressible, TypeInv, CallInv, CommandInv, WriteInv, CopiedReadInv, DirectReadInv,
         NEW c \in cmds, device_execute(c)
  PROVE  WriteInv' /\ CopiedReadInv' /\ DirectReadInv'
<1>1. call' = call
  BY DEF device_execute, callVars
<1>2. WriteInv'
  <2>1. CASE call.op \in Writing
    BY <2>1, ExecuteWrite
  <2>2. CASE call.op \notin Writing
    BY <1>1, <2>2 DEF WriteInv
  <2> QED BY <2>1, <2>2
<1>3. CopiedReadInv'
  <2>1. CASE call.op \in ThroughBuffer \ Writing
    BY <2>1, ExecuteCopiedRead
  <2>2. CASE call.op \notin ThroughBuffer \ Writing
    BY <1>1, <2>2 DEF CopiedReadInv
  <2> QED BY <2>1, <2>2
<1>4. DirectReadInv'
  <2>1. CASE call.op \notin ThroughBuffer \cup Writing \cup {"none"}
    BY <2>1, ExecuteDirectRead
  <2>2. CASE call.op \in ThroughBuffer \cup Writing \cup {"none"}
    BY <1>1, <2>2 DEF DirectReadInv
  <2> QED BY <2>1, <2>2
<1> QED BY <1>2, <1>3, <1>4

\* What is known of the data after a chunk.
LEMMA DoneStep ==
  ASSUME Expressible, TypeInv, CallInv, WriteInv, CopiedReadInv, DirectReadInv, chunk_done
  PROVE  WriteInv' /\ CopiedReadInv' /\ DirectReadInv'
<1>1. call' = call
  BY DEF chunk_done
<1>2. WriteInv'
  <2>1. CASE call.op \in Writing
    BY <2>1, DoneWrite
  <2>2. CASE call.op \notin Writing
    BY <1>1, <2>2 DEF WriteInv
  <2> QED BY <2>1, <2>2
<1>3. CopiedReadInv'
  <2>1. CASE call.op \in ThroughBuffer \ Writing
    BY <2>1, DoneCopiedRead
  <2>2. CASE call.op \notin ThroughBuffer \ Writing
    BY <1>1, <2>2 DEF CopiedReadInv
  <2> QED BY <2>1, <2>2
<1>4. DirectReadInv'
  <2>1. CASE call.op \notin ThroughBuffer \cup Writing \cup {"none"}
    BY <2>1, DoneDirectRead
  <2>2. CASE call.op \in ThroughBuffer \cup Writing \cup {"none"}
    BY <1>1, <2>2 DEF DirectReadInv
  <2> QED BY <2>1, <2>2
<1> QED BY <1>2, <1>3, <1>4

\* Every step keeps what is known of the data, if the call is expressible.
LEMMA DataStep ==
  ASSUME IndInv, TypeInv', CallInv', [Next]_vars, Expressible'
  PROVE  WriteInv' /\ CopiedReadInv' /\ DirectReadInv'
<1> USE DEF IndInv
<1>1. CASE Call
  <2>1. PICK op \in DOMAIN Slices : \E s \in Slices[op], b \in Lbas :
          \E k \in IF op \in Batched THEN BatchLens ELSE {1} : begin(op, s, b, k)
    BY <1>1 DEF Call
  <2> QED BY <2>1, BeginStep
<1>2. CASE DriverStep \/ DeviceStep \/ UNCHANGED vars
  <2>1. Expressible /\ WriteInv /\ CopiedReadInv /\ DirectReadInv
    BY <1>2, CallKept, SameCall
  <2>2. ASSUME direct_chunk \/ prp_chunk \/ write_copied_chunk \/ read_copied_chunk
               \/ batched_chunk
        PROVE  WriteInv' /\ CopiedReadInv' /\ DirectReadInv'
    BY <2>1, <2>2, ChunkStep
  <2>3. ASSUME chunk_panics \/ push_panics \/ wait_panics
        PROVE  WriteInv' /\ CopiedReadInv' /\ DirectReadInv'
    BY <2>3, PanicStep DEF panic, WriteInv, CopiedReadInv, DirectReadInv
  <2>4. ASSUME \/ push \/ push_full \/ push_done \/ UNCHANGED vars
               \/ \E c \in cmds : device_refuse(c)
        PROVE  WriteInv' /\ CopiedReadInv' /\ DirectReadInv'
    BY <2>1, <2>4, QuietStep
  <2>5. ASSUME chunk_done PROVE WriteInv' /\ CopiedReadInv' /\ DirectReadInv'
    BY <2>1, <2>5, DoneStep
  <2>6. ASSUME NEW c \in cmds, device_execute(c)
        PROVE  WriteInv' /\ CopiedReadInv' /\ DirectReadInv'
    BY <2>1, <2>6, ExecuteStep
  <2> QED BY <1>2, <2>2, <2>3, <2>4, <2>5, <2>6 DEF DriverStep, DeviceStep
<1> QED BY <1>1, <1>2 DEF Next

\* Every step keeps the invariant.
LEMMA InvStep == ASSUME IndInv, [Next]_vars PROVE IndInv'
<1>1. TypeInv' /\ CallInv' /\ CommandInv' /\ KeptInv'
  BY TypeStep, CallStep, CommandStep, KeptStep DEF IndInv
<1>2. Expressible' => WriteInv' /\ CopiedReadInv' /\ DirectReadInv'
  BY <1>1, DataStep
<1> QED BY <1>1, <1>2 DEF IndInv

\* The invariant of the transfers holds: no command of any call leaves the
\* blocks of the call.  Where write, read, write_prp, the copied and the batched
\* operations compute PRP entries that express the chunks, every command on the
\* queue is for one piece of the chunk and reaches its memory, and the sectors on
\* the disk, in memory and in the caller's slice are those that the chunks done
\* and the pieces executed account for.
THEOREM Invariance == Spec => []IndInv
<1>1. IndInv /\ [Next]_vars => IndInv'
  BY InvStep
<1> QED BY <1>1, InvInit, PTL DEF Spec

\* A call that has returned has moved its whole slice.
LEMMA CallOver ==
  ASSUME TypeInv, CallInv, pc = "idle", call.op # "none"
  PROVE  at = call.len /\ at > 0 /\ ~InChunk /\ Span = 0..(Sectors(at) - 1)
<1>1. call.op \in DOMAIN Slices
  BY DEF TypeInv, TypeOK
<1>2. PICK s \in Slices[call.op] : s.len = call.len
  BY DEF CallInv
<1>3. call.len \in Nat \ {0}
  BY <1>1, <1>2, SliceAssumption
<1> QED BY <1>3 DEF CallInv, InChunk, Span

\* write, write_prp, write_copied and batched_write never change the disk outside
\* their blocks, memory other than the buffer or the caller's slice.  If they
\* return, and the PRP entries that namespace_io and submit_io compute express
\* the call, they have put the caller's sectors onto the disk, in order, for
\* every length, first block, block size, batch and order in which the controller
\* executes the commands, and whatever calls came before.
THEOREM WritesAreExact == Spec => []WritesExact
<1>1. ASSUME IndInv PROVE WritesExact
  <2>1. call.op \in Writing => OutsideKept /\ OthersKept({}) /\ app = before.app
    BY <1>1 DEF IndInv, KeptInv
  <2>2. ASSUME Returned(Writing), Expressible PROVE SliceOnDisk
    <3>1. pc = "idle" /\ call.op \in Writing /\ call.op # "none"
      BY <2>2 DEF Returned, Writing
    <3>2. Span = 0..(Sectors(at) - 1)
      BY <1>1, <3>1, CallOver DEF IndInv
    <3>3. DoneWritten
      BY <1>1, <2>2, <3>1 DEF IndInv, WriteInv
    <3> QED BY <3>2, <3>3 DEF SliceOnDisk, DoneWritten, NowOnDisk, OldOnDisk
  <2> QED BY <2>1, <2>2 DEF WritesExact, OutsideKept
<1> QED BY <1>1, Invariance, PTL

\* read, write_prp for reading, read_copied and batched_read never change the
\* disk, or the caller's bytes outside the slice.  If they return, and the PRP
\* entries express the call, they have filled the slice from the disk, in order,
\* and changed nobody else's memory; where a failed command of a batch was
\* overlooked, a sector has what the buffer held.
THEOREM ReadsAreExact == Spec => []ReadsExact
<1>1. ASSUME IndInv PROVE ReadsExact
  <2>1. call.op \notin Writing \cup {"none"} =>
          /\ disk = before.disk
          /\ IF call.op \in ThroughBuffer
             THEN \A s \in DOMAIN app \ Span : app[s] = Value(before.app, "app", s)
             ELSE app = before.app
    BY <1>1 DEF IndInv, KeptInv, RestOfApp
  <2>2. ASSUME Returned({"read", "prp_read"}), Expressible
        PROVE  /\ \A s \in Span :
                    Value(mem, "mem", call.base + s * Block) = Value(disk, "disk", OnDisk(s))
               /\ OthersKept({call.base + s * Block : s \in Span})
    <3>1. pc = "idle" /\ call.op \notin ThroughBuffer \cup Writing \cup {"none"}
      BY <2>2 DEF Returned, Writing, ThroughBuffer, Copied, Batched
    <3>2. Span = 0..(Sectors(at) - 1)
      BY <1>1, <3>1, CallOver DEF IndInv
    <3>3. DoneRead /\ OthersKept({call.base + s * Block : s \in Span})
      BY <1>1, <2>2, <3>1 DEF IndInv, DirectReadInv, SliceSectors
    <3> QED BY <3>2, <3>3 DEF DoneRead, NowOnDisk
  <2>3. ASSUME Returned({"read_copied", "batched_read"}), Expressible
        PROVE  /\ \A s \in Span :
                    \/ Value(app, "app", s) = Value(disk, "disk", OnDisk(s))
                    \/ hidden /\ Value(app, "app", s) \in Stale(s)
               /\ OthersKept({})
    <3>1. pc = "idle" /\ call.op \in ThroughBuffer \ Writing /\ call.op # "none"
      BY <2>3 DEF Returned, Writing, ThroughBuffer, Copied, Batched
    <3>2. Span = 0..(Sectors(at) - 1) /\ at > 0
      BY <1>1, <3>1, CallOver DEF IndInv
    <3>3. DoneCopied /\ OthersKept({})
      BY <1>1, <2>3, <3>1, <3>2 DEF IndInv, CopiedReadInv
    <3> QED BY <3>2, <3>3 DEF DoneCopied, NowOnDisk
  <2> QED BY <2>1, <2>2, <2>3 DEF ReadsExact
<1> QED BY <1>1, Invariance, PTL
=============================================================================
