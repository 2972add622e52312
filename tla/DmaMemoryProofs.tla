--------------------------- MODULE DmaMemoryProofs ---------------------------
(***************************************************************************)
(* The safety properties of DmaMemory, and its refinement of RegionPool,   *)
(* for every address space, every set of page sizes and every sequence of  *)
(* allocations, as long as the page size is not enlarged while memory is   *)
(* held.                                                                   *)
(***************************************************************************)
EXTENDS DmaMemory, TLAPS

\* The types, with those of the memory the callers hold.
TypeInv ==
  /\ TypeOK
  /\ dmas \subseteq [id : 1..MaxAllocs, virt : Addr, size : Nat \ {0}]

\* Every held region is its own: whole pages of the current size (deallocate
\* rounds up to it), a number of its own, and intact.  The DMA windows are
\* those of the held regions.
HeldInv ==
  /\ \A d \in dmas : d.id <= last /\ d.size % page_size = 0
  /\ \A d, e \in dmas : d.id = e.id => d = e
  /\ HeldMemoryIntact
  /\ \A a \in iommu : \E d \in dmas : a \in Span(d.virt, d.size)
  /\ backend = "physical" => iommu = {}

\* The inductive invariant of the specification without GrowWhileHeld.
IndInv == TypeInv /\ HeldInv
-----------------------------------------------------------------------------
\* Euclidean division of a size by a page size.
LEMMA Division ==
  ASSUME NEW p \in Nat \ {0}, NEW n \in Nat
  PROVE  /\ n \div p \in Nat /\ n % p \in 0..(p - 1)
         /\ n = p * (n \div p) + (n % p)
BY Z3

\* A multiple of a page size leaves no remainder.
LEMMA Multiple ==
  ASSUME NEW p \in Nat \ {0}, NEW k \in Nat
  PROVE  (p * k) % p = 0
<1> DEFINE q == (p * k) \div p
           r == (p * k) % p
<1>1. p * k \in Nat
  OBVIOUS
<1>2. q \in Nat /\ r \in 0..(p - 1) /\ p * k = p * q + r
  BY <1>1, Division
<1> HIDE DEF q, r
<1>3. p * (k - q) = r
  BY <1>2
<1>4. ~(k - q >= 1)
  <2> SUFFICES ASSUME k - q >= 1 PROVE FALSE
    OBVIOUS
  <2>1. p * (k - q) >= p
    BY <1>2
  <2> QED BY <2>1, <1>2, <1>3
<1>5. ~(k - q <= -1)
  <2> SUFFICES ASSUME k - q <= -1 PROVE FALSE
    OBVIOUS
  <2>1. p * (k - q) <= -p
    BY <1>2
  <2> QED BY <2>1, <1>2, <1>3
<1>6. k - q = 0
  BY <1>2, <1>4, <1>5
<1>7. r = 0
  BY <1>2, <1>3, <1>6
<1> QED BY <1>7 DEF r

\* What is made of whole pages is made of whole smaller pages.
LEMMA WholePages ==
  ASSUME NEW n \in Nat, NEW q \in PageSizes, NEW p \in PageSizes, p <= q, n % q = 0
  PROVE  n % p = 0
<1> DEFINE i == n \div q
           j == q \div p
<1>1. p \in Nat \ {0} /\ q \in Nat \ {0} /\ q % p = 0
  BY MemoryAssumption
<1>2. i \in Nat /\ n = q * i
  <2>1. n \div q \in Nat /\ n = q * (n \div q) + (n % q)
    BY <1>1, Division
  <2> QED BY <1>1, <2>1
<1>3. j \in Nat /\ q = p * j
  BY <1>1, Division
<1> HIDE DEF i, j
<1>4. n = p * (j * i) /\ j * i \in Nat
  BY <1>1, <1>2, <1>3
<1> QED BY <1>1, <1>4, Multiple

\* shift_up returns the next whole number of pages: not less than the size, and
\* less than one page more.
LEMMA ShiftUp ==
  ASSUME NEW p \in PageSizes, NEW n \in Nat
  PROVE  /\ shift_up(p, n) \in Nat /\ shift_up(p, n) % p = 0
         /\ n <= shift_up(p, n) /\ shift_up(p, n) < n + p
<1> DEFINE k == n \div p
           r == n % p
<1>1. p \in Nat \ {0}
  BY MemoryAssumption
<1>2. k \in Nat /\ r \in 0..(p - 1) /\ n = p * k + r
  BY <1>1, Division
<1>3. shift_up(p, n) = IF r = 0 THEN n ELSE (k + 1) * p
  BY DEF shift_up
<1> HIDE DEF k
<1>4. (k + 1) * p = p * k + p /\ (k + 1) * p = p * (k + 1) /\ k + 1 \in Nat
  BY <1>1, <1>2
<1>5. (p * (k + 1)) % p = 0
  BY <1>1, <1>4, Multiple
<1>6. CASE r = 0
  BY <1>1, <1>3, <1>6
<1>7. CASE r # 0
  <2> HIDE DEF r
  <2>1. shift_up(p, n) = p * k + p
    BY <1>3, <1>4, <1>7
  <2>2. p * k \in Nat
    BY <1>1, <1>2
  <2>3. shift_up(p, n) % p = 0
    BY <2>1, <1>4, <1>5
  <2> QED BY <1>1, <1>2, <1>7, <2>1, <2>2, <2>3
<1> QED BY <1>6, <1>7

\* deallocate unmaps the region that was allocated, no more and no less.
LEMMA UnmapLen ==
  ASSUME IndInv, NEW d \in dmas
  PROVE  unmap_len(d) = d.size
BY DEF IndInv, TypeInv, TypeOK, HeldInv, unmap_len, shift_up
-----------------------------------------------------------------------------
(***************************************************************************)
(* What the steps do to the regions, whichever backend takes them.         *)
(***************************************************************************)
\* Addresses in use keep their contents, except those of the given set.
Untouched(except) ==
  \A a \in Addr \ except : host[a].id # 0 => host'[a].id = host[a].id

\* An allocation succeeds: a free range of whole pages gets the next number.
Placed(base, len) ==
  /\ base \in Addr /\ len \in Nat \ {0} /\ len % page_size = 0
  /\ Span(base, len) \subseteq Addr
  /\ \A a \in Span(base, len) : host[a].id = 0 /\ host'[a].id = last + 1
  /\ Untouched({})
  /\ last' = last + 1
  /\ dmas' = dmas \cup {[id |-> last + 1, virt |-> base, size |-> len]}
  /\ iommu' = IF backend = "vfio" THEN iommu \cup Span(base, len) ELSE iommu
  /\ UNCHANGED <<backend, page_size>>

\* An allocation fails: a number is used up, and maybe free addresses.
NotPlaced ==
  /\ Untouched({})
  /\ last' = last + 1
  /\ UNCHANGED <<dmas, iommu, backend, page_size>>

\* A deallocation touches the one region, whether the kernel complains or not.
Released(d) ==
  /\ d \in dmas /\ dmas' = dmas \ {d}
  /\ iommu' = iommu \ Span(d.virt, d.size)
  /\ Untouched(Span(d.virt, d.size))
  /\ UNCHANGED <<last, backend, page_size>>

\* Nothing happens to the regions.
Resized ==
  /\ UNCHANGED <<memVars, last, backend>>
  /\ page_size' \in PageSizes /\ (page_size' <= page_size \/ dmas = {})

\* The sizes that are mapped are whole pages.
LEMMA Length ==
  ASSUME TypeOK, NEW s \in Sizes
  PROVE  LET len == shift_up(page_size, s)
         IN  len \in Nat \ {0} /\ len % page_size = 0
<1>1. s \in Nat \ {0} /\ page_size \in PageSizes
  BY MemoryAssumption DEF TypeOK
<1> QED BY <1>1, ShiftUp

\* allocate_2mib keeps within the range it was given: the aligned part lies in
\* it, and so does the slack on both sides.
LEMMA Aligned ==
  ASSUME TypeOK, NEW len \in Nat, NEW b \in MmapChoices(len + page_size, 1)
  PROVE  LET aligned == shift_up(page_size, b)
         IN  /\ aligned \in Addr \/ len = 0
             /\ Span(aligned, len) \subseteq Span(b, len + page_size)
             /\ Span(b, aligned - b) \subseteq Span(b, len + page_size)
             /\ Span(aligned + len, page_size - (aligned - b)) \subseteq Span(b, len + page_size)
             /\ Span(b, len + page_size) \subseteq Addr
             /\ \A a \in Span(b, len + page_size) : host[a].id = 0
<1>1. b \in Nat /\ page_size \in PageSizes /\ page_size \in Nat \ {0}
  BY MemoryAssumption DEF TypeOK, MmapChoices, Addr
<1>2. /\ Span(b, len + page_size) \subseteq Addr
      /\ \A a \in Span(b, len + page_size) : host[a].id = 0
  BY DEF MmapChoices
<1> DEFINE aligned == shift_up(page_size, b)
<1>3. aligned \in Nat /\ b <= aligned /\ aligned < b + page_size
  BY <1>1, ShiftUp
<1> HIDE DEF aligned
<1>4. /\ Span(aligned, len) \subseteq Span(b, len + page_size)
      /\ Span(b, aligned - b) \subseteq Span(b, len + page_size)
      /\ Span(aligned + len, page_size - (aligned - b)) \subseteq Span(b, len + page_size)
  BY <1>1, <1>3 DEF Span
<1>5. aligned \in Addr \/ len = 0
  <2>1. len # 0 => aligned \in Span(aligned, len)
    BY <1>3 DEF Span
  <2> QED BY <2>1, <1>2, <1>4
<1> QED BY <1>2, <1>4, <1>5 DEF aligned

\* The address spaces.
Spaces == [Addr -> [id : 0..MaxAllocs, page : PageSizes \cup {1}]]

\* Mapping keeps the type of an address space.
LEMMA MappedType ==
  ASSUME NEW space \in Spaces, NEW base, NEW len,
         NEW id \in 0..MaxAllocs, NEW page \in PageSizes \cup {1}
  PROVE  Mapped(space, base, len, id, page) \in Spaces
BY DEF Mapped, Spaces

\* Unmapping keeps the type of an address space.
LEMMA UnmappedType ==
  ASSUME NEW space \in Spaces, NEW base, NEW len
  PROVE  Unmapped(space, base, len) \in Spaces
BY MemoryAssumption DEF Unmapped, Free, Spaces

\* The step of an allocation that maps the DMA window keeps the types.
LEMMA MapDmaType ==
  ASSUME TypeInv, Begin, NEW base, NEW len \in Nat \ {0}, base \in Addr,
         NEW space \in Spaces, Span(base, len) \subseteq Addr,
         map_dma(space, base, len)
  PROVE  TypeInv'
<1>1. last + 1 \in 1..MaxAllocs /\ last' = last + 1
  BY MemoryAssumption DEF Begin, TypeInv, TypeOK
<1>2. [id |-> last + 1, virt |-> base, size |-> len]
        \in [id : 1..MaxAllocs, virt : Addr, size : Nat \ {0}]
  BY <1>1
<1>3. /\ dmas' \subseteq [id : 1..MaxAllocs, virt : Addr, size : Nat \ {0}]
      /\ \A d \in dmas' : d.id \in 1..MaxAllocs /\ Span(d.virt, d.size) \subseteq Addr
  <2>1. dmas' \subseteq dmas \cup {[id |-> last + 1, virt |-> base, size |-> len]}
    BY DEF map_dma
  <2> QED BY <1>1, <1>2, <2>1 DEF TypeInv, TypeOK
<1>4. iommu' \subseteq Addr /\ host' = space /\ files' = files
  BY DEF map_dma, TypeInv, TypeOK
<1>5. refusals' \in 0..MaxRefusals
  <2>1. refusals' = refusals \/ (refusals < MaxRefusals /\ refusals' = refusals + 1)
    BY DEF map_dma, Refuse
  <2> QED BY <2>1, MemoryAssumption DEF TypeInv, TypeOK
<1>6. ret' \in {"ok", "err"} /\ refused' \in BOOLEAN
  BY DEF map_dma, returns
<1> QED BY <1>1, <1>3, <1>4, <1>5, <1>6 DEF Begin, TypeInv, TypeOK, modeVars, Spaces

\* Every step keeps the types.
LEMMA TypeStep ==
  ASSUME TypeInv, [Next]_vars
  PROVE  TypeInv'
<1> USE MemoryAssumption
<1>t. host \in Spaces /\ page_size \in PageSizes \cup {1} /\ TypeOK
  BY DEF TypeInv, TypeOK, Spaces
<1>r. ASSUME Begin, Refuse, returns("err", TRUE), UNCHANGED <<iommu, dmas>>,
             host' \in Spaces, files' \subseteq 1..MaxAllocs
      PROVE  TypeInv'
  <2>1. last' \in 0..MaxAllocs /\ refusals' \in 0..MaxRefusals /\ refused' \in BOOLEAN
    BY <1>r DEF Begin, Refuse, TypeInv, TypeOK, returns
  <2> QED BY <1>r, <2>1 DEF Begin, returns, modeVars, TypeInv, TypeOK, Spaces
<1>1. ASSUME NEW s \in Sizes, vfio_allocate(s) PROVE TypeInv'
  <2> DEFINE len == shift_up(page_size, s)
  <2>1. Begin /\ last + 1 \in 0..MaxAllocs
    BY <1>1 DEF vfio_allocate, Begin, TypeInv, TypeOK
  <2>2. ASSUME NEW b \in MmapChoices(len, page_size),
               map_dma(Mapped(host, b, len, last + 1, page_size), b, len)
        PROVE  TypeInv'
    <3>1. len \in Nat \ {0} /\ b \in Addr /\ Span(b, len) \subseteq Addr
      BY <1>t, <2>2, Length DEF MmapChoices
    <3>2. Mapped(host, b, len, last + 1, page_size) \in Spaces
      BY <1>t, <2>1, MappedType
    <3> QED BY <2>1, <2>2, <3>1, <3>2, MapDmaType
  <2>3. CASE Refuse /\ returns("err", TRUE) /\ UNCHANGED memVars
    BY <1>t, <1>r, <2>1, <2>3 DEF memVars, TypeOK
  <2> QED BY <1>1, <2>2, <2>3 DEF vfio_allocate
<1>2. ASSUME NEW s \in Sizes, vfio_allocate_narrow(s) PROVE TypeInv'
  <2> DEFINE len == shift_up(page_size, s)
  <2>1. Begin /\ last + 1 \in 0..MaxAllocs /\ len \in Nat \ {0} /\ files \subseteq 1..MaxAllocs
    BY <1>t, <1>2, Length DEF vfio_allocate_narrow, Begin, TypeInv, TypeOK
  <2>2. CASE Refuse /\ returns("err", TRUE) /\ UNCHANGED memVars
    BY <1>t, <1>r, <2>1, <2>2 DEF memVars, TypeOK
  <2>3. ASSUME NEW b \in MmapChoices(len + page_size, 1) 
        PROVE  LET aligned == shift_up(page_size, b)
                   slack   == aligned - b
                   all     == Mapped(host, b, len + page_size, last + 1, 1)
                   cut     == Unmapped(all, b, slack)
                   trimmed == Unmapped(cut, aligned + len, page_size - slack)
               IN  /\ all \in Spaces /\ trimmed \in Spaces
                   /\ Mapped(trimmed, aligned, len, last + 1, page_size) \in Spaces
                   /\ aligned \in Addr /\ Span(aligned, len) \subseteq Addr
    <3> DEFINE aligned == shift_up(page_size, b)
               slack   == aligned - b
               all     == Mapped(host, b, len + page_size, last + 1, 1)
               cut     == Unmapped(all, b, slack)
               trimmed == Unmapped(cut, aligned + len, page_size - slack)
    <3>1. all \in Spaces
      BY <1>t, <2>1, MappedType
    <3> HIDE DEF all
    <3>2. cut \in Spaces
      BY <1>t, <2>1, <3>1, UnmappedType
    <3> HIDE DEF cut
    <3>3. trimmed \in Spaces
      BY <1>t, <2>1, <3>2, UnmappedType
    <3> HIDE DEF trimmed
    <3>4. Mapped(trimmed, aligned, len, last + 1, page_size) \in Spaces
      BY <1>t, <2>1, <3>3, MappedType
    <3>5. aligned \in Addr /\ Span(aligned, len) \subseteq Addr
      <4> HIDE DEF len
      <4> QED BY <1>t, <2>1, Aligned
    <3> QED BY <3>1, <3>3, <3>4, <3>5 DEF all, cut, trimmed
  <2>4. ASSUME NEW b \in MmapChoices(len + page_size, 1),
               host' = Mapped(host, b, len + page_size, last + 1, 1),
               returns("err", FALSE), UNCHANGED <<iommu, files, dmas, refusals>>
        PROVE  TypeInv'
    <3>1. host' \in Spaces
      BY <2>3, <2>4
    <3>2. last' \in 0..MaxAllocs
      BY <2>1 DEF Begin
    <3> QED BY <2>1, <2>4, <3>1, <3>2 DEF Begin, returns, modeVars, TypeInv, TypeOK,
               Spaces
  <2>5. ASSUME NEW b \in MmapChoices(len + page_size, 1),
               NEW space \in Spaces, map_dma(space, shift_up(page_size, b), len)
        PROVE  TypeInv'
    BY <2>1, <2>3, <2>5, MapDmaType
  <2>6. ASSUME host' \in Spaces, Refuse, returns("err", TRUE), UNCHANGED <<iommu, files, dmas>>
        PROVE  TypeInv'
    BY <1>r, <2>1, <2>6
  <2> HIDE DEF len
  <2> QED BY <1>2, <2>2, <2>3, <2>4, <2>5, <2>6, ZenonT(60) DEF vfio_allocate_narrow, len
<1>3. ASSUME NEW s \in Sizes, physical_allocate(s) PROVE TypeInv'
  <2> DEFINE len == shift_up(page_size, s)
  <2>1. Begin /\ last + 1 \in 1..MaxAllocs /\ last + 1 \in 0..MaxAllocs /\ len \in Nat \ {0}
    BY <1>t, <1>3, Length DEF physical_allocate, Begin, TypeInv, TypeOK
  <2>2. CASE Refuse /\ returns("err", TRUE) /\ UNCHANGED memVars
    BY <1>t, <1>r, <2>1, <2>2 DEF memVars, TypeOK
  <2>3. ASSUME NEW b \in MmapChoices(len, page_size),
               files' = files \cup {last + 1},
               host' = Mapped(host, b, len, last + 1, page_size),
               UNCHANGED iommu
        PROVE  /\ host' \in Spaces /\ files' \subseteq 1..MaxAllocs
               /\ b \in Addr /\ Span(b, len) \subseteq Addr
    BY <1>t, <2>1, <2>3, MappedType DEF MmapChoices, TypeOK
  <2>4. ASSUME NEW b \in MmapChoices(len, page_size),
               files' = files \cup {last + 1},
               host' = Mapped(host, b, len, last + 1, page_size),
               UNCHANGED iommu,
               dmas' = dmas \cup {[id |-> last + 1, virt |-> b, size |-> len]},
               returns("ok", FALSE), UNCHANGED refusals
        PROVE  TypeInv'
    <3>1. [id |-> last + 1, virt |-> b, size |-> len]
            \in [id : 1..MaxAllocs, virt : Addr, size : Nat \ {0}]
      BY <2>1, <2>3, <2>4
    <3>2. /\ dmas' \subseteq [id : 1..MaxAllocs, virt : Addr, size : Nat \ {0}]
          /\ \A d \in dmas' : d.id \in 1..MaxAllocs /\ Span(d.virt, d.size) \subseteq Addr
      BY <3>1, <2>1, <2>3, <2>4 DEF TypeInv, TypeOK
    <3>3. last' \in 0..MaxAllocs
      BY <2>1 DEF Begin
    <3> QED BY <2>1, <2>3, <2>4, <3>2, <3>3 DEF Begin, returns, modeVars, TypeInv, TypeOK,
               Spaces
  <2> QED BY <1>3, <1>r, <2>1, <2>2, <2>3, <2>4 DEF physical_allocate
<1>4. ASSUME NEW d \in dmas, vfio_deallocate(d) PROVE TypeInv'
  <2>1. host' \in Spaces
    <3>1. host' = host \/ host' = Unmapped(host, d.virt, unmap_len(d))
      BY <1>4 DEF vfio_deallocate
    <3> QED BY <1>t, <3>1, UnmappedType
  <2>2. ret' \in {"ok", "err"} /\ refused' \in BOOLEAN
    BY <1>4 DEF vfio_deallocate, returns
  <2> QED BY <1>4, <2>1, <2>2 DEF vfio_deallocate, modeVars, TypeInv, TypeOK, Spaces
<1>5. ASSUME NEW d \in dmas, deallocate_refused(d) PROVE TypeInv'
  <2>1. refusals' \in 0..MaxRefusals /\ ret' \in {"ok", "err"} /\ refused' \in BOOLEAN
    BY <1>5 DEF deallocate_refused, Refuse, returns, TypeInv, TypeOK
  <2> QED BY <1>5, <2>1 DEF deallocate_refused, memVars, modeVars, TypeInv, TypeOK
<1>6. ASSUME NEW d \in dmas, physical_deallocate(d) PROVE TypeInv'
  <2>1. host' \in Spaces
    BY <1>t, <1>6, UnmappedType DEF physical_deallocate
  <2>2. ret' \in {"ok", "err"} /\ refused' \in BOOLEAN
    BY <1>6 DEF physical_deallocate, returns
  <2> QED BY <1>6, <2>1, <2>2 DEF physical_deallocate, modeVars, TypeInv, TypeOK, Spaces
<1>7. ASSUME NEW p \in PageSizes, set_page_size(p) PROVE TypeInv'
  BY <1>7 DEF set_page_size, memVars, modeVars, TypeInv, TypeOK
<1>8. CASE UNCHANGED vars
  BY <1>8 DEF vars, memVars, modeVars, TypeInv, TypeOK
<1> QED BY <1>1, <1>2, <1>3, <1>4, <1>5, <1>6, <1>7, <1>8 DEF Next

\* A window is added for a range that was free, or refused, after changes to
\* free addresses only.
LEMMA MapDmaShape ==
  ASSUME IndInv, backend = "vfio", Begin,
         NEW base \in Addr, NEW len \in Nat \ {0}, NEW space \in Spaces,
         len % page_size = 0, Span(base, len) \subseteq Addr,
         \A a \in Span(base, len) : host[a].id = 0 /\ space[a].id = last + 1,
         \A a \in Addr : host[a].id # 0 => space[a].id = host[a].id,
         map_dma(space, base, len)
  PROVE  Placed(base, len) \/ NotPlaced
<1>1. last' = last + 1 /\ UNCHANGED <<backend, page_size>> /\ host' = space
  BY DEF Begin, modeVars, map_dma
<1>2. CASE /\ iommu' = iommu \cup Span(base, len)
           /\ dmas' = dmas \cup {[id |-> last + 1, virt |-> base, size |-> len]}
  BY <1>1, <1>2 DEF Placed, Untouched
<1>3. CASE UNCHANGED <<iommu, dmas>>
  BY <1>1, <1>3 DEF NotPlaced, Untouched
<1> QED BY <1>2, <1>3 DEF map_dma

\* Every step of the allocator places, fails to place or releases one region,
\* or leaves all of them alone.
LEMMA Shape ==
  ASSUME GrowWhileHeld = FALSE, IndInv, [Next]_vars
  PROVE  \/ \E base \in Addr, len \in Nat : Placed(base, len)
         \/ NotPlaced
         \/ \E d \in dmas : Released(d)
         \/ Resized
<1> USE MemoryAssumption DEF IndInv
<1> DEFINE Goal == \/ \E base \in Addr, len \in Nat : Placed(base, len)
                   \/ NotPlaced
                   \/ \E d \in dmas : Released(d)
                   \/ Resized
<1>t. TypeOK /\ host \in Spaces /\ last \in Nat /\ page_size \in PageSizes
  BY DEF TypeInv, TypeOK, Spaces
<1>f. ASSUME Begin, UNCHANGED <<iommu, dmas>>, \A a \in Addr : host[a].id # 0 => host'[a].id = host[a].id
      PROVE  NotPlaced
  BY <1>f DEF NotPlaced, Untouched, Begin, modeVars
<1> HIDE DEF Goal
<1>1. ASSUME NEW s \in Sizes, vfio_allocate(s) PROVE Goal
  <2> DEFINE len == shift_up(page_size, s)
  <2>1. Begin /\ backend = "vfio" /\ len \in Nat \ {0} /\ len % page_size = 0
    BY <1>1, <1>t, Length DEF vfio_allocate
  <2>2. CASE UNCHANGED memVars
    BY <1>f, <2>1, <2>2 DEF memVars, Goal
  <2>3. ASSUME NEW b \in MmapChoices(len, page_size),
               map_dma(Mapped(host, b, len, last + 1, page_size), b, len)
        PROVE  Goal
    <3> DEFINE space == Mapped(host, b, len, last + 1, page_size)
    <3>1. /\ b \in Addr /\ Span(b, len) \subseteq Addr
          /\ \A a \in Span(b, len) : host[a].id = 0
      BY DEF MmapChoices
    <3>2. /\ \A a \in Span(b, len) : space[a].id = last + 1
          /\ \A a \in Addr \ Span(b, len) : space[a] = host[a]
      BY <3>1 DEF Mapped
    <3>3. space \in Spaces
      BY <1>t, <2>1, MappedType DEF Begin
    <3> HIDE DEF space, len
    <3>4. Placed(b, len) \/ NotPlaced
      BY <2>1, <2>3, <3>1, <3>2, <3>3, MapDmaShape DEF space
    <3> QED BY <2>1, <3>1, <3>4 DEF Goal
  <2> QED BY <1>1, <2>2, <2>3 DEF vfio_allocate
<1>2. ASSUME NEW s \in Sizes, vfio_allocate_narrow(s) PROVE Goal
  <2> DEFINE len == shift_up(page_size, s)
  <2>1. Begin /\ backend = "vfio" /\ len \in Nat \ {0} /\ len % page_size = 0
    BY <1>2, <1>t, Length DEF vfio_allocate_narrow
  <2> HIDE DEF len
  <2>2. CASE UNCHANGED memVars
    BY <1>f, <2>1, <2>2 DEF memVars, Goal
  <2>3. ASSUME NEW b \in MmapChoices(len + page_size, 1),
               LET aligned == shift_up(page_size, b)
                   slack   == aligned - b
                   all     == Mapped(host, b, len + page_size, last + 1, 1)
                   cut     == Unmapped(all, b, slack)
                   trimmed == Unmapped(cut, aligned + len, page_size - slack)
               IN  \/ host' = all /\ UNCHANGED <<iommu, dmas>>
                   \/ host' = trimmed /\ UNCHANGED <<iommu, dmas>>
                   \/ map_dma(Mapped(trimmed, aligned, len, last + 1, page_size), aligned, len)
        PROVE  Goal
    <3> DEFINE aligned == shift_up(page_size, b)
               slack   == aligned - b
               all     == Mapped(host, b, len + page_size, last + 1, 1)
               cut     == Unmapped(all, b, slack)
               trimmed == Unmapped(cut, aligned + len, page_size - slack)
               placed  == Mapped(trimmed, aligned, len, last + 1, page_size)
               range   == Span(b, len + page_size)
    <3>1. /\ aligned \in Addr /\ Span(aligned, len) \subseteq range /\ range \subseteq Addr
          /\ Span(b, slack) \subseteq range
          /\ Span(aligned + len, page_size - slack) \subseteq range
          /\ \A a \in range : host[a].id = 0
      BY <1>t, <2>1, Aligned
    <3> HIDE DEF aligned, slack, range
    <3>2. all \in Spaces /\ \A a \in Addr \ range : all[a] = host[a]
      BY <1>t, <2>1, MappedType DEF Begin, Mapped, range
    <3> HIDE DEF all
    <3>3. cut \in Spaces /\ \A a \in Addr \ range : cut[a] = host[a]
      BY <3>1, <3>2, UnmappedType DEF Unmapped
    <3> HIDE DEF cut
    <3>4. trimmed \in Spaces /\ \A a \in Addr \ range : trimmed[a] = host[a]
      BY <3>1, <3>3, UnmappedType DEF Unmapped
    <3> HIDE DEF trimmed
    <3>5. placed \in Spaces /\ \A a \in Addr \ range : placed[a] = host[a]
      <4>1. placed \in Spaces
        BY <1>t, <2>1, <3>4, MappedType DEF Begin
      <4> QED BY <3>1, <3>4, <4>1 DEF Mapped
    <3>6. \A a \in Span(aligned, len) : placed[a].id = last + 1
      BY <3>1 DEF Mapped
    <3> HIDE DEF placed
    <3>7. CASE (host' = all \/ host' = trimmed) /\ UNCHANGED <<iommu, dmas>>
      BY <1>f, <2>1, <3>1, <3>2, <3>4, <3>7 DEF Goal
    <3>8. CASE map_dma(placed, aligned, len)
      <4>1. Span(aligned, len) \subseteq Addr /\ \A a \in Span(aligned, len) : host[a].id = 0
        BY <3>1
      <4>2. \A a \in Addr : host[a].id # 0 => placed[a].id = host[a].id
        BY <3>1, <3>5
      <4>3. Placed(aligned, len) \/ NotPlaced
        BY <2>1, <3>1, <3>5, <3>6, <3>8, <4>1, <4>2, MapDmaShape
      <4> QED BY <2>1, <3>1, <4>3 DEF Goal
    <3> QED BY <2>3, <3>7, <3>8 DEF aligned, slack, all, cut, trimmed, placed
  <2> QED BY <1>2, <2>2, <2>3 DEF vfio_allocate_narrow, len
<1>3. ASSUME NEW s \in Sizes, physical_allocate(s) PROVE Goal
  <2> DEFINE len == shift_up(page_size, s)
  <2>1. Begin /\ backend = "physical" /\ len \in Nat \ {0} /\ len % page_size = 0
    BY <1>3, <1>t, Length DEF physical_allocate
  <2> HIDE DEF len
  <2>2. CASE UNCHANGED memVars
    BY <1>f, <2>1, <2>2 DEF memVars, Goal
  <2>3. ASSUME NEW b \in MmapChoices(len, page_size),
               host' = Mapped(host, b, len, last + 1, page_size), UNCHANGED iommu,
               \/ dmas' = dmas \cup {[id |-> last + 1, virt |-> b, size |-> len]}
               \/ UNCHANGED dmas
        PROVE  Goal
    <3>1. /\ b \in Addr /\ Span(b, len) \subseteq Addr
          /\ \A a \in Span(b, len) : host[a].id = 0
      BY DEF MmapChoices
    <3>2. /\ \A a \in Span(b, len) : host'[a].id = last + 1
          /\ \A a \in Addr \ Span(b, len) : host'[a] = host[a]
      BY <2>3, <3>1 DEF Mapped
    <3>3. CASE UNCHANGED dmas
      BY <1>f, <2>1, <2>3, <3>1, <3>2, <3>3 DEF Goal
    <3>4. CASE dmas' = dmas \cup {[id |-> last + 1, virt |-> b, size |-> len]}
      <4>1. Placed(b, len)
        BY <2>1, <2>3, <3>1, <3>2, <3>4 DEF Placed, Untouched, Begin, modeVars
      <4> QED BY <2>1, <3>1, <4>1 DEF Goal
    <3> QED BY <2>3, <3>3, <3>4
  <2> QED BY <1>3, <2>2, <2>3 DEF physical_allocate, len
<1>4. ASSUME NEW d \in dmas, vfio_deallocate(d) PROVE Goal
  <2>1. host' = host \/ host' = Unmapped(host, d.virt, d.size)
    BY <1>4, UnmapLen DEF vfio_deallocate
  <2>2. Untouched(Span(d.virt, d.size))
    BY <2>1 DEF Untouched, Unmapped
  <2>3. Released(d)
    BY <1>4, <2>2 DEF vfio_deallocate, Released, modeVars
  <2> QED BY <2>3 DEF Goal
<1>5. ASSUME NEW d \in dmas, deallocate_refused(d) PROVE Goal
  BY <1>5, <1>t DEF deallocate_refused, Resized, modeVars, Goal
<1>6. ASSUME NEW d \in dmas, physical_deallocate(d) PROVE Goal
  <2>1. Untouched(Span(d.virt, d.size))
    BY <1>6 DEF physical_deallocate, Untouched, Unmapped
  <2>2. iommu' = iommu \ Span(d.virt, d.size)
    BY <1>6 DEF physical_deallocate, HeldInv
  <2>3. Released(d)
    BY <1>6, <2>1, <2>2 DEF physical_deallocate, Released, modeVars
  <2> QED BY <2>3 DEF Goal
<1>7. ASSUME NEW p \in PageSizes, set_page_size(p) PROVE Goal
  BY <1>7, <1>t DEF set_page_size, Resized, modeVars, Goal
<1>8. CASE UNCHANGED vars
  BY <1>8, <1>t DEF vars, Resized, modeVars, Goal
<1> QED BY <1>1, <1>2, <1>3, <1>4, <1>5, <1>6, <1>7, <1>8 DEF Next, Goal
-----------------------------------------------------------------------------
\* A held region is not empty, lies in the address space, and is used.
LEMMA HeldUsed ==
  ASSUME IndInv, NEW d \in dmas
  PROVE  /\ d.id \in Nat \ {0} /\ d.virt \in Span(d.virt, d.size)
         /\ Span(d.virt, d.size) \subseteq Addr
         /\ \A a \in Span(d.virt, d.size) : host[a].id = d.id /\ host[a].id # 0
<1>1. d \in [id : 1..MaxAllocs, virt : Addr, size : Nat \ {0}]
  BY DEF IndInv, TypeInv
<1>2. d.id \in Nat \ {0} /\ d.virt \in Span(d.virt, d.size)
  BY <1>1, MemoryAssumption DEF Span, Addr
<1>3. Span(d.virt, d.size) \subseteq Addr
  BY DEF IndInv, TypeInv, TypeOK
<1> QED BY <1>2, <1>3 DEF IndInv, HeldInv, HeldMemoryIntact

\* Two held regions have no address in common.
LEMMA HeldApart ==
  ASSUME IndInv, NEW d \in dmas, NEW e \in dmas, d # e
  PROVE  Span(d.virt, d.size) \cap Span(e.virt, e.size) = {}
BY HeldUsed DEF IndInv, HeldInv

\* Every step keeps the held regions whole, numbered and intact.
LEMMA HeldStep ==
  ASSUME GrowWhileHeld = FALSE, IndInv, [Next]_vars
  PROVE  HeldInv'
<1>t. last \in Nat /\ page_size \in PageSizes
  BY MemoryAssumption DEF IndInv, TypeInv, TypeOK
<1>1. ASSUME NEW base \in Addr, NEW len \in Nat, Placed(base, len) PROVE HeldInv'
  <2> DEFINE new == [id |-> last + 1, virt |-> base, size |-> len]
  <2>1. dmas' = dmas \cup {new} /\ last' = last + 1 /\ UNCHANGED <<backend, page_size>>
    BY <1>1 DEF Placed
  <2>2. new.id = last + 1 /\ new.virt = base /\ new.size = len
    OBVIOUS
  <2> HIDE DEF new
  <2>3. \A d \in dmas : d.id <= last /\ d.id \in Nat /\ d.size % page_size = 0
    BY HeldUsed DEF IndInv, HeldInv
  <2>4. \A d \in dmas' : d.id <= last' /\ d.size % page_size' = 0
    BY <1>1, <1>t, <2>1, <2>2, <2>3 DEF Placed
  <2>5. \A d, e \in dmas' : d.id = e.id => d = e
    BY <1>t, <2>1, <2>2, <2>3 DEF IndInv, HeldInv
  <2>6. \A d \in dmas : \A a \in Span(d.virt, d.size) :
          host'[a].id = d.id /\ (backend' = "vfio" => a \in iommu')
    <3>1. \A d \in dmas : \A a \in Span(d.virt, d.size) : host'[a].id = d.id
      BY <1>1, HeldUsed DEF Placed, Untouched
    <3>2. \A d \in dmas : \A a \in Span(d.virt, d.size) : backend' = "vfio" => a \in iommu'
      BY <1>1 DEF Placed, IndInv, HeldInv, HeldMemoryIntact
    <3> QED BY <3>1, <3>2
  <2>7. \A a \in Span(new.virt, new.size) :
          host'[a].id = new.id /\ (backend' = "vfio" => a \in iommu')
    BY <1>1, <2>2 DEF Placed
  <2>8. HeldMemoryIntact'
    BY <2>1, <2>6, <2>7 DEF HeldMemoryIntact
  <2>9. /\ \A a \in iommu' : \E d \in dmas' : a \in Span(d.virt, d.size)
        /\ backend' = "physical" => iommu' = {}
    BY <1>1, <2>1, <2>2 DEF Placed, IndInv, HeldInv
  <2> QED BY <2>4, <2>5, <2>8, <2>9 DEF HeldInv
<1>2. CASE NotPlaced
  <2>1. \A d \in dmas : d.id <= last'
    BY <1>2, <1>t, HeldUsed DEF NotPlaced, IndInv, HeldInv
  <2>2. HeldMemoryIntact'
    BY <1>2, HeldUsed DEF NotPlaced, Untouched, IndInv, HeldInv, HeldMemoryIntact
  <2> QED BY <1>2, <2>1, <2>2 DEF NotPlaced, IndInv, HeldInv
<1>3. ASSUME NEW d \in dmas, Released(d) PROVE HeldInv'
  <2>1. \A e \in dmas' : e \in dmas /\ e # d
    BY <1>3 DEF Released
  <2>2. \A e \in dmas' : \A a \in Span(e.virt, e.size) :
          a \in Addr \ Span(d.virt, d.size) /\ host[a].id = e.id /\ host[a].id # 0
    BY <2>1, HeldApart, HeldUsed
  <2>3. \A e \in dmas' : \A a \in Span(e.virt, e.size) : host'[a].id = e.id
    BY <1>3, <2>2 DEF Released, Untouched
  <2>4. \A e \in dmas' : \A a \in Span(e.virt, e.size) : backend' = "vfio" => a \in iommu'
    BY <1>3, <2>1, <2>2 DEF Released, IndInv, HeldInv, HeldMemoryIntact
  <2>5. \A a \in iommu' : \E e \in dmas' : a \in Span(e.virt, e.size)
    BY <1>3 DEF Released, IndInv, HeldInv
  <2>6. backend' = "physical" => iommu' = {}
    BY <1>3 DEF Released, IndInv, HeldInv
  <2>7. \A e \in dmas' : e.id <= last' /\ e.size % page_size' = 0
    BY <1>3, <2>1 DEF Released, IndInv, HeldInv
  <2>8. \A e, f \in dmas' : e.id = f.id => e = f
    BY <2>1 DEF IndInv, HeldInv
  <2> QED BY <2>3, <2>4, <2>5, <2>6, <2>7, <2>8 DEF HeldInv, HeldMemoryIntact
<1>4. CASE Resized
  <2>1. \A d \in dmas : d.size \in Nat /\ d.size % page_size = 0
    BY DEF IndInv, TypeInv, HeldInv
  <2>2. \A d \in dmas : d.size % page_size' = 0
    BY <1>t, <1>4, <2>1, WholePages DEF Resized
  <2> QED BY <1>4, <2>2 DEF Resized, memVars, IndInv, HeldInv, HeldMemoryIntact
<1> QED BY <1>1, <1>2, <1>3, <1>4, Shape

\* Initially nothing is held.
LEMMA InitInv == Init => IndInv
<1> SUFFICES ASSUME Init PROVE IndInv
  OBVIOUS
<1>1. narrow \in BOOLEAN /\ refused \in BOOLEAN
  BY MemoryAssumption DEF Init
<1>2. TypeInv
  BY <1>1, MemoryAssumption DEF Init, TypeInv, TypeOK, Free
<1> QED BY <1>2 DEF Init, IndInv, HeldInv, HeldMemoryIntact

\* Type correctness of the allocator, for every configuration.
THEOREM TypeCorrect == Spec => []TypeOK
<1>1. Init => TypeInv
  BY InitInv DEF IndInv
<1>2. TypeInv /\ [Next]_vars => TypeInv'
  BY TypeStep
<1>3. TypeInv => TypeOK
  BY DEF TypeInv
<1> QED BY <1>1, <1>2, <1>3, PTL DEF Spec

\* The invariant is inductive when pages are not enlarged while memory is held.
THEOREM Invariance ==
  ASSUME GrowWhileHeld = FALSE
  PROVE  Spec => []IndInv
<1>1. IndInv /\ [Next]_vars => IndInv'
  BY TypeStep, HeldStep DEF IndInv
<1> QED BY <1>1, InitInv, PTL DEF Spec

\* As long as set_page_size does not enlarge pages while memory is held, memory
\* that a caller holds stays mapped, its own, and within reach of the device,
\* whatever allocate and deallocate do for others.
THEOREM HeldIsIntact ==
  ASSUME GrowWhileHeld = FALSE
  PROVE  Spec => []HeldMemoryIntact
<1>1. IndInv => HeldMemoryIntact
  BY DEF IndInv, HeldInv
<1> QED BY <1>1, Invariance, PTL

\* Under the same condition the device has no DMA window to memory that
\* deallocate has given back.
THEOREM NoStaleWindow ==
  ASSUME GrowWhileHeld = FALSE
  PROVE  Spec => []NoWindowToFreed
<1>1. IndInv => NoWindowToFreed
  BY HeldUsed DEF NoWindowToFreed, IndInv, HeldInv
<1> QED BY <1>1, Invariance, PTL
-----------------------------------------------------------------------------
(***************************************************************************)
(* The allocator implements RegionPool.                                    *)
(***************************************************************************)
\* An address is owned by the region that is held there.
OwnerInv ==
  /\ Owner \in [Addr -> Nat]
  /\ \A d \in dmas : \A a \in Span(d.virt, d.size) : Owner[a] = d.id
  /\ \A a \in Addr : (\A d \in dmas : a \notin Span(d.virt, d.size)) => Owner[a] = 0

\* The refinement mapping gives every address the region that is held there.
LEMMA OwnerIs == IndInv => OwnerInv
<1> SUFFICES ASSUME IndInv PROVE OwnerInv
  OBVIOUS
<1>1. \A d \in dmas : \A a \in Span(d.virt, d.size) :
        a \in Addr /\ host[a].id = d.id /\ d.id \in Nat /\ (backend = "vfio" => a \in iommu)
  BY HeldUsed DEF IndInv, HeldInv, HeldMemoryIntact
<1>2. \A d \in dmas : \A a \in Span(d.virt, d.size) : Owner[a] = d.id
  BY <1>1 DEF Owner
<1>3. \A a \in Addr : (\A d \in dmas : a \notin Span(d.virt, d.size)) => Owner[a] = 0
  BY DEF Owner
<1>4. Owner = [a \in Addr |-> Owner[a]] /\ \A a \in Addr : Owner[a] \in Nat
  <2>1. \A a \in Addr : Owner[a] \in Nat
    BY <1>1, <1>2, <1>3
  <2> QED BY <2>1 DEF Owner
<1>5. Owner \in [Addr -> Nat]
  BY <1>4
<1> QED BY <1>2, <1>3, <1>5 DEF OwnerInv

\* Every step of the allocator is a step of the pool or leaves it alone.
LEMMA PoolStep ==
  ASSUME GrowWhileHeld = FALSE, IndInv, IndInv', [Next]_vars
  PROVE  [Pool!Next]_Pool!poolVars
<1>o. /\ Owner' \in [Addr -> Nat]
      /\ \A d \in dmas' : \A a \in Span(d.virt, d.size) : Owner'[a] = d.id
      /\ \A a \in Addr : (\A d \in dmas' : a \notin Span(d.virt, d.size)) => Owner'[a] = 0
  <2>1. OwnerInv'
    BY OwnerIs, PTL
  <2> QED BY <2>1 DEF OwnerInv
<1>w. OwnerInv
  BY OwnerIs
<1>t. last \in Nat
  BY DEF IndInv, TypeInv, TypeOK
<1>1. ASSUME NEW base \in Addr, NEW len \in Nat, Placed(base, len) PROVE Pool!Next
  <2> DEFINE new == [id |-> last + 1, virt |-> base, size |-> len]
             end == base + len - 1
  <2>1. dmas' = dmas \cup {new} /\ last' = last + 1
    BY <1>1 DEF Placed
  <2>2. new.id = last + 1 /\ new.virt = base /\ new.size = len
    OBVIOUS
  <2>3. Span(base, len) = base..end /\ end \in Addr /\ base <= end
    BY <1>1 DEF Placed, Span, Addr
  <2>4. \A a \in base..end : a \in Addr /\ Owner[a] = 0 /\ Owner'[a] = last + 1
    <3>1. \A a \in base..end : a \in Addr /\ \A d \in dmas : a \notin Span(d.virt, d.size)
      BY <1>1, <2>3, HeldUsed DEF Placed
    <3>2. \A a \in base..end : Owner[a] = 0
      BY <3>1, <1>w DEF OwnerInv
    <3>3. \A a \in base..end : Owner'[a] = last + 1
      BY <1>o, <2>1, <2>2, <2>3
    <3> QED BY <3>1, <3>2, <3>3
  <2>5. \A a \in Addr \ (base..end) : Owner'[a] = Owner[a]
    <3>1. \A d \in dmas : \A a \in Span(d.virt, d.size) : Owner'[a] = Owner[a]
      BY <1>o, <2>1, <1>w DEF OwnerInv
    <3>2. \A a \in Addr \ (base..end) : (\A d \in dmas : a \notin Span(d.virt, d.size))
             => Owner'[a] = 0 /\ Owner[a] = 0
      BY <1>o, <2>1, <2>2, <2>3, <1>w DEF OwnerInv
    <3> QED BY <3>1, <3>2
  <2> HIDE DEF end
  <2>6. Owner' = [a \in Addr |-> IF a \in base..end THEN last' ELSE Owner[a]]
    BY <1>o, <2>1, <2>4, <2>5
  <2>7. Pool!Allocate(base, end)
    BY <2>1, <2>3, <2>4, <2>6 DEF Pool!Allocate
  <2> QED BY <2>3, <2>7 DEF Pool!Next
<1>2. CASE NotPlaced
  <2>1. dmas' = dmas /\ last' = last + 1
    BY <1>2 DEF NotPlaced
  <2>2. \A a \in Addr : Owner'[a] = Owner[a]
    BY <1>o, <2>1, <1>w DEF OwnerInv
  <2>3. Owner' = Owner
    BY <1>o, <2>2, <1>w DEF OwnerInv
  <2> QED BY <2>1, <2>3 DEF Pool!Next, Pool!Fail
<1>3. ASSUME NEW d \in dmas, Released(d) PROVE Pool!Next
  <2>1. dmas' = dmas \ {d} /\ last' = last
    BY <1>3 DEF Released
  <2>2. d.id # 0 /\ d.virt \in Addr /\ Owner[d.virt] = d.id
    BY HeldUsed, <1>w DEF OwnerInv
  <2>3. \A a \in Span(d.virt, d.size) : Owner[a] = d.id /\ Owner'[a] = 0
    <3>1. \A a \in Span(d.virt, d.size) : a \in Addr /\ \A e \in dmas' : a \notin Span(e.virt, e.size)
      BY <2>1, HeldApart, HeldUsed
    <3> QED BY <1>o, <3>1, <1>w DEF OwnerInv
  <2>4. \A a \in Addr \ Span(d.virt, d.size) : Owner[a] # d.id /\ Owner'[a] = Owner[a]
    <3>1. \A e \in dmas' : e \in dmas /\ e.id # d.id
      BY <2>1 DEF IndInv, HeldInv
    <3>2. \A e \in dmas' : \A a \in Span(e.virt, e.size) : Owner[a] # d.id /\ Owner'[a] = Owner[a]
      BY <1>o, <3>1, <1>w DEF OwnerInv
    <3>3. \A a \in Addr \ Span(d.virt, d.size) : (\A e \in dmas' : a \notin Span(e.virt, e.size))
             => Owner'[a] = 0 /\ Owner[a] = 0
      BY <1>o, <2>1, <1>w DEF OwnerInv
    <3> QED BY <2>2, <3>2, <3>3
  <2>5. Owner' = [a \in Addr |-> IF Owner[a] = d.id THEN 0 ELSE Owner[a]]
    BY <1>o, <2>3, <2>4
  <2>6. Pool!Release(d.id)
    BY <2>1, <2>2, <2>5 DEF Pool!Release
  <2> QED BY <2>2, <2>6 DEF Pool!Next
<1>4. CASE Resized
  <2>1. dmas' = dmas /\ last' = last
    BY <1>4 DEF Resized, memVars
  <2>2. \A a \in Addr : Owner'[a] = Owner[a]
    BY <1>o, <2>1, <1>w DEF OwnerInv
  <2>3. Owner' = Owner
    BY <1>o, <2>2, <1>w DEF OwnerInv
  <2> QED BY <2>1, <2>3 DEF Pool!poolVars
<1> QED BY <1>1, <1>2, <1>3, <1>4, Shape

\* As long as pages are not enlarged while memory is held, both backends implement
\* the pool of regions: no allocation takes an address that is in use, and a
\* deallocation gives back exactly one region.
THEOREM Refinement ==
  ASSUME GrowWhileHeld = FALSE
  PROVE  Spec => ImplementsPool
<1>1. Init => Pool!Init
  BY DEF Init, Pool!Init, Owner
<1>2. IndInv /\ IndInv' /\ [Next]_vars => [Pool!Next]_Pool!poolVars
  BY PoolStep
<1> QED BY <1>1, <1>2, Invariance, PTL DEF Spec, ImplementsPool, Pool!Spec
==============================================================================
