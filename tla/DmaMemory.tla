------------------------------ MODULE DmaMemory ------------------------------
(***************************************************************************)
(* DMA memory: allocate, deallocate and set_page_size of vfio.rs and       *)
(* physical.rs behind the Mapping trait, on a small address space.         *)
(*                                                                         *)
(* Addresses and sizes are in units of the smallest page.  The kernel is   *)
(* modelled by what the code relies on: mmap finds a free aligned range,   *)
(* munmap removes whatever is mapped in a range, refuses an empty range    *)
(* and one that splits a huge page, and VFIO keeps a table of DMA windows. *)
(***************************************************************************)
EXTENDS Integers, FiniteSets

CONSTANTS
  Space,        \* bound: number of addresses
  PageSizes,    \* page sizes in use, in units (1: 4 KiB)
  Sizes,        \* requested sizes, in units
  MaxAllocs,    \* bound: allocations in one behaviour
  MaxRefusals,  \* bound: requests the kernel refuses
  Page2M,       \* the page size that stands for 2 MiB
  Backends,     \* backends of MemoryAccess: "vfio", "physical"
  Narrow,       \* is IOVA_WIDTH < X86_VA_WIDTH: subset of BOOLEAN
  GrowWhileHeld \* TRUE: set_page_size may enlarge pages while memory is held

\* A page size is a power of two: every larger one is a multiple of it.
ASSUME MemoryAssumption ==
  /\ Space \in Nat /\ PageSizes \subseteq Nat \ {0} /\ Sizes \subseteq Nat \ {0}
  /\ \A p, q \in PageSizes : p <= q => q % p = 0
  /\ MaxAllocs \in Nat /\ MaxRefusals \in Nat
  /\ Page2M \in Nat \ {0, 1} /\ Backends \subseteq {"vfio", "physical"}
  /\ Narrow \subseteq BOOLEAN
  /\ GrowWhileHeld \in BOOLEAN

Addr == 0..(Space - 1)
Free == [id |-> 0, page |-> 1]
Span(base, len) == base..(base + len - 1)

\* Pagesize::shift_up: the size rounded up to whole pages.
shift_up(page, size) ==
  IF size % page = 0 THEN size ELSE ((size \div page) + 1) * page

VARIABLES
  backend,     \* MemoryAccess: chosen once
  narrow,      \* IOVA_WIDTH < X86_VA_WIDTH, found out once
  page_size,   \* Vfio.page_size, Physical.page_size
  host,        \* the process's address space: address -> [id, page]
  iommu,       \* addresses of the device's DMA windows (iova = vaddr)
  files,       \* ids of the hugetlbfs files, each holding its pages
  dmas,        \* memory the callers hold: [id, virt, size]
  last,        \* last allocation id (HUGEPAGE_ID)
  ret,         \* result of the last call
  refused,     \* the kernel refused a well-formed request of the last call
  refusals     \* refusals so far

memVars == <<host, iommu, files, dmas>>
modeVars == <<backend, narrow>>
vars == <<memVars, modeVars, page_size, last, ret, refused, refusals>>

Init ==
  /\ backend \in Backends /\ narrow \in Narrow
  /\ page_size \in PageSizes
  /\ backend = "physical" => page_size # 1    \* 4 KiB pages are rejected
  /\ host = [a \in Addr |-> Free]
  /\ iommu = {} /\ files = {} /\ dmas = {} /\ last = 0
  /\ ret = "ok" /\ refused = FALSE /\ refusals = 0

(***************************************************************************)
(* The kernel.                                                             *)
(***************************************************************************)
\* Where mmap may put len units of the given page size.
MmapChoices(len, page) ==
  {b \in Addr : /\ b % page = 0
                /\ Span(b, len) \subseteq Addr
                /\ \A a \in Span(b, len) : host[a].id = 0}

Mapped(space, base, len, id, page) ==
  [a \in Addr |-> IF a \in Span(base, len) THEN [id |-> id, page |-> page] ELSE space[a]]
Unmapped(space, base, len) ==
  [a \in Addr |-> IF a \in Span(base, len) THEN Free ELSE space[a]]

\* munmap accepts a range that is not empty and splits no huge page.
MunmapOk(space, base, len) ==
  /\ len > 0
  /\ \A a \in Span(base, len) \cap Addr :
       {x \in Addr : x \div space[a].page = a \div space[a].page} \subseteq Span(base, len)

Refuse == refusals < MaxRefusals /\ refusals' = refusals + 1

\* A call returns a value; Err comes with whether the kernel is to blame.
returns(value, blame) == ret' = value /\ refused' = blame

(***************************************************************************)
(* Vfio::allocate: mmap, then a DMA window.  On an error in between, what  *)
(* was mapped stays mapped.                                                *)
(***************************************************************************)
Begin ==
  /\ last < MaxAllocs
  /\ last' = last + 1
  /\ UNCHANGED <<modeVars, page_size>>

\* Faulty variant: the recorded size is one unit too large.
map_dma_oversized(space, base, len) ==
  /\ host' = space
  /\ iommu' = iommu \cup Span(base, len)
  /\ dmas' = dmas \cup {[id |-> last + 1, virt |-> base, size |-> len + 1]}
  /\ returns("ok", FALSE)
  /\ UNCHANGED <<files, refusals>>

\* A range is mapped for id: the DMA window is added, or refused.
map_dma(space, base, len) ==
  \/ /\ host' = space
     /\ iommu' = iommu \cup Span(base, len)
     /\ dmas' = dmas \cup {[id |-> last + 1, virt |-> base, size |-> len]}
     /\ returns("ok", FALSE)
     /\ UNCHANGED <<files, refusals>>
  \/ /\ host' = space
     /\ Refuse /\ returns("err", TRUE)
     /\ UNCHANGED <<iommu, files, dmas>>

\* mmap of whole pages of the current size.
vfio_allocate(size) ==
  /\ backend = "vfio" /\ ~(narrow /\ page_size = Page2M)
  /\ Begin
  /\ LET len == shift_up(page_size, size) IN
     \/ \E b \in MmapChoices(len, page_size) :
          map_dma(Mapped(host, b, len, last + 1, page_size), b, len)
     \/ Refuse /\ returns("err", TRUE) /\ UNCHANGED memVars

\* allocate_2mib for a 39 bit IOMMU: one page more than needed is mapped, the
\* slack before and after the aligned part is unmapped, and huge pages are
\* mapped over the rest.
vfio_allocate_narrow(size) ==
  /\ backend = "vfio" /\ narrow /\ page_size = Page2M
  /\ Begin
  /\ LET len == shift_up(page_size, size) IN
     \/ Refuse /\ returns("err", TRUE) /\ UNCHANGED memVars
     \/ \E b \in MmapChoices(len + page_size, 1) :
          LET aligned == shift_up(page_size, b)
              slack   == aligned - b
              all     == Mapped(host, b, len + page_size, last + 1, 1)
              cut     == Unmapped(all, b, slack)
              trimmed == Unmapped(cut, aligned + len, page_size - slack)
          IN  \/ /\ ~MunmapOk(all, b, slack)
                 /\ host' = all
                 /\ returns("err", FALSE)
                 /\ UNCHANGED <<iommu, files, dmas, refusals>>
              \/ /\ MunmapOk(all, b, slack)
                 /\ MunmapOk(cut, aligned + len, page_size - slack)
                 /\ \/ map_dma(Mapped(trimmed, aligned, len, last + 1, page_size),
                               aligned, len)
                    \/ /\ host' = trimmed                \* no huge pages left
                       /\ Refuse /\ returns("err", TRUE)
                       /\ UNCHANGED <<iommu, files, dmas>>

(***************************************************************************)
(* Vfio::deallocate: the DMA window goes first, then the range, rounded up *)
(* to the page size of now.                                                *)
(***************************************************************************)
\* Faulty variant: one page too many is unmapped.
unmap_len_extra(d) == shift_up(page_size, d.size) + page_size
unmap_len(d) == shift_up(page_size, d.size)

\* Faulty variant: the DMA window is forgotten.
vfio_deallocate_window_kept(d) ==
  /\ backend = "vfio" /\ d \in dmas
  /\ dmas' = dmas \ {d}
  /\ MunmapOk(host, d.virt, unmap_len(d))
  /\ host' = Unmapped(host, d.virt, unmap_len(d))
  /\ returns("ok", FALSE)
  /\ UNCHANGED <<modeVars, iommu, files, page_size, last, refusals>>

vfio_deallocate(d) ==
  /\ backend = "vfio" /\ d \in dmas
  /\ dmas' = dmas \ {d}
  /\ iommu' = iommu \ Span(d.virt, d.size)
  /\ LET len == unmap_len(d) IN
     \/ /\ MunmapOk(host, d.virt, len)
        /\ host' = Unmapped(host, d.virt, len)
        /\ returns("ok", FALSE)
     \/ /\ ~MunmapOk(host, d.virt, len)
        /\ returns("err", FALSE)
        /\ UNCHANGED host
  /\ UNCHANGED <<modeVars, files, page_size, last, refusals>>

\* The first request of deallocate is refused (removing the DMA window; munlock)
\* or, with Physical, the second (munmap): the caller keeps the memory.
deallocate_refused(d) ==
  /\ d \in dmas
  /\ Refuse /\ returns("err", TRUE)
  /\ UNCHANGED <<memVars, modeVars, page_size, last>>

set_page_size(p) ==
  /\ backend = "vfio" /\ p # page_size
  /\ p > page_size /\ dmas # {} => GrowWhileHeld
  /\ page_size' = p
  /\ UNCHANGED <<memVars, modeVars, last, ret, refused, refusals>>

(***************************************************************************)
(* Physical: one hugetlbfs file per allocation.                            *)
(***************************************************************************)
physical_allocate(size) ==
  /\ backend = "physical"
  /\ Begin
  /\ LET len == shift_up(page_size, size) IN
     \/ Refuse /\ returns("err", TRUE) /\ UNCHANGED memVars      \* open
     \/ \E b \in MmapChoices(len, page_size) :
          /\ files' = files \cup {last + 1}
          /\ host' = Mapped(host, b, len, last + 1, page_size)
          /\ \/ /\ dmas' = dmas \cup {[id |-> last + 1, virt |-> b, size |-> len]}
                /\ returns("ok", FALSE)
                /\ UNCHANGED refusals
             \/ /\ Refuse /\ returns("err", TRUE)                 \* mlock, pagemap
                /\ UNCHANGED dmas
          /\ UNCHANGED iommu

physical_deallocate(d) ==
  /\ backend = "physical" /\ d \in dmas
  /\ dmas' = dmas \ {d}
  /\ host' = Unmapped(host, d.virt, d.size)
  /\ returns("ok", FALSE)
  /\ UNCHANGED <<modeVars, iommu, files, page_size, last, refusals>>

Next ==
  \/ \E s \in Sizes :
       vfio_allocate(s) \/ vfio_allocate_narrow(s) \/ physical_allocate(s)
  \/ \E d \in dmas :
       vfio_deallocate(d) \/ deallocate_refused(d) \/ physical_deallocate(d)
  \/ \E p \in PageSizes : set_page_size(p)

Spec == Init /\ [][Next]_vars
-----------------------------------------------------------------------------
\* The variables have their types.
TypeOK ==
  /\ backend \in Backends /\ narrow \in BOOLEAN
  /\ page_size \in PageSizes
  /\ host \in [Addr -> [id : 0..MaxAllocs, page : PageSizes \cup {1}]]
  /\ iommu \subseteq Addr /\ files \subseteq 1..MaxAllocs
  /\ \A d \in dmas : d.id \in 1..MaxAllocs /\ Span(d.virt, d.size) \subseteq Addr
  /\ last \in 0..MaxAllocs /\ refusals \in 0..MaxRefusals
  /\ ret \in {"ok", "err"} /\ refused \in BOOLEAN

\* Memory a caller holds is its own: the address range is still mapped, for
\* this allocation, and (with VFIO) the device can reach all of it, whatever
\* else was allocated and deallocated meanwhile.
HeldMemoryIntact ==
  \A d \in dmas : \A a \in Span(d.virt, d.size) :
    host[a].id = d.id /\ (backend = "vfio" => a \in iommu)

\* The device has no DMA window to memory the process has given back.
NoWindowToFreed == \A a \in iommu : host[a].id # 0

\* The allocator implements RegionPool: to a caller and to the device, whatever
\* the backend and the page sizes do underneath, an address belongs to the
\* allocation whose memory is mapped there, as long as the caller holds it and
\* (with VFIO) the device reaches it.  No allocation hands out an address that
\* is in use, and no deallocation takes away part of another's region.
Owner ==
  [a \in Addr |->
     IF /\ \E d \in dmas : a \in Span(d.virt, d.size)
        /\ backend = "vfio" => a \in iommu
     THEN host[a].id ELSE 0]

Pool == INSTANCE RegionPool WITH owner <- Owner, issued <- last

ImplementsPool == Pool!Spec

\* An allocation or deallocation fails only if the kernel refused a
\* well-formed request.
FailsOnlyIfRefused == ret = "err" => refused
==============================================================================
