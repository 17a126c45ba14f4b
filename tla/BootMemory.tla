----------------------------- MODULE BootMemory -----------------------------
(***************************************************************************)
(* How physical memory changes hands while the kernel starts: init_paging  *)
(* builds the first tables, the bitmap allocator is filled from the memory *)
(* map of the boot loader, the page descriptors are allocated from it and  *)
(* mapped, the descriptors are marked, and the free-list allocator (see    *)
(* FrameAlloc) takes over.  Then the heap is mapped and the file system    *)
(* allocates and frees page buffers.  Start-up is one thread with          *)
(* interrupts off, so a step is one call or one round of a loop.           *)
(*                                                                         *)
(* Sizes of the memory map are in units, PAGE_SIZE units to a page, so     *)
(* that its entries need not be page aligned; everything else is in pages. *)
(***************************************************************************)
EXTENDS Paging, TLC

CONSTANTS
    PAGE_SIZE,      \* units in a page
    Maps,           \* the memory maps: sequences of [addr, len, available]
    LowMem,         \* pages below STOR_1MiB, where the kernel image begins
    kernel_base,    \* the first page of the kernel proper, after the boot sections
    kernel_end,     \* the page after the kernel image
    PAGES_ARR_SIZE, \* bytes of the bitmap's array
    DescSize,       \* units of a page descriptor
    INIT_SIZE,      \* pages mapped by init_bump
    HIGH_VADDR,     \* the first page of the kernel's address space
    MM_AREA_VIRT,   \* the first page of the descriptors
    HeapInit,       \* pages mapped by init_heap
    HeapMax,        \* pages marked for the heap
    Counts          \* sizes asked of kvalloc_pages

ASSUME BootAssumption ==
    /\ {PAGE_SIZE, LowMem, kernel_base, kernel_end, PAGES_ARR_SIZE, DescSize, INIT_SIZE} \subseteq Nat \ {0}
    /\ {HIGH_VADDR, MM_AREA_VIRT, HeapInit, HeapMax} \cup Counts \subseteq Nat \ {0}
    /\ LowMem < kernel_base /\ kernel_base < kernel_end /\ HeapInit <= HeapMax
    /\ 0 .. PAGES_ARR_SIZE - 1 \subseteq Frames
    /\ {page_directory, kernel_tables, boot_tables} \subseteq LowMem .. kernel_base - 1

VARIABLES
    mmap,       \* the boot loader's memory map; never changes
    phase,      \* how far init_memory has come
    status,     \* "ok", or why the kernel stopped
    mm,         \* [mem, tlb: see Paging; bits: free pages of the bitmap;
                \*  type, ref_count: the descriptors; alloc_type; result]
    want,       \* history: per page that was asked for, the frame last asked for
    bump,       \* [alloc_addr (units), max_addr, goal]: the descriptors' area
    virt,       \* the marked regions <<from, to>>
    buffer,     \* the <<va, count>> of a buffer in use, or <<>>
    shared      \* history: frames handed over as free though they are in use

vars == <<mmap, phase, status, mm, want, bump, virt, buffer, shared>>

Top == Cardinality(Pages) * PAGE_SIZE
Add(a, b) == (a + b) % Top
round_page_down(a) == a \div PAGE_SIZE
round_page_up(a) == Add(a, PAGE_SIZE - 1) \div PAGE_SIZE
DivUp(a, b) == (a + b - 1) \div b

-----------------------------------------------------------------------------
(* The walks over the memory map.  An entry whose end wraps to 0 has       *)
(* low >= high and is passed over.                                         *)
Entries == {mmap[i] : i \in DOMAIN mmap}

get_max_memory == Max({round_page_up(Add(e.addr, e.len)) : e \in Entries})

FreeRegions ==
    {r \in {<<round_page_up(e.addr), round_page_down(Add(e.addr, e.len))>> : e \in {x \in Entries : x.available}} :
        r[1] < r[2]}

(* Variant: the last page of an entry is taken though it is not complete.  *)
boot_foreach_free_page_partial ==
    UNION {r[1] .. r[2] : r \in {q \in FreeRegions : q[2] > LowMem}} \ (0 .. LowMem - 1)
boot_foreach_free_page ==
    UNION {r[1] .. r[2] - 1 : r \in {q \in FreeRegions : q[2] > LowMem}} \ (0 .. LowMem - 1)

boot_foreach_free_page_region == UNION {r[1] .. r[2] - 1 : r \in FreeRegions}

(* The regions handed to the callback, in the order of the map.            *)
ReservedAbove ==
    SelectSeq([i \in DOMAIN mmap |->
                IF mmap[i].available THEN <<0, 0>>
                ELSE LET low == round_page_down(mmap[i].addr)
                         high == round_page_up(Add(mmap[i].addr, mmap[i].len))
                     IN  IF low >= high THEN <<0, 0>> ELSE <<Max({low, LowMem}), high>>],
              LAMBDA r : r[2] > LowMem)
boot_foreach_reserved_region == Append(ReservedAbove, <<0, LowMem>>)

Reserved == UNION {LET r == boot_foreach_reserved_region[i] IN r[1] .. r[2] - 1 :
                    i \in DOMAIN boot_foreach_reserved_region}
Image    == LowMem .. kernel_end - 1

-----------------------------------------------------------------------------
(* The bitmap allocator: the first run of free pages, at most count.       *)
(* Variant: the last page of the run stays free.                           *)
bitmap_alloc_pages_last(s, count) ==
    IF s.bits = {} THEN [s |-> s, addr |-> NULL, count |-> 0]
    ELSE LET first == Min(s.bits)
             n     == Max({k \in 1 .. count : first .. first + k - 1 \subseteq s.bits})
         IN  [s |-> [s EXCEPT !.bits = @ \ (first .. first + n - 2)], addr |-> first, count |-> n]
bitmap_alloc_pages(s, count) ==
    IF s.bits = {} THEN [s |-> s, addr |-> NULL, count |-> 0]
    ELSE LET first == Min(s.bits)
             n     == Max({k \in 1 .. count : first .. first + k - 1 \subseteq s.bits})
         IN  [s |-> [s EXCEPT !.bits = @ \ (first .. first + n - 1)], addr |-> first, count |-> n]

(* The frame allocator, as FrameAlloc has it: build_free_list puts the     *)
(* highest run first, the end of the first run that fits is taken, and the *)
(* frame behind it is marked too.                                          *)
Unused(s) == {f \in DOMAIN s.type : s.type[f] = "UNUSED"}
RunEnd(s, f, unused) == Min({g \in f .. Cardinality(DOMAIN s.type) : g \notin unused})
LastRun(s, unused, count) ==
    With({f \in unused : f - 1 \notin unused /\ RunEnd(s, f, unused) - f >= count}, LAMBDA fits :
         IF fits = {} THEN NULL ELSE RunEnd(s, Max(fits), unused))
(* Variant: the frame before the run is taken as well.                     *)
frame_alloc_phys_pages_more(s, count) ==
    With(Unused(s), LAMBDA unused :
    With(LastRun(s, unused, count), LAMBDA end :
         IF end = NULL THEN [s |-> s, addr |-> NULL]
         ELSE [s    |-> [s EXCEPT !.type = [f \in DOMAIN @ |-> IF f \in end - count - 1 .. end THEN "USED" ELSE @[f]]],
               addr |-> end - count]))
frame_alloc_phys_pages(s, count) ==
    With(Unused(s), LAMBDA unused :
    With(LastRun(s, unused, count), LAMBDA end :
         IF end = NULL THEN [s |-> s, addr |-> NULL]
         ELSE [s    |-> [s EXCEPT !.type = [f \in DOMAIN @ |-> IF f \in end - count .. end THEN "USED" ELSE @[f]]],
               addr |-> end - count]))

(* pfn_to_pa(NULL) is a wild address: the model stops.                     *)
mm_alloc_pagetable(s) ==
    IF s.alloc_type = "BITMAP" THEN bitmap_alloc_pages(s, 1)
    ELSE With(frame_alloc_phys_pages(s, 1), LAMBDA a :
              IF a.addr = NULL THEN [a EXCEPT !.s.result = "wild"] ELSE a)

(* The caller reads the descriptor NULL when there is no run: "wild".      *)
mm_alloc_pages(s, count) ==
    With(frame_alloc_phys_pages(s, count), LAMBDA a :
         IF a.addr = NULL THEN [a EXCEPT !.s.result = "wild"]
         ELSE [a EXCEPT !.s.ref_count = [f \in DOMAIN @ |->
                 IF f \in a.addr .. a.addr + count - 1 THEN 1 ELSE @[f]]])

ensure_page_table(s, va) ==
    IF Present(get_table_entry(s.mem, va)) THEN s
    ELSE With(mm_alloc_pagetable(s), LAMBDA t :
         IF t.s.result = "wild" THEN t.s
         ELSE IF t.addr = NULL THEN [s EXCEPT !.result = "no_table"]
         ELSE map_table_entry(t.s, t.addr, va))

(* Table by table; the pages before a missing table stay mapped.           *)
RECURSIVE map_phys_range(_, _, _, _, _)
map_phys_range(s, pa, va, count, hw_flags) ==
    LET n == Min({count, ENTRIES_AMOUNT - get_pte_index(va)})
    IN  IF count = 0 THEN s
        ELSE With(ensure_page_table(s, va), LAMBDA t :
             IF t.result # "ok" THEN t
             ELSE With(map_page_entry(t, pa, va, n, hw_flags), LAMBDA u :
                  map_phys_range(u, pa + n, va + n, count - n, hw_flags)))

paging_map_pages(s, pa, va, count, paging_flags) ==
    map_phys_range([s EXCEPT !.result = "ok"], pa, va, count,
                   paging_to_hw_flags(paging_flags \cup {"PRESENT"}))

(* The result of can_map_pages is not used.                                *)
paging_map_identity(s, pa, count, paging_flags) == paging_map_pages(s, pa, pa, count, paging_flags)

(* What the caller of paging_map_pages asks for; a page that gets no table *)
(* is left out.                                                            *)
Asked(w, s, pa, va, count) ==
    [p \in {q \in va .. va + count - 1 : Present(get_table_entry(s.mem, q))} |-> pa + p - va] @@ w

-----------------------------------------------------------------------------
Init ==
    /\ mmap \in Maps
    /\ phase = "entry" /\ status = "ok"
    /\ mm = [mem |-> [f \in Frames |-> Zeroed], tlb |-> [va \in Pages |-> Absent], bits |-> {},
             type |-> <<>>, ref_count |-> <<>>, alloc_type |-> "NONE", result |-> "ok"]
    /\ want = <<>>
    /\ bump = [alloc_addr |-> MM_AREA_VIRT * PAGE_SIZE, max_addr |-> MM_AREA_VIRT, goal |-> MM_AREA_VIRT]
    /\ virt = {} /\ buffer = <<>> /\ shared = {}

Stop(why) == status' = why /\ UNCHANGED <<phase, mm, want, bump, virt, buffer, shared>>

(* Paging is on, with the tables of the kernel image.                      *)
InitPaging ==
    LET off == HIGH_VADDR - LowMem
        m   == init_paging(LowMem, kernel_base, kernel_end, off)
    IN  /\ phase = "entry"
        /\ phase' = "paging"
        /\ mm' = [mm EXCEPT !.mem = m, !.tlb = set_cr3(m)]
        /\ want' = [va \in 0 .. ENTRIES_AMOUNT - 1 |-> va] @@ [va \in {f + off : f \in Image} |-> va - off]
        /\ UNCHANGED <<mmap, status, bump, virt, buffer, shared>>

(* One byte is cleared for each page, though a byte stands for eight: more *)
(* pages than bytes overrun the array.                                     *)
reset_pages_allocated_overruns == get_max_memory > PAGES_ARR_SIZE

init_bitmap_phys_allocator ==
    /\ phase = "paging" /\ status = "ok"
    /\ UNCHANGED mmap
    /\ IF reset_pages_allocated_overruns THEN Stop("overrun")
       ELSE /\ mm' = [mm EXCEPT !.bits = (boot_foreach_free_page \ Reserved) \ Image, !.alloc_type = "BITMAP"]
            /\ phase' = "bump"
            /\ bump' = [bump EXCEPT !.goal = MM_AREA_VIRT + INIT_SIZE]
            /\ UNCHANGED <<status, want, virt, buffer, shared>>

(* One round of the loop: a run of pages is taken and mapped.  That the    *)
(* mapping failed is not noticed.                                          *)
early_alloc_and_map ==
    /\ phase \in {"bump", "grow"} /\ status = "ok" /\ bump.max_addr < bump.goal
    /\ UNCHANGED mmap
    /\ IF mm.bits = {} THEN Stop("halt")
       ELSE \E a \in {bitmap_alloc_pages(mm, bump.goal - bump.max_addr)} :
            /\ mm' = paging_map_pages(a.s, a.addr, bump.max_addr, a.count, {"WRITE", "READ"})
            /\ want' = Asked(want, mm', a.addr, bump.max_addr, a.count)
            /\ bump' = [bump EXCEPT !.max_addr = @ + a.count]
            /\ UNCHANGED <<phase, status, virt, buffer, shared>>

(* The descriptors do not fit into the first pages: map up to their end.   *)
(* Variant: the end is rounded down.                                       *)
bump_alloc_align_down ==
    LET needed_end == bump.alloc_addr + get_max_memory * DescSize
    IN  /\ phase = "bump" /\ status = "ok" /\ bump.max_addr = bump.goal
        /\ bump' = [bump EXCEPT !.alloc_addr = needed_end, !.goal = Max({@, needed_end \div PAGE_SIZE})]
        /\ phase' = "grow"
        /\ UNCHANGED <<mmap, status, mm, want, virt, buffer, shared>>
bump_alloc_align ==
    LET needed_end == bump.alloc_addr + get_max_memory * DescSize
    IN  /\ phase = "bump" /\ status = "ok" /\ bump.max_addr = bump.goal
        /\ bump' = [bump EXCEPT !.alloc_addr = needed_end,
                                !.goal = Max({@, DivUp(needed_end, PAGE_SIZE)})]
        /\ phase' = "grow"
        /\ UNCHANGED <<mmap, status, mm, want, virt, buffer, shared>>

DescPages == MM_AREA_VIRT .. bump.max_addr - 1

mark_range(s, pages, type, ref_count) ==
    [s EXCEPT !.type      = [f \in DOMAIN @ |-> IF f \in pages THEN type ELSE @[f]],
              !.ref_count = [f \in DOMAIN @ |-> IF f \in pages THEN ref_count ELSE @[f]]]

(* Variant: tables are marked, the last one is missed.                     *)
boot_foreach_page_struct_short(mem) ==
    {page_directory} \cup
    {virt_to_phys(mem, get_page_table(mem, d)) : d \in {e \in 0 .. ENTRIES_AMOUNT - 3 : get_page_table(mem, e) # NULL}}
boot_foreach_page_struct(mem) ==
    {page_directory} \cup
    {virt_to_phys(mem, get_page_table(mem, d)) : d \in {e \in 0 .. ENTRIES_AMOUNT - 1 : get_page_table(mem, e) # NULL}}

(* The last descriptor is not part of the first mark; the pages of the     *)
(* descriptors are marked up to the one that holds the address one page    *)
(* before their end, and not that one.                                     *)
PfnPages(s) ==
    virt_to_phys(s.mem, MM_AREA_VIRT) .. virt_to_phys(s.mem, round_page_down(bump.alloc_addr - PAGE_SIZE)) - 1

init_phys_pages ==
    LET count  == get_max_memory
        none   == [mm EXCEPT !.type = [f \in 0 .. count - 1 |-> "NONE"], !.ref_count = [f \in 0 .. count - 1 |-> 0]]
        all    == mark_range(none, 0 .. count - 2, "RESERVED", 1)
        usable == mark_range(all, boot_foreach_free_page_region, "UNUSED", 0)
        resvd  == mark_range(usable, Reserved, "RESERVED", 0)
        kernel == mark_range(resvd, Image, "KERNELIMG", 1)
        descs  == mark_range(kernel, PfnPages(kernel), "PFN", 1)
    IN  /\ phase = "grow" /\ status = "ok" /\ bump.max_addr = bump.goal
        /\ UNCHANGED mmap
        /\ IF \E va \in MM_AREA_VIRT .. DivUp(bump.alloc_addr, PAGE_SIZE) - 1 : ~ Present(mm.tlb[va]) THEN Stop("fault")
           ELSE IF PfnPages(kernel) = {} THEN Stop("assert")
           ELSE /\ mm' = [descs EXCEPT !.type = [f \in DOMAIN @ |->
                            IF f \in boot_foreach_page_struct(mm.mem) THEN "PHYS_PAGES" ELSE @[f]]]
                /\ phase' = "marked"
                /\ UNCHANGED <<status, want, bump, virt, buffer, shared>>

(* reserve_map_page_region over the reserved regions from the i-th on.     *)
RECURSIVE ReserveMapFrom(_, _, _)
ReserveMapFrom(s, w, i) ==
    IF i > Len(boot_foreach_reserved_region) THEN [s |-> s, want |-> w]
    ELSE LET r == boot_foreach_reserved_region[i]
             n == r[2] - r[1]
         IN  With(paging_map_identity(s, r[1], n, {"WRITE", "PRESENT"}), LAMBDA t :
             ReserveMapFrom(mark_range(t, r[1] .. r[2] - 1, "RESERVED", 1),
                            Asked(w, t, r[1], r[1], n), i + 1))

Tables(s) == {s.mem[page_directory][d].frame : d \in {e \in 0 .. ENTRIES_AMOUNT - 1 : Present(s.mem[page_directory][e])}}
DescFrames(s) == {s.tlb[va].frame : va \in {p \in DescPages : Present(s.tlb[p])}}
InUse(s) == Image \cup Tables(s) \cup DescFrames(s)

(* The regions are mapped while the bitmap still hands out the tables; the *)
(* free list is then built from the descriptors' types.                    *)
init_frame_allocator ==
    /\ phase = "marked" /\ status = "ok"
    /\ \E done \in {ReserveMapFrom(mm, want, 1)} :
        /\ mm' = [done.s EXCEPT !.alloc_type = "FRAME"]
        /\ want' = done.want
        /\ shared' = Unused(done.s) \cap InUse(done.s)
    /\ phase' = "frames"
    /\ UNCHANGED <<mmap, status, bump, virt, buffer>>

(* The rest of init_memory: the heap's first pages, and the three regions. *)
init_heap ==
    LET at == DivUp(bump.alloc_addr, PAGE_SIZE)
    IN  /\ phase = "frames" /\ status = "ok"
        /\ UNCHANGED mmap
        /\ \E a \in {mm_alloc_pages(mm, HeapInit)} :
           \E s \in {IF a.addr = NULL THEN a.s
                   ELSE paging_map_pages(a.s, a.addr, at, HeapInit, {"READ", "WRITE", "NOEXEC"})} :
           IF s.result = "wild" THEN Stop("wild")
           ELSE /\ mm' = s
                /\ want' = Asked(want, s, a.addr, at, HeapInit)
                /\ virt' = {<<HIGH_VADDR, HIGH_VADDR + Cardinality(Image)>>, <<MM_AREA_VIRT, at>>, <<at, at + HeapMax>>}
                /\ phase' = "run"
                /\ UNCHANGED <<status, bump, buffer, shared>>

-----------------------------------------------------------------------------
vregion_to_vflags(region) ==
    CASE region = "KERNELIMG" -> {"READ", "EXEC", "WRITE"}
      [] region \in {"PFN", "HEAP", "BIO_BUFFER"} -> {"READ", "WRITE"}
      [] region = "USER" -> {"READ", "WRITE", "USER"}
      [] region \in {"CACHE", "ACPI"} -> {"READ", "SHARED"}
      [] region \in {"MMIO", "DRIVER"} -> {"READ", "WRITE", "SHARED"}
      [] OTHER -> {}

vflags_to_paging(vmm_flags) ==
    {"PRESENT"} \cup (vmm_flags \cap {"READ", "USER", "WRITE"})
                \cup (IF "EXEC" \in vmm_flags THEN {} ELSE {"NOEXEC"})

(* First fit between two regions, as VirtRegion has it.  Bound: there is   *)
(* such a gap; only one buffer is in use at a time.                        *)
Gaps(count) == {r[2] : r \in {q \in virt : \E p \in virt : q[2] + count <= p[1] /\
                                    \A x \in virt : ~ (q[2] <= x[1] /\ x[1] < p[1])}}

(* vmap_pages marks the region again, to no effect, and maps the frames.   *)
kvalloc_pages(count) ==
    /\ phase = "run" /\ status = "ok" /\ buffer = <<>>
    /\ UNCHANGED mmap
    /\ \E va \in {Min(Gaps(count))} :
        \E a \in {mm_alloc_pages(mm, count)} :
           \E s \in {IF a.addr = NULL THEN a.s
                   ELSE paging_map_pages(a.s, a.addr, va, count, vflags_to_paging(vregion_to_vflags("BIO_BUFFER")))} :
           IF s.result = "wild" THEN Stop("wild")
           ELSE /\ mm' = s
                /\ want' = Asked(want, s, a.addr, va, count)
                /\ virt' = virt \cup {<<va, va + count>>}
                /\ buffer' = <<va, count>>
                /\ UNCHANGED <<phase, status, bump, shared>>

(* Only the region is released: the pages stay mapped and the frames used. *)
kvfree_pages ==
    /\ phase = "run" /\ status = "ok" /\ buffer # <<>>
    /\ virt' = {r \in virt : ~ (r[1] <= buffer[1] /\ buffer[1] < r[2])}
    /\ buffer' = <<>>
    /\ UNCHANGED <<mmap, phase, status, mm, want, bump, shared>>

Next ==
    \/ InitPaging
    \/ init_bitmap_phys_allocator
    \/ early_alloc_and_map
    \/ bump_alloc_align
    \/ init_phys_pages
    \/ init_frame_allocator
    \/ init_heap
    \/ \E count \in Counts : kvalloc_pages(count)
    \/ kvfree_pages

(* The only thread is never preempted for ever.                            *)
Spec == Init /\ [][Next]_vars /\ WF_vars(Next)

-----------------------------------------------------------------------------
(* The pages the kernel may use, stated from the map without rounding: all *)
(* of the page is in one available entry, none of it in a reserved one, it *)
(* is above 1 MiB and not part of the image.                               *)
Units(e) == e.addr .. e.addr + e.len - 1
PageUnits(p) == p * PAGE_SIZE .. (p + 1) * PAGE_SIZE - 1
Ram == {p \in LowMem .. get_max_memory - 1 :
            /\ \E e \in Entries : e.available /\ PageUnits(p) \subseteq Units(e)
            /\ \A e \in Entries : ~ e.available => PageUnits(p) \cap Units(e) = {}} \ Image

(* While the bitmap is the allocator, each usable page of the memory map   *)
(* is either free in it or in use as a page table or for descriptors, and  *)
(* nothing else is free: the roundings of boot_data.c, the order of        *)
(* freeing and reserving, and the tables that paging takes between two     *)
(* runs of descriptor pages neither lose a page nor give one out twice.    *)
BitmapExact ==
    mm.alloc_type = "BITMAP" /\ status = "ok" =>
        /\ mm.bits \cap InUse(mm) = {}
        /\ mm.bits # {} => mm.bits = Ram \ InUse(mm)

(* The pages of the descriptors that init_phys_pages does not mark.        *)
UnmarkedDescs ==
    {mm.tlb[va].frame : va \in {p \in DescPages : p >= round_page_down(bump.alloc_addr - PAGE_SIZE)}}

(* The tables for reserved regions above the first table's span, which     *)
(* init_frame_allocator takes from the bitmap after the marking.           *)
LateTables ==
    {mm.mem[page_directory][d].frame :
        d \in {get_pde_index(p) : p \in Reserved} \cap
             {e \in 1 .. ENTRIES_AMOUNT - 2 : Present(mm.mem[page_directory][e])}}

(* The frame allocator starts with exactly the usable pages that are not   *)
(* in use, and two kinds of pages besides that are in use: the last pages  *)
(* of the descriptors and the tables mapped for reserved regions.  Both    *)
(* can be handed out again.  Frame 0 is not free and free frames have no   *)
(* references, as FrameAlloc assumes.                                      *)
HandOffExact ==
    phase = "frames" =>
        /\ Unused(mm) = (Ram \ InUse(mm)) \cup UnmarkedDescs \cup LateTables
        /\ shared = UnmarkedDescs \cup LateTables
        /\ mm.type[0] # "UNUSED"
        /\ \A f \in Unused(mm) : mm.ref_count[f] = 0

(* Nothing that was in use at the hand-over has been given out again.      *)
Intact == phase # "entry" /\ (mm.alloc_type = "FRAME" => shared \subseteq Unused(mm))

(* The processor reaches, through tables and cached translations, the      *)
(* frame last asked for each page, with the rights asked for, and no other *)
(* page: tables installed later, pages mapped again after kvfree_pages and *)
(* mappings that failed half-way do not disturb a translation.             *)
TranslationExact ==
    Intact => \A va \in 0 .. TableWindow(0) - 1 :
        IF va \in DOMAIN want
        THEN mm.tlb[va] = [frame |-> want[va], flags |-> KernelFlags] /\ virt_to_phys(mm.mem, va) = want[va]
        ELSE mm.tlb[va] = Absent /\ virt_to_phys(mm.mem, va) = NULL

(* Above the image no frame is behind two pages, and none of them is a     *)
(* page table, part of the image or outside the usable pages.              *)
OneUse ==
    LET pages == {va \in HIGH_VADDR + Cardinality(Image) .. TableWindow(0) - 1 : Present(mm.tlb[va])}
    IN  Intact =>
        /\ {mm.tlb[va].frame : va \in pages} \subseteq Ram \ Tables(mm)
        /\ \A v, w \in pages : v # w => mm.tlb[v].frame # mm.tlb[w].frame

(* Once the frame allocator is in charge, a step takes from the free       *)
(* frames exactly those that it maps or installs as page tables; none      *)
(* comes back, so that each buffer of a file read costs its frames.        *)
Mapped(s) == {s.tlb[va].frame : va \in {p \in HIGH_VADDR .. TableWindow(0) - 1 : Present(s.tlb[p])}}
TakenFramesAreMapped ==
    [][Intact' /\ phase \in {"frames", "run"} =>
        /\ Unused(mm) \ Unused(mm') = (Mapped(mm') \cup Tables(mm')) \ (Mapped(mm) \cup Tables(mm))
        /\ Unused(mm') \subseteq Unused(mm)]_vars

(* The pages start-up needs: descriptors, the tables for them, for the     *)
(* heap and for reserved regions, and the heap; two more so that one of    *)
(* the at most three runs holds the first pages of the heap.               *)
Spans(pages) == {get_pde_index(p) : p \in pages} \ {0}
Fits ==
    LET descs == MM_AREA_VIRT .. MM_AREA_VIRT + DivUp(get_max_memory * DescSize, PAGE_SIZE) - 1
        heap  == Max(descs) + 1 .. Max(descs) + HeapInit
    IN  /\ get_max_memory <= PAGES_ARR_SIZE
        /\ Cardinality(Ram) >= Cardinality(descs) + Cardinality(Spans(descs \cup heap \cup Reserved)) + HeapInit + 2

(* Start-up comes to its end on every map with that many pages: no loop of *)
(* the allocators spins and no mapping it depends on is missing.           *)
StartUpCompletes == Fits ~> phase = "run"

=============================================================================
