----------------------------- MODULE VirtRegion -----------------------------
(***************************************************************************)
(* memory/virt: the map of the kernel's virtual address space.  Regions    *)
(* are half-open page intervals <<from, to>> kept in a red-black tree      *)
(* (RBTree) ordered by interval_cmp.  init_memory marks the kernel image,  *)
(* the page descriptors and the heap; kvalloc_pages takes the first gap    *)
(* for a file-system buffer and kvfree_pages gives it back; the heap and   *)
(* ACPI mark pages they map.  Addresses are page numbers; page 0 is NULL.  *)
(* Calls do not interleave, so one call is one step.  The frames behind    *)
(* the pages belong to FrameAlloc; page tables are not modelled.           *)
(***************************************************************************)
EXTENDS Integers, Sequences, FiniteSets, FiniteSetsExt

CONSTANTS
    Top,        \* pages in the 32-bit address space: addresses wrap at Top
    HIGH_VADDR, \* first page of the kernel's part
    Boot,       \* what init_memory marks, in order: [from, count]
    Heap,       \* the pages at which add_heap_region may map more heap
    Identity,   \* the pages vmap_identity may be asked for
    Counts,     \* sizes asked of kvalloc_pages
    MaxHeld     \* bound: buffers held at a time

ASSUME SpaceAssumption == Top \in Nat /\ HIGH_VADDR \in 1 .. Top - 1
ASSUME BootAssumption ==
    \A i \in DOMAIN Boot : Boot[i].from \in HIGH_VADDR .. Top - 1 /\ Boot[i].count \in 1 .. Top
ASSUME ClientAssumption ==
    Heap \cup Identity \subseteq 1 .. Top - 1 /\ Counts \subseteq 1 .. Top /\ MaxHeld \in Nat

VARIABLES
    virt_kernel_tree,
    held,       \* the <<va, count>> of the buffers kvalloc_pages returned
    status      \* "run"; "abort": an assert failed; "overlap": a live region mapped over

vars == <<virt_kernel_tree, held, status>>

interval_cmp(a, b) == IF a[2] <= b[1] THEN -1 ELSE IF b[2] <= a[1] THEN 1 ELSE 0

INSTANCE RBTree WITH cmp <- interval_cmp

(* count pages from page from; the end is a 32-bit address.                *)
virt_interval(from, count) == <<from, (from + count) % Top>>

(* An interval that overlaps a region already there is silently dropped.   *)
kvregion_mark(t, from, count) == rb_insert(t, virt_interval(from, count))

RECURSIVE Marked(_, _)
Marked(t, i) ==
    IF i > Len(Boot) THEN t ELSE Marked(kvregion_mark(t, Boot[i].from, Boot[i].count), i + 1)

Init ==
    /\ virt_kernel_tree = Marked(rb_init_tree, 1)
    /\ held = {}
    /\ status = "run"

Running == status = "run" /\ ~ virt_kernel_tree.fault

-----------------------------------------------------------------------------
(* The regions as rb_min and rb_next visit them.                           *)
RECURSIVE WalkFrom(_, _)
WalkFrom(t, n) == IF n = NULL THEN <<>> ELSE <<n>> \o WalkFrom(t, rb_next(t, n))
Walk(t) == WalkFrom(t, rb_min(t))

(* The address after interval i when size pages fit below the top, else 0. *)
AfterEnd(i, size) == IF (Top - i[2]) % Top >= size THEN i[2] ELSE 0

(* The indices of the regions followed by a gap of at least size pages.    *)
(* Variant: a gap one page too small is taken.                             *)
GapsAfter_short(r, size) == {i \in 1 .. Len(r) - 1 : (r[i + 1][1] - r[i][2]) % Top >= size - 1}
GapsAfter(r, size) == {i \in 1 .. Len(r) - 1 : (r[i + 1][1] - r[i][2]) % Top >= size}

(* First fit: before the first region, between two, after the last.  When  *)
(* the loop over the gaps ends, cur is still the last but one region.      *)
find_gap_start(t, size) ==
    LET r      == Walk(t)
        before == IF r = <<>> THEN Top ELSE r[1][1]
        gaps   == GapsAfter(r, size)
    IN  IF before - HIGH_VADDR >= size THEN HIGH_VADDR
        ELSE IF r = <<>> THEN 0
        ELSE IF Len(r) = 1 THEN AfterEnd(r[1], size)
        ELSE IF gaps # {} THEN r[Min(gaps)][2]
        ELSE AfterEnd(r[Len(r) - 1], size)

(* assert(cur->from >= min_addr) *)
GapAssert(t) == rb_min(t) # NULL => rb_min(t)[1] >= HIGH_VADDR

(* Variant: the probe is an empty interval.                                *)
search_interval_addr_empty(t, va) == rb_search(t, virt_interval(va, 0))
search_interval_addr(t, va) == rb_search(t, virt_interval(va, 1))

kvregion_is_free(t, va) == va # 0 /\ search_interval_addr(t, va) = NULL

kvregion_count(t, va) == LET i == search_interval_addr(t, va) IN (i[2] - i[1]) % Top

(* Bound: no buffer reaches the end of the address space, where the end of *)
(* an interval would wrap to 0 and compare below every region.             *)
BelowTop(count) == find_gap_start(virt_kernel_tree, count) + count < Top

-----------------------------------------------------------------------------
(* kvregion_reserve marks the gap it found; vmap_pages marks the same      *)
(* pages again.  A failed reserve is not noticed: page 0 is mapped.  A     *)
(* buffer mapped over a live region replaces its frames: what the kernel   *)
(* does from then on is undefined, and the model stops.                    *)
kvalloc_pages(count) ==
    /\ Running /\ Cardinality(held) < MaxHeld /\ BelowTop(count)
    /\ IF ~ GapAssert(virt_kernel_tree)
       THEN status' = "abort" /\ UNCHANGED <<virt_kernel_tree, held>>
       ELSE LET va       == find_gap_start(virt_kernel_tree, count)
                reserved == IF va = 0 THEN virt_kernel_tree ELSE kvregion_mark(virt_kernel_tree, va, count)
            IN  /\ virt_kernel_tree' = kvregion_mark(reserved, va, count)
                /\ held' = held \cup {<<va, count>>}
                /\ status' = IF virt_kernel_tree' = virt_kernel_tree THEN "overlap" ELSE "run"

kvfree_pages(b) ==
    LET region == search_interval_addr(virt_kernel_tree, b[1])
    IN  /\ Running
        /\ held' = held \ {b}
        /\ IF region = NULL
           THEN status' = "abort" /\ UNCHANGED virt_kernel_tree
           ELSE virt_kernel_tree' = rb_remove_node(virt_kernel_tree, region) /\ UNCHANGED status

vmap_pages(va, count) ==
    /\ Running
    /\ virt_kernel_tree' = kvregion_mark(virt_kernel_tree, va, count)
    /\ UNCHANGED <<held, status>>

add_heap_region == \E va \in Heap : vmap_pages(va, 1)

vmap_identity == \E pa \in Identity : vmap_pages(pa, 1)

Next ==
    \/ \E count \in Counts : kvalloc_pages(count)
    \/ \E b \in held : kvfree_pages(b)
    \/ add_heap_region
    \/ vmap_identity

Spec == Init /\ [][Next]_vars

-----------------------------------------------------------------------------
Regions == Members(virt_kernel_tree)
Intact  == ~ virt_kernel_tree.fault

TypeOK ==
    /\ Regions \subseteq (0 .. Top - 1) \X (0 .. Top - 1)
    /\ \A f \in {"left", "right", "parent"} :
        virt_kernel_tree[f] \in [Regions -> Regions \cup {NULL}]
    /\ virt_kernel_tree.red \in [Regions -> BOOLEAN]
    /\ virt_kernel_tree.root \in Regions \cup {NULL}
    /\ held \subseteq (0 .. Top - 1) \X Counts
    /\ status \in {"run", "abort", "overlap"}

RECURSIVE WalkBack(_, _)
WalkBack(t, n) == IF n = NULL THEN <<>> ELSE WalkBack(t, rb_prev(t, n)) \o <<n>>

(* Through every rotation of rb_insert and rb_remove_node the tree stays a *)
(* search tree of exactly the live, pairwise disjoint regions, and parent  *)
(* and child links stay mutual.  So rb_min with rb_next, and rb_max with   *)
(* rb_prev, visit every region once in address order, and rb_free_tree     *)
(* hands no node to its callback twice, and children before parents: it    *)
(* never steps on a freed node.  (It can miss nodes: before its first      *)
(* leaf, a node without a right child is taken for one whose children are  *)
(* done.)                                                                  *)
TreeOrdered ==
    LET walk  == Walk(virt_kernel_tree)
        freed == rb_free_tree(virt_kernel_tree)
    IN  /\ TypeOK
        /\ Intact =>
            /\ Ordered(virt_kernel_tree)
            /\ \A i, j \in DOMAIN walk : i < j => walk[i][2] <= walk[j][1]
            /\ {walk[i] : i \in DOMAIN walk} = Regions
            /\ WalkBack(virt_kernel_tree, rb_max(virt_kernel_tree)) = walk
            /\ \A i, j \in DOMAIN freed :
                /\ freed[i] = freed[j] => i = j
                /\ virt_kernel_tree.parent[freed[i]] = freed[j] => i < j

(* A page is reported free exactly when no region contains it, and the     *)
(* bounds are the nearest regions, and rb_remove_key takes out the region  *)
(* of the page and no other.  All go by one descent from the root, so a    *)
(* region that a rotation misplaced would be missed.                       *)
LookupsExact ==
    \A va \in 1 .. Top - 2 :
        LET page   == virt_interval(va, 1)
            above  == {i \in Regions : i[2] > va}
            below  == {i \in Regions : i[1] <= va}
            lowest == {i \in above : \A j \in above : i[1] <= j[1]}
            highest == {i \in below : \A j \in below : i[1] >= j[1]}
        IN  Intact =>
            /\ kvregion_is_free(virt_kernel_tree, va) <=> above \cap below = {}
            /\ \A i \in above \cap below : kvregion_count(virt_kernel_tree, va) = i[2] - i[1]
            /\ {rb_lower_bound(virt_kernel_tree, page)} \ {NULL} = lowest
            /\ {rb_upper_bound(virt_kernel_tree, page)} \ {NULL} = highest
            /\ Members(rb_remove_key(virt_kernel_tree, page)) = Regions \ (above \cap below)

(* Balance is only lost, and only harms, in a removal: an insert into a    *)
(* red-black tree leaves a red-black tree (black root, no red node under a *)
(* red one, as many black nodes on every path), and rb_delete_fixup goes   *)
(* through a NULL sibling only in a tree that had already lost its balance *)
(* in an earlier removal.                                                  *)
BalanceLostByRemovals ==
    [][/\ Balanced(virt_kernel_tree) /\ Regions \subseteq Regions' => Balanced(virt_kernel_tree)'
       /\ virt_kernel_tree'.fault => ~ Balanced(virt_kernel_tree)]_vars

(* A buffer is mapped over a live region only when no gap before or        *)
(* between the regions is large enough for it.                             *)
OverlapOnlyWithoutGap ==
    [][status' = "overlap" =>
        \E count \in Counts :
            /\ kvalloc_pages(count)
            /\ \A va \in HIGH_VADDR .. Top - 1 :
                (\E r \in Regions : r[1] >= va + count)
                    => \E p \in va .. va + count - 1 : ~ kvregion_is_free(virt_kernel_tree, p)]_vars

(* Every removal keeps the number of black nodes equal on all paths, as    *)
(* the case analysis in the comments of rb_delete_fixup argues.            *)
EqualHeights == Intact => EqualBlackHeights(virt_kernel_tree)

=============================================================================
