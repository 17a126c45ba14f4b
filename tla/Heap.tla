-------------------------------- MODULE Heap --------------------------------
(***************************************************************************)
(* memory/heap/heap.c: the kernel heap.  A buddy allocator hands out runs  *)
(* of 2^order pages; slab caches cut such runs into objects of one size.   *)
(* kmalloc serves small sizes from the standard caches and large ones from *)
(* the buddy allocator; kalloc_cache serves caches made by                 *)
(* kcreate_slab_cache.  Calls do not interleave, so one call is one step.  *)
(*                                                                         *)
(* Pages are virtual page numbers; the descriptor of a page is reached by  *)
(* its number.  The doubly linked free lists are sequences.  buddy_cache   *)
(* and buddy_order of a block follow from num_pages and are left out, but  *)
(* for the one word where they show: prev_slab of a new slab lies over     *)
(* buddy_order and alloc_slab does not set it (stale).                     *)
(***************************************************************************)
EXTENDS Integers, Sequences, FiniteSets, FiniteSetsExt, SequencesExt

CONSTANTS
    Start, Size,     \* the heap's first page and its initial pages
    BUDDY_ORDER_MAX,
    Caches,          \* 1 .. n: the caches by object size
    Custom,          \* the caches that come from kcreate_slab_cache
    SlabOrder,       \* slab_size of each cache, as an order
    ObjCount,        \* objects in a slab of each cache
    LargeOrders,     \* orders kmalloc asks of the buddy allocator itself
    MaxLive          \* bound: allocations in use at a time

Orders == 0 .. BUDDY_ORDER_MAX
Pages  == Start .. Start + Size - 1

ASSUME SizeAssumption   == Start \in Nat /\ Size \in Nat \ {0} /\ BUDDY_ORDER_MAX \in Nat
ASSUME CacheAssumption  ==
    /\ Custom \subseteq Caches /\ Caches \subseteq Nat \ {0}
    /\ SlabOrder \in [Caches -> Orders] /\ ObjCount \in [Caches -> Nat \ {0, 1}]
ASSUME LargeAssumption  == LargeOrders \subseteq Orders /\ MaxLive \in Nat

VARIABLES
    heap,     \* free lists and page descriptors
    live,     \* the allocations in use: [base, index, cache]; cache 0: a buddy block
    status    \* "run", or why the model stops

vars == <<heap, live, status>>

AllFlags == {"FREE", "BUDDY", "HEAD"}

(* The descriptor of a page that heads no slab has slab = <<>>.            *)
Blank == [flags |-> {}, num_pages |-> 0, slab |-> <<>>, slab_head |-> 0]

Push(h, order, p)   == [h EXCEPT !.free_buddies[order] = <<p>> \o @]
Unlink(h, order, p) == [h EXCEPT !.free_buddies[order] = SelectSeq(@, LAMBDA q : q # p)]

log2(n) == Max({e \in 0 .. n : 2^e <= n})

-----------------------------------------------------------------------------
(* Initial blocks: the largest that fits and is aligned, lowest first.     *)
(* They get the HEAD flag only.                                            *)
RECURSIVE add_buddies(_, _, _)
add_buddies(h, p, remaining) ==
    LET order == Max({o \in Orders : 2^o <= remaining /\ p % 2^o = 0})
    IN  IF remaining = 0 THEN h
        ELSE add_buddies(Push([h EXCEPT !.desc[p].flags = @ \cup {"HEAD"}, !.desc[p].num_pages = 2^order], order, p),
                         p + 2^order, remaining - 2^order)

init_heap_vars ==
    [free_buddies |-> [o \in Orders |-> <<>>], free_slabs |-> [c \in Caches |-> <<>>],
     desc |-> [p \in Pages |-> Blank], stale |-> {}]

Init ==
    /\ heap = add_buddies(init_heap_vars, Start, Size)
    /\ live = {}
    /\ status = "run"

(* The block that p of the given order merges with; 0 when there is none.  *)
Neighbour(h, p, order) ==
    LET q == IF (p \div 2^order) % 2 = 0 THEN p + 2^order ELSE p - 2^order
    IN  IF q \in Pages /\ h.desc[q].flags = AllFlags /\ h.desc[q].num_pages = h.desc[p].num_pages
        THEN q ELSE 0

(* Variant: the upper half stays on its list.                              *)
resolve_merge_kept(h, p, q, order) ==
    LET low == Min({p, q}) high == Max({p, q})
    IN  Push([Unlink(h, order, low) EXCEPT
                !.desc[high].flags = @ \ {"HEAD"}, !.desc[low].num_pages = 2 * @], order + 1, low)

resolve_merge(h, p, q, order) ==
    LET low == Min({p, q}) high == Max({p, q})
    IN  Push([Unlink(Unlink(h, order, low), order, high) EXCEPT
                !.desc[high].flags = @ \ {"HEAD"}, !.desc[low].num_pages = 2 * @], order + 1, low)

(* Variant: one merge, not all the way up.                                 *)
merge_upwards_once(h, p, order) ==
    LET q == Neighbour(h, p, order) IN IF q = 0 THEN h ELSE resolve_merge(h, p, q, order)

RECURSIVE merge_upwards(_, _, _)
merge_upwards(h, p, order) ==
    LET q == Neighbour(h, p, order)
    IN  IF q = 0 THEN h ELSE merge_upwards(resolve_merge(h, p, q, order), Min({p, q}), order + 1)

(* The flags of the upper half of a block that is split.                   *)
neighbor_flags(old) == AllFlags

(* Halve the first block of order until one of order og heads its list.    *)
RECURSIVE SplitDown(_, _, _)
SplitDown(h, order, og) ==
    LET p == Head(h.free_buddies[order])
        q == p + 2^(order - 1)
        popped == [h EXCEPT !.free_buddies[order] = Tail(@), !.desc[p].num_pages = @ \div 2,
                            !.desc[q].flags = neighbor_flags(@), !.desc[q].num_pages = h.desc[p].num_pages \div 2]
    IN  IF order = og THEN h
        ELSE SplitDown(Push(Push(popped, order - 1, p), order - 1, q), order - 1, og)

(* With no block of the order or above, the heap grows.                    *)
CanAlloc(h, order) == \E o \in order .. BUDDY_ORDER_MAX : h.free_buddies[o] # <<>>

(* The heap after alloc_buddy and the first page of the block.             *)
alloc_buddy(h, order) ==
    LET from  == Min({o \in order .. BUDDY_ORDER_MAX : h.free_buddies[o] # <<>>})
        split == SplitDown(h, from, order)
        p     == Head(split.free_buddies[order])
    IN  [page |-> p,
         heap |-> [split EXCEPT !.free_buddies[order] = Tail(@), !.desc[p].flags = @ \ {"FREE"}]]

free_buddy_ok(h, p) ==
    LET d == h.desc[p]
    IN  {"BUDDY", "HEAD"} \subseteq d.flags /\ "FREE" \notin d.flags /\ d.num_pages > 0
        /\ 2^log2(d.num_pages) = d.num_pages

free_buddy(h, p) ==
    LET order == log2(h.desc[p].num_pages)
    IN  merge_upwards(Push([h EXCEPT !.desc[p].flags = @ \cup {"FREE"}], order, p), p, order)

-----------------------------------------------------------------------------
Tails(p, order) == p + 1 .. p + 2^order - 1

(* The page on which object i of a slab of cache c begins.                 *)
ObjPage(p, i, c) == p + (i * 2^SlabOrder[c]) \div ObjCount[c]

(* What alloc_slab and free_slab read of a page other than flags.          *)
SlabOf(h, p) == h.desc[p].slab[1]

(* A new slab: the only one of its cache with room.                        *)
new_slab(h, c) ==
    LET order == SlabOrder[c]
        a     == alloc_buddy(h, order)
        p     == a.page
        Desc(q) == IF q = p
                   THEN [a.heap.desc[p] EXCEPT
                           !.flags = @ \ {"BUDDY"},
                           !.slab  = <<[cache |-> c, used_count |-> 0, free_node |-> [i \in 1 .. ObjCount[c] |-> i - 1]]>>]
                   ELSE IF q \in Tails(p, order)
                   THEN [a.heap.desc[q] EXCEPT !.flags = @ \ {"BUDDY", "HEAD"}, !.slab_head = p]
                   ELSE a.heap.desc[q]
    IN  [a.heap EXCEPT !.desc = [q \in Pages |-> Desc(q)], !.free_slabs[c] = <<p>>,
                       !.stale = IF order = 0 THEN @ ELSE @ \cup {p}]

(* Variant: a slab that is full stays on its cache's list.                 *)
take_object_full_kept(h, c) ==
    LET p == Head(h.free_slabs[c])
    IN  [h EXCEPT !.desc[p].slab[1].free_node = Tail(@), !.desc[p].slab[1].used_count = @ + 1]

(* The first free object of the first slab; a full slab leaves the list    *)
(* and prev_slab of the next is set to NULL.                               *)
take_object(h, c) ==
    LET p     == Head(h.free_slabs[c])
        taken == [h EXCEPT !.desc[p].slab[1].free_node = Tail(@), !.desc[p].slab[1].used_count = @ + 1]
        rest  == Tail(h.free_slabs[c])
    IN  IF SlabOf(taken, p).used_count = ObjCount[c]
        THEN [taken EXCEPT !.free_slabs[c] = rest, !.stale = @ \ (IF rest = <<>> THEN {} ELSE {rest[1]})]
        ELSE taken

(* The heap after alloc_slab and the object.                               *)
alloc_slab(h, c) ==
    LET ready == IF h.free_slabs[c] # <<>> THEN h ELSE new_slab(h, c)
        p     == Head(ready.free_slabs[c])
    IN  [heap |-> take_object(ready, c), obj |-> [base |-> p, index |-> Head(SlabOf(ready, p).free_node), cache |-> c]]

CanAllocSlab(h, c) == h.free_slabs[c] # <<>> \/ CanAlloc(h, SlabOrder[c])

(* Variant: used_count is not lowered.                                     *)
put_object_uncounted(h, p, i) ==
    [h EXCEPT !.desc[p].slab[1].free_node = <<i>> \o @]

(* Put object i back; a slab that was full heads the list of its cache.    *)
put_object(h, p, i) ==
    LET s   == SlabOf(h, p)
        old == h.free_slabs[s.cache]
        put == [h EXCEPT !.desc[p].slab[1].free_node = <<i>> \o @, !.desc[p].slab[1].used_count = @ - 1]
    IN  IF s.used_count = ObjCount[s.cache]
        THEN [put EXCEPT !.free_slabs[s.cache] = <<p>> \o @,
                         !.stale = @ \ ({p} \cup (IF old = <<>> THEN {} ELSE {old[1]}))]
        ELSE put

(* The slab is empty: off its list, its pages are a buddy block again.  A  *)
(* stale prev_slab goes into the next slab.                                *)
drop_slab(h, p, c) ==
    LET list == h.free_slabs[c]
        at   == CHOOSE k \in DOMAIN list : list[k] = p
        next == IF at < Len(list) THEN {list[at + 1]} ELSE {}
        Desc(q) == IF q = p THEN [h.desc[p] EXCEPT !.flags = @ \cup {"BUDDY"}, !.slab = <<>>]
                   ELSE IF q \in Tails(p, SlabOrder[c])
                   THEN [h.desc[q] EXCEPT !.flags = @ \cup {"BUDDY"}, !.slab_head = 0]
                   ELSE h.desc[q]
    IN  [h EXCEPT !.desc = [q \in Pages |-> Desc(q)], !.free_slabs[c] = RemoveAt(@, at),
                  !.stale = (@ \ {p}) \cup (IF p \in @ THEN next ELSE {})]

(* The head of the slab that page q lies in.                               *)
slab_desc(h, q) == IF "HEAD" \in h.desc[q].flags THEN q ELSE h.desc[q].slab_head

(* The block of an emptied slab is found by aligning the object's address. *)
(* Variant: the address is not aligned.                                    *)
slab_start_raw(q, order) == q
slab_start(q, order) == (q \div 2^order) * 2^order

Empties(h, p) == SlabOf(h, p).used_count = 1

free_slab(h, q, i) ==
    LET p   == slab_desc(h, q)
        c   == SlabOf(h, p).cache
        put == put_object(h, p, i)
    IN  IF Empties(h, p) THEN free_buddy(drop_slab(put, p, c), slab_start(q, SlabOrder[c])) ELSE put

-----------------------------------------------------------------------------
(* A request is served by cache c, or by the buddy allocator when c = 0.   *)
CanServe(c, order) == IF c = 0 THEN CanAlloc(heap, order) ELSE CanAllocSlab(heap, c)

Serve(c, order) ==
    LET a == alloc_buddy(heap, order)
    IN  IF c = 0 THEN [heap |-> a.heap, obj |-> [base |-> a.page, index |-> 0, cache |-> 0]]
        ELSE alloc_slab(heap, c)

(* add_heap_region hands vmap_pages a physical address where it expects a  *)
(* page descriptor: what the new part of the heap is mapped to is          *)
(* undefined, and the model stops.                                         *)
grow_heap == status' = "grow" /\ UNCHANGED <<heap, live>>

Allocate(c, order) ==
    /\ status = "run" /\ Cardinality(live) < MaxLive
    /\ IF CanServe(c, order)
       THEN LET r == Serve(c, order)
            IN  heap' = r.heap /\ live' = live \cup {r.obj} /\ UNCHANGED status
       ELSE grow_heap

kmalloc == (\E c \in Caches \ Custom : Allocate(c, 0)) \/ (\E order \in LargeOrders : Allocate(0, order))

kalloc_cache == \E c \in Custom : Allocate(c, 0)

PageOf(o) == IF o.cache = 0 THEN o.base ELSE ObjPage(o.base, o.index, o.cache)

(* The flags of its page tell whether an address is a buddy block.         *)
IsBuddy(h, o) == "BUDDY" \in h.desc[PageOf(o)].flags

(* A block without the flag is taken for a slab, though it heads none.     *)
Misread(h, o) == ~ IsBuddy(h, o) /\ h.desc[slab_desc(h, PageOf(o))].slab = <<>>

Freed(h, o) == IF IsBuddy(h, o) THEN free_buddy(h, PageOf(o)) ELSE free_slab(h, PageOf(o), o.index)

(* Every assertion of free_buddy, reached from kfree or from free_slab.    *)
FreeAsserts(h, o) ==
    LET p == slab_desc(h, PageOf(o))
        c == SlabOf(h, p).cache
    IN  IF IsBuddy(h, o) THEN free_buddy_ok(h, PageOf(o))
        ELSE Empties(h, p) =>
                free_buddy_ok(drop_slab(put_object(h, p, o.index), p, c), slab_start(PageOf(o), SlabOrder[c]))

(* free_slab writes through prev_slab when it empties a slab.              *)
WritesStale(h, o) ==
    LET p == slab_desc(h, PageOf(o)) IN ~ IsBuddy(h, o) /\ Empties(h, p) /\ p \in h.stale

(* The free of o, in heap h, by kfree or at the end of krealloc.  The      *)
(* write through a stale prev_slab lands in the first page of memory: a    *)
(* page fault, or nothing the heap notices.  A misread block is given to   *)
(* free_slab, which takes the list head of its order for a cache's number  *)
(* and asserts on it, or overwrites its descriptor.                        *)
Free(h, o, others) ==
    IF Misread(h, o)
    THEN /\ status' = IF h.free_buddies[log2(h.desc[o.base].num_pages)] # <<>> THEN "abort" ELSE "corrupt"
         /\ UNCHANGED <<heap, live>>
    ELSE IF ~ FreeAsserts(h, o) THEN status' = "abort" /\ UNCHANGED <<heap, live>>
    ELSE \/ WritesStale(h, o) /\ status' = "fault" /\ UNCHANGED <<heap, live>>
         \/ heap' = Freed(h, o) /\ live' = others /\ UNCHANGED status

kfree(o) == status = "run" /\ Free(heap, o, live \ {o})

(* A request no larger than the block or object keeps it.  A custom object *)
(* is never moved.  For a misread block the old size is the list head of   *)
(* the next order: NULL, and krealloc fails, or an address, and the block  *)
(* is returned as if it were large enough.                                 *)
Outgrows(o, c, order) ==
    IF IsBuddy(heap, o) THEN c = 0 /\ 2^order > heap.desc[o.base].num_pages
    ELSE o.cache \notin Custom /\ (c = 0 \/ c > o.cache)

krealloc(o, c, order) ==
    /\ status = "run" /\ Outgrows(o, c, order)
    /\ IF Misread(heap, o)
       THEN /\ heap.free_buddies[log2(heap.desc[o.base].num_pages) + 1] # <<>>
            /\ status' = "corrupt" /\ UNCHANGED <<heap, live>>
       ELSE IF ~ CanServe(c, order) THEN grow_heap
       ELSE LET r == Serve(c, order) IN Free(r.heap, o, (live \ {o}) \cup {r.obj})

Next ==
    \/ kmalloc
    \/ kalloc_cache
    \/ \E o \in live : kfree(o)
    \/ \E o \in live : (\E c \in Caches \ Custom : krealloc(o, c, 0)) \/ (\E order \in LargeOrders : krealloc(o, 0, order))

Spec == Init /\ [][Next]_vars

-----------------------------------------------------------------------------
Running == status = "run"

Blocks(order) == Range(heap.free_buddies[order])
Slabs         == {p \in Pages : heap.desc[p].slab # <<>>}
PagesOf(p, order) == p .. p + 2^order - 1

(* How often page q is covered by free blocks, large blocks and slabs.     *)
Covers(q) ==
    Cardinality({x \in Pages \X Orders : x[1] \in Blocks(x[2]) /\ q \in PagesOf(x[1], x[2])})
    + Cardinality({o \in live : o.cache = 0 /\ q \in o.base .. o.base + heap.desc[o.base].num_pages - 1})
    + Cardinality({p \in Slabs : q \in PagesOf(p, SlabOrder[SlabOf(heap, p).cache])})

TypeOK ==
    /\ heap.free_buddies \in [Orders -> Seq(Pages)]
    /\ heap.free_slabs \in [Caches -> Seq(Pages)]
    /\ heap.stale \subseteq Pages
    /\ \A p \in Pages : heap.desc[p].flags \subseteq AllFlags /\ heap.desc[p].num_pages \in 0 .. Size
    /\ \A o \in live : o.base \in Pages /\ o.cache \in Caches \cup {0}
    /\ status \in {"run", "grow", "abort", "corrupt", "fault"}

(* No page is lost and none is given out twice: through every split, merge *)
(* and slab, each page of the heap is in exactly one free block, one large *)
(* allocation or one slab.                                                 *)
PagesPartitioned == TypeOK /\ \A q \in Pages : Covers(q) = 1

(* The objects of a slab are each either in use or once on its free list,  *)
(* and used_count counts those in use: alloc_slab never hands out an       *)
(* object that has an owner.                                               *)
ObjectsOwned ==
    \A p \in Slabs :
        LET s    == SlabOf(heap, p)
            used == {o.index : o \in {x \in live : x.base = p}}
        IN  /\ \A o \in live : o.base = p => o.cache = s.cache
            /\ used \cap Range(s.free_node) = {}
            /\ used \cup Range(s.free_node) = 0 .. ObjCount[s.cache] - 1
            /\ s.used_count = Cardinality(used)
            /\ Len(s.free_node) = ObjCount[s.cache] - s.used_count

(* The descriptors agree with the lists: a block on the list of an order   *)
(* is aligned, heads 2^order pages and is not in a slab; a page marked as  *)
(* a free buddy head, which a merge would trust, is on its list.  Merging  *)
(* leaves no two free halves of one block side by side, unless one is an   *)
(* initial block that never got the flags of a free buddy.                 *)
FreeListsExact ==
    /\ \A order \in Orders : \A p \in Blocks(order) :
        /\ p % 2^order = 0
        /\ heap.desc[p].num_pages = 2^order
        /\ "HEAD" \in heap.desc[p].flags
        /\ p \notin Slabs
        /\ heap.desc[p].flags = AllFlags => Neighbour(heap, p, order) = 0
    /\ \A p \in Pages :
        heap.desc[p].flags = AllFlags => p \in Blocks(log2(heap.desc[p].num_pages))

(* A cache lists exactly its slabs with a free object, once each, and a    *)
(* prev_slab that was never set is only ever that of the first: the write  *)
(* through it cannot damage the list.                                      *)
SlabListsExact ==
    \A c \in Caches :
        LET list == heap.free_slabs[c]
            room == {p \in Slabs : SlabOf(heap, p).cache = c /\ SlabOf(heap, p).used_count < ObjCount[c]}
        IN  /\ Range(list) = room /\ Len(list) = Cardinality(room)
            /\ heap.stale \cap Range(Tail(list \o <<0>>)) \subseteq {0}
            /\ \A p \in room : SlabOf(heap, p).used_count > 0

(* The first pages of the blocks that init_heap cut.                       *)
InitialHeads == UNION {Range(add_buddies(init_heap_vars, Start, Size).free_buddies[o]) : o \in Orders}

(* kfree of any allocation in use passes every assertion of free_buddy,    *)
(* whatever calls came before; kfree and krealloc take one for a slab only *)
(* if it is a large one at the start of a block that init_heap cut.        *)
FreesSafe ==
    \A o \in live :
        IF Misread(heap, o) THEN o.cache = 0 /\ o.base \in InitialHeads
        ELSE Running => FreeAsserts(heap, o)

=============================================================================
