----------------------------- MODULE FrameAlloc -----------------------------
(***************************************************************************)
(* The physical frame allocator: memory/phys_alloc/frame_alloc.c, the      *)
(* page descriptors it works on (memory/core/pfn_handler.c) and its        *)
(* reference-counting front end memory/core/memory_manager.c.              *)
(*                                                                         *)
(* Frame p is descriptor descs[p], 0 <= p < N.  A descriptor is split into *)
(* one function per field.  A free run is an unbroken range of UNUSED      *)
(* frames; its first descriptor (the head) is linked in page_desc_free_ll  *)
(* and holds the run's length.  Null is -1, below every frame.             *)
(*                                                                         *)
(* The loops of the C code are loops here: build_free_list advances i, and *)
(* frame_alloc_phys_pages advances it, one step per iteration.             *)
(***************************************************************************)
EXTENDS Integers, FiniteSets

CONSTANTS
    N,          \* pfn_data.count: number of page descriptors
    Boot,       \* frame types left by init_phys_pages: UNUSED or OTHER
    MaxRequest, \* bound: largest request_count a caller passes
    MaxRef      \* bound: references to one frame

ASSUME NAssumption == N \in Nat \ {0}
(* The first MiB is always reserved (boot_foreach_reserved_region).        *)
ASSUME BootAssumption ==
    Boot \in [0 .. N-1 -> {"UNUSED", "OTHER"}] /\ Boot[0] = "OTHER"
ASSUME MaxAssumption == MaxRequest \in Nat \ {0} /\ MaxRef \in Nat \ {0}

VARIABLES
    type,              \* page_t.type; slot N is the word past the array
    ref_count,         \* page_t.ref_count
    next_desc,         \* page_t.u.free_page.next_desc
    prev_desc,         \* page_t.u.free_page.prev_desc
    count,             \* page_t.u.free_page.count
    page_desc_free_ll, \* head of the free list
    op,                \* the call in progress
    request_count,     \* its argument
    it,                \* frame_alloc's cursor; build_free_list's i; put's desc
    run_start,         \* build_free_list's run_start
    owners,            \* history: how many callers were handed each frame
    status             \* "run", or how the kernel stopped

desc_vars == <<ref_count, next_desc, prev_desc, count>>
call_vars == <<op, request_count, it, run_start>>
vars == <<type, desc_vars, page_desc_free_ll, call_vars, owners, status>>

Null  == -1
Pages == 0 .. N-1
Links == Pages \cup {Null}

(* OTHER stands for every type that is neither UNUSED nor USED: RESERVED,  *)
(* KERNELIMG, PFN, PHYS_PAGES, ...  The allocator tells none of them apart.*)
Types == {"UNUSED", "USED", "OTHER"}
Ops   == {"build", "idle", "alloc_pages", "alloc_pagetable", "put"}

(* "aborted": an assert() failed, which disables interrupts and halts.     *)
(* "oom": the caller used the NULL frame_alloc_phys_pages returned.        *)
(* "wild": a descriptor index outside the array was computed.              *)
Statuses == {"run", "aborted", "oom", "wild"}

Running(o) == status = "run" /\ op = o

Idle == /\ op' = "idle"
        /\ request_count' = 0
        /\ it' = Null
        /\ run_start' = Null

Stop(s) == /\ status' = s
           /\ UNCHANGED <<type, desc_vars, page_desc_free_ll, owners>>
           /\ Idle

-----------------------------------------------------------------------------
(* State after init_phys_pages and the memset of init_pfn_descriptors; a   *)
(* frame that is not UNUSED may or may not carry a reference.              *)
Init ==
    /\ type = [p \in 0 .. N |-> IF p = N THEN "OTHER" ELSE Boot[p]]
    /\ ref_count \in [Pages -> {0, 1}]
    /\ \A p \in Pages : Boot[p] = "UNUSED" => ref_count[p] = 0
    /\ next_desc = [p \in Pages |-> Null]
    /\ prev_desc = [p \in Pages |-> Null]
    /\ count = [p \in Pages |-> 0]
    /\ page_desc_free_ll = Null
    /\ op = "build"
    /\ request_count = 0
    /\ it = 0
    /\ run_start = Null
    /\ owners = [p \in Pages |-> 0]
    /\ status = "run"

(* One iteration of either inner loop of build_free_list: skip a frame in  *)
(* use, clearing its list fields, or extend (or open) the current run.     *)
ScanPastEnd ==
    /\ Running("build") /\ it <= N /\ run_start = Null
    /\ it' = it + 1
    /\ UNCHANGED <<type, desc_vars, page_desc_free_ll, op, request_count,
                   run_start, owners, status>>

build_free_list_scan ==
    /\ Running("build") /\ it < N
    /\ run_start # Null => type[it] = "UNUSED"
    /\ IF type[it] = "UNUSED"
       THEN /\ run_start' = IF run_start = Null THEN it ELSE run_start
            /\ UNCHANGED <<count, next_desc, prev_desc>>
       ELSE /\ count' = [count EXCEPT ![it] = 0]
            /\ prev_desc' = [prev_desc EXCEPT ![it] = Null]
            /\ next_desc' = [next_desc EXCEPT ![it] = Null]
            /\ UNCHANGED run_start
    /\ it' = it + 1
    /\ UNCHANGED <<type, ref_count, page_desc_free_ll, op, request_count,
                   owners, status>>

(* PushFront(h, nx, pv, ll): insert h at the front of the list whose link  *)
(* fields are nx and pv and whose head is ll.                              *)
PushFrontHeadFirst(h, nx, pv, ll) ==
    /\ next_desc' = [nx EXCEPT ![h] = h]
    /\ prev_desc' = [pv EXCEPT ![h] = Null]
    /\ page_desc_free_ll' = h

PushFront(h, nx, pv, ll) ==
    /\ next_desc' = [nx EXCEPT ![h] = ll]
    /\ prev_desc' = IF ll = Null THEN [pv EXCEPT ![h] = Null]
                    ELSE [[pv EXCEPT ![h] = Null] EXCEPT ![ll] = h]
    /\ page_desc_free_ll' = h

(* The end of a run: store its length in head and foot and push the head.  *)
run_length_inclusive == it - run_start + 1
run_length           == it - run_start

build_free_list_run ==
    /\ Running("build") /\ run_start # Null
    /\ it < N => type[it] # "UNUSED"
    /\ count' = [count EXCEPT ![run_start] = run_length, ![it - 1] = run_length]
    /\ PushFront(run_start, next_desc, prev_desc, page_desc_free_ll)
    /\ run_start' = Null
    /\ UNCHANGED <<type, ref_count, op, request_count, it, owners, status>>

build_free_list_return ==
    /\ Running("build") /\ run_start = Null /\ it = N
    /\ Idle
    /\ UNCHANGED <<type, desc_vars, page_desc_free_ll, owners, status>>

-----------------------------------------------------------------------------
(* A call of mm_alloc_pages (heap, kvalloc_pages) or of mm_alloc_pagetable *)
(* (paging) enters frame_alloc_phys_pages.                                 *)
StartAlloc(o, n) ==
    /\ Running("idle")
    /\ op' = o
    /\ request_count' = n
    /\ it' = page_desc_free_ll
    /\ UNCHANGED <<type, desc_vars, page_desc_free_ll, run_start, owners, status>>

mm_alloc_pages(n) == StartAlloc("alloc_pages", n)
mm_alloc_pagetable == StartAlloc("alloc_pagetable", 1)

Allocating == status = "run" /\ op \in {"alloc_pages", "alloc_pagetable"}

SkipExactFit ==
    /\ Allocating /\ it # Null /\ count[it] <= request_count
    /\ it' = next_desc[it]
    /\ UNCHANGED <<type, desc_vars, page_desc_free_ll, op, request_count,
                   run_start, owners, status>>

frame_alloc_phys_pages_skip ==
    /\ Allocating /\ it # Null /\ count[it] < request_count
    /\ it' = next_desc[it]
    /\ UNCHANGED <<type, desc_vars, page_desc_free_ll, op, request_count,
                   run_start, owners, status>>

block_end_index   == it + count[it]
alloc_start_index == block_end_index - request_count
AllocRange        == alloc_start_index .. block_end_index - 1

(* pfn_range_set_type is asked for one descriptor more than was requested. *)
MarkedFromBefore == alloc_start_index - 1 .. block_end_index - 1
MarkedUsed       == alloc_start_index .. block_end_index

(* The assertions of the marking loop.                                     *)
TakeableByRef(ps) == \A p \in ps : ref_count[p] = 0
Takeable(ps) == \A p \in ps : ref_count[p] = 0 /\ type[p] = "UNUSED"

(* Detach(h): the links and the list head once h is taken out of the list. *)
DetachForward(h) ==
    LET prev == prev_desc[h]
        next == next_desc[h]
    IN  [nx |-> IF prev = Null THEN next_desc
                ELSE [next_desc EXCEPT ![prev] = next],
         pv |-> prev_desc,
         ll |-> IF prev = Null THEN next ELSE page_desc_free_ll]

Detach(h) ==
    LET prev == prev_desc[h]
        next == next_desc[h]
    IN  [nx |-> IF prev = Null THEN next_desc
                ELSE [next_desc EXCEPT ![prev] = next],
         pv |-> IF next = Null THEN prev_desc
                ELSE [prev_desc EXCEPT ![next] = prev],
         ll |-> IF prev = Null THEN next ELSE page_desc_free_ll]

(* The run at it is long enough.  Its tail is taken; one descriptor more   *)
(* than requested is marked USED; when frames remain, the new length goes  *)
(* to the head and to the first frame taken.  mm_alloc_pages then sets the *)
(* reference counts, mm_alloc_pagetable does not.                          *)
frame_alloc_phys_pages_take ==
    /\ Allocating /\ it # Null /\ count[it] >= request_count
    /\ block_end_index <= N
    /\ Takeable(AllocRange)
    /\ type' = [p \in 0 .. N |->
                  IF p \in MarkedUsed THEN "USED" ELSE type[p]]
    /\ LET new_count == count[it] - request_count
       IN  IF new_count = 0
           THEN /\ next_desc' = Detach(it).nx
                /\ prev_desc' = Detach(it).pv
                /\ page_desc_free_ll' = Detach(it).ll
                /\ UNCHANGED count
           ELSE /\ count' = [count EXCEPT ![it] = new_count,
                                          ![alloc_start_index] = new_count]
                /\ UNCHANGED <<next_desc, prev_desc, page_desc_free_ll>>
    /\ ref_count' = [p \in Pages |->
                       IF op = "alloc_pages" /\ p \in AllocRange
                       THEN 1 ELSE ref_count[p]]
    /\ owners' = [p \in Pages |-> IF p \in AllocRange
                                  THEN owners[p] + 1 ELSE owners[p]]
    /\ Idle
    /\ UNCHANGED status

(* An assertion on a frame to be taken fails, or the stored count reaches  *)
(* past the last descriptor.                                               *)
frame_alloc_phys_pages_assert ==
    /\ Allocating /\ it # Null /\ count[it] >= request_count
    /\ ~(block_end_index <= N /\ Takeable(AllocRange))
    /\ Stop(IF Takeable(AllocRange \cap Pages) THEN "wild" ELSE "aborted")

(* The list is exhausted: NULL is returned and the caller dereferences it. *)
frame_alloc_phys_pages_null ==
    /\ Allocating /\ it = Null
    /\ Stop("oom")

-----------------------------------------------------------------------------
(* References.  A caller passes frames it was handed and still refers to.  *)
Held(b, n) == \A p \in b .. b+n-1 : p \in Pages /\ owners[p] > 0 /\ ref_count[p] > 0

mm_get_range(b, n) ==
    /\ Running("idle") /\ Held(b, n)
    /\ \A p \in b .. b+n-1 : ref_count[p] < MaxRef
    /\ ref_count' = [p \in Pages |-> IF p \in b .. b+n-1 THEN ref_count[p] + 1
                                     ELSE ref_count[p]]
    /\ UNCHANGED <<type, next_desc, prev_desc, count, page_desc_free_ll,
                   call_vars, owners, status>>

mm_put_range(b, n) ==
    /\ Running("idle") /\ Held(b, n)
    /\ op' = "put"
    /\ it' = b
    /\ request_count' = n
    /\ UNCHANGED <<type, desc_vars, page_desc_free_ll, run_start, owners, status>>

(* frame_free_phys_pages(p, 1): mark p UNUSED, extend the run backwards by *)
(* the count of the frame before it (whose run stays linked), forwards by  *)
(* the count of the frame after it (which is unlinked), and push the head. *)
extends_back(p) == p > 0 /\ type[p-1] = "UNUSED"
extends_fwd(p)  == p + 1 < N /\ type[p+1] = "UNUSED"
cur_head(p)     == IF extends_back(p) THEN p - count[p-1] ELSE p
cur_foot(p)     == IF extends_fwd(p) THEN p + count[p+1] ELSE p

frame_free_phys_pages(p) ==
    LET head == cur_head(p)
        foot == cur_foot(p)
        list == IF extends_fwd(p) THEN Detach(p+1)
                ELSE [nx |-> next_desc, pv |-> prev_desc, ll |-> page_desc_free_ll]
    IN  /\ type' = [type EXCEPT ![p] = "UNUSED"]
        /\ count' = [count EXCEPT ![head] = foot - head + 1,
                                  ![foot] = foot - head + 1]
        /\ PushFront(head, list.nx, list.pv, list.ll)
        /\ owners' = [owners EXCEPT ![p] = @ - 1]

(* mm_put_page on the current frame of the range; the last reference frees *)
(* it, unless the stored counts lead outside the descriptor array.         *)
put_current ==
    /\ ref_count' = [ref_count EXCEPT ![it] = @ - 1]
    /\ IF ref_count[it] = 1 THEN frame_free_phys_pages(it)
       ELSE UNCHANGED <<type, next_desc, prev_desc, count, page_desc_free_ll, owners>>
    /\ it' = it + 1
    /\ request_count' = request_count - 1
    /\ UNCHANGED <<op, run_start, status>>

mm_put_page ==
    /\ Running("put") /\ request_count > 0
    /\ IF ref_count[it] = 1 /\ (cur_head(it) < 0 \/ cur_foot(it) >= N)
       THEN Stop("wild")
       ELSE put_current

mm_put_range_return ==
    /\ Running("put") /\ request_count = 0
    /\ Idle
    /\ UNCHANGED <<type, desc_vars, page_desc_free_ll, owners, status>>

-----------------------------------------------------------------------------
(* An assert() that failed, a use of NULL or a wild index ends the run.    *)
Stopped == status # "run" /\ UNCHANGED vars

build_free_list ==
    build_free_list_scan \/ build_free_list_run \/ build_free_list_return

frame_alloc_phys_pages ==
    \/ frame_alloc_phys_pages_skip
    \/ frame_alloc_phys_pages_take
    \/ frame_alloc_phys_pages_assert
    \/ frame_alloc_phys_pages_null

(* What the kernel does today: nothing calls mm_put_page or mm_put_range.  *)
KernelNext ==
    \/ build_free_list
    \/ \E n \in 1 .. MaxRequest : mm_alloc_pages(n)
    \/ mm_alloc_pagetable
    \/ frame_alloc_phys_pages
    \/ Stopped

(* The whole interface of memory_manager.h.                                *)
Next ==
    \/ KernelNext
    \/ \E b \in Pages, n \in 1 .. MaxRequest : mm_get_range(b, n) \/ mm_put_range(b, n)
    \/ mm_put_page
    \/ mm_put_range_return

KernelSpec == Init /\ [][KernelNext]_vars
Spec       == Init /\ [][Next]_vars

(* The loops of the allocator run to their end: nothing preempts them for  *)
(* good, so every enabled iteration is eventually taken.                   *)
LiveKernelSpec ==
    KernelSpec /\ WF_vars(build_free_list) /\ WF_vars(frame_alloc_phys_pages)

-----------------------------------------------------------------------------
(* Every field keeps the range of its C declaration; links stay inside the *)
(* descriptor array or are NULL.                                           *)
TypeOK ==
    /\ type \in [0 .. N -> Types]
    /\ ref_count \in [Pages -> Nat]
    /\ next_desc \in [Pages -> Links]
    /\ prev_desc \in [Pages -> Links]
    /\ count \in [Pages -> 0 .. N]
    /\ page_desc_free_ll \in Links
    /\ op \in Ops
    /\ request_count \in Nat
    /\ it \in -1 .. N
    /\ run_start \in Links
    /\ owners \in [Pages -> Int]
    /\ status \in Statuses

(* No frame is ever handed to a second caller while a first one holds it,  *)
(* and a held frame is marked USED: frame_alloc_phys_pages checks every    *)
(* frame it takes, so this holds even after frame_free_phys_pages has      *)
(* damaged the free list.                                                  *)
OneOwner == \A p \in Pages : owners[p] \in {0, 1} /\ (owners[p] = 1 => type[p] = "USED")

(* The first frames of the maximal free runs.                              *)
Heads == {p \in Pages : type[p] = "UNUSED" /\ (p = 0 \/ type[p-1] # "UNUSED")}

(* The heads that build_free_list has already linked; all, once it is done.*)
Limit  == IF op # "build" THEN N ELSE IF run_start = Null THEN it ELSE run_start
Linked == {h \in Heads : h < Limit}

(* A linked head knows its neighbours: the next one is the nearest linked  *)
(* head below it, the previous one points back at it.                      *)
LinkOK(h) ==
    /\ next_desc[h] \in Linked \cup {Null} /\ next_desc[h] < h
    /\ \A k \in Linked : k < h => k <= next_desc[h]
    /\ next_desc[h] # Null => prev_desc[next_desc[h]] = h
    /\ prev_desc[h] \in Linked \cup {Null}
    /\ IF prev_desc[h] = Null THEN h = page_desc_free_ll
                              ELSE next_desc[prev_desc[h]] = h

(* A linked head holds the length of its maximal free run.                 *)
RunOK(h) ==
    /\ count[h] > 0 /\ h + count[h] <= N
    /\ \A q \in h .. h + count[h] - 1 : type[q] = "UNUSED" /\ ref_count[q] = 0
    /\ h + count[h] < N => type[h + count[h]] # "UNUSED"

(* The list starts at the highest linked head.                             *)
FirstOK ==
    /\ page_desc_free_ll \in Linked \cup {Null}
    /\ \A h \in Linked : h <= page_desc_free_ll
    /\ page_desc_free_ll # Null => prev_desc[page_desc_free_ll] = Null

(* Every free frame belongs to the run of a linked head.                   *)
Covered ==
    \A p \in Pages : p < Limit /\ type[p] = "UNUSED" =>
        \E h \in Linked : p \in h .. h + count[h] - 1

(* While nothing is freed, page_desc_free_ll links exactly the heads of    *)
(* the maximal free runs, in descending order and in both directions, and  *)
(* each head holds the length of its run: no free frame is lost by         *)
(* build_free_list or frame_alloc_phys_pages and no frame is listed twice. *)
FreeListExact == FirstOK /\ Covered /\ \A h \in Linked : LinkOK(h) /\ RunOK(h)

(* While nothing is freed, no assert() of the allocator fails and no index *)
(* leaves the descriptor array.                                            *)
NoFailedAssert == status \notin {"aborted", "wild"}

(* Every frame that was free at boot is still free, or was handed to       *)
(* exactly one caller: the extra descriptor that frame_alloc_phys_pages    *)
(* marks USED never takes a free frame away.                               *)
NoFrameLost ==
    \A p \in Pages : Boot[p] = "UNUSED" =>
        owners[p] = IF type[p] = "UNUSED" THEN 0 ELSE 1

(* When the search reaches the end of the list there really is no run of   *)
(* request_count free frames anywhere: frame_alloc_phys_pages returns NULL *)
(* only then.                                                              *)
NullOnlyWhenNothingFits ==
    Allocating /\ it = Null =>
        \A s \in 0 .. N - request_count :
            \E p \in s .. s + request_count - 1 : type[p] # "UNUSED"

(* A call of the allocator returns (or stops the kernel).                  *)
AllocReturns == Allocating ~> ~Allocating

=============================================================================
