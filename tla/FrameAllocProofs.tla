-------------------------- MODULE FrameAllocProofs --------------------------
(***************************************************************************)
(* Proofs about the frame allocator, for every number of frames and every  *)
(* boot layout.  Part 1 is about the whole interface (Spec), part 2 about  *)
(* the kernel as it is, which never frees a frame (KernelSpec).            *)
(***************************************************************************)
EXTENDS FrameAlloc, TLAPS

(* What a call in progress relies on: the range being put is inside the    *)
(* array and its frames are held, build_free_list's cursor is a frame, and *)
(* the search's cursor is a frame or NULL.                                 *)
CallInv ==
    /\ op = "put" =>
         /\ it >= 0 /\ it + request_count <= N
         /\ \A p \in it .. it + request_count - 1 : owners[p] = 1 /\ ref_count[p] > 0
    /\ op = "build" => it >= 0 /\ (run_start # Null => run_start < it)
    /\ op \in {"alloc_pages", "alloc_pagetable"} => it < N /\ request_count > 0

ApiInv == TypeOK /\ OneOwner /\ CallInv

(* The state that init_phys_pages leaves satisfies the invariant.          *)
LEMMA InitApiInv == Init => ApiInv
<1> SUFFICES ASSUME Init PROVE ApiInv
  OBVIOUS
<1>1. type \in [0 .. N -> Types]
  BY NAssumption, BootAssumption DEF Init, Types
<1>2. ref_count \in [Pages -> Nat] /\ owners \in [Pages -> Int]
  BY DEF Init
<1>3. next_desc \in [Pages -> Links] /\ prev_desc \in [Pages -> Links]
      /\ page_desc_free_ll \in Links /\ run_start \in Links
  BY DEF Init, Links
<1>4. count \in [Pages -> 0 .. N] /\ it \in -1 .. N /\ request_count \in Nat
  BY NAssumption DEF Init
<1>5. op \in Ops /\ status \in Statuses
  BY DEF Init, Ops, Statuses
<1>6. OneOwner /\ CallInv
  BY DEF Init, OneOwner, CallInv
<1> QED BY <1>1, <1>2, <1>3, <1>4, <1>5, <1>6 DEF ApiInv, TypeOK

(* Every way of stopping leaves the descriptors alone.                     *)
LEMMA StopApiInv ==
  ASSUME ApiInv, NEW s \in Statuses, Stop(s)
  PROVE  ApiInv'
  BY NAssumption
  DEF Stop, Idle, ApiInv, TypeOK, OneOwner, CallInv, Pages, Links, Null, Ops, desc_vars

(* Unlinking a descriptor yields links and a list head of the right type.  *)
LEMMA DetachType ==
  ASSUME TypeOK, NEW h \in Pages
  PROVE  /\ Detach(h).nx \in [Pages -> Links]
         /\ Detach(h).pv \in [Pages -> Links]
         /\ Detach(h).ll \in Links
  BY DEF Detach, TypeOK, Links, Null

\* Every step of build_free_list preserves the interface invariant.
LEMMA BuildApiInv == ApiInv /\ build_free_list => ApiInv'
<1> SUFFICES ASSUME ApiInv, build_free_list PROVE ApiInv'
  OBVIOUS
<1>1. CASE build_free_list_scan
  <2>1. it \in Pages /\ it + 1 \in -1 .. N
    BY <1>1, NAssumption DEF build_free_list_scan, Running, ApiInv, TypeOK, CallInv, Pages
  <2>2. Null \in Links /\ 0 \in 0 .. N
    BY NAssumption DEF Links
  <2>3. count' \in [Pages -> 0 .. N] /\ next_desc' \in [Pages -> Links]
        /\ prev_desc' \in [Pages -> Links]
    BY <1>1, <2>1, <2>2 DEF build_free_list_scan, ApiInv, TypeOK
  <2>4. run_start' \in Links /\ it' \in -1 .. N
    BY <1>1, <2>1 DEF build_free_list_scan, ApiInv, TypeOK, Links
  <2>5. TypeOK'
    BY <1>1, <2>3, <2>4 DEF build_free_list_scan, ApiInv, TypeOK
  <2>6. OneOwner'
    BY <1>1 DEF build_free_list_scan, ApiInv, OneOwner
  <2>7. CallInv'
    BY <1>1, <2>1, NAssumption
    DEF build_free_list_scan, Running, ApiInv, TypeOK, CallInv, Pages, Links, Null
  <2> QED BY <2>5, <2>6, <2>7 DEF ApiInv
<1>2. CASE build_free_list_run
  <2>1. run_start \in Pages /\ it - 1 \in Pages /\ run_length \in 0 .. N
    BY <1>2, NAssumption
    DEF build_free_list_run, Running, ApiInv, TypeOK, CallInv, Pages, Links, Null, run_length
  <2>2. count' \in [Pages -> 0 .. N]
    BY <1>2, <2>1 DEF build_free_list_run, ApiInv, TypeOK
  <2>3. next_desc' \in [Pages -> Links] /\ prev_desc' \in [Pages -> Links]
        /\ page_desc_free_ll' \in Links
    BY <1>2, <2>1 DEF build_free_list_run, PushFront, ApiInv, TypeOK, Links, Null
  <2> QED
    BY <1>2, <2>1, <2>2, <2>3
    DEF build_free_list_run, Running, ApiInv, TypeOK, OneOwner, CallInv, Links, Null
<1>3. CASE build_free_list_return
  BY <1>3, NAssumption
  DEF build_free_list_return, Idle, ApiInv, TypeOK, OneOwner, CallInv, Pages, Links, Null, Ops,
      desc_vars
<1> QED BY <1>1, <1>2, <1>3 DEF build_free_list

\* So does entering mm_alloc_pages or mm_alloc_pagetable.
LEMMA StartAllocApiInv ==
  ASSUME ApiInv, NEW o \in {"alloc_pages", "alloc_pagetable"}, NEW n \in Nat \ {0},
         StartAlloc(o, n)
  PROVE  ApiInv'
<1>1. Links \subseteq -1 .. N /\ \A p \in Links : p < N
  BY NAssumption DEF Links, Pages, Null
<1>2. TypeOK'
  BY <1>1 DEF StartAlloc, ApiInv, TypeOK, Ops, desc_vars
<1>3. OneOwner'
  BY DEF StartAlloc, ApiInv, OneOwner
<1>4. CallInv'
  BY <1>1 DEF StartAlloc, ApiInv, TypeOK, CallInv
<1> QED BY <1>2, <1>3, <1>4 DEF ApiInv

\* So does taking frames from the end of a run, which the assertions of frame_alloc_phys_pages guard.
LEMMA TakeApiInv == ApiInv /\ frame_alloc_phys_pages_take => ApiInv'
<1> SUFFICES ASSUME ApiInv, frame_alloc_phys_pages_take PROVE ApiInv'
  OBVIOUS
<1>0. /\ it \in Pages /\ request_count \in Nat \ {0} /\ count[it] \in 0 .. N
      /\ count[it] >= request_count /\ it + count[it] <= N
  <2>1. it \in Pages /\ request_count \in Nat \ {0}
    BY NAssumption
    DEF frame_alloc_phys_pages_take, ApiInv, TypeOK, CallInv, Allocating, Pages, Null
  <2> QED BY <2>1 DEF frame_alloc_phys_pages_take, ApiInv, TypeOK, block_end_index
<1>1. /\ block_end_index \in 1 .. N /\ alloc_start_index \in Pages
      /\ alloc_start_index < block_end_index
  BY <1>0, NAssumption DEF Pages, block_end_index, alloc_start_index
<1> USE DEF frame_alloc_phys_pages_take
<1>2. AllocRange \subseteq Pages
  BY <1>1, NAssumption DEF AllocRange, Pages
<1>3. type' \in [0 .. N -> Types] /\ ref_count' \in [Pages -> Nat]
      /\ owners' \in [Pages -> Int] /\ request_count' \in Nat /\ op' \in Ops
      /\ it' \in -1 .. N /\ run_start' \in Links /\ status' \in Statuses
  <2>1. type' \in [0 .. N -> Types]
    BY DEF ApiInv, TypeOK, Types
  <2>2. ref_count' \in [Pages -> Nat] /\ owners' \in [Pages -> Int]
    BY DEF ApiInv, TypeOK
  <2>3. request_count' \in Nat /\ op' \in Ops /\ it' \in -1 .. N /\ run_start' \in Links
        /\ status' \in Statuses
    BY NAssumption DEF ApiInv, TypeOK, Idle, Ops, Links, Null
  <2> QED BY <2>1, <2>2, <2>3
<1>4. next_desc' \in [Pages -> Links] /\ prev_desc' \in [Pages -> Links]
      /\ page_desc_free_ll' \in Links
  BY <1>0, DetachType DEF ApiInv, TypeOK
<1>5. count' \in [Pages -> 0 .. N]
  <2>1. count[it] - request_count \in 0 .. N
    BY <1>0, NAssumption
  <2> QED BY <1>0, <1>1, <2>1 DEF ApiInv, TypeOK
<1>6. OneOwner'
  <2> SUFFICES ASSUME NEW p \in Pages
               PROVE  owners'[p] \in {0, 1} /\ (owners'[p] = 1 => type'[p] = "USED")
    BY DEF OneOwner, Pages
  <2>1. CASE p \in AllocRange
    <3>1. p \in MarkedUsed /\ p \in 0 .. N
      BY <2>1, <1>1, NAssumption DEF AllocRange, MarkedUsed, Pages
    <3>2. type'[p] = "USED"
      BY <3>1
    <3>3. owners[p] = 0
      BY <2>1 DEF ApiInv, OneOwner, Takeable
    <3>4. owners'[p] = 1
      BY <2>1, <3>3
    <3> QED BY <3>2, <3>4
  <2>2. CASE p \notin AllocRange
    <3>1. p \in 0 .. N
      BY NAssumption DEF Pages
    <3>2. owners'[p] = owners[p] /\ (type[p] = "USED" => type'[p] = "USED")
      BY <2>2, <3>1 DEF ApiInv, TypeOK
    <3> QED BY <3>2 DEF ApiInv, OneOwner
  <2> QED BY <2>1, <2>2
<1>7. CallInv'
  BY DEF CallInv, Idle
<1> QED BY <1>3, <1>4, <1>5, <1>6, <1>7 DEF ApiInv, TypeOK

\* So does every step of frame_alloc_phys_pages.
LEMMA AllocApiInv == ApiInv /\ frame_alloc_phys_pages => ApiInv'
<1> SUFFICES ASSUME ApiInv, frame_alloc_phys_pages PROVE ApiInv'
  OBVIOUS
<1>1. CASE frame_alloc_phys_pages_skip
  <2>1. it \in Pages
    BY <1>1, NAssumption
    DEF frame_alloc_phys_pages_skip, Allocating, ApiInv, TypeOK, CallInv, Pages, Null
  <2>2. it' \in Links
    BY <1>1, <2>1 DEF frame_alloc_phys_pages_skip, ApiInv, TypeOK
  <2>3. it' \in -1 .. N /\ it' < N
    BY <2>2, NAssumption DEF Links, Pages, Null
  <2>4. TypeOK'
    BY <1>1, <2>3 DEF frame_alloc_phys_pages_skip, ApiInv, TypeOK, desc_vars
  <2>5. OneOwner' /\ CallInv'
    BY <1>1, <2>3 DEF frame_alloc_phys_pages_skip, Allocating, ApiInv, OneOwner, CallInv
  <2> QED BY <2>4, <2>5 DEF ApiInv
<1>2. CASE frame_alloc_phys_pages_take
  BY <1>2, TakeApiInv
<1>3. CASE frame_alloc_phys_pages_assert
  BY <1>3, StopApiInv DEF frame_alloc_phys_pages_assert, Statuses
<1>4. CASE frame_alloc_phys_pages_null
  BY <1>4, StopApiInv DEF frame_alloc_phys_pages_null, Statuses
<1> QED BY <1>1, <1>2, <1>3, <1>4 DEF frame_alloc_phys_pages

\* So does mm_get_range, which only adds references.
LEMMA GetRangeApiInv ==
  ASSUME ApiInv, NEW b \in Pages, NEW n \in Nat, mm_get_range(b, n)
  PROVE  ApiInv'
<1>1. TypeOK'
  BY DEF mm_get_range, ApiInv, TypeOK, call_vars
<1>2. OneOwner' /\ CallInv'
  BY DEF mm_get_range, Running, ApiInv, OneOwner, CallInv, call_vars
<1> QED BY <1>1, <1>2 DEF ApiInv

\* So does entering mm_put_range.
LEMMA PutRangeApiInv ==
  ASSUME ApiInv, NEW b \in Pages, NEW n \in Nat \ {0}, mm_put_range(b, n)
  PROVE  ApiInv'
<1>1. b + n <= N
  <2>1. b + n - 1 \in b .. b + n - 1
    BY NAssumption DEF Pages
  <2> QED BY <2>1, NAssumption DEF mm_put_range, Held, Pages
<1>2. \A p \in b .. b + n - 1 : owners[p] = 1 /\ ref_count[p] > 0
  BY DEF mm_put_range, Held, ApiInv, OneOwner
<1>3. b \in -1 .. N /\ b >= 0
  BY NAssumption DEF Pages
<1>4. TypeOK'
  BY <1>3 DEF mm_put_range, ApiInv, TypeOK, Ops, desc_vars
<1>5. OneOwner'
  BY DEF mm_put_range, ApiInv, OneOwner
<1>6. CallInv'
  BY <1>1, <1>2, <1>3 DEF mm_put_range, CallInv, desc_vars
<1> QED BY <1>4, <1>5, <1>6 DEF ApiInv

\* frame_free_phys_pages makes the freed frame unused and changes the type of no other.
LEMMA FreeType ==
  ASSUME TypeOK, NEW p \in Pages, cur_head(p) >= 0, cur_foot(p) < N,
         frame_free_phys_pages(p)
  PROVE  /\ type' = [type EXCEPT ![p] = "UNUSED"]
         /\ count' \in [Pages -> 0 .. N]
         /\ next_desc' \in [Pages -> Links] /\ prev_desc' \in [Pages -> Links]
         /\ page_desc_free_ll' \in Links
         /\ owners' = [owners EXCEPT ![p] = @ - 1]
<1> DEFINE list == IF extends_fwd(p) THEN Detach(p+1)
                   ELSE [nx |-> next_desc, pv |-> prev_desc, ll |-> page_desc_free_ll]
<1>1. cur_head(p) \in 0 .. p /\ cur_foot(p) \in p .. N-1
  <2>1. ASSUME extends_back(p) PROVE count[p-1] \in 0 .. N
    BY <2>1, NAssumption DEF TypeOK, Pages, extends_back
  <2>2. ASSUME extends_fwd(p) PROVE count[p+1] \in 0 .. N
    BY <2>2, NAssumption DEF TypeOK, Pages, extends_fwd
  <2> QED BY <2>1, <2>2, NAssumption DEF Pages, cur_head, cur_foot
<1>2. cur_head(p) \in Pages /\ cur_foot(p) \in Pages
      /\ cur_foot(p) - cur_head(p) + 1 \in 0 .. N
  BY <1>1, NAssumption DEF Pages
<1>3. count' \in [Pages -> 0 .. N]
  BY <1>2 DEF frame_free_phys_pages, TypeOK
<1>4. list.nx \in [Pages -> Links] /\ list.pv \in [Pages -> Links] /\ list.ll \in Links
  <2>1. CASE extends_fwd(p)
    <3>1. p + 1 \in Pages
      BY <2>1, NAssumption DEF extends_fwd, Pages
    <3> QED BY <2>1, <3>1, DetachType
  <2>2. CASE ~extends_fwd(p)
    BY <2>2 DEF TypeOK
  <2> QED BY <2>1, <2>2
<1>5. PushFront(cur_head(p), list.nx, list.pv, list.ll)
  BY DEF frame_free_phys_pages
<1> HIDE DEF list
<1>6. next_desc' \in [Pages -> Links] /\ prev_desc' \in [Pages -> Links]
      /\ page_desc_free_ll' \in Links
  BY <1>2, <1>4, <1>5 DEF PushFront, Links, Null
<1> QED BY <1>3, <1>6 DEF frame_free_phys_pages

\* The head and the foot that frame_free_phys_pages computes are integers, though perhaps no frames.
LEMMA CursorsInt ==
  ASSUME TypeOK, NEW p \in Pages
  PROVE  cur_head(p) \in Int /\ cur_foot(p) \in Int
<1>1. ASSUME extends_back(p) PROVE count[p-1] \in 0 .. N
  BY <1>1, NAssumption DEF TypeOK, Pages, extends_back
<1>2. ASSUME extends_fwd(p) PROVE count[p+1] \in 0 .. N
  BY <1>2, NAssumption DEF TypeOK, Pages, extends_fwd
<1> QED BY <1>1, <1>2, NAssumption DEF Pages, cur_head, cur_foot

\* mm_put_page preserves the interface invariant.
LEMMA PutPageApiInv == ApiInv /\ mm_put_page => ApiInv'
<1> SUFFICES ASSUME ApiInv, mm_put_page PROVE ApiInv'
  OBVIOUS
<1>1. it \in Pages /\ request_count \in Nat \ {0} /\ owners[it] = 1 /\ ref_count[it] \in Nat \ {0}
  BY NAssumption DEF mm_put_page, Running, ApiInv, TypeOK, CallInv, Pages
<1>2. /\ op = "put" /\ it + 1 >= 0 /\ (it + 1) + (request_count - 1) <= N
      /\ \A p \in it + 1 .. (it + 1) + (request_count - 1) - 1 :
            p \in Pages /\ p # it /\ owners[p] = 1 /\ ref_count[p] > 0
  BY <1>1, NAssumption DEF mm_put_page, Running, ApiInv, CallInv, Pages
<1>3. ASSUME put_current
      PROVE  \A p \in Pages : p # it => ref_count'[p] = ref_count[p]
  BY <1>1, <1>3 DEF put_current, ApiInv, TypeOK
<1>4. CASE ref_count[it] = 1 /\ (cur_head(it) < 0 \/ cur_foot(it) >= N)
  BY <1>4, StopApiInv DEF mm_put_page, Statuses
<1>5. CASE ~(ref_count[it] = 1 /\ (cur_head(it) < 0 \/ cur_foot(it) >= N))
  <2>1. put_current
    BY <1>5 DEF mm_put_page
  <2>2. CASE ref_count[it] # 1
    <3>1. TypeOK'
      <4>1. it + 1 \in -1 .. N /\ request_count - 1 \in Nat /\ ref_count[it] - 1 \in Nat
        BY <1>1, NAssumption DEF Pages
      <4> QED BY <2>1, <2>2, <4>1 DEF put_current, ApiInv, TypeOK
    <3>2. OneOwner'
      BY <2>1, <2>2 DEF put_current, ApiInv, OneOwner
    <3>3. CallInv'
      BY <2>1, <2>2, <1>2, <1>3 DEF put_current, CallInv
    <3> QED BY <3>1, <3>2, <3>3 DEF ApiInv
  <2>3. CASE ref_count[it] = 1
    <3>1. cur_head(it) \in Int /\ cur_foot(it) \in Int
      BY <1>1, CursorsInt DEF ApiInv
    <3>2. cur_head(it) >= 0 /\ cur_foot(it) < N /\ frame_free_phys_pages(it)
      BY <1>5, <2>1, <2>3, <3>1, NAssumption DEF put_current
    <3>3. /\ type' = [type EXCEPT ![it] = "UNUSED"]
          /\ count' \in [Pages -> 0 .. N]
          /\ next_desc' \in [Pages -> Links] /\ prev_desc' \in [Pages -> Links]
          /\ page_desc_free_ll' \in Links
          /\ owners' = [owners EXCEPT ![it] = @ - 1]
      BY <1>1, <3>2, FreeType DEF ApiInv
    <3>4. TypeOK'
      BY <1>1, <2>1, <2>3, <3>3, NAssumption
      DEF put_current, ApiInv, TypeOK, Types, Pages, Links, Null
    <3>5. OneOwner'
      BY <1>1, <3>3, NAssumption DEF ApiInv, TypeOK, OneOwner, Pages
    <3>6. CallInv'
      <4>1. owners'[it] \in Int /\ \A p \in Pages : p # it => owners'[p] = owners[p]
        BY <1>1, <3>3 DEF ApiInv, TypeOK
      <4> QED BY <1>1, <1>2, <1>3, <2>1, <4>1 DEF put_current, CallInv
    <3> QED BY <3>4, <3>5, <3>6 DEF ApiInv
  <2> QED BY <2>2, <2>3
<1> QED BY <1>4, <1>5

\* Every step of the interface preserves its invariant.
LEMMA NextApiInv == ApiInv /\ [Next]_vars => ApiInv'
<1> SUFFICES ASSUME ApiInv, [Next]_vars PROVE ApiInv'
  OBVIOUS
<1>1. CASE build_free_list
  BY <1>1, BuildApiInv
<1>2. ASSUME NEW n \in 1 .. MaxRequest, mm_alloc_pages(n) PROVE ApiInv'
  <2>1. n \in Nat \ {0}
    BY MaxAssumption
  <2> QED BY <1>2, <2>1, StartAllocApiInv DEF mm_alloc_pages
<1>3. CASE mm_alloc_pagetable
  BY <1>3, StartAllocApiInv DEF mm_alloc_pagetable
<1>4. CASE frame_alloc_phys_pages
  BY <1>4, AllocApiInv
<1>5. CASE UNCHANGED vars
  BY <1>5 DEF vars, desc_vars, call_vars, ApiInv, TypeOK, OneOwner, CallInv
<1>6. ASSUME NEW b \in Pages, NEW n \in 1 .. MaxRequest, mm_get_range(b, n) PROVE ApiInv'
  <2>1. n \in Nat
    BY MaxAssumption
  <2> QED BY <1>6, <2>1, GetRangeApiInv
<1>7. ASSUME NEW b \in Pages, NEW n \in 1 .. MaxRequest, mm_put_range(b, n) PROVE ApiInv'
  <2>1. n \in Nat \ {0}
    BY MaxAssumption
  <2> QED BY <1>7, <2>1, PutRangeApiInv
<1>8. CASE mm_put_page
  BY <1>8, PutPageApiInv
<1>9. CASE mm_put_range_return
  BY <1>9, NAssumption
  DEF mm_put_range_return, Idle, ApiInv, TypeOK, OneOwner, CallInv, Pages, Links, Null, Ops,
      desc_vars
<1> QED
  BY <1>1, <1>2, <1>3, <1>4, <1>5, <1>6, <1>7, <1>8, <1>9 DEF Next, KernelNext, Stopped

(* Through every sequence of calls of memory_manager.h the descriptors     *)
(* keep their types: no link or count leaves the array unnoticed.          *)
THEOREM ApiTypeOK == Spec => []TypeOK
<1>1. ApiInv => TypeOK
  BY DEF ApiInv
<1> QED BY <1>1, InitApiInv, NextApiInv, PTL DEF Spec

(* Through every sequence of mm_alloc_*, mm_get_* and mm_put_* calls,      *)
(* frame_alloc_phys_pages never hands a held frame to a second caller.     *)
THEOREM ApiOneOwner == Spec => []OneOwner
<1>1. ApiInv => OneOwner
  BY DEF ApiInv
<1> QED BY <1>1, InitApiInv, NextApiInv, PTL DEF Spec

-----------------------------------------------------------------------------
(* Part 2.  The invariant of the kernel, which only allocates: the list is *)
(* exact, free frames carry no reference, build_free_list is inside or     *)
(* just after a run, and every head the search has passed is too short.    *)
BuildInv ==
    op = "build" =>
        /\ status = "run" /\ it >= 0
        /\ run_start # Null =>
             /\ run_start \in Heads /\ run_start < it
             /\ \A q \in run_start .. it - 1 : type[q] = "UNUSED"
        /\ run_start = Null /\ it \in 1 .. N-1 =>
             type[it-1] # "UNUSED" \/ type[it] # "UNUSED"

SearchInv ==
    op \in {"alloc_pages", "alloc_pagetable"} =>
        /\ request_count > 0 /\ it \in Linked \cup {Null}
        /\ \A h \in Linked : h > it => count[h] < request_count

FreeUnreferenced == \A p \in Pages : type[p] = "UNUSED" => ref_count[p] = 0

KernelInv ==
    /\ op # "put" /\ NoFailedAssert
    /\ FreeUnreferenced /\ FreeListExact /\ BuildInv /\ SearchInv

\* The kernel invariant holds when init_frame_allocator starts.
LEMMA InitKernelInv == Init => KernelInv
<1> SUFFICES ASSUME Init PROVE KernelInv
  OBVIOUS
<1>1. Linked = {} /\ Limit = 0
  BY NAssumption DEF Init, Linked, Heads, Limit, Pages, Null
<1>2. FreeListExact
  BY <1>1, NAssumption DEF Init, FreeListExact, FirstOK, Covered, Pages, Null
<1>3. FreeUnreferenced
  BY NAssumption, BootAssumption DEF Init, FreeUnreferenced, Pages
<1>4. BuildInv /\ SearchInv /\ op # "put" /\ NoFailedAssert
  BY NAssumption DEF Init, BuildInv, SearchInv, NoFailedAssert, Null
<1> QED BY <1>2, <1>3, <1>4 DEF KernelInv

(* A step that leaves the linked heads and their fields alone leaves the   *)
(* list exact.                                                             *)
LEMMA SameList ==
  ASSUME FreeListExact, Linked' = Linked, UNCHANGED <<type, ref_count, page_desc_free_ll>>,
         \A h \in Linked : /\ next_desc'[h] = next_desc[h] /\ prev_desc'[h] = prev_desc[h]
                           /\ count'[h] = count[h],
         \A p \in Pages : p < Limit' /\ type[p] = "UNUSED" => p < Limit
  PROVE  FreeListExact'
<1>1. FirstOK'
  BY DEF FreeListExact, FirstOK
<1>2. Covered'
  BY DEF FreeListExact, Covered
<1>3. ASSUME NEW h \in Linked PROVE LinkOK(h)' /\ RunOK(h)'
  <2>1. LinkOK(h)'
    BY <1>3 DEF FreeListExact, LinkOK
  <2>2. RunOK(h)'
    BY <1>3 DEF FreeListExact, RunOK
  <2> QED BY <2>1, <2>2
<1> QED BY <1>1, <1>2, <1>3 DEF FreeListExact

(* The same for a step that changes no descriptor, outside the boot scan.  *)
LEMMA SameDescriptors ==
  ASSUME FreeListExact, FreeUnreferenced, op # "build", op' # "build",
         UNCHANGED <<type, desc_vars, page_desc_free_ll>>
  PROVE  FreeListExact' /\ FreeUnreferenced' /\ Linked' = Linked
<1>1. Limit' = Limit /\ Linked' = Linked
  BY DEF Limit, Linked, Heads
<1>2. FreeListExact'
  BY <1>1, SameList DEF desc_vars
<1> QED BY <1>1, <1>2 DEF FreeUnreferenced, desc_vars

\* Scanning one descriptor in build_free_list preserves the kernel invariant.
LEMMA ScanKernelInv == ApiInv /\ KernelInv /\ build_free_list_scan => KernelInv'
<1> SUFFICES ASSUME ApiInv, KernelInv, build_free_list_scan PROVE KernelInv'
  OBVIOUS
<1>1. it \in Pages /\ op = "build" /\ op' = "build" /\ it' = it + 1 /\ status = "run"
  BY NAssumption DEF build_free_list_scan, Running, ApiInv, TypeOK, CallInv, Pages
<1>2. run_start \in Links
  BY DEF ApiInv, TypeOK
<1>3. UNCHANGED <<type, ref_count, page_desc_free_ll, status>> /\ Heads' = Heads
  BY DEF build_free_list_scan, Heads
<1>4. CASE type[it] = "UNUSED"
  <2>1. Limit' = Limit
    <3>1. CASE run_start = Null
      <4>1. run_start' = it /\ it # Null
        BY <1>1, <1>4, <3>1, NAssumption DEF build_free_list_scan, Pages, Null
      <4> QED BY <1>1, <3>1, <4>1 DEF Limit, Null
    <3>2. CASE run_start # Null
      BY <1>1, <1>4, <3>2 DEF build_free_list_scan, Limit, Null
    <3> QED BY <3>1, <3>2
  <2>2. FreeListExact'
    <3>1. Linked' = Linked
      BY <1>3, <2>1 DEF Linked
    <3> QED BY <1>3, <1>4, <2>1, <3>1, SameList DEF build_free_list_scan, KernelInv
  <2>3. BuildInv'
    <3>1. CASE run_start = Null
      <4>1. it \in Heads
        BY <1>1, <1>4, <3>1, NAssumption DEF Heads, KernelInv, BuildInv, Pages
      <4> QED BY <1>1, <1>3, <1>4, <3>1, <4>1, NAssumption
              DEF build_free_list_scan, BuildInv, Pages, Null
    <3>2. CASE run_start # Null
      <4>1. run_start' = run_start /\ run_start \in Pages /\ run_start < it
            /\ run_start \in Heads' /\ \A q \in run_start .. it - 1 : type[q] = "UNUSED"
        BY <1>1, <1>2, <1>3, <1>4, <3>2 DEF build_free_list_scan, KernelInv, BuildInv, Links
      <4>2. \A q \in run_start .. it + 1 - 1 : q \in run_start .. it - 1 \/ q = it
        BY <1>1, <4>1, NAssumption DEF Pages
      <4>3. it + 1 >= 0 /\ run_start < it + 1
        BY <1>1, <4>1, NAssumption DEF Pages
      <4>4. \A q \in run_start .. it + 1 - 1 : type[q] = "UNUSED"
        BY <1>4, <4>1, <4>2
      <4>5. run_start' # Null /\ run_start' \in Heads' /\ run_start' < it'
            /\ it' >= 0 /\ status' = "run"
        BY <1>1, <1>3, <3>2, <4>1, <4>3
      <4>6. \A q \in run_start' .. it' - 1 : type'[q] = "UNUSED"
        BY <1>1, <1>3, <4>1, <4>4, NAssumption DEF Pages
      <4> QED BY <4>5, <4>6 DEF BuildInv
    <3> QED BY <3>1, <3>2
  <2> QED BY <1>1, <1>3, <2>2, <2>3
          DEF KernelInv, NoFailedAssert, FreeUnreferenced, SearchInv
<1>5. CASE type[it] # "UNUSED"
  <2>1. run_start = Null /\ run_start' = Null
    BY <1>5 DEF build_free_list_scan
  <2>2. Limit = it /\ Limit' = it + 1
    BY <1>1, <2>1 DEF Limit
  <2>3. Linked' = Linked /\ it \notin Linked
    BY <1>1, <1>3, <1>5, <2>2, NAssumption DEF Linked, Heads, Pages
  <2>4. Linked \subseteq Pages
    BY DEF Linked, Heads
  <2>5. \A h \in Linked : /\ next_desc'[h] = next_desc[h] /\ prev_desc'[h] = prev_desc[h]
                          /\ count'[h] = count[h]
    BY <1>5, <2>3, <2>4 DEF build_free_list_scan, ApiInv, TypeOK
  <2>6. \A p \in Pages : p < Limit' /\ type[p] = "UNUSED" => p < Limit
    BY <1>1, <1>5, <2>2, NAssumption DEF Pages
  <2>7. FreeListExact'
    BY <1>3, <2>3, <2>5, <2>6, SameList DEF KernelInv
  <2>8. BuildInv'
    BY <1>1, <1>3, <1>5, <2>1, NAssumption DEF BuildInv, Pages
  <2> QED BY <1>1, <1>3, <2>7, <2>8
          DEF KernelInv, NoFailedAssert, FreeUnreferenced, SearchInv
<1> QED BY <1>4, <1>5

\* Linking a completed run in build_free_list preserves the kernel invariant.
LEMMA RunKernelInv == ApiInv /\ KernelInv /\ build_free_list_run => KernelInv'
<1> SUFFICES ASSUME ApiInv, KernelInv, build_free_list_run PROVE KernelInv'
  OBVIOUS
<1>1. /\ op = "build" /\ op' = "build" /\ it' = it /\ run_start' = Null /\ status = "run"
      /\ UNCHANGED <<type, ref_count, status>> /\ (it < N => type[it] # "UNUSED")
      /\ run_start # Null
  BY DEF build_free_list_run, Running
<1>2. /\ it \in 1 .. N /\ run_start \in Pages /\ run_start < it /\ it - 1 \in Pages
      /\ \A q \in run_start .. it - 1 : type[q] = "UNUSED"
      /\ run_start \in Heads
  BY <1>1, NAssumption DEF ApiInv, TypeOK, CallInv, KernelInv, BuildInv, Links, Pages, Null
<1>3. Limit = run_start /\ Limit' = it
  BY <1>1 DEF Limit
<1>4. Linked' = Linked \cup {run_start} /\ run_start \notin Linked
  <2>1. Heads' = Heads
    BY <1>1 DEF Heads
  <2>2. ASSUME NEW h \in Heads, h < it, h > run_start PROVE FALSE
    <3>1. h - 1 \in run_start .. it - 1 /\ h # 0
      BY <1>2, <2>2, NAssumption DEF Heads, Pages
    <3> QED BY <1>2, <3>1 DEF Heads
  <2>3. \A h \in Heads : h < it <=> h < run_start \/ h = run_start
    BY <1>2, <2>2, NAssumption DEF Heads, Pages
  <2>4. \A h \in Heads : h \in Int
    BY NAssumption DEF Heads, Pages
  <2>5. Linked = {h \in Heads : h < run_start} /\ Linked' = {h \in Heads : h < it}
    BY <1>3, <2>1 DEF Linked
  <2>6. run_start \notin Linked
    BY <1>2, <2>5, NAssumption DEF Pages
  <2>7. Linked' = Linked \cup {run_start}
    BY <1>2, <2>3, <2>5
  <2> QED BY <2>6, <2>7
<1>5. \A h \in Linked : h \in Pages /\ h < run_start /\ h # it - 1
  BY <1>2, <1>3, NAssumption DEF Linked, Heads, Pages
<1>6. /\ count'[run_start] = it - run_start
      /\ \A h \in Linked : count'[h] = count[h] /\ next_desc'[h] = next_desc[h]
                           /\ (h # page_desc_free_ll => prev_desc'[h] = prev_desc[h])
      /\ next_desc'[run_start] = page_desc_free_ll
      /\ page_desc_free_ll # Null => prev_desc'[page_desc_free_ll] = run_start
      /\ prev_desc'[run_start] = Null
      /\ page_desc_free_ll' = run_start
  <2>1. page_desc_free_ll \in Linked \cup {Null}
    BY DEF KernelInv, FreeListExact, FirstOK
  <2>2. page_desc_free_ll # run_start
    BY <1>1, <1>4, <2>1
  <2>3. count'[run_start] = it - run_start /\ \A h \in Linked : count'[h] = count[h]
    BY <1>2, <1>4, <1>5, <2>1 DEF build_free_list_run, run_length, ApiInv, TypeOK
  <2>4. next_desc'[run_start] = page_desc_free_ll
        /\ \A h \in Linked : next_desc'[h] = next_desc[h]
    BY <1>2, <1>4, <1>5 DEF build_free_list_run, PushFront, ApiInv, TypeOK
  <2>5. /\ page_desc_free_ll # Null => prev_desc'[page_desc_free_ll] = run_start
        /\ prev_desc'[run_start] = Null
        /\ \A h \in Linked : h # page_desc_free_ll => prev_desc'[h] = prev_desc[h]
    BY <1>2, <1>4, <1>5, <2>1, <2>2 DEF build_free_list_run, PushFront, ApiInv, TypeOK
  <2> QED BY <2>3, <2>4, <2>5 DEF build_free_list_run, PushFront
<1>7. FirstOK'
  BY <1>2, <1>4, <1>5, <1>6, NAssumption DEF FirstOK, Pages
<1>8. Covered'
  <2> SUFFICES ASSUME NEW p \in Pages, p < it, type[p] = "UNUSED"
               PROVE  \E h \in Linked \cup {run_start} : p \in h .. h + count'[h] - 1
    BY <1>1, <1>3, <1>4 DEF Covered
  <2>1. CASE p < run_start
    <3>1. PICK h \in Linked : p \in h .. h + count[h] - 1
      BY <1>3, <2>1 DEF KernelInv, FreeListExact, Covered
    <3> QED BY <1>6, <3>1
  <2>2. CASE p >= run_start
    <3>1. p \in run_start .. run_start + count'[run_start] - 1
      BY <1>2, <1>6, <2>2, NAssumption DEF Pages
    <3> QED BY <3>1
  <2> QED BY <1>2, <2>1, <2>2, NAssumption DEF Pages
<1>9. ASSUME NEW h \in Linked PROVE LinkOK(h)' /\ RunOK(h)'
  <2>1. /\ LinkOK(h) /\ RunOK(h) /\ h <= page_desc_free_ll
        /\ page_desc_free_ll \in Linked \cup {Null} /\ h \in Int /\ next_desc[h] \in Int
        /\ page_desc_free_ll # Null
    BY <1>5, <1>9, NAssumption
    DEF KernelInv, FreeListExact, FirstOK, LinkOK, Pages, Null
  <2>2. next_desc'[h] = next_desc[h] /\ next_desc[h] # page_desc_free_ll
    BY <1>6, <2>1, <1>5, NAssumption DEF LinkOK, Pages, Null
  <2>3. next_desc[h] # Null => prev_desc'[next_desc[h]] = h
    BY <1>6, <2>1, <2>2 DEF LinkOK
  <2>4. \A k \in Linked \cup {run_start} : k < h => k <= next_desc[h]
    BY <1>5, <1>2, <2>1, NAssumption DEF LinkOK, Pages
  <2>5. prev_desc'[h] \in Linked' /\ next_desc'[prev_desc'[h]] = h
    <3>1. CASE h = page_desc_free_ll
      BY <1>4, <1>6, <2>1, <3>1
    <3>2. CASE h # page_desc_free_ll
      BY <1>4, <1>6, <2>1, <3>2 DEF LinkOK
    <3> QED BY <3>1, <3>2
  <2>6. prev_desc'[h] # Null
    BY <1>2, <1>4, <1>5, <2>5, NAssumption DEF Pages, Null
  <2>7. LinkOK(h)'
    BY <1>4, <2>1, <2>2, <2>3, <2>4, <2>5, <2>6 DEF LinkOK
  <2>8. RunOK(h)'
    BY <1>1, <1>6, <1>9, <2>1 DEF RunOK
  <2> QED BY <2>7, <2>8
<1>10. FreeListExact'
  <2> PICK r \in Pages : r = run_start
    BY <1>2
  <2>1. /\ r \in Pages /\ r \notin Linked /\ Linked' = Linked \cup {r} /\ r < it
        /\ next_desc'[r] = page_desc_free_ll /\ prev_desc'[r] = Null
        /\ page_desc_free_ll' = r /\ count'[r] = it - r
        /\ (page_desc_free_ll # Null => prev_desc'[page_desc_free_ll] = r)
        /\ \A q \in r .. it - 1 : type[q] = "UNUSED"
    BY <1>2, <1>4, <1>6
  <2>2. page_desc_free_ll \in Linked \cup {Null} /\ \A k \in Linked : k <= page_desc_free_ll
    BY DEF KernelInv, FreeListExact, FirstOK
  <2>3. page_desc_free_ll < r /\ \A k \in Linked \cup {r} : k < r => k <= page_desc_free_ll
    BY <1>5, <2>1, <2>2, NAssumption DEF Pages, Null
  <2>4. LinkOK(r)'
    BY <2>1, <2>2, <2>3 DEF LinkOK
  <2>5. RunOK(r)'
    BY <1>1, <1>2, <2>1, NAssumption DEF RunOK, KernelInv, FreeUnreferenced, Pages
  <2> QED BY <1>7, <1>8, <1>9, <2>1, <2>4, <2>5 DEF FreeListExact
<1>11. BuildInv'
  BY <1>1, <1>2, NAssumption DEF BuildInv
<1> QED BY <1>1, <1>10, <1>11 DEF KernelInv, NoFailedAssert, FreeUnreferenced, SearchInv

(* What frame_alloc_phys_pages_take finds when the list is exact: the run  *)
(* [i, e) is free and maximal, and its tail [a, e) is taken.               *)
LEMMA TakeShape ==
  ASSUME ApiInv, KernelInv, frame_alloc_phys_pages_take
  PROVE  /\ it \in Linked /\ it \in Pages /\ LinkOK(it) /\ RunOK(it)
         /\ count[it] \in Nat /\ request_count \in Nat \ {0}
         /\ block_end_index = it + count[it]
         /\ block_end_index \in it + 1 .. N
         /\ alloc_start_index \in it .. block_end_index - 1
         /\ alloc_start_index = block_end_index - request_count
         /\ \A q \in it .. block_end_index - 1 : type[q] = "UNUSED" /\ ref_count[q] = 0
         /\ block_end_index < N => type[block_end_index] # "UNUSED"
         /\ op # "build" /\ op' = "idle" /\ status = "run" /\ status' = "run"
<1>1. /\ Allocating /\ it # Null /\ count[it] >= request_count /\ op' = "idle"
      /\ status' = status
  BY DEF frame_alloc_phys_pages_take, Idle
<1>2. op # "build" /\ status = "run" /\ it \in Linked /\ request_count > 0
  BY <1>1 DEF Allocating, KernelInv, SearchInv
<1>3. it \in Pages /\ LinkOK(it) /\ RunOK(it)
  BY <1>2 DEF KernelInv, FreeListExact, Linked, Heads
<1>4. count[it] \in Nat /\ request_count \in Nat \ {0}
  BY <1>2, <1>3, NAssumption DEF ApiInv, TypeOK
<1>5. /\ block_end_index = it + count[it] /\ block_end_index \in it + 1 .. N
      /\ alloc_start_index \in it .. block_end_index - 1
      /\ alloc_start_index = block_end_index - request_count
  BY <1>1, <1>3, <1>4, NAssumption DEF RunOK, block_end_index, alloc_start_index, Pages
<1>6. /\ \A q \in it .. block_end_index - 1 : type[q] = "UNUSED" /\ ref_count[q] = 0
      /\ block_end_index < N => type[block_end_index] # "UNUSED"
  BY <1>3, <1>4, <1>5, NAssumption DEF RunOK, Pages
<1> QED BY <1>1, <1>2, <1>3, <1>4, <1>5, <1>6

(* Runs of two different heads do not touch.                               *)
LEMMA RunsApart ==
  ASSUME TypeOK, NEW g \in Linked, NEW h \in Linked, g < h, RunOK(g)
  PROVE  g + count[g] < h
<1>1. g \in Pages /\ h \in Pages /\ count[g] \in Nat /\ h - 1 \in 0 .. N-1
  BY NAssumption DEF Linked, Heads, TypeOK, Pages
<1>2. type[h] = "UNUSED" /\ type[h-1] # "UNUSED"
  BY <1>1, NAssumption DEF Linked, Heads, Pages
<1>3. CASE g + count[g] > h
  <2>1. h - 1 \in g .. g + count[g] - 1
    BY <1>1, <1>3, NAssumption DEF Pages
  <2> QED BY <1>2, <2>1 DEF RunOK
<1>4. CASE g + count[g] = h
  <2>1. h - 1 \in g .. g + count[g] - 1
    BY <1>1, <1>4, NAssumption DEF Pages, RunOK
  <2> QED BY <1>2, <2>1 DEF RunOK
<1> QED BY <1>1, <1>3, <1>4, NAssumption DEF Pages

(* Unlinking head i keeps the rest of the list linked as before.           *)
LEMMA DetachExact ==
  ASSUME TypeOK, FirstOK, \A h \in Linked : LinkOK(h), NEW i \in Linked,
         Linked' = Linked \ {i},
         next_desc' = Detach(i).nx, prev_desc' = Detach(i).pv,
         page_desc_free_ll' = Detach(i).ll
  PROVE  FirstOK' /\ \A h \in Linked' : LinkOK(h)'
<1> DEFINE pr == prev_desc[i]
           nx == next_desc[i]
<1>1. /\ pr \in Linked \cup {Null} /\ nx \in Linked \cup {Null} /\ nx < i
      /\ \A k \in Linked : k < i => k <= nx
      /\ nx # Null => prev_desc[nx] = i
      /\ IF pr = Null THEN i = page_desc_free_ll ELSE next_desc[pr] = i
  BY DEF LinkOK
<1>2. \A h \in Linked : h \in Pages /\ h \in Int /\ h # Null
  BY NAssumption DEF Linked, Heads, Pages, Null
<1>3. /\ \A h \in Linked : h # pr => next_desc'[h] = next_desc[h]
      /\ pr # Null => next_desc'[pr] = nx
      /\ \A h \in Linked : h # nx => prev_desc'[h] = prev_desc[h]
      /\ nx # Null => prev_desc'[nx] = pr
      /\ page_desc_free_ll' = IF pr = Null THEN nx ELSE page_desc_free_ll
  BY <1>1, <1>2 DEF Detach, TypeOK
<1>4. pr # Null => pr > i /\ pr \in Linked
  BY <1>1, <1>2 DEF LinkOK
<1>5. pr # Null => page_desc_free_ll # i
  BY <1>1, <1>2 DEF FirstOK
<1> HIDE DEF pr, nx
<1>6. FirstOK'
  <2>1. CASE pr = Null
    BY <1>1, <1>2, <1>3, <2>1 DEF FirstOK
  <2>2. CASE pr # Null
    BY <1>1, <1>2, <1>3, <1>4, <1>5, <2>2 DEF FirstOK
  <2> QED BY <2>1, <2>2
<1>7. ASSUME NEW h \in Linked, h # i PROVE LinkOK(h)'
  <2>1. LinkOK(h)
    BY <1>7
  <2>2. next_desc[h] = i <=> h = pr
    BY <1>1, <1>2, <2>1 DEF LinkOK, pr
  <2>3. prev_desc[h] = i <=> h = nx
    BY <1>1, <1>2, <2>1 DEF LinkOK, nx
  <2>4. /\ next_desc'[h] \in Linked' \cup {Null} /\ next_desc'[h] < h
        /\ \A k \in Linked' : k < h => k <= next_desc'[h]
    <3>1. CASE h = pr
      BY <1>1, <1>2, <1>3, <1>4, <1>7, <2>1, <2>2, <3>1 DEF LinkOK, Null
    <3>2. CASE h # pr
      BY <1>2, <1>3, <1>7, <2>1, <2>2, <3>2 DEF LinkOK
    <3> QED BY <3>1, <3>2
  <2>5. next_desc'[h] # Null => prev_desc'[next_desc'[h]] = h
    <3>1. CASE h = pr
      BY <1>2, <1>3, <3>1
    <3>2. CASE h # pr
      <4>1. next_desc'[h] = next_desc[h] /\ next_desc[h] # i
        BY <1>3, <2>2, <3>2
      <4>2. next_desc[h] # Null => next_desc[h] # nx
        BY <1>1, <1>7, <2>1 DEF LinkOK
      <4> QED BY <1>3, <2>1, <4>1, <4>2 DEF LinkOK
    <3> QED BY <3>1, <3>2
  <2>6. /\ prev_desc'[h] \in Linked' \cup {Null}
        /\ IF prev_desc'[h] = Null THEN h = page_desc_free_ll'
                                   ELSE next_desc'[prev_desc'[h]] = h
    <3>1. CASE h = nx
      BY <1>1, <1>2, <1>3, <1>4, <3>1
    <3>2. CASE h # nx
      <4>1. prev_desc'[h] = prev_desc[h] /\ prev_desc[h] # i
        BY <1>3, <2>3, <3>2
      <4>2. prev_desc[h] # Null => prev_desc[h] # pr
        BY <1>1, <1>7, <2>1 DEF LinkOK
      <4> QED BY <1>1, <1>2, <1>3, <1>7, <2>1, <4>1, <4>2 DEF LinkOK
    <3> QED BY <3>1, <3>2
  <2> QED BY <2>4, <2>5, <2>6 DEF LinkOK
<1> QED BY <1>6, <1>7

\* Taking frames in frame_alloc_phys_pages preserves the kernel invariant.
LEMMA TakeKernelInv == ApiInv /\ KernelInv /\ frame_alloc_phys_pages_take => KernelInv'
<1> SUFFICES ASSUME ApiInv, KernelInv, frame_alloc_phys_pages_take PROVE KernelInv'
  OBVIOUS
<1> PICK i \in Pages : i = it
  BY TakeShape
<1> PICK e \in Int : e = block_end_index
  BY TakeShape, NAssumption DEF Pages
<1> PICK a \in Int : a = alloc_start_index
  BY TakeShape, NAssumption DEF Pages
<1>1. /\ i \in Linked /\ LinkOK(i) /\ RunOK(i) /\ e = i + count[i] /\ count[i] \in Nat
      /\ e \in i + 1 .. N /\ a \in i .. e - 1 /\ a = e - request_count
      /\ request_count \in Nat
      /\ \A q \in i .. e - 1 : type[q] = "UNUSED" /\ ref_count[q] = 0
      /\ e < N => type[e] # "UNUSED"
      /\ op # "build" /\ op' = "idle" /\ status = "run" /\ status' = "run"
  BY TakeShape
<1>2. /\ \A q \in 0 .. N : type'[q] = IF q \in a .. e THEN "USED" ELSE type[q]
      /\ \A q \in Pages : q \notin a .. e - 1 => ref_count'[q] = ref_count[q]
  BY DEF frame_alloc_phys_pages_take, MarkedUsed, AllocRange
<1>3. Linked \subseteq Pages /\ Linked' \subseteq Pages
      /\ \A h \in Linked : h \in Int /\ LinkOK(h) /\ RunOK(h) /\ count[h] \in Nat
  BY NAssumption DEF Linked, Heads, KernelInv, FreeListExact, ApiInv, TypeOK, Pages
<1>4. \A h \in Linked : h # i => h + count[h] < i \/ e < h
  BY <1>1, <1>3, RunsApart, NAssumption DEF ApiInv, Pages
<1>5. Linked' = IF a = i THEN Linked \ {i} ELSE Linked
  <2>1. \A p : (p \in Linked <=> p \in Heads) /\ (p \in Linked' <=> p \in Heads')
    BY <1>1, NAssumption DEF Linked, Limit, Heads, Pages
  <2>2. ASSUME NEW p \in Linked', p \notin Linked PROVE FALSE
    <3>1. p \in Pages /\ type'[p] = "UNUSED" /\ (p = 0 \/ type'[p-1] # "UNUSED")
      BY <2>1, <2>2 DEF Heads
    <3>2. type[p] = "UNUSED" /\ p \notin a .. e
      BY <1>2, <3>1, NAssumption DEF Pages
    <3>3. p # 0 /\ type[p-1] = "UNUSED"
      BY <2>1, <2>2, <3>1, <3>2 DEF Heads
    <3>4. p - 1 \in 0 .. N /\ p - 1 \in Pages
      BY <3>1, <3>3, NAssumption DEF Pages
    <3>5. p - 1 \in a .. e
      BY <1>2, <3>1, <3>3, <3>4
    <3>6. p - 1 = e
      BY <1>1, <3>1, <3>2, <3>5, NAssumption DEF Pages
    <3> QED BY <1>1, <3>3, <3>4, <3>6, NAssumption DEF Pages
  <2>3. ASSUME NEW p \in Linked, p \notin a .. e PROVE p \in Linked'
    <3>1. p \in Pages /\ type[p] = "UNUSED" /\ (p = 0 \/ type[p-1] # "UNUSED")
      BY <2>1 DEF Heads
    <3>2. p \in 0 .. N /\ (p # 0 => p - 1 \in 0 .. N)
      BY <3>1, NAssumption DEF Pages
    <3>3. type'[p] = "UNUSED" /\ (p = 0 \/ type'[p-1] # "UNUSED")
      BY <1>2, <2>3, <3>1, <3>2
    <3> QED BY <2>1, <3>1, <3>3 DEF Heads, Pages
  <2>4. \A p \in Linked : p # i => p \notin a .. e
    BY <1>1, <1>3, <1>4, NAssumption DEF Pages
  <2>5. a # i => i \notin a .. e
    BY <1>1, NAssumption DEF Pages
  <2>6. ASSUME a = i PROVE i \notin Linked'
    <3>1. type'[i] = "USED"
      BY <1>1, <1>2, <2>6, NAssumption DEF Pages
    <3> QED BY <2>1, <3>1 DEF Heads
  <2>7. CASE a = i
    BY <2>2, <2>3, <2>4, <2>6, <2>7
  <2>8. CASE a # i
    BY <2>2, <2>3, <2>4, <2>5, <2>8
  <2> QED BY <2>7, <2>8
<1>5a. count[i] - request_count = a - i /\ (count[i] - request_count = 0 <=> a = i)
  BY <1>1, NAssumption DEF Pages
<1>6. /\ \A h \in Linked : h # i => count'[h] = count[h]
      /\ a # i => count'[i] = a - i
  <2>1. \A h \in Linked : h # i => h # a
    BY <1>1, <1>3, <1>4, NAssumption DEF Pages
  <2>2. a \in Pages
    BY <1>1, NAssumption DEF Pages
  <2>3. CASE a # i
    <3>1. count' = [count EXCEPT ![i] = count[i] - request_count, ![a] = count[i] - request_count]
      BY <1>5a, <2>3 DEF frame_alloc_phys_pages_take
    <3> QED BY <1>3, <1>5a, <2>1, <2>2, <2>3, <3>1 DEF ApiInv, TypeOK
  <2>4. CASE a = i
    BY <1>5a, <2>4 DEF frame_alloc_phys_pages_take
  <2> QED BY <2>3, <2>4
<1>7. ASSUME NEW h \in Linked, h # i PROVE RunOK(h)'
  <2>1. h \in Pages /\ RunOK(h) /\ (h + count[h] < i \/ e < h) /\ count'[h] = count[h]
        /\ count[h] \in Nat
    BY <1>3, <1>4, <1>6, <1>7
  <2>2. ASSUME NEW q \in h .. h + count[h] - 1
        PROVE  type'[q] = "UNUSED" /\ ref_count'[q] = 0
    <3>1. q \in Pages /\ q \in 0 .. N /\ q \notin a .. e /\ q \notin a .. e - 1
      BY <1>1, <2>1, NAssumption DEF RunOK, Pages
    <3> QED BY <1>2, <2>1, <3>1 DEF RunOK
  <2>3. h + count[h] < N => type'[h + count[h]] # "UNUSED"
    <3>1. h + count[h] \in 0 .. N
      BY <2>1, NAssumption DEF RunOK, Pages
    <3> QED BY <1>2, <2>1, <3>1 DEF RunOK
  <2> QED BY <2>1, <2>2, <2>3 DEF RunOK
<1>8. ASSUME a # i PROVE RunOK(i)'
  <2>1. count'[i] = a - i /\ i + count'[i] = a /\ a > i /\ a < N
    BY <1>1, <1>6, <1>8, NAssumption DEF Pages
  <2>2. \A q \in i .. a - 1 : q \in Pages /\ q \in 0 .. N /\ q \in i .. e - 1 /\ q \notin a .. e
                              /\ q \notin a .. e - 1
    BY <1>1, NAssumption DEF Pages
  <2>3. \A q \in i .. a - 1 : type'[q] = "UNUSED" /\ ref_count'[q] = 0
    BY <1>1, <1>2, <2>2
  <2>4. type'[a] = "USED"
    BY <1>1, <1>2, NAssumption DEF Pages
  <2>5. count'[i] > 0 /\ i + count'[i] <= N
    BY <1>1, <2>1, NAssumption DEF Pages
  <2>6. \A q \in i .. i + count'[i] - 1 : type'[q] = "UNUSED" /\ ref_count'[q] = 0
    BY <1>1, <2>1, <2>3, NAssumption DEF Pages
  <2> QED BY <2>1, <2>4, <2>5, <2>6 DEF RunOK
<1>9. Covered'
  <2> SUFFICES ASSUME NEW p \in Pages, type'[p] = "UNUSED"
               PROVE  \E h \in Linked' : p \in h .. h + count'[h] - 1
    BY DEF Covered
  <2>1. type[p] = "UNUSED" /\ p \notin a .. e /\ p < Limit
    BY <1>1, <1>2, NAssumption DEF Pages, Limit
  <2>2. PICK h \in Linked : p \in h .. h + count[h] - 1
    BY <2>1 DEF KernelInv, FreeListExact, Covered
  <2>3. CASE h # i
    BY <1>5, <1>6, <2>2, <2>3
  <2>4. CASE h = i
    <3>1. a # i /\ p \in i .. a - 1
      BY <1>1, <2>1, <2>2, <2>4, NAssumption DEF Pages
    <3>2. i + count'[i] - 1 = a - 1
      BY <1>1, <1>6, <3>1, NAssumption DEF Pages
    <3> QED BY <1>1, <1>5, <3>1, <3>2
  <2> QED BY <2>3, <2>4
<1>10. FirstOK' /\ \A h \in Linked' : LinkOK(h)'
  <2>1. CASE a # i
    <3>1. UNCHANGED <<next_desc, prev_desc, page_desc_free_ll>> /\ Linked' = Linked
      BY <1>5, <1>5a, <2>1 DEF frame_alloc_phys_pages_take
    <3>2. FirstOK'
      BY <3>1 DEF FirstOK, KernelInv, FreeListExact
    <3>3. \A h \in Linked : LinkOK(h)'
      BY <1>3, <3>1 DEF LinkOK
    <3> QED BY <3>1, <3>2, <3>3
  <2>2. CASE a = i
    <3>1. next_desc' = Detach(i).nx /\ prev_desc' = Detach(i).pv
          /\ page_desc_free_ll' = Detach(i).ll
      BY <1>5a, <2>2 DEF frame_alloc_phys_pages_take
    <3>2. TypeOK /\ FirstOK
      BY DEF ApiInv, KernelInv, FreeListExact
    <3> QED BY <1>1, <1>3, <1>5, <2>2, <3>1, <3>2, DetachExact
  <2> QED BY <2>1, <2>2
<1>11. FreeListExact'
  BY <1>5, <1>7, <1>8, <1>9, <1>10 DEF FreeListExact
<1>12. FreeUnreferenced'
  <2> SUFFICES ASSUME NEW p \in Pages, type'[p] = "UNUSED" PROVE ref_count'[p] = 0
    BY DEF FreeUnreferenced
  <2>1. p \in 0 .. N /\ p \notin a .. e /\ p \notin a .. e - 1 /\ type[p] = "UNUSED"
    BY <1>1, <1>2, NAssumption DEF Pages
  <2> QED BY <1>2, <2>1 DEF KernelInv, FreeUnreferenced
<1> QED BY <1>1, <1>11, <1>12 DEF KernelInv, NoFailedAssert, BuildInv, SearchInv

(* When the list is exact, the run the search stops at can be taken: the   *)
(* assertions of frame_alloc_phys_pages hold.                              *)
LEMMA AssertsHold ==
  ASSUME ApiInv, KernelInv, Allocating, it # Null, count[it] >= request_count
  PROVE  block_end_index <= N /\ Takeable(AllocRange)
<1>1. it \in Linked /\ request_count > 0
  BY DEF Allocating, KernelInv, SearchInv
<1>2. it \in Pages /\ RunOK(it) /\ count[it] \in Nat /\ request_count \in Nat
  BY <1>1, NAssumption DEF KernelInv, FreeListExact, Linked, Heads, ApiInv, TypeOK
<1>3. block_end_index = it + count[it]
      /\ AllocRange \subseteq it .. it + count[it] - 1
  BY <1>1, <1>2, NAssumption DEF block_end_index, alloc_start_index, AllocRange, Pages
<1> QED BY <1>2, <1>3 DEF RunOK, Takeable

\* A call that ends without frames preserves the kernel invariant.
LEMMA StopKernelInv ==
  ASSUME KernelInv, op # "build", Stop("oom")
  PROVE  KernelInv'
<1>1. op' = "idle" /\ status' = "oom" /\ UNCHANGED <<type, desc_vars, page_desc_free_ll>>
  BY DEF Stop, Idle
<1>2. FreeListExact' /\ FreeUnreferenced'
  BY <1>1, SameDescriptors DEF KernelInv
<1> QED BY <1>1, <1>2 DEF KernelInv, NoFailedAssert, BuildInv, SearchInv

\* Entering the allocator preserves the kernel invariant.
LEMMA StartKernelInv ==
  ASSUME ApiInv, KernelInv, NEW o \in {"alloc_pages", "alloc_pagetable"},
         NEW n \in Nat \ {0}, StartAlloc(o, n)
  PROVE  KernelInv'
<1>1. /\ op = "idle" /\ op' = o /\ it' = page_desc_free_ll /\ request_count' = n
      /\ UNCHANGED <<type, desc_vars, page_desc_free_ll, status>>
  BY DEF StartAlloc, Running
<1>2. FreeListExact' /\ FreeUnreferenced' /\ Linked' = Linked
  BY <1>1, SameDescriptors DEF KernelInv
<1>3. page_desc_free_ll \in Linked \cup {Null}
      /\ \A h \in Linked : h \in Int /\ h <= page_desc_free_ll
  BY NAssumption DEF KernelInv, FreeListExact, FirstOK, Linked, Heads, Pages
<1>4. page_desc_free_ll \in Int
  BY <1>3 DEF Null
<1>5. SearchInv'
  BY <1>1, <1>2, <1>3, <1>4 DEF SearchInv
<1> QED BY <1>1, <1>2, <1>5 DEF KernelInv, NoFailedAssert, BuildInv

\* Going on to the next run of the list preserves the kernel invariant.
LEMMA SkipKernelInv == ApiInv /\ KernelInv /\ frame_alloc_phys_pages_skip => KernelInv'
<1> SUFFICES ASSUME ApiInv, KernelInv, frame_alloc_phys_pages_skip PROVE KernelInv'
  OBVIOUS
<1>1. /\ op \in {"alloc_pages", "alloc_pagetable"} /\ op' = op /\ it # Null
      /\ it' = next_desc[it] /\ request_count' = request_count
      /\ count[it] < request_count
      /\ UNCHANGED <<type, desc_vars, page_desc_free_ll, status>>
  BY DEF frame_alloc_phys_pages_skip, Allocating
<1>2. FreeListExact' /\ FreeUnreferenced' /\ Linked' = Linked /\ count' = count
  BY <1>1, SameDescriptors DEF KernelInv, desc_vars
<1>3. it \in Linked /\ request_count > 0 /\ \A h \in Linked : h > it => count[h] < request_count
  BY <1>1 DEF KernelInv, SearchInv
<1>4. next_desc[it] \in Linked \cup {Null} /\ next_desc[it] < it
      /\ \A k \in Linked : k \in Int /\ (k < it => k <= next_desc[it])
  BY <1>3, NAssumption DEF KernelInv, FreeListExact, LinkOK, Linked, Heads, Pages
<1>5. next_desc[it] \in Int
  BY <1>4 DEF Null
<1>6. \A h \in Linked : h > next_desc[it] => h = it \/ h > it
  BY <1>3, <1>4, <1>5
<1>7. SearchInv'
  BY <1>1, <1>2, <1>3, <1>4, <1>6 DEF SearchInv
<1> QED BY <1>1, <1>2, <1>7 DEF KernelInv, NoFailedAssert, BuildInv

\* The end of build_free_list preserves the kernel invariant.
LEMMA ReturnKernelInv == ApiInv /\ KernelInv /\ build_free_list_return => KernelInv'
<1> SUFFICES ASSUME ApiInv, KernelInv, build_free_list_return PROVE KernelInv'
  OBVIOUS
<1>1. /\ op = "build" /\ run_start = Null /\ it = N /\ op' = "idle"
      /\ UNCHANGED <<type, desc_vars, page_desc_free_ll, status>>
  BY DEF build_free_list_return, Running, Idle
<1>2. Limit = N /\ Limit' = N /\ Linked' = Linked
  BY <1>1 DEF Limit, Linked, Heads
<1>3. FreeListExact'
  BY <1>1, <1>2, SameList DEF KernelInv, desc_vars
<1> QED BY <1>1, <1>3
        DEF KernelInv, NoFailedAssert, BuildInv, SearchInv, FreeUnreferenced, desc_vars

\* Every step the kernel takes preserves its invariant.
LEMMA NextKernelInv == ApiInv /\ KernelInv /\ [KernelNext]_vars => KernelInv'
<1> SUFFICES ASSUME ApiInv, KernelInv, [KernelNext]_vars PROVE KernelInv'
  OBVIOUS
<1>1. CASE build_free_list
  BY <1>1, ScanKernelInv, RunKernelInv, ReturnKernelInv DEF build_free_list
<1>2. ASSUME NEW n \in 1 .. MaxRequest, mm_alloc_pages(n) PROVE KernelInv'
  <2>1. n \in Nat \ {0}
    BY MaxAssumption
  <2> QED BY <1>2, <2>1, StartKernelInv DEF mm_alloc_pages
<1>3. CASE mm_alloc_pagetable
  BY <1>3, StartKernelInv DEF mm_alloc_pagetable
<1>4. CASE frame_alloc_phys_pages_skip
  BY <1>4, SkipKernelInv
<1>5. CASE frame_alloc_phys_pages_take
  BY <1>5, TakeKernelInv
<1>6. CASE frame_alloc_phys_pages_assert
  BY <1>6, AssertsHold DEF frame_alloc_phys_pages_assert
<1>7. CASE frame_alloc_phys_pages_null
  BY <1>7, StopKernelInv DEF frame_alloc_phys_pages_null, Allocating
<1>8. CASE UNCHANGED vars
  <2>1. /\ Limit' = Limit /\ Linked' = Linked /\ Heads' = Heads
        /\ UNCHANGED <<type, ref_count, next_desc, prev_desc, count, page_desc_free_ll>>
        /\ UNCHANGED <<op, request_count, it, run_start, status>>
    BY <1>8 DEF vars, desc_vars, call_vars, Limit, Linked, Heads
  <2>2. FreeListExact'
    BY <2>1, SameList DEF KernelInv
  <2> QED BY <2>1, <2>2
          DEF KernelInv, NoFailedAssert, BuildInv, SearchInv, FreeUnreferenced
<1> QED
  BY <1>1, <1>2, <1>3, <1>4, <1>5, <1>6, <1>7, <1>8
  DEF KernelNext, frame_alloc_phys_pages, Stopped

(* The kernel's steps are steps of the whole interface, so both invariants *)
(* hold of it.                                                             *)
THEOREM KernelInvariance == KernelSpec => [](ApiInv /\ KernelInv)
<1>1. [KernelNext]_vars => [Next]_vars
  BY DEF Next
<1> QED BY <1>1, InitApiInv, NextApiInv, InitKernelInv, NextKernelInv, PTL DEF KernelSpec

(* While nothing is freed, the free list is exactly the list of the        *)
(* maximal free runs: through the boot scan of build_free_list and through *)
(* every split and removal in frame_alloc_phys_pages.                      *)
THEOREM KernelFreeListExact == KernelSpec => []FreeListExact
<1>1. KernelInv => FreeListExact
  BY DEF KernelInv
<1> QED BY <1>1, KernelInvariance, PTL

(* While nothing is freed, no assertion of frame_alloc_phys_pages fails    *)
(* and no descriptor index leaves the array.                               *)
THEOREM KernelNoFailedAssert == KernelSpec => []NoFailedAssert
<1>1. KernelInv => NoFailedAssert
  BY DEF KernelInv
<1> QED BY <1>1, KernelInvariance, PTL

(* frame_alloc_phys_pages returns NULL only when no run of request_count   *)
(* free frames exists.                                                     *)
THEOREM KernelNullOnlyWhenNothingFits == KernelSpec => []NullOnlyWhenNothingFits
<1>1. ApiInv /\ KernelInv => NullOnlyWhenNothingFits
  <2> SUFFICES ASSUME ApiInv, KernelInv, Allocating, it = Null,
                      NEW s \in 0 .. N - request_count,
                      \A p \in s .. s + request_count - 1 : type[p] = "UNUSED"
               PROVE  FALSE
    BY DEF NullOnlyWhenNothingFits
  <2>1. request_count \in Nat \ {0} /\ op # "build"
        /\ \A h \in Linked : h > -1 => count[h] < request_count
    BY DEF Allocating, KernelInv, SearchInv, ApiInv, TypeOK, Null
  <2>2. s \in Pages /\ type[s] = "UNUSED" /\ s < Limit
    BY <2>1, NAssumption DEF Pages, Limit
  <2>3. PICK h \in Linked : s \in h .. h + count[h] - 1
    BY <2>2 DEF KernelInv, FreeListExact, Covered
  <2>4. h \in Pages /\ RunOK(h) /\ count[h] \in Nat /\ count[h] < request_count
    BY <2>1, NAssumption DEF KernelInv, FreeListExact, Linked, Heads, ApiInv, TypeOK, Pages
  <2>5. h + count[h] \in s .. s + request_count - 1 /\ h + count[h] < N
    BY <2>1, <2>2, <2>3, <2>4, NAssumption DEF Pages
  <2> QED BY <2>4, <2>5 DEF RunOK
<1> QED BY <1>1, KernelInvariance, PTL

(* No free frame is lost: each frame that was free at boot is on the free  *)
(* list or was handed to exactly one caller.                               *)
THEOREM KernelNoFrameLost == KernelSpec => []NoFrameLost
<1>1. Init => NoFrameLost
  BY NAssumption DEF Init, NoFrameLost, Pages
<1>2. ApiInv /\ KernelInv /\ NoFrameLost /\ [KernelNext]_vars => NoFrameLost'
  <2> SUFFICES ASSUME ApiInv, KernelInv, NoFrameLost, [KernelNext]_vars PROVE NoFrameLost'
    OBVIOUS
  <2>1. CASE frame_alloc_phys_pages_take
    <3> SUFFICES ASSUME NEW p \in Pages, Boot[p] = "UNUSED"
                 PROVE  owners'[p] = IF type'[p] = "UNUSED" THEN 0 ELSE 1
      BY DEF NoFrameLost
    <3>1. type'[p] = (IF p \in MarkedUsed THEN "USED" ELSE type[p])
          /\ owners'[p] = IF p \in AllocRange THEN owners[p] + 1 ELSE owners[p]
      BY <2>1, NAssumption DEF frame_alloc_phys_pages_take, Pages
    <3>2. /\ block_end_index \in Int /\ alloc_start_index \in Int
          /\ block_end_index < N => type[block_end_index] # "UNUSED"
      BY <2>1, TakeShape, NAssumption DEF Pages
    <3>3. p \in AllocRange => p \in MarkedUsed /\ type[p] = "UNUSED"
      BY <2>1, <3>2 DEF frame_alloc_phys_pages_take, Takeable, AllocRange, MarkedUsed
    <3>4. p \in MarkedUsed /\ p \notin AllocRange => type[p] # "UNUSED"
      BY <3>2, NAssumption DEF AllocRange, MarkedUsed, Pages
    <3> QED BY <3>1, <3>3, <3>4 DEF NoFrameLost
  <2>2. CASE ~frame_alloc_phys_pages_take
    <3>1. UNCHANGED <<type, owners>>
      BY <2>2
      DEF KernelNext, vars, Stopped, Stop, build_free_list, build_free_list_scan,
          build_free_list_run, build_free_list_return, mm_alloc_pages, mm_alloc_pagetable,
          StartAlloc, frame_alloc_phys_pages, frame_alloc_phys_pages_skip,
          frame_alloc_phys_pages_assert, frame_alloc_phys_pages_null
    <3> QED BY <3>1 DEF NoFrameLost
  <2> QED BY <2>1, <2>2
<1> QED BY <1>1, <1>2, KernelInvariance, PTL DEF KernelSpec
=============================================================================
