---------------------------- MODULE FlatHashmap -----------------------------
(***************************************************************************)
(* utils/data_structs/flat_hashmap.c: the open-addressing hash map behind  *)
(* the inode cache, the directory entry cache and the mount map.  Linear   *)
(* probing, tombstones for deleted entries, rehashing when the table fills *)
(* or tombstones pile up.  Calls do not interleave, so one call is one     *)
(* step.  A key stands for its bytes and its length.                       *)
(***************************************************************************)
EXTENDS Integers, FiniteSets, Sequences, FiniteSetsExt

CONSTANTS
    Keys,
    Data,          \* the values a caller may give each key
    Hash,          \* the hash of each key
    CopiedKeys,    \* keys whose inserts pass FHASHMAP_INS_FLAG_KEY_COPY
    InitCapacity,  \* the capacity asked of init_fhashmap_custom
    MaxUsed        \* bound: no insert once so many entries are used

NoKey == "no key"

pow2[n \in Nat] == IF n = 0 THEN 1 ELSE 2 * pow2[n - 1]

ASSUME KeyAssumption == NoKey \notin Keys
ASSUME HashAssumption == Hash \in [Keys -> Nat]
ASSUME DataAssumption == DOMAIN Data = Keys
ASSUME CopiedAssumption == CopiedKeys \subseteq Keys
ASSUME CapacityAssumption == \E n \in 0 .. 63 : InitCapacity = pow2[n]
ASSUME BoundAssumption == MaxUsed \in Nat

VARIABLES
    entries,       \* entries[0 .. capacity-1]
    capacity,
    empty_count, used_count, delete_count,
    copies,        \* key copies allocated on the heap and not freed
    lookup_first,  \* rigid: callers insert only a key that a lookup missed
    ret            \* the last call and its result

counts == <<empty_count, used_count, delete_count>>
vars   == <<entries, capacity, counts, copies, lookup_first, ret>>

Values == UNION {Data[k] : k \in Keys}

MIN_CAPACITY == 4
NoVal == "no value"

Empty      == [state |-> "EMPTY", key |-> NoKey, data |-> NoVal, allocated |-> FALSE]
Blank(cap) == [p \in 0 .. cap - 1 |-> Empty]

init_capacity == IF InitCapacity < MIN_CAPACITY THEN MIN_CAPACITY ELSE InitCapacity

Init ==
    /\ capacity = init_capacity
    /\ entries = Blank(capacity)
    /\ empty_count = capacity /\ used_count = 0 /\ delete_count = 0
    /\ copies = 0
    /\ lookup_first \in BOOLEAN
    /\ ret = <<"init">>

-----------------------------------------------------------------------------
(* The k-th position probed for hash h; capacities are powers of two, so   *)
(* the mask of the code is a remainder.                                    *)
Probe(cap, h, k) == (h + k) % cap

find_free_slot(es, cap, h) ==
    Probe(cap, h, Min({k \in 0 .. cap - 1 : es[Probe(cap, h, k)].state # "USED"}))

Matches(p, k) == entries[p].key = k

(* Positions at which a search for key k stops, as distances from its      *)
(* ideal slot: an empty entry, or the key.                                 *)
Stops(k) == {j \in 0 .. capacity - 1 :
               LET p == Probe(capacity, Hash[k], j)
               IN  entries[p].state = "EMPTY" \/ Matches(p, k)}

(* find_exact_entry: the set of the entry it returns, empty for NULL.      *)
find_exact_entry(k) ==
    LET p == Probe(capacity, Hash[k], Min(Stops(k)))
    IN  IF Matches(p, k) THEN {p} ELSE {}

(* The same search, but only as far as the slot an insert would take.      *)
find_exact_entry_interval(k, to) ==
    {p \in find_exact_entry(k) :
        \A j \in 0 .. Min(Stops(k)) : Probe(capacity, Hash[k], j) # to}

(* Variant: the entry is moved to its ideal slot, whatever is there.       *)
Move_unprobed(es, cap, e) == [es EXCEPT ![Probe(cap, Hash[e.key], 0)] = e]
Move(es, cap, e) == [es EXCEPT ![find_free_slot(es, cap, Hash[e.key])] = e]

(* The loop of rehash: the new table, and how many entries were moved to   *)
(* it, once the first n positions of the old one are done.                 *)
Rehashing(es, u, new_capacity) ==
    LET after[n \in 0 .. capacity] ==
            IF n = 0 THEN [table |-> Blank(new_capacity), cur_used_count |-> 0]
            ELSE LET now == after[n - 1]
                 IN  IF es[n - 1].state # "USED" \/ now.cur_used_count = u THEN now
                     ELSE [table |-> Move(now.table, new_capacity, es[n - 1]),
                           cur_used_count |-> now.cur_used_count + 1]
    IN  after

rehash(es, u, new_capacity) ==
    /\ entries' = Rehashing(es, u, new_capacity)[capacity].table
    /\ capacity' = new_capacity
    /\ used_count' = u /\ delete_count' = 0 /\ empty_count' = new_capacity - u

need_resize(u, d) == ((u + d) * 100) \div capacity > 75
need_rehash(u, d) == (d * 100) \div (u + d) > 25

(* The end of every insert and delete: es, and n empty, u used and d       *)
(* deleted entries are what the call has left.                             *)
handle_rehash(es, n, u, d) ==
    IF need_resize(u, d) THEN rehash(es, u, capacity * 2)
    ELSE IF need_rehash(u, d) THEN rehash(es, u, capacity)
    ELSE /\ entries' = es
         /\ empty_count' = n /\ used_count' = u /\ delete_count' = d
         /\ UNCHANGED capacity

Copies(p) == IF entries[p].allocated THEN 1 ELSE 0

(* clean_entry; data is left as it is.                                     *)
clean_entry(e, s) == [e EXCEPT !.state = s, !.key = NoKey, !.allocated = FALSE]

-----------------------------------------------------------------------------
NewEntry(k, v) == [state |-> "USED", key |-> k, data |-> v, allocated |-> k \in CopiedKeys]
NewCopies(k)   == IF k \in CopiedKeys THEN 1 ELSE 0

(* The key is found before the free slot, and OVERWRITE was not asked for. *)
fhashmap_insert_refused(k, overwrite) ==
    /\ find_exact_entry_interval(k, find_free_slot(entries, capacity, Hash[k])) # {}
    /\ ~ overwrite
    /\ ret' = <<"insert", FALSE>>
    /\ UNCHANGED <<entries, capacity, counts, copies>>

(* The entry found is cleaned (one more empty, one used less) and refilled.*)
fhashmap_insert_over(k, v) ==
    /\ \E p \in find_exact_entry_interval(k, find_free_slot(entries, capacity, Hash[k])) :
         /\ handle_rehash([entries EXCEPT ![p] = NewEntry(k, v)],
                          empty_count, used_count, delete_count)
         /\ copies' = copies - Copies(p) + NewCopies(k)
    /\ ret' = <<"insert", TRUE>>

(* Variant: reusing a tombstone is counted as filling an empty entry.      *)
fhashmap_insert_miscounted(k, v) ==
    LET p == find_free_slot(entries, capacity, Hash[k])
    IN  /\ find_exact_entry_interval(k, p) = {}
        /\ handle_rehash([entries EXCEPT ![p] = NewEntry(k, v)],
                         empty_count - 1, used_count + 1, delete_count)
        /\ copies' = copies + NewCopies(k)
        /\ ret' = <<"insert", TRUE>>

fhashmap_insert_new(k, v) ==
    LET p == find_free_slot(entries, capacity, Hash[k])
        was(s) == IF entries[p].state = s THEN 1 ELSE 0
    IN  /\ find_exact_entry_interval(k, p) = {}
        /\ handle_rehash([entries EXCEPT ![p] = NewEntry(k, v)],
                         empty_count - was("EMPTY"), used_count + 1,
                         delete_count - was("DELETE"))
        /\ copies' = copies + NewCopies(k)
        /\ ret' = <<"insert", TRUE>>

fhashmap_insert(k, v, overwrite) ==
    /\ used_count < MaxUsed
    /\ lookup_first => find_exact_entry(k) = {}
    /\ \/ fhashmap_insert_refused(k, overwrite)
       \/ overwrite /\ fhashmap_insert_over(k, v)
       \/ fhashmap_insert_new(k, v)

fhashmap_get_data(k) ==
    /\ ret' = IF find_exact_entry(k) = {} THEN <<"get", k, FALSE>>
              ELSE <<"get", k, TRUE, entries[CHOOSE p \in find_exact_entry(k) : TRUE].data>>
    /\ UNCHANGED <<entries, capacity, counts, copies>>

fhashmap_delete_missing(k) ==
    /\ find_exact_entry(k) = {}
    /\ ret' = <<"delete", k, FALSE>>
    /\ UNCHANGED <<entries, capacity, counts, copies>>

(* Variant: the entry becomes EMPTY, so that a probe sequence is cut.      *)
deleted_state_empty == "EMPTY"
deleted_state == "DELETE"

fhashmap_delete_found(k) ==
    \E p \in find_exact_entry(k) :
        /\ ret' = <<"delete", k, TRUE, entries[p].data>>
        /\ copies' = copies - Copies(p)
        /\ handle_rehash([entries EXCEPT ![p] = clean_entry(@, deleted_state)],
                         empty_count, used_count - 1, delete_count + 1)

fhashmap_delete(k) == fhashmap_delete_missing(k) \/ fhashmap_delete_found(k)

free_keys == copies - Cardinality({p \in DOMAIN entries : entries[p].allocated})

fhashmap_clear ==
    /\ copies' = free_keys
    /\ entries' = Blank(capacity)
    /\ empty_count' = capacity /\ used_count' = 0 /\ delete_count' = 0
    /\ ret' = <<"clear">>
    /\ UNCHANGED capacity

(* fhashmap_free, and the initialisation of the map that comes after it.   *)
fhashmap_free ==
    /\ copies' = free_keys
    /\ capacity' = init_capacity
    /\ entries' = Blank(init_capacity)
    /\ empty_count' = init_capacity /\ used_count' = 0 /\ delete_count' = 0
    /\ ret' = <<"clear">>

Next ==
    /\ \/ \E k \in Keys : \E v \in Data[k], overwrite \in BOOLEAN :
            fhashmap_insert(k, v, overwrite)
       \/ \E k \in Keys : fhashmap_get_data(k) \/ fhashmap_delete(k)
       \/ fhashmap_clear
       \/ fhashmap_free
    /\ UNCHANGED lookup_first

Spec == Init /\ [][Next]_vars

-----------------------------------------------------------------------------
Used == {p \in DOMAIN entries : entries[p].state = "USED"}

States  == {"EMPTY", "USED", "DELETE"}
Entries == [state : States, key : Keys \cup {NoKey}, data : Values \cup {NoVal}, allocated : BOOLEAN]

(* The capacity is a power of two, as the masks need, and the table has    *)
(* that many entries.                                                      *)
TypeOK ==
    /\ \E n \in 2 .. capacity : capacity = pow2[n]
    /\ entries \in [0 .. capacity - 1 -> Entries]
    /\ {empty_count, used_count, delete_count, copies} \subseteq Nat

(* The map the table stands for: each key with the value a lookup returns. *)
Present == {k \in Keys : find_exact_entry(k) # {}}
Dict    == [k \in Present |-> entries[CHOOSE p \in find_exact_entry(k) : TRUE].data]

(* The three counts are the numbers of entries in each state, and an empty *)
(* entry is left between calls: find_exact_entry asserts it, and without   *)
(* it a search for a missing key would never end.  Every key copied by an  *)
(* insert with KEY_COPY is owned by one entry and freed when the entry     *)
(* goes: none leaks, none is freed twice.  Callers that look a key up      *)
(* before they insert it never have it in the table twice;                 *)
(* FHASHMAP_INS_FLAG_OVERWRITE, "overwrite value if key already exists",   *)
(* does not ensure this without them, as the search for the key stops at   *)
(* the first tombstone.                                                    *)
CountsExact ==
    /\ TypeOK
    /\ used_count = Cardinality(Used)
    /\ delete_count = Cardinality({p \in DOMAIN entries : entries[p].state = "DELETE"})
    /\ empty_count = capacity - used_count - delete_count
    /\ empty_count > 0
    /\ copies = Cardinality({p \in DOMAIN entries : entries[p].allocated})
    /\ lookup_first => used_count = Cardinality(Present)

(* A used entry can be reached: no empty entry lies between its ideal slot *)
(* and the entry, whatever was deleted, overwritten or moved since.        *)
Reachable(p) ==
    \E j \in 0 .. capacity - 1 :
        /\ p = Probe(capacity, Hash[entries[p].key], j)
        /\ \A i \in 0 .. j : entries[Probe(capacity, Hash[entries[p].key], i)].state # "EMPTY"

ProbesReachEntries == \A p \in Used : Reachable(p)

Abstract == INSTANCE Dictionary WITH dict <- Dict

(* Seen through lookups, and used by callers that look a key up before     *)
(* they insert it, the table is a dictionary: every call, with the rehash  *)
(* it may trigger, changes the key it is given and no other.  As           *)
(* lookup_first never changes, this is lookup_first => Abstract!Spec.      *)
RefinesDictionary ==
    /\ Abstract!Init
    /\ [][lookup_first => Abstract!Next]_<<Dict, ret>>

=============================================================================
