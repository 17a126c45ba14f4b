------------------------- MODULE FlatHashmapProofs --------------------------
(***************************************************************************)
(* Proofs about FlatHashmap, for tables of any capacity, any set of keys   *)
(* and any hash function.                                                  *)
(***************************************************************************)
EXTENDS FlatHashmap, FiniteSetTheorems, Induction

-----------------------------------------------------------------------------
(* The probe sequence of a hash visits every slot once.                    *)
LEMMA ProbeType == \A c \in Nat \ {0}, h, k \in Nat : Probe(c, h, k) \in 0 .. c - 1
  BY DEF Probe

LEMMA ProbeOnto ==
    ASSUME NEW c \in Nat \ {0}, NEW h \in Nat, NEW p \in 0 .. c - 1
    PROVE  \E j \in 0 .. c - 1 : Probe(c, h, j) = p
<1> DEFINE q == h \div c
           r == h % c
<1>1. h = c * q + r /\ r \in 0 .. c - 1 /\ q \in Int
  BY Division
<1> HIDE DEF q, r
<1>2. CASE r <= p
  <2>1. p - r \in 0 .. c - 1 /\ h + (p - r) = c * q + p
    BY <1>1, <1>2
  <2>2. (c * q + p) % c = p
    BY <1>1, DivisionUnique
  <2> QED
    BY <2>1, <2>2 DEF Probe
<1>3. CASE p < r
  <2>1. (p - r) + c \in 0 .. c - 1
    BY <1>1, <1>3
  <2>2. c * (q + 1) = c * q + c
    BY <1>1
  <2>3. h + ((p - r) + c) = c * (q + 1) + p
    BY <1>1, <2>2
  <2>4. (c * (q + 1) + p) % c = p
    BY <1>1, DivisionUnique
  <2> QED
    BY <2>1, <2>3, <2>4 DEF Probe
<1> QED
  BY <1>1, <1>2, <1>3

LEMMA ProbeOnce ==
    ASSUME NEW c \in Nat \ {0}, NEW h \in Nat, NEW i \in 0 .. c - 1, NEW j \in 0 .. c - 1,
           Probe(c, h, i) = Probe(c, h, j)
    PROVE  i = j
<1> DEFINE a == (h + i) \div c
           b == (h + j) \div c
           r == (h + i) % c
<1>1. h + i = c * a + r /\ h + j = c * b + r /\ a \in Int /\ b \in Int /\ r \in Int
  BY Division DEF Probe
<1>2. i - j = c * (a - b)
  BY <1>1
<1>3. a = b
  <2>1. CASE a - b >= 1
    <3>1. c * (a - b) >= c
      BY <1>1, <2>1
    <3> QED
      BY <1>2, <3>1
  <2>2. CASE a - b <= -1
    <3>1. c * (a - b) <= -c
      BY <1>1, <2>2
    <3> QED
      BY <1>2, <3>1
  <2> QED
    BY <1>1, <2>1, <2>2
<1> QED
  BY <1>1, <1>3

-----------------------------------------------------------------------------
(* The powers of two.                                                      *)
LEMMA Pow2Def == pow2 \in [Nat -> Nat] /\ pow2[0] = 1 /\ \A n \in Nat : pow2[n + 1] = 2 * pow2[n]
<1> DEFINE step == [x \in Nat \X Nat |-> 2 * x[1]]
<1>1. StepOnNat(step, Nat) /\ \A x, n \in Nat : step[<<x, n>>] = 2 * x
  BY DEF StepOnNat
<1> HIDE DEF step
<1>2. PICK f : ByRecursionOnNat(f, Nat, 1, step)
  BY <1>1, RecursionOnNat
<1>3. f \in [Nat -> Nat] /\ f[0] = 1 /\ \A n \in Nat \ {0} : f[n] = 2 * f[n - 1]
  <2>1. f \in [Nat -> Nat] /\ f[0] = 1
    BY <1>2 DEF ByRecursionOnNat
  <2>2. ASSUME NEW n \in Nat \ {0} PROVE f[n] = 2 * f[n - 1]
    <3>1. f[n - 1] \in Nat
      BY <2>1
    <3>2. f[n] = step[<<f[n - 1], n>>]
      BY <1>2 DEF ByRecursionOnNat
    <3> QED
      BY <1>1, <3>1, <3>2
  <2> QED
    BY <2>1, <2>2
<1>4. f = [n \in Nat |-> IF n = 0 THEN 1 ELSE 2 * f[n - 1]]
  BY <1>3
<1>5. pow2 = [n \in Nat |-> IF n = 0 THEN 1 ELSE 2 * pow2[n - 1]]
  BY <1>4 DEF pow2
<1>6. pow2[0] = 1 /\ \A n \in Nat : pow2[n + 1] = 2 * pow2[n]
  BY <1>5
<1> DEFINE T == {n \in Nat : pow2[n] \in Nat}
<1>7. \A n \in Nat : n \in T
  <2>1. 0 \in T /\ \A n \in Nat : n \in T => n + 1 \in T
    BY <1>6
  <2> HIDE DEF T
  <2> QED
    BY <2>1, InductionOnNat
<1> QED
  BY <1>5, <1>6, <1>7

LEMMA Pow2Bound == \A n \in Nat : n <= pow2[n]
<1> DEFINE T == {n \in Nat : n + 1 <= pow2[n]}
<1>1. 0 \in T /\ \A n \in Nat : n \in T => n + 1 \in T
  BY Pow2Def
<1>2. \A n \in Nat : n \in T
  <2> HIDE DEF T
  <2> QED
    BY <1>1, InductionOnNat
<1> QED
  BY <1>2, Pow2Def

-----------------------------------------------------------------------------
(* A table es of capacity c.                                               *)
UsedIn(es, c)    == {p \in 0 .. c - 1 : es[p].state = "USED"}
DeletedIn(es, c) == {p \in 0 .. c - 1 : es[p].state = "DELETE"}
CopiedIn(es, c)  == {p \in 0 .. c - 1 : es[p].allocated}

(* The pairs of a key and a value that a table holds.                      *)
Content(es, c) == {<<es[p].key, es[p].data>> : p \in UsedIn(es, c)}

(* Exactly the used entries have a key.                                    *)
WellFormed(es, c) ==
    /\ es \in [0 .. c - 1 -> Entries]
    /\ \A p \in 0 .. c - 1 :
          IF es[p].state = "USED" THEN es[p].key \in Keys
          ELSE es[p].key = NoKey /\ es[p].allocated = FALSE

ReachedAt(es, c, p) ==
    \E j \in 0 .. c - 1 :
        /\ p = Probe(c, Hash[es[p].key], j)
        /\ \A i \in 0 .. j : es[Probe(c, Hash[es[p].key], i)].state # "EMPTY"
Reached(es, c) == \A p \in UsedIn(es, c) : ReachedAt(es, c, p)

HasRoom(es, c) == \E p \in 0 .. c - 1 : es[p].state # "USED"

(* new is es with e in slot s, which was not used.                         *)
PutAt(new, es, c, s, e) ==
    /\ s \in 0 .. c - 1 /\ es[s].state # "USED"
    /\ \A p \in 0 .. c - 1 : new[p] = IF p = s THEN e ELSE es[p]

KeysOnce(es, c) == \A p, q \in UsedIn(es, c) : es[p].key = es[q].key => p = q

(* What find_free_slot returns: the first slot in probing order that is    *)
(* not used, if there is one.                                              *)
LEMMA FreeSlot ==
    ASSUME NEW c \in Nat \ {0}, NEW es, NEW h \in Nat, HasRoom(es, c)
    PROVE  \E j \in 0 .. c - 1 :
              /\ find_free_slot(es, c, h) = Probe(c, h, j)
              /\ es[Probe(c, h, j)].state # "USED"
              /\ \A i \in 0 .. j - 1 : es[Probe(c, h, i)].state = "USED"
<1> DEFINE S == {k \in 0 .. c - 1 : es[Probe(c, h, k)].state # "USED"}
           j == Min(S)
<1>1. S # {}
  <2>1. PICK p \in 0 .. c - 1 : es[p].state # "USED"
    BY DEF HasRoom
  <2>2. PICK k \in 0 .. c - 1 : Probe(c, h, k) = p
    BY ProbeOnto, SMTT(20)
  <2> QED
    BY <2>1, <2>2
<1>2. S \in SUBSET Nat
  OBVIOUS
<1>3. j \in S /\ \A m \in S : j <= m
  <2> HIDE DEF S
  <2> QED
    BY <1>1, <1>2, MinFacts
<1>4. \A i \in 0 .. j - 1 : i \notin S /\ i \in 0 .. c - 1
  BY <1>2, <1>3
<1>5. find_free_slot(es, c, h) = Probe(c, h, j)
  BY DEF find_free_slot
<1> HIDE DEF j
<1> QED
  BY <1>3, <1>4, <1>5

(* A used entry e is put into the free slot of its key, as insert and      *)
(* rehash do.                                                              *)
LEMMA Placed ==
    ASSUME NEW c \in Nat \ {0}, NEW es, NEW e \in Entries, NEW s, NEW new,
           WellFormed(es, c), Reached(es, c), HasRoom(es, c),
           e.state = "USED", e.key \in Keys,
           s = find_free_slot(es, c, Hash[e.key]), new = [es EXCEPT ![s] = e]
    PROVE  PutAt(new, es, c, s, e) /\ WellFormed(new, c) /\ Reached(new, c)
<1> DEFINE h == Hash[e.key]
<1>1. h \in Nat /\ s = find_free_slot(es, c, h)
  BY HashAssumption
<1> HIDE DEF h
<1>2. PICK j \in 0 .. c - 1 :
              /\ s = Probe(c, h, j)
              /\ es[Probe(c, h, j)].state # "USED"
              /\ \A i \in 0 .. j - 1 : es[Probe(c, h, i)].state = "USED"
  BY <1>1, FreeSlot
<1>3. s \in 0 .. c - 1 /\ es[s].state # "USED"
  BY <1>1, <1>2, ProbeType
<1>4. \A p \in 0 .. c - 1 : new[p] = IF p = s THEN e ELSE es[p]
  BY <1>3 DEF WellFormed
<1>5. new \in [0 .. c - 1 -> Entries]
  BY <1>3 DEF WellFormed
<1>6. WellFormed(new, c)
  BY <1>4, <1>5 DEF WellFormed
<1>7. \A p \in 0 .. c - 1 : es[p].state # "EMPTY" => new[p].state # "EMPTY"
  BY <1>4
<1>8. ASSUME NEW p \in UsedIn(new, c) PROVE ReachedAt(new, c, p)
  <2>1. CASE p = s
    <3>1. new[p].key = e.key
      BY <1>3, <1>4, <2>1
    <3>2. ASSUME NEW i \in 0 .. j PROVE new[Probe(c, h, i)].state # "EMPTY"
      <4>0. i \in Nat
        OBVIOUS
      <4>1. Probe(c, h, i) \in 0 .. c - 1
        BY <1>1, <4>0, ProbeType, Zenon
      <4>2. CASE i = j
        BY <1>2, <1>3, <1>4, <4>2
      <4>3. CASE i # j
        <5>1. i \in 0 .. j - 1
          BY <4>3, SMTT(20)
        <5> QED
          BY <1>2, <1>7, <4>1, <5>1
      <4> QED
        BY <4>2, <4>3
    <3> QED
      BY <1>2, <2>1, <3>1, <3>2, Zenon DEF ReachedAt, h
  <2>2. CASE p # s
    <3>1. new[p] = es[p] /\ p \in UsedIn(es, c)
      BY <1>4, <2>2 DEF UsedIn
    <3>2. PICK l \in 0 .. c - 1 :
              /\ p = Probe(c, Hash[es[p].key], l)
              /\ \A i \in 0 .. l : es[Probe(c, Hash[es[p].key], i)].state # "EMPTY"
      BY <3>1 DEF Reached, ReachedAt
    <3>3. Hash[es[p].key] \in Nat
      BY <3>1, HashAssumption DEF WellFormed, UsedIn
    <3>4. ASSUME NEW i \in 0 .. l PROVE Probe(c, Hash[es[p].key], i) \in 0 .. c - 1
      <4>1. i \in Nat
        OBVIOUS
      <4> QED
        BY <3>3, <4>1, ProbeType, Zenon
    <3>5. \A i \in 0 .. l : new[Probe(c, Hash[es[p].key], i)].state # "EMPTY"
      BY <1>7, <3>2, <3>4
    <3> QED
      BY <3>1, <3>2, <3>5 DEF ReachedAt
  <2> QED
    BY <2>1, <2>2
<1>9. Reached(new, c)
  BY <1>8, Zenon DEF Reached
<1>10. PutAt(new, es, c, s, e)
  BY <1>3, <1>4 DEF PutAt
<1> QED
  BY <1>6, <1>9, <1>10

LEMMA SlotSets ==
    ASSUME NEW c \in Nat, NEW S \in SUBSET (0 .. c - 1)
    PROVE  IsFiniteSet(S) /\ Cardinality(S) \in 0 .. c
<1>1. IsFiniteSet(0 .. c - 1) /\ Cardinality(0 .. c - 1) = c
  <2>1. 0 \in Int /\ c - 1 \in Int
    OBVIOUS
  <2>2. IsFiniteSet(0 .. c - 1) /\ Cardinality(0 .. c - 1) = IF 0 > c - 1 THEN 0 ELSE (c - 1) - 0 + 1
    BY <2>1, FS_Interval
  <2> QED
    BY <2>2
<1>2. IsFiniteSet(S) /\ Cardinality(S) <= c
  BY <1>1, FS_Subset, Zenon
<1> QED
  BY <1>2, FS_CardinalityType

(* The sets of slots, and the content, after an entry was put into a slot  *)
(* that was not used.                                                      *)
SetsAfterPut(new, es, c, s, e) ==
    /\ UsedIn(new, c) = UsedIn(es, c) \cup {s} /\ s \notin UsedIn(es, c)
    /\ DeletedIn(new, c) = DeletedIn(es, c) \ {s}
    /\ CopiedIn(new, c) = CopiedIn(es, c) \cup (IF e.allocated THEN {s} ELSE {})
    /\ s \notin CopiedIn(es, c)
    /\ Content(new, c) = Content(es, c) \cup {<<e.key, e.data>>}

LEMMA PlacedSets ==
    ASSUME NEW c \in Nat \ {0}, NEW es, NEW new, NEW e \in Entries, NEW s,
           WellFormed(es, c), e.state = "USED", PutAt(new, es, c, s, e)
    PROVE  SetsAfterPut(new, es, c, s, e)
<1> USE DEF PutAt
<1>1. UsedIn(new, c) = UsedIn(es, c) \cup {s} /\ s \notin UsedIn(es, c)
  BY DEF UsedIn
<1>2. DeletedIn(new, c) = DeletedIn(es, c) \ {s}
  BY DEF DeletedIn
<1>3. s \notin CopiedIn(es, c)
  BY DEF CopiedIn, WellFormed
<1>4. CopiedIn(new, c) = CopiedIn(es, c) \cup (IF e.allocated THEN {s} ELSE {})
  BY <1>3 DEF CopiedIn
<1>5. Content(new, c) = Content(es, c) \cup {<<e.key, e.data>>}
  <2>1. \A p \in UsedIn(es, c) : p \in 0 .. c - 1 /\ new[p] = es[p]
    BY <1>1 DEF UsedIn
  <2>2. new[s] = e
    OBVIOUS
  <2> QED
    BY <1>1, <2>1, <2>2 DEF Content
<1> QED
  BY <1>1, <1>2, <1>3, <1>4, <1>5 DEF SetsAfterPut

-----------------------------------------------------------------------------
(* rehash.                                                                 *)
RehashState(nc) == [table : [0 .. nc - 1 -> Entries], cur_used_count : Nat]

RehashStep(now, es, u, nc, n) ==
    IF es[n - 1].state # "USED" \/ now.cur_used_count = u THEN now
    ELSE [table |-> Move(now.table, nc, es[n - 1]), cur_used_count |-> now.cur_used_count + 1]

LEMMA BlankTable ==
    ASSUME NEW c \in Nat
    PROVE  /\ Blank(c) \in [0 .. c - 1 -> Entries]
           /\ \A p \in 0 .. c - 1 : Blank(c)[p] = Empty
  BY DEF Blank, Empty, Entries, States

LEMMA RehashingDef ==
    ASSUME NEW es, NEW u \in Nat, NEW nc \in Nat,
           capacity \in Nat, es \in [0 .. capacity - 1 -> Entries]
    PROVE  LET after == Rehashing(es, u, nc)
           IN  /\ after[0] = [table |-> Blank(nc), cur_used_count |-> 0]
               /\ \A n \in 1 .. capacity : after[n] = RehashStep(after[n - 1], es, u, nc, n)
<1> DEFINE S == RehashState(nc)
           a == [table |-> Blank(nc), cur_used_count |-> 0]
           step == [x \in S \X (1 .. capacity) |-> RehashStep(x[1], es, u, nc, x[2])]
<1>1. a \in S
  BY BlankTable DEF RehashState
<1>2. ASSUME NEW now \in S, NEW n \in 1 .. capacity PROVE RehashStep(now, es, u, nc, n) \in S
  <2>1. es[n - 1] \in Entries
    OBVIOUS
  <2>2. Move(now.table, nc, es[n - 1]) \in [0 .. nc - 1 -> Entries]
    BY <2>1, Zenon DEF Move, RehashState
  <2> QED
    BY <2>2 DEF RehashStep, RehashState
<1>3. StepUpTo(step, capacity, S)
  BY <1>2 DEF StepUpTo
<1>4. \A now \in S, n \in 1 .. capacity : step[<<now, n>>] = RehashStep(now, es, u, nc, n)
  OBVIOUS
<1> HIDE DEF step, S
<1>5. PICK f : ByRecursionUpTo(f, capacity, S, a, step)
  <2> HIDE DEF a
  <2> QED
    BY <1>1, <1>3, RecursionUpTo
<1>6. f \in [0 .. capacity -> S] /\ f[0] = a
  BY <1>5 DEF ByRecursionUpTo
<1>7. ASSUME NEW n \in 1 .. capacity PROVE f[n] = RehashStep(f[n - 1], es, u, nc, n)
  <2>1. f[n - 1] \in S
    BY <1>6
  <2>2. f[n] = step[<<f[n - 1], n>>]
    BY <1>5 DEF ByRecursionUpTo
  <2> QED
    BY <1>4, <2>1, <2>2
<1>8. f = [n \in 0 .. capacity |-> IF n = 0 THEN a ELSE RehashStep(f[n - 1], es, u, nc, n)]
  <2>1. ASSUME NEW n \in 0 .. capacity
        PROVE  f[n] = IF n = 0 THEN a ELSE RehashStep(f[n - 1], es, u, nc, n)
    <3> HIDE DEF a
    <3> QED
      BY <1>6, <1>7
  <2> HIDE DEF a
  <2> QED
    BY <1>6, <2>1
<1>9. Rehashing(es, u, nc) = [n \in 0 .. capacity |-> IF n = 0 THEN a ELSE RehashStep(Rehashing(es, u, nc)[n - 1], es, u, nc, n)]
  BY <1>8, Zenon DEF Rehashing, RehashStep
<1> QED
  BY <1>9

(* Table t holds what the first n slots of es hold, and no tombstones.     *)
Carried(es, n, t, nc) ==
    /\ WellFormed(t, nc) /\ Reached(t, nc)
    /\ DeletedIn(t, nc) = {}
    /\ Content(t, nc) = Content(es, n)
    /\ Cardinality(UsedIn(t, nc)) = Cardinality(UsedIn(es, n))
    /\ Cardinality(CopiedIn(t, nc)) = Cardinality(CopiedIn(es, n))
    /\ KeysOnce(es, n) => KeysOnce(t, nc)

LEMMA BlankFacts ==
    ASSUME NEW c \in Nat
    PROVE  /\ WellFormed(Blank(c), c) /\ Reached(Blank(c), c)
           /\ UsedIn(Blank(c), c) = {} /\ DeletedIn(Blank(c), c) = {}
           /\ CopiedIn(Blank(c), c) = {} /\ Content(Blank(c), c) = {}
           /\ KeysOnce(Blank(c), c)
<1>1. \A p \in 0 .. c - 1 :
          /\ Blank(c)[p].state = "EMPTY" /\ Blank(c)[p].key = NoKey /\ Blank(c)[p].allocated = FALSE
  BY BlankTable DEF Empty
<1>2. UsedIn(Blank(c), c) = {} /\ DeletedIn(Blank(c), c) = {} /\ CopiedIn(Blank(c), c) = {}
  BY <1>1 DEF UsedIn, DeletedIn, CopiedIn
<1>3. WellFormed(Blank(c), c)
  BY <1>1, BlankTable DEF WellFormed
<1> QED
  BY <1>2, <1>3 DEF Reached, KeysOnce, Content

(* One more slot of the old table is done.                                 *)
LEMMA CarriedOn ==
    ASSUME NEW es, NEW n \in Nat, NEW t, NEW nc \in Nat, NEW u \in Nat, NEW c \in Nat,
           n < c, WellFormed(es, c), u = Cardinality(UsedIn(es, c)), u < nc,
           Carried(es, n, t, nc), es[n].state = "USED"
    PROVE  /\ Cardinality(UsedIn(es, n)) < u
           /\ Cardinality(UsedIn(es, n + 1)) = Cardinality(UsedIn(es, n)) + 1
           /\ Carried(es, n + 1, Move(t, nc, es[n]), nc)
<1> DEFINE e == es[n]
           s == find_free_slot(t, nc, Hash[e.key])
           new == Move(t, nc, e)
<1>1. n \in 0 .. c - 1 /\ e \in Entries /\ e.key \in Keys
  BY DEF WellFormed
<1>2. UsedIn(es, n + 1) = UsedIn(es, n) \cup {n} /\ n \notin UsedIn(es, n)
  BY DEF UsedIn
<1>3. UsedIn(es, n) \in SUBSET (0 .. n - 1) /\ UsedIn(es, c) \in SUBSET (0 .. c - 1)
      /\ UsedIn(es, n + 1) \in SUBSET UsedIn(es, c)
  BY DEF UsedIn
<1>4. IsFiniteSet(UsedIn(es, n)) /\ IsFiniteSet(UsedIn(es, c))
  BY <1>3, SlotSets
<1>5. Cardinality(UsedIn(es, n + 1)) = Cardinality(UsedIn(es, n)) + 1
  BY <1>2, <1>4, FS_AddElement
<1>6. Cardinality(UsedIn(es, n + 1)) <= u
  BY <1>3, <1>4, FS_Subset
<1>7. Cardinality(UsedIn(es, n)) < u
  BY <1>4, <1>5, <1>6, FS_CardinalityType
<1>8. HasRoom(t, nc)
  <2> SUFFICES ASSUME \A p \in 0 .. nc - 1 : t[p].state = "USED" PROVE FALSE
    BY DEF HasRoom
  <2>1. UsedIn(t, nc) = 0 .. nc - 1
    BY DEF UsedIn
  <2>2. 0 \in Int /\ nc - 1 \in Int /\ nc > 0
    OBVIOUS
  <2>3. Cardinality(0 .. nc - 1) = IF 0 > nc - 1 THEN 0 ELSE (nc - 1) - 0 + 1
    BY <2>2, FS_Interval
  <2>4. Cardinality(UsedIn(t, nc)) = nc
    BY <2>1, <2>2, <2>3
  <2> QED
    BY <1>7, <2>4 DEF Carried
<1>9. new = [t EXCEPT ![s] = e] /\ s = find_free_slot(t, nc, Hash[e.key])
  BY DEF Move
<1>e. e.state = "USED" /\ nc \in Nat \ {0} /\ WellFormed(t, nc) /\ Reached(t, nc)
  BY DEF Carried
<1> HIDE DEF e, s, new
<1>10. PutAt(new, t, nc, s, e) /\ WellFormed(new, nc) /\ Reached(new, nc)
  BY <1>1, <1>8, <1>9, <1>e, Placed, Zenon
<1>11a. SetsAfterPut(new, t, nc, s, e)
  BY <1>1, <1>10, <1>e, PlacedSets
<1>11. /\ UsedIn(new, nc) = UsedIn(t, nc) \cup {s} /\ s \notin UsedIn(t, nc)
       /\ DeletedIn(new, nc) = DeletedIn(t, nc) \ {s}
       /\ CopiedIn(new, nc) = CopiedIn(t, nc) \cup (IF e.allocated THEN {s} ELSE {})
       /\ s \notin CopiedIn(t, nc)
       /\ Content(new, nc) = Content(t, nc) \cup {<<e.key, e.data>>}
  BY <1>11a DEF SetsAfterPut
<1>12. Cardinality(UsedIn(new, nc)) = Cardinality(UsedIn(es, n + 1))
  <2>1. UsedIn(t, nc) \in SUBSET (0 .. nc - 1)
    BY DEF UsedIn
  <2>2. IsFiniteSet(UsedIn(t, nc))
    BY <2>1, SlotSets
  <2>3. Cardinality(UsedIn(new, nc)) = Cardinality(UsedIn(t, nc)) + 1
    BY <1>11, <2>2, FS_AddElement, Zenon
  <2> QED
    BY <1>5, <2>3 DEF Carried
<1>13. Cardinality(CopiedIn(new, nc)) = Cardinality(CopiedIn(es, n + 1))
  <2>1. CopiedIn(t, nc) \in SUBSET (0 .. nc - 1) /\ CopiedIn(es, n) \in SUBSET (0 .. n - 1)
    BY DEF CopiedIn
  <2>2. IsFiniteSet(CopiedIn(t, nc)) /\ IsFiniteSet(CopiedIn(es, n))
    BY <2>1, SlotSets
  <2>3. CopiedIn(es, n + 1) = CopiedIn(es, n) \cup (IF e.allocated THEN {n} ELSE {}) /\ n \notin CopiedIn(es, n)
    BY DEF CopiedIn, e
  <2>4. CASE e.allocated
    <3>1. Cardinality(CopiedIn(new, nc)) = Cardinality(CopiedIn(t, nc)) + 1
      BY <1>11, <2>2, <2>4, FS_AddElement, Zenon
    <3>2. Cardinality(CopiedIn(es, n + 1)) = Cardinality(CopiedIn(es, n)) + 1
      BY <2>2, <2>3, <2>4, FS_AddElement
    <3> QED
      BY <3>1, <3>2 DEF Carried
  <2>5. CASE ~ e.allocated
    BY <1>11, <2>3, <2>5 DEF Carried
  <2> QED
    BY <2>4, <2>5
<1>14. Content(new, nc) = Content(es, n + 1)
  <2>1. Content(es, n + 1) = Content(es, n) \cup {<<e.key, e.data>>}
    BY <1>2 DEF Content, e
  <2> QED
    BY <1>11, <2>1 DEF Carried
<1>15. ASSUME KeysOnce(es, n + 1) PROVE KeysOnce(new, nc)
  <2>1. KeysOnce(es, n)
    BY <1>2, <1>15 DEF KeysOnce
  <2>2. KeysOnce(t, nc)
    BY <2>1 DEF Carried
  <2>3. ASSUME NEW p \in UsedIn(t, nc) PROVE t[p].key # e.key
    <3>1. Content(t, nc) = Content(es, n)
      BY DEF Carried
    <3>2. PICK q \in UsedIn(es, n) : es[q].key = t[p].key
      <4>1. <<t[p].key, t[p].data>> \in Content(t, nc)
        BY DEF Content
      <4>2. <<t[p].key, t[p].data>> \in Content(es, n)
        BY <3>1, <4>1
      <4> QED
        BY <4>2 DEF Content
    <3>3. q \in UsedIn(es, n + 1) /\ n \in UsedIn(es, n + 1) /\ q # n
      BY <1>2
    <3> QED
      BY <1>15, <3>2, <3>3 DEF KeysOnce, e
  <2>4. \A p \in UsedIn(t, nc) : p \in 0 .. nc - 1 /\ p # s /\ new[p] = t[p]
    BY <1>10, <1>11 DEF UsedIn, PutAt
  <2>5. new[s] = e
    BY <1>10 DEF PutAt
  <2> QED
    BY <1>11, <2>2, <2>3, <2>4, <2>5, SMTT(20) DEF KeysOnce
<1>16. DeletedIn(new, nc) = {}
  BY <1>11 DEF Carried
<1>17. Carried(es, n + 1, new, nc)
  BY <1>10, <1>12, <1>13, <1>14, <1>15, <1>16, SMTT(20) DEF Carried
<1> QED
  BY <1>5, <1>7, <1>17 DEF new, e

(* rehash leaves a table that holds what the old one did.                  *)
LEMMA Rehashed ==
    ASSUME NEW es, NEW u \in Nat, NEW nc \in Nat, capacity \in Nat,
           WellFormed(es, capacity), u = Cardinality(UsedIn(es, capacity)), u < nc
    PROVE  Carried(es, capacity, Rehashing(es, u, nc)[capacity].table, nc)
<1> DEFINE after == Rehashing(es, u, nc)
           T == {n \in 0 .. capacity :
                   after[n].cur_used_count = Cardinality(UsedIn(es, n)) /\ Carried(es, n, after[n].table, nc)}
<1>1. /\ after[0] = [table |-> Blank(nc), cur_used_count |-> 0]
      /\ \A n \in 1 .. capacity : after[n] = RehashStep(after[n - 1], es, u, nc, n)
  BY RehashingDef, Zenon DEF WellFormed
<1> HIDE DEF after
<1>2. 0 \in T
  <2>1. UsedIn(es, 0) = {} /\ CopiedIn(es, 0) = {} /\ Content(es, 0) = {}
    BY DEF UsedIn, CopiedIn, Content
  <2>2. Cardinality({}) = 0
    BY FS_EmptySet
  <2>3. Carried(es, 0, Blank(nc), nc)
    BY <2>1, <2>2, BlankFacts DEF Carried
  <2> QED
    BY <1>1, <2>1, <2>2, <2>3
<1>3. ASSUME NEW n \in 0 .. capacity - 1, n \in T PROVE n + 1 \in T
  <2>1. n + 1 \in 1 .. capacity /\ (n + 1) - 1 = n /\ n \in Nat /\ n + 1 \in 0 .. capacity /\ n < capacity
    OBVIOUS
  <2>2. after[n + 1] = RehashStep(after[n], es, u, nc, n + 1)
    BY <1>1, <2>1, SMTT(20)
  <2>3. CASE es[n].state # "USED"
    <3>1. after[n + 1] = after[n]
      BY <2>1, <2>2, <2>3 DEF RehashStep
    <3>2. UsedIn(es, n + 1) = UsedIn(es, n)
      BY <2>1, <2>3 DEF UsedIn
    <3>3. CopiedIn(es, n + 1) = CopiedIn(es, n)
      BY <2>1, <2>3 DEF CopiedIn, WellFormed
    <3>4. Content(es, n + 1) = Content(es, n)
      BY <3>2 DEF Content
    <3>5. KeysOnce(es, n + 1) = KeysOnce(es, n)
      BY <3>2 DEF KeysOnce
    <3> QED
      BY <1>3, <2>1, <3>1, <3>2, <3>3, <3>4, <3>5, SMTT(20) DEF Carried
  <2>4. CASE es[n].state = "USED"
    <3>1. /\ Cardinality(UsedIn(es, n)) < u
          /\ Cardinality(UsedIn(es, n + 1)) = Cardinality(UsedIn(es, n)) + 1
          /\ Carried(es, n + 1, Move(after[n].table, nc, es[n]), nc)
      BY <1>3, <2>1, <2>4, CarriedOn
    <3>2. after[n].cur_used_count # u
      BY <1>3, <3>1
    <3>3. after[n + 1] = [table |-> Move(after[n].table, nc, es[n]),
                          cur_used_count |-> after[n].cur_used_count + 1]
      BY <2>1, <2>2, <2>4, <3>2 DEF RehashStep
    <3> QED
      BY <1>3, <2>1, <3>1, <3>3
  <2> QED
    BY <2>3, <2>4
<1>4. capacity \in T
  <2> HIDE DEF T
  <2>1. \A n \in 0 .. capacity : n \in T
    BY <1>2, <1>3, InductionUpTo
  <2> QED
    BY <2>1
<1> QED
  BY <1>4 DEF after

-----------------------------------------------------------------------------
(* The inductive invariant.                                                *)
PowerOfTwo(c) == c \in Nat /\ \E n \in 2 .. c : c = pow2[n]

IInv ==
    /\ lookup_first \in BOOLEAN
    /\ PowerOfTwo(capacity)
    /\ WellFormed(entries, capacity) /\ Reached(entries, capacity)
    /\ used_count = Cardinality(UsedIn(entries, capacity))
    /\ delete_count = Cardinality(DeletedIn(entries, capacity))
    /\ empty_count = capacity - (used_count + delete_count)
    /\ empty_count > 0
    /\ copies = Cardinality(CopiedIn(entries, capacity))
    /\ lookup_first => KeysOnce(entries, capacity)

LEMMA Doubling ==
    ASSUME NEW c, PowerOfTwo(c)
    PROVE  PowerOfTwo(c * 2) /\ c \in Nat \ {0}
<1>1. PICK n \in 2 .. c : c = pow2[n]
  BY DEF PowerOfTwo
<1>2. n \in Nat /\ c \in Nat /\ c >= 2 /\ c * 2 = pow2[n + 1]
  BY <1>1, Pow2Def DEF PowerOfTwo
<1>3. n + 1 \in 2 .. c * 2
  BY <1>2
<1> QED
  BY <1>2, <1>3 DEF PowerOfTwo

LEMMA InitialCapacity == PowerOfTwo(init_capacity)
<1>1. PICK n \in 0 .. 63 : InitCapacity = pow2[n]
  BY CapacityAssumption
<1>2. pow2[0] = 1 /\ pow2[1] = 2 /\ pow2[2] = 4
  <2>1. pow2[0 + 1] = 2 * pow2[0] /\ pow2[1 + 1] = 2 * pow2[1] /\ pow2[0] = 1
    BY Pow2Def
  <2> QED
    BY <2>1
<1>3. CASE InitCapacity < MIN_CAPACITY
  BY <1>2, <1>3 DEF init_capacity, MIN_CAPACITY, PowerOfTwo
<1>4. CASE ~ (InitCapacity < MIN_CAPACITY)
  <2>1. n # 0 /\ n # 1
    BY <1>1, <1>2, <1>4 DEF MIN_CAPACITY
  <2>2. n \in Nat /\ pow2[n] \in Nat /\ n <= pow2[n]
    BY Pow2Def, Pow2Bound
  <2> QED
    BY <1>1, <1>4, <2>1, <2>2 DEF init_capacity, PowerOfTwo
<1> QED
  BY <1>3, <1>4

LEMMA UsedAndDeleted ==
    ASSUME NEW c \in Nat, NEW es
    PROVE  /\ IsFiniteSet(UsedIn(es, c)) /\ IsFiniteSet(DeletedIn(es, c)) /\ IsFiniteSet(CopiedIn(es, c))
           /\ Cardinality(UsedIn(es, c)) \in Nat /\ Cardinality(DeletedIn(es, c)) \in Nat
           /\ Cardinality(CopiedIn(es, c)) \in Nat
           /\ Cardinality(UsedIn(es, c)) + Cardinality(DeletedIn(es, c)) <= c
           /\ Cardinality(UsedIn(es, c)) + Cardinality(DeletedIn(es, c)) < c
                 => \E p \in 0 .. c - 1 : es[p].state # "USED" /\ es[p].state # "DELETE"
<1> DEFINE U == UsedIn(es, c)
           D == DeletedIn(es, c)
<1>1. U \in SUBSET (0 .. c - 1) /\ D \in SUBSET (0 .. c - 1) /\ CopiedIn(es, c) \in SUBSET (0 .. c - 1)
      /\ U \cup D \in SUBSET (0 .. c - 1)
  BY DEF UsedIn, DeletedIn, CopiedIn
<1>2. U \cap D = {}
  BY DEF UsedIn, DeletedIn
<1>3. (\A p \in 0 .. c - 1 : ~ (es[p].state # "USED" /\ es[p].state # "DELETE")) => U \cup D = 0 .. c - 1
  BY DEF UsedIn, DeletedIn
<1> HIDE DEF U, D
<1>4. IsFiniteSet(U) /\ IsFiniteSet(D) /\ IsFiniteSet(CopiedIn(es, c))
  BY <1>1, SlotSets
<1>5. Cardinality(U) \in Nat /\ Cardinality(D) \in Nat /\ Cardinality(CopiedIn(es, c)) \in Nat
  BY <1>4, FS_CardinalityType
<1>6. Cardinality(U \cup D) = Cardinality(U) + Cardinality(D) - Cardinality(U \cap D)
  BY <1>4, FS_Union
<1>7. Cardinality(U \cap D) = 0
  BY <1>2, FS_EmptySet
<1>8. Cardinality(U \cup D) \in 0 .. c
  BY <1>1, SlotSets
<1>9. Cardinality(U) + Cardinality(D) = Cardinality(U \cup D)
  BY <1>5, <1>6, <1>7
<1>10. Cardinality(0 .. c - 1) = c
  <2>1. 0 \in Int /\ c - 1 \in Int
    OBVIOUS
  <2>2. Cardinality(0 .. c - 1) = IF 0 > c - 1 THEN 0 ELSE (c - 1) - 0 + 1
    BY <2>1, FS_Interval
  <2> QED
    BY <2>2
<1>11. ASSUME Cardinality(U) + Cardinality(D) < c
       PROVE  \E p \in 0 .. c - 1 : es[p].state # "USED" /\ es[p].state # "DELETE"
  <2>1. Cardinality(U \cup D) # c
    BY <1>8, <1>9, <1>11
  <2>2. U \cup D # 0 .. c - 1
    BY <1>10, <2>1, Zenon
  <2> QED
    BY <1>3, <2>2
<1> QED
  BY <1>4, <1>5, <1>8, <1>9, <1>11 DEF U, D

(* What find_exact_entry returns: the one used entry with the key on the   *)
(* way, or nothing if no used entry has it.                                *)
Finds(k) ==
    \/ find_exact_entry(k) = {} /\ \A p \in UsedIn(entries, capacity) : entries[p].key # k
    \/ \E p \in UsedIn(entries, capacity) : find_exact_entry(k) = {p} /\ entries[p].key = k

LEMMA Search == IInv => \A k \in Keys : Finds(k)
<1> SUFFICES ASSUME IInv, NEW k \in Keys PROVE Finds(k)
  OBVIOUS
<1> DEFINE S == Stops(k)
           m == Min(S)
           q == Probe(capacity, Hash[k], m)
<1>1. capacity \in Nat \ {0} /\ Hash[k] \in Nat /\ k # NoKey
  BY Doubling, HashAssumption, KeyAssumption DEF IInv
<1>2. PICK p0 \in 0 .. capacity - 1 : entries[p0].state = "EMPTY"
  <2>1. PICK p \in 0 .. capacity - 1 : entries[p].state # "USED" /\ entries[p].state # "DELETE"
    BY <1>1, UsedAndDeleted, SMTT(20) DEF IInv
  <2>2. entries[p] \in Entries
    BY DEF IInv, WellFormed
  <2> QED
    BY <2>1, <2>2 DEF Entries, States
<1>3. PICK j0 \in 0 .. capacity - 1 : Probe(capacity, Hash[k], j0) = p0
  BY <1>1, ProbeOnto
<1>4. j0 \in S /\ S \in SUBSET Nat
  BY <1>2, <1>3 DEF Stops
<1>5. m \in S /\ \A x \in S : m <= x
  <2> HIDE DEF S
  <2> QED
    BY <1>4, MinFacts
<1>6. find_exact_entry(k) = IF entries[q].key = k THEN {q} ELSE {}
  BY SMTT(20) DEF find_exact_entry, Matches
<1>7. m \in 0 .. capacity - 1 /\ (entries[q].state = "EMPTY" \/ entries[q].key = k)
  BY <1>5 DEF Stops, Matches
<1>8. q \in 0 .. capacity - 1
  <2>1. m \in Nat
    BY <1>7
  <2> QED
    BY <1>1, <2>1, ProbeType
<1>9. CASE entries[q].key = k
  <2>1. entries[q].state = "USED"
    BY <1>1, <1>8, <1>9 DEF IInv, WellFormed
  <2>2. q \in UsedIn(entries, capacity)
    BY <1>8, <2>1 DEF UsedIn
  <2> QED
    BY <1>6, <1>9, <2>2 DEF Finds
<1>10. CASE entries[q].key # k
  <2>1. ASSUME NEW p \in UsedIn(entries, capacity), entries[p].key = k PROVE FALSE
    <3>1. PICK j \in 0 .. capacity - 1 :
                /\ p = Probe(capacity, Hash[k], j)
                /\ \A i \in 0 .. j : entries[Probe(capacity, Hash[k], i)].state # "EMPTY"
      BY <2>1 DEF IInv, Reached, ReachedAt
    <3>2. j \in S
      BY <2>1, <3>1 DEF Stops, Matches
    <3>3. m \in 0 .. j
      BY <1>5, <1>7, <3>2
    <3> QED
      BY <1>7, <1>10, <3>1, <3>3
  <2> QED
    BY <1>6, <1>10, <2>1 DEF Finds
<1> QED
  BY <1>9, <1>10

-----------------------------------------------------------------------------
(* What a call leaves for handle_rehash: table es with n empty, u used and *)
(* d deleted entries, some of them not empty.                              *)
Left(es, n, u, d, cp) ==
    /\ WellFormed(es, capacity) /\ Reached(es, capacity)
    /\ u = Cardinality(UsedIn(es, capacity))
    /\ d = Cardinality(DeletedIn(es, capacity))
    /\ n = capacity - (u + d)
    /\ u + d > 0
    /\ cp = Cardinality(CopiedIn(es, capacity))
    /\ lookup_first => KeysOnce(es, capacity)

(* Less than three quarters full, roughly, is not full.                    *)
LEMMA LoadFactor ==
    ASSUME NEW x \in Nat, NEW c \in Nat \ {0}, ~ ((x * 100) \div c > 75)
    PROVE  x < c
<1> DEFINE q == (x * 100) \div c
           r == (x * 100) % c
<1>1. x * 100 = c * q + r /\ r \in 0 .. c - 1 /\ q \in Int
  <2>1. x * 100 \in Int
    OBVIOUS
  <2> HIDE DEF q, r
  <2>2. \A a \in Int : a = c * (a \div c) + (a % c) /\ (a % c) \in 0 .. c - 1 /\ (a \div c) \in Int
    BY Division
  <2> QED
    BY <2>1, <2>2, Zenon DEF q, r
<1>2. ~ (q > 75)
  OBVIOUS
<1> HIDE DEF q, r
<1>3. q <= 75
  BY <1>1, <1>2
<1>4. c * q <= c * 75
  BY <1>1, <1>3
<1> QED
  BY <1>1, <1>4

(* rehash, with a new capacity that leaves room.                           *)
LEMMA RehashStepsTo ==
    ASSUME NEW es, NEW n, NEW u, NEW d, NEW nc, PowerOfTwo(capacity), PowerOfTwo(nc),
           Left(es, n, u, d, copies'), u < nc, lookup_first \in BOOLEAN,
           rehash(es, u, nc), UNCHANGED lookup_first
    PROVE  IInv' /\ Content(entries', capacity') = Content(es, capacity)
<1>1. capacity \in Nat /\ nc \in Nat /\ u \in Nat
  BY UsedAndDeleted DEF PowerOfTwo, Left
<1>2. entries' = Rehashing(es, u, nc)[capacity].table /\ capacity' = nc
      /\ used_count' = u /\ delete_count' = 0 /\ empty_count' = nc - u
  BY DEF rehash
<1>3. Carried(es, capacity, entries', nc)
  BY <1>1, <1>2, Rehashed DEF Left
<1>4. Cardinality(DeletedIn(entries', nc)) = 0
  BY <1>3, FS_EmptySet DEF Carried
<1> QED
  BY <1>1, <1>2, <1>3, <1>4 DEF IInv, Carried, Left

LEMMA HandleRehash ==
    ASSUME NEW es, NEW n, NEW u, NEW d, PowerOfTwo(capacity), lookup_first \in BOOLEAN,
           Left(es, n, u, d, copies'), handle_rehash(es, n, u, d), UNCHANGED lookup_first
    PROVE  IInv' /\ Content(entries', capacity') = Content(es, capacity)
<1>1. capacity \in Nat \ {0} /\ PowerOfTwo(capacity * 2)
  BY Doubling
<1>2. u \in Nat /\ d \in Nat /\ u + d <= capacity
  BY <1>1, UsedAndDeleted DEF Left
<1>3. CASE need_resize(u, d)
  <2>1. rehash(es, u, capacity * 2)
    BY <1>3 DEF handle_rehash
  <2>2. u < capacity * 2
    BY <1>1, <1>2
  <2> QED
    BY <1>1, <2>1, <2>2, RehashStepsTo
<1>4. CASE ~ need_resize(u, d)
  <2>1. u + d < capacity
    BY <1>1, <1>2, <1>4, LoadFactor DEF need_resize
  <2>2. CASE need_rehash(u, d)
    <3>1. rehash(es, u, capacity)
      BY <1>4, <2>2 DEF handle_rehash
    <3>2. u < capacity
      BY <1>1, <1>2, <2>1
    <3> QED
      BY <3>1, <3>2, RehashStepsTo
  <2>3. CASE ~ need_rehash(u, d)
    <3>1. entries' = es /\ empty_count' = n /\ used_count' = u /\ delete_count' = d /\ capacity' = capacity
      BY <1>4, <2>3 DEF handle_rehash
    <3>2. n > 0
      BY <1>1, <1>2, <2>1, SMTT(20) DEF Left
    <3> QED
      BY <3>1, <3>2 DEF IInv, Left
  <2> QED
    BY <2>2, <2>3
<1> QED
  BY <1>3, <1>4

-----------------------------------------------------------------------------
(* The calls.  new is the table with entry e in slot p.                    *)
SetTo(new, es, c, p, e) ==
    /\ p \in 0 .. c - 1
    /\ new \in [0 .. c - 1 -> Entries]
    /\ \A q \in 0 .. c - 1 : new[q] = IF q = p THEN e ELSE es[q]

(* Slots that were not empty stay so: the others are still reached.        *)
LEMMA StillReached ==
    ASSUME NEW c \in Nat \ {0}, NEW es, NEW new, NEW p, NEW e,
           WellFormed(es, c), Reached(es, c), SetTo(new, es, c, p, e),
           e.state # "EMPTY", p \in UsedIn(es, c),
           e.state = "USED" => e.key = es[p].key
    PROVE  Reached(new, c)
<1>1. \A q \in 0 .. c - 1 : es[q].state # "EMPTY" => new[q].state # "EMPTY"
  BY DEF SetTo
<1>2. SUFFICES ASSUME NEW q \in UsedIn(new, c) PROVE ReachedAt(new, c, q)
  BY DEF Reached
<1>3. q \in UsedIn(es, c) /\ new[q].key = es[q].key
  BY DEF SetTo, UsedIn
<1>4. PICK l \in 0 .. c - 1 :
          /\ q = Probe(c, Hash[es[q].key], l)
          /\ \A i \in 0 .. l : es[Probe(c, Hash[es[q].key], i)].state # "EMPTY"
  BY <1>3 DEF Reached, ReachedAt
<1>5. Hash[es[q].key] \in Nat
  BY <1>3, HashAssumption DEF WellFormed, UsedIn
<1>6. ASSUME NEW i \in 0 .. l PROVE Probe(c, Hash[es[q].key], i) \in 0 .. c - 1
  <2>1. i \in Nat
    OBVIOUS
  <2> QED
    BY <1>5, <2>1, ProbeType, Zenon
<1>7. \A i \in 0 .. l : new[Probe(c, Hash[es[q].key], i)].state # "EMPTY"
  BY <1>1, <1>4, <1>6
<1> QED
  BY <1>3, <1>4, <1>7 DEF ReachedAt

(* What the invariant says of the numbers.                                 *)
LEMMA Numbers ==
    ASSUME IInv
    PROVE  /\ capacity \in Nat \ {0}
           /\ used_count \in Nat /\ delete_count \in Nat /\ empty_count \in Nat /\ copies \in Nat
           /\ IsFiniteSet(UsedIn(entries, capacity)) /\ IsFiniteSet(DeletedIn(entries, capacity))
           /\ IsFiniteSet(CopiedIn(entries, capacity))
           /\ HasRoom(entries, capacity)
<1>1. capacity \in Nat \ {0}
  BY Doubling DEF IInv
<1>2. used_count \in Nat /\ delete_count \in Nat /\ copies \in Nat
  BY <1>1, UsedAndDeleted DEF IInv
<1>3. used_count + delete_count < capacity /\ empty_count \in Nat
  BY <1>1, <1>2 DEF IInv
<1>4. \E p \in 0 .. capacity - 1 : entries[p].state # "USED" /\ entries[p].state # "DELETE"
  BY <1>1, <1>3, UsedAndDeleted DEF IInv
<1> QED
  BY <1>1, <1>2, <1>3, <1>4, UsedAndDeleted DEF HasRoom

LEMMA NewEntryType ==
    ASSUME NEW k \in Keys, NEW v \in Data[k]
    PROVE  /\ NewEntry(k, v) \in Entries /\ NewEntry(k, v).state = "USED"
           /\ NewEntry(k, v).key = k /\ NewEntry(k, v).data = v
           /\ NewEntry(k, v).allocated = (k \in CopiedKeys)
<1>1. v \in Values
  BY DEF Values
<1>2. (k \in CopiedKeys) \in BOOLEAN
  OBVIOUS
<1> QED
  BY <1>1, <1>2 DEF NewEntry, Entries, States

(* fhashmap_insert of a key not found before the slot it will take.        *)
LEMMA InsertNew ==
    ASSUME IInv, NEW k \in Keys, NEW v \in Data[k], UNCHANGED lookup_first,
           lookup_first => find_exact_entry(k) = {}, fhashmap_insert_new(k, v)
    PROVE  /\ IInv'
           /\ Content(entries', capacity') = Content(entries, capacity) \cup {<<k, v>>}
           /\ ret' = <<"insert", TRUE>>
<1> DEFINE e == NewEntry(k, v)
           s == find_free_slot(entries, capacity, Hash[k])
           new == [entries EXCEPT ![s] = e]
           U == UsedIn(entries, capacity)
           D == DeletedIn(entries, capacity)
           C == CopiedIn(entries, capacity)
           wasE == IF entries[s].state = "EMPTY" THEN 1 ELSE 0
           wasD == IF entries[s].state = "DELETE" THEN 1 ELSE 0
<1>1. /\ handle_rehash(new, empty_count - wasE, used_count + 1, delete_count - wasD)
      /\ copies' = copies + NewCopies(k) /\ ret' = <<"insert", TRUE>>
  BY DEF fhashmap_insert_new
<1>2. e \in Entries /\ e.state = "USED" /\ e.key = k /\ e.data = v /\ e.allocated = (k \in CopiedKeys)
  BY NewEntryType
<1>3. s = find_free_slot(entries, capacity, Hash[e.key])
  BY <1>2
<1>4. new = [entries EXCEPT ![s] = e]
  OBVIOUS
<1> HIDE DEF e, s, new
<1>5. PutAt(new, entries, capacity, s, e) /\ WellFormed(new, capacity) /\ Reached(new, capacity)
  BY <1>2, <1>3, <1>4, Numbers, Placed, Zenon DEF IInv
<1>6. SetsAfterPut(new, entries, capacity, s, e)
  BY <1>2, <1>5, Numbers, PlacedSets DEF IInv
<1>7. Cardinality(UsedIn(new, capacity)) = used_count + 1
  BY <1>6, Numbers, FS_AddElement, Zenon DEF SetsAfterPut, IInv
<1>8. Cardinality(DeletedIn(new, capacity)) = delete_count - wasD
  <2>1. DeletedIn(new, capacity) = D \ {s} /\ (s \in D) = (entries[s].state = "DELETE")
    BY <1>5, <1>6 DEF SetsAfterPut, PutAt, DeletedIn
  <2>2. IsFiniteSet(D) /\ Cardinality(D) = delete_count /\ delete_count \in Nat
    BY Numbers DEF IInv
  <2> HIDE DEF D
  <2>3. Cardinality(D \ {s}) = IF s \in D THEN Cardinality(D) - 1 ELSE Cardinality(D)
    BY <2>2, FS_RemoveElement, Zenon
  <2> QED
    BY <2>1, <2>2, <2>3
<1>9. wasE + wasD = 1 /\ wasE \in Nat /\ wasD \in Nat
  <2>1. entries[s] \in Entries /\ entries[s].state # "USED"
    BY <1>5 DEF IInv, WellFormed, PutAt
  <2> QED
    BY <2>1 DEF Entries, States
<1>10. Cardinality(CopiedIn(new, capacity)) = copies + NewCopies(k)
  <2>1. IsFiniteSet(C) /\ Cardinality(C) = copies /\ copies \in Nat /\ s \notin C
    BY <1>6, Numbers, SMTT(20) DEF IInv, SetsAfterPut
  <2>2. CopiedIn(new, capacity) = C \cup (IF e.allocated THEN {s} ELSE {})
    BY <1>6 DEF SetsAfterPut
  <2> HIDE DEF C
  <2>3. Cardinality(C \cup {s}) = copies + 1
    BY <2>1, FS_AddElement
  <2>4. CASE k \in CopiedKeys
    BY <1>2, <2>2, <2>3, <2>4, Zenon DEF NewCopies
  <2>5. CASE k \notin CopiedKeys
    <3>1. CopiedIn(new, capacity) = C
      BY <1>2, <2>2, <2>5, Zenon
    <3> QED
      BY <2>1, <2>5, <3>1 DEF NewCopies
  <2> QED
    BY <2>4, <2>5, SMTT(20)
<1>11. ASSUME lookup_first PROVE KeysOnce(new, capacity)
  <2>1. \A p \in UsedIn(entries, capacity) : entries[p].key # k
    BY <1>11, Search DEF Finds
  <2>2. KeysOnce(entries, capacity)
    BY <1>11 DEF IInv
  <2>3. UsedIn(new, capacity) = U \cup {s} /\ s \notin U
    BY <1>6 DEF SetsAfterPut
  <2>4. \A p \in U : p \in 0 .. capacity - 1 /\ p # s /\ new[p] = entries[p]
    BY <1>5, <2>3 DEF PutAt, UsedIn
  <2>5. new[s] = e
    BY <1>5 DEF PutAt
  <2> QED
    BY <1>2, <2>1, <2>2, <2>3, <2>4, <2>5 DEF KeysOnce
<1>12. used_count \in Nat /\ delete_count \in Nat /\ empty_count \in Nat /\ delete_count - wasD \in Nat
  <2>1. DeletedIn(new, capacity) \in SUBSET (0 .. capacity - 1)
    BY SMTT(20) DEF DeletedIn
  <2> QED
    BY <1>8, <2>1, Numbers, SlotSets
<1>13. empty_count - wasE = capacity - ((used_count + 1) + (delete_count - wasD))
  BY <1>9, <1>12, Numbers DEF IInv
<1> HIDE DEF wasE, wasD
<1>14. Left(new, empty_count - wasE, used_count + 1, delete_count - wasD, copies')
  <2>1. (used_count + 1) + (delete_count - wasD) > 0
    BY <1>12, SMTT(20)
  <2> QED
    BY <1>1, <1>5, <1>7, <1>8, <1>10, <1>11, <1>13, <2>1, Zenon DEF Left
<1>15. IInv' /\ Content(entries', capacity') = Content(new, capacity)
  BY <1>1, <1>14, HandleRehash, SMTT(20) DEF IInv
<1>16. Content(new, capacity) = Content(entries, capacity) \cup {<<k, v>>}
  BY <1>2, <1>6 DEF SetsAfterPut
<1> QED
  BY <1>1, <1>15, <1>16

(* fhashmap_insert over the entry found.                                   *)
LEMMA InsertOver ==
    ASSUME IInv, NEW k \in Keys, NEW v \in Data[k], UNCHANGED lookup_first,
           fhashmap_insert_over(k, v)
    PROVE  IInv'
<1> DEFINE e == NewEntry(k, v)
           C == CopiedIn(entries, capacity)
<1>1. PICK p \in find_exact_entry(k) :
          /\ handle_rehash([entries EXCEPT ![p] = e], empty_count, used_count, delete_count)
          /\ copies' = copies - Copies(p) + NewCopies(k)
  BY Zenon DEF fhashmap_insert_over, find_exact_entry_interval
<1>2. p \in UsedIn(entries, capacity) /\ entries[p].key = k
  BY <1>1, Search DEF Finds
<1>3. e \in Entries /\ e.state = "USED" /\ e.key = k /\ e.allocated = (k \in CopiedKeys)
  BY NewEntryType
<1> DEFINE new == [entries EXCEPT ![p] = e]
<1> HIDE DEF e
<1>4. SetTo(new, entries, capacity, p, e)
  BY <1>2, <1>3, SMTT(20) DEF SetTo, IInv, WellFormed, UsedIn
<1> HIDE DEF new
<1>5. WellFormed(new, capacity)
  BY <1>3, <1>4, SMTT(20) DEF IInv, WellFormed, SetTo
<1>6. Reached(new, capacity)
  BY <1>2, <1>3, <1>4, Numbers, StillReached DEF IInv
<1>7. UsedIn(new, capacity) = UsedIn(entries, capacity) /\ DeletedIn(new, capacity) = DeletedIn(entries, capacity)
  BY <1>2, <1>3, <1>4 DEF SetTo, UsedIn, DeletedIn
<1>8. KeysOnce(entries, capacity) => KeysOnce(new, capacity)
  <2>1. \A q \in UsedIn(new, capacity) : new[q].key = entries[q].key
    BY <1>2, <1>3, <1>4 DEF SetTo, UsedIn
  <2> QED
    BY <1>7, <2>1 DEF KeysOnce
<1>9. Cardinality(CopiedIn(new, capacity)) = copies - Copies(p) + NewCopies(k)
  <2>1. IsFiniteSet(C) /\ Cardinality(C) = copies /\ copies \in Nat
    BY Numbers DEF IInv
  <2>2. (p \in C <=> entries[p].allocated)
    BY <1>4 DEF SetTo, CopiedIn
  <2>3. CopiedIn(new, capacity) = (C \ {p}) \cup (IF e.allocated THEN {p} ELSE {})
    BY <1>4 DEF SetTo, CopiedIn
  <2> HIDE DEF C
  <2>4. IsFiniteSet(C \ {p}) /\ Cardinality(C \ {p}) = copies - Copies(p)
    <3>1. /\ IsFiniteSet(C \ {p})
          /\ Cardinality(C \ {p}) = IF p \in C THEN Cardinality(C) - 1 ELSE Cardinality(C)
      BY <2>1, FS_RemoveElement
    <3> QED
      BY <2>1, <2>2, <3>1 DEF Copies
  <2>5. Cardinality((C \ {p}) \cup {p}) = Cardinality(C \ {p}) + 1
    BY <2>4, FS_AddElement, Zenon
  <2>6. CASE k \in CopiedKeys
    BY <1>3, <2>3, <2>4, <2>5, <2>6, Zenon DEF NewCopies
  <2>7. CASE k \notin CopiedKeys
    <3>1. CopiedIn(new, capacity) = C \ {p}
      BY <1>3, <2>3, <2>7, Zenon
    <3>2. copies - Copies(p) = copies - Copies(p) + 0
      BY <2>1, SMTT(20) DEF Copies
    <3> QED
      BY <2>4, <2>7, <3>1, <3>2 DEF NewCopies
  <2> QED
    BY <2>6, <2>7, SMTT(20)
<1>10. used_count > 0
  BY <1>2, Numbers, FS_EmptySet, SMTT(20) DEF IInv
<1>11. Left(new, empty_count, used_count, delete_count, copies')
  <2>1. used_count + delete_count > 0
    BY <1>10, Numbers
  <2> QED
    BY <1>1, <1>5, <1>6, <1>7, <1>8, <1>9, <2>1, SMTT(20) DEF Left, IInv
<1>12. handle_rehash(new, empty_count, used_count, delete_count)
  BY <1>1 DEF new
<1> QED
  BY <1>11, <1>12, HandleRehash, Zenon DEF IInv

(* fhashmap_delete of the entry found.                                     *)
LEMMA DeleteFound ==
    ASSUME IInv, NEW k \in Keys, UNCHANGED lookup_first, fhashmap_delete_found(k)
    PROVE  /\ IInv'
           /\ \E p \in UsedIn(entries, capacity) :
                 /\ entries[p].key = k
                 /\ ret' = <<"delete", k, TRUE, entries[p].data>>
                 /\ lookup_first => Content(entries', capacity')
                                    = {c \in Content(entries, capacity) : c[1] # k}
<1> DEFINE U == UsedIn(entries, capacity)
           D == DeletedIn(entries, capacity)
           C == CopiedIn(entries, capacity)
<1>1. PICK p \in find_exact_entry(k) :
          /\ ret' = <<"delete", k, TRUE, entries[p].data>>
          /\ copies' = copies - Copies(p)
          /\ handle_rehash([entries EXCEPT ![p] = clean_entry(entries[p], deleted_state)],
                           empty_count, used_count - 1, delete_count + 1)
  BY Zenon DEF fhashmap_delete_found
<1> DEFINE e == clean_entry(entries[p], deleted_state)
           new == [entries EXCEPT ![p] = e]
<1>2. p \in U /\ entries[p].key = k /\ p \in 0 .. capacity - 1 /\ entries[p] \in Entries
  BY <1>1, Search DEF Finds, UsedIn, IInv, WellFormed
<1>3. e \in Entries /\ e.state = "DELETE" /\ e.key = NoKey /\ e.allocated = FALSE
  BY <1>2, Zenon DEF clean_entry, deleted_state, Entries, States
<1> HIDE DEF e
<1>4. SetTo(new, entries, capacity, p, e)
  BY <1>2, <1>3 DEF SetTo, IInv, WellFormed
<1> HIDE DEF new
<1>5. WellFormed(new, capacity)
  BY <1>3, <1>4, SMTT(20) DEF IInv, WellFormed, SetTo
<1>6. Reached(new, capacity)
  BY <1>2, <1>3, <1>4, Numbers, StillReached DEF IInv
<1>7. UsedIn(new, capacity) = U \ {p} /\ DeletedIn(new, capacity) = D \cup {p} /\ p \notin D
  BY <1>2, <1>3, <1>4 DEF SetTo, UsedIn, DeletedIn
<1>8. CopiedIn(new, capacity) = C \ {p} /\ (p \in C <=> entries[p].allocated)
  BY <1>2, <1>3, <1>4 DEF SetTo, CopiedIn
<1>9. \A q \in UsedIn(new, capacity) : new[q] = entries[q]
  BY <1>4, <1>7 DEF SetTo, UsedIn
<1>10. KeysOnce(entries, capacity) => KeysOnce(new, capacity)
  BY <1>7, <1>9 DEF KeysOnce
<1>11. Cardinality(UsedIn(new, capacity)) = used_count - 1 /\ used_count - 1 \in Nat
  <2>1. IsFiniteSet(U) /\ Cardinality(U) = used_count
    BY Numbers DEF IInv
  <2> HIDE DEF U
  <2>2. IsFiniteSet(U \ {p}) /\ Cardinality(U \ {p}) = used_count - 1
    BY <1>2, <2>1, FS_RemoveElement, Zenon
  <2>3. Cardinality(U \ {p}) \in Nat
    BY <2>2, FS_CardinalityType
  <2> QED
    BY <1>7, <2>2, <2>3
<1>12. Cardinality(DeletedIn(new, capacity)) = delete_count + 1
  BY <1>7, Numbers, FS_AddElement, Zenon DEF IInv
<1>13. Cardinality(CopiedIn(new, capacity)) = copies - Copies(p)
  <2>1. IsFiniteSet(C) /\ Cardinality(C) = copies /\ copies \in Nat
    BY Numbers DEF IInv
  <2> HIDE DEF C
  <2>2. Cardinality(C \ {p}) = IF p \in C THEN Cardinality(C) - 1 ELSE Cardinality(C)
    BY <2>1, FS_RemoveElement, Zenon
  <2> QED
    BY <1>8, <2>1, <2>2 DEF Copies
<1>14. Left(new, empty_count, used_count - 1, delete_count + 1, copies')
  <2>1. (used_count - 1) + (delete_count + 1) = used_count + delete_count
        /\ (used_count - 1) + (delete_count + 1) > 0
    BY <1>11, Numbers
  <2> QED
    BY <1>1, <1>5, <1>6, <1>10, <1>11, <1>12, <1>13, <2>1 DEF Left, IInv
<1>15. handle_rehash(new, empty_count, used_count - 1, delete_count + 1)
  BY <1>1 DEF new, e
<1>16. IInv' /\ Content(entries', capacity') = Content(new, capacity)
  BY <1>14, <1>15, HandleRehash, SMTT(20) DEF IInv
<1>17. ASSUME lookup_first
       PROVE  Content(new, capacity) = {c \in Content(entries, capacity) : c[1] # k}
  <2>1. \A q \in U : entries[q].key = k => q = p
    BY <1>2, <1>17, SMTT(20) DEF IInv, KeysOnce
  <2>2. Content(new, capacity) = {<<entries[q].key, entries[q].data>> : q \in U \ {p}}
    BY <1>7, <1>9 DEF Content
  <2>3. {c \in Content(entries, capacity) : c[1] # k}
          = {<<entries[q].key, entries[q].data>> : q \in U \ {p}}
    <3> HIDE DEF U
    <3>1. Content(entries, capacity) = {<<entries[q].key, entries[q].data>> : q \in U}
      BY DEF Content, U
    <3> QED
      BY <1>2, <2>1, <3>1
  <2> QED
    BY <2>2, <2>3
<1> QED
  BY <1>1, <1>2, <1>16, <1>17

(* fhashmap_clear, and fhashmap_free with the initialisation after it.     *)
LEMMA Cleared ==
    ASSUME IInv, UNCHANGED lookup_first, fhashmap_clear \/ fhashmap_free
    PROVE  IInv' /\ Content(entries', capacity') = {} /\ ret' = <<"clear">>
<1>1. PowerOfTwo(capacity') /\ entries' = Blank(capacity') /\ copies' = free_keys
      /\ empty_count' = capacity' /\ used_count' = 0 /\ delete_count' = 0 /\ ret' = <<"clear">>
  BY InitialCapacity DEF fhashmap_clear, fhashmap_free, IInv
<1>2. free_keys = 0
  <2>1. DOMAIN entries = 0 .. capacity - 1
    BY DEF IInv, WellFormed
  <2>2. {p \in DOMAIN entries : entries[p].allocated} = CopiedIn(entries, capacity)
    BY <2>1 DEF CopiedIn
  <2>3. free_keys = copies - Cardinality(CopiedIn(entries, capacity))
    BY <2>2 DEF free_keys
  <2>4. copies = Cardinality(CopiedIn(entries, capacity)) /\ copies \in Nat
    BY Numbers DEF IInv
  <2> QED
    BY <2>3, <2>4
<1>3. capacity' \in Nat \ {0}
  BY <1>1, Doubling
<1>4. /\ WellFormed(entries', capacity') /\ Reached(entries', capacity')
      /\ UsedIn(entries', capacity') = {} /\ DeletedIn(entries', capacity') = {}
      /\ CopiedIn(entries', capacity') = {} /\ Content(entries', capacity') = {}
      /\ KeysOnce(entries', capacity')
  BY <1>1, <1>3, BlankFacts
<1>5. Cardinality({}) = 0
  BY FS_EmptySet
<1>6. capacity' = capacity' - (0 + 0) /\ capacity' > 0
  <2>1. \A c \in Nat \ {0} : c = c - (0 + 0) /\ c > 0
    OBVIOUS
  <2> QED
    BY <1>3, <2>1, Zenon
<1>7. lookup_first' \in BOOLEAN
  BY DEF IInv
<1> HIDE DEF free_keys
<1> QED
  BY <1>1, <1>2, <1>4, <1>5, <1>6, <1>7 DEF IInv

LEMMA Initially == Init => IInv /\ Content(entries, capacity) = {}
<1> SUFFICES ASSUME Init PROVE IInv /\ Content(entries, capacity) = {}
  OBVIOUS
<1>1. PowerOfTwo(capacity) /\ capacity \in Nat \ {0}
  BY InitialCapacity, Doubling DEF Init
<1>2. /\ WellFormed(entries, capacity) /\ Reached(entries, capacity)
      /\ UsedIn(entries, capacity) = {} /\ DeletedIn(entries, capacity) = {}
      /\ CopiedIn(entries, capacity) = {} /\ Content(entries, capacity) = {}
      /\ KeysOnce(entries, capacity)
  BY <1>1, BlankFacts DEF Init
<1>3. Cardinality({}) = 0
  BY FS_EmptySet, SMTT(20)
<1> QED
  BY <1>1, <1>2, <1>3 DEF IInv, Init

-----------------------------------------------------------------------------
(* The invariant holds, with one step per call of the interface.           *)
LEMMA Unchanged ==
    ASSUME IInv, UNCHANGED <<entries, capacity, counts, copies, lookup_first>>
    PROVE  IInv'
  BY DEF IInv, counts, UsedIn, DeletedIn, CopiedIn, WellFormed, Reached, ReachedAt, KeysOnce

LEMMA Inductive == IInv /\ [Next]_vars => IInv'
<1> SUFFICES ASSUME IInv, [Next]_vars PROVE IInv'
  OBVIOUS
<1>1. CASE UNCHANGED vars
  BY <1>1, Unchanged DEF vars
<1>2. CASE Next
  <2>0. UNCHANGED lookup_first
    BY <1>2 DEF Next
  <2>1. ASSUME NEW k \in Keys, NEW v \in Data[k], NEW o \in BOOLEAN, fhashmap_insert(k, v, o)
        PROVE  IInv'
    <3>1. CASE fhashmap_insert_refused(k, o)
      BY <2>0, <3>1, Unchanged DEF fhashmap_insert_refused
    <3>2. CASE fhashmap_insert_over(k, v)
      BY <2>0, <3>2, InsertOver
    <3>3. CASE fhashmap_insert_new(k, v)
      BY <2>0, <2>1, <3>3, InsertNew, Zenon DEF fhashmap_insert
    <3> QED
      BY <2>1, <3>1, <3>2, <3>3 DEF fhashmap_insert
  <2>2. ASSUME NEW k \in Keys, fhashmap_get_data(k) PROVE IInv'
    BY <2>0, <2>2, Unchanged DEF fhashmap_get_data
  <2>3. ASSUME NEW k \in Keys, fhashmap_delete(k) PROVE IInv'
    <3>1. CASE fhashmap_delete_missing(k)
      BY <2>0, <3>1, Unchanged DEF fhashmap_delete_missing
    <3>2. CASE fhashmap_delete_found(k)
      BY <2>0, <3>2, DeleteFound, Zenon
    <3> QED
      BY <2>3, <3>1, <3>2 DEF fhashmap_delete
  <2>4. CASE fhashmap_clear \/ fhashmap_free
    BY <2>0, <2>4, Cleared
  <2> QED
    BY <1>2, <2>1, <2>2, <2>3, <2>4 DEF Next
<1> QED
  BY <1>1, <1>2

LEMMA Invariance == Spec => []IInv
<1>1. Init => IInv
  BY Initially
<1> QED
  BY <1>1, Inductive, PTL DEF Spec

(* Of callers that look first, each used entry has a key of its own, the   *)
(* one it is found under.                                                  *)
LEMMA OneEntryPerKey ==
    ASSUME IInv, lookup_first
    PROVE  Cardinality(UsedIn(entries, capacity)) = Cardinality(Present)
<1> DEFINE U == UsedIn(entries, capacity)
           f == [p \in U |-> entries[p].key]
<1>1. \A p \in U : entries[p].key \in Present
  <2>1. \A p \in U : entries[p].key \in Keys
    BY DEF UsedIn, IInv, WellFormed
  <2>2. \A p \in U : find_exact_entry(entries[p].key) # {}
    BY <2>1, Search DEF Finds
  <2> QED
    BY <2>1, <2>2 DEF Present
<1>2. \A k \in Present : \E p \in U : entries[p].key = k
  BY Search DEF Finds, Present
<1>3. \A p, q \in U : entries[p].key = entries[q].key => p = q
  BY DEF IInv, KeysOnce
<1> HIDE DEF U
<1>4. f \in Surjection(U, Present)
  BY <1>1, <1>2 DEF Surjection
<1>5. f \in Injection(U, Present)
  BY <1>1, <1>3 DEF Injection, IsInjective
<1>6. ExistsBijection(U, Present)
  BY <1>4, <1>5 DEF ExistsBijection, Bijection
<1>7. IsFiniteSet(U)
  BY Numbers DEF U
<1> QED
  BY <1>6, <1>7, FS_Bijection DEF U

LEMMA CountsFollow == IInv => CountsExact
<1> SUFFICES ASSUME IInv PROVE CountsExact
  OBVIOUS
<1>1. DOMAIN entries = 0 .. capacity - 1
  BY DEF IInv, WellFormed
<1>2. /\ Used = UsedIn(entries, capacity)
      /\ {p \in DOMAIN entries : entries[p].state = "DELETE"} = DeletedIn(entries, capacity)
      /\ {p \in DOMAIN entries : entries[p].allocated} = CopiedIn(entries, capacity)
  BY <1>1 DEF Used, UsedIn, DeletedIn, CopiedIn
<1>3. TypeOK
  BY Numbers, Zenon DEF TypeOK, IInv, PowerOfTwo, WellFormed
<1>4. empty_count = capacity - used_count - delete_count
  BY Numbers, SMTT(20) DEF IInv
<1> QED
  BY <1>2, <1>3, <1>4, OneEntryPerKey, Zenon DEF CountsExact, IInv

LEMMA ReachFollows == IInv => ProbesReachEntries
<1> SUFFICES ASSUME IInv PROVE ProbesReachEntries
  OBVIOUS
<1>1. Used = UsedIn(entries, capacity)
  BY DEF Used, UsedIn, IInv, WellFormed
<1> QED
  BY <1>1 DEF ProbesReachEntries, Reachable, IInv, Reached, ReachedAt

(* The counts of flat_hashmap.c are exact after every call: they are the   *)
(* numbers of used, deleted and empty entries, an empty entry is always    *)
(* left (so every search ends), and every copied key is owned by one       *)
(* entry, for any capacity, keys and hash function.                        *)
THEOREM CountsAreExact == Spec => []CountsExact
  BY Invariance, CountsFollow, PTL

(* Every used entry is reached by the probe sequence of its key, whatever  *)
(* the inserts, deletes and rehashes before.                               *)
THEOREM EntriesAreReached == Spec => []ProbesReachEntries
  BY Invariance, ReachFollows, PTL

-----------------------------------------------------------------------------
(* The table as a dictionary.                                              *)
Firsts(C) == {c[1] : c \in C}
AsMap(C)  == [k \in Firsts(C) |-> CHOOSE v : <<k, v>> \in C]

(* C is a set of pairs with one pair for each first component.             *)
Functional(C) ==
    /\ \A c \in C : c = <<c[1], c[2]>>
    /\ \A c, d \in C : c[1] = d[1] => c[2] = d[2]

LEMMA MapFacts ==
    ASSUME NEW C, Functional(C)
    PROVE  /\ DOMAIN AsMap(C) = Firsts(C)
           /\ AsMap(C) = [k \in Firsts(C) |-> AsMap(C)[k]]
           /\ \A c \in C : AsMap(C)[c[1]] = c[2]
<1>1. ASSUME NEW c \in C PROVE (CHOOSE v : <<c[1], v>> \in C) = c[2]
  <2>1. <<c[1], c[2]>> \in C
    BY DEF Functional
  <2>2. \A v : <<c[1], v>> \in C => v = c[2]
    <3>1. ASSUME NEW v, <<c[1], v>> \in C PROVE v = c[2]
      <4> DEFINE d == <<c[1], v>>
      <4>1. d \in C /\ d[1] = c[1] /\ d[2] = v
        BY <3>1
      <4> HIDE DEF d
      <4> QED
        BY <4>1 DEF Functional
    <3> QED
      BY <3>1
  <2> QED
    BY <2>1, <2>2
<1>2. \A c \in C : c[1] \in Firsts(C)
  BY DEF Firsts
<1>3. DOMAIN AsMap(C) = Firsts(C)
  BY DEF AsMap
<1>4. \A c \in C : AsMap(C)[c[1]] = c[2]
  BY <1>1, <1>2, Zenon DEF AsMap
<1>5. AsMap(C) = [k \in Firsts(C) |-> AsMap(C)[k]]
  <2> DEFINE g(k) == CHOOSE v : <<k, v>> \in C
  <2>1. AsMap(C) = [k \in Firsts(C) |-> g(k)]
    BY DEF AsMap
  <2> HIDE DEF g
  <2>2. \A k \in Firsts(C) : AsMap(C)[k] = g(k)
    BY <2>1
  <2> QED
    BY <2>1, <2>2
<1> QED
  BY <1>3, <1>4, <1>5

(* Through lookups, Dict is the content of the table.                      *)
DictIsContent ==
    /\ Functional(Content(entries, capacity))
    /\ Dict = AsMap(Content(entries, capacity))
    /\ \A k \in Keys : find_exact_entry(k) = {} <=> k \notin DOMAIN Dict
    /\ \A p \in UsedIn(entries, capacity) :
          entries[p].key \in DOMAIN Dict /\ Dict[entries[p].key] = entries[p].data

LEMMA ContentDict == IInv /\ lookup_first => DictIsContent
<1> SUFFICES ASSUME IInv, lookup_first PROVE DictIsContent
  OBVIOUS
<1> DEFINE U == UsedIn(entries, capacity)
           C == Content(entries, capacity)
<1>1. C = {<<entries[p].key, entries[p].data>> : p \in U}
  BY DEF Content
<1>2. \A p, q \in U : entries[p].key = entries[q].key => p = q
  BY DEF IInv, KeysOnce
<1>3. \A p \in U : entries[p].key \in Keys
  BY DEF UsedIn, IInv, WellFormed
<1>4. ASSUME NEW p \in U PROVE find_exact_entry(entries[p].key) = {p}
  BY <1>2, <1>3, Search DEF Finds
<1>5. \A k \in Present : \E p \in U : entries[p].key = k
  BY Search DEF Finds, Present
<1>6. \A p \in U : entries[p].key \in Present
  BY <1>3, <1>4 DEF Present
<1>7. DOMAIN Dict = Present
  BY DEF Dict
<1>8. ASSUME NEW p \in U PROVE Dict[entries[p].key] = entries[p].data
  <2>1. (CHOOSE q \in find_exact_entry(entries[p].key) : TRUE) = p
    BY <1>4
  <2> QED
    BY <1>6, <2>1 DEF Dict
<1> HIDE DEF U, C
<1>9. Functional(C)
  BY <1>1, <1>2 DEF Functional
<1>10. Firsts(C) = Present
  <2>1. ASSUME NEW c \in C PROVE c[1] \in Present
    BY <1>1, <1>6
  <2>2. ASSUME NEW k \in Present PROVE k \in Firsts(C)
    <3>1. PICK p \in U : entries[p].key = k
      BY <1>5
    <3>2. <<entries[p].key, entries[p].data>> \in C
      BY <1>1
    <3> QED
      BY <3>1, <3>2 DEF Firsts
  <2> QED
    BY <2>1, <2>2 DEF Firsts
<1>11. ASSUME NEW k \in Present PROVE Dict[k] = AsMap(C)[k]
  <2>1. PICK p \in U : entries[p].key = k
    BY <1>5
  <2> DEFINE c == <<entries[p].key, entries[p].data>>
  <2>2. c \in C /\ c[1] = k /\ c[2] = entries[p].data
    BY <1>1, <2>1
  <2> HIDE DEF c
  <2>3. AsMap(C)[k] = entries[p].data
    BY <1>9, <2>2, MapFacts
  <2> QED
    BY <1>8, <2>1, <2>3
<1>12. Dict = AsMap(C)
  <2>1. Dict = [k \in Present |-> Dict[k]]
    BY DEF Dict
  <2>2. AsMap(C) = [k \in Present |-> AsMap(C)[k]]
    BY <1>9, <1>10, MapFacts
  <2> HIDE DEF Dict
  <2> QED
    BY <1>11, <2>1, <2>2
<1>13. \A k \in Keys : find_exact_entry(k) = {} <=> k \notin DOMAIN Dict
  BY <1>7 DEF Present
<1> QED
  BY <1>6, <1>7, <1>8, <1>9, <1>12, <1>13 DEF DictIsContent, U, C

WithAdded(m, k, v) == [x \in DOMAIN m \cup {k} |-> IF x = k THEN v ELSE m[x]]
WithRemoved(m, k)  == [x \in DOMAIN m \ {k} |-> m[x]]

LEMMA MapOfMore ==
    ASSUME NEW C, NEW k, NEW v, Functional(C), k \notin Firsts(C)
    PROVE  AsMap(C \cup {<<k, v>>}) = WithAdded(AsMap(C), k, v)
<1> DEFINE N == C \cup {<<k, v>>}
           S == Firsts(C)
<1>0. \A c \in C : c[1] # k
  BY DEF Firsts
<1>1. Functional(N)
  BY <1>0 DEF Functional
<1>2. Firsts(N) = S \cup {k}
  <2>1. <<k, v>>[1] = k
    OBVIOUS
  <2>2. \A c \in N : c[1] \in S \cup {k}
    BY <2>1 DEF Firsts
  <2>3. \A x \in S \cup {k} : x \in Firsts(N)
    BY <2>1, Zenon DEF Firsts
  <2> QED
    BY <2>2, <2>3 DEF Firsts
<1>3. AsMap(N)[k] = v
  <2>1. <<k, v>> \in N /\ <<k, v>>[1] = k /\ <<k, v>>[2] = v
    OBVIOUS
  <2> HIDE DEF N
  <2> QED
    BY <1>1, <2>1, MapFacts
<1>4. ASSUME NEW x \in S PROVE AsMap(N)[x] = AsMap(C)[x] /\ x # k
  <2>1. PICK c \in C : c[1] = x
    BY DEF Firsts
  <2>2. c \in N
    OBVIOUS
  <2> HIDE DEF N
  <2> QED
    BY <1>1, <2>1, <2>2, MapFacts
<1>5. AsMap(N) = [x \in S \cup {k} |-> AsMap(N)[x]]
  <2> HIDE DEF N, S
  <2>1. AsMap(N) = [x \in Firsts(N) |-> AsMap(N)[x]]
    BY <1>1, MapFacts
  <2> QED
    BY <1>2, <2>1
<1>6. DOMAIN AsMap(C) = S
  BY MapFacts
<1> HIDE DEF N, S
<1>7. AsMap(N) = [x \in S \cup {k} |-> IF x = k THEN v ELSE AsMap(C)[x]]
  BY <1>3, <1>4, <1>5
<1> QED
  BY <1>6, <1>7 DEF N, WithAdded

LEMMA MapOfLess ==
    ASSUME NEW C, NEW k, Functional(C)
    PROVE  AsMap({c \in C : c[1] # k}) = WithRemoved(AsMap(C), k)
<1> DEFINE N == {c \in C : c[1] # k}
           S == Firsts(C)
<1>1. Functional(N)
  BY DEF Functional
<1>2. Firsts(N) = S \ {k}
  BY DEF Firsts
<1>3. ASSUME NEW x \in S \ {k} PROVE AsMap(N)[x] = AsMap(C)[x]
  <2>1. PICK c \in C : c[1] = x
    BY DEF Firsts
  <2>2. c \in N
    BY <2>1
  <2> HIDE DEF N
  <2> QED
    BY <1>1, <2>1, <2>2, MapFacts
<1>4. AsMap(N) = [x \in S \ {k} |-> AsMap(N)[x]]
  <2> HIDE DEF N, S
  <2>1. AsMap(N) = [x \in Firsts(N) |-> AsMap(N)[x]]
    BY <1>1, MapFacts
  <2> QED
    BY <1>2, <2>1
<1>5. DOMAIN AsMap(C) = S
  BY MapFacts
<1> HIDE DEF N, S
<1>6. AsMap(N) = [x \in S \ {k} |-> AsMap(C)[x]]
  BY <1>3, <1>4
<1> QED
  BY <1>5, <1>6 DEF N, WithRemoved

LEMMA MapOfNone == AsMap({}) = [x \in {} |-> x]
  BY DEF AsMap, Firsts

LEMMA ContentDictNext == IInv' /\ lookup_first' => DictIsContent'
  BY ContentDict, PTL

(* One step of the table is one step of the dictionary.                    *)
LEMMA DictionaryStep ==
    ASSUME IInv, IInv', lookup_first, Next
    PROVE  Abstract!Next
<1> DEFINE C == Content(entries, capacity)
<1>0. lookup_first' /\ UNCHANGED lookup_first
  BY DEF Next
<1>1. Functional(C) /\ Dict = AsMap(C)
  BY ContentDict DEF DictIsContent
<1>2. Dict' = AsMap(Content(entries', capacity'))
  BY <1>0, ContentDictNext DEF DictIsContent
<1>3. ASSUME UNCHANGED <<entries, capacity>> PROVE Dict' = Dict
  <2>1. Content(entries', capacity') = C
    BY <1>3
  <2> HIDE DEF C
  <2> QED
    BY <1>1, <1>2, <2>1
<1>4. ASSUME NEW k \in Keys, NEW v \in Data[k], NEW o \in BOOLEAN, fhashmap_insert(k, v, o)
      PROVE  Abstract!Insert(k, v, o) /\ v \in Values
  <2>1. find_exact_entry(k) = {} /\ k \notin DOMAIN Dict
    BY <1>4, ContentDict DEF fhashmap_insert, DictIsContent
  <2>2. fhashmap_insert_new(k, v)
    BY <1>4, <2>1, Zenon DEF fhashmap_insert, fhashmap_insert_refused, fhashmap_insert_over,
                      find_exact_entry_interval
  <2>3. Content(entries', capacity') = C \cup {<<k, v>>} /\ ret' = <<"insert", TRUE>>
    BY <1>0, <2>1, <2>2, InsertNew, Zenon
  <2> HIDE DEF C
  <2>4. k \notin Firsts(C)
    BY <1>1, <2>1, MapFacts
  <2>5. Dict' = WithAdded(Dict, k, v)
    BY <1>1, <1>2, <2>3, <2>4, MapOfMore
  <2>6. v \in Values
    BY DEF Values
  <2> QED
    BY <2>1, <2>3, <2>5, <2>6 DEF Abstract!Insert, Abstract!Added, WithAdded
<1>5. ASSUME NEW k \in Keys, fhashmap_get_data(k) PROVE Abstract!Get(k)
  <2>1. Dict' = Dict
    BY <1>3, <1>5 DEF fhashmap_get_data
  <2>2. CASE find_exact_entry(k) = {}
    <3>1. k \notin DOMAIN Dict
      BY <2>2, ContentDict DEF DictIsContent
    <3> QED
      BY <1>5, <2>1, <2>2, <3>1, Zenon DEF fhashmap_get_data, Abstract!Get
  <2>3. CASE find_exact_entry(k) # {}
    <3>1. k \in DOMAIN Dict
      BY <2>3, ContentDict DEF DictIsContent
    <3>2. Dict[k] = entries[CHOOSE p \in find_exact_entry(k) : TRUE].data
      BY <3>1 DEF Dict
    <3>3. ret' = <<"get", k, TRUE, Dict[k]>>
      BY <1>5, <2>3, <3>2, Zenon DEF fhashmap_get_data
    <3> QED
      BY <2>1, <3>1, <3>3, Zenon DEF Abstract!Get
  <2> QED
    BY <2>2, <2>3
<1>6. ASSUME NEW k \in Keys, fhashmap_delete_missing(k) PROVE Abstract!Delete(k)
  <2>1. Dict' = Dict
    BY <1>3, <1>6 DEF fhashmap_delete_missing
  <2>2. k \notin DOMAIN Dict
    BY <1>6, ContentDict DEF DictIsContent, fhashmap_delete_missing
  <2>3. Dict = WithRemoved(Dict, k)
    <3>1. Dict = [x \in DOMAIN Dict |-> Dict[x]]
      BY DEF Dict
    <3>2. DOMAIN Dict \ {k} = DOMAIN Dict
      BY <2>2
    <3> QED
      BY <3>1, <3>2 DEF WithRemoved
  <2>4. Dict' = WithRemoved(Dict, k)
    BY <2>1, <2>3
  <2>5. ret' = <<"delete", k, FALSE>>
    BY <1>6 DEF fhashmap_delete_missing
  <2> QED
    BY <2>2, <2>4, <2>5, Zenon DEF Abstract!Delete, Abstract!Removed, WithRemoved
<1>7. ASSUME NEW k \in Keys, fhashmap_delete_found(k) PROVE Abstract!Delete(k)
  <2>1. PICK p \in UsedIn(entries, capacity) :
            /\ entries[p].key = k
            /\ ret' = <<"delete", k, TRUE, entries[p].data>>
            /\ Content(entries', capacity') = {c \in C : c[1] # k}
    BY <1>0, <1>7, DeleteFound, Zenon
  <2>2. k \in DOMAIN Dict /\ Dict[k] = entries[p].data
    BY <2>1, ContentDict DEF DictIsContent
  <2> HIDE DEF C
  <2>3. Dict' = WithRemoved(Dict, k)
    BY <1>1, <1>2, <2>1, MapOfLess
  <2> QED
    BY <2>1, <2>2, <2>3, Zenon DEF Abstract!Delete, Abstract!Removed, WithRemoved
<1>8. ASSUME fhashmap_clear \/ fhashmap_free PROVE Abstract!Clear
  <2>1. Content(entries', capacity') = {} /\ ret' = <<"clear">>
    BY <1>0, <1>8, Cleared
  <2> QED
    BY <1>2, <2>1, MapOfNone DEF Abstract!Clear
<1> QED
  BY <1>4, <1>5, <1>6, <1>7, <1>8, SMTT(20) DEF Next, fhashmap_delete, Abstract!Next

LEMMA DictionaryInit == Init => Abstract!Init
<1> SUFFICES ASSUME Init PROVE Abstract!Init
  OBVIOUS
<1>1. IInv /\ Content(entries, capacity) = {}
  BY Initially
<1>2. \A k \in Keys : find_exact_entry(k) = {}
  <2>1. UsedIn(entries, capacity) = {}
    BY <1>1, Zenon DEF Content
  <2> QED
    BY <1>1, <2>1, Search DEF Finds
<1>3. Present = {}
  BY <1>2 DEF Present
<1>4. Dict = [x \in {} |-> x]
  BY <1>3 DEF Dict
<1> QED
  BY <1>4 DEF Init, Abstract!Init

(* flat_hashmap.c implements the dictionary its callers rely on: seen      *)
(* through lookups, and used by callers that look a key up before they     *)
(* insert it, every call changes the key it is given and no other,         *)
(* whatever rehash it triggers.                                            *)
THEOREM ImplementsDictionary == Spec => RefinesDictionary
<1>1. Init => Abstract!Init
  BY DictionaryInit
<1>2. IInv /\ IInv' /\ [Next]_vars => [lookup_first => Abstract!Next]_<<Dict, ret>>
  <2> SUFFICES ASSUME IInv, IInv', [Next]_vars
               PROVE  [lookup_first => Abstract!Next]_<<Dict, ret>>
    OBVIOUS
  <2>1. CASE UNCHANGED vars
    <3>1. Dict' = Dict /\ ret' = ret
      BY <2>1 DEF vars, Dict, Present, find_exact_entry, Matches, Stops
    <3> QED
      BY <3>1, SMTT(20)
  <2>2. CASE Next
    BY <2>2, DictionaryStep
  <2> QED
    BY <2>1, <2>2
<1> QED
  BY <1>1, <1>2, Invariance, PTL DEF Spec, RefinesDictionary
=============================================================================
