----------------------------- MODULE Dictionary -----------------------------
(***************************************************************************)
(* What a hash map promises to the inode, directory entry and mount        *)
(* caches: a finite map from keys to values.  Each operation is atomic and *)
(* leaves its result in ret.                                               *)
(***************************************************************************)
EXTENDS FiniteSets

CONSTANTS Keys, Values

VARIABLES
    dict,   \* the map: a function from a set of keys to values
    ret     \* the last operation and its result

Added(k, v) == [x \in DOMAIN dict \cup {k} |-> IF x = k THEN v ELSE dict[x]]
Removed(k)  == [x \in DOMAIN dict \ {k} |-> dict[x]]

Init == dict = [x \in {} |-> x] /\ ret = <<"init">>

(* A key that is there keeps its value unless the caller said OVERWRITE.   *)
Insert(k, v, overwrite) ==
    IF k \in DOMAIN dict /\ ~ overwrite
    THEN ret' = <<"insert", FALSE>> /\ UNCHANGED dict
    ELSE ret' = <<"insert", TRUE>> /\ dict' = Added(k, v)

Get(k) ==
    /\ ret' = IF k \in DOMAIN dict THEN <<"get", k, TRUE, dict[k]>> ELSE <<"get", k, FALSE>>
    /\ UNCHANGED dict

Delete(k) ==
    /\ ret' = IF k \in DOMAIN dict THEN <<"delete", k, TRUE, dict[k]>> ELSE <<"delete", k, FALSE>>
    /\ dict' = Removed(k)

Clear == dict' = [x \in {} |-> x] /\ ret' = <<"clear">>

Next ==
    \/ \E k \in Keys, v \in Values, o \in BOOLEAN : Insert(k, v, o)
    \/ \E k \in Keys : Get(k) \/ Delete(k)
    \/ Clear

Spec == Init /\ [][Next]_<<dict, ret>>

=============================================================================
