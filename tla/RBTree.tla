------------------------------- MODULE RBTree -------------------------------
(***************************************************************************)
(* utils/data_structs/rb_tree.c as operators on a tree value.              *)
(*                                                                         *)
(* A tree is a record: root, and for every node in it left, right, parent  *)
(* and red (the code packs parent and colour into one word).  "left" and   *)
(* "right" are fields of the record, so t[d][n] is n's child on side d and *)
(* one operator stands for each pair of mirrored functions of the code.    *)
(* fault is set where the code goes through a NULL pointer.                *)
(***************************************************************************)
EXTENDS Integers, Sequences, TLC

CONSTANT cmp(_, _)   \* the tree's comparison: negative, zero or positive

NULL == <<>>
Sides == {"left", "right"}
Other(d) == IF d = "left" THEN "right" ELSE "left"

rb_init_tree ==
    [root |-> NULL, left |-> <<>>, right |-> <<>>, parent |-> <<>>, red |-> <<>>, fault |-> FALSE]

Members(t) == DOMAIN t.red

is_red(t, n)   == n # NULL /\ t.red[n]
is_black(t, n) == ~ is_red(t, n)

Paint(t, ns, c)   == [t EXCEPT !.red = [n \in DOMAIN @ |-> IF n \in ns THEN c ELSE @[n]]]
set_red(t, n)     == Paint(t, {n}, TRUE)
set_black(t, n)   == Paint(t, {n}, FALSE)

set_parent(t, n, p) == IF n = NULL THEN t ELSE [t EXCEPT !.parent[n] = p]

(* The side of p on which n hangs; NULL hangs where p has no child.        *)
SideOf(t, n, p) == IF t.left[p] = n THEN "left" ELSE "right"

(* The link that held old now holds new: root or a child field of p.       *)
SetLink(t, p, old, new) ==
    IF p = NULL THEN [t EXCEPT !.root = new] ELSE [t EXCEPT ![SideOf(t, old, p)][p] = new]

-----------------------------------------------------------------------------
(* rb_rotate_left is d = "left", rb_rotate_right is d = "right".           *)
rb_rotate(t, parent, d) ==
    LET top     == t[Other(d)][parent]
        pivot   == t[d][top]
        gparent == t.parent[parent]
        moved   == set_parent([t EXCEPT ![Other(d)][parent] = pivot], pivot, parent)
    IN  [SetLink(set_parent(moved, top, gparent), gparent, parent, top) EXCEPT
            ![d][top] = parent, !.parent[parent] = top]

(* The node that compares equal to key, and the last node on the way.      *)
RECURSIVE Descend(_, _, _, _)
Descend(t, n, last, key) ==
    IF n = NULL THEN [node |-> NULL, parent |-> last]
    ELSE IF cmp(n, key) = 0 THEN [node |-> n, parent |-> n]
    ELSE Descend(t, t[IF cmp(n, key) > 0 THEN "left" ELSE "right"][n], n, key)

rb_find_node_link(t, key) == Descend(t, t.root, NULL, key)

rb_search(t, key) == rb_find_node_link(t, key).node

-----------------------------------------------------------------------------
(* A zigzag is first rotated into a line.                                  *)
rb_handle_insert_fixup_rotation(t, gparent, parent, parent_side, node_side) ==
    LET line == IF parent_side # node_side THEN rb_rotate(t, parent, parent_side) ELSE t
        done == rb_rotate(line, gparent, Other(parent_side))
    IN  set_red(set_black(done, done.parent[gparent]), gparent)

(* Variant: the grandparent is recoloured but not examined in its turn.    *)
rb_insert_fixup_once(t, node) ==
    LET parent  == t.parent[node]
        gparent == t.parent[parent]
        side    == SideOf(t, parent, gparent)
        uncle   == t[Other(side)][gparent]
        fixed   == IF is_red(t, uncle)
                   THEN set_red(Paint(t, {uncle, parent}, FALSE), gparent)
                   ELSE rb_handle_insert_fixup_rotation(t, gparent, parent, side, SideOf(t, node, parent))
    IN  IF parent = NULL THEN set_black(t, t.root)
        ELSE IF is_black(t, parent) \/ gparent = NULL THEN t
        ELSE set_black(fixed, fixed.root)

RECURSIVE rb_insert_fixup(_, _)
rb_insert_fixup(t, node) ==
    LET parent  == t.parent[node]
        gparent == t.parent[parent]
        side    == SideOf(t, parent, gparent)
        uncle   == t[Other(side)][gparent]
        fixed   == IF is_red(t, uncle)
                   THEN rb_insert_fixup(set_red(Paint(t, {uncle, parent}, FALSE), gparent), gparent)
                   ELSE rb_handle_insert_fixup_rotation(t, gparent, parent, side, SideOf(t, node, parent))
    IN  IF parent = NULL THEN set_black(t, t.root)
        ELSE IF is_black(t, parent) \/ gparent = NULL THEN t
        ELSE set_black(fixed, fixed.root)

(* A red leaf under parent; t itself when an equal node is already there.  *)
rb_insert(t, node) ==
    LET link   == rb_find_node_link(t, node)
        parent == link.parent
        leaf   == [t EXCEPT !.left   = (node :> NULL) @@ @, !.right = (node :> NULL) @@ @,
                            !.parent = (node :> parent) @@ @, !.red = (node :> TRUE) @@ @]
        linked == IF parent = NULL THEN [leaf EXCEPT !.root = node]
                  ELSE [leaf EXCEPT ![IF cmp(parent, node) > 0 THEN "left" ELSE "right"][parent] = node]
    IN  IF link.node # NULL THEN t ELSE rb_insert_fixup(linked, node)

-----------------------------------------------------------------------------
(* The outermost node on side d of the subtree at n.                       *)
RECURSIVE Outermost(_, _, _)
Outermost(t, n, d) == IF n = NULL \/ t[d][n] = NULL THEN n ELSE Outermost(t, t[d][n], d)

rb_find_successor(t, node) == Outermost(t, t.right[node], "left")

(* Variant: the new child keeps pointing to the removed node.              *)
rb_transplant_dangling(t, old_node, new_node) ==
    SetLink(t, t.parent[old_node], old_node, new_node)
rb_transplant(t, old_node, new_node) ==
    set_parent(SetLink(t, t.parent[old_node], old_node, new_node), new_node, t.parent[old_node])

(* The configure operators return the tree without delete, whether the     *)
(* colour taken out was black, and where the fix-up starts.                *)
rb_delete_configure_nuclear_node(t, delete) ==
    LET successor == rb_find_successor(t, delete)
        child     == t.right[successor]
        direct    == t.parent[successor] = delete
        freed     == rb_transplant(t, successor, child)
        detached  == IF direct THEN t
                     ELSE set_parent([freed EXCEPT !.right[successor] = freed.right[delete]],
                                     freed.right[delete], successor)
        placed    == [rb_transplant(detached, delete, successor) EXCEPT
                        !.red[successor] = t.red[delete], !.left[successor] = t.left[delete]]
    IN  [tree |-> set_parent(placed, t.left[delete], successor),
         was_black |-> is_black(t, successor),
         node |-> child,
         parent |-> IF direct THEN successor ELSE t.parent[successor]]

rb_configure_delete(t, delete) ==
    LET child == IF t.left[delete] = NULL THEN t.right[delete] ELSE t.left[delete]
    IN  IF t.left[delete] # NULL /\ t.right[delete] # NULL
        THEN rb_delete_configure_nuclear_node(t, delete)
        ELSE [tree |-> rb_transplant(t, delete, child), was_black |-> is_black(t, delete),
              node |-> child, parent |-> t.parent[delete]]

rb_delete_fixup_sibling_red(t, parent, sibling, d) ==
    rb_rotate(set_red(set_black(t, sibling), parent), parent, d)

(* Cases 3 and 4: parent is painted black, whatever colour it had, and the *)
(* sibling that takes its place stays black.                               *)
rb_delete_fixup_sibling_black_child_red(t, parent, sibling, d) ==
    LET inner == t[d][sibling]
        line  == IF is_red(t, inner)
                 THEN rb_rotate(set_red(set_black(t, inner), sibling), sibling, Other(d))
                 ELSE t
        outer == line[Other(d)][line[Other(d)][parent]]
    IN  rb_rotate(Paint(line, {parent, outer}, FALSE), parent, d)

RECURSIVE rb_delete_fixup(_, _, _)
rb_delete_fixup(t, node, parent) ==
    LET d       == SideOf(t, node, parent)
        red_sib == t[Other(d)][parent]
        t1      == IF is_red(t, red_sib) THEN rb_delete_fixup_sibling_red(t, parent, red_sib, d) ELSE t
        sibling == t1[Other(d)][parent]
        rotated == rb_delete_fixup_sibling_black_child_red(t1, parent, sibling, d)
    IN  IF node = t.root \/ is_red(t, node) THEN Paint(t, {node}, FALSE)
        ELSE IF sibling = NULL THEN [t1 EXCEPT !.fault = TRUE]
        ELSE IF is_black(t1, t1.left[sibling]) /\ is_black(t1, t1.right[sibling])
        THEN rb_delete_fixup(set_red(t1, sibling), parent, t1.parent[parent])
        ELSE set_black(rotated, rotated.root)

(* delete is out of the tree; its own fields are read no more.             *)
Forget(t, n) ==
    LET Out(f) == [m \in DOMAIN f \ {n} |-> f[m]]
    IN  [t EXCEPT !.left = Out(@), !.right = Out(@), !.parent = Out(@), !.red = Out(@)]

rb_remove_node(t, delete) ==
    LET c == rb_configure_delete(t, delete)
    IN  Forget(IF c.was_black THEN rb_delete_fixup(c.tree, c.node, c.parent) ELSE c.tree, delete)

rb_remove_key(t, key) ==
    LET delete == rb_search(t, key) IN IF delete = NULL THEN t ELSE rb_remove_node(t, delete)

-----------------------------------------------------------------------------
rb_min(t) == Outermost(t, t.root, "left")
rb_max(t) == Outermost(t, t.root, "right")

(* The first ancestor that n lies on side d of.                            *)
RECURSIVE Ancestor(_, _, _)
Ancestor(t, n, d) ==
    LET parent == t.parent[n]
    IN  IF parent = NULL THEN NULL ELSE IF t[d][parent] = n THEN parent ELSE Ancestor(t, parent, d)

rb_prev(t, n) ==
    IF t.left[n] # NULL THEN Outermost(t, t.left[n], "right") ELSE Ancestor(t, n, "right")
rb_next(t, n) ==
    IF t.right[n] # NULL THEN Outermost(t, t.right[n], "left") ELSE Ancestor(t, n, "left")

(* The smallest node not below key.                                        *)
RECURSIVE LowerBound(_, _, _, _)
LowerBound(t, n, result, key) ==
    IF n = NULL THEN result
    ELSE IF cmp(key, n) <= 0 THEN LowerBound(t, t.left[n], n, key)
    ELSE LowerBound(t, t.right[n], result, key)
rb_lower_bound(t, key) == LowerBound(t, t.root, NULL, key)

(* The largest node not above key.                                         *)
RECURSIVE UpperBound(_, _, _, _)
UpperBound(t, n, result, key) ==
    IF n = NULL THEN result
    ELSE IF cmp(key, n) >= 0 THEN UpperBound(t, t.right[n], n, key)
    ELSE UpperBound(t, t.left[n], result, key)
rb_upper_bound(t, key) == UpperBound(t, t.root, NULL, key)

(* The nodes in the order rb_free_tree hands them to its callback.         *)
RECURSIVE FreeFrom(_, _, _, _)
FreeFrom(t, node, last, freed) ==
    IF node = NULL THEN freed
    ELSE IF t.left[node] # NULL /\ last # t.left[node] /\ last # t.right[node]
    THEN FreeFrom(t, t.left[node], last, freed)
    ELSE IF t.right[node] # NULL /\ last # t.right[node]
    THEN FreeFrom(t, t.right[node], last, freed)
    ELSE FreeFrom(t, t.parent[node], node, Append(freed, node))
rb_free_tree(t) == FreeFrom(t, t.root, NULL, <<>>)

-----------------------------------------------------------------------------
(* Reference notions the properties of the users are stated with.          *)

RECURSIVE Subtree(_, _)
Subtree(t, n) ==
    IF n = NULL THEN {} ELSE {n} \cup Subtree(t, t.left[n]) \cup Subtree(t, t.right[n])

(* A binary search tree of exactly the members, with mutual links.         *)
Ordered(t) ==
    /\ Subtree(t, t.root) = Members(t)
    /\ t.root # NULL => t.parent[t.root] = NULL
    /\ \A n \in Members(t) :
        /\ \A m \in Subtree(t, t.left[n])  : cmp(m, n) < 0 /\ cmp(n, m) > 0
        /\ \A m \in Subtree(t, t.right[n]) : cmp(m, n) > 0 /\ cmp(n, m) < 0
        /\ \A d \in Sides : t[d][n] # NULL => t.parent[t[d][n]] = n

(* The numbers of black nodes on the paths from n down to a NULL.          *)
RECURSIVE BlackHeights(_, _)
BlackHeights(t, n) ==
    IF n = NULL THEN {0}
    ELSE {h + (IF t.red[n] THEN 0 ELSE 1) : h \in BlackHeights(t, t.left[n]) \cup BlackHeights(t, t.right[n])}

EqualBlackHeights(t) == \A g, h \in BlackHeights(t, t.root) : g = h

Balanced(t) ==
    /\ is_black(t, t.root)
    /\ \A n \in Members(t) : t.red[n] => \A d \in Sides : is_black(t, t[d][n])
    /\ EqualBlackHeights(t)

=============================================================================
