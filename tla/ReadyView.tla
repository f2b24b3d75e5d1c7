------------------------------ MODULE ReadyView ------------------------------
(***************************************************************************)
(* readyView: the credentials of one priority that are ready, in the order *)
(* of their IDs, with the cursors of the rotation.  When every one of them *)
(* has a virtual parent and there is more than one parent, the rotation    *)
(* goes over the parents and, inside a parent, over its children.          *)
(*                                                                         *)
(* IDs are naturals, so that a slice sorted by ID is a set: the index of x *)
(* in it is the number of smaller members.                                 *)
(***************************************************************************)
EXTENDS Integers, FiniteSets

CONSTANTS
    Auths,     \* credential IDs
    Parents,   \* values of gemini_virtual_parent
    NoParent   \* no such attribute

ASSUME ViewAssumption ==
    /\ Auths \subseteq Nat /\ IsFiniteSet(Auths)
    /\ Parents \subseteq Nat /\ IsFiniteSet(Parents)
    /\ NoParent \notin Parents

\* group is v.children's items, empty in a flat view; child their cursors.
View == [flat : SUBSET Auths, cursor : Nat, parentCursor : Nat,
         group : [Parents -> SUBSET Auths], child : [Parents -> Nat]]

NoGroup == [p \in Parents |-> {}]
NoCursor == [p \in Parents |-> 0]
EmptyView == [flat |-> {}, cursor |-> 0, parentCursor |-> 0,
              group |-> NoGroup, child |-> NoCursor]

Members(view) == [flat |-> view.flat, group |-> view.group]
ParentOrder(view) == {p \in Parents : view.group[p] # {}}
Grouped(view) == view.group # NoGroup

\* buildReadyView
Groups(flat, parent) ==
    LET group == [p \in Parents |-> {a \in flat : parent[a] = p}]
    IN  IF (\E a \in flat : parent[a] = NoParent) \/ (\E p \in Parents : group[p] = flat)
        THEN NoGroup ELSE group

\* normalizeCursor
Normalized(cursor, size) == IF size = 0 \/ cursor <= 0 THEN 0 ELSE cursor % size

\* restoreReadyViewCursors: positions are kept, whatever credential they point at now.
Rebuilt(old, flat, parent) ==
    LET group == Groups(flat, parent)
        order == {p \in Parents : group[p] # {}}
    IN  [flat |-> flat,
         group |-> group,
         cursor |-> Normalized(old.cursor, Cardinality(flat)),
         parentCursor |-> Normalized(old.parentCursor, Cardinality(order)),
         child |-> [p \in Parents |-> Normalized(old.child[p], Cardinality(group[p]))]]

Index(order, x) == Cardinality({y \in order : y < x})

\* How many steps from the cursor to x, going round.
Ahead(order, cursor, x) == (Index(order, x) - cursor) % Cardinality(order)

NextFrom(order, cursor, eligible) ==
    CHOOSE x \in eligible : \A y \in eligible : Ahead(order, cursor, x) <= Ahead(order, cursor, y)

First(eligible) == CHOOSE x \in eligible : \A y \in eligible : x <= y

\* pickGroupedRoundRobin's parent, and pickRoundRobin's credential
PickedParent(view, ok) ==
    NextFrom(ParentOrder(view), view.parentCursor, {p \in Parents : view.group[p] \cap ok # {}})

Picked(view, ok) ==
    IF Grouped(view)
    THEN LET p == PickedParent(view, ok)
         IN  NextFrom(view.group[p], view.child[p], view.group[p] \cap ok)
    ELSE NextFrom(view.flat, view.cursor, view.flat \cap ok)

AdvancedInside(view, ok) ==
    IF Grouped(view)
    THEN LET p == PickedParent(view, ok)
         IN  [view EXCEPT !.child[p] = Index(view.group[p], Picked(view, ok)) + 1]
    ELSE [view EXCEPT !.cursor = Index(view.flat, Picked(view, ok)) + 1]

\* The cursors after the pick.
Advanced(view, ok) ==
    IF Grouped(view)
    THEN LET p == PickedParent(view, ok)
         IN  [view EXCEPT !.parentCursor = Index(ParentOrder(view), p) + 1,
                          !.child[p] = Index(view.group[p], Picked(view, ok)) + 1]
    ELSE [view EXCEPT !.cursor = Index(view.flat, Picked(view, ok)) + 1]

\* Within so many picks of the view its rotation comes to every member.
Round(view, a) ==
    IF Grouped(view)
    THEN LET p == CHOOSE q \in Parents : a \in view.group[q]
         IN  Cardinality(ParentOrder(view)) * Cardinality(view.group[p])
    ELSE Cardinality(view.flat)
=============================================================================
