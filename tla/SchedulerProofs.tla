--------------------------- MODULE SchedulerProofs ---------------------------
(***************************************************************************)
(* Theorems about Scheduler, for any number of credentials, providers,     *)
(* priorities and parents: cursors stay inside their views, and the views, *)
(* which most updates leave alone, are those of the entries; a rotation    *)
(* comes to every member of its view within a round, and to every provider *)
(* within a round of the slots.                                            *)
(***************************************************************************)
EXTENDS Scheduler, FiniteOrder

(***************************************************************************)
(* Positions                                                               *)
(***************************************************************************)

\* A remainder lies below the modulus.
LEMMA Remainder ==
    ASSUME NEW a \in Int, NEW n \in Nat \ {0}
    PROVE  a % n \in Nat /\ a % n < n
  OBVIOUS

\* A finite set has a natural number of members, and more than none unless it is empty.
LEMMA SizeIsNat ==
    ASSUME NEW S, IsFiniteSet(S)
    PROVE  Cardinality(S) \in Nat /\ (S # {} => Cardinality(S) > 0)
  BY FS_CardinalityType, FS_EmptySet

\* The position of a member in a sorted list is one of the list's positions.
LEMMA IndexFits ==
    ASSUME NEW order \in SUBSET Nat, IsFiniteSet(order), NEW x \in order
    PROVE  Index(order, x) \in Nat /\ Index(order, x) + 1 <= Cardinality(order)
<1> DEFINE less == {y \in order : y < x}
<1>1. less \in SUBSET order /\ x \notin less
  OBVIOUS
<1>2. IsFiniteSet(less) /\ Cardinality(less) <= Cardinality(order)
      /\ (Cardinality(order) = Cardinality(less) => order = less)
  <2> HIDE DEF less
  <2> QED  BY <1>1, FS_Subset
<1>3. Cardinality(less) \in Nat /\ Cardinality(order) \in Nat
  <2> HIDE DEF less
  <2> QED  BY <1>2, FS_CardinalityType
<1>4. order # less
  BY <1>1
<1>5. Cardinality(less) < Cardinality(order)
  <2> HIDE DEF less
  <2> QED  BY <1>2, <1>3, <1>4
<1>6. Index(order, x) = Cardinality(less)
  BY DEF Index
<1> HIDE DEF less
<1> QED  BY <1>3, <1>5, <1>6

\* The search from the cursor finds somebody eligible.
LEMMA NextFromFinds ==
    ASSUME NEW order \in SUBSET Nat, IsFiniteSet(order), NEW cursor \in Nat,
           NEW eligible \in SUBSET order, eligible # {}
    PROVE  NextFrom(order, cursor, eligible) \in eligible
<1>1. Cardinality(order) \in Nat \ {0}
  <2>1. order # {}
    OBVIOUS
  <2>2. Cardinality(order) \in Nat /\ Cardinality(order) > 0
    BY ONLY <2>1, IsFiniteSet(order), SizeIsNat
  <2> QED  BY <2>2
<1>2. ASSUME NEW x \in eligible PROVE Ahead(order, cursor, x) \in Nat
  <2>1. Index(order, x) \in Nat
    BY IndexFits
  <2>2. Index(order, x) - cursor \in Int
    BY <2>1
  <2> QED  BY <1>1, <2>2, Remainder DEF Ahead
<1> DEFINE ways == {Ahead(order, cursor, x) : x \in eligible}
<1>3. ways \in SUBSET Nat /\ ways # {}
  BY <1>2
<1>4. Min(ways) \in ways /\ \A w \in ways : Min(ways) <= w
  <2> HIDE DEF ways
  <2> QED  BY <1>3, MinOfNaturals
<1>5. PICK x \in eligible : Ahead(order, cursor, x) = Min(ways)
  BY <1>4
<1>6. \A y \in eligible : Ahead(order, cursor, x) <= Ahead(order, cursor, y)
  BY <1>4, <1>5
<1> QED  BY <1>6 DEF NextFrom

\* The highest of some priorities is one of them.
LEMMA HighestFinds ==
    ASSUME NEW S \in SUBSET Int, IsFiniteSet(S), S # {}
    PROVE  Highest(S) \in S
<1>1. \E k \in S : \A j \in S : j <= k
  BY MaxOfFinite
<1> QED  BY <1>1 DEF Highest

\* Remainders of numbers within one length of the range.
LEMMA RemainderIs ==
    ASSUME NEW n \in Nat \ {0}, NEW a \in Int
    PROVE  /\ a >= 0 /\ a < n => a % n = a
           /\ a < 0 /\ -n <= a => a % n = a + n
           /\ a = n => a % n = 0
  OBVIOUS

\* The index grows along the order.
LEMMA IndexGrows ==
    ASSUME NEW order \in SUBSET Nat, IsFiniteSet(order), NEW x \in order, NEW y \in order, x < y
    PROVE  Index(order, x) < Index(order, y)
<1> DEFINE less == {z \in order : z < x}
           more == {z \in order : z < y}
<1>0. /\ x \in Nat /\ y \in Nat
      /\ \A z \in order : z \in Nat
  OBVIOUS
<1>1. /\ less \in SUBSET more /\ x \in more /\ x \notin less /\ more \in SUBSET order
  <2>1. \A z \in less : z \in order /\ z < y
    BY <1>0
  <2>2. x \in more /\ x \notin less
    BY <1>0
  <2> QED  BY <2>1, <2>2
<1> HIDE DEF less, more
<1>2. IsFiniteSet(more)
  BY <1>1, FS_Subset
<1>3. /\ IsFiniteSet(less) /\ Cardinality(less) <= Cardinality(more)
      /\ (Cardinality(more) = Cardinality(less) => more = less)
  BY <1>1, <1>2, FS_Subset
<1>4. Cardinality(less) \in Nat /\ Cardinality(more) \in Nat
  BY <1>2, <1>3, FS_CardinalityType
<1>5. Cardinality(less) < Cardinality(more)
  BY <1>1, <1>3, <1>4
<1> QED  BY <1>5 DEF Index, less, more

\* No two members of a sorted list share a position.
LEMMA IndexDistinct ==
    ASSUME NEW order \in SUBSET Nat, IsFiniteSet(order), NEW x \in order, NEW y \in order, x # y
    PROVE  Index(order, x) # Index(order, y)
<1>1. Index(order, x) \in Nat /\ Index(order, y) \in Nat
  BY IndexFits
<1>2. CASE x < y
  BY <1>1, <1>2, IndexGrows
<1>3. CASE y < x
  BY <1>1, <1>3, IndexGrows
<1> QED  BY <1>2, <1>3

\* The way from a cursor that is inside, without remainders.
LEMMA AheadIs ==
    ASSUME NEW order \in SUBSET Nat, IsFiniteSet(order), NEW x \in order,
           NEW cursor \in Nat, cursor <= Cardinality(order)
    PROVE  /\ Ahead(order, cursor, x) \in Nat /\ Ahead(order, cursor, x) < Cardinality(order)
           /\ Cardinality(order) \in Nat \ {0}
           /\ Ahead(order, cursor, x) = IF Index(order, x) >= cursor THEN Index(order, x) - cursor
                                        ELSE Index(order, x) - cursor + Cardinality(order)
<1> DEFINE n == Cardinality(order)  i == Index(order, x)
<1>1. i \in Nat /\ i + 1 <= n
  BY IndexFits
<1>2. n \in Nat /\ cursor <= n
  BY SizeIsNat
<1>3. Ahead(order, cursor, x) = (i - cursor) % n
  BY DEF Ahead
<1> HIDE DEF n, i
<1>4. n \in Nat \ {0} /\ i - cursor \in Int
  BY <1>1, <1>2
<1>5. CASE i >= cursor
  <2>1. i - cursor >= 0 /\ i - cursor < n
    BY <1>1, <1>2, <1>5
  <2>2. (i - cursor) % n = i - cursor
    BY <1>4, <2>1, RemainderIs
  <2> QED  BY <1>3, <1>4, <1>5, <2>1, <2>2 DEF n, i
<1>6. CASE ~(i >= cursor)
  <2>1. i - cursor < 0 /\ -n <= i - cursor
    BY <1>1, <1>2, <1>6
  <2>2. (i - cursor) % n = i - cursor + n
    BY <1>4, <2>1, RemainderIs
  <2> QED  BY <1>3, <1>4, <1>6, <2>1, <2>2 DEF n, i
<1> QED  BY <1>5, <1>6

\* A cursor behind the picked member is nearer to all the others.
LEMMA Nearer ==
    ASSUME NEW order \in SUBSET Nat, IsFiniteSet(order), NEW cursor \in Nat, cursor <= Cardinality(order),
           NEW x \in order, x = NextFrom(order, cursor, order), NEW y \in order, y # x
    PROVE  Ahead(order, Index(order, x) + 1, y) < Ahead(order, cursor, y)
<1> DEFINE n == Cardinality(order)  i == Index(order, x)  j == Index(order, y)
<1>1. i \in Nat /\ i + 1 <= n /\ j \in Nat /\ j + 1 <= n /\ i # j
  BY IndexFits, IndexDistinct
<1>2. n \in Nat
  BY SizeIsNat
<1>3. Ahead(order, cursor, x) <= Ahead(order, cursor, y)
  <2> DEFINE ways == {Ahead(order, cursor, z) : z \in order}
  <2>1. ways \in SUBSET Nat /\ ways # {}
    BY AheadIs
  <2>2. Min(ways) \in ways /\ \A w \in ways : Min(ways) <= w
    <3> HIDE DEF ways
    <3> QED  BY <2>1, MinOfNaturals
  <2>3. PICK z \in order : Ahead(order, cursor, z) = Min(ways)
    BY <2>2
  <2>4. \A w \in order : Ahead(order, cursor, z) <= Ahead(order, cursor, w)
    BY <2>2, <2>3
  <2>5. \A w \in order : Ahead(order, cursor, x) <= Ahead(order, cursor, w)
    BY <2>4 DEF NextFrom
  <2> QED  BY <2>5
<1>4. /\ Ahead(order, cursor, x) = IF i >= cursor THEN i - cursor ELSE i - cursor + n
      /\ Ahead(order, cursor, y) = IF j >= cursor THEN j - cursor ELSE j - cursor + n
  BY AheadIs
<1>5. Ahead(order, i + 1, y) = IF j >= i + 1 THEN j - (i + 1) ELSE j - (i + 1) + n
  <2>1. i + 1 \in Nat /\ i + 1 <= Cardinality(order)
    BY <1>1
  <2> HIDE DEF i
  <2> QED  BY <2>1, AheadIs
<1>6. Ahead(order, cursor, x) \in Nat /\ Ahead(order, cursor, y) \in Nat
  BY AheadIs
<1> HIDE DEF n, i, j
<1>7. Ahead(order, i + 1, y) < Ahead(order, cursor, y)
  BY <1>1, <1>2, <1>3, <1>4, <1>5, <1>6
<1> QED  BY <1>7 DEF i

\* A cursor that is brought back to the start is as far from everybody as it was.
LEMMA NormalizedAsFar ==
    ASSUME NEW order \in SUBSET Nat, IsFiniteSet(order), NEW cursor \in Nat, cursor <= Cardinality(order),
           NEW x \in order
    PROVE  Ahead(order, Normalized(cursor, Cardinality(order)), x) = Ahead(order, cursor, x)
<1> DEFINE n == Cardinality(order)  i == Index(order, x)  c == Normalized(cursor, n)
<1>1. i \in Nat /\ i + 1 <= n
  BY IndexFits
<1>2. n \in Nat \ {0}
  BY <1>1, SizeIsNat
<1>3. c = IF cursor = n THEN 0 ELSE cursor
  <2> HIDE DEF n
  <2>1. CASE cursor = 0
    BY <1>2, <2>1 DEF Normalized
  <2>2. CASE cursor = n
    <3>1. cursor % n = 0
      BY <1>2, <2>2, RemainderIs
    <3> QED  BY <1>2, <2>2, <3>1 DEF Normalized
  <2>3. CASE cursor > 0 /\ cursor < n
    <3>1. cursor % n = cursor
      BY <1>2, <2>3, RemainderIs
    <3> QED  BY <1>2, <2>3, <3>1 DEF Normalized
  <2> QED  BY <1>2, <2>1, <2>2, <2>3 DEF n
<1>4. c \in Nat /\ c <= n
  BY <1>2, <1>3
<1>5. Ahead(order, cursor, x) = IF i >= cursor THEN i - cursor ELSE i - cursor + n
  BY AheadIs
<1>6. Ahead(order, c, x) = IF i >= c THEN i - c ELSE i - c + n
  <2> HIDE DEF c
  <2> QED  BY <1>4, AheadIs DEF n
<1> HIDE DEF c, i
<1>7. Ahead(order, c, x) = Ahead(order, cursor, x)
  <2> HIDE DEF n
  <2> QED  BY <1>1, <1>2, <1>3, <1>5, <1>6
<1> QED  BY <1>7 DEF c

(***************************************************************************)
(* Views                                                                   *)
(***************************************************************************)

\* Everything that the views sort is a finite set of numbers.
LEMMA AllFinite ==
    /\ \A S \in SUBSET Auths : S \in SUBSET Nat /\ IsFiniteSet(S)
    /\ \A S \in SUBSET Parents : S \in SUBSET Nat /\ IsFiniteSet(S)
    /\ \A S \in SUBSET Priorities : S \in SUBSET Int /\ IsFiniteSet(S)
  BY ViewAssumption, SchedulerAssumption, FS_Subset

\* A cursor taken modulo the length fits a list of that length.
LEMMA NormalizedFits ==
    ASSUME NEW cursor \in Nat, NEW size \in Nat
    PROVE  Normalized(cursor, size) \in Nat /\ Normalized(cursor, size) <= size
<1>1. CASE size = 0 \/ cursor <= 0
  BY <1>1 DEF Normalized
<1>2. CASE ~(size = 0 \/ cursor <= 0)
  <2>1. cursor % size \in Nat /\ cursor % size < size
    BY <1>2, Remainder
  <2>2. Normalized(cursor, size) = cursor % size
    BY <1>2 DEF Normalized
  <2> QED  BY <2>1, <2>2
<1> QED  BY <1>1, <1>2

\* A parent for each credential, NoParent for none
ParentMap == [Auths -> Parents \cup {NoParent}]

\* The groups of a view hold its members and nobody else.
LEMMA GroupsTyped ==
    ASSUME NEW flat \in SUBSET Auths, NEW parent \in ParentMap
    PROVE  /\ Groups(flat, parent) \in [Parents -> SUBSET Auths]
           /\ \A p \in Parents : Groups(flat, parent)[p] \subseteq flat
           /\ Groups(flat, parent) # NoGroup => \A a \in flat : \E p \in Parents : a \in Groups(flat, parent)[p]
  BY DEF Groups, NoGroup, ParentMap

\* A view built from the ready entries has exactly them, and cursors that fit.
LEMMA RebuiltFits ==
    ASSUME NEW old \in View, NEW flat \in SUBSET Auths, NEW parent \in ParentMap
    PROVE  LET new == Rebuilt(old, flat, parent)
           IN  /\ new \in View
               /\ CursorFits(new)
               /\ new.flat = flat /\ new.group = Groups(flat, parent)
<1> DEFINE group == Groups(flat, parent)
           order == {p \in Parents : group[p] # {}}
           new == Rebuilt(old, flat, parent)
<1>1. group \in [Parents -> SUBSET Auths]
  BY GroupsTyped
<1> HIDE DEF group
<1>2. Cardinality(flat) \in Nat /\ Cardinality(order) \in Nat
      /\ \A p \in Parents : Cardinality(group[p]) \in Nat
  <2>1. order \in SUBSET Parents
    OBVIOUS
  <2> HIDE DEF order
  <2> QED  BY <1>1, <2>1, AllFinite, SizeIsNat
<1>3. old.cursor \in Nat /\ old.parentCursor \in Nat /\ \A p \in Parents : old.child[p] \in Nat
  BY DEF View
<1> DEFINE cursor == Normalized(old.cursor, Cardinality(flat))
           parentCursor == Normalized(old.parentCursor, Cardinality(order))
           child == [p \in Parents |-> Normalized(old.child[p], Cardinality(group[p]))]
<1>4. /\ cursor \in Nat /\ cursor <= Cardinality(flat)
      /\ parentCursor \in Nat /\ parentCursor <= Cardinality(order)
      /\ child \in [Parents -> Nat] /\ \A p \in Parents : child[p] <= Cardinality(group[p])
  <2> HIDE DEF order
  <2> QED  BY <1>2, <1>3, NormalizedFits
<1>5. new = [flat |-> flat, group |-> group, cursor |-> cursor, parentCursor |-> parentCursor,
             child |-> child]
  BY DEF Rebuilt, group
<1> HIDE DEF cursor, parentCursor, child, new
<1>6. new \in View
  BY <1>1, <1>4, <1>5 DEF View
<1>7. /\ new.flat = flat /\ new.group = group /\ new.cursor = cursor
      /\ new.parentCursor = parentCursor /\ new.child = child
  BY <1>5
<1>8. ParentOrder(new) = order
  BY <1>7 DEF ParentOrder
<1> HIDE DEF order
<1>9. CursorFits(new)
  BY <1>4, <1>7, <1>8 DEF CursorFits
<1> QED  BY <1>6, <1>7, <1>9 DEF new, group

\* Moving the cursors changes nobody's place, and keeps them inside.
LEMMA AdvancedFits ==
    ASSUME NEW view \in View, CursorFits(view), NEW ok \in SUBSET Auths, view.flat \cap ok # {},
           NEW parent \in ParentMap, view.group = Groups(view.flat, parent)
    PROVE  LET new == Advanced(view, ok)
           IN  /\ new \in View
               /\ CursorFits(new)
               /\ new.flat = view.flat /\ new.group = view.group
<1> DEFINE new == Advanced(view, ok)
<1>1. view.flat \in SUBSET Auths /\ view.cursor \in Nat /\ view.parentCursor \in Nat
      /\ view.group \in [Parents -> SUBSET Auths] /\ view.child \in [Parents -> Nat]
  BY DEF View
<1>2. CASE ~Grouped(view)
  <2> DEFINE x == NextFrom(view.flat, view.cursor, view.flat \cap ok)
             cursor == Index(view.flat, x) + 1
  <2>1. view.flat \in SUBSET Nat /\ IsFiniteSet(view.flat)
    BY <1>1, AllFinite
  <2>2. x \in view.flat
    <3>1. view.flat \cap ok \in SUBSET view.flat
      OBVIOUS
    <3> QED  BY <1>1, <2>1, <3>1, NextFromFinds
  <2>3. cursor \in Nat /\ cursor <= Cardinality(view.flat)
    <3> HIDE DEF x
    <3> QED  BY <2>1, <2>2, IndexFits
  <2>4. new = [view EXCEPT !.cursor = cursor]
    BY <1>2 DEF Advanced, Picked
  <2> HIDE DEF cursor, new
  <2>5. new \in View
    BY <1>1, <2>3, <2>4 DEF View
  <2>6. /\ new.flat = view.flat /\ new.group = view.group /\ new.cursor = cursor
        /\ new.parentCursor = view.parentCursor /\ new.child = view.child
    BY <2>4 DEF View
  <2>7. CursorFits(new)
    BY <2>3, <2>6 DEF CursorFits, ParentOrder
  <2> QED  BY <2>5, <2>6, <2>7 DEF new
<1>3. CASE Grouped(view)
  <2> DEFINE able == {q \in Parents : view.group[q] \cap ok # {}}
             order == ParentOrder(view)
             p == NextFrom(order, view.parentCursor, able)
             x == NextFrom(view.group[p], view.child[p], view.group[p] \cap ok)
             parentCursor == Index(order, p) + 1
             cursor == Index(view.group[p], x) + 1
  <2>1. order \in SUBSET Nat /\ IsFiniteSet(order)
    <3>1. order \in SUBSET Parents
      BY DEF ParentOrder
    <3> QED  BY <3>1, AllFinite
  <2>2. able \in SUBSET order /\ able # {}
    <3>1. able \subseteq order
      BY DEF ParentOrder
    <3>2. PICK a \in view.flat : a \in ok
      OBVIOUS
    <3>3. \E q \in Parents : a \in view.group[q]
      BY <1>1, <1>3, <3>2, GroupsTyped DEF Grouped
    <3> QED  BY <3>1, <3>2, <3>3
  <2>3. p \in able
    <3> HIDE DEF able, order
    <3> QED  BY <1>1, <2>1, <2>2, NextFromFinds
  <2>4. p \in Parents /\ p \in order /\ view.group[p] \cap ok # {}
    <3> HIDE DEF p
    <3> QED  BY <2>2, <2>3
  <2>5. parentCursor \in Nat /\ parentCursor <= Cardinality(order)
    <3> HIDE DEF p, order
    <3> QED  BY <2>1, <2>4, IndexFits
  <2>6. view.group[p] \in SUBSET Nat /\ IsFiniteSet(view.group[p]) /\ view.child[p] \in Nat
    <3> HIDE DEF p
    <3> QED  BY <1>1, <2>4, AllFinite
  <2>7. x \in view.group[p]
    <3>1. view.group[p] \cap ok \in SUBSET view.group[p]
      OBVIOUS
    <3> HIDE DEF p
    <3> QED  BY <2>4, <2>6, <3>1, NextFromFinds
  <2>8. cursor \in Nat /\ cursor <= Cardinality(view.group[p])
    <3> HIDE DEF p, x
    <3> QED  BY <2>6, <2>7, IndexFits
  <2>9. new = [view EXCEPT !.parentCursor = parentCursor, !.child[p] = cursor]
    BY <1>3 DEF Advanced, Picked, PickedParent
  <2> HIDE DEF cursor, parentCursor, p, new, order
  <2>10. new \in View
    BY <1>1, <2>4, <2>5, <2>8, <2>9 DEF View
  <2>11. /\ new.flat = view.flat /\ new.group = view.group /\ new.cursor = view.cursor
         /\ new.parentCursor = parentCursor /\ new.child = [view.child EXCEPT ![p] = cursor]
    BY <2>9 DEF View
  <2>12. ParentOrder(new) = order
    BY <2>11 DEF ParentOrder, order
  <2>13. CursorFits(new)
    BY <1>1, <2>4, <2>5, <2>8, <2>11, <2>12 DEF CursorFits
  <2> QED  BY <2>10, <2>11, <2>13 DEF new
<1> QED  BY <1>2, <1>3

(***************************************************************************)
(* How long a member of a view has to wait                                 *)
(***************************************************************************)

\* The parent whose child a is
Home(view, a) == CHOOSE p \in Parents : a \in view.group[p]

\* So many picks that everybody may take come before a's.
Turn(view, a) ==
    IF Grouped(view)
    THEN LET p == Home(view, a)
         IN  Ahead(ParentOrder(view), view.parentCursor, p)
             + Cardinality(ParentOrder(view)) * Ahead(view.group[p], view.child[p], a)
    ELSE Ahead(view.flat, view.cursor, a)

\* A view that a shard in order has
Fit(view) == /\ view \in View /\ CursorFits(view)
             /\ \E parent \in ParentMap : view.group = Groups(view.flat, parent)

\* Numbers of two digits, the lower one below P and the upper one below n
LEMMA TwoDigits ==
    ASSUME NEW P \in Nat \ {0}, NEW n \in Nat \ {0}, NEW low \in Nat, NEW high \in Nat, low < P, high < n
    PROVE  low + P * high \in Nat /\ low + P * high < P * n
<1> DEFINE rest == n - (high + 1)
<1>1. rest \in Nat /\ n = high + 1 + rest
  OBVIOUS
<1> HIDE DEF rest
<1>2. P * n = P * high + P + P * rest
  BY <1>1
<1>3. P * high \in Nat /\ P * rest \in Nat
  BY <1>1
<1> QED  BY <1>2, <1>3

\* The upper digit counts more than the lower one.
LEMMA UpperDigit ==
    ASSUME NEW P \in Nat \ {0}, NEW low \in Nat, NEW low2 \in Nat, low2 < P,
           NEW high \in Nat, NEW high2 \in Nat, high2 < high
    PROVE  low2 + P * high2 < low + P * high
<1> DEFINE rest == high - (high2 + 1)
<1>1. rest \in Nat /\ high = high2 + 1 + rest
  OBVIOUS
<1> HIDE DEF rest
<1>2. P * high = P * high2 + P + P * rest
  BY <1>1
<1>3. P * high2 \in Nat /\ P * rest \in Nat
  BY <1>1
<1> QED  BY <1>2, <1>3

\* What a view with fitting cursors and groups by parent is made of.
LEMMA FitSays ==
    ASSUME NEW view, Fit(view)
    PROVE  /\ view.flat \in SUBSET Auths /\ view.flat \in SUBSET Nat /\ IsFiniteSet(view.flat)
           /\ view.cursor \in Nat /\ view.cursor <= Cardinality(view.flat)
           /\ ParentOrder(view) \in SUBSET Nat /\ IsFiniteSet(ParentOrder(view))
           /\ view.parentCursor \in Nat /\ view.parentCursor <= Cardinality(ParentOrder(view))
           /\ view.group \in [Parents -> SUBSET Auths] /\ view.child \in [Parents -> Nat]
           /\ \A p \in Parents : /\ view.group[p] \in SUBSET Nat /\ IsFiniteSet(view.group[p])
                                 /\ view.group[p] \subseteq view.flat
                                 /\ view.child[p] <= Cardinality(view.group[p])
<1>1. view \in View /\ CursorFits(view)
  BY DEF Fit
<1>2. PICK parent \in ParentMap : view.group = Groups(view.flat, parent)
  BY DEF Fit
<1>3. ParentOrder(view) \in SUBSET Parents
  BY DEF ParentOrder
<1>4. view.flat \in SUBSET Auths /\ view.group \in [Parents -> SUBSET Auths]
      /\ view.child \in [Parents -> Nat] /\ view.cursor \in Nat /\ view.parentCursor \in Nat
  BY <1>1 DEF View
<1>5. \A p \in Parents : view.group[p] \subseteq view.flat
  BY <1>2, <1>4, GroupsTyped
<1> QED  BY <1>1, <1>3, <1>4, <1>5, AllFinite DEF CursorFits

\* In a grouped view everybody has one home.
LEMMA HomeSays ==
    ASSUME NEW view, Fit(view), Grouped(view), NEW a \in view.flat
    PROVE  /\ Home(view, a) \in Parents /\ Home(view, a) \in ParentOrder(view)
           /\ a \in view.group[Home(view, a)]
           /\ \A p \in Parents : a \in view.group[p] => p = Home(view, a)
<1>1. PICK parent \in ParentMap : view.group = Groups(view.flat, parent)
  BY DEF Fit
<1>2. \A p \in Parents : \A b \in view.group[p] : parent[b] = p
  BY <1>1 DEF Groups, NoGroup
<1>3. \E p \in Parents : a \in view.group[p]
  BY <1>1, FitSays, GroupsTyped DEF Grouped
<1>4. Home(view, a) \in Parents /\ a \in view.group[Home(view, a)]
  BY <1>3 DEF Home
<1>5. Home(view, a) \in ParentOrder(view)
  BY <1>4 DEF ParentOrder
<1> QED  BY <1>2, <1>4, <1>5

\* The two digits of a turn in a grouped view
LEMMA TurnInside ==
    ASSUME NEW view, Fit(view), Grouped(view), NEW a \in view.flat
    PROVE  LET p == Home(view, a)
               P == Cardinality(ParentOrder(view))
               n == Cardinality(view.group[p])
               low == Ahead(ParentOrder(view), view.parentCursor, p)
               high == Ahead(view.group[p], view.child[p], a)
           IN  /\ P \in Nat \ {0} /\ n \in Nat \ {0}
               /\ low \in Nat /\ low < P /\ high \in Nat /\ high < n
               /\ Turn(view, a) = low + P * high
               /\ Round(view, a) = P * n
<1> DEFINE p == Home(view, a)
           P == Cardinality(ParentOrder(view))
           n == Cardinality(view.group[p])
           low == Ahead(ParentOrder(view), view.parentCursor, p)
           high == Ahead(view.group[p], view.child[p], a)
<1>1. p \in Parents /\ p \in ParentOrder(view) /\ a \in view.group[p]
  BY HomeSays
<1>2. Turn(view, a) = low + P * high
  BY DEF Turn
<1>3. Round(view, a) = P * n
  BY DEF Round, Home
<1> HIDE DEF p
<1>4. P \in Nat \ {0} /\ low \in Nat /\ low < P
  BY <1>1, FitSays, AheadIs
<1>5. n \in Nat \ {0} /\ high \in Nat /\ high < n
  <2>1. /\ view.group[p] \in SUBSET Nat /\ IsFiniteSet(view.group[p]) /\ view.child[p] \in Nat
        /\ view.child[p] <= Cardinality(view.group[p])
    BY <1>1, FitSays
  <2> QED  BY <1>1, <2>1, AheadIs
<1> QED  BY <1>2, <1>3, <1>4, <1>5 DEF p

\* Nobody has to wait for a whole round.
LEMMA TurnFits ==
    ASSUME NEW view, Fit(view), NEW a \in view.flat
    PROVE  Turn(view, a) \in Nat /\ Turn(view, a) < Round(view, a) /\ Round(view, a) \in Nat
<1>1. CASE Grouped(view)
  <2> DEFINE p == Home(view, a)
             P == Cardinality(ParentOrder(view))
             n == Cardinality(view.group[p])
             low == Ahead(ParentOrder(view), view.parentCursor, p)
             high == Ahead(view.group[p], view.child[p], a)
  <2>1. /\ P \in Nat \ {0} /\ n \in Nat \ {0}
        /\ low \in Nat /\ low < P /\ high \in Nat /\ high < n
        /\ Turn(view, a) = low + P * high
        /\ Round(view, a) = P * n
    BY <1>1, TurnInside
  <2> HIDE DEF p, P, n, low, high
  <2>2. low + P * high \in Nat /\ low + P * high < P * n
    BY <2>1, TwoDigits
  <2>3. P * n \in Nat
    BY <2>1
  <2> QED  BY <2>1, <2>2, <2>3
<1>2. CASE ~Grouped(view)
  <2>1. Turn(view, a) = Ahead(view.flat, view.cursor, a) /\ Round(view, a) = Cardinality(view.flat)
    BY <1>2 DEF Turn, Round
  <2> QED  BY <2>1, FitSays, AheadIs
<1> QED  BY <1>1, <1>2

\* A rebuilt view with the same members lets nobody wait longer.
LEMMA RebuiltTurn ==
    ASSUME NEW old, Fit(old), NEW flat \in SUBSET Auths, NEW parent \in ParentMap,
           Members(Rebuilt(old, flat, parent)) = Members(old), NEW a \in flat
    PROVE  Turn(Rebuilt(old, flat, parent), a) = Turn(old, a)
<1> DEFINE new == Rebuilt(old, flat, parent)
           group == Groups(flat, parent)
           order == {p \in Parents : group[p] # {}}
<1>1. new.flat = flat /\ new.group = group /\ old.flat = flat /\ old.group = group
  <2>1. new.flat = flat /\ new.group = group
    BY DEF Rebuilt
  <2>2. new.flat = old.flat /\ new.group = old.group
    BY DEF Members
  <2> QED  BY <2>1, <2>2
<1>2. /\ new.cursor = Normalized(old.cursor, Cardinality(flat))
      /\ new.parentCursor = Normalized(old.parentCursor, Cardinality(order))
      /\ new.child = [p \in Parents |-> Normalized(old.child[p], Cardinality(group[p]))]
  BY DEF Rebuilt
<1>3. ParentOrder(new) = ParentOrder(old) /\ ParentOrder(old) = order
  BY <1>1 DEF ParentOrder
<1>4. Grouped(new) <=> Grouped(old)
  BY <1>1 DEF Grouped
<1>5. Home(new, a) = Home(old, a)
  BY <1>1 DEF Home
<1> HIDE DEF new, group, order
<1>6. CASE Grouped(old)
  <2> DEFINE p == Home(old, a)
  <2>1. p \in Parents /\ p \in ParentOrder(old) /\ a \in old.group[p]
    BY <1>1, <1>6, HomeSays
  <2>2. /\ Turn(new, a) = Ahead(ParentOrder(new), new.parentCursor, Home(new, a))
            + Cardinality(ParentOrder(new)) * Ahead(new.group[Home(new, a)], new.child[Home(new, a)], a)
        /\ Turn(old, a) = Ahead(ParentOrder(old), old.parentCursor, p)
            + Cardinality(ParentOrder(old)) * Ahead(old.group[p], old.child[p], a)
    BY <1>4, <1>6 DEF Turn
  <2> HIDE DEF p
  <2>3. Ahead(order, new.parentCursor, p) = Ahead(order, old.parentCursor, p)
    BY <1>2, <1>3, <2>1, FitSays, NormalizedAsFar
  <2>4. Ahead(group[p], new.child[p], a) = Ahead(group[p], old.child[p], a)
    <3>1. new.child[p] = Normalized(old.child[p], Cardinality(group[p]))
      BY <1>2, <2>1
    <3>2. /\ group[p] \in SUBSET Nat /\ IsFiniteSet(group[p]) /\ old.child[p] \in Nat
          /\ old.child[p] <= Cardinality(group[p]) /\ a \in group[p]
      BY <1>1, <2>1, FitSays
    <3> QED  BY <3>1, <3>2, NormalizedAsFar
  <2> QED  BY <1>1, <1>3, <1>5, <2>2, <2>3, <2>4 DEF p, new
<1>7. CASE ~Grouped(old)
  <2>1. Turn(new, a) = Ahead(flat, new.cursor, a) /\ Turn(old, a) = Ahead(flat, old.cursor, a)
    BY <1>1, <1>4, <1>7 DEF Turn
  <2>2. Ahead(flat, new.cursor, a) = Ahead(flat, old.cursor, a)
    BY <1>1, <1>2, FitSays, NormalizedAsFar
  <2> QED  BY <2>1, <2>2 DEF new
<1> QED  BY <1>6, <1>7

\* A pick that everybody may take brings all the others nearer.
LEMMA AdvancedTurn ==
    ASSUME NEW view, Fit(view), NEW a \in view.flat, a # Picked(view, Auths)
    PROVE  Turn(Advanced(view, Auths), a) < Turn(view, a)
<1> DEFINE new == Advanced(view, Auths)  x == Picked(view, Auths)
<1>1. /\ view.flat \cap Auths = view.flat
      /\ \A p \in Parents : view.group[p] \cap Auths = view.group[p]
  BY FitSays
<1>2. CASE Grouped(view)
  <2> DEFINE order == ParentOrder(view)
             q == PickedParent(view, Auths)
             p == Home(view, a)
             P == Cardinality(order)
             low == Ahead(order, view.parentCursor, p)
             high == Ahead(view.group[p], view.child[p], a)
  <2>1. order \in SUBSET Parents /\ {r \in Parents : view.group[r] \cap Auths # {}} = order
    BY <1>1 DEF ParentOrder
  <2>2. q = NextFrom(order, view.parentCursor, order)
    BY <2>1 DEF PickedParent
  <2>3. p \in Parents /\ p \in order /\ a \in view.group[p]
    BY <1>2, HomeSays
  <2>4. q \in order /\ q \in Parents
    <3>1. order # {}
      BY <2>3
    <3> HIDE DEF order, q
    <3>2. order \in SUBSET Nat /\ IsFiniteSet(order) /\ view.parentCursor \in Nat
      BY FitSays DEF order
    <3> QED  BY <2>1, <2>2, <3>1, <3>2, NextFromFinds
  <2>5. x = NextFrom(view.group[q], view.child[q], view.group[q])
    <3>1. x = NextFrom(view.group[q], view.child[q], view.group[q] \cap Auths)
      BY <1>2 DEF Picked
    <3> QED  BY <1>1, <2>4, <3>1
  <2>6. new = [view EXCEPT !.parentCursor = Index(order, q) + 1,
                           !.child[q] = Index(view.group[q], x) + 1]
    BY <1>2 DEF Advanced
  <2>7. view \in View
    BY DEF Fit
  <2>8. /\ Turn(view, a) = low + P * high
        /\ P \in Nat \ {0} /\ low \in Nat /\ low < P /\ high \in Nat
    BY <1>2, TurnInside
  <2> HIDE DEF x, q, new
  <2>9. /\ new.flat = view.flat /\ new.group = view.group
        /\ new.parentCursor = Index(order, q) + 1
        /\ new.child = [view.child EXCEPT ![q] = Index(view.group[q], x) + 1]
    BY <2>6, <2>7 DEF View
  <2> DEFINE low2 == Ahead(order, Index(order, q) + 1, p)
             high2 == Ahead(view.group[p], new.child[p], a)
  <2>10. Turn(new, a) = low2 + P * high2
    <3>1. Grouped(new) /\ ParentOrder(new) = order /\ Home(new, a) = p
      BY <1>2, <2>9 DEF Grouped, ParentOrder, Home
    <3> HIDE DEF order, p
    <3>2. Turn(new, a) = Ahead(order, new.parentCursor, p)
            + Cardinality(order) * Ahead(new.group[p], new.child[p], a)
      BY <3>1 DEF Turn
    <3> QED  BY <2>9, <3>2
  <2>11. view.child \in [Parents -> Nat]
    BY FitSays
  <2>12. CASE p # q
    <3>1. low2 < low
      <4>1. order \in SUBSET Nat /\ IsFiniteSet(order) /\ view.parentCursor \in Nat
            /\ view.parentCursor <= Cardinality(order)
        BY FitSays
      <4> HIDE DEF order, p
      <4> QED  BY <2>2, <2>3, <2>4, <2>12, <4>1, Nearer
    <3>2. high2 = high
      BY <2>3, <2>9, <2>11, <2>12
    <3>3. low2 \in Nat
      <4>1. Index(order, q) + 1 \in Nat /\ Index(order, q) + 1 <= Cardinality(order)
        BY <2>4, FitSays, IndexFits
      <4> DEFINE c == Index(order, q) + 1
      <4>2. c \in Nat /\ c <= Cardinality(order) /\ order \in SUBSET Nat /\ IsFiniteSet(order)
        BY <4>1, FitSays
      <4> HIDE DEF c, order, p
      <4>3. Ahead(order, c, p) \in Nat
        BY <2>3, <4>2, AheadIs
      <4> QED  BY <4>3 DEF c
    <3> HIDE DEF low, low2, high, high2, P
    <3>4. P * high \in Nat
      BY <2>8
    <3> QED  BY <2>8, <2>10, <3>1, <3>2, <3>3, <3>4 DEF new
  <2>13. CASE p = q
    <3>1. /\ view.group[p] \in SUBSET Nat /\ IsFiniteSet(view.group[p]) /\ view.child[p] \in Nat
          /\ view.child[p] <= Cardinality(view.group[p])
      BY <2>3, FitSays
    <3>2. x \in view.group[p]
      <4>1. view.group[p] # {}
        BY <2>3
      <4> HIDE DEF p
      <4>2. NextFrom(view.group[p], view.child[p], view.group[p]) \in view.group[p]
        BY <3>1, <4>1, NextFromFinds
      <4> QED  BY <2>5, <2>13, <4>2
    <3>3. new.child[p] = Index(view.group[p], x) + 1
      BY <2>3, <2>9, <2>11, <2>13
    <3>4. a # x
      BY DEF x
    <3>5. Ahead(view.group[p], Index(view.group[p], x) + 1, a) < high
      <4> HIDE DEF p
      <4>1. x = NextFrom(view.group[p], view.child[p], view.group[p])
        BY <2>5, <2>13
      <4> QED  BY <2>3, <3>1, <3>2, <3>4, <4>1, Nearer
    <3>6. high2 < high
      BY <3>3, <3>5
    <3>7. high2 \in Nat
      <4> DEFINE c == Index(view.group[p], x) + 1
      <4>1. c \in Nat /\ c <= Cardinality(view.group[p])
        BY <3>1, <3>2, IndexFits
      <4> HIDE DEF c
      <4>2. Ahead(view.group[p], c, a) \in Nat
        <5> HIDE DEF p
        <5> QED  BY <2>3, <3>1, <4>1, AheadIs
      <4> QED  BY <3>3, <4>2 DEF c
    <3>8. low2 \in Nat /\ low2 < P
      <4> DEFINE c == Index(order, q) + 1
      <4>1. c \in Nat /\ c <= Cardinality(order) /\ order \in SUBSET Nat /\ IsFiniteSet(order)
        BY <2>4, FitSays, IndexFits
      <4> HIDE DEF c, order, p
      <4>2. Ahead(order, c, p) \in Nat /\ Ahead(order, c, p) < Cardinality(order)
        BY <2>3, <4>1, AheadIs
      <4> QED  BY <4>2 DEF c
    <3> HIDE DEF low, low2, high, high2, P
    <3>9. low2 + P * high2 < low + P * high
      BY <2>8, <3>6, <3>7, <3>8, UpperDigit
    <3> QED  BY <2>8, <2>10, <3>9 DEF new
  <2> QED  BY <2>12, <2>13
<1>3. CASE ~Grouped(view)
  <2>1. x = NextFrom(view.flat, view.cursor, view.flat)
    <3>1. x = NextFrom(view.flat, view.cursor, view.flat \cap Auths)
      BY <1>3 DEF Picked
    <3> QED  BY <1>1, <3>1
  <2>2. new = [view EXCEPT !.cursor = Index(view.flat, x) + 1]
    BY <1>3 DEF Advanced
  <2>3. a # x
    BY DEF x
  <2> HIDE DEF x, new
  <2>4. new.flat = view.flat /\ new.group = view.group /\ new.cursor = Index(view.flat, x) + 1
    BY <2>2 DEF Fit, View
  <2>5. /\ Turn(new, a) = Ahead(view.flat, Index(view.flat, x) + 1, a)
        /\ Turn(view, a) = Ahead(view.flat, view.cursor, a)
    BY <1>3, <2>4 DEF Turn, Grouped
  <2>6. x \in view.flat
    <3>1. view.flat # {}
      OBVIOUS
    <3> QED  BY <2>1, <3>1, FitSays, NextFromFinds
  <2>7. Ahead(view.flat, Index(view.flat, x) + 1, a) < Ahead(view.flat, view.cursor, a)
    BY <2>1, <2>3, <2>6, FitSays, Nearer
  <2> QED  BY <2>5, <2>7 DEF new
<1> QED  BY <1>2, <1>3

(***************************************************************************)
(* Shards                                                                  *)
(***************************************************************************)

\* A shard whose views are those of its entries
ViewsAgree(sh) ==
    \A k \in Priorities :
        /\ ViewAgrees(sh.bucket[k].all, ReadyAt(sh.entry, k), sh.entry)
        /\ ViewAgrees(sh.bucket[k].ws, ReadyWebsockets(sh.entry, k), sh.entry)
CursorsFit(sh) ==
    \A k \in Priorities : CursorFits(sh.bucket[k].all) /\ CursorFits(sh.bucket[k].ws)
Sane(sh) == sh \in Shard /\ ViewsAgree(sh) /\ CursorsFit(sh)

\* Its entries are those of the provider's snapshots, as last reported or promoted since.
CurrentFor(sh, p, snap, passed) ==
    \A a \in Auths :
        IF Supports(snap[a], p)
        THEN sh.entry[a] \in
                {EntryOf(snap[a], snap[a].status),
                 EntryOf(snap[a], IF snap[a].status = "blocked" /\ a \in passed THEN "ready"
                                  ELSE snap[a].status)}
        ELSE sh.entry[a] = Absent

Good(shards, snap, passed) ==
    \A p \in Providers :
        shards[p] # Absent => Sane(shards[p]) /\ CurrentFor(shards[p], p, snap, passed)

IInv == TypeOK /\ Good(shard, snapshot, due)

\* The parts of a shard have their types.
LEMMA ShardTyped ==
    ASSUME NEW sh \in Shard
    PROVE  /\ sh.entry \in [Auths -> Entry \cup {Absent}]
           /\ sh.bucket \in [Priorities -> Bucket]
           /\ \A k \in Priorities : sh.bucket[k].all \in View /\ sh.bucket[k].ws \in View
           /\ ParentsOf(sh.entry) \in ParentMap
           /\ \A k \in Priorities : ReadyAt(sh.entry, k) \in SUBSET Auths
                                    /\ ReadyWebsockets(sh.entry, k) \in SUBSET Auths
<1>1. sh.entry \in [Auths -> Entry \cup {Absent}] /\ sh.bucket \in [Priorities -> Bucket]
  BY DEF Shard
<1>2. \A a \in Auths : sh.entry[a] # Absent => sh.entry[a].parent \in Parents \cup {NoParent}
  BY <1>1 DEF Entry
<1>3. ParentsOf(sh.entry) \in ParentMap
  BY <1>2 DEF ParentsOf, ParentMap
<1> QED  BY <1>1, <1>3 DEF Bucket, ReadyAt, ReadyWebsockets

\* Rebuilding the views makes any shard sane and keeps its entries.
LEMMA RebuildSane ==
    ASSUME NEW sh \in Shard
    PROVE  Sane(Rebuild(sh)) /\ Rebuild(sh).entry = sh.entry
<1> DEFINE e == sh.entry
           all(k) == Rebuilt(sh.bucket[k].all, ReadyAt(e, k), ParentsOf(e))
           ws(k) == Rebuilt(sh.bucket[k].ws, ReadyWebsockets(e, k), ParentsOf(e))
           bucket == [k \in Priorities |-> [all |-> all(k), ws |-> ws(k)]]
           new == [sh EXCEPT !.bucket = bucket]
<1>1. new = Rebuild(sh)
  BY DEF Rebuild
<1>2. ASSUME NEW k \in Priorities
      PROVE  /\ all(k) \in View /\ CursorFits(all(k))
             /\ all(k).flat = ReadyAt(e, k) /\ all(k).group = Groups(ReadyAt(e, k), ParentsOf(e))
             /\ ws(k) \in View /\ CursorFits(ws(k))
             /\ ws(k).flat = ReadyWebsockets(e, k)
             /\ ws(k).group = Groups(ReadyWebsockets(e, k), ParentsOf(e))
  BY ShardTyped, RebuiltFits
<1> HIDE DEF all, ws
<1>3. bucket \in [Priorities -> Bucket]
  BY <1>2 DEF Bucket
<1>4. \A k \in Priorities : bucket[k].all = all(k) /\ bucket[k].ws = ws(k)
  OBVIOUS
<1> HIDE DEF bucket
<1>5. new \in Shard /\ new.entry = e /\ new.bucket = bucket
  BY <1>3 DEF Shard
<1> HIDE DEF new
<1>6. ViewsAgree(new)
  BY <1>2, <1>4, <1>5 DEF ViewsAgree, ViewAgrees
<1>7. CursorsFit(new)
  BY <1>2, <1>4, <1>5 DEF CursorsFit
<1> QED  BY <1>1, <1>5, <1>6, <1>7 DEF Sane

\* A sane shard stays so when an entry is added or replaced.
LEMMA UpsertEntrySane ==
    ASSUME NEW sh, Sane(sh), NEW a \in Auths, NEW e \in Entry
    PROVE  /\ Sane(UpsertEntry(sh, a, e))
           /\ UpsertEntry(sh, a, e).entry = [sh.entry EXCEPT ![a] = e]
<1> DEFINE changed == [sh EXCEPT !.entry[a] = e]
<1>1. sh \in Shard /\ sh.entry \in [Auths -> Entry \cup {Absent}]
  BY ShardTyped DEF Sane
<1>2. changed \in Shard /\ changed.entry = [sh.entry EXCEPT ![a] = e]
  BY <1>1 DEF Shard
<1>3. CASE sh.entry[a] = e
  BY <1>1, <1>3 DEF UpsertEntry
<1>4. CASE sh.entry[a] # e
  <2>1. UpsertEntry(sh, a, e) = Rebuild(changed)
    BY <1>4 DEF UpsertEntry
  <2> HIDE DEF changed
  <2> QED  BY <1>2, <2>1, RebuildSane
<1> QED  BY <1>3, <1>4

\* A sane shard stays so when an entry is removed.
LEMMA RemoveEntrySane ==
    ASSUME NEW sh, Sane(sh), NEW a \in Auths
    PROVE  /\ Sane(RemoveEntry(sh, a))
           /\ RemoveEntry(sh, a).entry = [sh.entry EXCEPT ![a] = Absent]
<1> DEFINE changed == [sh EXCEPT !.entry[a] = Absent]
<1>1. sh \in Shard /\ sh.entry \in [Auths -> Entry \cup {Absent}]
  BY ShardTyped DEF Sane
<1>2. changed \in Shard /\ changed.entry = [sh.entry EXCEPT ![a] = Absent]
  BY <1>1 DEF Shard
<1>3. CASE sh.entry[a] = Absent
  BY <1>1, <1>3 DEF RemoveEntry
<1>4. CASE sh.entry[a] # Absent
  <2>1. RemoveEntry(sh, a) = Rebuild(changed)
    BY <1>4 DEF RemoveEntry
  <2> HIDE DEF changed
  <2> QED  BY <1>2, <2>1, RebuildSane
<1> QED  BY <1>3, <1>4

\* Promotion keeps a shard sane, and its entries those that the snapshot allows.
LEMMA PromotedSane ==
    ASSUME IInv, NEW p \in Providers, NEW sh, Sane(sh), CurrentFor(sh, p, snapshot, due)
    PROVE  Sane(Promoted(sh)) /\ CurrentFor(Promoted(sh), p, snapshot, due)
<1> DEFINE entry == [a \in Auths |-> IF a \in Promotable(sh)
                                     THEN [sh.entry[a] EXCEPT !.state = StateNow(a, due)]
                                     ELSE sh.entry[a]]
           changed == [sh EXCEPT !.entry = entry]
<1>1. CASE Promotable(sh) = {}
  BY <1>1 DEF Promoted
<1>2. CASE Promotable(sh) # {}
  <2>1. Promoted(sh) = Rebuild(changed)
    BY <1>2 DEF Promoted
  <2>2. sh \in Shard /\ sh.entry \in [Auths -> Entry \cup {Absent}]
    BY ShardTyped DEF Sane
  <2>3. ASSUME NEW a \in Promotable(sh)
        PROVE  /\ Supports(snapshot[a], p) /\ snapshot[a] \in Snapshot /\ a \in Auths
               /\ entry[a] = EntryOf(snapshot[a], StateNow(a, due))
               /\ entry[a] \in Entry
    <3>1. a \in Auths /\ a \in due /\ sh.entry[a] # Absent
      BY DEF Promotable, IInv, TypeOK
    <3>2. Supports(snapshot[a], p)
      BY <3>1 DEF CurrentFor
    <3>3. snapshot[a] \in Snapshot
      BY <3>1, <3>2 DEF Supports, IInv, TypeOK
    <3>4. \E state \in States : sh.entry[a] = EntryOf(snapshot[a], state)
      BY <3>1, <3>2, <3>3 DEF CurrentFor, Snapshot, States
    <3>5. StateNow(a, due) \in States
      BY <3>3 DEF StateNow, Snapshot, States
    <3>6. entry[a] = EntryOf(snapshot[a], StateNow(a, due))
      BY <3>1, <3>4 DEF EntryOf
    <3>7. EntryOf(snapshot[a], StateNow(a, due)) \in Entry
      BY <3>3, <3>5 DEF EntryOf, Entry, Snapshot
    <3> QED  BY <3>1, <3>2, <3>3, <3>6, <3>7
  <2>4. \A a \in Auths : a \notin Promotable(sh) => entry[a] = sh.entry[a]
    OBVIOUS
  <2>5. entry \in [Auths -> Entry \cup {Absent}]
    BY <2>2, <2>3
  <2> HIDE DEF entry
  <2>6. changed \in Shard /\ changed.entry = entry
    BY <2>2, <2>5 DEF Shard
  <2> HIDE DEF changed
  <2>7. Sane(Promoted(sh)) /\ Promoted(sh).entry = entry
    BY <2>1, <2>6, RebuildSane
  <2>8. ASSUME NEW a \in Auths
        PROVE  IF Supports(snapshot[a], p)
               THEN entry[a] \in
                {EntryOf(snapshot[a], snapshot[a].status),
                 EntryOf(snapshot[a], IF snapshot[a].status = "blocked" /\ a \in due THEN "ready"
                                      ELSE snapshot[a].status)}
               ELSE entry[a] = Absent
    <3>1. CASE a \in Promotable(sh)
      BY <2>3, <3>1 DEF StateNow
    <3>2. CASE a \notin Promotable(sh)
      BY <2>4, <3>2 DEF CurrentFor
    <3> QED  BY <3>1, <3>2
  <2> QED  BY <2>7, <2>8 DEF CurrentFor
<1> QED  BY <1>1, <1>2

\* A new shard has its type.
LEMMA EmptyTyped == EmptyView \in View /\ \A e \in [Auths -> Entry \cup {Absent}] :
                        [EmptyShard EXCEPT !.entry = e] \in Shard
                        /\ [EmptyShard EXCEPT !.entry = e].entry = e
<1>1. EmptyView \in View
  BY DEF EmptyView, View, NoGroup, NoCursor
<1>2. [k \in Priorities |-> [all |-> EmptyView, ws |-> EmptyView]] \in [Priorities -> Bucket]
  BY <1>1 DEF Bucket
<1> QED  BY <1>1, <1>2 DEF EmptyShard, Shard

\* What a pick starts from is a shard in order.
LEMMA EnsuredSane ==
    ASSUME IInv, NEW p \in Providers
    PROVE  Sane(Ensured(p)) /\ CurrentFor(Ensured(p), p, snapshot, due)
<1>1. CASE shard[p] # Absent
  BY <1>1, PromotedSane DEF Ensured, IInv, Good
<1>2. CASE shard[p] = Absent
  <2> DEFINE entry == [a \in Auths |->
                 IF Supports(snapshot[a], p) THEN EntryOf(snapshot[a], StateNow(a, due)) ELSE Absent]
             new == [EmptyShard EXCEPT !.entry = entry]
  <2>1. ASSUME NEW a \in Auths, Supports(snapshot[a], p)
        PROVE  EntryOf(snapshot[a], StateNow(a, due)) \in Entry
    <3>1. snapshot[a] \in Snapshot
      BY <2>1 DEF Supports, IInv, TypeOK
    <3>2. StateNow(a, due) \in States
      BY <3>1 DEF StateNow, Snapshot, States
    <3> QED  BY <3>1, <3>2 DEF EntryOf, Entry, Snapshot
  <2>2. entry \in [Auths -> Entry \cup {Absent}]
    BY <2>1
  <2>3. Ensured(p) = Rebuild(new)
    BY <1>2 DEF Ensured
  <2>4. \A a \in Auths : IF Supports(snapshot[a], p)
                         THEN entry[a] = EntryOf(snapshot[a], StateNow(a, due))
                         ELSE entry[a] = Absent
    OBVIOUS
  <2> HIDE DEF entry
  <2>5. new \in Shard /\ new.entry = entry
    BY <2>2, EmptyTyped
  <2> HIDE DEF new
  <2>6. Sane(Ensured(p)) /\ Ensured(p).entry = entry
    BY <2>3, <2>5, RebuildSane
  <2> QED  BY <2>4, <2>6 DEF CurrentFor, StateNow
<1> QED  BY <1>1, <1>2

\* A pick moves cursors of a shard and keeps it sane, its entries as they are.
LEMMA RotatedSane ==
    ASSUME NEW sh, Sane(sh), NEW k \in Priorities, NEW name \in {"all", "ws"},
           NEW ok \in SUBSET Auths, sh.bucket[k][name].flat \cap ok # {}, NEW how
    PROVE  Sane(Rotated(sh, k, name, ok, how)) /\ Rotated(sh, k, name, ok, how).entry = sh.entry
<1> DEFINE e == sh.entry  old == sh.bucket[k][name]  view == Advanced(old, ok)
           bucket == [sh.bucket EXCEPT ![k][name] = view]
           new == [sh EXCEPT !.bucket = bucket]
<1>1. CASE how = "fillFirst"
  BY <1>1 DEF Rotated
<1>2. CASE how # "fillFirst"
  <2>1. Rotated(sh, k, name, ok, how) = new
    BY <1>2 DEF Rotated
  <2>2. /\ sh \in Shard /\ sh.bucket \in [Priorities -> Bucket]
        /\ sh.bucket[k].all \in View /\ sh.bucket[k].ws \in View
        /\ ParentsOf(e) \in ParentMap /\ sh.bucket[k] \in Bucket
    BY ShardTyped DEF Sane
  <2>3. old \in View /\ CursorFits(old) /\ old.group = Groups(old.flat, ParentsOf(e))
    <3>1. CASE name = "all"
      BY <2>2, <3>1 DEF Sane, ViewsAgree, ViewAgrees, CursorsFit
    <3>2. CASE name = "ws"
      BY <2>2, <3>2 DEF Sane, ViewsAgree, ViewAgrees, CursorsFit
    <3> QED  BY <3>1, <3>2
  <2>4. view \in View /\ CursorFits(view) /\ view.flat = old.flat /\ view.group = old.group
    <3> HIDE DEF old
    <3> QED  BY <2>2, <2>3, AdvancedFits DEF old
  <2>5. /\ bucket \in [Priorities -> Bucket]
        /\ \A j \in Priorities : j # k => bucket[j] = sh.bucket[j]
        /\ bucket[k].all = (IF name = "all" THEN view ELSE sh.bucket[k].all)
        /\ bucket[k].ws = (IF name = "ws" THEN view ELSE sh.bucket[k].ws)
    <3> HIDE DEF view
    <3>1. CASE name = "all"
      BY <2>2, <2>4, <3>1 DEF Bucket
    <3>2. CASE name = "ws"
      BY <2>2, <2>4, <3>2 DEF Bucket
    <3> QED  BY <3>1, <3>2
  <2> HIDE DEF bucket, view
  <2>6. new \in Shard /\ new.entry = e /\ new.bucket = bucket
    BY <2>2, <2>5 DEF Shard
  <2> HIDE DEF new
  <2>7. ASSUME NEW j \in Priorities
        PROVE  /\ bucket[j].all.flat = sh.bucket[j].all.flat /\ bucket[j].all.group = sh.bucket[j].all.group
               /\ bucket[j].ws.flat = sh.bucket[j].ws.flat /\ bucket[j].ws.group = sh.bucket[j].ws.group
               /\ CursorFits(bucket[j].all) /\ CursorFits(bucket[j].ws)
    <3>1. CursorFits(sh.bucket[j].all) /\ CursorFits(sh.bucket[j].ws)
      BY DEF Sane, CursorsFit
    <3>2. CASE j # k
      BY <2>5, <3>1, <3>2
    <3>3. CASE j = k /\ name = "all"
      BY <2>4, <2>5, <3>1, <3>3
    <3>4. CASE j = k /\ name = "ws"
      BY <2>4, <2>5, <3>1, <3>4
    <3> QED  BY <3>2, <3>3, <3>4
  <2>8. ViewsAgree(new)
    BY <2>6, <2>7 DEF Sane, ViewsAgree, ViewAgrees
  <2>9. CursorsFit(new)
    BY <2>6, <2>7 DEF CursorsFit
  <2> QED  BY <2>1, <2>6, <2>8, <2>9 DEF Sane
<1> QED  BY <1>1, <1>2

(***************************************************************************)
(* Steps                                                                   *)
(***************************************************************************)

\* What is left to show of a step
LEMMA Assemble ==
    ASSUME strategy' \in {"roundRobin", "fillFirst"},
           snapshot' \in [Auths -> Snapshot \cup {Absent}],
           due' \in SUBSET Auths,
           mixed' \in Nat,
           waited' \in [Auths -> Nat],
           idle' \in [Providers -> Nat],
           shard' = [p \in Providers |-> shard'[p]],
           \A p \in Providers : shard'[p] # Absent =>
               Sane(shard'[p]) /\ CurrentFor(shard'[p], p, snapshot', due')
    PROVE  IInv'
<1>1. shard' \in [Providers -> Shard \cup {Absent}]
  <2>1. \A p \in Providers : shard'[p] \in Shard \cup {Absent}
    BY DEF Sane
  <2> QED  BY <2>1
<1>2. \A p \in Providers : shard'[p] # Absent =>
          \A k \in Priorities : CursorFits(shard'[p].bucket[k].all) /\ CursorFits(shard'[p].bucket[k].ws)
  BY DEF Sane, CursorsFit
<1>3. TypeOK'
  BY <1>1, <1>2 DEF TypeOK
<1>4. Good(shard, snapshot, due)'
  BY DEF Good
<1> QED  BY <1>3, <1>4 DEF IInv

\* The counts of picks without a turn keep their types when the shards change.
LEMMA WaitingTyped ==
    ASSUME IInv, NEW shards
    PROVE  /\ StillWaiting(shards) \in [Auths -> Nat]
           /\ StillIdle(shards) \in [Providers -> Nat]
  BY DEF StillWaiting, StillIdle, IInv, TypeOK

\* An update of a credential, which may take it from one shard to another, keeps the
\* invariant.
LEMMA UpsertInv ==
    ASSUME IInv, NEW a \in Auths, NEW attributes \in Attributes[a], NEW supports \in BOOLEAN,
           NEW status \in States, Upsert(a, attributes, supports, status)
    PROVE  IInv'
<1> DEFINE s == [provider |-> attributes.provider, priority |-> attributes.priority,
                 parent |-> attributes.parent, ws |-> attributes.ws,
                 supports |-> supports, status |-> status]
<1>2. s \in Snapshot /\ EntryOf(s, s.status) \in Entry
  <2>1. attributes \in [provider : Providers, priority : Priorities,
                        parent : Parents \cup {NoParent}, ws : BOOLEAN]
    BY SchedulerAssumption
  <2> QED  BY <2>1 DEF Snapshot, EntryOf, Entry
<1>3. /\ snapshot' = [snapshot EXCEPT ![a] = s] /\ due' = due \ {a}
      /\ shard' = Upserted(a, s) /\ waited' = StillWaiting(Upserted(a, s))
      /\ idle' = StillIdle(Upserted(a, s)) /\ UNCHANGED <<strategy, mixed>>
  BY DEF Upsert, Follow
<1> HIDE DEF s
<1>4. snapshot' \in [Auths -> Snapshot \cup {Absent}] /\ snapshot'[a] = s
      /\ \A b \in Auths : b # a => snapshot'[b] = snapshot[b]
  BY <1>2, <1>3 DEF IInv, TypeOK
<1>5. due' \in SUBSET Auths /\ \A b \in Auths : b # a => (b \in due' <=> b \in due)
  BY <1>3 DEF IInv, TypeOK
<1>6. waited' \in [Auths -> Nat] /\ idle' \in [Providers -> Nat]
  BY <1>3, WaitingTyped
<1>7. shard' = [p \in Providers |-> shard'[p]]
  BY <1>3 DEF Upserted
<1>8. ASSUME NEW p \in Providers, shard'[p] # Absent
      PROVE  Sane(shard'[p]) /\ CurrentFor(shard'[p], p, snapshot', due')
  <2>1. shard[p] # Absent
    BY <1>3, <1>8 DEF Upserted
  <2>2. Sane(shard[p]) /\ CurrentFor(shard[p], p, snapshot, due)
    BY <2>1 DEF IInv, Good
  <2>3. shard[p].entry \in [Auths -> Entry \cup {Absent}]
    BY <2>2, ShardTyped DEF Sane
  <2>4. CASE Supports(s, p)
    <3>1. shard'[p] = UpsertEntry(shard[p], a, EntryOf(s, s.status))
      BY <1>3, <2>1, <2>4 DEF Upserted
    <3>2. Sane(shard'[p]) /\ shard'[p].entry = [shard[p].entry EXCEPT ![a] = EntryOf(s, s.status)]
      BY <1>2, <2>2, <3>1, UpsertEntrySane
    <3>3. shard'[p].entry[a] = EntryOf(s, s.status)
          /\ \A b \in Auths : b # a => shard'[p].entry[b] = shard[p].entry[b]
      BY <2>3, <3>2
    <3>4. ASSUME NEW b \in Auths
          PROVE  IF Supports(snapshot'[b], p)
                 THEN shard'[p].entry[b] \in
                  {EntryOf(snapshot'[b], snapshot'[b].status),
                   EntryOf(snapshot'[b], IF snapshot'[b].status = "blocked" /\ b \in due' THEN "ready"
                                         ELSE snapshot'[b].status)}
                 ELSE shard'[p].entry[b] = Absent
      <4>1. CASE b = a
        BY <1>4, <2>4, <3>3, <4>1
      <4>2. CASE b # a
        BY <1>4, <1>5, <2>2, <3>3, <4>2 DEF CurrentFor
      <4> QED  BY <4>1, <4>2
    <3> QED  BY <3>2, <3>4 DEF CurrentFor
  <2>5. CASE ~Supports(s, p)
    <3>1. shard'[p] = RemoveEntry(shard[p], a)
      BY <1>3, <2>1, <2>5 DEF Upserted
    <3>2. Sane(shard'[p]) /\ shard'[p].entry = [shard[p].entry EXCEPT ![a] = Absent]
      BY <2>2, <3>1, RemoveEntrySane
    <3> QED  BY <1>4, <1>5, <2>2, <2>3, <2>5, <3>2 DEF CurrentFor
  <2> QED  BY <2>4, <2>5
<1> QED  BY <1>3, <1>4, <1>5, <1>6, <1>7, <1>8, Assemble DEF IInv, TypeOK

\* A removal keeps the invariant.
LEMMA RemoveInv ==
    ASSUME IInv, NEW a \in Auths, Remove(a)
    PROVE  IInv'
<1> DEFINE shards == [p \in Providers |-> IF shard[p] = Absent THEN Absent ELSE RemoveEntry(shard[p], a)]
<1>1. /\ snapshot' = [snapshot EXCEPT ![a] = Absent] /\ due' = due \ {a}
      /\ shard' = shards /\ waited' = StillWaiting(shards) /\ idle' = StillIdle(shards)
      /\ UNCHANGED <<strategy, mixed>>
  BY DEF Remove, Follow
<1>2. snapshot' \in [Auths -> Snapshot \cup {Absent}] /\ snapshot'[a] = Absent
      /\ \A b \in Auths : b # a => snapshot'[b] = snapshot[b]
  BY <1>1 DEF IInv, TypeOK
<1>3. due' \in SUBSET Auths /\ \A b \in Auths : b # a => (b \in due' <=> b \in due)
  BY <1>1 DEF IInv, TypeOK
<1>4. waited' \in [Auths -> Nat] /\ idle' \in [Providers -> Nat]
  <2> HIDE DEF shards
  <2> QED  BY <1>1, WaitingTyped
<1>5. shard' = [p \in Providers |-> shard'[p]]
  BY <1>1
<1>6. ASSUME NEW p \in Providers, shard'[p] # Absent
      PROVE  Sane(shard'[p]) /\ CurrentFor(shard'[p], p, snapshot', due')
  <2>1. shard[p] # Absent /\ shard'[p] = RemoveEntry(shard[p], a)
    BY <1>1, <1>6
  <2>2. Sane(shard[p]) /\ CurrentFor(shard[p], p, snapshot, due)
    BY <2>1 DEF IInv, Good
  <2>3. shard[p].entry \in [Auths -> Entry \cup {Absent}]
    BY <2>2, ShardTyped DEF Sane
  <2>4. Sane(shard'[p]) /\ shard'[p].entry = [shard[p].entry EXCEPT ![a] = Absent]
    BY <2>1, <2>2, RemoveEntrySane
  <2> QED  BY <1>2, <1>3, <2>2, <2>3, <2>4 DEF CurrentFor, Supports
<1> HIDE DEF shards
<1> QED  BY <1>1, <1>2, <1>3, <1>4, <1>5, <1>6, Assemble DEF IInv, TypeOK

\* Rebuilding the scheduler from the snapshot keeps the invariant.
LEMMA RebuildAllInv ==
    ASSUME IInv, RebuildAll
    PROVE  IInv'
<1> DEFINE shards == [p \in Providers |-> Absent]
<1>1. /\ shard' = shards /\ waited' = StillWaiting(shards) /\ idle' = StillIdle(shards)
      /\ mixed' = 0 /\ UNCHANGED <<strategy, snapshot, due>>
  BY DEF RebuildAll, Follow
<1>2. waited' \in [Auths -> Nat] /\ idle' \in [Providers -> Nat]
  <2> HIDE DEF shards
  <2> QED  BY <1>1, WaitingTyped
<1>3. shard' = [p \in Providers |-> shard'[p]] /\ \A p \in Providers : shard'[p] = Absent
  BY <1>1
<1> HIDE DEF shards
<1> QED  BY <1>1, <1>2, <1>3, Assemble DEF IInv, TypeOK

\* A change of the strategy keeps the invariant.
LEMMA SetSelectorInv ==
    ASSUME IInv, NEW new \in {"roundRobin", "fillFirst"}, SetSelector(new)
    PROVE  IInv'
<1>1. /\ strategy' = new /\ mixed' = 0 /\ idle' = [p \in Providers |-> 0]
      /\ snapshot' = snapshot /\ due' = due /\ shard' = shard /\ waited' = waited
  BY DEF SetSelector
<1>2. shard' = [p \in Providers |-> shard'[p]]
  BY <1>1 DEF IInv, TypeOK
<1>3. \A p \in Providers : shard'[p] # Absent =>
          Sane(shard'[p]) /\ CurrentFor(shard'[p], p, snapshot', due')
  BY <1>1 DEF IInv, Good
<1>4. idle' \in [Providers -> Nat]
  BY <1>1
<1> QED  BY <1>1, <1>2, <1>3, <1>4, Assemble DEF IInv, TypeOK

\* An entry that was promoted stays one of those that the snapshot allows.
LEMMA DeadlinePassesInv ==
    ASSUME IInv, NEW a \in Auths, DeadlinePasses(a)
    PROVE  IInv'
<1>1. /\ due' = due \cup {a} /\ a \notin due
      /\ UNCHANGED <<strategy, snapshot, shard, mixed, waited, idle>>
  BY DEF DeadlinePasses
<1>2. shard' = [p \in Providers |-> shard'[p]]
  BY <1>1 DEF IInv, TypeOK
<1>3. \A p \in Providers : shard'[p] # Absent =>
          Sane(shard'[p]) /\ CurrentFor(shard'[p], p, snapshot', due')
  BY <1>1 DEF IInv, Good, CurrentFor
<1> QED  BY <1>1, <1>2, <1>3, Assemble DEF IInv, TypeOK

\* A pick of a rotation counts for the members of its view only.
LEMMA AfterTyped ==
    ASSUME NEW still \in [Auths -> Nat], NEW view, NEW a, NEW ok
    PROVE  WaitedAfter(still, view, a, ok) \in [Auths -> Nat]
  BY DEF WaitedAfter

\* What a pick of one provider comes to: one view moves on, or none.
SingleStep(ensured, ok, p, k, name) ==
    /\ ensured[p].bucket[k][name].flat \cap ok # {}
    /\ shard' = [ensured EXCEPT ![p] = Rotated(ensured[p], k, name, ok, strategy)]
    /\ waited' = IF name = "all" /\ strategy = "roundRobin"
                 THEN WaitedAfter(StillWaiting(ensured), ensured[p].bucket[k].all,
                                  Choice(ensured[p].bucket[k].all, ok, strategy), ok)
                 ELSE StillWaiting(ensured)

SingleResult(ensured, p, ok) ==
    /\ Good(ensured, snapshot, due)
    /\ ensured[p] = Ensured(p) /\ ensured \in [Providers -> Shard \cup {Absent}]
    /\ UNCHANGED <<strategy, snapshot, due, mixed>>
    /\ idle' = StillIdle(ensured)
    /\ \/ shard' = ensured /\ waited' = StillWaiting(ensured)
       \/ \E k \in Priorities, name \in {"all", "ws"} : SingleStep(ensured, ok, p, k, name)

\* A pick of one provider makes sure of the shard, then moves one of its views or none.
LEMMA SinglePick ==
    ASSUME IInv, NEW p \in Providers, NEW ok \in SUBSET Auths, NEW preferWs \in BOOLEAN,
           PickSingle(p, ok, preferWs)
    PROVE  SingleResult([shard EXCEPT ![p] = Ensured(p)], p, ok)
<1> DEFINE sh == Ensured(p)
           k == HighestReady(sh, ok, preferWs)
           name == ViewFor(sh, k, ok, preferWs)
           ensured == [shard EXCEPT ![p] = sh]
           new == Rotated(sh, k, name, ok, strategy)
<1>0. PickIn(sh, p, ok, preferWs)
  BY DEF PickSingle
<1>1. Sane(sh) /\ CurrentFor(sh, p, snapshot, due)
  BY EnsuredSane
<1>2. UNCHANGED <<strategy, snapshot, due, mixed>>
  BY <1>0 DEF PickIn
<1>3. shard \in [Providers -> Shard \cup {Absent}]
  BY DEF IInv, TypeOK
<1>4. ensured[p] = sh /\ \A q \in Providers : q # p => ensured[q] = shard[q]
  BY <1>3
<1>5. ensured \in [Providers -> Shard \cup {Absent}]
  <2> HIDE DEF sh
  <2> QED  BY <1>1, <1>3 DEF Sane
<1>6. Good(ensured, snapshot, due)
  <2> HIDE DEF ensured, sh
  <2> QED  BY <1>1, <1>4 DEF IInv, Good
<1>7. CASE Best(sh, ok) = {}
  <2>1. shard' = ensured /\ waited' = StillWaiting(ensured) /\ idle' = StillIdle(ensured)
    BY <1>0, <1>7 DEF PickIn, Follow
  <2>2. ensured[p] = Ensured(p)
    BY <1>4
  <2> HIDE DEF ensured, sh
  <2>3. SingleResult(ensured, p, ok)
    BY <1>2, <1>5, <1>6, <2>1, <2>2 DEF SingleResult
  <2> QED  BY <2>3 DEF ensured, sh
<1>8. CASE Best(sh, ok) # {}
  <2>1. /\ shard' = [shard EXCEPT ![p] = new]
        /\ waited' = IF name = "all" /\ strategy = "roundRobin"
                     THEN WaitedAfter(StillWaiting(ensured), sh.bucket[k].all,
                                      Choice(sh.bucket[k][name], ok, strategy), ok)
                     ELSE StillWaiting(ensured)
        /\ idle' = StillIdle(ensured)
    BY <1>0, <1>8 DEF PickIn
  <2>2. k \in Priorities /\ (k \in Best(sh, ok) \/ (preferWs /\ k \in BestWebsocket(sh, ok)))
    <3> HIDE DEF sh
    <3>1. Best(sh, ok) \in SUBSET Priorities /\ BestWebsocket(sh, ok) \in SUBSET Priorities
      BY DEF Best, BestWebsocket
    <3>2. CASE preferWs /\ BestWebsocket(sh, ok) # {}
      <4>1. Highest(BestWebsocket(sh, ok)) \in BestWebsocket(sh, ok)
        BY <3>1, <3>2, AllFinite, HighestFinds
      <4> QED  BY <3>1, <3>2, <4>1 DEF HighestReady
    <3>3. CASE ~(preferWs /\ BestWebsocket(sh, ok) # {})
      <4>1. Highest(Best(sh, ok)) \in Best(sh, ok)
        BY <1>8, <3>1, AllFinite, HighestFinds
      <4> QED  BY <3>1, <3>3, <4>1 DEF HighestReady
    <3> QED  BY <3>2, <3>3
  <2> HIDE DEF sh, k
  <2>3. name \in {"all", "ws"} /\ sh.bucket[k][name].flat \cap ok # {}
    BY <2>2 DEF ViewFor, Best, BestWebsocket, Eligible
  <2> HIDE DEF name
  <2>4. shard' = [ensured EXCEPT ![p] = Rotated(sh, k, name, ok, strategy)]
    BY <1>3, <2>1
  <2>5. waited' = IF name = "all" /\ strategy = "roundRobin"
                  THEN WaitedAfter(StillWaiting(ensured), sh.bucket[k].all,
                                   Choice(sh.bucket[k].all, ok, strategy), ok)
                  ELSE StillWaiting(ensured)
    <3> HIDE DEF ensured
    <3> QED  BY <2>1
  <2> HIDE DEF ensured
  <2>6. SingleStep(ensured, ok, p, k, name)
    BY <1>4, <2>3, <2>4, <2>5 DEF SingleStep
  <2>7. \E j \in Priorities, n \in {"all", "ws"} : SingleStep(ensured, ok, p, j, n)
    BY <2>2, <2>3, <2>6
  <2>8. ensured[p] = Ensured(p)
    BY <1>4 DEF sh
  <2>9. SingleResult(ensured, p, ok)
    BY <1>2, <1>5, <1>6, <2>1, <2>7, <2>8 DEF SingleResult
  <2> QED  BY <2>9 DEF ensured, sh
<1> QED  BY <1>7, <1>8

\* A pick of one provider keeps the invariant.
LEMMA PickSingleInv ==
    ASSUME IInv, NEW p \in Providers, NEW ok \in SUBSET Auths, NEW preferWs \in BOOLEAN,
           PickSingle(p, ok, preferWs)
    PROVE  IInv'
<1> DEFINE ensured == [shard EXCEPT ![p] = Ensured(p)]
<1>1. /\ Good(ensured, snapshot, due)
      /\ ensured[p] = Ensured(p) /\ ensured \in [Providers -> Shard \cup {Absent}]
      /\ UNCHANGED <<strategy, snapshot, due, mixed>>
      /\ idle' = StillIdle(ensured)
      /\ \/ shard' = ensured /\ waited' = StillWaiting(ensured)
         \/ \E k \in Priorities, name \in {"all", "ws"} : SingleStep(ensured, ok, p, k, name)
  <2>1. SingleResult(ensured, p, ok)
    BY SinglePick
  <2> HIDE DEF ensured
  <2> QED  BY <2>1 DEF SingleResult
<1>2. Sane(ensured[p]) /\ CurrentFor(ensured[p], p, snapshot, due)
  BY <1>1, EnsuredSane
<1> HIDE DEF ensured
<1>3. StillWaiting(ensured) \in [Auths -> Nat] /\ StillIdle(ensured) \in [Providers -> Nat]
  BY WaitingTyped
<1>4. waited' \in [Auths -> Nat] /\ idle' \in [Providers -> Nat]
  BY <1>1, <1>3, AfterTyped DEF SingleStep
<1>5. CASE shard' = ensured
  <2>1. shard' = [q \in Providers |-> shard'[q]]
    BY <1>1, <1>5
  <2>2. \A q \in Providers : shard'[q] # Absent =>
            Sane(shard'[q]) /\ CurrentFor(shard'[q], q, snapshot', due')
    BY <1>1, <1>5 DEF Good
  <2> QED  BY <1>1, <1>4, <2>1, <2>2, Assemble DEF IInv, TypeOK
<1>6. ASSUME NEW k \in Priorities, NEW name \in {"all", "ws"}, SingleStep(ensured, ok, p, k, name)
      PROVE  IInv'
  <2> DEFINE new == Rotated(ensured[p], k, name, ok, strategy)
  <2>0. ensured[p].bucket[k][name].flat \cap ok # {} /\ shard' = [ensured EXCEPT ![p] = new]
    BY <1>6 DEF SingleStep
  <2>1. Sane(new) /\ new.entry = ensured[p].entry
    BY <1>2, <2>0, RotatedSane
  <2>2. CurrentFor(new, p, snapshot, due)
    BY <1>2, <2>1 DEF CurrentFor
  <2> HIDE DEF new
  <2>3. shard' = [q \in Providers |-> shard'[q]] /\ shard'[p] = new
        /\ \A q \in Providers : q # p => shard'[q] = ensured[q]
    BY <1>1, <2>0
  <2>4. \A q \in Providers : shard'[q] # Absent =>
            Sane(shard'[q]) /\ CurrentFor(shard'[q], q, snapshot', due')
    BY <1>1, <2>1, <2>2, <2>3 DEF Good
  <2> QED  BY <1>1, <1>4, <2>3, <2>4, Assemble DEF IInv, TypeOK
<1> QED  BY <1>1, <1>5, <1>6

\* There are finitely many slots, and some when somebody may be picked.
LEMMA SlotsCount ==
    ASSUME NEW weights \in [Providers -> 0 .. Cardinality(Auths)]
    PROVE  /\ IsFiniteSet(Slots(weights))
           /\ (\E p \in Providers : weights[p] > 0) => Slots(weights) # {}
<1> DEFINE N == Cardinality(Auths)
<1>1. IsFiniteSet(Auths) /\ IsFiniteSet(Providers)
  BY ViewAssumption, SchedulerAssumption
<1>2. N \in Nat
  BY <1>1, FS_CardinalityType
<1> HIDE DEF N
<1>3. IsFiniteSet(1 .. N)
  BY <1>2, FS_Interval
<1>4. IsFiniteSet(Providers \X (1 .. N))
  BY <1>1, <1>3, FS_Product
<1>5. \A p \in Providers : weights[p] \in 0 .. N
  BY DEF N
<1>6. Slots(weights) \in SUBSET (Providers \X (1 .. N))
  BY <1>2, <1>5 DEF Slots
<1>7. IsFiniteSet(Slots(weights))
  <2> DEFINE slots == Slots(weights)  all == Providers \X (1 .. N)
  <2>1. slots \in SUBSET all /\ IsFiniteSet(all)
    BY <1>4, <1>6
  <2> HIDE DEF slots, all
  <2>2. IsFiniteSet(slots)
    BY <2>1, FS_Subset
  <2> QED  BY <2>2 DEF slots
<1>8. ASSUME NEW p \in Providers, weights[p] > 0
      PROVE  <<p, 1>> \in Slots(weights)
  <2>1. 1 \in 1 .. weights[p]
    BY <1>2, <1>5, <1>8
  <2> QED  BY <2>1 DEF Slots
<1> QED  BY <1>7, <1>8

\* Parts of finite sets have a natural number of members.
LEMMA CountIsNat ==
    ASSUME NEW S, IsFiniteSet(S), NEW T \in SUBSET S
    PROVE  Cardinality(T) \in Nat
  BY FS_Subset, FS_CardinalityType

\* The slot after a mixed pick is a natural number.
LEMMA NextSlotTyped ==
    ASSUME mixed \in Nat, NEW weights \in [Providers -> 0 .. Cardinality(Auths)],
           \E p \in Providers : weights[p] > 0, NEW p
    PROVE  NextSlot(weights, p) \in Nat
<1>1. IsFiniteSet(Slots(weights)) /\ Slots(weights) # {}
  BY SlotsCount
<1>2. Cardinality(Slots(weights)) \in Nat \ {0}
  <2> DEFINE slots == Slots(weights)
  <2> HIDE DEF slots
  <2>1. IsFiniteSet(slots) /\ slots # {}
    BY <1>1 DEF slots
  <2>2. Cardinality(slots) \in Nat /\ Cardinality(slots) > 0
    BY <2>1, SizeIsNat
  <2> QED  BY <2>2 DEF slots
<1>3. StartSlot(weights) \in Nat
  BY <1>2, Remainder DEF StartSlot
<1>4. SegmentStart(weights, p) \in Nat
  <2>1. {s \in Slots(weights) : s[1] < p} \in SUBSET Slots(weights)
    OBVIOUS
  <2> QED  BY <1>1, <2>1, CountIsNat DEF SegmentStart
<1> QED  BY <1>3, <1>4 DEF NextSlot

\* What a pick across the providers comes to: the cursors of one provider move on, and
\* in a rotation the cursor over the providers does.
MixedStep(ensured, ok, p, k) ==
    LET weights == Weights(ensured, k)
        able == {q \in Providers : Eligible(ensured[q], k, ok) # {}}
    IN  /\ p \in able
        /\ ok = Auths => Occupied(ensured) # {} /\ k = Highest(Occupied(ensured))
        /\ shard' = [ensured EXCEPT ![p] = Rotated(ensured[p], k, "all", ok, strategy)]
        /\ strategy = "fillFirst" => /\ waited' = StillWaiting(ensured)
                                     /\ idle' = StillIdle(ensured)
                                     /\ mixed' = mixed
        /\ strategy # "fillFirst" =>
               /\ p = NextFrom(Providers, Index(Providers, StartProvider(weights)), able)
               /\ waited' = WaitedAfter(StillWaiting(ensured), ensured[p].bucket[k].all,
                                        Choice(ensured[p].bucket[k].all, ok, strategy), ok)
               /\ idle' = IdleAfter(ensured, weights, p, ok)
               /\ mixed' = NextSlot(weights, p)

\* A mixed pick makes sure of every shard, then moves one view and the mixed cursor, or
\* nothing.
LEMMA MixedPick ==
    ASSUME IInv, NEW ok \in SUBSET Auths, PickMixed(ok)
    PROVE  LET ensured == [q \in Providers |-> Ensured(q)]
           IN  /\ Good(ensured, snapshot, due) /\ \A q \in Providers : ensured[q] # Absent
               /\ UNCHANGED <<strategy, snapshot, due>>
               /\ \/ /\ shard' = ensured /\ waited' = StillWaiting(ensured)
                     /\ idle' = StillIdle(ensured) /\ mixed' = mixed
                  \/ \E p \in Providers, k \in Priorities : MixedStep(ensured, ok, p, k)
<1> DEFINE ensured == [q \in Providers |-> Ensured(q)]
           tops == UNION {Best(ensured[q], ok) : q \in Providers}
           k == Highest(tops)
           able == {q \in Providers : Eligible(ensured[q], k, ok) # {}}
           weights == Weights(ensured, k)
           p == IF strategy = "fillFirst" THEN First(able)
                ELSE NextFrom(Providers, Index(Providers, StartProvider(weights)), able)
           new == Rotated(ensured[p], k, "all", ok, strategy)
           a == Choice(ensured[p].bucket[k].all, ok, strategy)
<1>0. PickAcross(ensured, ok)
  BY DEF PickMixed
<1>1. \A q \in Providers : Sane(ensured[q]) /\ CurrentFor(ensured[q], q, snapshot, due)
  BY EnsuredSane
<1>2. UNCHANGED <<strategy, snapshot, due>>
  BY <1>0 DEF PickAcross
<1>3. \A q \in Providers : ensured[q] # Absent
  <2> HIDE DEF ensured
  <2> QED  BY <1>1, AbsentAssumption DEF Sane
<1>4. Good(ensured, snapshot, due)
  <2> HIDE DEF ensured
  <2> QED  BY <1>1 DEF Good
<1>5. CASE \A q \in Providers : Best(ensured[q], ok) = {}
  <2>1. /\ shard' = ensured /\ waited' = StillWaiting(ensured) /\ idle' = StillIdle(ensured)
        /\ mixed' = mixed
    BY <1>0, <1>5 DEF PickAcross, Follow
  <2> QED  BY <1>2, <1>3, <1>4, <2>1
<1>6. CASE ~ \A q \in Providers : Best(ensured[q], ok) = {}
  <2>1. /\ shard' = [ensured EXCEPT ![p] = new]
        /\ IF strategy = "fillFirst"
           THEN /\ waited' = StillWaiting(ensured)
                /\ idle' = StillIdle(ensured)
                /\ mixed' = mixed
           ELSE /\ waited' = WaitedAfter(StillWaiting(ensured), ensured[p].bucket[k].all, a, ok)
                /\ idle' = IdleAfter(ensured, weights, p, ok)
                /\ mixed' = NextSlot(weights, p)
    BY <1>0, <1>6 DEF PickAcross
  <2> HIDE DEF a, new, ensured
  <2>2. k \in tops /\ tops \in SUBSET Priorities /\ tops # {}
    <3>1. tops \in SUBSET Priorities /\ tops # {}
      BY <1>6 DEF Best
    <3> HIDE DEF tops
    <3>2. Highest(tops) \in tops
      BY <3>1, AllFinite, HighestFinds
    <3> QED  BY <3>1, <3>2
  <2>3. ok = Auths => tops = Occupied(ensured)
    <3> SUFFICES ASSUME ok = Auths PROVE tops = Occupied(ensured)
      OBVIOUS
    <3>1. \A q \in Providers, j \in Priorities : ensured[q].bucket[j].all.flat \in SUBSET Auths
      BY <1>1, ShardTyped DEF Sane, View
    <3>2. \A q \in Providers, j \in Priorities :
              Eligible(ensured[q], j, ok) = ensured[q].bucket[j].all.flat
      BY <3>1 DEF Eligible
    <3>3. \A j : j \in tops <=> j \in Priorities /\ \E q \in Providers : Eligible(ensured[q], j, ok) # {}
      BY DEF Best
    <3>4. \A j : j \in tops <=> j \in Occupied(ensured)
      BY <1>3, <3>2, <3>3 DEF Occupied
    <3>5. tops \in SUBSET Priorities /\ Occupied(ensured) \in SUBSET Priorities
      BY <2>2 DEF Occupied
    <3> HIDE DEF tops
    <3> QED  BY <3>4, <3>5
  <2>4. able \in SUBSET Providers /\ able # {}
    BY <2>2 DEF Best
  <2>5. ok = Auths => Occupied(ensured) # {} /\ k = Highest(Occupied(ensured))
    BY <2>2, <2>3
  <2> HIDE DEF k, tops
  <2>6. p \in able
    <3> HIDE DEF able, weights
    <3>1. Providers \in SUBSET Nat /\ IsFiniteSet(Providers)
      BY SchedulerAssumption
    <3>2. First(able) \in able
      <4>1. able \in SUBSET Nat /\ able # {}
        BY <2>4, <3>1
      <4>2. \E x \in able : \A y \in able : x <= y
        BY <4>1, MinOfNaturals
      <4> QED  BY <4>2 DEF First
    <3>3. Index(Providers, StartProvider(weights)) \in Nat
      <4>1. {y \in Providers : y < StartProvider(weights)} \in SUBSET Providers
        OBVIOUS
      <4> QED  BY <3>1, <4>1, CountIsNat DEF Index
    <3>4. NextFrom(Providers, Index(Providers, StartProvider(weights)), able) \in able
      BY <2>4, <3>1, <3>3, NextFromFinds
    <3> QED  BY <3>2, <3>4
  <2>7. strategy # "fillFirst" =>
            p = NextFrom(Providers, Index(Providers, StartProvider(weights)), able)
    <3> HIDE DEF able, weights
    <3> QED  OBVIOUS
  <2> HIDE DEF p
  <2>8. MixedStep(ensured, ok, p, k)
    BY <2>1, <2>5, <2>6, <2>7 DEF MixedStep, new, a
  <2>9. p \in Providers /\ k \in Priorities
    BY <2>2, <2>6
  <2> HIDE DEF able, weights
  <2>10. \E q \in Providers, j \in Priorities : MixedStep(ensured, ok, q, j)
    BY <2>8, <2>9
  <2> QED  BY <1>2, <1>3, <1>4, <2>10 DEF ensured
<1> QED  BY <1>5, <1>6

\* The slots of shards in order
LEMMA WeightsTyped ==
    ASSUME NEW shards, NEW snap, NEW passed, Good(shards, snap, passed), NEW k \in Priorities
    PROVE  /\ Weights(shards, k) \in [Providers -> 0 .. Cardinality(Auths)]
           /\ \A p \in Providers : shards[p] # Absent /\ shards[p].bucket[k].all.flat # {} =>
                                       Weights(shards, k)[p] > 0
<1>1. IsFiniteSet(Auths) /\ Cardinality(Auths) \in Nat
  BY AllFinite, SizeIsNat
<1>2. ASSUME NEW p \in Providers, shards[p] # Absent
      PROVE  /\ Cardinality(shards[p].bucket[k].all.flat) \in 0 .. Cardinality(Auths)
             /\ shards[p].bucket[k].all.flat # {} => Cardinality(shards[p].bucket[k].all.flat) > 0
  <2> DEFINE flat == shards[p].bucket[k].all.flat
  <2>1. flat \in SUBSET Auths
    BY <1>2, ShardTyped DEF Good, Sane, View
  <2> HIDE DEF flat
  <2>2. IsFiniteSet(flat) /\ Cardinality(flat) <= Cardinality(Auths)
    BY <1>1, <2>1, FS_Subset
  <2>3. Cardinality(flat) \in Nat /\ (flat # {} => Cardinality(flat) > 0)
    BY <2>2, SizeIsNat
  <2> QED  BY <1>1, <2>2, <2>3 DEF flat
<1> QED  BY <1>1, <1>2 DEF Weights

\* A mixed pick keeps the invariant.
LEMMA PickMixedInv ==
    ASSUME IInv, NEW ok \in SUBSET Auths, PickMixed(ok)
    PROVE  IInv'
<1> DEFINE ensured == [q \in Providers |-> Ensured(q)]
<1>1. /\ Good(ensured, snapshot, due) /\ \A q \in Providers : ensured[q] # Absent
      /\ UNCHANGED <<strategy, snapshot, due>>
      /\ \/ /\ shard' = ensured /\ waited' = StillWaiting(ensured)
            /\ idle' = StillIdle(ensured) /\ mixed' = mixed
         \/ \E p \in Providers, k \in Priorities : MixedStep(ensured, ok, p, k)
  BY MixedPick
<1>2. ensured = [q \in Providers |-> ensured[q]]
  OBVIOUS
<1>3. mixed \in Nat
  BY DEF IInv, TypeOK
<1> HIDE DEF ensured
<1>4. StillWaiting(ensured) \in [Auths -> Nat] /\ StillIdle(ensured) \in [Providers -> Nat]
  BY WaitingTyped
<1>5. CASE /\ shard' = ensured /\ waited' = StillWaiting(ensured)
           /\ idle' = StillIdle(ensured) /\ mixed' = mixed
  <2>1. \A q \in Providers : shard'[q] # Absent =>
            Sane(shard'[q]) /\ CurrentFor(shard'[q], q, snapshot', due')
    BY <1>1, <1>5 DEF Good
  <2> QED  BY <1>1, <1>2, <1>3, <1>4, <1>5, <2>1, Assemble DEF IInv, TypeOK
<1>6. ASSUME NEW p \in Providers, NEW k \in Priorities, MixedStep(ensured, ok, p, k)
      PROVE  IInv'
  <2> DEFINE new == Rotated(ensured[p], k, "all", ok, strategy)
             weights == Weights(ensured, k)
  <2>1. /\ ensured[p].bucket[k].all.flat \cap ok # {}
        /\ shard' = [ensured EXCEPT ![p] = new]
        /\ strategy = "fillFirst" =>
               waited' = StillWaiting(ensured) /\ idle' = StillIdle(ensured) /\ mixed' = mixed
        /\ strategy # "fillFirst" =>
               /\ waited' = WaitedAfter(StillWaiting(ensured), ensured[p].bucket[k].all,
                                        Choice(ensured[p].bucket[k].all, ok, strategy), ok)
               /\ idle' = IdleAfter(ensured, weights, p, ok)
               /\ mixed' = NextSlot(weights, p)
    BY <1>6 DEF MixedStep, Eligible
  <2>2. Sane(ensured[p]) /\ CurrentFor(ensured[p], p, snapshot, due)
    BY <1>1 DEF Good
  <2>3. weights \in [Providers -> 0 .. Cardinality(Auths)] /\ weights[p] > 0
    BY <1>1, <2>1, WeightsTyped
  <2>4. Sane(new) /\ CurrentFor(new, p, snapshot, due)
    <3>1. ensured[p].bucket[k]["all"].flat \cap ok # {}
      BY <2>1
    <3>2. Sane(new) /\ new.entry = ensured[p].entry
      BY <2>2, <3>1, RotatedSane
    <3> QED  BY <2>2, <3>2 DEF CurrentFor
  <2> HIDE DEF new, weights
  <2>5. shard' = [q \in Providers |-> shard'[q]] /\ shard'[p] = new
        /\ \A q \in Providers : q # p => shard'[q] = ensured[q]
    BY <1>2, <2>1
  <2>6. waited' \in [Auths -> Nat]
    BY <1>4, <2>1, AfterTyped
  <2>7. idle' \in [Providers -> Nat]
    BY <1>4, <2>1 DEF IdleAfter
  <2>8. mixed' \in Nat
    <3>1. NextSlot(weights, p) \in Nat
      BY <1>3, <2>3, NextSlotTyped
    <3> QED  BY <1>3, <2>1, <3>1
  <2>9. \A q \in Providers : shard'[q] # Absent =>
            Sane(shard'[q]) /\ CurrentFor(shard'[q], q, snapshot', due')
    BY <1>1, <2>4, <2>5 DEF Good
  <2> QED  BY <1>1, <2>5, <2>6, <2>7, <2>8, <2>9, Assemble DEF IInv, TypeOK
<1> QED  BY <1>1, <1>5, <1>6

(***************************************************************************)
(* How long the credentials of all shards have waited                      *)
(***************************************************************************)

\* Nobody has waited so long that his turn comes after the end of a round.
Below(shards, waits) ==
    \A p \in Providers, k \in Priorities : shards[p] # Absent =>
        \A a \in shards[p].bucket[k].all.flat :
            waits[a] + Turn(shards[p].bucket[k].all, a) < Round(shards[p].bucket[k].all, a)

\* A view that keeps its members from one shard to the next keeps their turns.
Steady(old, new) ==
    \A k \in Priorities :
        Members(new.bucket[k].all) = Members(old.bucket[k].all) =>
            \A a \in new.bucket[k].all.flat : Turn(new.bucket[k].all, a) = Turn(old.bucket[k].all, a)

\* The views of a sane shard fit.
LEMMA SaneFit ==
    ASSUME NEW sh, Sane(sh), NEW k \in Priorities
    PROVE  Fit(sh.bucket[k].all)
<1>1. sh.bucket[k].all \in View /\ ParentsOf(sh.entry) \in ParentMap
  BY ShardTyped DEF Sane
<1>2. CursorFits(sh.bucket[k].all)
  BY DEF Sane, CursorsFit
<1>3. sh.bucket[k].all.group = Groups(sh.bucket[k].all.flat, ParentsOf(sh.entry))
  BY DEF Sane, ViewsAgree, ViewAgrees
<1> QED  BY <1>1, <1>2, <1>3 DEF Fit

\* Rebuilding a shard takes nobody's place in a view whose members stay.
LEMMA RebuildSteady ==
    ASSUME NEW sh, Sane(sh), NEW changed \in Shard, changed.bucket = sh.bucket
    PROVE  Steady(sh, Rebuild(changed))
<1> DEFINE e == changed.entry
<1>1. ASSUME NEW k \in Priorities
      PROVE  Rebuild(changed).bucket[k].all = Rebuilt(sh.bucket[k].all, ReadyAt(e, k), ParentsOf(e))
  <2> DEFINE bucket == [j \in Priorities |->
                 [all |-> Rebuilt(changed.bucket[j].all, ReadyAt(e, j), ParentsOf(e)),
                  ws |-> Rebuilt(changed.bucket[j].ws, ReadyWebsockets(e, j), ParentsOf(e))]]
  <2>1. Rebuild(changed) = [changed EXCEPT !.bucket = bucket]
    BY DEF Rebuild
  <2>2. bucket[k].all = Rebuilt(changed.bucket[k].all, ReadyAt(e, k), ParentsOf(e))
    OBVIOUS
  <2> HIDE DEF bucket
  <2>3. Rebuild(changed).bucket = bucket
    BY <2>1 DEF Shard
  <2> QED  BY <2>2, <2>3
<1>2. ASSUME NEW k \in Priorities,
             Members(Rebuild(changed).bucket[k].all) = Members(sh.bucket[k].all),
             NEW a \in Rebuild(changed).bucket[k].all.flat
      PROVE  Turn(Rebuild(changed).bucket[k].all, a) = Turn(sh.bucket[k].all, a)
  <2> DEFINE flat == ReadyAt(e, k)  parent == ParentsOf(e)  old == sh.bucket[k].all
  <2>1. flat \in SUBSET Auths /\ parent \in ParentMap /\ Fit(old)
    BY ShardTyped, SaneFit
  <2>2. a \in flat
    <3>1. Rebuilt(old, flat, parent).flat = flat
      BY DEF Rebuilt
    <3>2. Rebuild(changed).bucket[k].all = Rebuilt(old, flat, parent)
      BY <1>1
    <3> HIDE DEF old, flat, parent
    <3> QED  BY <1>2, <3>1, <3>2
  <2>3. Rebuild(changed).bucket[k].all = Rebuilt(old, flat, parent)
    BY <1>1
  <2> HIDE DEF flat, parent, old
  <2>4. Members(Rebuilt(old, flat, parent)) = Members(old)
    BY <1>2, <2>3 DEF old
  <2>5. Turn(Rebuilt(old, flat, parent), a) = Turn(old, a)
    BY <2>1, <2>2, <2>4, RebuiltTurn
  <2> QED  BY <2>3, <2>5 DEF old
<1> QED  BY <1>2 DEF Steady

\* A shard left alone keeps every turn.
LEMMA SteadySelf == \A sh : Steady(sh, sh)
  BY DEF Steady

\* Nor does an added or replaced entry take a place in such a view.
LEMMA UpsertEntrySteady ==
    ASSUME NEW sh, Sane(sh), NEW a \in Auths, NEW e \in Entry
    PROVE  Steady(sh, UpsertEntry(sh, a, e))
<1> DEFINE changed == [sh EXCEPT !.entry[a] = e]
<1>1. sh \in Shard /\ sh.entry \in [Auths -> Entry \cup {Absent}]
  BY ShardTyped DEF Sane
<1>2. changed \in Shard /\ changed.bucket = sh.bucket
  BY <1>1 DEF Shard
<1>3. UpsertEntry(sh, a, e) \in {sh, Rebuild(changed)}
  BY DEF UpsertEntry
<1> HIDE DEF changed
<1> QED  BY <1>2, <1>3, RebuildSteady, SteadySelf

\* Nor does a removed one.
LEMMA RemoveEntrySteady ==
    ASSUME NEW sh, Sane(sh), NEW a \in Auths
    PROVE  Steady(sh, RemoveEntry(sh, a))
<1> DEFINE changed == [sh EXCEPT !.entry[a] = Absent]
<1>1. sh \in Shard /\ sh.entry \in [Auths -> Entry \cup {Absent}]
  BY ShardTyped DEF Sane
<1>2. changed \in Shard /\ changed.bucket = sh.bucket
  BY <1>1 DEF Shard
<1>3. RemoveEntry(sh, a) \in {sh, Rebuild(changed)}
  BY DEF RemoveEntry
<1> HIDE DEF changed
<1> QED  BY <1>2, <1>3, RebuildSteady, SteadySelf

\* Nor does making sure of a shard before a pick, promotion included.
LEMMA EnsuredSteady ==
    ASSUME IInv, NEW p \in Providers, shard[p] # Absent
    PROVE  Steady(shard[p], Ensured(p))
<1> DEFINE sh == shard[p]
           entry == [a \in Auths |-> IF a \in Promotable(sh)
                                     THEN [sh.entry[a] EXCEPT !.state = StateNow(a, due)]
                                     ELSE sh.entry[a]]
           changed == [sh EXCEPT !.entry = entry]
<1>1. Sane(sh) /\ CurrentFor(sh, p, snapshot, due)
  BY DEF IInv, Good
<1>2. Ensured(p) = Promoted(sh)
  BY DEF Ensured
<1>3. Promoted(sh) = IF Promotable(sh) = {} THEN sh ELSE Rebuild(changed)
  BY DEF Promoted
<1>4. entry \in [Auths -> Entry \cup {Absent}]
  <2>1. sh.entry \in [Auths -> Entry \cup {Absent}]
    BY <1>1, ShardTyped DEF Sane
  <2>2. ASSUME NEW a \in Promotable(sh)
        PROVE  a \in Auths /\ sh.entry[a] \in Entry /\ StateNow(a, due) \in States
    <3>1. a \in Auths /\ a \in due /\ sh.entry[a] # Absent
      BY DEF Promotable, IInv, TypeOK
    <3>2. Supports(snapshot[a], p)
      BY <1>1, <3>1 DEF CurrentFor
    <3>3. snapshot[a] \in Snapshot
      BY <3>1, <3>2 DEF Supports, IInv, TypeOK
    <3> QED  BY <2>1, <3>1, <3>3 DEF StateNow, Snapshot, States
  <2>3. \A a \in Promotable(sh) : [sh.entry[a] EXCEPT !.state = StateNow(a, due)] \in Entry
    BY <2>2 DEF Entry
  <2> QED  BY <2>1, <2>3
<1> HIDE DEF entry
<1>5. changed \in Shard /\ changed.bucket = sh.bucket
  BY <1>1, <1>4 DEF Sane, Shard
<1> HIDE DEF changed, sh
<1>6. Steady(sh, Promoted(sh))
  BY <1>1, <1>3, <1>5, RebuildSteady, SteadySelf
<1> QED  BY <1>2, <1>6 DEF sh

\* A credential is in one view of one shard.
LEMMA OnePlace ==
    ASSUME NEW shards, NEW snap, NEW passed, Good(shards, snap, passed), NEW a \in Auths,
           NEW p \in Providers, NEW j \in Priorities, shards[p] # Absent, a \in shards[p].bucket[j].all.flat,
           NEW q \in Providers, NEW k \in Priorities, shards[q] # Absent, a \in shards[q].bucket[k].all.flat
    PROVE  p = q /\ j = k
<1>1. ASSUME NEW r \in Providers, NEW i \in Priorities, shards[r] # Absent,
             a \in shards[r].bucket[i].all.flat
      PROVE  snap[a].provider = r /\ snap[a].priority = i
  <2>1. Sane(shards[r]) /\ CurrentFor(shards[r], r, snap, passed)
    BY <1>1 DEF Good
  <2>2. a \in ReadyAt(shards[r].entry, i)
    BY <1>1, <2>1 DEF Sane, ViewsAgree, ViewAgrees
  <2>3. shards[r].entry[a] # Absent /\ shards[r].entry[a].priority = i
    BY <2>2 DEF ReadyAt
  <2>4. Supports(snap[a], r)
    BY <2>1, <2>3 DEF CurrentFor
  <2>5. \E state : shards[r].entry[a] = EntryOf(snap[a], state)
    BY <2>1, <2>4 DEF CurrentFor
  <2>6. shards[r].entry[a].priority = snap[a].priority
    BY <2>5 DEF EntryOf
  <2> QED  BY <2>3, <2>4, <2>6 DEF Supports
<1> QED  BY <1>1

\* The views of good shards fit.
LEMMA GoodFit ==
    ASSUME NEW shards, NEW snap, NEW passed, Good(shards, snap, passed),
           NEW p \in Providers, NEW k \in Priorities, shards[p] # Absent
    PROVE  Fit(shards[p].bucket[k].all) /\ shards[p].bucket[k].all.flat \in SUBSET Auths
  BY SaneFit, FitSays DEF Good

\* The count starts again when a view gets other members, and goes on when it keeps them.
LEMMA FollowBelow ==
    ASSUME IInv, Below(shard, waited), NEW shards, NEW snap, NEW passed, Good(shards, snap, passed),
           \A p \in Providers : shard[p] # Absent /\ shards[p] # Absent => Steady(shard[p], shards[p])
    PROVE  Below(shards, StillWaiting(shards))
<1>1. CASE shards = shard
  BY <1>1 DEF StillWaiting
<1>2. CASE shards # shard
  <2> SUFFICES ASSUME NEW p \in Providers, NEW k \in Priorities, shards[p] # Absent,
                      NEW a \in shards[p].bucket[k].all.flat
               PROVE  StillWaiting(shards)[a] + Turn(shards[p].bucket[k].all, a)
                          < Round(shards[p].bucket[k].all, a)
    BY DEF Below
  <2> DEFINE view == shards[p].bucket[k].all
  <2>1. Fit(view) /\ a \in Auths
    BY GoodFit
  <2>2. StillWaiting(shards)[a] = IF Stays(shards, a) THEN waited[a] ELSE 0
    BY <1>2, <2>1 DEF StillWaiting
  <2>3. CASE ~Stays(shards, a)
    <3>1. Turn(view, a) \in Nat /\ Turn(view, a) < Round(view, a)
      <4> HIDE DEF view
      <4>1. a \in view.flat
        BY DEF view
      <4> QED  BY <2>1, <4>1, TurnFits
    <3> QED  BY <2>2, <2>3, <3>1
  <2>4. CASE Stays(shards, a)
    <3>1. PICK q \in Providers, j \in Priorities :
              /\ shard[q] # Absent /\ a \in shard[q].bucket[j].all.flat
              /\ shards[q] # Absent /\ Members(shards[q].bucket[j].all) = Members(shard[q].bucket[j].all)
      BY <2>4 DEF Stays
    <3>2. shards[q].bucket[j].all.flat = shard[q].bucket[j].all.flat
          /\ shards[q].bucket[j].all.group = shard[q].bucket[j].all.group
      BY <3>1 DEF Members
    <3>3. q = p /\ j = k
      BY <2>1, <3>1, <3>2, OnePlace
    <3> DEFINE old == shard[p].bucket[k].all
    <3>4. Turn(view, a) = Turn(old, a)
      <4>1. Steady(shard[p], shards[p])
        BY <3>1, <3>3
      <4> QED  BY <3>1, <3>3, <4>1 DEF Steady
    <3>5. Round(view, a) = Round(old, a)
      <4>1. view.flat = old.flat /\ view.group = old.group
        BY <3>2, <3>3
      <4> HIDE DEF view, old
      <4> QED  BY <4>1 DEF Round, Grouped, ParentOrder
    <3>6. waited[a] + Turn(old, a) < Round(old, a)
      BY <3>1, <3>3 DEF Below
    <3> QED  BY <2>2, <2>4, <3>4, <3>5, <3>6
  <2> QED  BY <2>3, <2>4
<1> QED  BY <1>1, <1>2

\* What a pick does to the views: one moves on, or none.
LEMMA RotatedViews ==
    ASSUME NEW sh, Sane(sh), NEW k \in Priorities, NEW name \in {"all", "ws"}, NEW ok, NEW how,
           NEW j \in Priorities
    PROVE  Rotated(sh, k, name, ok, how).bucket[j].all =
               IF how # "fillFirst" /\ name = "all" /\ j = k THEN Advanced(sh.bucket[k].all, ok)
               ELSE sh.bucket[j].all
<1>1. sh \in Shard /\ sh.bucket \in [Priorities -> Bucket] /\ sh.bucket[k] \in Bucket
  BY ShardTyped DEF Sane
<1>2. CASE how = "fillFirst"
  BY <1>2 DEF Rotated
<1>3. CASE how # "fillFirst"
  <2> DEFINE view == Advanced(sh.bucket[k][name], ok)
             bucket == [sh.bucket EXCEPT ![k][name] = view]
  <2>1. Rotated(sh, k, name, ok, how) = [sh EXCEPT !.bucket = bucket]
    BY <1>3 DEF Rotated
  <2>2. bucket[j].all = IF name = "all" /\ j = k THEN view ELSE sh.bucket[j].all
    <3> HIDE DEF view
    <3>1. CASE name = "all"
      BY <1>1, <3>1 DEF Bucket
    <3>2. CASE name = "ws"
      BY <1>1, <3>2 DEF Bucket
    <3> QED  BY <3>1, <3>2
  <2>3. name = "all" => view = Advanced(sh.bucket[k].all, ok)
    OBVIOUS
  <2> HIDE DEF bucket, view
  <2>4. Rotated(sh, k, name, ok, how).bucket = bucket
    BY <1>1, <2>1 DEF Shard
  <2> QED  BY <1>3, <2>2, <2>3, <2>4
<1> QED  BY <1>2, <1>3

\* No pick changes who is in a view.
LEMMA RotatedMembers ==
    ASSUME NEW sh, Sane(sh), NEW k \in Priorities, NEW name \in {"all", "ws"}, NEW ok \in SUBSET Auths,
           sh.bucket[k][name].flat \cap ok # {}, NEW how, NEW j \in Priorities
    PROVE  LET new == Rotated(sh, k, name, ok, how)
           IN  new.bucket[j].all.flat = sh.bucket[j].all.flat
               /\ new.bucket[j].all.group = sh.bucket[j].all.group
<1> DEFINE new == Rotated(sh, k, name, ok, how)  view == sh.bucket[k].all
<1>1. CASE how # "fillFirst" /\ name = "all" /\ j = k
  <2>1. new.bucket[j].all = Advanced(view, ok) /\ view.flat \cap ok # {}
    BY <1>1, RotatedViews
  <2>2. view \in View /\ CursorFits(view) /\ \E parent \in ParentMap : view.group = Groups(view.flat, parent)
    BY SaneFit DEF Fit
  <2> HIDE DEF new, view
  <2>3. Advanced(view, ok).flat = view.flat /\ Advanced(view, ok).group = view.group
    BY <2>1, <2>2, AdvancedFits
  <2> QED  BY <1>1, <2>1, <2>3 DEF new, view
<1>2. CASE ~(how # "fillFirst" /\ name = "all" /\ j = k)
  BY <1>2, RotatedViews
<1> QED  BY <1>1, <1>2

\* A pick that moves no view of all credentials changes nobody's turn.
LEMMA UnmovedBelow ==
    ASSUME NEW shards, NEW waits, Below(shards, waits), NEW p \in Providers, Sane(shards[p]),
           NEW k \in Priorities, NEW name \in {"all", "ws"}, NEW ok, NEW how,
           how = "fillFirst" \/ name = "ws", NEW shards2,
           shards[p] # Absent, shards2[p] = Rotated(shards[p], k, name, ok, how),
           \A q \in Providers : q # p => shards2[q] = shards[q]
    PROVE  Below(shards2, waits)
<1> SUFFICES ASSUME NEW q \in Providers, NEW j \in Priorities, shards2[q] # Absent
             PROVE  shards[q] # Absent /\ shards2[q].bucket[j].all = shards[q].bucket[j].all
  BY DEF Below
<1>1. CASE q = p
  BY <1>1, RotatedViews
<1>2. CASE q # p
  BY <1>2
<1> QED  BY <1>1, <1>2

\* A pick of a rotation that everybody may take is one more for the others of the view to
\* wait and one less before their turn.
LEMMA RotatedBelow ==
    ASSUME NEW shards, NEW snap, NEW passed, Good(shards, snap, passed),
           NEW waits \in [Auths -> Nat], Below(shards, waits),
           NEW p \in Providers, shards[p] # Absent, NEW k \in Priorities, NEW ok \in SUBSET Auths,
           shards[p].bucket[k].all.flat \cap ok # {}, NEW how, how # "fillFirst", NEW shards2,
           shards2[p] = Rotated(shards[p], k, "all", ok, how),
           \A q \in Providers : q # p => shards2[q] = shards[q]
    PROVE  LET view == shards[p].bucket[k].all
           IN  Below(shards2, WaitedAfter(waits, view, Choice(view, ok, how), ok))
<1> DEFINE view == shards[p].bucket[k].all
           x == Choice(view, ok, how)
           after == WaitedAfter(waits, view, x, ok)
<1>1. Sane(shards[p]) /\ Fit(view) /\ view.flat \in SUBSET Auths
  BY GoodFit DEF Good
<1>2. shards2[p].bucket[k].all = Advanced(view, ok)
  BY <1>1, RotatedViews
<1>3. \A j \in Priorities : j # k => shards2[p].bucket[j].all = shards[p].bucket[j].all
  BY <1>1, RotatedViews
<1>4. x = Picked(view, ok)
  BY DEF Choice
<1>5. \A b \in Auths : after[b] = IF b \notin view.flat THEN waits[b]
                                  ELSE IF b = x \/ ok # Auths THEN 0 ELSE waits[b] + 1
  BY DEF WaitedAfter
<1>6. Fit(Advanced(view, ok)) /\ Advanced(view, ok).flat = view.flat /\ Advanced(view, ok).group = view.group
  <2>1. view \in View /\ CursorFits(view) /\ view.flat \cap ok # {}
    BY <1>1 DEF Fit
  <2>2. PICK parent \in ParentMap : view.group = Groups(view.flat, parent)
    BY <1>1 DEF Fit
  <2> DEFINE new == Advanced(view, ok)
  <2> HIDE DEF view
  <2>3. new \in View /\ CursorFits(new) /\ new.flat = view.flat /\ new.group = view.group
    BY <2>1, <2>2, AdvancedFits
  <2> HIDE DEF new
  <2>4. Fit(new)
    BY <2>2, <2>3 DEF Fit
  <2> QED  BY <2>3, <2>4 DEF new
<1> HIDE DEF x, after
<1> SUFFICES ASSUME NEW q \in Providers, NEW j \in Priorities, shards2[q] # Absent,
                    NEW a \in shards2[q].bucket[j].all.flat
             PROVE  after[a] + Turn(shards2[q].bucket[j].all, a) < Round(shards2[q].bucket[j].all, a)
  BY DEF Below, after, x
<1>7. CASE q = p /\ j = k
  <2> DEFINE new == Advanced(view, ok)
  <2>1. shards2[q].bucket[j].all = new
    BY <1>2, <1>7
  <2> HIDE DEF new
  <2>2. a \in new.flat /\ a \in view.flat /\ a \in Auths
    BY <1>1, <1>6, <2>1 DEF new
  <2>3. Turn(new, a) \in Nat /\ Turn(new, a) < Round(new, a)
    BY <1>6, <2>2, TurnFits DEF new
  <2>4. CASE a = x \/ ok # Auths
    <3>1. after[a] = 0
      BY <1>5, <2>2, <2>4
    <3> QED  BY <2>1, <2>3, <3>1
  <2>5. CASE ~(a = x \/ ok # Auths)
    <3>1. after[a] = waits[a] + 1
      BY <1>5, <2>2, <2>5
    <3>2. waits[a] + Turn(view, a) < Round(view, a) /\ waits[a] \in Nat
      BY <2>2 DEF Below
    <3>3. Turn(new, a) < Turn(view, a)
      BY <1>1, <1>4, <2>2, <2>5, AdvancedTurn DEF new
    <3>4. Turn(view, a) \in Nat /\ Round(view, a) \in Nat
      BY <1>1, <2>2, TurnFits
    <3>5. Round(new, a) = Round(view, a)
      BY <1>6 DEF new, Round, Grouped, ParentOrder
    <3> HIDE DEF view
    <3> QED  BY <2>1, <2>3, <3>1, <3>2, <3>3, <3>4, <3>5
  <2> QED  BY <2>4, <2>5
<1>8. CASE ~(q = p /\ j = k)
  <2>1. shards2[q].bucket[j].all = shards[q].bucket[j].all /\ shards[q] # Absent
    BY <1>3, <1>8
  <2>2. a \in Auths /\ a \notin view.flat
    BY <1>8, <2>1, GoodFit, OnePlace
  <2>3. after[a] = waits[a]
    BY <1>5, <2>2
  <2>4. waits[a] + Turn(shards[q].bucket[j].all, a) < Round(shards[q].bucket[j].all, a)
    BY <2>1 DEF Below
  <2> QED  BY <2>1, <2>3, <2>4
<1> QED  BY <1>7, <1>8

(***************************************************************************)
(* Segments of the slots                                                   *)
(***************************************************************************)

Weighting == [Providers -> 0 .. Cardinality(Auths)]
Total(weights) == Cardinality(Slots(weights))
Before(weights, p) == {s \in Slots(weights) : s[1] < p}
Segment(weights, p) == {p} \X (1 .. weights[p])

\* So many mixed picks that everybody may take come before p's segment, from slot s.
Gap(weights, s, p) ==
    LET start == SegmentStart(weights, p)
    IN  IF s < start THEN start - s
        ELSE IF s < start + weights[p] THEN 0 ELSE Total(weights) + start - s

\* The slots of a mixed rotation are as many as the weights add up to, and a provider's
\* segment has as many as its weight.
LEMMA SegmentCounts ==
    ASSUME NEW weights \in Weighting, NEW p \in Providers
    PROVE  /\ IsFiniteSet(Slots(weights)) /\ Total(weights) \in Nat
           /\ weights[p] \in Nat
           /\ SegmentStart(weights, p) \in Nat
           /\ Before(weights, p) \cup Segment(weights, p) \in SUBSET Slots(weights)
           /\ IsFiniteSet(Before(weights, p) \cup Segment(weights, p))
           /\ Cardinality(Before(weights, p) \cup Segment(weights, p)) = SegmentStart(weights, p) + weights[p]
<1> DEFINE slots == Slots(weights)  before == Before(weights, p)  segment == Segment(weights, p)
<1>1. Providers \in SUBSET Nat /\ IsFiniteSet(Providers)
  BY SchedulerAssumption
<1>2. Cardinality(Auths) \in Nat
  BY AllFinite, SizeIsNat
<1>3. weights[p] \in Nat
  BY <1>2 DEF Weighting
<1>4. IsFiniteSet(slots)
  BY SlotsCount DEF Weighting
<1>5. before \in SUBSET slots /\ segment \in SUBSET slots
  BY DEF Before, Segment, Slots
<1>6. before \cap segment = {}
  <2>1. ASSUME NEW s \in before, s \in segment PROVE FALSE
    <3>1. s[1] < p /\ s[1] = p
      BY <2>1 DEF Before, Segment
    <3> QED  BY <1>1, <3>1
  <2> QED  BY <2>1
<1>7. SegmentStart(weights, p) = Cardinality(before)
  BY DEF SegmentStart, Before
<1>8. IsFiniteSet(segment) /\ Cardinality(segment) = weights[p]
  <2> DEFINE n == weights[p]  one == {p}  many == 1 .. n
  <2>1. n \in Nat
    BY <1>3
  <2> HIDE DEF n
  <2>2. IsFiniteSet(many) /\ Cardinality(many) = n
    BY <2>1, FS_Interval
  <2>3. IsFiniteSet(one) /\ Cardinality(one) = 1
    BY FS_Singleton
  <2> HIDE DEF one, many
  <2>4. IsFiniteSet(one \X many) /\ Cardinality(one \X many) = 1 * n
    BY <2>2, <2>3, FS_Product
  <2>5. segment = one \X many
    BY DEF Segment, one, many, n
  <2> QED  BY <2>1, <2>4, <2>5 DEF n
<1> HIDE DEF slots, before, segment
<1>9. IsFiniteSet(before) /\ Cardinality(before) \in Nat /\ Cardinality(slots) \in Nat
  BY <1>4, <1>5, FS_Subset, FS_CardinalityType
<1>10. IsFiniteSet(before \cup segment)
       /\ Cardinality(before \cup segment) = Cardinality(before) + Cardinality(segment) - Cardinality(before \cap segment)
  BY <1>8, <1>9, FS_Union
<1>11. Cardinality(before \cap segment) = 0
  BY <1>6, FS_EmptySet
<1>12. Cardinality(before \cup segment) = Cardinality(before) + weights[p]
  BY <1>3, <1>8, <1>9, <1>10, <1>11
<1> QED  BY <1>3, <1>4, <1>5, <1>7, <1>9, <1>10, <1>12 DEF slots, before, segment, Total

\* Segments lie in the order of the providers, inside the slots.
LEMMA SegmentsInOrder ==
    ASSUME NEW weights \in Weighting, NEW p \in Providers
    PROVE  /\ SegmentStart(weights, p) + weights[p] <= Total(weights)
           /\ \A q \in Providers : p < q =>
                  SegmentStart(weights, p) + weights[p] <= SegmentStart(weights, q)
<1> DEFINE slots == Slots(weights)  both == Before(weights, p) \cup Segment(weights, p)
<1>1. /\ IsFiniteSet(slots) /\ Cardinality(slots) = Total(weights)
      /\ both \in SUBSET slots
      /\ Cardinality(both) = SegmentStart(weights, p) + weights[p]
  BY SegmentCounts DEF Total
<1>2. ASSUME NEW q \in Providers, p < q
      PROVE  Cardinality(both) <= SegmentStart(weights, q)
  <2> DEFINE before == Before(weights, q)
  <2>1. p \in Nat /\ q \in Nat /\ \A r \in Providers : r \in Nat
    BY SchedulerAssumption
  <2>2. both \in SUBSET before
    <3>1. \A s \in Slots(weights) : s[1] \in Nat
      BY <2>1 DEF Slots
    <3>2. ASSUME NEW s \in both PROVE s[1] < q
      <4>1. s \in Slots(weights) /\ (s[1] < p \/ s[1] = p)
        BY <1>1 DEF Before, Segment
      <4> QED  BY <1>2, <2>1, <3>1, <4>1
    <3> QED  BY <1>1, <3>2 DEF Before
  <2>3. before \in SUBSET slots
    BY DEF Before
  <2>4. SegmentStart(weights, q) = Cardinality(before)
    BY DEF SegmentStart, Before
  <2> HIDE DEF before, both, slots
  <2>5. IsFiniteSet(before)
    BY <1>1, <2>3, FS_Subset
  <2> QED  BY <2>2, <2>4, <2>5, FS_Subset
<1>3. Cardinality(both) <= Cardinality(slots)
  <2> HIDE DEF both, slots
  <2> QED  BY <1>1, FS_Subset
<1> QED  BY <1>1, <1>2, <1>3

\* Where nothing lies between two providers, their segments meet, and the last one ends
\* with the slots.
LEMMA SegmentsMeet ==
    ASSUME NEW weights \in Weighting, NEW p \in Providers
    PROVE  /\ (\A q \in Providers : q <= p) => SegmentStart(weights, p) + weights[p] = Total(weights)
           /\ \A q \in Providers : p < q /\ (\A r \in Providers : p < r => q <= r) =>
                  SegmentStart(weights, q) = SegmentStart(weights, p) + weights[p]
<1> DEFINE both == Before(weights, p) \cup Segment(weights, p)
<1>1. Cardinality(both) = SegmentStart(weights, p) + weights[p] /\ both \in SUBSET Slots(weights)
  BY SegmentCounts
<1>2. \A r \in Providers : r \in Nat
  BY SchedulerAssumption
<1>3. ASSUME NEW s \in Slots(weights)
      PROVE  s[1] \in Providers /\ (s[1] <= p => s \in both)
  <2>1. PICK r \in Providers : s \in {r} \X (1 .. weights[r])
    BY DEF Slots
  <2>2. s[1] = r
    BY <2>1
  <2>3. CASE r < p
    BY <2>2, <2>3 DEF Before
  <2>4. CASE r = p
    BY <2>1, <2>4 DEF Segment
  <2> QED  BY <1>2, <2>2, <2>3, <2>4
<1>4. ASSUME \A q \in Providers : q <= p PROVE Cardinality(both) = Total(weights)
  <2>1. both = Slots(weights)
    BY <1>1, <1>3, <1>4
  <2> QED  BY <2>1 DEF Total
<1>5. ASSUME NEW q \in Providers, p < q, \A r \in Providers : p < r => q <= r
      PROVE  SegmentStart(weights, q) = Cardinality(both)
  <2>1. \A s \in Slots(weights) : s[1] < q => s \in both
    BY <1>2, <1>3, <1>5
  <2>2. \A s \in both : s \in Slots(weights) /\ s[1] < q
    <3>1. \A s \in both : s \in Slots(weights) /\ s[1] <= p
      BY <1>1, <1>2, <1>3 DEF Before, Segment
    <3> QED  BY <1>2, <1>3, <1>5, <3>1
  <2> HIDE DEF both
  <2>3. both = {s \in Slots(weights) : s[1] < q}
    BY <2>1, <2>2
  <2> QED  BY <2>3 DEF SegmentStart
<1> QED  BY <1>1, <1>4, <1>5

\* Every slot lies in a segment: that of the last provider that starts before it.
LEMMA SlotHasSegment ==
    ASSUME NEW weights \in Weighting, NEW s \in Nat, s < Total(weights)
    PROVE  \E p \in Providers : SegmentStart(weights, p) <= s /\ s < SegmentStart(weights, p) + weights[p]
<1> DEFINE started == {p \in Providers : SegmentStart(weights, p) <= s}
<1>1. Providers \in SUBSET Nat /\ IsFiniteSet(Providers) /\ \A p \in Providers : p \in Nat
  BY SchedulerAssumption
<1>2. Providers # {}
  <2>1. CASE Providers = {}
    <3>1. Slots(weights) = {}
      BY <2>1 DEF Slots
    <3>2. Total(weights) = 0
      BY <3>1, FS_EmptySet DEF Total
    <3> QED  BY <3>2
  <2> QED  BY <2>1
<1>3. started # {}
  <2>1. PICK p \in Providers : \A q \in Providers : p <= q
    BY <1>1, <1>2, MinOfNaturals
  <2>2. Before(weights, p) = {}
    <3>1. ASSUME NEW x \in Slots(weights) PROVE ~(x[1] < p)
      <4>1. PICK r \in Providers : x \in {r} \X (1 .. weights[r])
        BY DEF Slots
      <4>2. x[1] = r
        BY <4>1
      <4>3. p <= r /\ p \in Nat /\ r \in Nat
        BY <1>1, <2>1
      <4> QED  BY <4>2, <4>3
    <3> QED  BY <3>1 DEF Before
  <2>3. SegmentStart(weights, p) = 0
    BY <2>2, FS_EmptySet DEF SegmentStart, Before
  <2> QED  BY <2>3
<1>4. PICK p \in started : \A q \in started : q <= p
  <2>1. started \in SUBSET Providers
    OBVIOUS
  <2>2. started \in SUBSET Int /\ IsFiniteSet(started)
    <3> HIDE DEF started
    <3>1. IsFiniteSet(started)
      BY <1>1, <2>1, FS_Subset
    <3>2. \A q \in started : q \in Int
      BY <1>1, <2>1
    <3> QED  BY <3>1, <3>2
  <2> HIDE DEF started
  <2>3. Max(started) \in started /\ \A q \in started : Max(started) >= q
    BY <1>3, <2>2, MaxOfFinite
  <2>4. \A q \in started : q <= Max(started)
    BY <1>1, <2>1, <2>2, <2>3
  <2> QED  BY <2>3, <2>4
<1>5. p \in Providers /\ SegmentStart(weights, p) <= s
  OBVIOUS
<1>6. s < SegmentStart(weights, p) + weights[p]
  <2> DEFINE later == {q \in Providers : p < q}
  <2>1. CASE later = {}
    <3>1. \A q \in Providers : q <= p
      BY <1>1, <1>5, <2>1
    <3> QED  BY <1>5, <3>1, SegmentsMeet
  <2>2. CASE later # {}
    <3>1. later \in SUBSET Nat
      BY <1>1
    <3>2. PICK q \in later : \A r \in later : q <= r
      <4> HIDE DEF later
      <4> QED  BY <2>2, <3>1, MinOfNaturals
    <3>3. q \in Providers /\ p < q /\ \A r \in Providers : p < r => q <= r
      BY <3>2
    <3>4. SegmentStart(weights, q) = SegmentStart(weights, p) + weights[p]
      BY <1>5, <3>3, SegmentsMeet
    <3>5. ~(SegmentStart(weights, q) <= s)
      BY <1>1, <1>4, <1>5, <3>3
    <3>6. SegmentStart(weights, q) \in Nat
      BY <3>3, SegmentCounts
    <3> QED  BY <3>4, <3>5, <3>6
  <2> QED  BY <2>1, <2>2
<1> QED  BY <1>5, <1>6

\* No provider has been idle so long that its segment comes after the other segments.
Served(weights, idles, m) ==
    \A p \in Providers : weights[p] > 0 =>
        idles[p] + Gap(weights, m % Total(weights), p) <= Total(weights) - weights[p]

\* A provider with weight makes slots for the mixed cursor to be taken modulo.
LEMMA SlotTyped ==
    ASSUME NEW weights \in Weighting, NEW p \in Providers, weights[p] > 0, NEW m \in Nat
    PROVE  Total(weights) \in Nat \ {0} /\ m % Total(weights) \in Nat /\ m % Total(weights) < Total(weights)
<1>1. Total(weights) \in Nat /\ SegmentStart(weights, p) \in Nat /\ weights[p] \in Nat
      /\ SegmentStart(weights, p) + weights[p] <= Total(weights)
  BY SegmentCounts, SegmentsInOrder
<1>2. Total(weights) \in Nat \ {0}
  BY <1>1
<1> QED  BY <1>2, Remainder

\* From any slot the way to a provider's segment leads through slots of the others alone.
LEMMA GapFits ==
    ASSUME NEW weights \in Weighting, NEW p \in Providers, weights[p] > 0,
           NEW s \in Nat, s < Total(weights)
    PROVE  /\ Gap(weights, s, p) \in Nat
           /\ Gap(weights, s, p) <= Total(weights) - weights[p]
<1>1. Total(weights) \in Nat /\ SegmentStart(weights, p) \in Nat /\ weights[p] \in Nat
      /\ SegmentStart(weights, p) + weights[p] <= Total(weights)
  BY SegmentCounts, SegmentsInOrder
<1> QED  BY <1>1 DEF Gap

\* A slot further, the segments of the others are one slot nearer.
LEMMA GapShrinks ==
    ASSUME NEW weights \in Weighting, NEW s \in Nat, s < Total(weights),
           NEW p \in Providers, SegmentStart(weights, p) <= s, s < SegmentStart(weights, p) + weights[p],
           NEW q \in Providers, q # p, weights[q] > 0
    PROVE  Gap(weights, (s + 1) % Total(weights), q) + 1 <= Gap(weights, s, q)
<1> DEFINE total == Total(weights)  next == (s + 1) % total
           start == SegmentStart(weights, q)  w == weights[q]
           here == SegmentStart(weights, p)  v == weights[p]
<1>1. /\ total \in Nat /\ start \in Nat /\ w \in Nat /\ start + w <= total
      /\ here \in Nat /\ v \in Nat /\ here + v <= total
  BY SegmentCounts, SegmentsInOrder
<1>2. start + w <= here \/ here + v <= start
  <2>1. p \in Nat /\ q \in Nat
    BY SchedulerAssumption
  <2>2. p < q \/ q < p
    BY <2>1
  <2> QED  BY <2>2, SegmentsInOrder
<1>3. Gap(weights, s, q) = IF s < start THEN start - s ELSE IF s < start + w THEN 0 ELSE total + start - s
  BY DEF Gap
<1>4. Gap(weights, next, q) = IF next < start THEN start - next
                              ELSE IF next < start + w THEN 0 ELSE total + start - next
  BY DEF Gap
<1>5. s < total /\ here <= s /\ s < here + v /\ w > 0
  OBVIOUS
<1> HIDE DEF start, w, here, v
<1>6. next = IF s + 1 = total THEN 0 ELSE s + 1
  <2> HIDE DEF total
  <2>1. total \in Nat \ {0} /\ s + 1 \in Int
    BY <1>1, <1>5
  <2>2. CASE s + 1 = total
    BY <2>1, <2>2, RemainderIs
  <2>3. CASE s + 1 # total
    <3>1. s + 1 >= 0 /\ s + 1 < total
      BY <1>1, <1>5, <2>3
    <3>2. (s + 1) % total = s + 1
      BY <2>1, <3>1, RemainderIs
    <3> QED  BY <2>3, <3>2
  <2> QED  BY <2>2, <2>3
<1>7. Gap(weights, next, q) + 1 <= Gap(weights, s, q)
  <2> HIDE DEF total, next
  <2>1. CASE start + w <= here
    BY <1>1, <1>3, <1>4, <1>5, <1>6, <2>1
  <2>2. CASE here + v <= start
    BY <1>1, <1>3, <1>4, <1>5, <1>6, <2>2
  <2> QED  BY <1>2, <2>1, <2>2
<1> QED  BY <1>7

\* The highest priority with ready credentials is a priority with ready credentials.
LEMMA OccupiedSays ==
    ASSUME NEW shards, Occupied(shards) # {}
    PROVE  Highest(Occupied(shards)) \in Occupied(shards) /\ Highest(Occupied(shards)) \in Priorities
<1>1. Occupied(shards) \in SUBSET Priorities
  BY DEF Occupied
<1>2. Occupied(shards) \in SUBSET Int /\ IsFiniteSet(Occupied(shards))
  BY <1>1, AllFinite
<1>3. Highest(Occupied(shards)) \in Occupied(shards)
  BY <1>2, HighestFinds
<1> QED  BY <1>1, <1>3

\* The weights of good shards are numbers of credentials.
LEMMA WeightsNowTyped ==
    ASSUME NEW shards, NEW snap, NEW passed, Good(shards, snap, passed)
    PROVE  WeightsNow(shards) \in Weighting
<1>1. CASE Occupied(shards) = {}
  <2>1. 0 \in 0 .. Cardinality(Auths)
    BY AllFinite, SizeIsNat
  <2> QED  BY <1>1, <2>1 DEF WeightsNow, Weighting
<1>2. CASE Occupied(shards) # {}
  <2>1. Highest(Occupied(shards)) \in Priorities
    BY <1>2, OccupiedSays
  <2> QED  BY <1>2, <2>1, WeightsTyped DEF WeightsNow, Weighting
<1> QED  BY <1>1, <1>2

\* Whoever has not been idle can wait from any slot on.
LEMMA FreshServed ==
    ASSUME NEW weights \in Weighting, NEW idles, \A p \in Providers : idles[p] = 0, NEW m \in Nat
    PROVE  Served(weights, idles, m)
<1> SUFFICES ASSUME NEW p \in Providers, weights[p] > 0
             PROVE  idles[p] + Gap(weights, m % Total(weights), p) <= Total(weights) - weights[p]
  BY DEF Served
<1> DEFINE s == m % Total(weights)
<1>1. s \in Nat /\ s < Total(weights)
  BY SlotTyped
<1> HIDE DEF s
<1>2. Gap(weights, s, p) \in Nat /\ Gap(weights, s, p) <= Total(weights) - weights[p]
  BY <1>1, GapFits
<1>3. idles[p] + Gap(weights, s, p) = Gap(weights, s, p)
  BY <1>2
<1> QED  BY <1>2, <1>3 DEF s

\* A change of shards that changes weights starts the count of idle picks again, so nobody
\* is behind.
LEMMA FollowServed ==
    ASSUME Served(WeightsNow(shard), idle, mixed), mixed \in Nat,
           NEW shards, NEW snap, NEW passed, Good(shards, snap, passed)
    PROVE  Served(WeightsNow(shards), StillIdle(shards), mixed)
<1>1. CASE shards = shard \/ WeightsNow(shards) = WeightsNow(shard)
  <2>1. WeightsNow(shards) = WeightsNow(shard) /\ StillIdle(shards) = idle
    BY <1>1 DEF StillIdle
  <2> QED  BY <2>1
<1>2. CASE ~(shards = shard \/ WeightsNow(shards) = WeightsNow(shard))
  <2>1. \A p \in Providers : StillIdle(shards)[p] = 0
    BY <1>2 DEF StillIdle
  <2> QED  BY <2>1, WeightsNowTyped, FreshServed
<1> QED  BY <1>1, <1>2

\* Picks that change nobody's place leave the weights.
LEMMA SameWeights ==
    ASSUME NEW shards, NEW shards2,
           \A p \in Providers : /\ shards2[p] = Absent <=> shards[p] = Absent
                                /\ shards[p] # Absent =>
                                      \A k \in Priorities : shards2[p].bucket[k].all.flat = shards[p].bucket[k].all.flat
    PROVE  WeightsNow(shards2) = WeightsNow(shards)
<1>1. Occupied(shards2) = Occupied(shards)
  BY DEF Occupied
<1>2. ASSUME NEW k \in Priorities PROVE Weights(shards2, k) = Weights(shards, k)
  BY DEF Weights
<1>3. CASE Occupied(shards) = {}
  BY <1>1, <1>3 DEF WeightsNow
<1>4. CASE Occupied(shards) # {}
  BY <1>1, <1>2, <1>4, OccupiedSays DEF WeightsNow
<1> QED  BY <1>3, <1>4

\* The provider that a free pick begins with is the one whose segment holds the slot.
LEMMA StartSays ==
    ASSUME NEW weights \in Weighting, mixed \in Nat, NEW q \in Providers, weights[q] > 0
    PROVE  LET p == StartProvider(weights)
               s == StartSlot(weights)
           IN  /\ p \in Providers /\ weights[p] > 0
               /\ s \in Nat /\ s < Total(weights) /\ s = mixed % Total(weights)
               /\ SegmentStart(weights, p) <= s /\ s < SegmentStart(weights, p) + weights[p]
<1> DEFINE s == StartSlot(weights)  p == StartProvider(weights)
<1>1. s = mixed % Total(weights)
  BY DEF StartSlot, Total
<1>2. s \in Nat /\ s < Total(weights)
  BY <1>1, SlotTyped
<1>3. \E r \in Providers : SegmentStart(weights, r) <= s /\ s < SegmentStart(weights, r) + weights[r]
  <2> HIDE DEF s
  <2> QED  BY <1>2, SlotHasSegment
<1>4. p \in Providers /\ SegmentStart(weights, p) <= s /\ s < SegmentStart(weights, p) + weights[p]
  BY <1>3 DEF StartProvider
<1> HIDE DEF s, p
<1>5. SegmentStart(weights, p) \in Nat /\ weights[p] \in Nat
  BY <1>4, SegmentCounts
<1>6. weights[p] > 0
  BY <1>2, <1>4, <1>5
<1> QED  BY <1>1, <1>2, <1>4, <1>6 DEF s, p

\* The search that begins at a member takes it.
LEMMA NextFromHere ==
    ASSUME NEW order \in SUBSET Nat, IsFiniteSet(order), NEW eligible \in SUBSET order, NEW x \in eligible
    PROVE  NextFrom(order, Index(order, x), eligible) = x
<1> DEFINE n == Cardinality(order)  c == Index(order, x)  y == NextFrom(order, c, eligible)
<1>1. c \in Nat /\ c + 1 <= n
  BY IndexFits
<1>2. n \in Nat
  BY SizeIsNat
<1>3. c <= n
  BY <1>1, <1>2
<1>4. Ahead(order, c, x) = 0
  <2> HIDE DEF c
  <2>1. Ahead(order, c, x) = IF Index(order, x) >= c THEN Index(order, x) - c ELSE Index(order, x) - c + n
    BY <1>1, <1>3, AheadIs
  <2> QED  BY <1>1, <2>1 DEF c
<1>5. \A z \in eligible : Ahead(order, c, z) \in Nat
  <2> HIDE DEF c
  <2> QED  BY <1>1, <1>3, AheadIs
<1>6. \A z \in eligible : Ahead(order, c, x) <= Ahead(order, c, z)
  <2> HIDE DEF c
  <2> QED  BY <1>4, <1>5
<1>7. y \in eligible /\ \A z \in eligible : Ahead(order, c, y) <= Ahead(order, c, z)
  BY <1>6 DEF NextFrom
<1>8. Ahead(order, c, y) = 0
  <2> HIDE DEF c, y
  <2> QED  BY <1>4, <1>5, <1>7
<1>9. CASE y # x
  <2> HIDE DEF y
  <2>1. Index(order, y) # c /\ Index(order, y) \in Nat /\ Index(order, y) + 1 <= n
    BY <1>7, <1>9, IndexDistinct, IndexFits
  <2> HIDE DEF c, n
  <2>2. Ahead(order, c, y) = IF Index(order, y) >= c THEN Index(order, y) - c ELSE Index(order, y) - c + n
    BY <1>1, <1>3, <1>7, AheadIs DEF n
  <2> QED  BY <1>1, <1>2, <1>8, <2>1, <2>2
<1> QED  BY <1>9

(***************************************************************************)
(* Steps of the rotations                                                  *)
(***************************************************************************)

\* What the two counters are for: nobody waits for more than a round of his view, and no
\* provider is idle for more than the segments of the others.
RotationInv == Below(shard, waited) /\ Served(WeightsNow(shard), idle, mixed)

\* A call of the manager: shards are kept, replaced by ones with the same or rebuilt
\* views, or forgotten.
LEMMA FollowRotation ==
    ASSUME IInv, RotationInv, IInv', NEW shards, shard' = shards, Follow(shards),
           mixed' = mixed \/ \A p \in Providers : shards[p] = Absent,
           \A p \in Providers : shard[p] # Absent /\ shards[p] # Absent => Steady(shard[p], shards[p])
    PROVE  RotationInv'
<1>1. Good(shards, snapshot', due')
  BY DEF IInv
<1>2. waited' = StillWaiting(shards) /\ idle' = StillIdle(shards)
  BY DEF Follow
<1>3. Below(shards, StillWaiting(shards))
  BY <1>1, FollowBelow DEF RotationInv
<1>4. Served(WeightsNow(shards), idle', mixed')
  <2>1. CASE mixed' = mixed
    <3>1. mixed \in Nat
      BY DEF IInv, TypeOK
    <3>2. Served(WeightsNow(shards), StillIdle(shards), mixed)
      BY <1>1, <3>1, FollowServed DEF RotationInv
    <3> QED  BY <1>2, <2>1, <3>2
  <2>2. CASE \A p \in Providers : shards[p] = Absent
    <3>1. Occupied(shards) = {}
      BY <2>2 DEF Occupied
    <3>2. \A p \in Providers : WeightsNow(shards)[p] = 0
      BY <3>1 DEF WeightsNow
    <3> QED  BY <3>2 DEF Served
  <2> QED  BY <2>1, <2>2
<1>5. Below(shard, waited)'
  BY <1>2, <1>3 DEF Below
<1>6. Served(WeightsNow(shard), idle, mixed)'
  <2>1. WeightsNow(shard)' = WeightsNow(shards)
    BY DEF WeightsNow, Occupied, Weights
  <2> QED  BY <1>4, <2>1 DEF Served
<1> QED  BY <1>5, <1>6 DEF RotationInv

\* An update of a credential lets nobody fall behind a turn.
LEMMA UpsertRotation ==
    ASSUME IInv, RotationInv, IInv', NEW a \in Auths, NEW attributes \in Attributes[a],
           NEW supports \in BOOLEAN, NEW status \in States, Upsert(a, attributes, supports, status)
    PROVE  RotationInv'
<1> DEFINE s == [provider |-> attributes.provider, priority |-> attributes.priority,
                 parent |-> attributes.parent, ws |-> attributes.ws,
                 supports |-> supports, status |-> status]
           shards == Upserted(a, s)
<1>1. Follow(shards) /\ mixed' = mixed
  BY DEF Upsert
<1>2. shard' = shards
  BY <1>1 DEF Follow
<1>3. EntryOf(s, s.status) \in Entry
  <2>1. attributes \in [provider : Providers, priority : Priorities,
                        parent : Parents \cup {NoParent}, ws : BOOLEAN]
    BY SchedulerAssumption
  <2> QED  BY <2>1 DEF EntryOf, Entry
<1> HIDE DEF s
<1>4. ASSUME NEW p \in Providers, shard[p] # Absent, shards[p] # Absent
      PROVE  Steady(shard[p], shards[p])
  <2>1. Sane(shard[p])
    BY <1>4 DEF IInv, Good
  <2>2. CASE Supports(s, p)
    <3>1. shards[p] = UpsertEntry(shard[p], a, EntryOf(s, s.status))
      BY <1>4, <2>2 DEF Upserted
    <3> QED  BY <1>3, <2>1, <3>1, UpsertEntrySteady
  <2>3. CASE ~Supports(s, p)
    <3>1. shards[p] = RemoveEntry(shard[p], a)
      BY <1>4, <2>3 DEF Upserted
    <3> QED  BY <2>1, <3>1, RemoveEntrySteady
  <2> QED  BY <2>2, <2>3
<1> HIDE DEF shards
<1> QED  BY <1>1, <1>2, <1>4, FollowRotation

\* Nor does a removal.
LEMMA RemoveRotation ==
    ASSUME IInv, RotationInv, IInv', NEW a \in Auths, Remove(a)
    PROVE  RotationInv'
<1> DEFINE shards == [p \in Providers |-> IF shard[p] = Absent THEN Absent ELSE RemoveEntry(shard[p], a)]
<1>1. Follow(shards) /\ mixed' = mixed
  BY DEF Remove
<1>2. shard' = shards
  BY <1>1 DEF Follow
<1>3. ASSUME NEW p \in Providers, shard[p] # Absent
      PROVE  Steady(shard[p], shards[p])
  <2>1. Sane(shard[p]) /\ shards[p] = RemoveEntry(shard[p], a)
    BY <1>3 DEF IInv, Good
  <2> HIDE DEF shards
  <2> QED  BY <2>1, RemoveEntrySteady
<1> HIDE DEF shards
<1> QED  BY <1>1, <1>2, <1>3, FollowRotation

\* Nor does rebuilding the scheduler.
LEMMA RebuildAllRotation ==
    ASSUME IInv, RotationInv, IInv', RebuildAll
    PROVE  RotationInv'
<1> DEFINE shards == [p \in Providers |-> Absent]
<1>1. Follow(shards) /\ \A p \in Providers : shards[p] = Absent
  BY DEF RebuildAll
<1>2. shard' = shards
  BY <1>1 DEF Follow
<1> HIDE DEF shards
<1> QED  BY <1>1, <1>2, FollowRotation

\* Nothing happens to the shards.
LEMMA KeptRotation ==
    ASSUME IInv, RotationInv, shard' = shard, waited' = waited,
           \/ idle' = idle /\ mixed' = mixed
           \/ mixed' = 0 /\ \A p \in Providers : idle'[p] = 0
    PROVE  RotationInv'
<1>1. Below(shard, waited)'
  BY DEF RotationInv, Below
<1>2. WeightsNow(shard)' = WeightsNow(shard)
  BY DEF WeightsNow, Occupied, Weights
<1>3. Served(WeightsNow(shard), idle', mixed')
  <2>1. CASE idle' = idle /\ mixed' = mixed
    BY <2>1 DEF RotationInv
  <2>2. CASE mixed' = 0 /\ \A p \in Providers : idle'[p] = 0
    <3>1. WeightsNow(shard) \in Weighting
      BY WeightsNowTyped DEF IInv
    <3> QED  BY <2>2, <3>1, FreshServed
  <2> QED  BY <2>1, <2>2
<1>4. Served(WeightsNow(shard), idle, mixed)'
  BY <1>2, <1>3 DEF Served
<1> QED  BY <1>1, <1>4 DEF RotationInv

\* After a pick the views have the members of those it began with.
LEMMA PickedWeights ==
    ASSUME NEW shards, NEW snap, NEW passed, Good(shards, snap, passed),
           NEW p \in Providers, shards[p] # Absent, NEW k \in Priorities, NEW name \in {"all", "ws"},
           NEW ok \in SUBSET Auths, shards[p].bucket[k][name].flat \cap ok # {}, NEW how, NEW shards2,
           shards2[p] = Rotated(shards[p], k, name, ok, how),
           \A q \in Providers : q # p => shards2[q] = shards[q]
    PROVE  WeightsNow(shards2) = WeightsNow(shards)
<1>1. Sane(shards[p])
  BY DEF Good
<1>2. shards2[p] # Absent
  BY <1>1, RotatedSane, AbsentAssumption DEF Sane
<1>3. ASSUME NEW j \in Priorities
      PROVE  shards2[p].bucket[j].all.flat = shards[p].bucket[j].all.flat
  <2> DEFINE sh == shards[p]
             new == Rotated(sh, k, name, ok, how)
  <2>1. Sane(sh) /\ sh.bucket[k][name].flat \cap ok # {} /\ shards2[p] = new
    BY <1>1
  <2> HIDE DEF sh
  <2>2. new.bucket[j].all.flat = sh.bucket[j].all.flat
    BY <2>1, RotatedMembers, SMTT(60)
  <2> HIDE DEF new
  <2> QED  BY <2>1, <2>2 DEF sh
<1>4. ASSUME NEW q \in Providers
      PROVE  /\ shards2[q] = Absent <=> shards[q] = Absent
             /\ shards[q] # Absent =>
                  \A j \in Priorities : shards2[q].bucket[j].all.flat = shards[q].bucket[j].all.flat
  <2>1. CASE q = p
    BY <1>2, <1>3, <2>1
  <2>2. CASE q # p
    BY <2>2
  <2> QED  BY <2>1, <2>2
<1> QED  BY <1>4, SameWeights

\* A pick of one provider serves a member or brings each of those who could be served closer
\* to a turn.
LEMMA PickSingleRotation ==
    ASSUME IInv, RotationInv, NEW p \in Providers, NEW ok \in SUBSET Auths, NEW preferWs \in BOOLEAN,
           PickSingle(p, ok, preferWs)
    PROVE  RotationInv'
<1> DEFINE ensured == [shard EXCEPT ![p] = Ensured(p)]
<1>1. /\ Good(ensured, snapshot, due)
      /\ ensured[p] = Ensured(p) /\ ensured \in [Providers -> Shard \cup {Absent}]
      /\ UNCHANGED <<strategy, snapshot, due, mixed>>
      /\ idle' = StillIdle(ensured)
      /\ \/ shard' = ensured /\ waited' = StillWaiting(ensured)
         \/ \E k \in Priorities, name \in {"all", "ws"} : SingleStep(ensured, ok, p, k, name)
  <2>1. SingleResult(ensured, p, ok)
    BY SinglePick
  <2> HIDE DEF ensured
  <2> QED  BY <2>1 DEF SingleResult
<1>2. shard \in [Providers -> Shard \cup {Absent}] /\ mixed \in Nat /\ strategy \in {"roundRobin", "fillFirst"}
  BY DEF IInv, TypeOK
<1>3. \A q \in Providers : q # p => ensured[q] = shard[q]
  BY <1>2
<1>4. ensured[p] # Absent
  BY <1>1, EnsuredSane, AbsentAssumption DEF Sane
<1> HIDE DEF ensured
<1>5. \A q \in Providers : shard[q] # Absent /\ ensured[q] # Absent => Steady(shard[q], ensured[q])
  BY <1>1, <1>3, EnsuredSteady, SteadySelf
<1>6. Below(ensured, StillWaiting(ensured))
  BY <1>1, <1>5, FollowBelow DEF RotationInv
<1>7. Served(WeightsNow(ensured), StillIdle(ensured), mixed)
  BY <1>1, <1>2, FollowServed DEF RotationInv
<1>8. CASE shard' = ensured /\ waited' = StillWaiting(ensured)
  <2>1. Below(shard', waited') /\ Served(WeightsNow(shard'), idle', mixed')
    BY <1>1, <1>6, <1>7, <1>8
  <2> QED  BY <2>1 DEF RotationInv, Below, Served, WeightsNow, Occupied, Weights
<1>9. ASSUME NEW k \in Priorities, NEW name \in {"all", "ws"}, SingleStep(ensured, ok, p, k, name)
      PROVE  RotationInv'
  <2> DEFINE new == Rotated(ensured[p], k, name, ok, strategy)
             view == ensured[p].bucket[k].all
             still == StillWaiting(ensured)
             after == WaitedAfter(still, view, Choice(view, ok, strategy), ok)
  <2>1. /\ ensured[p].bucket[k][name].flat \cap ok # {}
        /\ shard' = [ensured EXCEPT ![p] = new]
        /\ waited' = IF name = "all" /\ strategy = "roundRobin" THEN after ELSE still
    BY <1>9 DEF SingleStep
  <2>2. shard'[p] = new /\ \A q \in Providers : q # p => shard'[q] = ensured[q]
    BY <1>1, <2>1
  <2>3. still \in [Auths -> Nat] /\ Sane(ensured[p])
    BY <1>1, <1>4, WaitingTyped DEF Good
  <2> HIDE DEF still
  <2> DEFINE shards2 == shard'
  <2>4. shards2[p] = new /\ \A q \in Providers : q # p => shards2[q] = ensured[q]
    BY <2>2
  <2> HIDE DEF shards2
  <2>5. Below(shards2, waited')
    <3>1. CASE strategy = "fillFirst" \/ name = "ws"
      <4>1. waited' = still
        BY <2>1, <3>1
      <4>2. Below(shards2, still)
        BY <1>4, <1>6, <2>3, <2>4, <3>1, UnmovedBelow DEF still
      <4> QED  BY <4>1, <4>2
    <3>2. CASE ~(strategy = "fillFirst" \/ name = "ws")
      <4>1. name = "all" /\ strategy # "fillFirst" /\ waited' = after /\ view.flat \cap ok # {}
        BY <1>2, <2>1, <3>2
      <4>2. shards2[p] = Rotated(ensured[p], k, "all", ok, strategy)
        BY <2>4, <4>1
      <4>3. Below(ensured, still)
        BY <1>6 DEF still
      <4>4. Below(shards2, after)
        BY <1>1, <1>4, <2>3, <2>4, <4>1, <4>2, <4>3, RotatedBelow
      <4> QED  BY <4>1, <4>4
    <3> QED  BY <3>1, <3>2
  <2>6. WeightsNow(shards2) = WeightsNow(ensured)
    BY <1>1, <1>4, <2>1, <2>4, PickedWeights
  <2>7. Served(WeightsNow(shards2), idle', mixed')
    BY <1>1, <1>7, <2>6
  <2> HIDE DEF new, view, after
  <2> QED  BY <2>5, <2>7 DEF shards2, RotationInv, Below, Served, WeightsNow, Occupied, Weights
<1> QED  BY <1>1, <1>8, <1>9

\* A free mixed pick serves the provider in whose segment the slot lies, and moves on by
\* one slot; after any other mixed pick everybody is counted anew.
LEMMA MixedServed ==
    ASSUME NEW shards, NEW snap, NEW passed, Good(shards, snap, passed), \A q \in Providers : shards[q] # Absent,
           mixed \in Nat, NEW still \in [Providers -> Nat], Served(WeightsNow(shards), still, mixed),
           still = StillIdle(shards),
           NEW ok \in SUBSET Auths, NEW p \in Providers, NEW k \in Priorities, strategy # "fillFirst",
           MixedStep(shards, ok, p, k)
    PROVE  Served(WeightsNow(shards), idle', mixed')
<1> DEFINE weights == Weights(shards, k)
           able == {q \in Providers : Eligible(shards[q], k, ok) # {}}
           s == StartSlot(weights)
<1>1. /\ p \in able
      /\ ok = Auths => Occupied(shards) # {} /\ k = Highest(Occupied(shards))
      /\ p = NextFrom(Providers, Index(Providers, StartProvider(weights)), able)
      /\ idle' = IdleAfter(shards, weights, p, ok)
      /\ mixed' = NextSlot(weights, p)
  BY DEF MixedStep
<1>2. weights \in Weighting /\ WeightsNow(shards) \in Weighting
  BY WeightsTyped, WeightsNowTyped DEF Weighting
<1>3. weights[p] > 0
  <2>1. shards[p].bucket[k].all.flat # {}
    BY <1>1 DEF Eligible
  <2> QED  BY <2>1, WeightsTyped
<1>4. \A q \in Providers : idle'[q] = IF q = p \/ weights[q] = 0 \/ ok # Auths THEN 0 ELSE still[q] + 1
  <2> HIDE DEF weights
  <2> QED  BY <1>1 DEF IdleAfter
<1>5. mixed' \in Nat
  <2>1. NextSlot(weights, p) \in Nat
    BY <1>2, <1>3, NextSlotTyped DEF Weighting
  <2> QED  BY <1>1, <2>1
<1>6. CASE ok # Auths
  <2>1. \A q \in Providers : idle'[q] = 0
    BY <1>4, <1>6
  <2> QED  BY <1>2, <1>5, <2>1, FreshServed
<1>7. CASE ok = Auths
  <2>1. weights = WeightsNow(shards)
    BY <1>1, <1>7 DEF WeightsNow
  <2>2. /\ StartProvider(weights) \in Providers /\ weights[StartProvider(weights)] > 0
        /\ s \in Nat /\ s < Total(weights) /\ s = mixed % Total(weights)
        /\ SegmentStart(weights, StartProvider(weights)) <= s
        /\ s < SegmentStart(weights, StartProvider(weights)) + weights[StartProvider(weights)]
    BY <1>2, <1>3, StartSays
  <2>3. StartProvider(weights) \in able
    <3> DEFINE q == StartProvider(weights)
    <3>1. q \in Providers /\ weights[q] > 0
      BY <2>2
    <3> HIDE DEF q
    <3> DEFINE flat == shards[q].bucket[k].all.flat
    <3>2. Cardinality(flat) > 0
      BY <3>1 DEF Weights
    <3>3. flat # {}
      <4> HIDE DEF flat
      <4>1. Cardinality({}) = 0
        BY FS_EmptySet
      <4> QED  BY <3>2, <4>1
    <3>4. shards[q].bucket[k].all.flat \in SUBSET Auths
      BY <3>1, GoodFit
    <3>5. Eligible(shards[q], k, ok) # {}
      BY <1>7, <3>3, <3>4 DEF Eligible
    <3> QED  BY <3>1, <3>5 DEF q
  <2>4. p = StartProvider(weights)
    <3>1. Providers \in SUBSET Nat /\ IsFiniteSet(Providers) /\ able \in SUBSET Providers
      BY SchedulerAssumption
    <3> HIDE DEF able
    <3> QED  BY <1>1, <2>3, <3>1, NextFromHere
  <2>5. mixed' = s + 1
    BY <1>1, <2>4 DEF NextSlot
  <2> HIDE DEF weights, able, s
  <2> SUFFICES ASSUME NEW q \in Providers, weights[q] > 0
               PROVE  idle'[q] + Gap(weights, mixed' % Total(weights), q) <= Total(weights) - weights[q]
    BY <2>1 DEF Served
  <2>6. mixed' % Total(weights) \in Nat /\ mixed' % Total(weights) < Total(weights)
    BY <1>2, <1>5, SlotTyped
  <2> DEFINE gap == Gap(weights, mixed' % Total(weights), q)
  <2>7. gap \in Nat /\ gap <= Total(weights) - weights[q]
    BY <1>2, <2>6, GapFits
  <2>8. CASE q = p
    <3>1. idle'[q] = 0
      BY <1>4, <2>8
    <3> HIDE DEF gap
    <3>2. idle'[q] + gap = gap
      BY <2>7, <3>1
    <3> QED  BY <2>7, <3>2 DEF gap
  <2>9. CASE q # p
    <3>1. weights[q] \in Nat /\ Total(weights) \in Nat
      BY <1>2, SegmentCounts
    <3>2. idle'[q] = still[q] + 1 /\ still[q] \in Nat
      BY <1>4, <1>7, <2>9, <3>1
    <3>3. Gap(weights, (s + 1) % Total(weights), q) + 1 <= Gap(weights, s, q)
      BY <1>2, <2>2, <2>4, <2>9, GapShrinks
    <3>4. gap + 1 <= Gap(weights, s, q)
      BY <2>5, <3>3
    <3>5. still[q] + Gap(weights, s, q) <= Total(weights) - weights[q]
      BY <2>1, <2>2 DEF Served
    <3>6. Gap(weights, s, q) \in Nat
      BY <1>2, <2>2, GapFits
    <3> HIDE DEF gap
    <3>7. idle'[q] + gap <= Total(weights) - weights[q]
      BY <2>7, <3>1, <3>2, <3>4, <3>5, <3>6
    <3> QED  BY <3>7 DEF gap
  <2> QED  BY <2>8, <2>9
<1> QED  BY <1>6, <1>7

\* So does a mixed pick, for members and for providers.
LEMMA PickMixedRotation ==
    ASSUME IInv, RotationInv, NEW ok \in SUBSET Auths, PickMixed(ok)
    PROVE  RotationInv'
<1> DEFINE ensured == [q \in Providers |-> Ensured(q)]
<1>1. /\ Good(ensured, snapshot, due) /\ \A q \in Providers : ensured[q] # Absent
      /\ UNCHANGED <<strategy, snapshot, due>>
      /\ \/ /\ shard' = ensured /\ waited' = StillWaiting(ensured)
            /\ idle' = StillIdle(ensured) /\ mixed' = mixed
         \/ \E p \in Providers, k \in Priorities : MixedStep(ensured, ok, p, k)
  BY MixedPick
<1>2. ensured = [q \in Providers |-> ensured[q]] /\ mixed \in Nat
  BY DEF IInv, TypeOK
<1>3. \A q \in Providers : shard[q] # Absent /\ ensured[q] # Absent => Steady(shard[q], ensured[q])
  BY EnsuredSteady
<1> HIDE DEF ensured
<1>4. Below(ensured, StillWaiting(ensured))
  BY <1>1, <1>3, FollowBelow DEF RotationInv
<1>5. Served(WeightsNow(ensured), StillIdle(ensured), mixed)
  BY <1>1, <1>2, FollowServed DEF RotationInv
<1>6. StillWaiting(ensured) \in [Auths -> Nat] /\ StillIdle(ensured) \in [Providers -> Nat]
  BY WaitingTyped
<1>7. CASE /\ shard' = ensured /\ waited' = StillWaiting(ensured)
           /\ idle' = StillIdle(ensured) /\ mixed' = mixed
  <2>1. Below(shard', waited') /\ Served(WeightsNow(shard'), idle', mixed')
    BY <1>4, <1>5, <1>7
  <2> QED  BY <2>1 DEF RotationInv, Below, Served, WeightsNow, Occupied, Weights
<1>8. ASSUME NEW p \in Providers, NEW k \in Priorities, MixedStep(ensured, ok, p, k)
      PROVE  RotationInv'
  <2> DEFINE view == ensured[p].bucket[k].all
             still == StillWaiting(ensured)
             after == WaitedAfter(still, view, Choice(view, ok, strategy), ok)
             shards2 == shard'
  <2>1. /\ view.flat \cap ok # {}
        /\ shard' = [ensured EXCEPT ![p] = Rotated(ensured[p], k, "all", ok, strategy)]
        /\ strategy = "fillFirst" => waited' = still /\ idle' = StillIdle(ensured) /\ mixed' = mixed
        /\ strategy # "fillFirst" => waited' = after
    BY <1>8 DEF MixedStep, Eligible
  <2>2. shards2[p] = Rotated(ensured[p], k, "all", ok, strategy)
        /\ \A q \in Providers : q # p => shards2[q] = ensured[q]
    BY <1>2, <2>1
  <2>3. Sane(ensured[p]) /\ ensured[p] # Absent
    BY <1>1 DEF Good
  <2> HIDE DEF shards2
  <2>4. Below(shards2, waited')
    <3>1. CASE strategy = "fillFirst"
      <4>1. Below(shards2, still)
        BY <1>4, <2>2, <2>3, <3>1, UnmovedBelow
      <4> QED  BY <2>1, <3>1, <4>1
    <3>2. CASE strategy # "fillFirst"
      <4>1. still \in [Auths -> Nat] /\ Below(ensured, still)
        BY <1>4, <1>6
      <4> HIDE DEF still
      <4>2. Below(shards2, after)
        BY <1>1, <2>1, <2>2, <2>3, <3>2, <4>1, RotatedBelow
      <4> QED  BY <2>1, <3>2, <4>2
    <3> QED  BY <3>1, <3>2
  <2>5. WeightsNow(shards2) = WeightsNow(ensured)
    <3>1. ensured[p].bucket[k]["all"].flat \cap ok # {}
      BY <2>1
    <3> QED  BY <1>1, <2>2, <2>3, <3>1, PickedWeights
  <2>6. Served(WeightsNow(ensured), idle', mixed')
    <3>1. CASE strategy = "fillFirst"
      BY <1>5, <2>1, <3>1
    <3>2. CASE strategy # "fillFirst"
      BY <1>1, <1>2, <1>5, <1>6, <1>8, <3>2, MixedServed
    <3> QED  BY <3>1, <3>2
  <2>7. Served(WeightsNow(shards2), idle', mixed')
    BY <2>5, <2>6
  <2> HIDE DEF view, still, after
  <2> QED  BY <2>4, <2>7 DEF shards2, RotationInv, Below, Served, WeightsNow, Occupied, Weights
<1> QED  BY <1>1, <1>7, <1>8

(***************************************************************************)
(* The theorems                                                            *)
(***************************************************************************)

\* The invariant holds at the start.
LEMMA Initially == Init => IInv
<1> SUFFICES ASSUME Init PROVE IInv
  OBVIOUS
<1>1. TypeOK
  BY DEF Init, TypeOK
<1>2. Good(shard, snapshot, due)
  BY DEF Init, Good
<1> QED  BY <1>1, <1>2 DEF IInv

\* Every step keeps the invariant.
LEMMA Inductive == IInv /\ [Next]_vars => IInv'
<1> SUFFICES ASSUME IInv, [Next]_vars PROVE IInv'
  OBVIOUS
<1>1. ASSUME NEW a \in Auths, NEW attributes \in Attributes[a], NEW supports \in BOOLEAN,
             NEW status \in States, Upsert(a, attributes, supports, status)
      PROVE  IInv'
  BY <1>1, UpsertInv
<1>2. ASSUME NEW a \in Auths, Remove(a) PROVE IInv'
  BY <1>2, RemoveInv
<1>3. ASSUME NEW a \in Auths, DeadlinePasses(a) PROVE IInv'
  BY <1>3, DeadlinePassesInv
<1>4. ASSUME RebuildAll PROVE IInv'
  BY <1>4, RebuildAllInv
<1>5. ASSUME NEW new \in {"roundRobin", "fillFirst"}, SetSelector(new) PROVE IInv'
  BY <1>5, SetSelectorInv
<1>6. ASSUME NEW ok \in SUBSET Auths, NEW p \in Providers, NEW preferWs \in BOOLEAN,
             PickSingle(p, ok, preferWs)
      PROVE  IInv'
  BY <1>6, PickSingleInv
<1>7. ASSUME NEW ok \in SUBSET Auths, PickMixed(ok) PROVE IInv'
  BY <1>7, PickMixedInv
<1>8. CASE UNCHANGED vars
  <2>1. UNCHANGED <<strategy, snapshot, due, shard, mixed, waited, idle>>
    BY <1>8 DEF vars
  <2>2. TypeOK'
    BY <2>1 DEF IInv, TypeOK
  <2>3. Good(shard, snapshot, due)'
    BY <2>1 DEF IInv, Good
  <2> QED  BY <2>2, <2>3 DEF IInv
<1> QED  BY <1>1, <1>2, <1>3, <1>4, <1>5, <1>6, <1>7, <1>8 DEF Next

\* Nothing that the manager or a request can do to the scheduler disturbs the order in
\* its shards.
THEOREM Invariance == Spec => []IInv
  BY Initially, Inductive, PTL DEF Spec

\* In particular, no cursor of a view points past its end: the picks index into the views
\* with it.
THEOREM TypeCorrect == Spec => []TypeOK
<1>1. IInv => TypeOK
  BY DEF IInv
<1> QED  BY <1>1, Invariance, PTL

\* An upsert that finds its entry unchanged, a removal of what has no entry and a pick
\* with nothing to promote leave the views alone; they are the views of the entries all
\* the same, and the entries those of the last reported snapshots.
THEOREM ViewsFollowEntries == Spec => []ShardsAgree
<1>1. IInv => ShardsAgree
  <2> SUFFICES ASSUME IInv, NEW p \in Providers, shard[p] # Absent
               PROVE  /\ \A a \in Auths : EntryIsCurrent(p, a)
                      /\ \A k \in Priorities :
                             /\ ViewAgrees(shard[p].bucket[k].all, ReadyAt(shard[p].entry, k), shard[p].entry)
                             /\ ViewAgrees(shard[p].bucket[k].ws, ReadyWebsockets(shard[p].entry, k),
                                           shard[p].entry)
    BY DEF ShardsAgree
  <2>1. Sane(shard[p]) /\ CurrentFor(shard[p], p, snapshot, due)
    BY DEF IInv, Good
  <2>2. \A a \in Auths : EntryIsCurrent(p, a)
    BY <2>1 DEF CurrentFor, EntryIsCurrent, StateNow
  <2> QED  BY <2>1, <2>2 DEF Sane, ViewsAgree
<1> QED  BY <1>1, Invariance, PTL

\* Every step keeps the invariant of the rotations.
LEMMA RotationInductive == IInv /\ RotationInv /\ [Next]_vars => RotationInv'
<1> SUFFICES ASSUME IInv, RotationInv, [Next]_vars PROVE RotationInv'
  OBVIOUS
<1>0. IInv'
  BY Inductive
<1>1. ASSUME NEW a \in Auths, NEW attributes \in Attributes[a], NEW supports \in BOOLEAN,
             NEW status \in States, Upsert(a, attributes, supports, status)
      PROVE  RotationInv'
  BY <1>0, <1>1, UpsertRotation
<1>2. ASSUME NEW a \in Auths, Remove(a) PROVE RotationInv'
  BY <1>0, <1>2, RemoveRotation
<1>3. ASSUME NEW a \in Auths, DeadlinePasses(a) PROVE RotationInv'
  BY <1>3, KeptRotation DEF DeadlinePasses
<1>4. ASSUME RebuildAll PROVE RotationInv'
  BY <1>0, <1>4, RebuildAllRotation
<1>5. ASSUME NEW new \in {"roundRobin", "fillFirst"}, SetSelector(new) PROVE RotationInv'
  <2>1. shard' = shard /\ waited' = waited /\ mixed' = 0 /\ \A p \in Providers : idle'[p] = 0
    BY <1>5 DEF SetSelector
  <2> QED  BY <2>1, KeptRotation
<1>6. ASSUME NEW ok \in SUBSET Auths, NEW p \in Providers, NEW preferWs \in BOOLEAN,
             PickSingle(p, ok, preferWs)
      PROVE  RotationInv'
  BY <1>6, PickSingleRotation
<1>7. ASSUME NEW ok \in SUBSET Auths, PickMixed(ok) PROVE RotationInv'
  BY <1>7, PickMixedRotation
<1>8. CASE UNCHANGED vars
  BY <1>8, KeptRotation DEF vars
<1> QED  BY <1>1, <1>2, <1>3, <1>4, <1>5, <1>6, <1>7, <1>8 DEF Next

\* The invariant of the rotations holds at the start.
LEMMA RotationInitially == Init => RotationInv
<1> SUFFICES ASSUME Init PROVE RotationInv
  OBVIOUS
<1>1. \A p \in Providers : shard[p] = Absent
  BY DEF Init
<1>2. Occupied(shard) = {}
  BY <1>1 DEF Occupied
<1>3. \A p \in Providers : WeightsNow(shard)[p] = 0
  BY <1>2 DEF WeightsNow
<1> QED  BY <1>1, <1>3 DEF RotationInv, Below, Served

\* Both invariants always hold.
LEMMA RotationInvariance == Spec => [](IInv /\ RotationInv)
<1>1. Init => IInv /\ RotationInv
  BY Initially, RotationInitially
<1>2. (IInv /\ RotationInv) /\ [Next]_vars => (IInv /\ RotationInv)'
  BY Inductive, RotationInductive
<1> QED  BY <1>1, <1>2, PTL DEF Spec

\* Within one round of picks that everybody may take, a view that keeps its members, and
\* whatever happens to its cursors and to other views in between, serves each of them.
THEOREM EverybodysTurn == Spec => []TurnComes
<1>1. IInv /\ RotationInv => TurnComes
  <2> SUFFICES ASSUME IInv, RotationInv, NEW p \in Providers, NEW k \in Priorities, shard[p] # Absent,
                      NEW a \in shard[p].bucket[k].all.flat
               PROVE  waited[a] < Round(shard[p].bucket[k].all, a)
    BY DEF TurnComes
  <2> DEFINE view == shard[p].bucket[k].all
  <2>1. Fit(view) /\ a \in Auths
    BY GoodFit DEF IInv
  <2>2. waited[a] \in Nat
    BY <2>1 DEF IInv, TypeOK
  <2>3. waited[a] + Turn(view, a) < Round(view, a)
    BY DEF RotationInv, Below
  <2>4. Turn(view, a) \in Nat /\ Round(view, a) \in Nat
    <3>1. a \in view.flat
      OBVIOUS
    <3> HIDE DEF view
    <3> QED  BY <2>1, <3>1, TurnFits
  <2> HIDE DEF view
  <2>5. waited[a] < Round(view, a)
    BY <2>2, <2>3, <2>4
  <2> QED  BY <2>5 DEF view
<1> QED  BY <1>1, RotationInvariance, PTL

\* As long as the numbers of ready credentials stay the same, every provider is served by
\* the mixed picks that everybody may take after at most the segments of the others.
THEOREM EverySegment == Spec => []SegmentComes
<1>1. IInv /\ RotationInv => SegmentComes
  <2> SUFFICES ASSUME IInv, RotationInv, NEW p \in Providers, WeightsNow(shard)[p] > 0
               PROVE  idle[p] <= Cardinality(Slots(WeightsNow(shard))) - WeightsNow(shard)[p]
    BY DEF SegmentComes
  <2> DEFINE weights == WeightsNow(shard)  gap == Gap(weights, mixed % Total(weights), p)
  <2>1. weights \in Weighting /\ mixed \in Nat /\ idle[p] \in Nat
    BY WeightsNowTyped DEF IInv, TypeOK
  <2>2. idle[p] + gap <= Total(weights) - weights[p]
    BY DEF RotationInv, Served
  <2> HIDE DEF weights
  <2>3. weights[p] > 0
    BY DEF weights
  <2>4. mixed % Total(weights) \in Nat /\ mixed % Total(weights) < Total(weights)
    BY <2>1, <2>3, SlotTyped
  <2>5. gap \in Nat /\ Total(weights) \in Nat /\ weights[p] \in Nat
    BY <2>1, <2>3, <2>4, GapFits, SegmentCounts
  <2> HIDE DEF gap
  <2>6. idle[p] <= Total(weights) - weights[p]
    BY <2>1, <2>2, <2>5
  <2> QED  BY <2>6 DEF weights, Total
<1> QED  BY <1>1, RotationInvariance, PTL
=============================================================================
