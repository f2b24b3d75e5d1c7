------------------------------ MODULE UsageFeed ------------------------------
(***************************************************************************)
(* What the usage queue promises about the payloads it is given, one after *)
(* the other: each is told to the subscribers or waits for a reader, those *)
(* that wait are taken in their order, and what is given up is the oldest. *)
(* What was sent away and did not get through waits once more.             *)
(***************************************************************************)
EXTENDS Naturals, Sequences, SequencesExt

VARIABLES
    given,    \* number of payloads so far, which are numbered
    waiting,
    away,     \* with the forwarder of home mode
    told,     \* to whoever subscribed
    taken     \* by readers

vars == <<given, waiting, away, told, taken>>

Init ==
    /\ given = 0
    /\ waiting = <<>>
    /\ away = {}
    /\ told = <<>>
    /\ taken = <<>>

\* What may be left of the waiting ones when the oldest have been given up.
Left == {SubSeq(waiting, i, Len(waiting)) : i \in 1 .. Len(waiting) + 1}

Refuse == given' = given + 1 /\ UNCHANGED <<waiting, away, told, taken>>

Tell ==
    /\ given' = given + 1
    /\ told' = Append(told, given')
    /\ UNCHANGED <<waiting, away, taken>>

Keep ==
    /\ given' = given + 1
    /\ \E left \in Left : waiting' = Append(left, given')
    /\ UNCHANGED <<away, told, taken>>

Take ==
    /\ \E left \in Left : \E n \in 0 .. Len(left) :
           /\ taken' = taken \o SubSeq(left, 1, n)
           /\ waiting' = SubSeq(left, n + 1, Len(left))
    /\ UNCHANGED <<given, away, told>>

SendAway ==
    /\ away = {}
    /\ \E left \in Left : \E n \in 0 .. Len(left) :
           /\ away' = ToSet(SubSeq(left, 1, n))
           /\ waiting' = SubSeq(left, n + 1, Len(left))
    /\ UNCHANGED <<given, told, taken>>

Arrive ==
    /\ \E payload \in away : away' = away \ {payload}
    /\ UNCHANGED <<given, waiting, told, taken>>

ComeBack ==
    /\ \E payload \in away, left \in Left :
           /\ away' = away \ {payload}
           /\ waiting' = Append(left, payload)
    /\ UNCHANGED <<given, told, taken>>

Next == Refuse \/ Tell \/ Keep \/ Take \/ SendAway \/ Arrive \/ ComeBack

Spec == Init /\ [][Next]_vars
=============================================================================
