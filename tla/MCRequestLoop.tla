---------------------------- MODULE MCRequestLoop ----------------------------
(***************************************************************************)
(* An instance of RequestLoop: a1 has a pool of two upstream models, which *)
(* never fail under the name the client asks for, a2 has none, is prepared *)
(* and may be waited for once.  One of four casts is on, chosen at the     *)
(* start; a request that is off stays off.                                 *)
(*   - r1, with updates and registrations beside it.  Both credentials are *)
(*     prepared, and a hold lasts one unit.                                *)
(*   - r1 and r2, with refreshes and updates beside them.  a1 is disabled, *)
(*     and nothing is held.                                                *)
(*   - r2, with registrations beside it.                                   *)
(*   - The stream r3, whose client may leave.                              *)
(***************************************************************************)
EXTENDS RequestLoop, TLC

CONSTANTS a1, a2, r1, r2, r3, w1, w2, route, up1, up2

MCPool == [a \in Auths |-> IF a = a1 THEN {up1, up2} ELSE {route}]
MCRetry == [a \in Auths |-> IF a = a2 THEN 1 ELSE 0]
MCDoes == [w \in Workers |-> IF w = w1 THEN {"update", "register"} ELSE {"refresh", "update"}]

Updated == {r1}
Preparing == {r1, r2}
Calling == {r2}
Streaming == {r3}

Off == [Idle EXCEPT !.pc = "off", !.cancelled = TRUE]
Cast == {r \in Requests : request[r].pc # "off"}

\* How a cast finds the credentials
Found(cast) ==
    [a \in Auths |->
        IF cast = Updated THEN [Loaded[a] EXCEPT !.prepared = TRUE]
        ELSE IF cast = Preparing /\ a = a1 THEN [Loaded[a] EXCEPT !.enabled = FALSE]
        ELSE Loaded[a]]

MCInit ==
    \E cast \in {Updated, Preparing, Calling, Streaming} :
        /\ Still(Found(cast))
        /\ request = [r \in Requests |-> IF r \in cast THEN Idle ELSE Off]

Resting(w) == taken[w] = Nothing /\ late[w] = Nothing
NoWaits == \A r \in Requests : request[r].pc # "wait"

\* What keeps the instance small
Within ==
    /\ Cast = Updated =>
         /\ Resting(w2) /\ NoWaits
         /\ \A a \in Auths : record[a].prepared /\ \A m \in Models : record[a].hold[m] <= 1
    /\ Cast = Preparing =>
         /\ Resting(w1) /\ NoWaits
         /\ taken[w2].auth # a1
         /\ record[a1] = Found(Preparing)[a1] /\ record[a2].hold = NoHold
    /\ Cast = Calling => Resting(w2) /\ taken[w1] = Nothing
    /\ Cast = Streaming => Resting(w1) /\ Resting(w2)

MCSpec == MCInit /\ [][Next /\ Within']_vars

\* The same, with the credentials watched that are usable by their record alone
RecordSpec ==
    /\ Init
    /\ [][/\ Action
          /\ passed' = Watch({a \in Auths : Serves(a, record'[a])})]_vars

\* A pool is gone through from any of its models, so the two are alike.
MCSymmetry == Permutations({up1, up2})
=============================================================================
