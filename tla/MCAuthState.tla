----------------------------- MODULE MCAuthState -----------------------------
(***************************************************************************)
(* An instance of AuthState: two models of one credential, and one of      *)
(* three casts, chosen at the start: results alone, with failures of every *)
(* kind; a writer who refreshes and does the service's updates; or two     *)
(* who refresh, of whom one is a management handler as well.  A writer     *)
(* who is off stays off.                                                   *)
(***************************************************************************)
EXTENDS AuthState, TLC

CONSTANTS w1, w2, w3

MCNoHint == -1
MCHints == {2}

MCDoes ==
    [w \in Writers |->
        {"refresh"} \cup (IF w = w2 THEN {"edit"} ELSE {})
                    \cup (IF w = w3 THEN {"service"} ELSE {})]

Off == [work |-> "off", auth |-> Fresh(FALSE), tracked |-> {}, states |-> NoStates]
WritersOn == {w \in Writers : copy[w] # Off}

MCInit ==
    /\ now = 1
    /\ tracked = {}
    /\ states = NoStates
    /\ auth = Fresh(FALSE)
    /\ coolingOff = FALSE
    /\ \E on \in {{}, {w3}, {w1, w2}} : copy = [w \in Writers |-> IF w \in on THEN NoCopy ELSE Off]

\* What keeps the instance small: beside writers calls fail only with 429s that name no
\* time to wait, and where there are two writers, the clock stands still, cooldowns are
\* on and no second model is used.
Cooled(s) == s.err \in {None, "quota"} /\ (s.level = 0 => s.recover = Zero)
Used(m) == m \in tracked \/ \E w \in WritersOn : copy[w] # NoCopy /\ m \in copy[w].tracked

Within ==
    /\ WritersOn # {} => \A m \in Models : Cooled(states[m])
    /\ w1 \in WritersOn => now = 1 /\ ~coolingOff /\ \E m \in Models : ~Used(m)

MCSpec == MCInit /\ [][Next /\ Within']_vars

\* The models are interchangeable: no definition or property tells them apart.
MCSymmetry == Permutations(Models)
==============================================================================
