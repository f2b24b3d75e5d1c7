------------------------ MODULE SessionAffinityProofs ------------------------
(***************************************************************************)
(* Theorems about SessionAffinity, for any number of requests, sessions    *)
(* and credentials.                                                        *)
(***************************************************************************)
EXTENDS SessionAffinity, TLAPS

(***************************************************************************)
(* The invariant                                                           *)
(***************************************************************************)

\* A request that works on a binding has a key for it, and one that deletes the binding
\* of another session inherits from that session.
KeysKnown ==
    \A r \in Requests :
        /\ request[r].pc \in {"refresh", "inherit", "judge", "drop", "bind"} => Key(r) \in Keys
        /\ request[r].pc \in {"inherit", "judge", "drop"} => Parent(r) \in Keys /\ Parent(r) # Key(r)
        /\ At(r, "judge") => request[r].seen \in Binding

\* No hold begins while a credential is chosen, and the chosen one was offered.
OfferStands ==
    \A r \in Requests :
        /\ request[r].offered \cap held = {}
        /\ At(r, "idle") <=> request[r].offered = {}
        /\ request[r].pc \in {"bind", "done"} => request[r].auth \in request[r].offered

\* The clock of a request is behind.
ClockBehind == \A r \in Requests : request[r].clock <= now

IInv == TypeOK /\ KeysKnown /\ OfferStands /\ ClockBehind

LEMMA IdleTyped == Idle \in Request /\ Idle.pc = "idle" /\ Idle.offered = {} /\ Idle.clock = 0
<1> DEFINE turn == CHOOSE t \in Turns : TRUE
<1>1. turn \in Turns
  <2>1. \E t \in Turns : TRUE
    BY AffinityAssumption
  <2> QED  BY <2>1
<1>2. Idle = [pc |-> "idle", turn |-> turn, offered |-> {}, clock |-> 0, seen |-> None, auth |-> None]
  BY DEF Idle
<1> HIDE DEF turn
<1> QED  BY <1>1, <1>2 DEF Request

\* What is to be shown of a request's step.
Sound(q, at, blocked) ==
    /\ q \in Request
    /\ q.pc \in {"refresh", "inherit", "judge", "drop", "bind"} => q.turn.key \in Keys
    /\ q.pc \in {"inherit", "judge", "drop"} => q.turn.parent \in Keys /\ q.turn.parent # q.turn.key
    /\ q.pc = "judge" => q.seen \in Binding
    /\ q.offered \cap blocked = {}
    /\ q.pc = "idle" <=> q.offered = {}
    /\ q.pc \in {"bind", "done"} => q.auth \in q.offered
    /\ q.clock <= at

LEMMA AllSound == ASSUME TypeOK PROVE IInv <=> \A r \in Requests : Sound(request[r], now, held)
  BY DEF IInv, TypeOK, KeysKnown, OfferStands, ClockBehind, Sound, At, Key, Parent

LEMMA Assemble ==
    ASSUME IInv, NEW r \in Requests, NEW q, Sound(q, now, held),
           request' = [request EXCEPT ![r] = q],
           entries' \in [Keys -> Binding \cup {None}],
           UNCHANGED <<now, held, selector, sweeping, stopped>>
    PROVE  IInv'
<1>1. request' \in [Requests -> Request] /\ request'[r] = q
      /\ \A p \in Requests : p # r => request'[p] = request[p]
  BY DEF IInv, TypeOK, Sound
<1>2. TypeOK'
  BY <1>1 DEF IInv, TypeOK
<1>3. \A p \in Requests : Sound(request[p], now, held)
  BY AllSound DEF IInv
<1>4. \A p \in Requests : Sound(request'[p], now, held)
  BY <1>1, <1>3
<1>5. KeysKnown' /\ OfferStands' /\ ClockBehind'
  BY <1>4 DEF KeysKnown, OfferStands, ClockBehind, Sound, At, Key, Parent
<1> QED  BY <1>2, <1>5 DEF IInv

(***************************************************************************)
(* Steps of a request                                                      *)
(***************************************************************************)

LEMMA StepStart ==
    ASSUME IInv, NEW r \in Requests, NEW turn \in Turns, NEW offered \in SUBSET (Auths \ held),
           Start(r, turn, offered)
    PROVE  IInv'
<1> DEFINE q == [Idle EXCEPT !.pc = IF turn.key = None THEN "choose" ELSE "refresh",
                             !.turn = turn, !.offered = offered, !.clock = now]
<1>1. turn.key \in Keys \cup {None} /\ now \in Nat /\ held \in SUBSET Auths
  BY AffinityAssumption DEF IInv, TypeOK
<1>2. q \in Request /\ q.turn = turn /\ q.offered = offered /\ q.clock = now
      /\ q.pc = (IF turn.key = None THEN "choose" ELSE "refresh")
  BY <1>1, IdleTyped DEF Request
<1> HIDE DEF q
<1>3. Sound(q, now, held)
  BY <1>1, <1>2 DEF Sound, Start
<1> QED  BY <1>3, Assemble DEF Start, ManagerUnchanged, q, IInv, TypeOK

LEMMA Moved ==
    ASSUME IInv, NEW r \in Requests, NEW pc
    PROVE  Goto(r, pc) = [request EXCEPT ![r] =
               [request[r] EXCEPT !.pc = pc, !.clock = 0, !.seen = None]]
  BY DEF Goto, IInv, TypeOK

With(q, pc, auth) == [q EXCEPT !.pc = pc, !.clock = 0, !.seen = None, !.auth = auth]

LEMMA MovedWith ==
    ASSUME IInv, NEW r \in Requests, NEW pc, NEW auth
    PROVE  GotoWith(r, pc, auth) = [request EXCEPT ![r] = With(request[r], pc, auth)]
<1>1. request[r] \in Request /\ request = [p \in Requests |-> request[p]]
  BY DEF IInv, TypeOK
<1> QED  BY <1>1 DEF GotoWith, Goto, With, Request

\* Where a request may go without choosing
LEMMA GotoInv ==
    ASSUME IInv, NEW r \in Requests, NEW pc \in {"inherit", "drop", "choose"},
           pc # "choose" => /\ Key(r) \in Keys /\ Parent(r) \in Keys /\ Parent(r) # Key(r),
           request[r].offered # {},
           request' = Goto(r, pc),
           entries' \in [Keys -> Binding \cup {None}],
           UNCHANGED <<now, held, selector, sweeping, stopped>>
    PROVE  IInv'
<1> DEFINE q == [request[r] EXCEPT !.pc = pc, !.clock = 0, !.seen = None]
<1>1. request[r] \in Request /\ request[r].offered \cap held = {} /\ now \in Nat
  BY DEF IInv, TypeOK, OfferStands
<1>2. q \in Request /\ q.pc = pc /\ q.clock = 0 /\ q.turn = request[r].turn
      /\ q.offered = request[r].offered
  BY <1>1 DEF Request
<1>3. request' = [request EXCEPT ![r] = q]
  BY Moved
<1> HIDE DEF q
<1>4. Sound(q, now, held)
  BY <1>1, <1>2 DEF Sound, Key, Parent
<1> QED  BY <1>3, <1>4, Assemble

LEMMA GotoWithInv ==
    ASSUME IInv, NEW r \in Requests, NEW pc \in {"bind", "done"}, NEW auth \in request[r].offered,
           pc = "bind" => Key(r) \in Keys,
           request' = GotoWith(r, pc, auth),
           entries' \in [Keys -> Binding \cup {None}],
           UNCHANGED <<now, held, selector, sweeping, stopped>>
    PROVE  IInv'
<1> DEFINE q == With(request[r], pc, auth)
<1>1. request[r] \in Request /\ request[r].offered \cap held = {} /\ now \in Nat
  BY DEF IInv, TypeOK, OfferStands
<1>2. q \in Request /\ q.pc = pc /\ q.clock = 0 /\ q.turn = request[r].turn
      /\ q.offered = request[r].offered /\ q.auth = auth
  BY <1>1 DEF Request, With
<1>3. request' = [request EXCEPT ![r] = q]
  BY MovedWith
<1> HIDE DEF q
<1>4. Sound(q, now, held)
  BY <1>1, <1>2 DEF Sound, Key, Parent
<1> QED  BY <1>3, <1>4, Assemble

LEMMA Known ==
    ASSUME IInv, NEW r \in Requests
    PROVE  /\ request[r].turn \in Turns /\ Key(r) \in Keys \cup {None} /\ Parent(r) \in Keys \cup {None}
           /\ None \notin Keys /\ None \notin Auths
  BY AffinityAssumption DEF IInv, TypeOK, Request, Key, Parent

LEMMA StepRefresh ==
    ASSUME IInv, NEW r \in Requests, GetAndRefresh(r)
    PROVE  IInv'
<1> DEFINE b == entries[Key(r)]
<1>1. /\ Key(r) \in Keys /\ request[r].offered # {} /\ request[r].clock \in Nat
      /\ UNCHANGED <<now, held, selector, sweeping, stopped>>
  BY DEF GetAndRefresh, ManagerUnchanged, IInv, TypeOK, Request, KeysKnown, OfferStands, At
<1>2. b \in Binding \cup {None} /\ entries \in [Keys -> Binding \cup {None}]
  BY <1>1 DEF IInv, TypeOK
<1>3. CASE request' = Missed(r) /\ entries' \in [Keys -> Binding \cup {None}]
  <2> DEFINE pc == IF Parent(r) \notin {None, Key(r)} THEN "inherit" ELSE "choose"
  <2>1. /\ request' = Goto(r, pc) /\ pc \in {"inherit", "drop", "choose"}
        /\ pc # "choose" => Key(r) \in Keys /\ Parent(r) \in Keys /\ Parent(r) # Key(r)
    BY <1>1, <1>3, Known DEF Missed
  <2> HIDE DEF pc
  <2> QED  BY <1>1, <1>3, <2>1, GotoInv
<1>4. CASE b # None /\ request' = ServeBound(r, b)
           /\ entries' = [entries EXCEPT ![Key(r)] = Fresh(b.auth, request[r].clock)]
  <2>1. entries' \in [Keys -> Binding \cup {None}]
    <3>1. Fresh(b.auth, request[r].clock) \in Binding
      BY <1>1, <1>2, <1>4, AffinityAssumption DEF Fresh, Binding
    <3> QED  BY <1>2, <1>4, <3>1
  <2>2. CASE b.auth \in request[r].offered
    <3>1. request' = GotoWith(r, "done", b.auth)
      BY <1>4, <2>2 DEF ServeBound, Serve
    <3> QED  BY <1>1, <2>1, <2>2, <3>1, GotoWithInv
  <2>3. CASE b.auth \notin request[r].offered
    <3>1. request' = Goto(r, "choose")
      BY <1>4, <2>3 DEF ServeBound
    <3> QED  BY <1>1, <2>1, <3>1, GotoInv
  <2> QED  BY <2>2, <2>3
<1>5. [entries EXCEPT ![Key(r)] = None] \in [Keys -> Binding \cup {None}]
  BY <1>2
<1> QED  BY <1>2, <1>3, <1>4, <1>5 DEF GetAndRefresh

LEMMA StepGet ==
    ASSUME IInv, NEW r \in Requests, Get(r)
    PROVE  IInv'
<1> DEFINE b == entries[Parent(r)]
<1>1. /\ Key(r) \in Keys /\ Parent(r) \in Keys /\ Parent(r) # Key(r) /\ request[r].offered # {}
      /\ entries' \in [Keys -> Binding \cup {None}] /\ b \in Binding \cup {None}
      /\ UNCHANGED <<now, held, selector, sweeping, stopped>>
  BY DEF Get, ManagerUnchanged, IInv, TypeOK, KeysKnown, OfferStands, At
<1>2. CASE b = None
  <2>1. request' = Goto(r, "choose")
    BY <1>2 DEF Get
  <2> QED  BY <1>1, <2>1, GotoInv
<1>3. CASE b # None
  <2> DEFINE q == [request[r] EXCEPT !.pc = "judge", !.seen = b]
  <2>1. request[r] \in Request /\ Sound(request[r], now, held) /\ request[r].offered # {}
    BY AllSound DEF IInv, TypeOK, Get, OfferStands, At
  <2>2. q \in Request /\ q.pc = "judge" /\ q.seen = b /\ q.clock = request[r].clock
        /\ q.turn = request[r].turn /\ q.offered = request[r].offered
    BY <1>1, <2>1 DEF Request
  <2>3. request' = [request EXCEPT ![r] = q]
    BY <1>3 DEF Get, IInv, TypeOK
  <2> HIDE DEF q
  <2>4. Sound(q, now, held)
    BY <1>1, <1>3, <2>1, <2>2 DEF Sound, Key, Parent
  <2> QED  BY <1>1, <2>3, <2>4, Assemble
<1> QED  BY <1>2, <1>3

LEMMA StepJudge ==
    ASSUME IInv, NEW r \in Requests, Judge(r)
    PROVE  IInv'
<1> DEFINE b == request[r].seen
<1>1. /\ Key(r) \in Keys /\ Parent(r) \in Keys /\ Parent(r) # Key(r) /\ request[r].offered # {}
      /\ entries' \in [Keys -> Binding \cup {None}]
      /\ UNCHANGED <<now, held, selector, sweeping, stopped>>
  BY DEF Judge, ManagerUnchanged, IInv, TypeOK, KeysKnown, OfferStands, At
<1>2. CASE request' = Goto(r, "drop")
  BY <1>1, <1>2, GotoInv
<1>3. CASE b.auth \in request[r].offered /\ request' = GotoWith(r, "bind", b.auth)
  BY <1>1, <1>3, GotoWithInv
<1>4. CASE request' = Goto(r, "choose")
  BY <1>1, <1>4, GotoInv
<1> QED  BY <1>2, <1>3, <1>4 DEF Judge

LEMMA StepDrop ==
    ASSUME IInv, NEW r \in Requests, DropExpired(r)
    PROVE  IInv'
<1>1. /\ request[r].offered # {} /\ entries' \in [Keys -> Binding \cup {None}]
      /\ request' = Goto(r, "choose")
      /\ UNCHANGED <<now, held, selector, sweeping, stopped>>
  BY DEF DropExpired, ManagerUnchanged, IInv, TypeOK, OfferStands, At
<1> QED  BY <1>1, GotoInv

LEMMA StepChoose ==
    ASSUME IInv, NEW r \in Requests, Choose(r)
    PROVE  IInv'
<1>1. PICK auth \in request[r].offered :
          request' = IF Key(r) = None THEN GotoWith(r, "done", auth) ELSE GotoWith(r, "bind", auth)
  BY DEF Choose, Serve
<1>2. /\ entries' \in [Keys -> Binding \cup {None}]
      /\ UNCHANGED <<now, held, selector, sweeping, stopped>>
  BY DEF Choose, ManagerUnchanged, IInv, TypeOK
<1>3. CASE Key(r) = None
  BY <1>1, <1>2, <1>3, GotoWithInv
<1>4. CASE Key(r) # None
  BY <1>1, <1>2, <1>4, Known, GotoWithInv
<1> QED  BY <1>3, <1>4

LEMMA StepBind ==
    ASSUME IInv, NEW r \in Requests, Bind(r)
    PROVE  IInv'
<1> DEFINE q == [request[r] EXCEPT !.pc = "done", !.clock = 0, !.seen = None]
<1>1. /\ request[r] \in Request /\ Sound(request[r], now, held) /\ request[r].pc = "bind"
      /\ now \in Nat
  BY AllSound DEF IInv, TypeOK, Bind, At
<1>2. request[r].auth \in Auths
  BY <1>1 DEF Sound, Request
<1>3. entries' \in [Keys -> Binding \cup {None}]
  <2>1. Fresh(request[r].auth, now) \in Binding
    BY <1>1, <1>2, AffinityAssumption DEF Fresh, Binding
  <2> QED  BY <2>1 DEF Bind, IInv, TypeOK
<1>4. request' = [request EXCEPT ![r] = q]
  BY Moved DEF Bind
<1>5. q \in Request /\ q.pc = "done" /\ q.clock = 0 /\ q.offered = request[r].offered
      /\ q.auth = request[r].auth
  BY <1>1 DEF Request
<1> HIDE DEF q
<1>6. Sound(q, now, held)
  BY <1>1, <1>5 DEF Sound
<1> QED  BY <1>3, <1>4, <1>6, Assemble DEF Bind, ManagerUnchanged

LEMMA StepFinish ==
    ASSUME IInv, NEW r \in Requests, Finish(r)
    PROVE  IInv'
<1>1. Sound(Idle, now, held)
  BY IdleTyped DEF Sound, IInv, TypeOK
<1> QED  BY <1>1, Assemble DEF Finish, ManagerUnchanged, IInv, TypeOK

(***************************************************************************)
(* Steps of the others                                                     *)
(***************************************************************************)

LEMMA StepTick ==
    ASSUME IInv, Tick
    PROVE  IInv'
<1>1. now \in 0 .. MaxTime /\ now' \in 0 .. MaxTime /\ now' = now + 1
  BY AffinityAssumption DEF IInv, TypeOK, Tick
<1>2. \A r \in Requests : request[r].clock \in Nat /\ request[r].clock <= now
  BY DEF IInv, TypeOK, Request, ClockBehind
<1>3. ClockBehind'
  BY <1>1, <1>2 DEF ClockBehind, Tick
<1> QED
  BY <1>1, <1>3 DEF IInv, TypeOK, KeysKnown, OfferStands, At, Key, Parent, Tick, ManagerUnchanged

LEMMA StepCleanup ==
    ASSUME IInv, Cleanup
    PROVE  IInv'
<1>1. entries' \in [Keys -> Binding \cup {None}]
  BY DEF IInv, TypeOK, Cleanup, Swept
<1> QED
  BY <1>1 DEF IInv, TypeOK, KeysKnown, OfferStands, ClockBehind, At, Key, Parent, Cleanup,
              ManagerUnchanged

LEMMA StepHold ==
    ASSUME IInv, NEW a \in Auths, Hold(a) \/ HoldEnds(a)
    PROVE  IInv'
<1>1. held' \in SUBSET Auths /\ UNCHANGED <<now, entries, selector, sweeping, stopped, request>>
  BY DEF IInv, TypeOK, Hold, HoldEnds
<1>2. \A r \in Requests : request[r].offered \cap held' = {}
  <2>1. CASE Hold(a)
    BY <2>1 DEF IInv, OfferStands, Hold, Nobody
  <2>2. CASE HoldEnds(a)
    BY <2>2 DEF IInv, OfferStands, HoldEnds
  <2> QED  BY <2>1, <2>2
<1> QED
  BY <1>1, <1>2 DEF IInv, TypeOK, KeysKnown, OfferStands, ClockBehind, At, Key, Parent

LEMMA StepSelector ==
    ASSUME IInv, SetSelector \/ StopAutoRefresh
    PROVE  IInv'
<1>1. /\ UNCHANGED <<now, held, request>>
      /\ selector' \in 1 .. MaxChanges + 1 /\ stopped' \in BOOLEAN
      /\ sweeping' \in SUBSET (1 .. selector')
      /\ entries' \in [Keys -> Binding \cup {None}]
  <2>1. selector \in 1 .. MaxChanges + 1 /\ sweeping \in SUBSET (1 .. selector) /\ MaxChanges \in Nat
    BY AffinityAssumption DEF IInv, TypeOK
  <2>2. CASE SetSelector
    <3>1. selector' = selector + 1 /\ selector <= MaxChanges
          /\ sweeping' = sweeping \cup {selector + 1}
      BY <2>2 DEF SetSelector
    <3>2. 1 .. selector \subseteq 1 .. selector + 1 /\ selector + 1 \in 1 .. selector + 1
          /\ selector + 1 \in 1 .. MaxChanges + 1
      BY <2>1, <3>1
    <3> QED  BY <2>1, <2>2, <3>1, <3>2 DEF SetSelector, IInv, TypeOK
  <2>3. CASE StopAutoRefresh
    BY <2>1, <2>3 DEF StopAutoRefresh, IInv, TypeOK
  <2> QED  BY <2>2, <2>3
<1> QED
  BY <1>1 DEF IInv, TypeOK, KeysKnown, OfferStands, ClockBehind, At, Key, Parent

(***************************************************************************)
(* The theorems                                                            *)
(***************************************************************************)

LEMMA Initially == Init => IInv
<1> SUFFICES ASSUME Init PROVE IInv
  OBVIOUS
<1>1. TypeOK
  <2>1. 1 \in 1 .. MaxChanges + 1 /\ now \in 0 .. MaxTime
    BY AffinityAssumption DEF Init
  <2>2. sweeping \in SUBSET (1 .. selector)
    <3>1. {1} \subseteq 1 .. 1
      OBVIOUS
    <3> QED  BY <3>1 DEF Init
  <2>3. request \in [Requests -> Request] /\ entries \in [Keys -> Binding \cup {None}]
    BY IdleTyped DEF Init
  <2>4. stopped \in BOOLEAN /\ held \in SUBSET Auths /\ selector \in 1 .. MaxChanges + 1
    BY <2>1 DEF Init
  <2> QED  BY <2>1, <2>2, <2>3, <2>4 DEF TypeOK
<1> QED
  BY <1>1, IdleTyped DEF Init, IInv, KeysKnown, OfferStands, ClockBehind, At, Key, Parent

LEMMA Inductive == IInv /\ [Next]_vars => IInv'
<1> SUFFICES ASSUME IInv, [Next]_vars PROVE IInv'
  OBVIOUS
<1>1. CASE \E r \in Requests :
             \/ \E turn \in Turns, offered \in SUBSET (Auths \ held) : Start(r, turn, offered)
             \/ GetAndRefresh(r) \/ Get(r) \/ Judge(r) \/ DropExpired(r)
             \/ Choose(r) \/ Bind(r) \/ Finish(r)
  BY <1>1, StepStart, StepRefresh, StepGet, StepJudge, StepDrop, StepChoose, StepBind, StepFinish
<1>2. CASE \E a \in Auths : Hold(a) \/ HoldEnds(a)
  BY <1>2, StepHold
<1>3. CASE Tick \/ Cleanup \/ SetSelector \/ StopAutoRefresh
  BY <1>3, StepTick, StepCleanup, StepSelector
<1>4. CASE UNCHANGED vars
  BY <1>4 DEF vars, IInv, TypeOK, KeysKnown, OfferStands, ClockBehind, At, Key, Parent
<1> QED  BY <1>1, <1>2, <1>3, <1>4 DEF Next

\* The invariant holds in every state.
THEOREM Invariance == Spec => []IInv
BY Initially, Inductive, PTL DEF Spec

\* The bindings, requests, selectors and their cleanups are what the code can hold.
THEOREM TypeCorrect == Spec => []TypeOK
<1>1. IInv => TypeOK
  BY DEF IInv
<1> QED  BY <1>1, Invariance, PTL

\* A request is never served with a credential on hold or one it was not offered, whatever
\* the cache says: the cached credential is looked up among the offered ones, and no hold
\* begins before the manager has what it asked for (SessionAffinitySelector.Pick).
THEOREM ServesOnlyUsable == Spec => []ServesUsable
<1>1. IInv => ServesUsable
  BY DEF IInv, OfferStands, ServesUsable, At
<1> QED  BY <1>1, Invariance, PTL

\* No step of a request or of the cleanup removes a binding that has not expired, if no
\* other session inherits from it (SessionCache.GetAndRefresh, cleanup).
THEOREM OwnBindingsLast == Spec => OwnBindingLasts
<1>1. ASSUME IInv, [Next]_vars PROVE Lasts(Keys \ Inherited)
  <2> SUFFICES ASSUME NEW k \in Keys \ Inherited, entries[k] # None, ~Expired(entries[k], now),
                      selector' = selector
               PROVE  entries'[k] # None
    BY DEF Lasts
  <2> DEFINE b == entries[k]
  <2>1. b \in Binding /\ b.expires \in Nat /\ now \in Nat /\ now <= b.expires
        /\ entries \in [Keys -> Binding \cup {None}]
    BY <1>1 DEF IInv, TypeOK, Binding, Expired
  <2>2. \A auth \in Auths, at \in Nat : Fresh(auth, at) \in Binding /\ Fresh(auth, at) # None
    BY AffinityAssumption DEF Fresh, Binding
  <2>3. CASE UNCHANGED entries
    BY <2>3
  <2>4. ASSUME NEW r \in Requests, GetAndRefresh(r) PROVE entries'[k] # None
    <3>1. request[r].clock \in Nat /\ request[r].clock <= now
      BY <1>1 DEF IInv, TypeOK, Request, ClockBehind
    <3>2. CASE k = Key(r)
      <4>1. b.auth \in Auths /\ ~Outdated(b, request[r].clock)
        BY <2>1, <3>1 DEF Outdated, Expired, Binding
      <4> QED  BY <2>1, <2>2, <2>4, <3>1, <3>2, <4>1 DEF GetAndRefresh
    <3>3. CASE k # Key(r)
      BY <2>1, <2>4, <3>3 DEF GetAndRefresh
    <3> QED  BY <3>2, <3>3
  <2>5. ASSUME NEW r \in Requests, DropExpired(r) PROVE entries'[k] # None
    <3>1. Parent(r) # Key(r) /\ request[r].turn \in Turns
      BY <1>1, <2>5, Known DEF IInv, KeysKnown, DropExpired, At
    <3>2. k # Parent(r)
      BY <3>1 DEF Inherited, Parent, Key
    <3> QED  BY <2>1, <2>5, <3>2 DEF DropExpired
  <2>6. ASSUME NEW r \in Requests, Bind(r) PROVE entries'[k] # None
    <3>1. request[r].auth \in Auths
      BY <1>1, <2>6 DEF IInv, TypeOK, Request, OfferStands, Bind, At
    <3> QED  BY <2>1, <2>2, <2>6, <3>1 DEF Bind
  <2>7. CASE Cleanup
    BY <2>1, <2>7 DEF Cleanup, Swept, Expired
  <2>8. CASE SetSelector
    BY <2>8 DEF SetSelector, IInv, TypeOK
  <2> QED
    BY <1>1, <2>3, <2>4, <2>5, <2>6, <2>7, <2>8
       DEF Next, vars, Start, Get, Judge, Choose, Finish, Hold, HoldEnds, Tick, StopAutoRefresh
<1> QED  BY <1>1, Invariance, PTL DEF Spec, OwnBindingLasts
=============================================================================
