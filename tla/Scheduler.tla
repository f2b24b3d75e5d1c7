------------------------------ MODULE Scheduler ------------------------------
(***************************************************************************)
(* authScheduler for one model: per provider a shard with one entry per    *)
(* credential that supports the model, and ready views per priority that   *)
(* are rebuilt when an entry changes.  Everything happens under s.mu, in   *)
(* one step per call.                                                      *)
(*                                                                         *)
(* A snapshot of a credential carries its state for the model; a deadline  *)
(* is reduced to "has passed" or not (due).  waited and idle are not in    *)
(* the code: they count picks for the properties.                          *)
(***************************************************************************)
EXTENDS ReadyView

CONSTANTS
    Providers,   \* provider keys, numbered in the order of the request
    Codex,       \* those with a websocket transport
    Priorities,  \* values of the priority attribute
    Attributes,  \* what the file of each credential may say of it
    Absent       \* no snapshot, no entry

ASSUME SchedulerAssumption ==
    /\ Providers \subseteq Nat /\ IsFiniteSet(Providers)
    /\ Priorities \subseteq Int /\ IsFiniteSet(Priorities)
    /\ Attributes \in [Auths -> SUBSET [provider : Providers, priority : Priorities,
                                        parent : Parents \cup {NoParent}, ws : BOOLEAN]]
    /\ Codex \subseteq Providers

VARIABLES
    strategy,  \* s.strategy
    snapshot,  \* scheduledAuthMeta: s.authProviders and the providers' auths
    due,       \* the deadline of the snapshot has passed
    shard,     \* the providers' shard for the model, Absent until a pick asks for it
    mixed,     \* s.mixedCursors, for requests that name all providers
    waited,    \* free picks of a credential's view since it was picked
    idle       \* free mixed picks since a provider was picked

vars == <<strategy, snapshot, due, shard, mixed, waited, idle>>

\* blocked stands for scheduledStateCooldown and scheduledStateBlocked, which differ in
\* the error that a failed pick returns. scheduledStateDisabled never arises: a record
\* whose Status is disabled has its Disabled flag set too, and gets no entry.
States == {"ready", "blocked"}
Snapshot == [provider : Providers, priority : Priorities, parent : Parents \cup {NoParent},
             ws : BOOLEAN, supports : BOOLEAN, status : States]
Entry == [state : States, priority : Priorities, parent : Parents \cup {NoParent}, ws : BOOLEAN]
Bucket == [all : View, ws : View]
Shard == [entry : [Auths -> Entry \cup {Absent}], bucket : [Priorities -> Bucket]]

ASSUME AbsentAssumption == Absent \notin Snapshot \cup Entry \cup Shard

EmptyShard == [entry |-> [a \in Auths |-> Absent],
               bucket |-> [k \in Priorities |-> [all |-> EmptyView, ws |-> EmptyView]]]

CursorFits(view) == /\ view.cursor <= Cardinality(view.flat)
                    /\ view.parentCursor <= Cardinality(ParentOrder(view))
                    /\ \A p \in Parents : view.child[p] <= Cardinality(view.group[p])

TypeOK ==
    /\ strategy \in {"roundRobin", "fillFirst"}
    /\ snapshot \in [Auths -> Snapshot \cup {Absent}]
    /\ due \in SUBSET Auths
    /\ shard \in [Providers -> Shard \cup {Absent}]
    /\ \A p \in Providers : shard[p] # Absent =>
           \A k \in Priorities : CursorFits(shard[p].bucket[k].all) /\ CursorFits(shard[p].bucket[k].ws)
    /\ mixed \in Nat
    /\ waited \in [Auths -> Nat]
    /\ idle \in [Providers -> Nat]

Init ==
    /\ strategy = "roundRobin"
    /\ snapshot = [a \in Auths |-> Absent]
    /\ due = {}
    /\ shard = [p \in Providers |-> Absent]
    /\ mixed = 0
    /\ waited = [a \in Auths |-> 0]
    /\ idle = [p \in Providers |-> 0]

(***************************************************************************)
(* One shard                                                               *)
(***************************************************************************)

\* isAuthBlockedForModel of the snapshot, with the clock of now.
StateNow(a, passed) ==
    IF snapshot[a].status = "blocked" /\ a \in passed THEN "ready"
    ELSE snapshot[a].status

EntryOf(s, state) == [state |-> state, priority |-> s.priority, parent |-> s.parent, ws |-> s.ws]

ReadyAt(entry, k) ==
    {a \in Auths : entry[a] # Absent /\ entry[a].state = "ready" /\ entry[a].priority = k}
ReadyWebsockets(entry, k) == {a \in ReadyAt(entry, k) : entry[a].ws}
ParentsOf(entry) == [a \in Auths |-> IF entry[a] = Absent THEN NoParent ELSE entry[a].parent]

\* rebuildIndexesLocked. A bucket that becomes empty is gone with its cursors, which is
\* what Normalized returns for an empty view.
Rebuild(sh) ==
    [sh EXCEPT !.bucket = [k \in Priorities |->
        [all |-> Rebuilt(sh.bucket[k].all, ReadyAt(sh.entry, k), ParentsOf(sh.entry)),
         ws  |-> Rebuilt(sh.bucket[k].ws, ReadyWebsockets(sh.entry, k), ParentsOf(sh.entry))]]]

\* upsertEntryLocked. The early return is for entries of which nothing has changed.
UpsertEntryByState(sh, a, e) ==
    LET changed == [sh EXCEPT !.entry[a] = e]
    IN  IF sh.entry[a] # Absent /\ sh.entry[a].state = e.state THEN changed ELSE Rebuild(changed)

UpsertEntry(sh, a, e) ==
    LET changed == [sh EXCEPT !.entry[a] = e]
    IN  IF sh.entry[a] = e THEN sh ELSE Rebuild(changed)

RemoveEntry(sh, a) ==
    IF sh.entry[a] = Absent THEN sh ELSE Rebuild([sh EXCEPT !.entry[a] = Absent])

\* promoteExpiredLocked: the blocked entries whose deadline has passed.
Promotable(sh) ==
    {a \in due : sh.entry[a] # Absent /\ sh.entry[a].state = "blocked"}
Promoted(sh) ==
    IF Promotable(sh) = {} THEN sh
    ELSE Rebuild([sh EXCEPT !.entry = [a \in Auths |->
             IF a \in Promotable(sh) THEN [sh.entry[a] EXCEPT !.state = StateNow(a, due)]
             ELSE sh.entry[a]]])

Supports(s, p) == s # Absent /\ s.provider = p /\ s.supports

\* ensureModelLocked builds a missing shard from the provider's credentials.
Ensured(p) ==
    IF shard[p] # Absent THEN Promoted(shard[p])
    ELSE Rebuild([EmptyShard EXCEPT !.entry = [a \in Auths |->
             IF Supports(snapshot[a], p) THEN EntryOf(snapshot[a], StateNow(a, due)) ELSE Absent]])

(***************************************************************************)
(* What the properties count                                               *)
(***************************************************************************)

\* The view that a waits in has kept its members.
Stays(shards, a) ==
    \E p \in Providers, k \in Priorities :
        /\ shard[p] # Absent /\ a \in shard[p].bucket[k].all.flat
        /\ shards[p] # Absent /\ Members(shards[p].bucket[k].all) = Members(shard[p].bucket[k].all)

StillWaiting(shards) ==
    IF shards = shard THEN waited
    ELSE [a \in Auths |-> IF Stays(shards, a) THEN waited[a] ELSE 0]

Occupied(shards) ==
    {k \in Priorities : \E p \in Providers : shards[p] # Absent /\ shards[p].bucket[k].all.flat # {}}
Highest(S) == CHOOSE k \in S : \A j \in S : j <= k

\* readyCountAtPriorityLocked of every provider at the best priority.
Weights(shards, k) ==
    [p \in Providers |-> IF shards[p] = Absent THEN 0
                         ELSE Cardinality(shards[p].bucket[k].all.flat)]
WeightsNow(shards) == IF Occupied(shards) = {} THEN [p \in Providers |-> 0]
                      ELSE Weights(shards, Highest(Occupied(shards)))
StillIdle(shards) == IF shards = shard \/ WeightsNow(shards) = WeightsNow(shard) THEN idle
                     ELSE [p \in Providers |-> 0]

Follow(shards) == /\ shard' = shards
                  /\ waited' = StillWaiting(shards)
                  /\ idle' = StillIdle(shards)

(***************************************************************************)
(* Calls of the manager                                                    *)
(***************************************************************************)

\* providerScheduler.upsertAuthLocked, after the removal from an earlier provider.
Upserted(a, s) ==
    [p \in Providers |->
        IF shard[p] = Absent THEN Absent
        ELSE IF Supports(s, p) THEN UpsertEntry(shard[p], a, EntryOf(s, s.status))
        ELSE RemoveEntry(shard[p], a)]

Upsert(a, attributes, supports, status) ==
    LET s == [provider |-> attributes.provider, priority |-> attributes.priority,
              parent |-> attributes.parent, ws |-> attributes.ws,
              supports |-> supports, status |-> status]
    IN  /\ supports \/ status = "ready"  \* not looked at otherwise
        /\ snapshot' = [snapshot EXCEPT ![a] = s]
        /\ due' = due \ {a}
        /\ Follow(Upserted(a, s))
        /\ UNCHANGED <<strategy, mixed>>

\* removeAuthLocked, for a removed or disabled credential
Remove(a) ==
    /\ snapshot[a] # Absent
    /\ snapshot' = [snapshot EXCEPT ![a] = Absent]
    /\ due' = due \ {a}
    /\ Follow([p \in Providers |-> IF shard[p] = Absent THEN Absent ELSE RemoveEntry(shard[p], a)])
    /\ UNCHANGED <<strategy, mixed>>

\* rebuild: all shards and cursors are forgotten. A rebuild with other snapshots is this
\* step followed by upserts and removals before the next pick.
RebuildAll ==
    /\ Follow([p \in Providers |-> Absent])
    /\ mixed' = 0
    /\ UNCHANGED <<strategy, snapshot, due>>

SetSelector(new) ==
    /\ strategy' = new
    /\ mixed' = 0
    /\ idle' = [p \in Providers |-> 0]
    /\ UNCHANGED <<snapshot, due, shard, waited>>

DeadlinePasses(a) ==
    /\ snapshot[a] # Absent /\ snapshot[a].status = "blocked"
    /\ a \notin due
    /\ due' = due \cup {a}
    /\ UNCHANGED <<strategy, snapshot, shard, mixed, waited, idle>>

(***************************************************************************)
(* Picks. ok are the credentials that the request has not tried, or the    *)
(* one that it is pinned to.                                               *)
(***************************************************************************)

Eligible(sh, k, ok) == sh.bucket[k].all.flat \cap ok

\* highestReadyPriorityLocked
BestWebsocket(sh, ok) == {k \in Priorities : sh.bucket[k].ws.flat \cap ok # {}}
Best(sh, ok) == {k \in Priorities : Eligible(sh, k, ok) # {}}
HighestReady(sh, ok, preferWs) ==
    IF preferWs /\ BestWebsocket(sh, ok) # {} THEN Highest(BestWebsocket(sh, ok))
    ELSE Highest(Best(sh, ok))

\* pickReadyAtPriorityLocked
ViewFor(sh, k, ok, preferWs) ==
    IF preferWs /\ sh.bucket[k].ws.flat \cap ok # {} THEN "ws" ELSE "all"

Choice(view, ok, how) == IF how = "fillFirst" THEN First(view.flat \cap ok) ELSE Picked(view, ok)

Rotated(sh, k, name, ok, how) ==
    IF how = "fillFirst" THEN sh
    ELSE [sh EXCEPT !.bucket[k][name] = Advanced(sh.bucket[k][name], ok)]

\* A pick of the view that all may take lets the others wait one longer. A pick that
\* only some may take turns the cursor away from the rest, and the count starts again.
WaitedAfter(still, view, a, ok) ==
    [b \in Auths |-> IF b \notin view.flat THEN still[b]
                     ELSE IF b = a \/ ok # Auths THEN 0 ELSE still[b] + 1]

PickIn(sh, p, ok, preferWs) ==
    LET k == HighestReady(sh, ok, preferWs)
        name == ViewFor(sh, k, ok, preferWs)
        a == Choice(sh.bucket[k][name], ok, strategy)
        ensured == [shard EXCEPT ![p] = sh]
        still == StillWaiting(ensured)
    IN  /\ IF Best(sh, ok) = {}
           THEN Follow(ensured)
           ELSE /\ shard' = [shard EXCEPT ![p] = Rotated(sh, k, name, ok, strategy)]
                /\ waited' = IF name = "all" /\ strategy = "roundRobin"
                             THEN WaitedAfter(still, sh.bucket[k].all, a, ok) ELSE still
                /\ idle' = StillIdle(ensured)
        /\ UNCHANGED <<strategy, snapshot, due, mixed>>

\* The shard is there, and what is due is promoted, before anything is picked.
PickSingle(p, ok, preferWs) ==
    /\ preferWs => p \in Codex
    /\ \E sh \in {Ensured(p)} : PickIn(sh, p, ok, preferWs)

\* pickMixed over all providers: every ready credential of the best priority stands for
\* one slot, and the cursor tells in whose segment of the slots the search starts.  (A
\* pinned request is a PickSingle, here too.)
Slots(weights) == UNION {{p} \X (1 .. weights[p]) : p \in Providers}
SegmentStart(weights, p) == Cardinality({s \in Slots(weights) : s[1] < p})
StartSlot(weights) == mixed % Cardinality(Slots(weights))
StartProvider(weights) ==
    CHOOSE p \in Providers : /\ SegmentStart(weights, p) <= StartSlot(weights)
                             /\ StartSlot(weights) < SegmentStart(weights, p) + weights[p]

NextSlotRestarts(weights, p) == SegmentStart(weights, p) + 1

NextSlot(weights, p) ==
    IF p = StartProvider(weights) THEN StartSlot(weights) + 1 ELSE SegmentStart(weights, p) + 1

IdleAfter(shards, weights, p, ok) ==
    LET still == StillIdle(shards)
    IN  [q \in Providers |-> IF q = p \/ weights[q] = 0 \/ ok # Auths THEN 0 ELSE still[q] + 1]

PickAcross(ensured, ok) ==
    LET k == Highest(UNION {Best(ensured[p], ok) : p \in Providers})
        able == {p \in Providers : Eligible(ensured[p], k, ok) # {}}
        weights == Weights(ensured, k)
        p == IF strategy = "fillFirst" THEN First(able)
             ELSE NextFrom(Providers, Index(Providers, StartProvider(weights)), able)
        a == Choice(ensured[p].bucket[k].all, ok, strategy)
        still == StillWaiting(ensured)
    IN  /\ IF \A q \in Providers : Best(ensured[q], ok) = {}
           THEN Follow(ensured) /\ UNCHANGED mixed
           ELSE /\ shard' = [ensured EXCEPT ![p] = Rotated(ensured[p], k, "all", ok, strategy)]
                /\ IF strategy = "fillFirst"
                   THEN /\ waited' = still
                        /\ idle' = StillIdle(ensured)
                        /\ UNCHANGED mixed
                   ELSE /\ waited' = WaitedAfter(still, ensured[p].bucket[k].all, a, ok)
                        /\ idle' = IdleAfter(ensured, weights, p, ok)
                        /\ mixed' = NextSlot(weights, p)
        /\ UNCHANGED <<strategy, snapshot, due>>

PickMixed(ok) == \E ensured \in {[p \in Providers |-> Ensured(p)]} : PickAcross(ensured, ok)

Next ==
    \/ \E a \in Auths :
           \/ \E attributes \in Attributes[a], supports \in BOOLEAN, status \in States :
                  Upsert(a, attributes, supports, status)
           \/ Remove(a)
           \/ DeadlinePasses(a)
    \/ RebuildAll
    \/ \E new \in {"roundRobin", "fillFirst"} : SetSelector(new)
    \/ \E ok \in SUBSET Auths :
           \/ \E p \in Providers, preferWs \in BOOLEAN : PickSingle(p, ok, preferWs)
           \/ PickMixed(ok)

Spec == Init /\ [][Next]_vars

\* Requests that may use any credential keep coming, and nothing else happens than that
\* credentials are updated, fail and recover.
RotationNext ==
    \/ \E a \in Auths :
           \/ \E attributes \in Attributes[a], status \in States : Upsert(a, attributes, TRUE, status)
           \/ DeadlinePasses(a)
    \/ \E p \in Providers : PickSingle(p, Auths, FALSE)

RotationSpec == /\ Init /\ [][RotationNext]_vars
                /\ \A p \in Providers : WF_vars(PickSingle(p, Auths, FALSE))

(***************************************************************************)
(* Properties                                                              *)
(***************************************************************************)

\* The views, which upserts leave alone when nothing has changed, hold exactly the ready
\* entries of their priority, grouped as the entries say; a shard has an entry for exactly
\* the credentials of its provider that support the model, as they were last reported.
EntryIsCurrent(p, a) ==
    LET e == shard[p].entry[a]
        s == snapshot[a]
    IN  IF Supports(s, p)
        THEN e \in {EntryOf(s, s.status), EntryOf(s, StateNow(a, due))}
        ELSE e = Absent

ViewAgrees(view, flat, entry) ==
    view.flat = flat /\ view.group = Groups(flat, ParentsOf(entry))

ShardsAgree ==
    \A p \in Providers : shard[p] # Absent =>
        /\ \A a \in Auths : EntryIsCurrent(p, a)
        /\ \A k \in Priorities :
               LET b == shard[p].bucket[k]
                   e == shard[p].entry
               IN  ViewAgrees(b.all, ReadyAt(e, k), e) /\ ViewAgrees(b.ws, ReadyWebsockets(e, k), e)

\* As long as a view keeps its members and everybody may be picked, its rotation comes to
\* each of them within one round.
TurnComes ==
    \A p \in Providers, k \in Priorities : shard[p] # Absent =>
        LET view == shard[p].bucket[k].all
        IN  \A a \in view.flat : waited[a] < Round(view, a)

\* As long as the numbers of ready credentials stay the same, mixed requests give every
\* provider its segment of the slots before they begin again.
SegmentComes ==
    \A p \in Providers :
        WeightsNow(shard)[p] > 0 =>
            idle[p] <= Cardinality(Slots(WeightsNow(shard))) - WeightsNow(shard)[p]

\* With requests that keep coming, a credential that stays ready at the best priority
\* serves again and again. Not so: the cursor is a position, and when another credential
\* fails, cools down and returns, the same member can be passed over every time.
Offered(p, a) ==
    /\ shard[p] # Absent /\ Best(shard[p], Auths) # {}
    /\ LET flat == Eligible(shard[p], Highest(Best(shard[p], Auths)), Auths)
       IN  a \in flat /\ Cardinality(flat) > 1  \* the only one is picked without a trace

Serves(p, a) ==
    /\ Best(Ensured(p), Auths) # {}
    /\ a = Picked(Ensured(p).bucket[HighestReady(Ensured(p), Auths, FALSE)].all, Auths)
    /\ PickSingle(p, Auths, FALSE)

ReadyServesAgain ==
    \A p \in Providers, a \in Auths : <>[]Offered(p, a) => []<><<Serves(p, a)>>_vars
=============================================================================
