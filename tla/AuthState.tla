------------------------------ MODULE AuthState ------------------------------
(***************************************************************************)
(* The runtime state of one credential inside auth.Manager: a ModelState   *)
(* per upstream model and the availability aggregated over them, as the    *)
(* results of requests (MarkResult), registry reconciliation, updates of   *)
(* the credential and background refreshes change it.                      *)
(*                                                                         *)
(* Results, reconciliations and failed refreshes change the record in one  *)
(* section under Manager.mu.  Whoever updates it reads a copy under the    *)
(* lock, works on it without, for as long as an upstream call takes, and   *)
(* hands it to Update, which puts it in the place of the record: a step to *)
(* take the copy and a step to write it, with everything else in between.  *)
(* Registry and scheduler, which hear of it later, belong to AuthManager.  *)
(*                                                                         *)
(* Time is an integer clock.  Zero is Go's zero time.Time: "no deadline".  *)
(***************************************************************************)
EXTENDS Integers, FiniteSets, FiniteSetsExt

CONSTANTS
    Models,         \* upstream model keys of the credential
    Failures,       \* the failures, among Kinds, that calls may end in
    Writers,        \* those who may be at work on a copy at once
    Does,           \* the kinds of work each of them takes on
    NoCopy,         \* no copy
    TransientHold,  \* 1 minute: 408 and 5xx
    AuthHold,       \* 30 minutes: 401, 402, 403
    LongHold,       \* 12 hours: 404 and unsupported models
    BackoffBase,    \* quotaBackoffBase
    BackoffMax,     \* quotaBackoffMax
    Hints,          \* Retry-After values a provider may send with a 429
    NoHint,         \* no Retry-After value
    MaxNow          \* bound of the clock

ASSUME HoldAssumption ==
    /\ TransientHold \in Nat \ {0}
    /\ AuthHold \in Nat \ {0}
    /\ LongHold \in Nat \ {0}

ASSUME BackoffAssumption == BackoffBase \in Nat \ {0} /\ BackoffMax \in Nat \ {0}

ASSUME ModelsAssumption == IsFiniteSet(Models)

ASSUME HintAssumption == Hints \subseteq Nat /\ NoHint \notin Nat

ASSUME ClockAssumption == MaxNow \in Nat \ {0}

VARIABLES
    now,         \* time.Now()
    tracked,     \* the keys of auth.ModelStates
    states,      \* auth.ModelStates; an untracked model holds Clean
    auth,        \* the credential's own fields
    coolingOff,  \* quotaCooldownDisabledForAuth
    copy         \* the copy each writer works on, and what for

recordVars == <<tracked, states, auth>>
vars == <<now, recordVars, coolingOff, copy>>

Zero == 0
None == "none"

\* What MarkResult tells failures apart by, in the order it looks at them.
Kinds == {"model_support", "unauthorized", "payment", "not_found", "quota",
          "transient", "other"}

ASSUME FailuresAssumption == Failures \subseteq Kinds

Clean == [unavailable |-> FALSE, status |-> "active", retry |-> Zero,
          err |-> None, exceeded |-> FALSE, recover |-> Zero, level |-> 0]

ModelState == [unavailable : BOOLEAN, status : {"active", "error"}, retry : Nat,
               err : Kinds \cup {None}, exceeded : BOOLEAN, recover : Nat,
               level : Nat]

AuthRecord == [disabled : BOOLEAN, status : {"active", "error", "disabled"},
               err : Kinds \cup {None}, unavailable : BOOLEAN, retry : Nat,
               exceeded : BOOLEAN, recover : Nat, level : Nat]

Fresh(off) == [disabled |-> off, status |-> IF off THEN "disabled" ELSE "active",
               err |-> None, unavailable |-> FALSE, retry |-> Zero,
               exceeded |-> FALSE, recover |-> Zero, level |-> 0]

\* A refresh that is due has no copy yet; "edit" is a management handler or the
\* preparation of a request, "service" the one consumer of the watcher's updates.
Work == {"due", "refresh", "service", "edit"}

Copy == [work : Work, auth : AuthRecord, tracked : SUBSET Models,
         states : [Models -> ModelState]]

ASSUME CopyAssumption == NoCopy \notin Copy

ASSUME WritersAssumption == Does \in [Writers -> SUBSET (Work \ {"due"})]

TypeOK ==
    /\ now \in Nat \ {0}
    /\ tracked \in SUBSET Models
    /\ states \in [Models -> ModelState]
    /\ auth \in AuthRecord
    /\ coolingOff \in BOOLEAN
    /\ copy \in [Writers -> Copy \cup {NoCopy}]

(***************************************************************************)
(* Cooldown arithmetic.                                                    *)
(***************************************************************************)

\* The doubling cooldown, never below its base.
Backoff(level) ==
    LET doubled == BackoffBase * 2 ^ level
    IN  IF doubled < BackoffBase THEN BackoffBase ELSE doubled

\* nextQuotaCooldown: at the cap the level stops growing.
QuotaCooldown(level) == IF Backoff(level) >= BackoffMax THEN BackoffMax ELSE Backoff(level)
NextLevel(level) == IF Backoff(level) >= BackoffMax THEN level ELSE level + 1

\* The deadline a failure of kind k leaves behind, Zero for none.
Deadline(k, hint, level) ==
    IF k = "model_support" THEN now + LongHold
    ELSE IF coolingOff \/ k = "other" THEN Zero
    ELSE CASE k \in {"unauthorized", "payment"} -> now + AuthHold
           [] k = "not_found" -> now + LongHold
           [] k = "transient" -> now + TransientHold
           [] k = "quota" -> now + (IF hint = NoHint THEN QuotaCooldown(level) ELSE hint)

\* The model state after a failure; only a 429 touches the quota fields.
Failed(s, k, hint) ==
    LET next == Deadline(k, hint, s.level)
        base == [s EXCEPT !.unavailable = TRUE, !.status = "error", !.err = k, !.retry = next]
    IN  IF k # "quota" THEN base
        ELSE [base EXCEPT !.exceeded = TRUE, !.recover = next,
                          !.level = IF coolingOff \/ hint # NoHint THEN s.level
                                    ELSE NextLevel(s.level)]

(***************************************************************************)
(* Aggregation over the model states.                                      *)
(***************************************************************************)

\* isAuthBlockedForModel for a model with a state of its own.
Blocked(m) == states[m].unavailable /\ states[m].retry > now

Held(s) == s.unavailable /\ s.retry > now

\* updateAggregatedAvailability lifts holds whose deadline has passed.
Lapsed(s) == s.unavailable /\ s.retry # Zero /\ s.retry <= now
LiftForgetsBackoff(ss, ms) ==
    [m \in Models |-> IF m \in ms /\ Lapsed(ss[m])
                      THEN [ss[m] EXCEPT !.unavailable = FALSE, !.retry = Zero, !.level = 0]
                      ELSE ss[m]]
Lift(ss, ms) ==
    [m \in Models |-> IF m \in ms /\ Lapsed(ss[m])
                      THEN [ss[m] EXCEPT !.unavailable = FALSE, !.retry = Zero]
                      ELSE ss[m]]

Earliest(S) == IF S = {} THEN Zero ELSE Min(S)

\* Wrong forms, each next to the definition it distorts: a property that still
\* holds with one of them in place says nothing about the code.
AggregatedAny(a, ss, ms) ==
    LET held == {m \in ms : Held(ss[m])}
    IN  [a EXCEPT !.unavailable = held # {},
                  !.retry = Earliest({ss[m].retry : m \in held}),
                  !.exceeded = \E m \in ms : ss[m].exceeded]

Aggregated(a, ss, ms) ==
    LET all == ms # {} /\ \A m \in ms : Held(ss[m])
        quota == {m \in ms : ss[m].exceeded}
    IN  [a EXCEPT
            !.unavailable = all,
            !.retry = IF all THEN Earliest({ss[m].retry : m \in ms}) ELSE Zero,
            !.exceeded = quota # {},
            !.recover = Earliest({ss[m].recover : m \in quota} \ {Zero}),
            !.level = IF quota = {} THEN 0 ELSE Max({ss[m].level : m \in quota})]

HasModelError(ss, ms) ==
    \E m \in ms : \/ ss[m].err # None
                  \/ /\ ss[m].status = "error"
                     /\ ss[m].unavailable
                     /\ ss[m].retry = Zero \/ ss[m].retry > now

\* The tail MarkResult (on success) and ReconcileRegistryModelStates share.
ClearErrorOnly(a, ss, ms) == IF HasModelError(ss, ms) THEN a ELSE [a EXCEPT !.err = None]

ClearIfHealthy(a, ss, ms) ==
    IF HasModelError(ss, ms) THEN a ELSE [a EXCEPT !.err = None, !.status = "active"]

(***************************************************************************)
(* The operations.                                                         *)
(***************************************************************************)

Init ==
    /\ now = 1
    /\ tracked = {}
    /\ states = [m \in Models |-> Clean]
    /\ auth = Fresh(FALSE)
    /\ coolingOff \in BOOLEAN
    /\ copy = [w \in Writers |-> NoCopy]

Tick ==
    /\ now < MaxNow
    /\ now' = now + 1
    /\ UNCHANGED <<recordVars, coolingOff, copy>>

\* MarkResult of a success.
Success(m) ==
    LET ms == tracked \cup {m}
        ss == Lift([states EXCEPT ![m] = Clean], ms)
    IN  /\ tracked' = ms
        /\ states' = ss
        /\ auth' = ClearIfHealthy(Aggregated(auth, ss, ms), ss, ms)
        /\ UNCHANGED <<now, coolingOff, copy>>

\* MarkResult of a failure.  A request-scoped 404 changes none of this state.
Failure(m, k, hint) ==
    LET ms == tracked \cup {m}
        ss == Lift([states EXCEPT ![m] = Failed(states[m], k, hint)], ms)
    IN  /\ tracked' = ms
        /\ states' = ss
        /\ auth' = [Aggregated(auth, ss, ms) EXCEPT !.err = k, !.status = "error"]
        /\ UNCHANGED <<now, coolingOff, copy>>

\* ReconcileRegistryModelStates after the registry lists exactly the models in
\* supported.
Reconcile(supported) ==
    LET ms == tracked \cap supported
        ss == [m \in Models |-> Clean]
    IN  /\ tracked' = ms
        /\ states' = ss
        /\ IF ms # tracked \/ ss # states
           THEN auth' = ClearIfHealthy(Aggregated(auth, ss, ms), ss, ms)
           ELSE auth' = auth
        /\ UNCHANGED <<now, coolingOff, copy>>

(***************************************************************************)
(* Update, and those who call it.                                          *)
(***************************************************************************)

On(a) == ~a.disabled /\ a.status # "disabled"

\* The record's model states outlive an update that brings none, between two records
\* that are both switched on.
KeepsWhateverWas(new, ms) == On(new) /\ ms = {}

Keeps(new, ms) == On(auth) /\ On(new) /\ ms = {}

\* Update: the record new, with its model states, takes the place of what is there.
Update(new, ms, ss) ==
    /\ auth' = new
    /\ tracked' = IF Keeps(new, ms) THEN tracked ELSE ms
    /\ states' = IF Keeps(new, ms) THEN states ELSE ss

NoStates == [m \in Models |-> Clean]

\* upsertAuthRecord: a record read from a file, whose sender looks at no model state.
Upsert(off) ==
    /\ Update(Fresh(off), {}, NoStates)
    /\ UNCHANGED <<now, coolingOff, copy>>

\* shouldRefresh, as the refresh loop asks it: the answer may be old when the refresh
\* begins, and older when it ends.  A disabled credential is refreshed like any other.
RefreshIsDue(w) ==
    /\ "refresh" \in Does[w] /\ copy[w] = NoCopy
    /\ auth.err # "unauthorized"
    /\ copy' = [copy EXCEPT ![w] = [work |-> "due", auth |-> Fresh(FALSE), tracked |-> {},
                                    states |-> NoStates]]
    /\ UNCHANGED <<now, recordVars, coolingOff>>

\* Clone under Manager.mu: refreshAuth once its turn comes, GetByID for the others.
TakeCopy(w) ==
    /\ \E work \in Does[w] :
         /\ IF work = "refresh" THEN copy[w] # NoCopy /\ copy[w].work = "due" ELSE copy[w] = NoCopy
         /\ work = "service" => \A v \in Writers : copy[v] # NoCopy => copy[v].work # "service"
         /\ copy' = [copy EXCEPT ![w] = [work |-> work, auth |-> auth, tracked |-> tracked,
                                         states |-> states]]
    /\ UNCHANGED <<now, recordVars, coolingOff>>

Ends(w, work) ==
    /\ copy[w] # NoCopy
    /\ copy[w].work = work
    /\ copy' = [copy EXCEPT ![w] = NoCopy]
    /\ UNCHANGED <<now, coolingOff>>

\* refreshAuth after the call: a failure is noted on the record as it is then.
RefreshFails(w, k) ==
    /\ Ends(w, "refresh")
    /\ auth' = IF k = "unauthorized"
               THEN [auth EXCEPT !.err = k, !.unavailable = TRUE, !.status = "error"]
               ELSE [auth EXCEPT !.err = k]
    /\ UNCHANGED <<tracked, states>>

\* A success writes the copy, as old as it is, without its error.
RefreshSucceeds(w) ==
    /\ Ends(w, "refresh")
    /\ Update([copy[w].auth EXCEPT !.err = None], copy[w].tracked, copy[w].states)

\* A refresh that is cancelled, a handler that finds the request wrong or a
\* preparation that fails.
WorkIsDropped(w) ==
    /\ \E work \in {"refresh", "edit"} : Ends(w, work)
    /\ UNCHANGED recordVars

\* applyCoreAuthAddOrUpdate: a record read from a file or the configuration takes over
\* the copy's model states if both are switched on.
ServiceUpdates(w, off) ==
    /\ Ends(w, "service")
    /\ IF On(copy[w].auth) /\ ~off
       THEN Update(Fresh(off), copy[w].tracked, copy[w].states)
       ELSE Update(Fresh(off), {}, NoStates)

SwitchedOff(a) == [a EXCEPT !.disabled = TRUE, !.status = "disabled"]

\* applyCoreAuthRemoval: the copy, switched off.
ServiceRemoves(w) ==
    /\ Ends(w, "service")
    /\ Update(SwitchedOff(copy[w].auth), copy[w].tracked, copy[w].states)

\* PatchAuthFileStatus, disableAuth, and a patch of the field "disabled".
PatchStatus(w, off) ==
    /\ Ends(w, "edit")
    /\ Update(IF off THEN SwitchedOff(copy[w].auth)
              ELSE [copy[w].auth EXCEPT !.disabled = FALSE, !.status = "active"],
              copy[w].tracked, copy[w].states)

\* PatchAuthFileFields, refreshed tokens of the management API, and prepareRequestAuth:
\* none of the fields modelled here is theirs.
SaveFields(w) ==
    /\ Ends(w, "edit")
    /\ Update(copy[w].auth, copy[w].tracked, copy[w].states)

\* SetQuotaCooldownDisabled, or the same switch in the credential's file.
SetQuotaCooldownDisabled ==
    /\ coolingOff' = ~coolingOff
    /\ UNCHANGED <<now, recordVars, copy>>

Next ==
    \/ Tick
    \/ \E m \in Models : Success(m)
    \/ \E m \in Models, k \in Failures \ {"quota"} : Failure(m, k, NoHint)
    \/ \E m \in Models, hint \in Hints \cup {NoHint} : Failure(m, "quota", hint)
    \/ \E supported \in SUBSET Models : Reconcile(supported)
    \/ \E off \in BOOLEAN : Upsert(off)
    \/ SetQuotaCooldownDisabled
    \/ \E w \in Writers :
         \/ RefreshIsDue(w) \/ TakeCopy(w) \/ RefreshSucceeds(w) \/ WorkIsDropped(w)
         \/ \E k \in {"unauthorized", "other"} : RefreshFails(w, k)
         \/ \E off \in BOOLEAN : ServiceUpdates(w, off) \/ PatchStatus(w, off)
         \/ ServiceRemoves(w) \/ SaveFields(w)

Spec == Init /\ [][Next]_vars

(***************************************************************************)
(* Properties.                                                             *)
(***************************************************************************)

\* A deadline on the credential itself (what a request without a model, and the
\* management view, go by) stands only while every model it has tried is held at
\* least that long, and a quota flag on it always has an exhausted model behind
\* it: updateAggregatedAvailability never locks out a usable model.
AggregateSound ==
    /\ auth.retry > now => \A m \in tracked : Blocked(m) /\ states[m].retry >= auth.retry
    /\ auth.exceeded => \E m \in tracked : states[m].exceeded

\* However many 429s arrive at once, the backoff level stops at the first step
\* whose cooldown reaches the cap, so 2^level cannot run away.
BackoffCapped ==
    \A m \in Models : states[m].level > 0 => Backoff(states[m].level - 1) < BackoffMax

HasReason(a, ms, ss) == a.err # None \/ \E m \in ms : ss[m].err # None

\* A copy is written, or given up.
Finishes(w) == copy[w] # NoCopy /\ copy'[w] = NoCopy

BringsItsStates(w) == tracked' = copy[w].tracked /\ states' = copy[w].states

\* Every error shown has a reason, a backoff falls only with the state it belongs to, and
\* a credential comes back clean.  None of these holds: the copies break them.  What does
\* hold is stated after them.
ErrorJustified == auth.status = "error" => HasReason(auth, tracked, states)

BackoffKept ==
    [][\A m \in Models : states'[m].level < states[m].level => states'[m] = Clean]_vars

ComesBackClean == [][auth.disabled /\ ~auth'.disabled => tracked' = {}]_vars

\* A credential shown in error has a reason on record, its own or one of its models'.
\* No order of late results, reconciliations, failed refreshes and copies of the
\* management and the service takes the last reason away and leaves the status: only a
\* refresh does that, which succeeds with a copy that was in error for no model's sake,
\* taken when an earlier refresh had been rejected, or a handler that writes back a copy
\* of what such a refresh has left.
OnlyRefreshLeavesError ==
    [][ErrorJustified /\ ~ErrorJustified' => \E w \in Writers :
            /\ Finishes(w)
            /\ copy[w].auth.status = "error"
            /\ \A m \in copy[w].tracked : copy[w].states[m].err = None
            /\ copy[w].work = "refresh" \/ copy[w].auth.err = None]_vars

\* A model's backoff level falls only when its whole error state is wiped, or when an
\* older copy of all model states takes their place: a lapsed deadline, a failure of
\* another kind or an update that carries no states never restarts the backoff.
BackoffFallsOnlyWhenWiped ==
    [][\A m \in Models :
         states'[m].level < states[m].level =>
            \/ states'[m] = Clean
            \/ \E w \in Writers : Finishes(w) /\ BringsItsStates(w)]_vars

\* A credential that was switched off comes back without the cooldowns it left with,
\* also when results of its requests arrived while it was off.  It brings some along
\* only when a copy is written that was taken while it was on, or the management's.
ReenabledStartsClean ==
    [][auth.disabled /\ ~auth'.disabled =>
         \/ tracked' = {}
         \/ \E w \in Writers :
              /\ Finishes(w)
              /\ BringsItsStates(w)
              /\ ~copy[w].auth.disabled \/ copy[w].work = "edit"]_vars
=============================================================================
