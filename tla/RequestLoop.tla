----------------------------- MODULE RequestLoop -----------------------------
(***************************************************************************)
(* A request for one model: Execute, ExecuteCount and ExecuteStream with   *)
(* their rounds over the credentials.  A round picks a ready credential it *)
(* has not tried, prepares it if its executor asks for that, and calls     *)
(* upstream with each usable model of the credential's pool, until a call  *)
(* succeeds, the request turns out to be invalid, the client is gone, or   *)
(* nothing is left.  Between rounds the request may wait for a cooldown.   *)
(*                                                                         *)
(* The credentials are shared: other requests, token refreshes and the     *)
(* file watcher change their records between any two steps.  A request     *)
(* picks from the scheduler's copies of them, and whoever changes a record *)
(* hands its snapshot to the scheduler only after it has let go of the     *)
(* records, so that a copy may be older than the record and the older of   *)
(* two snapshots may arrive last.  Refreshes and updates write back a copy *)
(* taken earlier.                                                          *)
(*                                                                         *)
(* Which ready credential is picked is left open (Scheduler), and so is    *)
(* the model with which a pool's rotation begins.  A hold is the time left *)
(* of NextRetryAfter, zero when there is none, so Tick, which lets one     *)
(* unit pass, shortens every hold and every wait alike.                    *)
(***************************************************************************)
EXTENDS Integers, FiniteSets, FiniteSetsExt

CONSTANTS
    Auths,       \* credentials whose provider serves the request
    Requests,
    Workers,     \* token refreshes, and the service's and the management's updates
    Does,        \* the works each of them does
    Streams,     \* the requests that are made with ExecuteStream
    Leaving,     \* the requests whose client may go away
    Route,       \* the model the client asks for, by which credentials are picked
    Models,      \* Route and the upstream models
    Pool,        \* upstream models of each credential
    Preparable,  \* credentials whose executor asks for a preparation
    Limit,       \* maxRetryCredentials, 0 for no limit
    Retry,       \* request-retry of each credential, its own or the default
    MaxWait,     \* max-retry-interval
    LongHold,    \* a hold that is longer than MaxWait
    NoAuth       \* no credential, no holder

Works == {"refresh", "update", "register"}
Threads == Requests \cup Workers

ASSUME LoopAssumption ==
    /\ IsFiniteSet(Auths) /\ NoAuth \notin Auths /\ NoAuth \notin Requests
    /\ Requests \cap Workers = {} /\ Does \in [Workers -> SUBSET Works]
    /\ Streams \subseteq Requests /\ Leaving \subseteq Requests
    /\ Preparable \subseteq Auths
    /\ Route \in Models
    /\ Pool \in [Auths -> SUBSET Models]
    /\ Limit \in Nat /\ MaxWait \in Nat /\ LongHold \in Nat
    /\ Retry \in [Auths -> Nat]

VARIABLES
    record,     \* Manager.auths, as far as requests look at it
    scheduler,  \* the scheduler's copy of each record
    late,       \* the snapshot a thread has yet to hand to the scheduler
    shots,      \* the snapshot of all records with which a request will rebuild it
    taken,      \* the copy a worker has taken and will write back
    lock,       \* requestPrepareLocks: who holds each
    request,    \* where each request is
    passed,     \* history: credentials usable all through a request's round, not attempted
    settled,    \* history: credentials a request has prepared and no worker has written since
    owed        \* history: calls begun by a request less results reported for it

schedulerVars == <<scheduler, late, shots>>
credentialVars == <<record, taken, settled>>
vars == <<credentialVars, schedulerVars, lock, request, passed, owed>>

\* "limited" is a 429 with a Retry-After of at most MaxWait, "none" an error of the
\* pick; "invalid" ones are not kept, they end the request.
Holds == {0, LongHold}
Errors == {"none", "plain", "limited"}
InCall == {"call", "called", "bootstrap", "stream"}
Pcs == {"idle", "pick", "sync", "rebuild", "again", "lock", "prepare", "written",
        "unprepared", "decide", "wait"} \cup InCall
HoldMap == [Models -> Nat]

\* What a request looks at in an Auth; prepared is ~ShouldPrepareRequestAuth.
Copy == [enabled : BOOLEAN, prepared : BOOLEAN, hold : HoldMap]
NoHold == [x \in Models |-> 0]
NoCopy == [enabled |-> FALSE, prepared |-> FALSE, hold |-> NoHold]
Nothing == [auth |-> NoAuth, copy |-> NoCopy]
Snapshot == [auth : Auths, copy : Copy] \cup {Nothing}
NoShot == [a \in Auths |-> NoCopy]

State == [pc : Pcs, tried : SUBSET Auths, attempted : SUBSET Auths,
          id : Auths \cup {NoAuth}, models : SUBSET Models, model : Models, copy : Copy,
          error : Errors, attempt : Nat, wait : Nat, failed : BOOLEAN, cancelled : BOOLEAN]

TypeOK ==
    /\ record \in [Auths -> Copy]
    /\ scheduler \in [Auths -> Copy]
    /\ late \in [Threads -> Snapshot]
    /\ shots \in [Requests -> [Auths -> Copy]]
    /\ taken \in [Workers -> Snapshot]
    /\ lock \in [Auths -> Requests \cup {NoAuth}]
    /\ request \in [Requests -> State]
    /\ passed \in [Requests -> SUBSET Auths]
    /\ settled \in SUBSET Auths
    /\ owed \in [Requests -> Int]

Idle == [pc |-> "idle", tried |-> {}, attempted |-> {}, id |-> NoAuth, models |-> {},
         model |-> Route, copy |-> NoCopy, error |-> "none", attempt |-> 0, wait |-> 0,
         failed |-> FALSE, cancelled |-> FALSE]

Loaded == [a \in Auths |-> [enabled |-> TRUE, prepared |-> a \notin Preparable, hold |-> NoHold]]

Still(found) ==
    /\ record = found
    /\ scheduler = found
    /\ late = [t \in Threads |-> Nothing]
    /\ shots = [r \in Requests |-> NoShot]
    /\ taken = [w \in Workers |-> Nothing]
    /\ lock = [a \in Auths |-> NoAuth]
    /\ passed = [r \in Requests |-> {}]
    /\ settled = {}
    /\ owed = [r \in Requests |-> 0]

Init == Still(Loaded) /\ request = [r \in Requests |-> Idle]

(***************************************************************************)
(* Which credential and which models                                       *)
(***************************************************************************)

\* stateModelForExecution: only a pool keeps states by upstream model.
StateModel(a, model) == IF Cardinality(Pool[a]) > 1 THEN model ELSE Route

Ready(copy) == copy.enabled /\ copy.hold[Route] = 0

\* filterExecutionModels
FreeModels(a, copy) == {model \in Pool[a] : copy.hold[StateModel(a, model)] = 0}
Serves(a, copy) == Ready(copy) /\ FreeModels(a, copy) # {}

\* What a thread reports or writes it hands to the scheduler before it goes on.
Step(r, from, new) ==
    /\ request[r].pc = from /\ late[r] = Nothing
    /\ request' = [request EXCEPT ![r] = new]

\* upsertAuth, after Manager.mu has been let go
Publish(t) ==
    /\ late[t] # Nothing
    /\ scheduler' = [scheduler EXCEPT ![late[t].auth] = late[t].copy]
    /\ late' = [late EXCEPT ![t] = Nothing]
    /\ UNCHANGED <<credentialVars, shots, lock, request, owed>>

\* The limit counts the credentials a call was attempted with, not those skipped.
AtLimit(s) == Limit > 0 /\ Cardinality(s.attempted) >= Limit

Start(r) ==
    /\ Step(r, "idle", [Idle EXCEPT !.pc = "pick"])
    /\ owed' = [owed EXCEPT ![r] = 0]
    /\ UNCHANGED <<credentialVars, schedulerVars, lock>>

\* preparedExecutionModels and the first look of prepareRequestAuth, both on the copy
\* that was picked.
Chosen(s, a, copy) ==
    IF FreeModels(a, copy) = {}
    THEN [s EXCEPT !.pc = "pick", !.tried = @ \cup {a}]
    ELSE [s EXCEPT !.tried = @ \cup {a}, !.attempted = @ \cup {a}, !.id = a,
                   !.models = FreeModels(a, copy),
                   !.pc = IF copy.prepared THEN "call" ELSE "lock"]

\* pickMixed under the scheduler's lock, the first time and after syncScheduler.
Pick(r) ==
    /\ ~AtLimit(request[r])
    /\ \E a \in Auths \ request[r].tried, from \in {"pick", "again"} :
         /\ Ready(scheduler[a])
         /\ Step(r, from, Chosen(request[r], a, scheduler[a]))
    /\ UNCHANGED <<credentialVars, schedulerVars, lock, owed>>

NothingToPick(s, copies) == \A a \in Auths \ s.tried : ~Ready(copies[a])

GivesUpAtOnce(r) ==
    LET s == request[r]
    IN  /\ ~AtLimit(s)
        /\ NothingToPick(s, scheduler)
        /\ Step(r, "pick", [s EXCEPT !.pc = "decide"])
        /\ UNCHANGED <<credentialVars, schedulerVars, lock, owed>>

\* shouldRetrySchedulerPick
PickFails(r) ==
    LET s == request[r]
    IN  /\ ~AtLimit(s)
        /\ NothingToPick(s, scheduler)
        /\ Step(r, "pick", [s EXCEPT !.pc = "sync"])
        /\ UNCHANGED <<credentialVars, schedulerVars, lock, owed>>

SnapshotAuths(r) ==
    /\ Step(r, "sync", [request[r] EXCEPT !.pc = "rebuild"])
    /\ shots' = [shots EXCEPT ![r] = record]
    /\ UNCHANGED <<credentialVars, scheduler, late, lock, owed>>

Rebuild(r) ==
    /\ Step(r, "rebuild", [request[r] EXCEPT !.pc = "again"])
    /\ scheduler' = shots[r]
    /\ shots' = [shots EXCEPT ![r] = NoShot]
    /\ UNCHANGED <<credentialVars, late, lock, owed>>

\* The round ends: nothing is left to pick, or the limit is reached.
SecondPickFails(r) ==
    LET s == request[r]
    IN  /\ NothingToPick(s, scheduler)
        /\ Step(r, "again", [s EXCEPT !.pc = "decide"])
        /\ UNCHANGED <<credentialVars, schedulerVars, lock, owed>>

LimitReached(r) ==
    LET s == request[r]
    IN  /\ AtLimit(s)
        /\ Step(r, "pick", [s EXCEPT !.pc = "decide"])
        /\ UNCHANGED <<credentialVars, schedulerVars, lock, owed>>

\* pickNextMixedLegacy judges the records themselves.  It is used when the selector is not
\* built in, or an alias or prefix renames the model, which a reload may change between
\* any two picks.
PickLegacy(r) ==
    /\ ~AtLimit(request[r])
    /\ \E a \in Auths \ request[r].tried :
         /\ Ready(record[a])
         /\ Step(r, "pick", Chosen(request[r], a, record[a]))
    /\ UNCHANGED <<credentialVars, schedulerVars, lock, owed>>

PickLegacyFails(r) ==
    LET s == request[r]
    IN  /\ ~AtLimit(s)
        /\ NothingToPick(s, record)
        /\ Step(r, "pick", [s EXCEPT !.pc = "decide"])
        /\ UNCHANGED <<credentialVars, schedulerVars, lock, owed>>

(***************************************************************************)
(* prepareRequestAuth                                                      *)
(***************************************************************************)

PrepareAtOnce(r) ==
    LET s == request[r] a == s.id
    IN  /\ s.pc = "lock" /\ lock[a] = NoAuth
        /\ Step(r, "lock", [s EXCEPT !.pc = "prepare", !.copy = record[a]])
        /\ lock' = [lock EXCEPT ![a] = r]
        /\ UNCHANGED <<credentialVars, schedulerVars, owed>>

\* Under the credential's lock the record is read and looked at again.
Lock(r) ==
    LET s == request[r] a == s.id
    IN  /\ s.pc = "lock" /\ lock[a] = NoAuth
        /\ IF record[a].prepared
           THEN Step(r, "lock", [s EXCEPT !.pc = "call"]) /\ UNCHANGED lock
           ELSE /\ Step(r, "lock", [s EXCEPT !.pc = "prepare", !.copy = record[a]])
                /\ lock' = [lock EXCEPT ![a] = r]
        /\ UNCHANGED <<credentialVars, schedulerVars, owed>>

\* Update: the copy replaces the record; a copy without states takes the record's
\* when both are enabled.
Written(a, copy) ==
    {copy} \cup (IF copy.hold = NoHold /\ copy.enabled /\ record[a].enabled
                 THEN {[copy EXCEPT !.hold = record[a].hold]} ELSE {})

Update(t, a, copy) ==
    \E new \in Written(a, copy) :
        /\ record' = [record EXCEPT ![a] = new]
        /\ late' = [late EXCEPT ![t] = [auth |-> a, copy |-> new]]

Prepared(r) ==
    LET s == request[r] a == s.id
    IN  /\ Step(r, "prepare", [s EXCEPT !.pc = "written", !.copy = NoCopy])
        /\ Update(r, a, [s.copy EXCEPT !.prepared = TRUE])
        /\ settled' = settled \cup {a}
        /\ UNCHANGED <<taken, scheduler, shots, lock, owed>>

Unlock(r) ==
    LET s == request[r]
    IN  /\ Step(r, "written", [s EXCEPT !.pc = "call"])
        /\ lock' = [lock EXCEPT ![s.id] = NoAuth]
        /\ UNCHANGED <<credentialVars, schedulerVars, owed>>

PrepareFails(r) ==
    LET s == request[r]
    IN  /\ Step(r, "prepare", [s EXCEPT !.pc = "unprepared", !.copy = NoCopy])
        /\ lock' = [lock EXCEPT ![s.id] = NoAuth]
        /\ UNCHANGED <<credentialVars, schedulerVars, owed>>

(***************************************************************************)
(* Calls and their results                                                 *)
(***************************************************************************)

Ended(s) == [Idle EXCEPT !.cancelled = s.cancelled]

\* MarkResult, as far as holds go (AuthState has the rest).
MarkResult(r, a, model, held) ==
    LET new == [record[a] EXCEPT !.hold[model] = held]
    IN  /\ record' = [record EXCEPT ![a] = new]
        /\ late' = [late EXCEPT ![r] = [auth |-> a, copy |-> new]]
        /\ UNCHANGED <<taken, settled, scheduler, shots, lock>>

\* The result of the call under way
Report(r, model, held) ==
    /\ MarkResult(r, request[r].id, model, held)
    /\ owed' = [owed EXCEPT ![r] = @ - 1]

CalledModel(r) == StateModel(request[r].id, request[r].model)

\* An error about the request itself leaves no hold, or all as it was.
HeldAfter(error, held) ==
    CASE error = "invalid" -> {0, held}
      [] error = "limited" -> {0, MaxWait}
      [] error = "plain" -> Holds

\* The next model of the pool, or the next credential with the error kept.
Onward(s, error) ==
    IF s.models # {s.model}
    THEN [s EXCEPT !.pc = "call", !.models = @ \ {s.model}, !.model = Route]
    ELSE [s EXCEPT !.pc = "pick", !.models = {}, !.model = Route, !.id = NoAuth, !.error = error]

ReportUnprepared(r) ==
    LET s == request[r]
    IN  /\ Step(r, "unprepared", [s EXCEPT !.pc = "pick", !.models = {}, !.id = NoAuth,
                                           !.error = "plain"])
        /\ \E held \in Holds : MarkResult(r, s.id, Route, held)
        /\ UNCHANGED owed

Call(r) ==
    /\ \E model \in request[r].models :
         Step(r, "call", [request[r] EXCEPT !.pc = "called", !.model = model])
    /\ owed' = [owed EXCEPT ![r] = @ + 1]
    /\ UNCHANGED <<credentialVars, schedulerVars, lock>>

Succeeds(r) ==
    /\ r \notin Streams
    /\ Step(r, "called", Ended(request[r]))
    /\ Report(r, CalledModel(r), 0)

StreamOpens(r) ==
    /\ r \in Streams
    /\ Step(r, "called", [request[r] EXCEPT !.pc = "bootstrap"])
    /\ UNCHANGED <<credentialVars, schedulerVars, lock, owed>>

\* The error of a stream that fails before its first payload is wrapped, and the
\* wrapped error no longer shows its Retry-After.
Kept(r, error) == IF request[r].pc = "bootstrap" THEN "plain" ELSE error

Fails(r) ==
    LET s == request[r] model == CalledModel(r)
    IN  /\ s.pc \in {"called", "bootstrap"}
        /\ ~s.cancelled
        /\ \E error \in {"plain", "limited", "invalid"} :
             /\ Step(r, s.pc, IF error = "invalid" THEN Ended(s) ELSE Onward(s, Kept(r, error)))
             /\ \E held \in HeldAfter(error, record[s.id].hold[model]) : Report(r, model, held)

\* Nothing is reported when the client has gone.
FailsCancelled(r) ==
    LET s == request[r]
    IN  /\ s.pc \in {"called", "bootstrap"}
        /\ s.cancelled
        /\ Step(r, s.pc, Ended(s))
        /\ UNCHANGED <<credentialVars, schedulerVars, lock, owed>>

\* The stream is closed before its first payload.
EmptyStream(r) ==
    /\ Step(r, "bootstrap", Onward(request[r], "plain"))
    /\ Report(r, CalledModel(r), 0)

FirstPayload(r) ==
    /\ Step(r, "bootstrap", [request[r] EXCEPT !.pc = "stream"])
    /\ UNCHANGED <<credentialVars, schedulerVars, lock, owed>>

\* wrapStreamResult: the goroutine behind the stream the client reads.
ChunkFails(r) ==
    /\ ~request[r].failed
    /\ Step(r, "stream", [request[r] EXCEPT !.failed = TRUE])
    /\ \E held \in Holds : Report(r, CalledModel(r), held)

StreamEndsInSuccess(r) ==
    /\ Step(r, "stream", Ended(request[r]))
    /\ Report(r, CalledModel(r), 0)

StreamEnds(r) ==
    /\ Step(r, "stream", Ended(request[r]))
    /\ IF request[r].failed
       THEN UNCHANGED <<credentialVars, schedulerVars, lock, owed>>
       ELSE Report(r, CalledModel(r), 0)

StreamLeft(r) ==
    /\ request[r].cancelled
    /\ Step(r, "stream", Ended(request[r]))
    /\ UNCHANGED <<credentialVars, schedulerVars, lock, owed>>

(***************************************************************************)
(* shouldRetryAfterError and waitForCooldown                               *)
(***************************************************************************)

MayRetry(s) == {a \in Auths : s.attempt < Retry[a]}

\* closestCooldownWait
Cooldowns(s) == {record[a].hold[Route] : a \in {a \in MayRetry(s) : record[a].enabled}} \ {0}

RetryWait(s) ==
    IF Cooldowns(s) # {} THEN Min(Cooldowns(s)) ELSE IF s.error = "limited" /\ MayRetry(s) # {}
    THEN MaxWait ELSE LongHold

Retries(s) == MaxWait > 0 /\ (Cooldowns(s) # {} \/ (s.error = "limited" /\ MayRetry(s) # {}))
              /\ RetryWait(s) <= MaxWait

Decide(r) ==
    LET s == request[r]
    IN  /\ Step(r, "decide", IF Retries(s) THEN [s EXCEPT !.pc = "wait", !.wait = RetryWait(s)]
                             ELSE Ended(s))
        /\ UNCHANGED <<credentialVars, schedulerVars, lock, owed>>

NextRoundUncounted(r) ==
    /\ request[r].wait = 0
    /\ Step(r, "wait", [Idle EXCEPT !.pc = "pick", !.cancelled = request[r].cancelled,
                                    !.attempt = request[r].attempt])
    /\ UNCHANGED <<credentialVars, schedulerVars, lock, owed>>

NextRound(r) ==
    /\ request[r].wait = 0
    /\ Step(r, "wait", [Idle EXCEPT !.pc = "pick", !.cancelled = request[r].cancelled,
                                    !.attempt = request[r].attempt + 1])
    /\ UNCHANGED <<credentialVars, schedulerVars, lock, owed>>

WaitCancelled(r) ==
    /\ request[r].cancelled
    /\ Step(r, "wait", Ended(request[r]))
    /\ UNCHANGED <<credentialVars, schedulerVars, lock, owed>>

(***************************************************************************)
(* The client, the watcher and time                                        *)
(***************************************************************************)

Cancel(r) ==
    /\ r \in Leaving
    /\ request[r].pc # "idle"
    /\ ~request[r].cancelled
    /\ request' = [request EXCEPT ![r].cancelled = TRUE]
    /\ UNCHANGED <<credentialVars, schedulerVars, lock, owed>>

\* refreshAuth, applyCoreAuthAddOrUpdate and the management's handlers begin with a copy.
TakeCopy(w) ==
    /\ taken[w] = Nothing /\ late[w] = Nothing
    /\ Does[w] \cap {"refresh", "update"} # {}
    /\ \E a \in Auths : taken' = [taken EXCEPT ![w] = [auth |-> a, copy |-> record[a]]]
    /\ UNCHANGED <<record, settled, schedulerVars, lock, request, owed>>

WriteBack(w, work, copy) ==
    /\ work \in Does[w] /\ taken[w] # Nothing
    /\ Update(w, taken[w].auth, copy)
    /\ taken' = [taken EXCEPT ![w] = Nothing]
    /\ settled' = settled \ {taken[w].auth}
    /\ UNCHANGED <<scheduler, shots, lock, request, owed>>

\* A token refresh may prepare the credential as well.
RefreshSucceeds(w) ==
    \E prepared \in {taken[w].copy.prepared, TRUE} :
        WriteBack(w, "refresh", [taken[w].copy EXCEPT !.prepared = prepared])

\* A refresh that was cancelled leaves no trace; else the record, in which nothing changes
\* that a request looks at, goes to the scheduler under Manager.mu.
RefreshFails(w) ==
    LET a == taken[w].auth
    IN  /\ "refresh" \in Does[w] /\ taken[w] # Nothing
        /\ taken' = [taken EXCEPT ![w] = Nothing]
        /\ \/ UNCHANGED scheduler
           \/ scheduler' = [scheduler EXCEPT ![a] = record[a]]
        /\ UNCHANGED <<record, settled, late, shots, lock, request, owed>>

\* A record that was read from its file or edited: the preparation may have been saved in
\* it or not, and it may bring along the states of the copy or none.
Replace(w) ==
    LET old == taken[w]
    IN  \E on \in BOOLEAN, prepared \in BOOLEAN, hold \in {old.copy.hold, NoHold} :
            /\ prepared \/ old.auth \in Preparable
            /\ WriteBack(w, "update", [enabled |-> on, prepared |-> prepared, hold |-> hold])

\* RefreshSchedulerEntry, when the models of a credential have been registered
RefreshSchedulerEntry(w) ==
    /\ "register" \in Does[w] /\ taken[w] = Nothing /\ late[w] = Nothing
    /\ \E a \in Auths : late' = [late EXCEPT ![w] = [auth |-> a, copy |-> record[a]]]
    /\ UNCHANGED <<credentialVars, scheduler, shots, lock, request, owed>>

\* ReconcileRegistryModelStates, before that: no hold outlives the registration
ReconcileRegistryModelStates(w) ==
    /\ "register" \in Does[w] /\ taken[w] = Nothing /\ late[w] = Nothing
    /\ \E a \in Auths :
         LET new == [record[a] EXCEPT !.hold = NoHold]
         IN  /\ record' = [record EXCEPT ![a] = new]
             /\ late' = [late EXCEPT ![w] = [auth |-> a, copy |-> new]]
    /\ UNCHANGED <<taken, settled, scheduler, shots, lock, request, owed>>

Less(n) == IF n = 0 THEN 0 ELSE n - 1
Older(copy) == [copy EXCEPT !.hold = [x \in Models |-> Less(@[x])]]

Tick ==
    /\ record' = [a \in Auths |-> Older(record[a])]
    /\ scheduler' = [a \in Auths |-> Older(scheduler[a])]
    /\ late' = [t \in Threads |-> [late[t] EXCEPT !.copy = Older(@)]]
    /\ shots' = [r \in Requests |-> [a \in Auths |-> Older(shots[r][a])]]
    /\ taken' = [w \in Workers |-> [taken[w] EXCEPT !.copy = Older(@)]]
    /\ request' = [r \in Requests |-> [request[r] EXCEPT !.wait = Less(@), !.copy = Older(@)]]
    /\ <<record, schedulerVars, taken, request>>' # <<record, schedulerVars, taken, request>>
    /\ UNCHANGED <<settled, lock, owed>>

RequestStep(r) ==
    \/ Pick(r) \/ PickFails(r) \/ SnapshotAuths(r) \/ Rebuild(r) \/ SecondPickFails(r)
    \/ PickLegacy(r) \/ PickLegacyFails(r) \/ LimitReached(r)
    \/ Prepared(r) \/ Unlock(r) \/ PrepareFails(r) \/ ReportUnprepared(r)
    \/ Call(r) \/ Succeeds(r) \/ StreamOpens(r) \/ Fails(r) \/ FailsCancelled(r)
    \/ EmptyStream(r) \/ FirstPayload(r) \/ StreamEnds(r) \/ StreamLeft(r)
    \/ Decide(r) \/ NextRound(r) \/ WaitCancelled(r)

Action ==
    \/ \E r \in Requests : Start(r) \/ Lock(r) \/ RequestStep(r) \/ ChunkFails(r) \/ Cancel(r)
    \/ \E t \in Threads : Publish(t)
    \/ \E w \in Workers :
         \/ TakeCopy(w) \/ RefreshSucceeds(w) \/ RefreshFails(w) \/ Replace(w)
         \/ ReconcileRegistryModelStates(w) \/ RefreshSchedulerEntry(w)
    \/ Tick

\* Snapshots that will replace the scheduler's copy of a credential
OnTheWay(a) ==
    {late[t].copy : t \in {t \in Threads : late[t].auth = a}}
        \cup {shots[r][a] : r \in {r \in Requests : request[r].pc = "rebuild"}}

\* Credentials that could be called by their record and by every snapshot on its way, and
\* whose copy in the scheduler is not picked only to be found without a free model.
Usable ==
    {a \in Auths :
        /\ Serves(a, record[a])
        /\ \A copy \in OnTheWay(a) : Serves(a, copy)
        /\ Ready(scheduler[a]) => Serves(a, scheduler[a])}

\* A round starts with the credentials usable then; one that is attempted, or stops
\* being usable, drops out.
Watch(usable) ==
    [r \in Requests |->
        IF request'[r].pc \in {"idle", "wait"} THEN {}
        ELSE (usable \ request'[r].attempted)
             \cap (IF request[r].pc \in {"idle", "wait"} THEN Auths ELSE passed[r])]

Observe == passed' = Watch(Usable')

Next == Action /\ Observe

Spec == Init /\ [][Next]_vars

(***************************************************************************)
(* Properties                                                              *)
(***************************************************************************)

\* A round gives up only when every credential that was usable all through it has
\* been attempted, or as many as the limit allows have been.  The scheduler's copy may
\* call such a credential held, since an older snapshot arrived last: the second pick
\* finds it, whatever other threads hand to the scheduler after the rebuild.
UsableIsTried ==
    \A r \in Requests :
        request[r].pc = "decide" =>
            \/ Limit > 0 /\ Cardinality(request[r].attempted) >= Limit
            \/ passed[r] = {}

\* A credential that a request has prepared is not prepared again, until a refresh or an
\* update has written its record, and never by two requests at a time.
PreparedOnce ==
    \A r \in Requests :
        request[r].pc = "prepare" =>
            /\ request[r].id \notin settled
            /\ \A q \in Requests \ {r} :
                 ~(request[q].pc = "prepare" /\ request[q].id = request[r].id)

\* Each call is reported exactly once, and only a client that has gone excuses from it.
ReportedOnce ==
    \A r \in Requests :
        owed[r] = IF request[r].pc \in {"called", "bootstrap"}
                     \/ (request[r].pc = "stream" /\ ~request[r].failed) THEN 1
                  ELSE IF request[r].pc = "idle" /\ request[r].cancelled THEN owed[r]
                  ELSE 0

\* A request runs out of steps: each one ends it, starts one of the rounds its credentials
\* allow, tries one more credential, has one model less to call, or comes closer to
\* the end of what it does with the model.
Rank == [pick |-> 0, sync |-> 1, rebuild |-> 2, again |-> 3, lock |-> 4, prepare |-> 5,
         written |-> 6, unprepared |-> 7, call |-> 7, called |-> 8, bootstrap |-> 9,
         stream |-> 10, decide |-> 11, wait |-> 12]

Closer(s, t) ==
    \/ t.pc = "idle"
    \/ t.attempt > s.attempt /\ \E a \in Auths : t.attempt <= Retry[a]
    \/ /\ t.attempt = s.attempt
       /\ \/ s.tried \subseteq t.tried /\ s.tried # t.tried
          \/ t.tried = s.tried /\ t.models \subseteq s.models /\ t.models # s.models
          \/ t.tried = s.tried /\ t.models = s.models /\ t.pc = s.pc
          \/ t.tried = s.tried /\ t.models = s.models /\ Rank[t.pc] > Rank[s.pc]

StepsRunOut ==
    [][\A r \in Requests : request[r].pc # "idle" => Closer(request[r], request'[r])]_vars
=============================================================================
