----------------------------- MODULE AuthManager -----------------------------
(***************************************************************************)
(* The threads that share the credentials of a running proxy, for one      *)
(* model:                                                                  *)
(*   - the service's consumer of auth updates and the callback of the      *)
(*     model catalog (the binders), which keep the manager's records, the  *)
(*     model registry and the scheduler in line;                           *)
(*   - requests, which pick from the scheduler and report their result;    *)
(*   - token refreshes, which work on a copy of the record.                *)
(*                                                                         *)
(* Manager, registry and scheduler each have a lock of their own, and      *)
(* every call takes them one after the other: the manager's snapshot of a  *)
(* record is taken under Manager.mu and reaches the scheduler only later.  *)
(* One action is one critical section.  What the record holds in detail is *)
(* the subject of AuthState; here it is absent, ready, cooling or          *)
(* disabled.                                                               *)
(***************************************************************************)
EXTENDS Naturals, FiniteSets

CONSTANTS
    Auths,       \* credential IDs
    Requests,    \* concurrent requests for the model
    Service,     \* the consumer of auth updates
    Catalogs,    \* concurrent runs of the model catalog callback
    Refreshers,  \* workers of the auto-refresh loop
    NoAuth       \* no credential

ASSUME ProcessAssumption == Service \notin Catalogs /\ NoAuth \notin Auths

Binders == {Service} \cup Catalogs
Enabled == {"ready", "cooling"}
Statuses == Enabled \cup {"absent", "disabled"}

VARIABLES
    auths,       \* Manager.auths
    sched,       \* authScheduler: how each credential stands in the model's shard
    registered,  \* credentials whose models are in the registry (clientModels)
    suspended,   \* SuspendedClients and QuotaExceededClients of the model
    binder,      \* where each binder is, on which credential, with which copy
    request,     \* where each request is
    refresher    \* where each refresh is

vars == <<auths, sched, registered, suspended, binder, request, refresher>>

BinderPc == {"off", "idle", "update", "upsert_update", "register", "reconcile",
             "upsert_reconcile", "latest", "unregister", "refresh",
             "upsert_refresh", "getbyid", "disable", "upsert_disable"}
\* What a result does: a success clears, a hold (401 to 404, 429) leaves a deadline
\* and suspends the model in the registry, a transient failure leaves a deadline
\* only, a 404 that is about the request changes nothing, any other failure leaves
\* no deadline.
Outcomes == {"ok", "hold", "transient", "scoped", "other"}
RequestPc == {"off", "idle", "pick", "snapshot", "rebuild", "repick", "exec", "apply",
              "registry"}

BinderState == [pc : BinderPc, id : Auths \cup {NoAuth}, copy : Statuses,
                again : BOOLEAN]
RequestState == [pc : RequestPc, id : Auths \cup {NoAuth}, copy : Statuses,
                 outcome : Outcomes, all : [Auths -> Statuses]]
RefresherState == [pc : {"off", "idle", "refresh", "upsert"}, id : Auths \cup {NoAuth},
                   copy : Statuses]

IdleBinder == [pc |-> "idle", id |-> NoAuth, copy |-> "absent", again |-> FALSE]
NoneKnown == [a \in Auths |-> "absent"]
IdleRequest == [pc |-> "idle", id |-> NoAuth, copy |-> "absent", outcome |-> "ok",
                all |-> NoneKnown]
IdleRefresher == [pc |-> "idle", id |-> NoAuth, copy |-> "absent"]

TypeOK ==
    /\ auths \in [Auths -> Statuses]
    /\ sched \in [Auths -> {"out", "unsupported", "ready", "cooling"}]
    /\ registered \in SUBSET Auths
    /\ suspended \in SUBSET Auths
    /\ binder \in [Binders -> BinderState]
    /\ request \in [Requests -> RequestState]
    /\ refresher \in [Refreshers -> RefresherState]

Init ==
    /\ auths = NoneKnown
    /\ sched = [a \in Auths |-> "out"]
    /\ registered = {}
    /\ suspended = {}
    /\ binder = [b \in Binders |-> IdleBinder]
    /\ request = [r \in Requests |-> IdleRequest]
    /\ refresher = [f \in Refreshers |-> IdleRefresher]

(***************************************************************************)
(* What the calls do to the shared state.                                  *)
(***************************************************************************)

\* Wrong forms, each next to the definition it distorts: a property that still
\* holds with one of them in place says nothing about the code.
ViewTrustsCopy(a, copy) == IF copy \notin Enabled THEN "out" ELSE copy
ViewKeepsDisabled(a, copy) ==
    IF copy = "absent" THEN "out"
    ELSE IF a \notin registered THEN "unsupported"
    ELSE IF copy = "disabled" THEN "ready" ELSE copy

\* upsertAuthLocked: the copy decides, and the registry is asked only now which
\* models the credential has.
View(a, copy) ==
    IF copy \notin Enabled THEN "out"
    ELSE IF a \notin registered THEN "unsupported" ELSE copy

Upsert(a, copy) == sched' = [sched EXCEPT ![a] = View(a, copy)]

\* The record Update leaves when an enabled copy replaces the current one: a copy
\* with model states wins, one without takes over those of an enabled record.
Merged(copy, current) ==
    CASE copy = "cooling" -> {"cooling"}
      [] copy # "cooling" /\ current \in Enabled -> {current} \cup ({copy} \cap Enabled)
      [] OTHER -> {"ready"}

\* RegisterClient clears a suspension only of a client it already knows.
RegisterModels(a) ==
    /\ registered' = registered \cup {a}
    /\ suspended' = IF a \in registered THEN suspended \ {a} ELSE suspended

\* UnregisterClient; the model and all its suspensions go with its last client.
UnregisterModels(a) ==
    /\ registered' = registered \ {a}
    /\ suspended' = IF registered \subseteq {a} THEN {}
                    ELSE IF a \in registered THEN suspended \ {a} ELSE suspended

(***************************************************************************)
(* Binders: applyCoreAuthAddOrUpdate, applyCoreAuthRemoval and             *)
(* refreshModelRegistrationForAuth.                                        *)
(***************************************************************************)

At(b, pc) == binder[b].pc = pc
Goto(b, pc) == binder' = [binder EXCEPT ![b].pc = pc]
GotoWith(b, pc, copy) == binder' = [binder EXCEPT ![b].pc = pc, ![b].copy = copy]
Finish(b) == binder' = [binder EXCEPT ![b] = IdleBinder]

\* The update's first read, GetByID.
BeginAdd(a) ==
    /\ At(Service, "idle")
    /\ binder' = [binder EXCEPT ![Service] =
                     [pc |-> "update", id |-> a, copy |-> auths[a], again |-> FALSE]]
    /\ UNCHANGED <<auths, sched, registered, suspended, request, refresher>>

\* Update or Register; off is the disabled flag of the credential's file.
UpdateRecord(off) ==
    LET a == binder[Service].id
    IN  /\ At(Service, "update")
        /\ \E new \in (IF off THEN {"disabled"} ELSE Merged(binder[Service].copy, auths[a])) :
               /\ auths' = [auths EXCEPT ![a] = new]
               /\ GotoWith(Service, "upsert_update", new)
        /\ UNCHANGED <<sched, registered, suspended, request, refresher>>

UpsertUpdated ==
    /\ At(Service, "upsert_update")
    /\ Upsert(binder[Service].id, binder[Service].copy)
    /\ Goto(Service, "register")
    /\ UNCHANGED <<auths, registered, suspended, request, refresher>>

RegisterIgnoresDisabled(b) ==
    /\ At(b, "register")
    /\ RegisterModels(binder[b].id)
    /\ Goto(b, "reconcile")
    /\ UNCHANGED <<auths, sched, request, refresher>>

\* registerModelsForAuth: a disabled copy is unregistered.
Register(b) ==
    LET a == binder[b].id
    IN  /\ At(b, "register")
        /\ \/ binder[b].copy # "disabled" /\ RegisterModels(a)
           \/ binder[b].copy = "disabled" /\ UnregisterModels(a)
        /\ Goto(b, "reconcile")
        /\ UNCHANGED <<auths, sched, request, refresher>>

AfterReconcile(b) == IF b = Service \/ binder[b].again THEN "refresh" ELSE "latest"

\* ReconcileRegistryModelStates: every error state goes, and only a change is
\* handed to the scheduler.
Reconcile(b) ==
    LET a == binder[b].id
    IN  /\ At(b, "reconcile")
        /\ IF auths[a] = "cooling"
           THEN /\ auths' = [auths EXCEPT ![a] = "ready"]
                /\ GotoWith(b, "upsert_reconcile", "ready")
           ELSE /\ auths' = auths
                /\ Goto(b, AfterReconcile(b))
        /\ UNCHANGED <<sched, registered, suspended, request, refresher>>

UpsertReconciled(b) ==
    /\ At(b, "upsert_reconcile")
    /\ Upsert(binder[b].id, binder[b].copy)
    /\ Goto(b, AfterReconcile(b))
    /\ UNCHANGED <<auths, registered, suspended, request, refresher>>

\* RefreshSchedulerEntry: the copy is taken under one lock, applied under another.
RefreshEntry(b) ==
    /\ At(b, "refresh")
    /\ GotoWith(b, "upsert_refresh", auths[binder[b].id])
    /\ UNCHANGED <<auths, sched, registered, suspended, request, refresher>>

UpsertRefreshed(b) ==
    /\ At(b, "upsert_refresh")
    /\ Upsert(binder[b].id, binder[b].copy)
    /\ Finish(b)
    /\ UNCHANGED <<auths, registered, suspended, request, refresher>>

\* applyCoreAuthRemoval starts with UnregisterClient.
BeginRemove(a) ==
    /\ At(Service, "idle")
    /\ UnregisterModels(a)
    /\ binder' = [binder EXCEPT ![Service] = [IdleBinder EXCEPT !.pc = "getbyid", !.id = a]]
    /\ UNCHANGED <<auths, sched, request, refresher>>

LookupRemoved ==
    /\ At(Service, "getbyid")
    /\ IF auths[binder[Service].id] = "absent" THEN Finish(Service) ELSE Goto(Service, "disable")
    /\ UNCHANGED <<auths, sched, registered, suspended, request, refresher>>

DisableRecord ==
    /\ At(Service, "disable")
    /\ auths' = [auths EXCEPT ![binder[Service].id] = "disabled"]
    /\ GotoWith(Service, "upsert_disable", "disabled")
    /\ UNCHANGED <<sched, registered, suspended, request, refresher>>

UpsertDisabled ==
    /\ At(Service, "upsert_disable")
    /\ Upsert(binder[Service].id, binder[Service].copy)
    /\ Finish(Service)
    /\ UNCHANGED <<auths, registered, suspended, request, refresher>>

\* The catalog callback reads each record and skips the disabled ones.
BeginCatalog(c, a) ==
    /\ At(c, "idle")
    /\ auths[a] \in Enabled
    /\ binder' = [binder EXCEPT ![c] =
                     [pc |-> "register", id |-> a, copy |-> auths[a], again |-> FALSE]]
    /\ UNCHANGED <<auths, sched, registered, suspended, request, refresher>>

\* latestAuthForModelRegistration
ReadLatest(c) ==
    LET latest == auths[binder[c].id]
    IN  /\ At(c, "latest")
        /\ binder' = [binder EXCEPT ![c].pc = IF latest \in Enabled THEN "register" ELSE "unregister",
                                    ![c].copy = latest, ![c].again = TRUE]
        /\ UNCHANGED <<auths, sched, registered, suspended, request, refresher>>

UnregisterStale(c) ==
    /\ At(c, "unregister")
    /\ UnregisterModels(binder[c].id)
    /\ Goto(c, "refresh")
    /\ UNCHANGED <<auths, sched, request, refresher>>

(***************************************************************************)
(* Requests: pickNext, Execute, MarkResult.                                *)
(***************************************************************************)

In(r, pc) == request[r].pc = pc

Arrive(r) ==
    /\ In(r, "idle")
    /\ request' = [request EXCEPT ![r].pc = "pick"]
    /\ UNCHANGED <<auths, sched, registered, suspended, binder, refresher>>

ReadyEntries == {a \in Auths : sched[a] = "ready"}

\* pickSingle, and what pickNext does when it finds nothing.
NextAfterMissFails(r) == "idle"
NextAfterMiss(r) == IF In(r, "pick") THEN "snapshot" ELSE "idle"

Pick(r) ==
    /\ In(r, "pick") \/ In(r, "repick")
    /\ IF ReadyEntries # {}
       THEN \E a \in ReadyEntries :
                request' = [request EXCEPT ![r].pc = "exec", ![r].id = a]
       ELSE request' = [request EXCEPT ![r].pc = NextAfterMiss(r)]
    /\ UNCHANGED <<auths, sched, registered, suspended, binder, refresher>>

\* syncScheduler: snapshotAuths, then rebuild.
SnapshotAuths(r) ==
    /\ In(r, "snapshot")
    /\ request' = [request EXCEPT ![r].pc = "rebuild", ![r].all = auths]
    /\ UNCHANGED <<auths, sched, registered, suspended, binder, refresher>>

Rebuild(r) ==
    /\ In(r, "rebuild")
    /\ sched' = [a \in Auths |-> View(a, request[r].all[a])]
    /\ request' = [request EXCEPT ![r].pc = "repick", ![r].all = NoneKnown]
    /\ UNCHANGED <<auths, registered, suspended, binder, refresher>>

\* MarkResult under Manager.mu: a disabled record stays disabled.
MarkResult(r, outcome) ==
    LET a == request[r].id
        new == IF auths[a] \notin Enabled \/ outcome = "scoped" THEN auths[a]
               ELSE IF outcome \in {"hold", "transient"} THEN "cooling" ELSE "ready"
    IN  /\ In(r, "exec")
        /\ auths' = [auths EXCEPT ![a] = new]
        /\ request' = [request EXCEPT ![r].pc = "apply", ![r].copy = new,
                                      ![r].outcome = outcome]
        /\ UNCHANGED <<sched, registered, suspended, binder, refresher>>

\* ... its snapshot reaches the scheduler ...
ApplyResult(r) ==
    /\ In(r, "apply")
    /\ Upsert(request[r].id, request[r].copy)
    /\ request' = [request EXCEPT ![r].pc = "registry"]
    /\ UNCHANGED <<auths, registered, suspended, binder, refresher>>

\* ... and the registry is told; a success resumes, whatever the record was.
ResumeOnlyIfCooling(a, outcome) ==
    CASE outcome = "ok" -> IF auths[a] = "ready" THEN suspended ELSE suspended \ {a}
      [] outcome = "hold" /\ registered # {} -> suspended \cup {a}
      [] OTHER -> suspended

SuspendedAfter(a, outcome) ==
    CASE outcome = "ok" -> suspended \ {a}
      [] outcome = "hold" /\ registered # {} -> suspended \cup {a}
      [] OTHER -> suspended

TellRegistry(r) ==
    /\ In(r, "registry")
    /\ suspended' = SuspendedAfter(request[r].id, request[r].outcome)
    /\ request' = [request EXCEPT ![r] = IdleRequest]
    /\ UNCHANGED <<auths, sched, registered, binder, refresher>>

(***************************************************************************)
(* Token refreshes: refreshAuth.                                           *)
(***************************************************************************)

BeginRefresh(f, a) ==
    /\ refresher[f].pc = "idle"
    /\ auths[a] # "absent"
    /\ refresher' = [refresher EXCEPT ![f] = [pc |-> "refresh", id |-> a, copy |-> auths[a]]]
    /\ UNCHANGED <<auths, sched, registered, suspended, binder, request>>

\* The error path upserts under Manager.mu.
RefreshFails(f) ==
    LET a == refresher[f].id
    IN  /\ refresher[f].pc = "refresh"
        /\ Upsert(a, auths[a])
        /\ refresher' = [refresher EXCEPT ![f] = IdleRefresher]
        /\ UNCHANGED <<auths, registered, suspended, binder, request>>

\* The refreshed copy replaces the record through Update, its disabled flag included.
RefreshSucceeds(f) ==
    LET a == refresher[f].id
    IN  /\ refresher[f].pc = "refresh"
        /\ \E new \in (IF refresher[f].copy = "disabled" THEN {"disabled"}
                       ELSE Merged(refresher[f].copy, auths[a])) :
               /\ auths' = [auths EXCEPT ![a] = new]
               /\ refresher' = [refresher EXCEPT ![f].pc = "upsert", ![f].copy = new]
        /\ UNCHANGED <<sched, registered, suspended, binder, request>>

UpsertRefresh(f) ==
    /\ refresher[f].pc = "upsert"
    /\ Upsert(refresher[f].id, refresher[f].copy)
    /\ refresher' = [refresher EXCEPT ![f] = IdleRefresher]
    /\ UNCHANGED <<auths, registered, suspended, binder, request>>

(***************************************************************************)
(* Deadlines pass, in the record and in the scheduler's copy of it.        *)
(***************************************************************************)

RecordExpires(a) ==
    /\ auths[a] = "cooling"
    /\ auths' = [auths EXCEPT ![a] = "ready"]
    /\ UNCHANGED <<sched, registered, suspended, binder, request, refresher>>

\* promoteExpiredLocked
EntryExpires(a) ==
    /\ sched[a] = "cooling"
    /\ sched' = [sched EXCEPT ![a] = "ready"]
    /\ UNCHANGED <<auths, registered, suspended, binder, request, refresher>>

Bind(b) == Register(b) \/ Reconcile(b) \/ UpsertReconciled(b) \/ RefreshEntry(b) \/ UpsertRefreshed(b)

ServiceStep ==
    \/ \E off \in BOOLEAN : UpdateRecord(off)
    \/ UpsertUpdated
    \/ LookupRemoved
    \/ DisableRecord
    \/ UpsertDisabled
    \/ Bind(Service)

CatalogStep(c) == Bind(c) \/ ReadLatest(c) \/ UnregisterStale(c)

RequestStep(r) ==
    \/ Pick(r)
    \/ SnapshotAuths(r)
    \/ Rebuild(r)
    \/ \E outcome \in Outcomes : MarkResult(r, outcome)
    \/ ApplyResult(r)
    \/ TellRegistry(r)

RefreshStep(f) == RefreshFails(f) \/ RefreshSucceeds(f) \/ UpsertRefresh(f)

Next ==
    \/ \E a \in Auths : BeginAdd(a) \/ BeginRemove(a) \/ RecordExpires(a) \/ EntryExpires(a)
    \/ ServiceStep
    \/ \E c \in Catalogs : CatalogStep(c) \/ \E a \in Auths : BeginCatalog(c, a)
    \/ \E r \in Requests : RequestStep(r) \/ Arrive(r)
    \/ \E f \in Refreshers : RefreshStep(f) \/ \E a \in Auths : BeginRefresh(f, a)

\* Goroutines that have work are scheduled and upstream calls end (they carry
\* timeouts).  Nothing forces updates, requests or refreshes to begin.
Fairness ==
    /\ WF_vars(ServiceStep)
    /\ \A c \in Catalogs : WF_vars(CatalogStep(c))
    /\ \A r \in Requests : WF_vars(RequestStep(r))

Spec == Init /\ [][Next]_vars
FairSpec == Spec /\ Fairness

(***************************************************************************)
(* Properties.                                                             *)
(***************************************************************************)

\* Catalog and token refreshes do not run. A thread that is off never does.
OthersOff == (\A c \in Catalogs : At(c, "off")) /\ (\A f \in Refreshers : refresher[f].pc = "off")

\* Between two updates the registry lists exactly the enabled credentials: what
\* requests report in the meantime cannot bring a removed one back, and no
\* update leaves an enabled one without its models.
RegisteredIffEnabled ==
    OthersOff /\ At(Service, "idle") => registered = {a \in Auths : auths[a] \in Enabled}

\* Once a removal has ended, no result that was still under way can put the
\* credential back among those the scheduler offers: the snapshot it carries is
\* older than the removal, but the registry is asked when it is applied.
RemovedNotOffered ==
    OthersOff /\ At(Service, "idle") => \A a \in Auths : auths[a] = "disabled" => sched[a] \notin Enabled

InUse(a) == \E r \in Requests : In(r, "exec") /\ request[r].id = a

\* Even when a catalog refresh has registered a removed credential again and a
\* token refresh was under way, requests do not keep using it.
RemovedEventuallyUnused ==
    \A a \in Auths : <>[](auths[a] = "disabled") => <>[]~InUse(a)

\* While a credential is usable, requests that keep coming do not keep failing:
\* the resynchronisation repairs whatever older snapshots did to the scheduler.
ReadyEventuallyServed ==
    (\E a \in Auths : <>[](auths[a] = "ready" /\ a \in registered)) =>
        \A r \in Requests : []<>In(r, "pick") => []<>In(r, "exec")

Resumes(a) == \E r \in Requests : /\ In(r, "registry")
                                  /\ request[r].id = a /\ request[r].outcome = "ok"

\* A suspension that a late failure report leaves in the registry is lifted once
\* the credential is up again and keeps succeeding.
SuspensionHeals ==
    \A a \in Auths :
        (<>[](auths[a] = "ready") /\ []<>Resumes(a)) =>
            <>[](a \notin suspended)

\* Nobody holds a snapshot that has yet to reach the scheduler.
Quiet ==
    /\ \A b \in Binders : At(b, "idle")
    /\ \A r \in Requests : ~In(r, "rebuild") /\ ~In(r, "apply")
    /\ \A f \in Refreshers : refresher[f].pc # "upsert"

\* What comments of the code say, and StaleRegistration.cfg and RefreshRevives.cfg refute.

\* A catalog refresh leaves no registration of a removed credential behind: not so.
QuietRegistryDropsRemoved ==
    Quiet => \A a \in Auths : auths[a] = "disabled" => a \notin registered

\* Only an update from the watcher switches a disabled credential on again. It holds
\* without token refreshes, whatever results are under way.
OnlyUpdatesReenable ==
    [][\A a \in Auths : auths[a] = "disabled" /\ auths'[a] \in Enabled
           => At(Service, "update") /\ binder[Service].id = a]_vars
=============================================================================
