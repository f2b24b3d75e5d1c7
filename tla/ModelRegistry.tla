---------------------------- MODULE ModelRegistry ----------------------------
(***************************************************************************)
(* The process-wide registry of models: which clients (credentials) list   *)
(* which model, how many listings and providers each model has, which      *)
(* clients are out of quota or suspended for it, and the cached listing    *)
(* that GetAvailableModels serves.  Every exported call holds the          *)
(* registry's mutex, so it is one action; only GetAvailableModels reads    *)
(* the clock before it locks.  A client's list may name a model twice (two *)
(* upstream models under one alias), so lists are bags.                    *)
(*                                                                         *)
(* Time is an integer clock; zero is Go's zero time.Time.                  *)
(***************************************************************************)
EXTENDS Integers, FiniteSets, FiniteSetsExt

CONSTANTS
    Clients,     \* client IDs
    Models,      \* model IDs
    Providers,   \* provider identifiers
    NoProvider,  \* the empty provider identifier
    MaxCopies,   \* bound: how often one list names one model
    Readers,     \* concurrent calls of GetAvailableModels
    Window,      \* modelQuotaExceededWindow, 5 minutes
    MaxNow       \* bound of the clock

RegistrySetting ==
    /\ IsFiniteSet(Clients)
    /\ NoProvider \notin Providers
    /\ MaxCopies \in Nat \ {0}
    /\ Window \in Nat \ {0}
    /\ MaxNow \in Nat \ {0}

ASSUME RegistryAssumption == RegistrySetting

VARIABLES
    now,             \* time.Now()
    models,          \* r.models; a model that is not registered has count 0
    clientModels,    \* r.clientModels, as a bag per client
    clientProvider,  \* r.clientProviders
    cache,           \* r.availableModelsCache of one handler type
    asOf             \* the clock value a reader captured, 0 outside a call

registryVars == <<now, models, clientModels, clientProvider, cache, asOf>>

Reasons == {"none", "quota", "other"}
Lists == [Models -> 0..MaxCopies]
NoList == [m \in Models |-> 0]

Registration == [count : Nat,
                 providers : [Providers -> Nat],
                 exceeded : [Clients -> Nat],      \* QuotaExceededClients: since when
                 suspended : [Clients -> Reasons]] \* SuspendedClients

Absent == [count |-> 0,
           providers |-> [p \in Providers |-> 0],
           exceeded |-> [c \in Clients |-> 0],
           suspended |-> [c \in Clients |-> "none"]]

NoCache == [built |-> FALSE, models |-> {}, expires |-> 0]

RegistryTypeOK ==
    /\ now \in 1..MaxNow
    /\ models \in [Models -> Registration]
    /\ \A m \in Models : models[m].count = 0 => models[m] = Absent
    /\ clientModels \in [Clients -> Lists]
    /\ clientProvider \in [Clients -> Providers \cup {NoProvider}]
    /\ cache \in [built : BOOLEAN, models : SUBSET Models, expires : Nat]
    /\ asOf \in [Readers -> 0..MaxNow]

(***************************************************************************)
(* One model's registration.                                               *)
(***************************************************************************)

AtLeastZero(n) == IF n < 0 THEN 0 ELSE n
Smaller(a, b) == IF a < b THEN a ELSE b

Gain(reg, p, n) ==
    IF p = NoProvider THEN reg ELSE [reg EXCEPT !.providers[p] = @ + n]
Lose(reg, p, n) ==
    IF p = NoProvider THEN reg ELSE [reg EXCEPT !.providers[p] = AtLeastZero(@ - n)]

Forget(reg, c) == [reg EXCEPT !.exceeded[c] = 0, !.suspended[c] = "none"]

\* addModelRegistration, n times.  A new registration carries no marks.
AddRegistration(reg, p, n) ==
    Gain([IF reg.count = 0 THEN Absent ELSE reg EXCEPT !.count = @ + n], p, n)

\* removeModelRegistration, n times, and the loop of unregisterClientInternal: with
\* its last listing the model goes, and every mark on it.
RemoveRegistration(reg, c, p, n) ==
    LET left == Lose(Forget([reg EXCEPT !.count = @ - n], c), p, n)
    IN  IF n = 0 \/ reg.count = 0 THEN reg ELSE IF left.count <= 0 THEN Absent ELSE left

\* Wrong forms, each next to the definition it distorts: a property that still
\* holds with one of them in place says nothing about the code.
\* The listings a client keeps stay with its former provider.
ReconciledInPlace(reg, c, oldP, newP, old, new) ==
    LET cut == IF new < old THEN RemoveRegistration(reg, c, oldP, old - new) ELSE reg
        grown == IF new > old THEN AddRegistration(cut, newP, new - old) ELSE cut
    IN  IF new = 0 THEN grown ELSE Forget(grown, c)

\* RegisterClient of a known client, for one model that its list names old times
\* before and new times after: the listings it keeps move to the new provider.
Reconciled(reg, c, oldP, newP, old, new) ==
    LET kept == IF oldP = newP THEN 0 ELSE Smaller(old, new)
        moved == IF kept = 0 THEN reg ELSE Lose(reg, oldP, kept)
        cut == IF new < old THEN RemoveRegistration(moved, c, oldP, old - new) ELSE moved
        grown == IF new > old THEN AddRegistration(cut, newP, new - old) ELSE cut
    IN  IF new = 0 THEN grown ELSE Gain(Forget(grown, c), newP, kept)

(***************************************************************************)
(* What the readers compute.                                               *)
(***************************************************************************)

\* Inside the quota window, on the clock value t.
OutOfQuota(reg, t) == {c \in Clients : reg.exceeded[c] # 0 /\ t < reg.exceeded[c] + Window}
Held(reg, reason) == {c \in Clients : reg.suspended[c] = reason}

IsListedWhileCooling(reg, t) ==
    \/ reg.count - Cardinality(OutOfQuota(reg, t)) - Cardinality(Held(reg, "other")) > 0
    \/ reg.count > 0 /\ (OutOfQuota(reg, t) # {} \/ Held(reg, "quota") # {})

\* buildAvailableModelsLocked's test of one registration.
IsListed(reg, t) ==
    LET expired == Cardinality(OutOfQuota(reg, t))
        other == Cardinality(Held(reg, "other"))
    IN  \/ reg.count - expired - other > 0
        \/ /\ reg.count > 0
           /\ expired > 0 \/ Held(reg, "quota") # {}
           /\ other = 0

Listed(t) == {m \in Models : IsListed(models[m], t)}

\* The listing is good until the first mark it counted runs out.
RecoveryTimes(t) ==
    UNION {{models[m].exceeded[c] + Window : c \in OutOfQuota(models[m], t)} : m \in Models}
ExpiresLate(t) == IF RecoveryTimes(t) = {} THEN 0 ELSE Max(RecoveryTimes(t))
Expires(t) == IF RecoveryTimes(t) = {} THEN 0 ELSE Min(RecoveryTimes(t))

(***************************************************************************)
(* The calls.                                                              *)
(***************************************************************************)

Known(c) == clientModels[c] # NoList

RegistryInit ==
    /\ now = 1
    /\ models = [m \in Models |-> Absent]
    /\ clientModels = [c \in Clients |-> NoList]
    /\ clientProvider = [c \in Clients |-> NoProvider]
    /\ cache = NoCache
    /\ asOf = [r \in Readers |-> 0]

Tick ==
    /\ now < MaxNow
    /\ now' = now + 1
    /\ UNCHANGED <<models, clientModels, clientProvider, cache, asOf>>

\* UnregisterClient; RegisterClient with an empty list does the same.
UnregisterClient(c) ==
    /\ models' = [m \in Models |->
                     RemoveRegistration(models[m], c, clientProvider[c], clientModels[c][m])]
    /\ clientModels' = [clientModels EXCEPT ![c] = NoList]
    /\ clientProvider' = [clientProvider EXCEPT ![c] = NoProvider]
    /\ cache' = NoCache
    /\ UNCHANGED <<now, asOf>>

RegisterClient(c, p, list) ==
    /\ list # NoList
    /\ models' = [m \in Models |->
           IF Known(c)
           THEN Reconciled(models[m], c, clientProvider[c], p, clientModels[c][m], list[m])
           ELSE IF list[m] > 0 THEN AddRegistration(models[m], p, list[m]) ELSE models[m]]
    /\ clientModels' = [clientModels EXCEPT ![c] = list]
    /\ clientProvider' = [clientProvider EXCEPT ![c] = p]
    /\ cache' = NoCache
    /\ UNCHANGED <<now, asOf>>

\* The calls below find the model or do nothing.
Mark(m, reg) ==
    /\ models[m].count > 0
    /\ models' = [models EXCEPT ![m] = reg]
    /\ UNCHANGED <<now, clientModels, clientProvider, asOf>>

SetModelQuotaExceeded(c, m) ==
    /\ Mark(m, [models[m] EXCEPT !.exceeded[c] = now])
    /\ cache' = NoCache

ClearModelQuotaExceeded(c, m) ==
    /\ Mark(m, [models[m] EXCEPT !.exceeded[c] = 0])
    /\ cache' = NoCache

\* A suspension keeps its first reason; nobody asks whether c lists m.
SuspendClientModel(c, m, reason) ==
    /\ models[m].suspended[c] = "none"
    /\ Mark(m, [models[m] EXCEPT !.suspended[c] = reason])
    /\ cache' = NoCache

ResumeClientModel(c, m) ==
    /\ models[m].suspended[c] # "none"
    /\ Mark(m, [models[m] EXCEPT !.suspended[c] = "none"])
    /\ cache' = NoCache

CleanupExpiredQuotas ==
    LET over(m) == {c \in Clients : models[m].exceeded[c] # 0} \ OutOfQuota(models[m], now)
    IN  /\ \E m \in Models : over(m) # {}
        /\ models' = [m \in Models |-> [models[m] EXCEPT
               !.exceeded = [c \in Clients |-> IF c \in over(m) THEN 0 ELSE @[c]]]]
        /\ cache' = NoCache
        /\ UNCHANGED <<now, clientModels, clientProvider, asOf>>

\* GetAvailableModels reads the clock, and only then takes the lock ...
BeginList(r) ==
    /\ asOf[r] = 0
    /\ asOf' = [asOf EXCEPT ![r] = now]
    /\ UNCHANGED <<now, models, clientModels, clientProvider, cache>>

\* ... to serve the cached listing, or to build and keep a new one.
CacheValid(t) == cache.built /\ (cache.expires = 0 \/ t < cache.expires)

EndList(r) ==
    /\ asOf[r] # 0
    /\ cache' = IF CacheValid(asOf[r]) THEN cache
                ELSE [built |-> TRUE, models |-> Listed(asOf[r]), expires |-> Expires(asOf[r])]
    /\ asOf' = [asOf EXCEPT ![r] = 0]
    /\ UNCHANGED <<now, models, clientModels, clientProvider>>

RegistryNext ==
    \/ Tick
    \/ \E c \in Clients : UnregisterClient(c)
    \/ \E c \in Clients, p \in Providers \cup {NoProvider}, list \in Lists : RegisterClient(c, p, list)
    \/ \E c \in Clients, m \in Models :
           \/ SetModelQuotaExceeded(c, m)
           \/ ClearModelQuotaExceeded(c, m)
           \/ \E reason \in Reasons \ {"none"} : SuspendClientModel(c, m, reason)
           \/ ResumeClientModel(c, m)
    \/ CleanupExpiredQuotas
    \/ \E r \in Readers : BeginList(r) \/ EndList(r)

RegistrySpec == RegistryInit /\ [][RegistryNext]_registryVars

(***************************************************************************)
(* Properties.                                                             *)
(***************************************************************************)

\* The clients' listings of a model, one for each time a list names it.
Listings(m) == {l \in Clients \X (1..MaxCopies) : l[2] <= clientModels[l[1]][m]}
ListingsOf(m, p) == {l \in Listings(m) : clientProvider[l[1]] = p}

\* Whatever sequence of registrations, changes of provider, shorter and longer
\* lists and removals brought it about, a model's count and the counts of its
\* providers are exactly what the clients' lists add up to.
CountsMatchLists ==
    \A m \in Models :
        /\ models[m].count = Cardinality(Listings(m))
        /\ \A p \in Providers : models[m].providers[p] = Cardinality(ListingsOf(m, p))

\* A reader that still holds an old clock value is never served a listing that was
\* wrong throughout its call: a listing in the cache, as long as the reader takes it
\* for valid, is what some moment since its call began would have built.
ServedIsCurrent ==
    \A r \in Readers :
        (asOf[r] # 0 /\ CacheValid(asOf[r])) =>
            \E t \in asOf[r]..now : cache.models = Listed(t)

\* As long as no list names it twice, a model is listed only if some client that
\* lists it is not suspended for a reason other than quota, whatever marks clients
\* that do not list it have left.
ListedHasProspect ==
    \A m \in Listed(now) :
        (\A c \in Clients : clientModels[c][m] <= 1) =>
            \E c \in Clients : clientModels[c][m] > 0 /\ models[m].suspended[c] # "other"

\* What comments of the code say, and the runs that expect a violation refute.

Available(c, m) ==
    /\ clientModels[c][m] > 0
    /\ models[m].suspended[c] = "none"
    /\ c \notin OutOfQuota(models[m], now)

\* Every mark on the model is of a client that lists it.
MarksAreOwn(m) ==
    \A c \in Clients : clientModels[c][m] = 0 =>
        models[m].suspended[c] = "none" /\ models[m].exceeded[c] = 0

\* GetAvailableModels returns all models that have at least one available client,
\* at least when nobody else's marks are on them: not so, as AvailableHidden.cfg shows.
AvailableIsListed ==
    \A m \in Models :
        (MarksAreOwn(m) /\ \E c \in Clients : Available(c, m)) => m \in Listed(now)
=============================================================================
