-------------------------- MODULE AuthManagerProofs --------------------------
(***************************************************************************)
(* What the consumer of auth updates and the requests guarantee together,  *)
(* for any number of credentials and requests, as long as no catalog       *)
(* refresh and no token refresh runs (StaleRegistration.cfg and            *)
(* RefreshRevives.cfg show how those two break it).                        *)
(*                                                                         *)
(* The inductive invariant follows the consumer through an update: outside *)
(* the window between writing the record and telling the registry, the two *)
(* agree; and an entry that the scheduler offers is backed by the registry *)
(* unless the consumer is about to drop it.                                *)
(***************************************************************************)
EXTENDS AuthManager, TLAPS

svc == binder[Service]

\* Where the record and the registry disagree about the credential in hand.
Writing == {"upsert_update", "register"}
Removing == {"getbyid", "disable", "upsert_disable"}
\* Where the scheduler may still offer what the registry no longer has.
Dropping == Removing \cup {"reconcile", "upsert_reconcile", "refresh", "upsert_refresh"}

IdsKnown ==
    /\ svc.pc = "idle" <=> svc.id = NoAuth
    /\ svc.pc \notin {"latest", "unregister"}
    /\ \A r \in Requests : request[r].pc \in {"exec", "apply", "registry"} => request[r].id \in Auths

RecordsAgree ==
    \A a \in Auths : \/ svc.id = a /\ svc.pc \in Writing \cup Removing
                     \/ a \in registered <=> auths[a] \in Enabled

WindowIsSound ==
    \A a \in Auths : svc.id = a =>
        /\ svc.pc \in Writing => /\ svc.copy # "absent"
                                 /\ svc.copy \in Enabled <=> auths[a] \in Enabled
        /\ svc.pc \in Removing => a \notin registered
        /\ svc.pc \notin {"update", "getbyid"} => auths[a] # "absent"
        /\ svc.pc = "upsert_disable" => auths[a] = "disabled"

OffersBacked ==
    \A a \in Auths :
        /\ sched[a] \in Enabled => a \in registered \/ (svc.id = a /\ svc.pc \in Dropping)
        /\ auths[a] = "absent" => a \notin registered /\ sched[a] \notin Enabled

IInv == TypeOK /\ IdsKnown /\ RecordsAgree /\ WindowIsSound /\ OffersBacked

Alone == Catalogs = {} /\ Refreshers = {}

USE ProcessAssumption

-----------------------------------------------------------------------------
(* What the calls do. *)

LEMMA ViewType ==
    ASSUME NEW a \in Auths, NEW copy \in Statuses
    PROVE  /\ View(a, copy) \in {"out", "unsupported", "ready", "cooling"}
           /\ View(a, copy) \in Enabled => a \in registered /\ copy \in Enabled
BY DEF View, Statuses, Enabled

LEMMA UpsertEffect ==
    ASSUME TypeOK, NEW a \in Auths, NEW copy \in Statuses, Upsert(a, copy)
    PROVE  /\ sched' \in [Auths -> {"out", "unsupported", "ready", "cooling"}]
           /\ sched'[a] \in Enabled => a \in registered /\ copy \in Enabled
           /\ \A x \in Auths \ {a} : sched'[x] = sched[x]
BY ViewType DEF Upsert, TypeOK

LEMMA RegisterEffect ==
    ASSUME TypeOK, NEW a \in Auths, RegisterModels(a)
    PROVE  registered' = registered \cup {a} /\ registered' \in SUBSET Auths
           /\ suspended' \in SUBSET Auths
BY DEF RegisterModels, TypeOK

LEMMA UnregisterEffect ==
    ASSUME TypeOK, NEW a \in Auths, UnregisterModels(a)
    PROVE  registered' = registered \ {a} /\ registered' \in SUBSET Auths
           /\ suspended' \in SUBSET Auths
BY DEF UnregisterModels, TypeOK

LEMMA MergedEnabled ==
    ASSUME NEW copy, NEW current
    PROVE  Merged(copy, current) \subseteq Enabled
BY DEF Merged, Enabled

\* The consumer's own state after a step, and its type.
LEMMA BinderMoves ==
    ASSUME TypeOK, Alone, NEW new \in BinderState,
           binder' = [binder EXCEPT ![Service] = new]
    PROVE  binder' \in [Binders -> BinderState] /\ svc' = new
BY DEF TypeOK, Binders, svc, Alone

-----------------------------------------------------------------------------
(* Steps of requests and the passing of time. *)

\* A step that neither switches a credential on or off nor touches the registry
\* or the consumer, and offers nothing new but what the registry backs.
Harmless ==
    /\ \A a \in Auths : /\ auths'[a] \in Enabled <=> auths[a] \in Enabled
                        /\ auths'[a] = "absent" <=> auths[a] = "absent"
                        /\ auths[a] = "disabled" => auths'[a] = "disabled"
    /\ \A a \in Auths : sched'[a] \in Enabled => sched[a] \in Enabled \/ a \in registered
    /\ registered' = registered
    /\ binder' = binder

LEMMA HarmlessInv ==
    ASSUME IInv, Harmless, TypeOK',
           \A r \in Requests : request'[r].pc \in {"exec", "apply", "registry"}
                                  => request'[r].id \in Auths
    PROVE  IInv'
<1>1. IdsKnown'
  BY DEF IInv, IdsKnown, Harmless, svc
<1>2. RecordsAgree'
  BY DEF IInv, RecordsAgree, Harmless, svc
<1>3. WindowIsSound'
  BY DEF IInv, WindowIsSound, Harmless, svc
<1>4. OffersBacked'
  BY DEF IInv, OffersBacked, Harmless, svc
<1> QED  BY <1>1, <1>2, <1>3, <1>4 DEF IInv

\* A request's own state after a step.
LEMMA RequestMoves ==
    ASSUME IInv, NEW r \in Requests, NEW new \in RequestState,
           new.pc \in {"exec", "apply", "registry"} => new.id \in Auths,
           request' = [request EXCEPT ![r] = new]
    PROVE  /\ request' \in [Requests -> RequestState]
           /\ \A q \in Requests : request'[q].pc \in {"exec", "apply", "registry"}
                                      => request'[q].id \in Auths
BY DEF IInv, TypeOK, IdsKnown

LEMMA ArriveInv ==
    ASSUME IInv, NEW r \in Requests, Arrive(r)
    PROVE  IInv'
<1> DEFINE new == [request[r] EXCEPT !.pc = "pick"]
<1>1. new \in RequestState /\ new.pc = "pick" /\ request' = [request EXCEPT ![r] = new]
  BY DEF Arrive, IInv, TypeOK, RequestState, RequestPc
<1>2. /\ request' \in [Requests -> RequestState]
      /\ \A q \in Requests : request'[q].pc \in {"exec", "apply", "registry"}
                                 => request'[q].id \in Auths
  BY <1>1, RequestMoves
<1>3. TypeOK' /\ Harmless
  BY <1>2 DEF IInv, TypeOK, Arrive, Harmless
<1> QED  BY <1>2, <1>3, HarmlessInv

LEMMA PickInv ==
    ASSUME IInv, NEW r \in Requests, Pick(r)
    PROVE  IInv'
<1>1. \E new \in RequestState :
          /\ new.pc \in {"exec", "apply", "registry"} => new.id \in Auths
          /\ request' = [request EXCEPT ![r] = new]
  <2>1. CASE ReadyEntries # {}
    <3>1. PICK a \in ReadyEntries : request' = [request EXCEPT ![r].pc = "exec", ![r].id = a]
      BY <2>1 DEF Pick
    <3> DEFINE new == [request[r] EXCEPT !.pc = "exec", !.id = a]
    <3>2. new \in RequestState /\ new.id \in Auths
      BY DEF IInv, TypeOK, RequestState, RequestPc, ReadyEntries
    <3>3. request' = [request EXCEPT ![r] = new]
      BY <3>1 DEF IInv, TypeOK
    <3> QED  BY <3>2, <3>3
  <2>2. CASE ReadyEntries = {}
    <3> DEFINE new == [request[r] EXCEPT !.pc = NextAfterMiss(r)]
    <3>1. new \in RequestState /\ new.pc \in {"snapshot", "idle"}
      BY DEF IInv, TypeOK, RequestState, RequestPc, NextAfterMiss
    <3>2. request' = [request EXCEPT ![r] = new]
      BY <2>2 DEF Pick, IInv, TypeOK
    <3> QED  BY <3>1, <3>2
  <2> QED  BY <2>1, <2>2
<1>2. /\ request' \in [Requests -> RequestState]
      /\ \A q \in Requests : request'[q].pc \in {"exec", "apply", "registry"}
                                 => request'[q].id \in Auths
  BY <1>1, RequestMoves
<1>3. TypeOK' /\ Harmless
  BY <1>2 DEF IInv, TypeOK, Pick, Harmless
<1> QED  BY <1>2, <1>3, HarmlessInv

LEMMA SnapshotInv ==
    ASSUME IInv, NEW r \in Requests, SnapshotAuths(r)
    PROVE  IInv'
<1> DEFINE new == [request[r] EXCEPT !.pc = "rebuild", !.all = auths]
<1>1. new \in RequestState /\ new.pc = "rebuild"
  <2>1. request[r] \in RequestState /\ auths \in [Auths -> Statuses] /\ "rebuild" \in RequestPc
    BY DEF IInv, TypeOK, RequestPc
  <2> QED  BY <2>1 DEF RequestState
<1>2. request' = [request EXCEPT ![r] = new]
  BY DEF SnapshotAuths, IInv, TypeOK
<1>3. /\ request' \in [Requests -> RequestState]
      /\ \A q \in Requests : request'[q].pc \in {"exec", "apply", "registry"}
                                 => request'[q].id \in Auths
  <2> HIDE DEF new
  <2> QED  BY <1>1, <1>2, RequestMoves
<1>4. TypeOK' /\ Harmless
  BY <1>3 DEF IInv, TypeOK, SnapshotAuths, Harmless
<1> QED  BY <1>3, <1>4, HarmlessInv

LEMMA RebuildInv ==
    ASSUME IInv, NEW r \in Requests, Rebuild(r)
    PROVE  IInv'
<1> DEFINE new == [request[r] EXCEPT !.pc = "repick", !.all = NoneKnown]
<1>1. new \in RequestState /\ new.pc = "repick"
  <2>1. request[r] \in RequestState
    BY DEF IInv, TypeOK
  <2>2. NoneKnown \in [Auths -> Statuses] /\ "repick" \in RequestPc
    BY DEF NoneKnown, Statuses, RequestPc
  <2> QED  BY <2>1, <2>2 DEF RequestState
<1>2. request' = [request EXCEPT ![r] = new]
  BY DEF Rebuild, IInv, TypeOK
<1>3. /\ request' \in [Requests -> RequestState]
      /\ \A q \in Requests : request'[q].pc \in {"exec", "apply", "registry"}
                                 => request'[q].id \in Auths
  <2> HIDE DEF new
  <2> QED  BY <1>1, <1>2, RequestMoves
<1>4. \A a \in Auths : request[r].all[a] \in Statuses
  BY DEF IInv, TypeOK, RequestState
<1>5. /\ sched' \in [Auths -> {"out", "unsupported", "ready", "cooling"}]
      /\ \A a \in Auths : sched'[a] \in Enabled => a \in registered
  BY <1>4, ViewType DEF Rebuild
<1>6. TypeOK' /\ Harmless
  BY <1>3, <1>5 DEF IInv, TypeOK, Rebuild, Harmless
<1> QED  BY <1>3, <1>6, HarmlessInv

LEMMA ReportedState ==
    ASSUME NEW q \in RequestState, NEW status \in Statuses, NEW outcome \in Outcomes
    PROVE  LET new == [q EXCEPT !.pc = "apply", !.copy = status, !.outcome = outcome]
           IN  new \in RequestState /\ new.id = q.id
BY DEF RequestState, RequestPc

LEMMA MarkResultInv ==
    ASSUME IInv, NEW r \in Requests, NEW outcome \in Outcomes, MarkResult(r, outcome)
    PROVE  IInv'
<1> DEFINE a == request[r].id
           status == IF auths[a] \notin Enabled \/ outcome = "scoped" THEN auths[a]
                     ELSE IF outcome \in {"hold", "transient"} THEN "cooling" ELSE "ready"
           new == [request[r] EXCEPT !.pc = "apply", !.copy = status, !.outcome = outcome]
<1>1. a \in Auths /\ auths[a] \in Statuses
  BY DEF IInv, TypeOK, IdsKnown, MarkResult, In
<1>2. status \in Statuses /\ (status \in Enabled <=> auths[a] \in Enabled)
      /\ (auths[a] \notin Enabled => status = auths[a])
  BY <1>1 DEF Statuses, Enabled
<1>3. auths' = [auths EXCEPT ![a] = status] /\ request' = [request EXCEPT ![r] = new]
  BY DEF MarkResult, IInv, TypeOK
<1> HIDE DEF status
<1>4. new \in RequestState /\ new.id \in Auths
  <2>1. request[r] \in RequestState
    BY DEF IInv, TypeOK
  <2>2. /\ [request[r] EXCEPT !.pc = "apply", !.copy = status, !.outcome = outcome] \in RequestState
        /\ [request[r] EXCEPT !.pc = "apply", !.copy = status, !.outcome = outcome].id = request[r].id
    BY <1>2, <2>1, ReportedState
  <2> QED  BY <1>1, <2>2
<1> HIDE DEF new
<1>5. /\ request' \in [Requests -> RequestState]
      /\ \A q \in Requests : request'[q].pc \in {"exec", "apply", "registry"}
                                 => request'[q].id \in Auths
  BY <1>3, <1>4, RequestMoves
<1>6. TypeOK'
  BY <1>1, <1>2, <1>3, <1>5 DEF IInv, TypeOK, MarkResult
<1>7. \A x \in Auths : auths'[x] = IF x = a THEN status ELSE auths[x]
  BY <1>3 DEF IInv, TypeOK
<1>8. "absent" \notin Enabled /\ "disabled" \notin Enabled
  BY DEF Enabled
<1> HIDE DEF a
<1>9. Harmless
  BY <1>2, <1>7, <1>8 DEF MarkResult, Harmless
<1> QED  BY <1>5, <1>6, <1>9, HarmlessInv

LEMMA ApplyResultInv ==
    ASSUME IInv, NEW r \in Requests, ApplyResult(r)
    PROVE  IInv'
<1> DEFINE new == [request[r] EXCEPT !.pc = "registry"]
<1>1. request[r].id \in Auths /\ request[r].copy \in Statuses
  BY DEF IInv, TypeOK, IdsKnown, ApplyResult, In, RequestState
<1>2. new \in RequestState /\ new.id \in Auths
  BY <1>1 DEF IInv, TypeOK, RequestState, RequestPc
<1>3. request' = [request EXCEPT ![r] = new]
  BY DEF ApplyResult, IInv, TypeOK
<1>4. /\ request' \in [Requests -> RequestState]
      /\ \A q \in Requests : request'[q].pc \in {"exec", "apply", "registry"}
                                 => request'[q].id \in Auths
  <2> HIDE DEF new
  <2> QED  BY <1>2, <1>3, RequestMoves
<1>5. /\ sched' \in [Auths -> {"out", "unsupported", "ready", "cooling"}]
      /\ sched'[request[r].id] \in Enabled => request[r].id \in registered
      /\ \A x \in Auths \ {request[r].id} : sched'[x] = sched[x]
  BY <1>1, UpsertEffect DEF ApplyResult, IInv
<1>6. TypeOK' /\ Harmless
  BY <1>4, <1>5 DEF IInv, TypeOK, ApplyResult, Harmless
<1> QED  BY <1>4, <1>6, HarmlessInv

LEMMA TellRegistryInv ==
    ASSUME IInv, NEW r \in Requests, TellRegistry(r)
    PROVE  IInv'
<1>1. IdleRequest \in RequestState /\ IdleRequest.pc = "idle"
  BY DEF IdleRequest, RequestState, RequestPc, Outcomes, NoneKnown, Statuses
<1>2. /\ request' \in [Requests -> RequestState]
      /\ \A q \in Requests : request'[q].pc \in {"exec", "apply", "registry"}
                                 => request'[q].id \in Auths
  BY <1>1, RequestMoves DEF TellRegistry
<1>3. request[r].id \in Auths
  BY DEF IInv, IdsKnown, TellRegistry, In
<1>4. suspended' \in SUBSET Auths
  BY <1>3 DEF TellRegistry, SuspendedAfter, IInv, TypeOK
<1>5. TypeOK' /\ Harmless
  BY <1>2, <1>4 DEF IInv, TypeOK, TellRegistry, Harmless
<1> QED  BY <1>2, <1>5, HarmlessInv

LEMMA ExpiryInv ==
    ASSUME IInv, NEW a \in Auths, RecordExpires(a) \/ EntryExpires(a)
    PROVE  IInv'
<1>1. TypeOK' /\ Harmless
  BY DEF IInv, TypeOK, RecordExpires, EntryExpires, Harmless, Statuses, Enabled
<1>2. request' = request
  BY DEF RecordExpires, EntryExpires
<1> QED  BY <1>1, <1>2, HarmlessInv DEF IInv, IdsKnown

-----------------------------------------------------------------------------
(* Steps of the consumer. *)

LEMMA InHand ==
    ASSUME IInv, Alone, svc.pc # "idle"
    PROVE  svc \in BinderState /\ svc.id \in Auths
BY DEF IInv, TypeOK, IdsKnown, BinderState, Binders, svc

LEMMA GotoEffect ==
    ASSUME IInv, Alone, NEW pc \in BinderPc, Goto(Service, pc)
    PROVE  /\ binder' \in [Binders -> BinderState]
           /\ svc'.pc = pc /\ svc'.id = svc.id /\ svc'.copy = svc.copy
<1> DEFINE new == [svc EXCEPT !.pc = pc]
<1>1. svc \in BinderState
  BY DEF IInv, TypeOK, Binders, svc
<1>2. new \in BinderState /\ new.pc = pc /\ new.id = svc.id /\ new.copy = svc.copy
  BY <1>1 DEF BinderState
<1>3. binder' = [binder EXCEPT ![Service] = new]
  BY DEF Goto, svc
<1> HIDE DEF new
<1> QED  BY <1>2, <1>3, BinderMoves DEF IInv

LEMMA GotoWithEffect ==
    ASSUME IInv, Alone, NEW pc \in BinderPc, NEW copy \in Statuses, GotoWith(Service, pc, copy)
    PROVE  /\ binder' \in [Binders -> BinderState]
           /\ svc'.pc = pc /\ svc'.id = svc.id /\ svc'.copy = copy
<1> DEFINE new == [svc EXCEPT !.pc = pc, !.copy = copy]
<1>1. svc \in BinderState
  BY DEF IInv, TypeOK, Binders, svc
<1>2. new \in BinderState /\ new.pc = pc /\ new.id = svc.id /\ new.copy = copy
  BY <1>1 DEF BinderState
<1>3. binder' = [binder EXCEPT ![Service] = new]
  BY DEF GotoWith, svc
<1> HIDE DEF new
<1> QED  BY <1>2, <1>3, BinderMoves DEF IInv

LEMMA FinishEffect ==
    ASSUME IInv, Alone, Finish(Service)
    PROVE  /\ binder' \in [Binders -> BinderState]
           /\ svc'.pc = "idle" /\ svc'.id = NoAuth
<1>1. IdleBinder \in BinderState /\ IdleBinder.pc = "idle" /\ IdleBinder.id = NoAuth
  BY DEF IdleBinder, BinderState, BinderPc, Statuses
<1> QED  BY <1>1, BinderMoves DEF Finish, IInv

\* A step of the consumer that hands its copy to the scheduler.
LEMMA UpsertInv ==
    ASSUME IInv, Alone, svc.pc # "idle", Upsert(svc.id, svc.copy),
           binder' \in [Binders -> BinderState],
           UNCHANGED <<auths, registered, suspended, request, refresher>>
    PROVE  /\ TypeOK'
           /\ \A a \in Auths : sched'[a] \in Enabled =>
                  a \in registered \/ (a # svc.id /\ sched[a] \in Enabled)
<1>1. svc.id \in Auths /\ svc.copy \in Statuses
  BY InHand DEF BinderState
<1>2. /\ sched' \in [Auths -> {"out", "unsupported", "ready", "cooling"}]
      /\ sched'[svc.id] \in Enabled => svc.id \in registered
      /\ \A x \in Auths \ {svc.id} : sched'[x] = sched[x]
  BY <1>1, UpsertEffect DEF IInv
<1>3. TypeOK'
  BY <1>2 DEF IInv, TypeOK
<1> HIDE DEF svc
<1> QED  BY <1>1, <1>2, <1>3

LEMMA BeginAddInv ==
    ASSUME IInv, Alone, NEW a \in Auths, BeginAdd(a)
    PROVE  IInv'
<1> DEFINE new == [pc |-> "update", id |-> a, copy |-> auths[a], again |-> FALSE]
<1>1. new \in BinderState
  BY DEF IInv, TypeOK, BinderState, BinderPc
<1>2. binder' \in [Binders -> BinderState] /\ svc' = new
  <2> HIDE DEF new
  <2> QED  BY <1>1, BinderMoves DEF BeginAdd, IInv, new
<1>3. svc.pc = "idle" /\ svc.id = NoAuth
  BY DEF BeginAdd, At, IInv, IdsKnown, svc
<1>4. TypeOK'
  BY <1>2 DEF IInv, TypeOK, BeginAdd
<1>5. IdsKnown'
  BY <1>2 DEF IInv, IdsKnown, BeginAdd
<1>6. RecordsAgree'
  BY <1>3 DEF IInv, RecordsAgree, BeginAdd
<1>7. WindowIsSound'
  BY <1>2 DEF WindowIsSound, Writing, Removing
<1>8. OffersBacked'
  BY <1>3 DEF IInv, OffersBacked, BeginAdd
<1> QED  BY <1>4, <1>5, <1>6, <1>7, <1>8 DEF IInv

LEMMA UpdateRecordInv ==
    ASSUME IInv, Alone, NEW off \in BOOLEAN, UpdateRecord(off)
    PROVE  IInv'
<1> DEFINE a == svc.id
<1>1. svc \in BinderState /\ svc.pc = "update" /\ a \in Auths
  BY DEF UpdateRecord, At, IInv, TypeOK, IdsKnown, BinderState, Binders, svc
<1>2. PICK status \in (IF off THEN {"disabled"} ELSE Merged(svc.copy, auths[a])) :
          /\ auths' = [auths EXCEPT ![a] = status]
          /\ GotoWith(Service, "upsert_update", status)
  BY DEF UpdateRecord, svc
<1>3. status \in Statuses /\ status # "absent"
  BY <1>2, MergedEnabled DEF Statuses, Enabled
<1> DEFINE new == [svc EXCEPT !.pc = "upsert_update", !.copy = status]
<1>4. new \in BinderState /\ new.pc = "upsert_update" /\ new.id = a /\ new.copy = status
  BY <1>1, <1>3 DEF BinderState, BinderPc
<1>5. binder' = [binder EXCEPT ![Service] = new]
  BY <1>2 DEF GotoWith, svc
<1> HIDE DEF new
<1>6. binder' \in [Binders -> BinderState] /\ svc' = new
  BY <1>4, <1>5, BinderMoves DEF IInv
<1> HIDE DEF a
<1>7. /\ auths' \in [Auths -> Statuses] /\ auths'[a] = status
      /\ \A x \in Auths \ {a} : auths'[x] = auths[x]
  BY <1>1, <1>2, <1>3 DEF IInv, TypeOK
<1>8. UNCHANGED <<sched, registered, suspended, request, refresher>>
  BY DEF UpdateRecord
<1>9. TypeOK'
  BY <1>6, <1>7, <1>8 DEF IInv, TypeOK
<1>10. IdsKnown'
  BY <1>1, <1>4, <1>6, <1>8 DEF IInv, IdsKnown
<1>11. RecordsAgree'
  BY <1>4, <1>6, <1>7, <1>8 DEF IInv, RecordsAgree, Writing, Removing, a
<1>12. WindowIsSound'
  BY <1>3, <1>4, <1>6, <1>7, <1>8 DEF WindowIsSound, Writing, Removing
<1>13. OffersBacked'
  BY <1>1, <1>3, <1>7, <1>8 DEF IInv, OffersBacked, Dropping, Removing, a
<1> QED  BY <1>9, <1>10, <1>11, <1>12, <1>13 DEF IInv

LEMMA UpsertUpdatedInv ==
    ASSUME IInv, Alone, UpsertUpdated
    PROVE  IInv'
<1>1. svc.pc = "upsert_update"
  BY DEF UpsertUpdated, At, svc
<1>2. /\ binder' \in [Binders -> BinderState]
      /\ svc'.pc = "register" /\ svc'.id = svc.id /\ svc'.copy = svc.copy
  BY GotoEffect DEF UpsertUpdated, BinderPc
<1>3. UNCHANGED <<auths, registered, suspended, request, refresher>>
  BY DEF UpsertUpdated
<1>4. /\ TypeOK'
      /\ \A a \in Auths : sched'[a] \in Enabled =>
             a \in registered \/ (a # svc.id /\ sched[a] \in Enabled)
  BY <1>1, <1>2, <1>3, UpsertInv DEF UpsertUpdated, svc
<1> USE <1>1, <1>2, <1>3, <1>4
<1> HIDE DEF svc
<1>5. svc.id \in Auths
  BY InHand
<1>6. IdsKnown'
  BY <1>5 DEF IInv, IdsKnown
<1>7. RecordsAgree'
  BY DEF IInv, RecordsAgree, Writing, Removing
<1>8. WindowIsSound'
  BY DEF IInv, WindowIsSound, Writing, Removing
<1>9. OffersBacked'
  BY DEF IInv, OffersBacked, Dropping, Removing
<1> QED  BY <1>6, <1>7, <1>8, <1>9 DEF IInv

LEMMA RegisterInv ==
    ASSUME IInv, Alone, Register(Service)
    PROVE  IInv'
<1>1. svc.pc = "register"
  BY DEF Register, At, svc
<1>2. svc.id \in Auths /\ svc.copy \in Statuses
  BY <1>1, InHand DEF BinderState
<1>3. /\ binder' \in [Binders -> BinderState]
      /\ svc'.pc = "reconcile" /\ svc'.id = svc.id /\ svc'.copy = svc.copy
  BY GotoEffect DEF Register, BinderPc
<1>4. /\ \/ svc.copy # "disabled" /\ registered' = registered \cup {svc.id}
         \/ svc.copy = "disabled" /\ registered' = registered \ {svc.id}
      /\ registered' \in SUBSET Auths /\ suspended' \in SUBSET Auths
  BY <1>2, RegisterEffect, UnregisterEffect DEF Register, svc, IInv
<1>5. UNCHANGED <<auths, sched, request, refresher>>
  BY DEF Register
<1>6. TypeOK'
  BY <1>3, <1>4, <1>5 DEF IInv, TypeOK
<1> USE <1>1, <1>2, <1>3, <1>4, <1>5
<1> HIDE DEF svc
<1>7. IdsKnown'
  BY DEF IInv, IdsKnown
<1>8. svc.copy # "absent" /\ (svc.copy \in Enabled <=> auths[svc.id] \in Enabled)
      /\ auths[svc.id] # "absent"
  BY DEF IInv, WindowIsSound, Writing
<1>9. svc.id \in registered' <=> auths'[svc.id] \in Enabled
  BY <1>8 DEF Statuses, Enabled
<1>10. RecordsAgree'
  BY <1>9 DEF IInv, RecordsAgree, Writing, Removing
<1>11. WindowIsSound'
  BY <1>8 DEF WindowIsSound, Writing, Removing
<1>12. OffersBacked'
  BY <1>8 DEF IInv, OffersBacked, Dropping, Removing
<1> QED  BY <1>6, <1>7, <1>10, <1>11, <1>12 DEF IInv

LEMMA ReconcileInv ==
    ASSUME IInv, Alone, Reconcile(Service)
    PROVE  IInv'
<1>1. svc.pc = "reconcile" /\ svc.id \in Auths
  BY InHand DEF Reconcile, At, svc
<1>2. AfterReconcile(Service) = "refresh"
  BY DEF AfterReconcile
<1>3. /\ binder' \in [Binders -> BinderState]
      /\ svc'.pc \in {"upsert_reconcile", "refresh"} /\ svc'.id = svc.id
  BY <1>2, GotoEffect, GotoWithEffect DEF Reconcile, BinderPc, Statuses, Enabled
<1>4. UNCHANGED <<sched, registered, suspended, request, refresher>>
  BY DEF Reconcile
<1>5. \/ auths' = auths
      \/ auths[svc.id] = "cooling" /\ auths' = [auths EXCEPT ![svc.id] = "ready"]
  BY DEF Reconcile, svc
<1> USE <1>1, <1>3, <1>4, <1>5
<1> HIDE DEF svc
<1>6. /\ auths' \in [Auths -> Statuses]
      /\ \A a \in Auths : /\ auths'[a] \in Enabled <=> auths[a] \in Enabled
                          /\ auths'[a] = "absent" <=> auths[a] = "absent"
  BY DEF IInv, TypeOK, Statuses, Enabled
<1>7. TypeOK'
  BY <1>6 DEF IInv, TypeOK
<1>8. IdsKnown'
  BY DEF IInv, IdsKnown
<1>9. RecordsAgree'
  BY <1>6 DEF IInv, RecordsAgree, Writing, Removing
<1>10. WindowIsSound'
  BY <1>6 DEF IInv, WindowIsSound, Writing, Removing
<1>11. OffersBacked'
  BY <1>6 DEF IInv, OffersBacked, Dropping, Removing
<1> QED  BY <1>7, <1>8, <1>9, <1>10, <1>11 DEF IInv

LEMMA UpsertReconciledInv ==
    ASSUME IInv, Alone, UpsertReconciled(Service)
    PROVE  IInv'
<1>1. svc.pc = "upsert_reconcile" /\ svc.id \in Auths
  BY InHand DEF UpsertReconciled, At, svc
<1>2. AfterReconcile(Service) = "refresh"
  BY DEF AfterReconcile
<1>3. /\ binder' \in [Binders -> BinderState]
      /\ svc'.pc = "refresh" /\ svc'.id = svc.id
  BY <1>2, GotoEffect DEF UpsertReconciled, BinderPc
<1>4. UNCHANGED <<auths, registered, suspended, request, refresher>>
  BY DEF UpsertReconciled
<1>5. /\ TypeOK'
      /\ \A a \in Auths : sched'[a] \in Enabled =>
             a \in registered \/ (a # svc.id /\ sched[a] \in Enabled)
  BY <1>1, <1>3, <1>4, UpsertInv DEF UpsertReconciled, svc
<1> USE <1>1, <1>3, <1>4, <1>5
<1> HIDE DEF svc
<1>6. IdsKnown'
  BY DEF IInv, IdsKnown
<1>7. RecordsAgree'
  BY DEF IInv, RecordsAgree, Writing, Removing
<1>8. WindowIsSound'
  BY DEF IInv, WindowIsSound, Writing, Removing
<1>9. OffersBacked'
  BY DEF IInv, OffersBacked, Dropping, Removing
<1> QED  BY <1>6, <1>7, <1>8, <1>9 DEF IInv

LEMMA RefreshEntryInv ==
    ASSUME IInv, Alone, RefreshEntry(Service)
    PROVE  IInv'
<1>1. svc.pc = "refresh" /\ svc.id \in Auths
  BY InHand DEF RefreshEntry, At, svc
<1>2. auths[svc.id] \in Statuses
  BY <1>1 DEF IInv, TypeOK
<1>3. /\ binder' \in [Binders -> BinderState]
      /\ svc'.pc = "upsert_refresh" /\ svc'.id = svc.id
  BY <1>2, GotoWithEffect DEF RefreshEntry, BinderPc, svc
<1>4. UNCHANGED <<auths, sched, registered, suspended, request, refresher>>
  BY DEF RefreshEntry
<1> USE <1>1, <1>3, <1>4
<1> HIDE DEF svc
<1>5. TypeOK'
  BY DEF IInv, TypeOK
<1>6. IdsKnown'
  BY DEF IInv, IdsKnown
<1>7. RecordsAgree'
  BY DEF IInv, RecordsAgree, Writing, Removing
<1>8. WindowIsSound'
  BY DEF IInv, WindowIsSound, Writing, Removing
<1>9. OffersBacked'
  BY DEF IInv, OffersBacked, Dropping, Removing
<1> QED  BY <1>5, <1>6, <1>7, <1>8, <1>9 DEF IInv

LEMMA UpsertRefreshedInv ==
    ASSUME IInv, Alone, UpsertRefreshed(Service)
    PROVE  IInv'
<1>1. svc.pc = "upsert_refresh" /\ svc.id \in Auths
  BY InHand DEF UpsertRefreshed, At, svc
<1>2. /\ binder' \in [Binders -> BinderState]
      /\ svc'.pc = "idle" /\ svc'.id = NoAuth
  BY FinishEffect DEF UpsertRefreshed
<1>3. UNCHANGED <<auths, registered, suspended, request, refresher>>
  BY DEF UpsertRefreshed
<1>4. /\ TypeOK'
      /\ \A a \in Auths : sched'[a] \in Enabled =>
             a \in registered \/ (a # svc.id /\ sched[a] \in Enabled)
  BY <1>1, <1>2, <1>3, UpsertInv DEF UpsertRefreshed, svc
<1> USE <1>1, <1>2, <1>3, <1>4
<1> HIDE DEF svc
<1>5. IdsKnown'
  BY DEF IInv, IdsKnown
<1>6. RecordsAgree'
  BY DEF IInv, RecordsAgree, Writing, Removing
<1>7. WindowIsSound'
  BY DEF WindowIsSound
<1>8. OffersBacked'
  BY DEF IInv, OffersBacked
<1> QED  BY <1>5, <1>6, <1>7, <1>8 DEF IInv

LEMMA BeginRemoveInv ==
    ASSUME IInv, Alone, NEW a \in Auths, BeginRemove(a)
    PROVE  IInv'
<1> DEFINE new == [IdleBinder EXCEPT !.pc = "getbyid", !.id = a]
<1>1. new \in BinderState /\ new.pc = "getbyid" /\ new.id = a
  BY DEF IdleBinder, BinderState, BinderPc, Statuses
<1>2. binder' \in [Binders -> BinderState] /\ svc' = new
  <2>1. binder' = [binder EXCEPT ![Service] = new]
    BY DEF BeginRemove
  <2> HIDE DEF new
  <2> QED  BY <1>1, <2>1, BinderMoves DEF IInv
<1> HIDE DEF new
<1>3. svc.pc = "idle" /\ svc.id = NoAuth
  BY DEF BeginRemove, At, IInv, IdsKnown, svc
<1>4. registered' = registered \ {a} /\ registered' \in SUBSET Auths
      /\ suspended' \in SUBSET Auths
  BY UnregisterEffect DEF BeginRemove, IInv
<1>5. UNCHANGED <<auths, sched, request, refresher>>
  BY DEF BeginRemove
<1> USE <1>1, <1>2, <1>3, <1>4, <1>5
<1> HIDE DEF svc
<1>6. TypeOK'
  BY DEF IInv, TypeOK
<1>7. IdsKnown'
  BY DEF IInv, IdsKnown
<1>8. RecordsAgree'
  BY DEF IInv, RecordsAgree, Writing, Removing
<1>9. WindowIsSound'
  BY DEF WindowIsSound, Writing, Removing
<1>10. OffersBacked'
  BY DEF IInv, OffersBacked, Dropping, Removing
<1> QED  BY <1>6, <1>7, <1>8, <1>9, <1>10 DEF IInv

LEMMA LookupRemovedInv ==
    ASSUME IInv, Alone, LookupRemoved
    PROVE  IInv'
<1>1. svc.pc = "getbyid" /\ svc.id \in Auths
  BY InHand DEF LookupRemoved, At, svc
<1>2. /\ binder' \in [Binders -> BinderState]
      /\ \/ auths[svc.id] = "absent" /\ svc'.pc = "idle" /\ svc'.id = NoAuth
         \/ auths[svc.id] # "absent" /\ svc'.pc = "disable" /\ svc'.id = svc.id
  <2>1. CASE auths[svc.id] = "absent"
    BY <2>1, FinishEffect DEF LookupRemoved, svc
  <2>2. CASE auths[svc.id] # "absent"
    BY <2>2, GotoEffect DEF LookupRemoved, svc, BinderPc
  <2> QED  BY <2>1, <2>2
<1>3. UNCHANGED <<auths, sched, registered, suspended, request, refresher>>
  BY DEF LookupRemoved
<1> USE <1>1, <1>2, <1>3
<1> HIDE DEF svc
<1>4. svc.id \notin registered
  BY DEF IInv, WindowIsSound, Removing
<1>5. TypeOK'
  BY DEF IInv, TypeOK
<1>6. IdsKnown'
  BY DEF IInv, IdsKnown
<1>7. RecordsAgree'
  BY <1>4 DEF IInv, RecordsAgree, Writing, Removing, Enabled
<1>8. WindowIsSound'
  BY <1>4 DEF WindowIsSound, Writing, Removing
<1>9. OffersBacked'
  BY <1>4 DEF IInv, OffersBacked, Dropping, Removing
<1> QED  BY <1>5, <1>6, <1>7, <1>8, <1>9 DEF IInv

LEMMA DisableRecordInv ==
    ASSUME IInv, Alone, DisableRecord
    PROVE  IInv'
<1>1. svc.pc = "disable" /\ svc.id \in Auths
  BY InHand DEF DisableRecord, At, svc
<1>2. /\ binder' \in [Binders -> BinderState]
      /\ svc'.pc = "upsert_disable" /\ svc'.id = svc.id
  BY GotoWithEffect DEF DisableRecord, BinderPc, Statuses
<1>3. UNCHANGED <<sched, registered, suspended, request, refresher>>
  BY DEF DisableRecord
<1>4. auths' = [auths EXCEPT ![svc.id] = "disabled"]
  BY DEF DisableRecord, svc
<1> USE <1>1, <1>2, <1>3, <1>4
<1> HIDE DEF svc
<1>5. svc.id \notin registered
  BY DEF IInv, WindowIsSound, Removing
<1>6. /\ auths' \in [Auths -> Statuses] /\ auths'[svc.id] = "disabled"
      /\ \A a \in Auths \ {svc.id} : auths'[a] = auths[a]
  BY DEF IInv, TypeOK, Statuses
<1>7. TypeOK'
  BY <1>6 DEF IInv, TypeOK
<1>8. IdsKnown'
  BY DEF IInv, IdsKnown
<1>9. RecordsAgree'
  BY <1>6 DEF IInv, RecordsAgree, Writing, Removing
<1>10. WindowIsSound'
  BY <1>5, <1>6 DEF WindowIsSound, Writing, Removing
<1>11. OffersBacked'
  BY <1>6 DEF IInv, OffersBacked, Dropping, Removing
<1> QED  BY <1>7, <1>8, <1>9, <1>10, <1>11 DEF IInv

LEMMA UpsertDisabledInv ==
    ASSUME IInv, Alone, UpsertDisabled
    PROVE  IInv'
<1>1. svc.pc = "upsert_disable" /\ svc.id \in Auths
  BY InHand DEF UpsertDisabled, At, svc
<1>2. /\ binder' \in [Binders -> BinderState]
      /\ svc'.pc = "idle" /\ svc'.id = NoAuth
  BY FinishEffect DEF UpsertDisabled
<1>3. UNCHANGED <<auths, registered, suspended, request, refresher>>
  BY DEF UpsertDisabled
<1>4. /\ TypeOK'
      /\ \A a \in Auths : sched'[a] \in Enabled =>
             a \in registered \/ (a # svc.id /\ sched[a] \in Enabled)
  BY <1>1, <1>2, <1>3, UpsertInv DEF UpsertDisabled, svc
<1> USE <1>1, <1>2, <1>3, <1>4
<1> HIDE DEF svc
<1>5. svc.id \notin registered /\ auths[svc.id] = "disabled"
  BY DEF IInv, WindowIsSound, Removing
<1>6. IdsKnown'
  BY DEF IInv, IdsKnown
<1>7. RecordsAgree'
  BY <1>5 DEF IInv, RecordsAgree, Writing, Removing, Enabled
<1>8. WindowIsSound'
  BY DEF WindowIsSound
<1>9. OffersBacked'
  BY DEF IInv, OffersBacked
<1> QED  BY <1>6, <1>7, <1>8, <1>9 DEF IInv

-----------------------------------------------------------------------------
(* The theorems. *)

LEMMA InitInv == Alone /\ Init => IInv
<1> SUFFICES ASSUME Alone, Init PROVE IInv
  OBVIOUS
<1>1. IdleBinder \in BinderState /\ IdleRequest \in RequestState
  BY DEF IdleBinder, BinderState, BinderPc, IdleRequest, RequestState, RequestPc,
         Outcomes, NoneKnown, Statuses
<1>2. TypeOK
  BY <1>1 DEF Init, TypeOK, NoneKnown, Statuses, Alone
<1>3. svc = IdleBinder /\ \A r \in Requests : request[r].pc = "idle"
  BY DEF Init, svc, Binders, IdleRequest
<1>4. IdsKnown /\ WindowIsSound
  BY <1>3 DEF IdsKnown, WindowIsSound, IdleBinder
<1>5. RecordsAgree /\ OffersBacked
  BY DEF Init, RecordsAgree, OffersBacked, NoneKnown, Enabled
<1> QED  BY <1>2, <1>4, <1>5 DEF IInv

LEMMA StepInv == Alone /\ IInv /\ [Next]_vars => IInv'
<1> SUFFICES ASSUME Alone, IInv, [Next]_vars PROVE IInv'
  OBVIOUS
<1>1. CASE \E a \in Auths : BeginAdd(a) \/ BeginRemove(a) \/ RecordExpires(a) \/ EntryExpires(a)
  BY <1>1, BeginAddInv, BeginRemoveInv, ExpiryInv
<1>2. CASE ServiceStep
  BY <1>2, UpdateRecordInv, UpsertUpdatedInv, LookupRemovedInv, DisableRecordInv,
     UpsertDisabledInv, RegisterInv, ReconcileInv, UpsertReconciledInv, RefreshEntryInv,
     UpsertRefreshedInv
  DEF ServiceStep, Bind
<1>3. CASE \E r \in Requests : RequestStep(r) \/ Arrive(r)
  BY <1>3, ArriveInv, PickInv, SnapshotInv, RebuildInv, MarkResultInv, ApplyResultInv,
     TellRegistryInv
  DEF RequestStep
<1>4. CASE UNCHANGED vars
  <2>1. TypeOK' /\ Harmless /\ request' = request
    BY <1>4 DEF vars, IInv, TypeOK, Harmless
  <2> QED  BY <2>1, HarmlessInv DEF IInv, IdsKnown
<1> QED  BY <1>1, <1>2, <1>3, <1>4 DEF Next, Alone

\* Type correctness, with the rest of the inductive invariant.
THEOREM Invariance ==
    ASSUME Alone
    PROVE  Spec => []IInv
BY InitInv, StepInv, PTL DEF Spec

\* Records, scheduler, registry and threads keep their types.
THEOREM TypeCorrect ==
    ASSUME Alone
    PROVE  Spec => []TypeOK
<1>1. IInv => TypeOK
  BY DEF IInv
<1> QED  BY <1>1, Invariance, PTL

\* Between two updates the registry lists exactly the enabled credentials.
THEOREM RegistryFollowsRecords ==
    ASSUME Alone
    PROVE  Spec => []RegisteredIffEnabled
<1>1. IInv => RegisteredIffEnabled
  BY DEF IInv, TypeOK, IdsKnown, RecordsAgree, RegisteredIffEnabled, At, svc
<1> QED  BY <1>1, Invariance, PTL

\* No late result puts a removed credential back on offer.
THEOREM RemovedStaysOut ==
    ASSUME Alone
    PROVE  Spec => []RemovedNotOffered
<1>1. IInv => RemovedNotOffered
  <2> SUFFICES ASSUME IInv, svc.pc = "idle", NEW a \in Auths, auths[a] = "disabled"
               PROVE  sched[a] \notin Enabled
    BY DEF RemovedNotOffered, At, svc
  <2>1. svc.id # a
    BY DEF IInv, IdsKnown
  <2>2. a \notin registered
    BY <2>1 DEF IInv, RecordsAgree, Enabled
  <2> QED  BY <2>1, <2>2 DEF IInv, OffersBacked
<1> QED  BY <1>1, Invariance, PTL
=============================================================================
