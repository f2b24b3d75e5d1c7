---------------------------- MODULE ServiceProofs ----------------------------
(***************************************************************************)
(* Proofs about the parts that run beside the requests: the refresh loop,  *)
(* the websocket relay, the credential file watcher and the model          *)
(* registry. The components share no name, so that one module may speak of *)
(* them all; nothing proved of one is used for another.                    *)
(***************************************************************************)
EXTENDS AutoRefresh, Relay, Watcher, ModelRegistry, FiniteOrder, FunctionTheorems, TLAPS

(***************************************************************************)
(* AutoRefresh: a credential falls out of the schedule only on a           *)
(* rejection. This rests on who holds a credential in hand: the loop       *)
(* between looking at a record and sending it off, and a worker between    *)
(* taking a job and putting it back.                                       *)
(***************************************************************************)

\* The loop holds one credential exactly while it decides about it, and starts a
\* drain with nothing left of its list; an idle worker holds nothing.
InHand ==
    /\ loop.pc \in {"mark", "recheck", "send"} <=> loop.hand \in Auths
    /\ loop.pc = "drain" => loop.list = {}
    /\ \A w \in Workers : worker[w].pc = "idle" <=> worker[w].id = NoAuth

\* The inductive invariant of the refresh loop.
RefreshInv == RefreshTypeOK /\ InHand

\* The place of a credential in the schedule is out of it exactly on a rejection.
LEMMA NextCheckPlace ==
    ASSUME NEW a \in Auths
    PROVE  /\ NextCheck(a) \in {"out", "waiting", "due"}
           /\ NextCheck(a) = "out" <=> rejected[a]
BY DEF NextCheck

LEMMA RefreshInitially == RefreshInit => RefreshInv
<1> SUFFICES ASSUME RefreshInit PROVE RefreshInv
    OBVIOUS
<1>1. heap \in [Auths -> {"out", "waiting", "due"}]
    BY NextCheckPlace DEF RefreshInit
<1>2. jobs \in Seq(Auths) /\ Len(jobs) <= JobCap
    BY RefreshAssumption DEF RefreshInit
<1>3. loop \in LoopState /\ worker \in [Workers -> WorkerState]
    BY DEF RefreshInit, LoopState, WorkerState, Idle
<1>4. RefreshTypeOK
    BY <1>1, <1>2, <1>3 DEF RefreshInit, RefreshTypeOK
<1>5. InHand
    BY RefreshAssumption DEF RefreshInit, InHand, Idle
<1>6. QED
    BY <1>4, <1>5 DEF RefreshInv

LEMMA LoopKeeps == RefreshInv /\ Loop => RefreshInv'
<1> SUFFICES ASSUME RefreshInv, Loop PROVE RefreshInv'
    OBVIOUS
<1> USE RefreshAssumption DEF RefreshInv, InHand, RefreshTypeOK, LoopState, WorkerState,
        LoopAt, Selecting, recordVars
<1>1. CASE Wake
    BY <1>1 DEF Wake
<1>2. CASE PopDue
    BY <1>2 DEF PopDue
<1>3. CASE MarkRefreshPending
    <2>1. loop.hand \in Auths
        BY <1>3 DEF MarkRefreshPending
    <2>2. CASE gated[loop.hand]
        BY <1>3, <2>2 DEF MarkRefreshPending
    <2>3. CASE ~gated[loop.hand]
        <3>1. /\ gated' = [gated EXCEPT ![loop.hand] = TRUE]
              /\ dirty' = dirty \cup {loop.hand} /\ wake' = TRUE
              /\ loop' = [loop EXCEPT !.pc = "send"]
              /\ UNCHANGED <<wants, rejected, updated, heap, jobs, worker>>
            BY <1>3, <2>3 DEF MarkRefreshPending, Reschedule
        <3>2. gated' \in [Auths -> BOOLEAN] /\ dirty' \in SUBSET Auths /\ wake' \in BOOLEAN
            BY <2>1, <3>1
        <3>3. QED
            BY <2>1, <3>1, <3>2
    <2>4. QED
        BY <2>2, <2>3
<1>4. CASE Recheck
    BY <1>4, NextCheckPlace DEF Recheck, Place
<1>5. CASE SendJob
    <2>1. loop.hand \in Auths /\ jobs' = Append(jobs, loop.hand) /\ Len(jobs) < JobCap
        BY <1>5 DEF SendJob
    <2>2. jobs' \in Seq(Auths) /\ Len(jobs') <= JobCap
        BY <2>1
    <2>3. QED
        BY <1>5, <2>2 DEF SendJob
<1>6. CASE DrainDirty
    BY <1>6 DEF DrainDirty
<1>7. ASSUME NEW a \in Auths, CheckDue(a) PROVE RefreshInv'
    BY <1>7, NextCheckPlace DEF CheckDue, Place
<1>8. ASSUME NEW a \in Auths, ApplyDirty(a) PROVE RefreshInv'
    BY <1>8, NextCheckPlace DEF ApplyDirty, Place
<1>9. QED
    BY <1>1, <1>2, <1>3, <1>4, <1>5, <1>6, <1>7, <1>8 DEF Loop

LEMMA WorkKeeps == ASSUME NEW w \in Workers PROVE RefreshInv /\ Work(w) => RefreshInv'
<1> SUFFICES ASSUME RefreshInv, Work(w) PROVE RefreshInv'
    OBVIOUS
<1> USE RefreshAssumption DEF RefreshInv, InHand, RefreshTypeOK, LoopState, WorkerState, recordVars
<1>1. CASE TakeJob(w)
    BY <1>1 DEF TakeJob
<1>2. ASSUME NEW flag \in BOOLEAN, RefreshFails(w, flag) PROVE RefreshInv'
    BY <1>2 DEF RefreshFails
<1>3. ASSUME NEW flag \in BOOLEAN, RefreshSucceeds(w, flag) PROVE RefreshInv'
    BY <1>3 DEF RefreshSucceeds
<1>4. CASE RequeueRefreshed(w)
    BY <1>4 DEF RequeueRefreshed, Reschedule, Idle
<1>5. QED
    BY <1>1, <1>2, <1>3, <1>4 DEF Work

LEMMA RefreshInductive == RefreshInv /\ [RefreshNext]_refreshVars => RefreshInv'
<1> SUFFICES ASSUME RefreshInv, [RefreshNext]_refreshVars PROVE RefreshInv'
    OBVIOUS
<1> USE DEF RefreshInv, InHand, RefreshTypeOK, recordVars
<1>1. CASE Loop
    BY <1>1, LoopKeeps
<1>2. ASSUME NEW w \in Workers, Work(w) PROVE RefreshInv'
    BY <1>2, WorkKeeps
<1>3. ASSUME NEW a \in Auths, Update(a) PROVE RefreshInv'
    BY <1>3 DEF Update
<1>4. ASSUME NEW a \in Auths, RequeueUpdated(a) PROVE RefreshInv'
    BY <1>4 DEF RequeueUpdated, Reschedule
<1>5. ASSUME NEW a \in Auths, NEW flag \in BOOLEAN, MarkResult(a, flag) PROVE RefreshInv'
    BY <1>5 DEF MarkResult
<1>6. ASSUME NEW a \in Auths, LeadBegins(a) \/ GateOpens(a) PROVE RefreshInv'
    BY <1>6 DEF LeadBegins, GateOpens
<1>7. ASSUME NEW a \in Auths, EntryFallsDue(a) PROVE RefreshInv'
    BY <1>7 DEF EntryFallsDue
<1>8. CASE UNCHANGED refreshVars
    BY <1>8 DEF refreshVars
<1>9. QED
    BY <1>1, <1>2, <1>3, <1>4, <1>5, <1>6, <1>7, <1>8 DEF RefreshNext

LEMMA RefreshInvariance == RefreshSpec => []RefreshInv
BY RefreshInitially, RefreshInductive, PTL DEF RefreshSpec

\* The loop, the workers and the schedule keep to their types: the channel never
\* holds more than its capacity, and holds only credentials.
THEOREM RefreshTypeCorrect == RefreshSpec => []RefreshTypeOK
BY RefreshInvariance, PTL DEF RefreshInv

\* A step of the loop takes a credential from the schedule only on a rejection.
LEMMA LoopDrops ==
    ASSUME NEW a \in Auths, RefreshInv, Loop, Tracked(a), ~Tracked(a)'
    PROVE  rejected[a]
<1> USE RefreshAssumption DEF RefreshInv, InHand, RefreshTypeOK, LoopState, WorkerState, Tracked,
        LoopAt, Selecting, recordVars
<1>1. CASE Wake
    BY <1>1 DEF Wake
<1>2. CASE PopDue
    BY <1>2 DEF PopDue
<1>3. CASE MarkRefreshPending
    BY <1>3 DEF MarkRefreshPending, Reschedule
<1>4. CASE Recheck
    BY <1>4, NextCheckPlace DEF Recheck, Place
<1>5. CASE SendJob
    <2>1. /\ loop.hand \in Auths /\ jobs' = Append(jobs, loop.hand)
          /\ UNCHANGED <<updated, heap, dirty, worker>>
          /\ loop'.list = loop.list
        BY <1>5 DEF SendJob
    <2>2. jobs'[Len(jobs) + 1] = loop.hand /\ Len(jobs) + 1 \in DOMAIN jobs'
        BY <2>1
    <2>3. \A i \in DOMAIN jobs : i \in DOMAIN jobs' /\ jobs'[i] = jobs[i]
        BY <2>1
    <2>4. QED
        BY <2>1, <2>2, <2>3
<1>6. CASE DrainDirty
    BY <1>6 DEF DrainDirty
<1>7. ASSUME NEW b \in Auths, CheckDue(b) PROVE rejected[a]
    BY <1>7, NextCheckPlace DEF CheckDue, Place
<1>8. ASSUME NEW b \in Auths, ApplyDirty(b) PROVE rejected[a]
    BY <1>8, NextCheckPlace DEF ApplyDirty, Place
<1>9. QED
    BY <1>1, <1>2, <1>3, <1>4, <1>5, <1>6, <1>7, <1>8 DEF Loop

\* A worker never drops the credential it works on.
LEMMA WorkDrops ==
    ASSUME NEW w \in Workers, RefreshInv, Work(w), NEW a \in Auths, Tracked(a)
    PROVE  Tracked(a)'
<1> USE RefreshAssumption DEF RefreshInv, InHand, RefreshTypeOK, LoopState, WorkerState, Tracked,
        recordVars
<1>1. CASE TakeJob(w)
    <2>1. /\ jobs # <<>> /\ jobs' = Tail(jobs)
          /\ worker' = [worker EXCEPT ![w] = [pc |-> "refresh", id |-> Head(jobs)]]
          /\ UNCHANGED <<updated, heap, dirty, loop>>
          /\ worker[w].id = NoAuth
        BY <1>1 DEF TakeJob
    <2>2. ASSUME NEW i \in DOMAIN jobs, jobs[i] = a
          PROVE  worker'[w].id = a \/ \E j \in DOMAIN jobs' : jobs'[j] = a
        <3>1. CASE i = 1
            BY <2>1, <2>2, <3>1
        <3>2. CASE i # 1
            <4>1. i - 1 \in DOMAIN Tail(jobs) /\ Tail(jobs)[i - 1] = jobs[i]
                BY <2>1, <3>2
            <4>2. QED
                BY <2>1, <2>2, <4>1
        <3>3. QED
            BY <3>1, <3>2
    <2>3. \A v \in Workers : worker[v].id = a => worker'[v].id = a
        BY <2>1
    <2>4. QED
        BY <2>1, <2>2, <2>3
<1>2. ASSUME NEW flag \in BOOLEAN, RefreshFails(w, flag) PROVE Tracked(a)'
    BY <1>2 DEF RefreshFails
<1>3. ASSUME NEW flag \in BOOLEAN, RefreshSucceeds(w, flag) PROVE Tracked(a)'
    BY <1>3 DEF RefreshSucceeds
<1>4. CASE RequeueRefreshed(w)
    BY <1>4 DEF RequeueRefreshed, Reschedule, Idle
<1>5. QED
    BY <1>1, <1>2, <1>3, <1>4 DEF Work

LEMMA NextDrops ==
    ASSUME RefreshInv, [RefreshNext]_refreshVars, NEW a \in Auths, Tracked(a), ~Tracked(a)'
    PROVE  rejected[a]
<1> USE DEF RefreshInv, RefreshTypeOK, Tracked, recordVars
<1>1. CASE Loop
    BY <1>1, LoopDrops
<1>2. ASSUME NEW w \in Workers, Work(w) PROVE rejected[a]
    BY <1>2, WorkDrops
<1>3. ASSUME NEW b \in Auths, Update(b) PROVE rejected[a]
    BY <1>3 DEF Update
<1>4. ASSUME NEW b \in Auths, RequeueUpdated(b) PROVE rejected[a]
    BY <1>4 DEF RequeueUpdated, Reschedule
<1>5. ASSUME NEW b \in Auths, NEW flag \in BOOLEAN, MarkResult(b, flag) PROVE rejected[a]
    BY <1>5 DEF MarkResult
<1>6. ASSUME NEW b \in Auths, LeadBegins(b) \/ GateOpens(b) PROVE rejected[a]
    BY <1>6 DEF LeadBegins, GateOpens
<1>7. ASSUME NEW b \in Auths, EntryFallsDue(b) PROVE rejected[a]
    BY <1>7 DEF EntryFallsDue
<1>8. CASE UNCHANGED refreshVars
    BY <1>8 DEF refreshVars
<1>9. QED
    BY <1>1, <1>2, <1>3, <1>4, <1>5, <1>6, <1>7, <1>8 DEF RefreshNext

\* For every number of credentials and workers and every capacity of the channel, a
\* credential falls out of the schedule only when its record shows a rejection.
THEOREM OnlyRejectedDrop == RefreshSpec => DropsOnlyRejected
<1>1. RefreshInv /\ [RefreshNext]_refreshVars
                => [\A a \in Auths : (Tracked(a) /\ ~Tracked(a)') => rejected[a]]_refreshVars
    BY NextDrops
<1>2. QED
    BY <1>1, RefreshInvariance, PTL DEF RefreshSpec, DropsOnlyRejected

(***************************************************************************)
(* Relay: what a request has got, what its channel holds and what the      *)
(* reader has in hand add up to what the other side has sent, unless a     *)
(* message found no room.                                                  *)
(***************************************************************************)

ReaderPlaces == {"new", "store", "load", "check", "write", "wait", "done"}
EarlyPc == {"new", "store", "load", "check", "write"}
\* The reader has a message for r in hand: dispatch has looked up the channel and is
\* about to send on it.
Holds(r) == reader.pc = "offer" /\ r \in reader.id
\* The reader has delivered the last message for r and is about to delete and close its
\* channel.
Finishes(r) == reader.pc = "finish" /\ r \in reader.id
\* The channel ends in a message after which the request does not wait for more.
FinalInside(r) == \E i \in DOMAIN chan[r].buf : chan[r].buf[i] \in Final
\* What has come in for r so far: counted by the request, in its channel, or in hand.
UnderWay(r) == caller[r].got + Len(chan[r].buf) + (IF Holds(r) THEN 1 ELSE 0)

\* Before the request waits nothing was sent for it; its channel is empty unless somebody
\* has closed it after offering an error.
EarlyInv(r) ==
    /\ caller[r].pc \in EarlyPc
    /\ caller[r].outcome = "none" /\ caller[r].got = 0 /\ peer[r] = 0 /\ r \notin gone
    /\ \A i \in DOMAIN chan[r].buf : chan[r].buf[i] # "end"
    /\ IF chan[r].closed THEN FinalInside(r) \/ r \in lost ELSE chan[r].buf = <<>>
    /\ ~Holds(r) /\ ~Finishes(r)

\* While the request waits, what is under way and what the other side has yet to send
\* make up the whole answer with its end, unless a message was lost; and a closed channel
\* holds the message that says why.
WaitInv(r) ==
    /\ caller[r].pc = "wait" /\ caller[r].outcome = "none"
    /\ chan[r].closed \/ Finishes(r) => FinalInside(r) \/ r \in lost \cup gone
    /\ r \notin lost =>
        /\ \A i \in DOMAIN chan[r].buf : chan[r].buf[i] = "end" => caller[r].got + i = Parts[r] + 1
        /\ ~chan[r].closed =>
            /\ r \in pending /\ peer[r] > 0 => UnderWay(r) + peer[r] = Parts[r] + 1
            /\ Holds(r) /\ reader.type = "end" => UnderWay(r) = Parts[r] + 1

\* What a request reports as complete is all of it, unless a message was lost or its
\* client has left.
DoneInv(r) ==
    /\ caller[r].pc = "done"
    /\ caller[r].outcome = "complete" => caller[r].got = Parts[r] \/ r \in lost \cup gone

RequestInv(r) == EarlyInv(r) \/ WaitInv(r) \/ DoneInv(r)

\* The reader deals with one request at a time, and whoever starts the cleanup from the
\* reader ends in it.
ReaderInv ==
    /\ \A r, s \in reader.id : r = s
    /\ cleaner.byReader /\ cleaner.pc \notin {"no", "done"} => reader.pc = "cleanup"

\* The inductive invariant of the relay.
RelayInv == RelayTypeOK /\ ReaderInv /\ \A r \in Requests : RequestInv(r)

\* RelayTypeOK, taken apart at one request.
LEMMA RelayTyped ==
    ASSUME RelayTypeOK, NEW r \in Requests
    PROVE  /\ caller[r].pc \in ReaderPlaces
           /\ caller[r].got \in Nat /\ caller[r].outcome \in Outcomes
           /\ chan[r].buf \in Seq(Messages) /\ chan[r].closed \in BOOLEAN
           /\ peer[r] \in Nat /\ Parts[r] \in Nat
<1>1. caller[r] \in Caller
  BY DEF RelayTypeOK
<1>2. chan[r] \in [buf : Seq(Messages), closed : BOOLEAN]
  BY DEF RelayTypeOK
<1>3. peer[r] \in Nat /\ Parts[r] \in Nat
  BY RelayAssumption DEF RelayTypeOK, RelaySetting
<1> QED  BY <1>1, <1>2, <1>3 DEF Caller, ReaderPlaces

LEMMA CallerRecord ==
    ASSUME NEW c \in Caller, NEW pc \in ReaderPlaces, NEW out \in Outcomes
    PROVE  /\ [c EXCEPT !.pc = pc] \in Caller
           /\ [c EXCEPT !.pc = pc, !.outcome = out] \in Caller
           /\ [c EXCEPT !.got = @ + 1] \in Caller
<1>1. [c EXCEPT !.pc = pc] \in Caller
  BY DEF Caller, ReaderPlaces
<1>2. [c EXCEPT !.pc = pc, !.outcome = out] \in Caller
  BY DEF Caller, ReaderPlaces
<1>3. [c EXCEPT !.got = @ + 1] \in Caller
  BY DEF Caller
<1> QED  BY <1>1, <1>2, <1>3

LEMMA CallerTyped ==
    ASSUME RelayTypeOK, NEW q \in Requests, NEW pc \in ReaderPlaces, NEW out \in Outcomes,
           \/ caller' = [caller EXCEPT ![q].pc = pc]
           \/ caller' = [caller EXCEPT ![q].pc = pc, ![q].outcome = out]
           \/ caller' = [caller EXCEPT ![q].got = @ + 1]
    PROVE  caller' \in [Requests -> Caller]
<1>1. caller \in [Requests -> Caller] /\ caller[q] \in Caller
  BY DEF RelayTypeOK
<1>4. CASE caller' = [caller EXCEPT ![q].pc = pc]
  BY <1>1, CallerRecord, <1>4
<1>5. CASE caller' = [caller EXCEPT ![q].pc = pc, ![q].outcome = out]
  BY <1>1, CallerRecord, <1>5
<1>6. CASE caller' = [caller EXCEPT ![q].got = @ + 1]
  BY <1>1, CallerRecord, <1>6
<1> QED  BY <1>4, <1>5, <1>6

LEMMA TakeTyped ==
    ASSUME RelayTypeOK, NEW q \in Requests, TakeAndClose(q)
    PROVE  /\ pending' \in SUBSET Requests
           /\ chan' \in [Requests -> [buf : Seq(Messages), closed : BOOLEAN]]
           /\ \A r \in Requests : Len(chan'[r].buf) <= Cap
BY DEF RelayTypeOK, TakeAndClose

\* A request that a step does not touch keeps its invariant; the reader may turn to
\* another one.
LEMMA OthersDiffer ==
    ASSUME RelayTypeOK, NEW r \in Requests, RequestInv(r),
           caller'[r] = caller[r], chan'[r] = chan[r], peer'[r] = peer[r],
           r \in gone => r \in gone', r \in lost => r \in lost', r \in pending' => r \in pending,
           r \in gone' => r \in gone \/ caller[r].pc = "wait",
           Holds(r)' = Holds(r), Holds(r) => reader'.type = reader.type,
           Finishes(r)' => Finishes(r)
    PROVE  RequestInv(r)'
BY RelayTyped DEF RequestInv, EarlyInv, WaitInv, DoneInv, FinalInside, UnderWay, EarlyPc

\* others
LEMMA Unmoved ==
    ASSUME RelayTypeOK, NEW r \in Requests, RequestInv(r),
           caller'[r] = caller[r], chan'[r] = chan[r], peer'[r] = peer[r], reader' = reader,
           gone' = gone, lost' = lost,  r \in pending' => r \in pending
    PROVE  RequestInv(r)'
<1>1. Holds(r)' = Holds(r) /\ Finishes(r)' = Finishes(r)
  BY DEF Holds, Finishes
<1> QED BY <1>1, OthersDiffer

LEMMA EndsInv ==
    ASSUME NEW r, caller'[r].pc = "done", caller'[r].outcome # "complete"
    PROVE  RequestInv(r)'
BY DEF RequestInv, DoneInv

\* Before it waits, a request keeps its invariant as long as nothing is delivered to it.
LEMMA EarlyMoves ==
    ASSUME RelayTypeOK, NEW r \in Requests, EarlyInv(r), caller'[r].pc \in EarlyPc, 
           caller'[r].outcome = "none", caller'[r].got = 0,
           chan'[r] = chan[r], peer' = peer, gone' = gone, lost' = lost, reader' = reader
    PROVE  RequestInv(r)'
BY DEF RequestInv, EarlyInv, FinalInside, Holds, Finishes

USE DEF sessionVars, requestVars, readerVars

\* What one request does for itself leaves the others alone.
LEMMA OneRequest ==
    ASSUME RelayInv, RelayTypeOK', NEW q \in Requests, reader' = reader, cleaner' = cleaner,
           lost' = lost,
           \A r \in Requests \ {q} :
               /\ caller'[r] = caller[r] /\ chan'[r] = chan[r] /\ peer'[r] = peer[r]
               /\ r \in gone' <=> r \in gone
               /\ r \in pending' => r \in pending,
           RequestInv(q)'
    PROVE  RelayInv'
<1>1. ReaderInv'
  BY DEF RelayInv, ReaderInv
<1>2. ASSUME NEW r \in Requests, r # q PROVE RequestInv(r)'
  <2>1. Holds(r)' = Holds(r) /\ Finishes(r)' = Finishes(r)
    BY DEF Holds, Finishes
  <2> QED  BY <1>2, <2>1, OthersDiffer DEF RelayInv
<1> QED  BY <1>1, <1>2 DEF RelayInv

\* at q
LEMMA Goes ==
    ASSUME RelayTypeOK, NEW q \in Requests, NEW from \in ReaderPlaces, NEW to \in ReaderPlaces,
           Go(q, from, to)
    PROVE  /\ caller' \in [Requests -> Caller]
           /\ caller[q].pc = from
           /\ caller'[q].pc = to /\ caller'[q].got = caller[q].got /\ caller'[q].outcome = caller[q].outcome
           /\ \A r \in Requests \ {q} : caller'[r] = caller[r]
<1>1. caller' = [caller EXCEPT ![q].pc = to] /\ caller[q].pc = from
  BY DEF Go
<1>2. caller' \in [Requests -> Caller]
  BY <1>1, CallerTyped DEF Outcomes
<1> QED  BY <1>1, <1>2 DEF RelayTypeOK, Caller

LEMMA EndsAt ==
    ASSUME RelayTypeOK, NEW q \in Requests, NEW from \in ReaderPlaces, NEW out \in Outcomes,
           End(q, from, out)
    PROVE  /\ caller' \in [Requests -> Caller]
           /\ caller[q].pc = from
           /\ caller'[q].pc = "done" /\ caller'[q].got = caller[q].got /\ caller'[q].outcome = out
           /\ \A r \in Requests \ {q} : caller'[r] = caller[r]
<1>1. caller' = [caller EXCEPT ![q].pc = "done", ![q].outcome = out] /\ caller[q].pc = from
  BY DEF End
<1>2. caller' \in [Requests -> Caller]
  BY <1>1, CallerTyped DEF ReaderPlaces
<1> QED  BY <1>1, <1>2 DEF RelayTypeOK, Caller

\* A request that is not yet sent
LEMMA Early ==
    ASSUME NEW q, RequestInv(q), caller[q].pc \in EarlyPc
    PROVE  EarlyInv(q)
BY DEF RequestInv, WaitInv, DoneInv, EarlyPc

LEMMA Waiting ==
    ASSUME NEW q, RequestInv(q), caller[q].pc = "wait"
    PROVE  WaitInv(q)
BY DEF RequestInv, EarlyInv, DoneInv, EarlyPc

LEMMA EarlyGoes ==
    ASSUME RelayInv, NEW q \in Requests, NEW from \in EarlyPc, NEW to \in EarlyPc, Go(q, from, to),
           UNCHANGED <<sessionVars, chan, gone, readerVars, crashed, lost>>,
           pending' = pending \/ pending' = pending \cup {q}
    PROVE  RelayInv'
<1>0. from \in ReaderPlaces /\ to \in ReaderPlaces
  BY DEF EarlyPc, ReaderPlaces
<1>1. /\ caller' \in [Requests -> Caller] /\ caller[q].pc = from
      /\ caller'[q].pc = to /\ caller'[q].got = caller[q].got /\ caller'[q].outcome = caller[q].outcome
      /\ \A r \in Requests \ {q} : caller'[r] = caller[r]
  BY <1>0, Goes DEF RelayInv
<1>2. RelayTypeOK'
  BY <1>1 DEF RelayInv, RelayTypeOK
<1>3. EarlyInv(q)
  BY <1>1, Early DEF RelayInv
<1>4. RequestInv(q)'
  BY <1>1, <1>3, EarlyMoves DEF RelayInv, EarlyInv
<1> QED  BY <1>1, <1>2, <1>4, OneRequest

LEMMA EarlyEnds ==
    ASSUME RelayInv, NEW q \in Requests, NEW from \in EarlyPc, NEW out \in Outcomes,
           out # "complete", End(q, from, out),
           UNCHANGED <<sessionVars, gone, readerVars, crashed, lost>>,
           UNCHANGED <<pending, chan>> \/ TakeAndClose(q)
    PROVE  RelayInv'
<1>0. from \in ReaderPlaces
  BY DEF EarlyPc, ReaderPlaces
<1>1. /\ caller' \in [Requests -> Caller] /\ caller[q].pc = from
      /\ caller'[q].pc = "done" /\ caller'[q].outcome = out
      /\ \A r \in Requests \ {q} : caller'[r] = caller[r]
  BY <1>0, EndsAt DEF RelayInv
<1>2. /\ pending' \in SUBSET Requests
      /\ chan' \in [Requests -> [buf : Seq(Messages), closed : BOOLEAN]]
      /\ \A r \in Requests : Len(chan'[r].buf) <= Cap
  BY TakeTyped DEF RelayInv, RelayTypeOK
<1>3. RelayTypeOK'
  BY <1>1, <1>2 DEF RelayInv, RelayTypeOK
<1>4. RequestInv(q)'
  BY <1>1, EndsInv
<1>5. \A r \in Requests \ {q} : chan'[r] = chan[r] /\ (r \in pending' => r \in pending)
  BY DEF TakeAndClose, RelayInv, RelayTypeOK
<1> QED  BY <1>1, <1>3, <1>4, <1>5, OneRequest

LEMMA CheckKeeps == ASSUME RelayInv, NEW q \in Requests, Check(q) PROVE RelayInv'
<1>1. CASE closed
  BY <1>1, EarlyEnds DEF Check, EarlyPc, Outcomes
<1>2. CASE ~closed
  BY <1>2, EarlyGoes DEF Check, EarlyPc
<1> QED  BY <1>1, <1>2

LEMMA BeforeSending ==
    ASSUME RelayInv, NEW q \in Requests, Send(q) \/ Store(q) \/ Load(q) \/ Check(q) \/ WriteFails(q)
    PROVE  RelayInv'
<1> USE DEF EarlyPc, Outcomes
<1>1. CASE Send(q)
  BY <1>1, EarlyEnds, EarlyGoes DEF Send
<1>2. CASE Store(q)
  BY <1>2, EarlyGoes DEF Store
<1>3. CASE Load(q)
  BY <1>3, EarlyEnds, EarlyGoes DEF Load
<1>4. CASE WriteFails(q)
  BY <1>4, EarlyEnds DEF WriteFails
<1> QED  BY <1>1, <1>2, <1>3, <1>4, CheckKeeps

LEMMA WriteKeeps == ASSUME RelayInv, NEW q \in Requests, Write(q) PROVE RelayInv'
<1>1. /\ caller' \in [Requests -> Caller] /\ caller[q].pc = "write"
      /\ caller'[q].pc = "wait" /\ caller'[q].got = caller[q].got /\ caller'[q].outcome = caller[q].outcome
      /\ \A r \in Requests \ {q} : caller'[r] = caller[r]
  BY Goes DEF RelayInv, Write, ReaderPlaces
<1>2. Parts[q] \in Nat
  BY RelayTyped DEF RelayInv
<1>3. /\ peer' \in [Requests -> Nat] /\ peer'[q] = Parts[q] + 1
      /\ \A r \in Requests \ {q} : peer'[r] = peer[r]
  BY <1>2 DEF RelayInv, RelayTypeOK, Write
<1>4. RelayTypeOK'
  BY <1>1, <1>3 DEF RelayInv, RelayTypeOK, Write
<1>5. EarlyInv(q)
  BY <1>1, Early DEF RelayInv, EarlyPc
<1>6. WaitInv(q)'
  <2>1. chan' = chan /\ reader' = reader /\ lost' = lost /\ gone' = gone
    BY DEF Write
  <2>2. /\ Holds(q)' = FALSE /\ Finishes(q)' = FALSE
        /\ FinalInside(q)' <=> FinalInside(q)
    BY <1>5, <2>1 DEF EarlyInv, Holds, Finishes, FinalInside
  <2>3. ~chan[q].closed => UnderWay(q)' = 0
    BY <1>1, <1>5, <2>1, <2>2 DEF EarlyInv, UnderWay
  <2>4. ~chan[q].closed => UnderWay(q)' + peer'[q] = Parts[q] + 1
    BY <1>2, <1>3, <2>3
  <2> QED  BY <1>1, <1>5, <2>1, <2>2, <2>4 DEF WaitInv, EarlyInv
<1>7. RequestInv(q)'
  BY <1>6 DEF RequestInv
<1> QED  BY <1>1, <1>3, <1>4, <1>7, OneRequest DEF Write
LEMMA LeaveKeeps == ASSUME RelayInv, NEW q \in Requests, Leave(q) PROVE RelayInv'
<1>1. RelayTypeOK' /\ ReaderInv'
  BY DEF Leave, RelayInv, RelayTypeOK, ReaderInv
<1>2. ASSUME NEW r \in Requests PROVE RequestInv(r)'
  <2>1. Holds(r)' = Holds(r) /\ Finishes(r)' = Finishes(r)
    BY DEF Leave, Holds, Finishes
  <2> QED  BY <2>1, OthersDiffer DEF Leave, RelayInv, RelayTypeOK
<1> QED  BY <1>1, <1>2 DEF RelayInv

LEMMA CancelKeeps == ASSUME RelayInv, NEW q \in Requests, Cancel(q) PROVE RelayInv'
<1>1. /\ pending' \in SUBSET Requests
      /\ chan' \in [Requests -> [buf : Seq(Messages), closed : BOOLEAN]]
      /\ \A r \in Requests : Len(chan'[r].buf) <= Cap
  BY TakeTyped DEF RelayInv, Cancel
<1>2. RelayTypeOK'
  BY <1>1 DEF RelayInv, RelayTypeOK, Cancel
<1>3. /\ \A r \in Requests \ {q} : chan'[r] = chan[r]
      /\ chan'[q].buf = chan[q].buf /\ chan'[q].closed = TRUE
      /\ q \in gone /\ q \notin pending'
      /\ \A r \in Requests : r \in pending' => r \in pending
      /\ UNCHANGED <<caller, gone, peer, reader, lost, cleaner>>
  BY DEF RelayInv, RelayTypeOK, Cancel, TakeAndClose
<1>4. RequestInv(q)'
  <2>1. ~EarlyInv(q)
    BY <1>3 DEF EarlyInv
  <2>2. CASE WaitInv(q)
    <3>1. WaitInv(q)'
      BY <1>3, <2>2 DEF WaitInv
    <3> QED  BY <3>1 DEF RequestInv
  <2>3. CASE DoneInv(q)
    <3>1. DoneInv(q)'
      BY <1>3, <2>3 DEF DoneInv
    <3> QED  BY <3>1 DEF RequestInv
  <2> QED  BY <2>1, <2>2, <2>3 DEF RelayInv, RequestInv
<1> QED  BY <1>2, <1>3, <1>4, OneRequest

\* What a caller that waits takes from its channel.
LEMMA ReceiveKeeps == ASSUME RelayInv, NEW q \in Requests, Receive(q) PROVE RelayInv'
<1> DEFINE head == Head(chan[q].buf)
<1>0. chan[q].buf \in Seq(Messages) /\ chan[q].buf # <<>> /\ caller[q].got \in Nat
  BY RelayTyped DEF RelayInv, Receive
<1>1. head \in Messages
  BY <1>0
<1>2. /\ chan' \in [Requests -> [buf : Seq(Messages), closed : BOOLEAN]]
      /\ \A r \in Requests : Len(chan'[r].buf) <= Cap
      /\ \A r \in Requests \ {q} : chan'[r] = chan[r]
      /\ chan'[q].buf = Tail(chan[q].buf) /\ chan'[q].closed = chan[q].closed
  <2>1. /\ chan' = [chan EXCEPT ![q].buf = Tail(@)]
        /\ Tail(chan[q].buf) \in Seq(Messages) /\ Len(Tail(chan[q].buf)) <= Len(chan[q].buf)
    BY <1>0 DEF Receive
  <2>2. Len(chan[q].buf) <= Cap /\ Cap \in Nat
    BY RelayAssumption DEF RelaySetting, RelayInv, RelayTypeOK
  <2>3. Len(Tail(chan[q].buf)) <= Cap
    BY <1>0, <2>1, <2>2
  <2> QED  BY <2>1, <2>3 DEF RelayInv, RelayTypeOK
<1>3. UNCHANGED <<sessionVars, pending, gone, readerVars, crashed, lost>>
  BY DEF Receive
<1>4. CASE head = "part"
  <2>1. caller' = [caller EXCEPT ![q].got = @ + 1] /\ caller[q].pc = "wait"
    BY <1>4 DEF Receive, Taken
  <2>2. caller' \in [Requests -> Caller]
    BY <2>1, CallerTyped DEF RelayInv, ReaderPlaces, Outcomes
  <2>3. /\ caller'[q].pc = "wait" /\ caller'[q].got = caller[q].got + 1 /\ caller'[q].outcome = caller[q].outcome
        /\ \A r \in Requests \ {q} : caller'[r] = caller[r]
    BY <2>1 DEF RelayInv, RelayTypeOK, Caller
  <2>4. RelayTypeOK'
    BY <1>2, <1>3, <2>2 DEF RelayInv, RelayTypeOK
  <2>5. WaitInv(q)
    BY <2>1, Waiting DEF RelayInv
  <2>6. Holds(q)' = Holds(q) /\ Finishes(q)' = Finishes(q)
    BY <1>3 DEF Holds, Finishes
  <2>7. UnderWay(q)' = UnderWay(q)
    <3>1. Len(chan'[q].buf) = Len(chan[q].buf) - 1 /\ Len(chan[q].buf) \in Nat
      BY <1>0, <1>2
    <3>2. UnderWay(q)' = (caller[q].got + 1) + (Len(chan[q].buf) - 1) + (IF Holds(q) THEN 1 ELSE 0)
      BY <2>3, <2>6, <3>1 DEF UnderWay
    <3>3. UnderWay(q) = caller[q].got + Len(chan[q].buf) + (IF Holds(q) THEN 1 ELSE 0)
      BY DEF UnderWay
    <3> DEFINE n == Len(chan[q].buf)
               held == IF Holds(q) THEN 1 ELSE 0
    <3>4. held \in Nat /\ caller[q].got \in Nat /\ n \in Nat
      BY <1>0, <3>1
    <3> HIDE DEF n, held
    <3>5. (caller[q].got + 1) + (n - 1) + held = caller[q].got + n + held
      BY <3>4
    <3> QED  BY <3>2, <3>3, <3>5 DEF n, held
  <2>8. \A i \in DOMAIN chan'[q].buf : i + 1 \in DOMAIN chan[q].buf /\ chan'[q].buf[i] = chan[q].buf[i + 1]
    BY <1>0, <1>2
  <2>9. FinalInside(q) => FinalInside(q)'
    <3>1. ASSUME NEW i \in DOMAIN chan[q].buf, chan[q].buf[i] \in Final
          PROVE  i - 1 \in DOMAIN chan'[q].buf /\ chan'[q].buf[i - 1] = chan[q].buf[i]
      <4>1. i # 1
        BY <1>0, <1>4, <3>1 DEF Final
      <4> QED  BY <1>0, <1>2, <4>1
    <3> QED  BY <3>1 DEF FinalInside
  <2>10. ASSUME q \notin lost, NEW i \in DOMAIN chan'[q].buf, chan'[q].buf[i] = "end"
         PROVE  caller'[q].got + i = Parts[q] + 1
    <3>1. caller[q].got + (i + 1) = Parts[q] + 1
      BY <2>5, <2>8, <2>10 DEF WaitInv
    <3>2. i \in Nat
      BY <1>0, <1>2
    <3> QED  BY <1>0, <2>3, <3>1, <3>2
  <2>11. WaitInv(q)'
    BY <1>2, <1>3, <2>3, <2>5, <2>6, <2>7, <2>9, <2>10 DEF WaitInv
  <2>12. RequestInv(q)'
    BY <2>11 DEF RequestInv
  <2> QED  BY <1>2, <1>3, <2>3, <2>4, <2>12, OneRequest
<1>5. CASE head # "part"
  <2>1. End(q, "wait", IF head = "end" THEN "complete" ELSE "error")
    BY <1>5 DEF Receive, Taken
  <2>2. /\ caller' \in [Requests -> Caller] /\ caller[q].pc = "wait"
        /\ caller'[q].pc = "done" /\ caller'[q].got = caller[q].got
        /\ caller'[q].outcome = IF head = "end" THEN "complete" ELSE "error"
        /\ \A r \in Requests \ {q} : caller'[r] = caller[r]
    <3>1. "wait" \in ReaderPlaces /\ (IF head = "end" THEN "complete" ELSE "error") \in Outcomes
      BY DEF ReaderPlaces, Outcomes
    <3> QED  BY <2>1, <3>1, EndsAt DEF RelayInv
  <2>3. RelayTypeOK'
    BY <1>2, <1>3, <2>2 DEF RelayInv, RelayTypeOK
  <2>4. WaitInv(q)
    BY <2>2, Waiting DEF RelayInv
  <2>5. head = "end" => caller[q].got = Parts[q] \/ q \in lost
    <3>1. 1 \in DOMAIN chan[q].buf /\ chan[q].buf[1] = head
      BY <1>0
    <3>2. Parts[q] \in Nat
      BY RelayTyped DEF RelayInv
    <3> QED  BY <1>0, <2>4, <3>1, <3>2 DEF WaitInv
  <2>6. DoneInv(q)'
    BY <1>3, <2>2, <2>5 DEF DoneInv
  <2>7. RequestInv(q)'
    BY <2>6 DEF RequestInv
  <2> QED  BY <1>2, <1>3, <2>2, <2>3, <2>7, OneRequest
<1> QED  BY <1>4, <1>5

LEMMA ReceiveClosedKeeps == ASSUME RelayInv, NEW q \in Requests, ReceiveClosed(q) PROVE RelayInv'
<1>1. /\ caller' \in [Requests -> Caller] /\ caller[q].pc = "wait"
      /\ caller'[q].pc = "done" /\ caller'[q].got = caller[q].got
      /\ \A r \in Requests \ {q} : caller'[r] = caller[r]
  <2>1. "wait" \in ReaderPlaces /\ AfterClose(q) \in Outcomes
    BY DEF ReaderPlaces, Outcomes, AfterClose
  <2> QED  BY <2>1, EndsAt DEF RelayInv, ReceiveClosed
<1>2. RelayTypeOK'
  BY <1>1 DEF RelayInv, RelayTypeOK, ReceiveClosed
<1>3. WaitInv(q)
  BY <1>1, Waiting DEF RelayInv
<1>4. q \in lost \cup gone
  BY <1>3 DEF ReceiveClosed, WaitInv, FinalInside
<1>5. RequestInv(q)'
  BY <1>1, <1>4 DEF RequestInv, DoneInv, ReceiveClosed
<1> QED  BY <1>1, <1>2, <1>5, OneRequest DEF ReceiveClosed

LEMMA ReceiveDoneKeeps == ASSUME RelayInv, NEW q \in Requests, ReceiveDone(q) PROVE RelayInv'
<1>1. /\ caller' \in [Requests -> Caller]
      /\ caller'[q].pc = "done" /\ caller'[q].outcome = "left"
      /\ \A r \in Requests \ {q} : caller'[r] = caller[r]
  <2>1. "wait" \in ReaderPlaces /\ "left" \in Outcomes
    BY DEF ReaderPlaces, Outcomes
  <2> QED  BY <2>1, EndsAt DEF RelayInv, ReceiveDone
<1>2. RelayTypeOK'
  BY <1>1 DEF RelayInv, RelayTypeOK, ReceiveDone
<1>3. RequestInv(q)'
  BY <1>1, EndsInv
<1> QED  BY <1>1, <1>2, <1>3, OneRequest DEF ReceiveDone
\* The reader
LEMMA ReadKeeps ==
    ASSUME RelayInv, NEW q \in Requests, NEW type \in Messages, Read(q, type)
    PROVE  RelayInv'
<1>1. /\ UNCHANGED <<sessionVars, pending, chan, requestVars, crashed, lost>>
      /\ reader.pc = "read"
      /\ reader' = IF q \in pending THEN [pc |-> "offer", id |-> {q}, type |-> type] ELSE reader
  BY DEF Read
<1>2. peer[q] \in Nat /\ peer[q] > 0
  <2>1. peer[q] \in Nat
    BY RelayTyped DEF RelayInv
  <2> QED  BY <2>1 DEF Read, Sends
<1>3. /\ peer' \in [Requests -> Nat]
      /\ \A r \in Requests \ {q} : peer'[r] = peer[r]
      /\ type = "end" => peer[q] = 1
      /\ peer'[q] = 0 \/ (type = "part" /\ peer'[q] = peer[q] - 1)
  <2>1. CASE type = "part"
    BY <1>2, <2>1 DEF Read, Sends, RelayInv, RelayTypeOK
  <2>2. CASE type = "end"
    <3>1. peer' = [peer EXCEPT ![q] = 0] /\ (type = "end" => peer[q] = 1)
      BY <2>2 DEF Read, Sends
    <3>2. peer \in [Requests -> Nat]
      BY DEF RelayInv, RelayTypeOK
    <3>3. peer' \in [Requests -> Nat]
      BY <3>1, <3>2
    <3>4. peer'[q] = 0 /\ \A r \in Requests \ {q} : peer'[r] = peer[r]
      BY <3>1, <3>2
    <3> QED  BY <3>1, <3>3, <3>4
  <2>3. CASE type = "error"
    <3>1. peer' = [peer EXCEPT ![q] = 0] /\ (type = "end" => peer[q] = 1)
      BY <2>3 DEF Read, Sends
    <3>2. peer \in [Requests -> Nat]
      BY DEF RelayInv, RelayTypeOK
    <3>3. peer' \in [Requests -> Nat]
      BY <3>1, <3>2
    <3>4. peer'[q] = 0 /\ \A r \in Requests \ {q} : peer'[r] = peer[r]
      BY <3>1, <3>2
    <3> QED  BY <3>1, <3>3, <3>4
  <2> QED  BY <2>1, <2>2, <2>3 DEF Messages
<1>4. reader' \in Reader /\ ReaderInv'
  <2>1. CASE q \in pending
    BY <1>1, <2>1 DEF Reader, RelayInv, ReaderInv
  <2>2. CASE q \notin pending
    BY <1>1, <2>2 DEF RelayInv, RelayTypeOK, ReaderInv
  <2> QED  BY <2>1, <2>2
<1>5. RelayTypeOK'
  BY <1>1, <1>3, <1>4 DEF RelayInv, RelayTypeOK
<1>6. ASSUME NEW r \in Requests, r # q PROVE RequestInv(r)'
  <2>1. Holds(r)' = FALSE /\ Holds(r) = FALSE /\ Finishes(r)' = FALSE
    BY <1>1, <1>6 DEF Holds, Finishes
  <2> QED  BY <1>1, <1>3, <1>6, <2>1, OthersDiffer DEF RelayInv
<1>7. RequestInv(q)'
  <2>1. CASE DoneInv(q)
    BY <1>1, <2>1 DEF DoneInv, RequestInv
  <2>2. CASE WaitInv(q) /\ q \notin pending
    BY <1>1, <2>2 DEF WaitInv, RequestInv, FinalInside, UnderWay, Holds, Finishes
  <2>3. CASE WaitInv(q) /\ q \in pending
    <3>1. /\ Holds(q) = FALSE /\ Holds(q)' = TRUE /\ Finishes(q) = FALSE /\ Finishes(q)' = FALSE
          /\ reader'.type = type
      BY <1>1, <2>3 DEF Holds, Finishes
    <3>2. UnderWay(q) \in Nat /\ UnderWay(q)' = UnderWay(q) + 1 /\ Parts[q] \in Nat
      <4>1. caller[q].got \in Nat /\ Len(chan[q].buf) \in Nat /\ Parts[q] \in Nat
        BY RelayTyped DEF RelayInv
      <4> QED  BY <1>1, <3>1, <4>1 DEF UnderWay
    <3>3. ASSUME q \notin lost, ~chan[q].closed
          PROVE  /\ peer'[q] > 0 => UnderWay(q)' + peer'[q] = Parts[q] + 1
                 /\ type = "end" => UnderWay(q)' = Parts[q] + 1
      <4>1. UnderWay(q) + peer[q] = Parts[q] + 1
        BY <1>2, <2>3, <3>3 DEF WaitInv
      <4> QED  BY <1>2, <1>3, <3>2, <4>1
    <3>4. WaitInv(q)'
      BY <1>1, <2>3, <3>1, <3>3 DEF WaitInv, FinalInside
    <3> QED  BY <3>4 DEF RequestInv
  <2>4. ~EarlyInv(q)
    BY <1>2 DEF EarlyInv
  <2> QED  BY <2>1, <2>2, <2>3, <2>4 DEF RelayInv, RequestInv
<1> QED  BY <1>4, <1>5, <1>6, <1>7 DEF RelayInv

LEMMA OfferKeeps == ASSUME RelayInv, NEW q \in Requests, Offer(q) PROVE RelayInv'
<1>1. /\ UNCHANGED <<sessionVars, pending, requestVars, peer>>
      /\ reader.pc = "offer" /\ q \in reader.id
  BY DEF Offer
<1>2. CASE chan[q].closed
  <2>1. UNCHANGED <<chan, lost, reader>> /\ crashed' \in BOOLEAN
    BY <1>2 DEF Offer
  <2>2. RelayTypeOK'
    BY <1>1, <2>1 DEF RelayInv, RelayTypeOK
  <2>3. RequestInv(q)'
    BY <1>1, <2>1, Unmoved DEF RelayInv
  <2> QED  BY <1>1, <2>1, <2>2, <2>3, OneRequest
<1>3. CASE ~chan[q].closed
  <2>1. /\ crashed' = FALSE
        /\ Offered(q, reader.type)
        /\ reader' = [reader EXCEPT !.pc = IF reader.type \in Final THEN "finish" ELSE "read"]
    BY <1>3 DEF Offer
  <2>2. /\ reader' \in Reader /\ reader'.id = reader.id /\ reader'.type = reader.type
        /\ reader'.pc = IF reader.type \in Final THEN "finish" ELSE "read"
        /\ reader.type \in Messages
    BY <2>1 DEF RelayInv, RelayTypeOK, Reader, Final
  <2>3. chan[q].buf \in Seq(Messages) /\ caller[q].got \in Nat /\ Cap \in Nat
    BY RelayTyped, RelayAssumption DEF RelayInv, RelaySetting
  <2>4. /\ chan' \in [Requests -> [buf : Seq(Messages), closed : BOOLEAN]]
        /\ \A r \in Requests : Len(chan'[r].buf) <= Cap
        /\ \A r \in Requests \ {q} : chan'[r] = chan[r]
        /\ chan'[q].closed = FALSE
        /\ \/ chan'[q].buf = Append(chan[q].buf, reader.type) /\ lost' = lost
           \/ lost' = lost \cup {q}
    <3>1. CASE Len(chan[q].buf) < Cap
      <4>1. Append(chan[q].buf, reader.type) \in Seq(Messages) /\ Len(Append(chan[q].buf, reader.type)) <= Cap
        BY <2>2, <2>3, <3>1
      <4> QED  BY <1>3, <2>1, <3>1, <4>1 DEF Offered, RelayInv, RelayTypeOK
    <3>2. CASE ~(Len(chan[q].buf) < Cap)
      BY <1>3, <2>1, <3>2 DEF Offered, RelayInv, RelayTypeOK
    <3> QED  BY <3>1, <3>2
  <2>5. RelayTypeOK'
    BY <1>1, <2>1, <2>2, <2>4 DEF RelayInv, RelayTypeOK
  <2>6. ReaderInv'
    BY <1>1, <2>2 DEF RelayInv, ReaderInv
  <2>7. ASSUME NEW r \in Requests, r # q PROVE RequestInv(r)'
    <3>1. r \notin reader.id
      BY <1>1, <2>7 DEF RelayInv, ReaderInv
    <3>2. Holds(r) = FALSE /\ Holds(r)' = FALSE /\ Finishes(r)' = FALSE
      BY <2>2, <3>1 DEF Holds, Finishes
    <3> QED  BY <1>1, <2>4, <2>7, <3>2, OthersDiffer DEF RelayInv
  <2>8. RequestInv(q)'
    <3>1. Holds(q) = TRUE /\ Holds(q)' = FALSE /\ (Finishes(q)' <=> reader.type \in Final) /\ lost \subseteq lost'
      BY <1>1, <2>2, <2>4 DEF Holds, Finishes
    <3>2. CASE DoneInv(q)
      BY <1>1, <3>1, <3>2 DEF DoneInv, RequestInv
    <3>3. CASE WaitInv(q)
      <4>1. CASE lost' = lost \cup {q}
        <5>1. WaitInv(q)'
          BY <1>1, <3>3, <4>1 DEF WaitInv
        <5> QED  BY <5>1 DEF RequestInv
      <4>2. CASE chan'[q].buf = Append(chan[q].buf, reader.type) /\ lost' = lost
        <5>1. /\ DOMAIN chan'[q].buf = 1 .. Len(chan[q].buf) + 1
              /\ DOMAIN chan[q].buf = 1 .. Len(chan[q].buf)
              /\ Len(chan'[q].buf) = Len(chan[q].buf) + 1 /\ Len(chan[q].buf) \in Nat
              /\ chan'[q].buf[Len(chan[q].buf) + 1] = reader.type
              /\ \A i \in DOMAIN chan[q].buf : chan'[q].buf[i] = chan[q].buf[i]
          BY <2>2, <2>3, <4>2
        <5>2. UnderWay(q)' = UnderWay(q)
          <6>1. UnderWay(q) = caller[q].got + Len(chan[q].buf) + 1
            BY <3>1 DEF UnderWay
          <6>2. UnderWay(q)' = caller[q].got + (Len(chan[q].buf) + 1) + 0
            BY <1>1, <3>1, <5>1 DEF UnderWay
          <6> QED  BY <2>3, <5>1, <6>1, <6>2
        <5>3. reader.type \in Final => FinalInside(q)'
          BY <5>1 DEF FinalInside
        <5>4. ASSUME q \notin lost, NEW i \in DOMAIN chan'[q].buf, chan'[q].buf[i] = "end"
              PROVE  caller'[q].got + i = Parts[q] + 1
          <6>1. CASE i = Len(chan[q].buf) + 1
            <7>1. UnderWay(q) = Parts[q] + 1
              BY <1>3, <3>1, <3>3, <5>1, <5>4, <6>1 DEF WaitInv
            <7>2. UnderWay(q) = caller[q].got + Len(chan[q].buf) + 1
              BY <3>1 DEF UnderWay
            <7> QED  BY <1>1, <2>3, <5>1, <6>1, <7>1, <7>2
          <6>2. CASE i # Len(chan[q].buf) + 1
            BY <1>1, <3>3, <5>1, <5>4, <6>2 DEF WaitInv
          <6> QED  BY <6>1, <6>2
        <5>5. WaitInv(q)'
          BY <1>1, <1>3, <2>4, <3>1, <3>3, <4>2, <5>2, <5>3, <5>4 DEF WaitInv
        <5> QED  BY <5>5 DEF RequestInv
      <4> QED  BY <2>4, <4>1, <4>2
    <3>4. ~EarlyInv(q)
      BY <3>1 DEF EarlyInv
    <3> QED  BY <3>2, <3>3, <3>4 DEF RelayInv, RequestInv
  <2> QED  BY <2>5, <2>6, <2>7, <2>8 DEF RelayInv
<1> QED  BY <1>2, <1>3

LEMMA FinishKeeps == ASSUME RelayInv, NEW q \in Requests, Finish(q) PROVE RelayInv'
<1>1. /\ UNCHANGED <<sessionVars, requestVars, peer, crashed, lost>>
      /\ reader.pc = "finish" /\ q \in reader.id
      /\ reader' = [reader EXCEPT !.pc = "read"]
      /\ TakeAndClose(q)
  BY DEF Finish
<1>2. /\ pending' \in SUBSET Requests
      /\ chan' \in [Requests -> [buf : Seq(Messages), closed : BOOLEAN]]
      /\ \A r \in Requests : Len(chan'[r].buf) <= Cap
  BY <1>1, TakeTyped DEF RelayInv
<1>3. reader' \in Reader /\ reader'.pc = "read" /\ reader'.id = reader.id
  BY <1>1 DEF RelayInv, RelayTypeOK, Reader
<1>4. RelayTypeOK' /\ ReaderInv'
  BY <1>1, <1>2, <1>3 DEF RelayInv, RelayTypeOK, ReaderInv
<1>5. /\ \A r \in Requests \ {q} : chan'[r] = chan[r]
      /\ chan'[q].buf = chan[q].buf
      /\ q \notin pending' /\ \A r \in Requests : r \in pending' => r \in pending
  BY <1>1 DEF TakeAndClose, RelayInv, RelayTypeOK
<1>6. ASSUME NEW r \in Requests PROVE Holds(r)' = FALSE /\ Holds(r) = FALSE /\ Finishes(r)' = FALSE
  BY <1>1, <1>3 DEF Holds, Finishes
<1>7. ASSUME NEW r \in Requests, r # q PROVE RequestInv(r)'
  BY <1>1, <1>5, <1>6, <1>7, OthersDiffer DEF RelayInv
<1>8. RequestInv(q)'
  <2>1. CASE DoneInv(q)
    BY <1>1, <2>1 DEF DoneInv, RequestInv
  <2>2. CASE WaitInv(q)
    <3>1. FinalInside(q)' <=> FinalInside(q)
      BY <1>5 DEF FinalInside
    <3>2. FinalInside(q) \/ q \in lost \cup gone
      BY <1>1, <2>2 DEF WaitInv, Finishes
    <3>3. WaitInv(q)'
      BY <1>1, <1>5, <1>6, <2>2, <3>1, <3>2 DEF WaitInv
    <3> QED  BY <3>3 DEF RequestInv
  <2>3. ~EarlyInv(q)
    BY <1>1 DEF EarlyInv, Finishes
  <2> QED  BY <2>1, <2>2, <2>3 DEF RelayInv, RequestInv
<1> QED  BY <1>4, <1>7, <1>8 DEF RelayInv

\* The cleanup
LEMMA NotifyKeeps == ASSUME RelayInv, NEW q \in Requests, Notify(q) PROVE RelayInv'
<1>1. /\ UNCHANGED <<listed, closed, connected, pending, requestVars, readerVars>>
      /\ cleaner.pc = "notify"
  BY DEF Notify
<1>2. CASE chan[q].closed
  <2>1. UNCHANGED <<chan, lost, cleaner>> /\ crashed' \in BOOLEAN
    BY <1>2 DEF Notify
  <2>2. RelayTypeOK'
    BY <1>1, <2>1 DEF RelayInv, RelayTypeOK
  <2>3. RequestInv(q)'
    BY <1>1, <2>1, Unmoved DEF RelayInv
  <2> QED  BY <1>1, <2>1, <2>2, <2>3, OneRequest
<1>3. CASE ~chan[q].closed
  <2>1. crashed' = FALSE /\ cleaner' = [cleaner EXCEPT !.pc = "range", !.id = {}]
    BY <1>3 DEF Notify
  <2>2. cleaner' \in Cleaner /\ cleaner'.byReader = cleaner.byReader /\ cleaner'.pc = "range"
    BY <2>1 DEF RelayInv, RelayTypeOK, Cleaner
  <2>3. chan[q].buf \in Seq(Messages) /\ Cap \in Nat
    BY RelayTyped, RelayAssumption DEF RelayInv, RelaySetting
  <2>4. /\ chan' \in [Requests -> [buf : Seq(Messages), closed : BOOLEAN]]
        /\ \A r \in Requests : Len(chan'[r].buf) <= Cap
        /\ \A r \in Requests \ {q} : chan'[r] = chan[r]
        /\ chan'[q].closed = TRUE
        /\ \/ chan'[q].buf = Append(chan[q].buf, "error") /\ lost' = lost
           \/ lost' = lost \cup {q} /\ chan'[q].buf = chan[q].buf
    <3>1. CASE Len(chan[q].buf) < Cap
      <4>1. /\ Append(chan[q].buf, "error") \in Seq(Messages) /\ Len(Append(chan[q].buf, "error")) <= Cap
        BY <2>3, <3>1 DEF Messages
      <4>2. chan' = [chan EXCEPT ![q] = [buf |-> Append(@.buf, "error"), closed |-> TRUE]] /\ lost' = lost
        BY <1>3, <3>1 DEF Notify
      <4> QED  BY <4>1, <4>2 DEF RelayInv, RelayTypeOK
    <3>2. CASE ~(Len(chan[q].buf) < Cap)
      <4>1. chan' = [chan EXCEPT ![q].closed = TRUE] /\ lost' = lost \cup {q}
        BY <1>3, <3>2 DEF Notify
      <4> QED  BY <4>1 DEF RelayInv, RelayTypeOK
    <3> QED  BY <3>1, <3>2
  <2>5. RelayTypeOK' /\ ReaderInv'
    BY <1>1, <2>1, <2>2, <2>4 DEF RelayInv, RelayTypeOK, ReaderInv
  <2>6. ASSUME NEW r \in Requests PROVE Holds(r)' = Holds(r) /\ Finishes(r)' = Finishes(r)
    BY <1>1 DEF Holds, Finishes
  <2>7. ASSUME NEW r \in Requests, r # q PROVE RequestInv(r)'
    BY <1>1, <2>4, <2>6, <2>7, OthersDiffer DEF RelayInv
  <2>8. RequestInv(q)'
    <3>1. CASE DoneInv(q)
      BY <1>1, <2>4, <3>1 DEF DoneInv, RequestInv
    <3>2. CASE lost' = lost \cup {q} /\ chan'[q].buf = chan[q].buf
      <4>1. CASE EarlyInv(q)
        BY <1>1, <2>4, <2>6, <3>2, <4>1 DEF EarlyInv, RequestInv
      <4>2. CASE WaitInv(q)
        BY <1>1, <2>4, <2>6, <3>2, <4>2 DEF WaitInv, RequestInv
      <4> QED  BY <3>1, <4>1, <4>2 DEF RelayInv, RequestInv
    <3>3. CASE chan'[q].buf = Append(chan[q].buf, "error") /\ lost' = lost
      <4>1. /\ DOMAIN chan'[q].buf = 1 .. Len(chan[q].buf) + 1
            /\ DOMAIN chan[q].buf = 1 .. Len(chan[q].buf) /\ Len(chan[q].buf) \in Nat
            /\ chan'[q].buf[Len(chan[q].buf) + 1] = "error"
            /\ \A i \in DOMAIN chan[q].buf : chan'[q].buf[i] = chan[q].buf[i]
        BY <2>3, <3>3 DEF Messages
      <4>2. FinalInside(q)'
        BY <4>1 DEF FinalInside, Final
      <4>3. \A i \in DOMAIN chan'[q].buf : chan'[q].buf[i] = "end" => i \in DOMAIN chan[q].buf /\ chan[q].buf[i] = "end"
        BY <4>1
      <4>4. CASE EarlyInv(q)
        BY <1>1, <2>4, <2>6, <3>3, <4>2, <4>3, <4>4 DEF EarlyInv, RequestInv
      <4>5. CASE WaitInv(q)
        BY <1>1, <2>4, <2>6, <3>3, <4>2, <4>3, <4>5 DEF WaitInv, RequestInv
      <4> QED  BY <3>1, <4>4, <4>5 DEF RelayInv, RequestInv
    <3> QED  BY <2>4, <3>2, <3>3
  <2> QED  BY <2>5, <2>7, <2>8 DEF RelayInv
<1> QED  BY <1>2, <1>3

\* Steps that leave the requests alone.
LEMMA Apart ==
    ASSUME RelayInv, RelayTypeOK', ReaderInv',
           UNCHANGED <<chan, caller, gone, peer, lost>>,
           pending' \subseteq pending,
           \/ reader' = reader
           \/ reader.pc \notin {"offer", "finish"} /\ reader'.pc \notin {"offer", "finish"}
    PROVE  RelayInv'
<1>1. ASSUME NEW r \in Requests PROVE RequestInv(r)'
  <2>1. /\ Holds(r)' = Holds(r) /\ Finishes(r)' = Finishes(r)
        /\ Holds(r) => reader' = reader
    BY DEF Holds, Finishes
  <2> QED  BY <2>1, OthersDiffer DEF RelayInv
<1> QED  BY <1>1 DEF RelayInv

\* Whoever begins the cleanup closes the session.
LEMMA BeginSays ==
    ASSUME RelayInv, NEW byReader \in BOOLEAN, Begin(byReader)
    PROVE  /\ cleaner' \in Cleaner /\ cleaner'.byReader = byReader /\ closed' = TRUE
           /\ cleaner.pc = "no"
BY DEF Begin, RelayInv, RelayTypeOK, Cleaner

LEMMA ReadFailsKeeps == ASSUME RelayInv, ReadFails PROVE RelayInv'
<1>1. /\ reader.pc = "read"
      /\ UNCHANGED <<listed, connected, pending, chan, requestVars, peer, crashed, lost>>
  BY DEF ReadFails
<1>2. CASE cleaner.pc = "no"
  <2>1. Begin(TRUE) /\ reader' = [reader EXCEPT !.pc = "cleanup"]
    BY <1>2 DEF ReadFails
  <2>2. reader' \in Reader /\ reader'.pc = "cleanup" /\ reader'.id = reader.id
    BY <2>1 DEF RelayInv, RelayTypeOK, Reader
  <2>3. RelayTypeOK' /\ ReaderInv'
    BY <1>1, <2>1, <2>2, BeginSays DEF RelayInv, RelayTypeOK, ReaderInv
  <2> QED  BY <1>1, <2>2, <2>3, Apart
<1>3. CASE cleaner.pc # "no"
  <2>1. UNCHANGED <<closed, cleaner>> /\ reader' = [reader EXCEPT !.pc = "ended"]
    BY <1>3 DEF ReadFails
  <2>2. reader' \in Reader /\ reader'.pc = "ended" /\ reader'.id = reader.id
    BY <2>1 DEF RelayInv, RelayTypeOK, Reader
  <2>3. RelayTypeOK' /\ ReaderInv'
    BY <1>1, <2>1, <2>2 DEF RelayInv, RelayTypeOK, ReaderInv
  <2> QED  BY <1>1, <2>2, <2>3, Apart
<1> QED  BY <1>2, <1>3

LEMMA OthersBegin == ASSUME RelayInv, HeartbeatFails \/ Stop PROVE RelayInv'
<1>1. /\ Begin(FALSE) /\ listed' \in BOOLEAN
      /\ UNCHANGED <<connected, pending, chan, requestVars, readerVars, crashed, lost>>
  BY DEF HeartbeatFails, Stop, RelayInv, RelayTypeOK
<1>2. RelayTypeOK' /\ ReaderInv'
  BY <1>1, BeginSays DEF RelayInv, RelayTypeOK, ReaderInv
<1> QED  BY <1>1, <1>2, Apart

LEMMA RangeNextKeeps == ASSUME RelayInv, NEW q \in Requests, RangeNext(q) PROVE RelayInv'
<1>1. cleaner' \in Cleaner /\ cleaner'.byReader = cleaner.byReader /\ cleaner.pc = "range"
  BY DEF RangeNext, RelayInv, RelayTypeOK, Cleaner
<1>2. RelayTypeOK' /\ ReaderInv'
  BY <1>1 DEF RangeNext, RelayInv, RelayTypeOK, ReaderInv
<1> QED  BY <1>2, Apart DEF RangeNext

LEMMA SessionCleanupKeeps == ASSUME RelayInv, Cleanup PROVE RelayInv'
<1>1. ASSUME NEW to \in {"reset", "hangup", "unlist", "done"},
             NEW from \in {"range", "reset", "hangup", "unlist"}, CleanerGoes(from, to)
      PROVE  /\ cleaner' \in Cleaner /\ cleaner'.byReader = cleaner.byReader
             /\ cleaner.pc = from /\ cleaner'.pc = to
             /\ UNCHANGED <<closed, chan, requestVars, peer, crashed, lost>>
  BY <1>1 DEF CleanerGoes, RelayInv, RelayTypeOK, Cleaner
<1>2. CASE RangeEnds
  <2>1. RelayTypeOK' /\ ReaderInv' /\ pending' = pending
    BY <1>1, <1>2 DEF RangeEnds, RelayInv, RelayTypeOK, ReaderInv
  <2> QED  BY <1>1, <1>2, <2>1, Apart DEF RangeEnds
<1>3. CASE Reset
  <2>1. RelayTypeOK' /\ ReaderInv' /\ pending' = {}
    BY <1>1, <1>3 DEF Reset, RelayInv, RelayTypeOK, ReaderInv
  <2> QED  BY <1>1, <1>3, <2>1, Apart DEF Reset
<1>4. CASE HangUp
  <2>1. RelayTypeOK' /\ ReaderInv'
    BY <1>1, <1>4 DEF HangUp, RelayInv, RelayTypeOK, ReaderInv
  <2> QED  BY <1>1, <1>4, <2>1, Apart DEF HangUp
<1>5. CASE Unlist
  <2>1. /\ reader' \in Reader /\ reader'.id = reader.id
        /\ \/ reader' = reader
           \/ reader'.pc = "ended" /\ reader.pc = "cleanup"
    <3>1. CASE cleaner.byReader
      <4>1. reader.pc = "cleanup" /\ reader' = [reader EXCEPT !.pc = "ended"]
        BY <1>1, <1>5, <3>1 DEF Unlist, RelayInv, ReaderInv
      <4> QED  BY <4>1 DEF RelayInv, RelayTypeOK, Reader
    <3>2. CASE ~cleaner.byReader
      BY <1>5, <3>2 DEF Unlist, RelayInv, RelayTypeOK
    <3> QED  BY <3>1, <3>2
  <2>2. RelayTypeOK' /\ ReaderInv'
    BY <1>1, <1>5, <2>1 DEF Unlist, RelayInv, RelayTypeOK, ReaderInv
  <2> QED  BY <1>1, <1>5, <2>1, <2>2, Apart DEF Unlist
<1> QED  BY <1>2, <1>3, <1>4, <1>5 DEF Cleanup

LEMMA RelayInitially == RelayInit => RelayInv
<1> SUFFICES ASSUME RelayInit PROVE RelayInv
  OBVIOUS
<1>1. RelayTypeOK
  <2>1. chan \in [Requests -> [buf : Seq(Messages), closed : BOOLEAN]] /\ \A r \in Requests : Len(chan[r].buf) <= Cap
    BY RelayAssumption DEF RelaySetting, RelayInit
  <2>2. caller \in [Requests -> Caller] /\ reader \in Reader /\ cleaner \in Cleaner
    BY DEF RelayInit, Caller, Reader, Cleaner, Messages, Outcomes
  <2> QED  BY <2>1, <2>2 DEF RelayInit, RelayTypeOK
<1>2. ReaderInv
  BY DEF RelayInit, ReaderInv
<1>3. ASSUME NEW r \in Requests PROVE EarlyInv(r)
  BY DEF RelayInit, EarlyInv, EarlyPc, Holds, Finishes
<1> QED  BY <1>1, <1>2, <1>3 DEF RelayInv, RequestInv

\* Every step of the relay keeps the invariant.
LEMMA RelayInductive == RelayInv /\ [RelayNext]_relayVars => RelayInv'
<1> SUFFICES ASSUME RelayInv, [RelayNext]_relayVars PROVE RelayInv'
  OBVIOUS
<1>1. ASSUME NEW r \in Requests, RequestStep(r) PROVE RelayInv'
  BY <1>1, BeforeSending, WriteKeeps, LeaveKeeps, CancelKeeps, ReceiveKeeps, ReceiveClosedKeeps,
     ReceiveDoneKeeps
     DEF RequestStep
<1>2. ASSUME NEW r \in Requests, SessionStep(r) PROVE RelayInv'
  BY <1>2, OfferKeeps, FinishKeeps, RangeNextKeeps, NotifyKeeps DEF SessionStep
<1>3. ASSUME NEW r \in Requests, NEW type \in Messages, Read(r, type) PROVE RelayInv'
  BY <1>3, ReadKeeps
<1>4. CASE UNCHANGED relayVars
  <2>1. RelayTypeOK' /\ ReaderInv'
    BY <1>4 DEF relayVars, RelayInv, RelayTypeOK, ReaderInv
  <2> QED  BY <1>4, <2>1, Apart DEF relayVars
<1> QED  BY <1>1, <1>2, <1>3, <1>4, ReadFailsKeeps, OthersBegin, SessionCleanupKeeps DEF RelayNext

LEMMA RelayInvariance == RelaySpec => []RelayInv
BY RelayInitially, RelayInductive, PTL DEF RelaySpec

\* The state of session, requests, reader and cleanup keeps its types, and no channel
\* holds more than its places, for any set of requests, lengths of answers and capacity
\* of the channels.
THEOREM RelayTypeCorrect == RelaySpec => []RelayTypeOK
BY RelayInvariance, PTL DEF RelayInv

\* NonStream and Stream: a request that ends as complete has received every part of its
\* answer, unless one of its messages found its channel full or its client has left. In
\* particular a cut-off answer is never called complete because of the cleanup.
THEOREM CompleteIsWhole == RelaySpec => []WholeUnlessCrowded
<1>1. RelayInv => WholeUnlessCrowded
  <2> SUFFICES ASSUME RelayInv, NEW r \in Requests, caller[r].outcome = "complete"
               PROVE  caller[r].got = Parts[r] \/ r \in lost \cup gone
    BY DEF WholeUnlessCrowded
  <2> QED  BY DEF RelayInv, RequestInv, EarlyInv, WaitInv, DoneInv
<1> QED  BY <1>1, RelayInvariance, PTL

HIDE DEF sessionVars, requestVars, readerVars

(***************************************************************************)
(* Watcher: without reloads, what is on its way to the service (with the   *)
(* handler, pending, in the batch or in the channel) ends with the         *)
(* credential the watcher keeps for the file.                              *)
(***************************************************************************)

\* The last thing that the service is told about f, from what it has and what the channel
\* holds, is v.
QueueSays(f, v) ==
    \/ applied[f] = v /\ \A i \in DOMAIN queue : queue[i][1] # f
    \/ \E i \in DOMAIN queue : queue[i] = <<f, v>> /\ \A j \in DOMAIN queue : j > i => queue[j][1] # f

\* The youngest word about f on its way to the service is v: what the handler is about to
\* hand over comes after what is pending, that after the batch, and that after the
\* channel.
Settles(f, v) ==
    IF handler.out[f] # "none" THEN handler.out[f] = v
    ELSE IF pendingUpdates[f] # "none" THEN pendingUpdates[f] = v
    ELSE IF batch[f] # "none" THEN batch[f] = v
    ELSE QueueSays(f, v)

\* The handler has something to hand over only on its way to do so, and updates a
\* credential only from contents that are valid.
HandlerInv ==
    /\ handler.pc # "dispatch" => handler.out = NoUpdate
    /\ handler.pc = "update" => handler.data \in Versions

\* Without reloads the service is on its way to what the watcher keeps for each file.
CurrentSettles == NoReloads => \A f \in Files : Settles(f, current[f])

\* The inductive invariant of the watcher.
WatcherInv == WatcherTypeOK /\ HandlerInv /\ CurrentSettles

USE DEF diskVars, clientVars, sendVars

LEMMA HandlerTyped ==
    ASSUME WatcherTypeOK
    PROVE  /\ handler.pc \in {"idle", "check", "read", "update", "debounce", "settle", "remove", "dispatch"}
           /\ handler.file \in Files /\ handler.data \in Contents /\ handler.out \in Updates
BY DEF WatcherTypeOK, Handling

LEMMA HandlerGoes ==
    ASSUME WatcherTypeOK,
           NEW pc \in {"idle", "check", "read", "update", "debounce", "settle", "remove"}, Goto(pc)
    PROVE  /\ handler' \in Handling /\ handler'.pc = pc /\ handler'.out = handler.out
           /\ handler'.data = handler.data /\ handler'.file = handler.file
BY DEF WatcherTypeOK, Handling, Goto

\* A step that touches neither what is kept nor what is on its way changes nothing of
\* this.
LEMMA Kept ==
    ASSUME WatcherInv, handler'.out = handler.out, UNCHANGED <<pendingUpdates, batch, queue,
           applied, current>>,
           NoReloads' => NoReloads
    PROVE  CurrentSettles'
BY DEF WatcherInv, CurrentSettles, Settles, QueueSays

LEMMA WithReloads == ASSUME ~NoReloads' PROVE CurrentSettles'
BY DEF CurrentSettles

LEMMA ChangeKeeps == 
    ASSUME WatcherInv, NEW f \in Files, NEW content \in Contents, NEW op \in {"write", "remove"},
           Change(f, content, op)
    PROVE  WatcherInv'
<1>1. WatcherTypeOK'
  <2>1. disk' \in [Files -> Contents] /\ changes' \in 0 .. MaxChanges
    BY WatcherAssumption DEF WatcherSetting, WatcherInv, WatcherTypeOK, Change
  <2>2. events' \in Seq(Files \X {"write", "remove"})
    BY DEF WatcherInv, WatcherTypeOK, Change
  <2> QED  BY <2>1, <2>2 DEF WatcherInv, WatcherTypeOK, Change
<1>2. HandlerInv'
  BY DEF WatcherInv, Change, HandlerInv
<1>3. CurrentSettles'
  BY Kept DEF Change, NoReloads, In
<1> QED  BY <1>1, <1>2, <1>3 DEF WatcherInv

LEMMA WindowEndsKeeps == ASSUME WatcherInv, NEW f \in Files, WindowEnds(f) PROVE WatcherInv'
<1>1. WatcherTypeOK' /\ HandlerInv'
  BY DEF WindowEnds, WatcherInv, WatcherTypeOK, HandlerInv
<1>2. CurrentSettles'
  BY Kept DEF WindowEnds, NoReloads, In
<1> QED  BY <1>1, <1>2 DEF WatcherInv

\* Delivery
LEMMA NextBatchKeeps == ASSUME WatcherInv, NextBatch PROVE WatcherInv'
<1>1. WatcherTypeOK' /\ HandlerInv'
  BY DEF NextBatch, WatcherInv, WatcherTypeOK, HandlerInv, NoUpdate, Updates
<1>2. CurrentSettles'
  <2>1. ASSUME NEW f \in Files, NEW v, Settles(f, v) PROVE Settles(f, v)'
    BY <2>1 DEF NextBatch, Settles, QueueSays, NoUpdate
  <2>2. NoReloads' => NoReloads
    BY DEF NextBatch, NoReloads, In
  <2>3. current' = current
    BY DEF NextBatch
  <2> QED  BY <2>1, <2>2, <2>3 DEF WatcherInv, CurrentSettles
<1> QED  BY <1>1, <1>2 DEF WatcherInv

\* A send moves the word about one file from the batch to the end of the channel.
LEMMA SendKeeps == ASSUME WatcherInv, NEW g \in Files, SendUpdate(g) PROVE WatcherInv'
<1>1. /\ batch[g] # "none" /\ batch[g] \in Credentials
      /\ queue' = Append(queue, <<g, batch[g]>>) /\ Len(queue) < QueueCap
      /\ batch' = [batch EXCEPT ![g] = "none"]
      /\ UNCHANGED <<disk, events, changes, hashes, current, recent, handler, reloader, pendingUpdates, applied, reloads>>
  BY DEF SendUpdate, WatcherInv, WatcherTypeOK, Updates
<1>2. /\ queue \in Seq(Files \X Credentials) /\ QueueCap \in Nat /\ batch \in Updates
  BY WatcherAssumption DEF WatcherInv, WatcherTypeOK, WatcherSetting
<1>3. /\ queue' \in Seq(Files \X Credentials) /\ Len(queue') = Len(queue) + 1
      /\ DOMAIN queue' = 1 .. Len(queue) + 1 /\ DOMAIN queue = 1 .. Len(queue) /\ Len(queue) \in Nat
      /\ queue'[Len(queue) + 1] = <<g, batch[g]>>
      /\ \A i \in DOMAIN queue : queue'[i] = queue[i]
  BY <1>1, <1>2
<1>4. WatcherTypeOK'
  <2>1. Len(queue') <= QueueCap
    BY <1>1, <1>2, <1>3
  <2>2. batch' \in Updates
    BY <1>1, <1>2 DEF Updates
  <2> QED  BY <1>1, <1>3, <2>1, <2>2 DEF WatcherInv, WatcherTypeOK
<1>5. HandlerInv'
  BY <1>1 DEF WatcherInv, HandlerInv
<1>6. ASSUME NEW f \in Files, NEW v, Settles(f, v) PROVE Settles(f, v)'
  <2>1. CASE f = g
    <3>1. batch'[g] = "none"
      BY <1>1, <1>2 DEF Updates
    <3>2. batch[g] = v => QueueSays(f, v)'
      BY <1>3, <2>1 DEF QueueSays
    <3> QED  BY <1>1, <1>6, <2>1, <3>1, <3>2 DEF Settles
  <2>2. CASE f # g
    <3>1. batch'[f] = batch[f]
      BY <1>1, <1>2, <2>2 DEF Updates
    <3>2. queue'[Len(queue) + 1][1] # f
      BY <1>3, <2>2
    <3>3. QueueSays(f, v) => QueueSays(f, v)'
      <4>1. CASE applied[f] = v /\ \A i \in DOMAIN queue : queue[i][1] # f
        BY <1>1, <1>3, <3>2, <4>1 DEF QueueSays
      <4>2. ASSUME NEW i \in DOMAIN queue, queue[i] = <<f, v>>,
                   \A j \in DOMAIN queue : j > i => queue[j][1] # f
            PROVE  QueueSays(f, v)'
        <5>1. i \in DOMAIN queue' /\ queue'[i] = <<f, v>>
          BY <1>3, <4>2
        <5>2. \A j \in DOMAIN queue' : j > i => queue'[j][1] # f
          BY <1>3, <3>2, <4>2
        <5> QED  BY <5>1, <5>2 DEF QueueSays
      <4> QED  BY <4>1, <4>2 DEF QueueSays
    <3> QED  BY <1>1, <1>6, <3>1, <3>3 DEF Settles
  <2> QED  BY <2>1, <2>2
<1>7. CurrentSettles'
  BY <1>1, <1>6 DEF WatcherInv, CurrentSettles, NoReloads, In
<1> QED  BY <1>4, <1>5, <1>7 DEF WatcherInv

\* The service takes the oldest update; it is the last word only if no later one follows.
LEMMA ApplyKeeps == ASSUME WatcherInv, Apply PROVE WatcherInv'
<1> DEFINE g == Head(queue)[1]
           w == Head(queue)[2]
<1>1. /\ queue # <<>> /\ queue' = Tail(queue)
      /\ applied' = [applied EXCEPT ![g] = w]
      /\ UNCHANGED <<disk, events, changes, hashes, current, recent, handler, reloader, pendingUpdates, batch, reloads>>
  BY DEF Apply
<1>2. queue \in Seq(Files \X Credentials) /\ QueueCap \in Nat /\ Len(queue) <= QueueCap
  BY WatcherAssumption DEF WatcherInv, WatcherTypeOK, WatcherSetting
<1>3. Head(queue) \in Files \X Credentials /\ Head(queue) = queue[1]
  BY <1>1, <1>2
<1>4. g \in Files /\ w \in Credentials /\ queue[1] = <<g, w>>
  BY <1>3
<1>5. /\ queue' \in Seq(Files \X Credentials) /\ Len(queue') = Len(queue) - 1
      /\ DOMAIN queue' = 1 .. Len(queue) - 1 /\ DOMAIN queue = 1 .. Len(queue) /\ Len(queue) \in Nat
      /\ \A i \in DOMAIN queue' : queue'[i] = queue[i + 1]
  BY <1>1, <1>2
<1>6. WatcherTypeOK'
  <2>1. Len(queue') <= QueueCap
    BY <1>2, <1>5
  <2>2. applied' \in [Files -> Credentials]
    BY <1>1, <1>4 DEF WatcherInv, WatcherTypeOK
  <2> QED  BY <1>1, <1>5, <2>1, <2>2 DEF WatcherInv, WatcherTypeOK
<1>7. HandlerInv'
  BY <1>1 DEF WatcherInv, HandlerInv
<1>8. ASSUME NEW f \in Files, NEW v, QueueSays(f, v) PROVE QueueSays(f, v)'
  <2> HIDE DEF g, w
  <2>0. Len(queue) >= 1
    BY <1>1, <1>2
  <2>1. CASE applied[f] = v /\ \A i \in DOMAIN queue : queue[i][1] # f
    <3>1. f # g
      BY <1>4, <1>5, <2>0, <2>1
    <3>2. applied'[f] = v
      BY <1>1, <1>4, <2>1, <3>1 DEF WatcherInv, WatcherTypeOK
    <3>3. \A i \in DOMAIN queue' : queue'[i][1] # f
      BY <1>5, <2>1
    <3> QED  BY <3>2, <3>3 DEF QueueSays
  <2>2. ASSUME NEW i \in DOMAIN queue, queue[i] = <<f, v>>,
               \A j \in DOMAIN queue : j > i => queue[j][1] # f
        PROVE  QueueSays(f, v)'
    <3>1. CASE i = 1
      <4>1. f = g /\ v = w
        BY <1>4, <2>2, <3>1
      <4>2. applied'[f] = v
        BY <1>1, <1>4, <4>1 DEF WatcherInv, WatcherTypeOK
      <4>3. \A j \in DOMAIN queue' : queue'[j][1] # f
        BY <1>5, <2>2, <3>1
      <4> QED  BY <4>2, <4>3 DEF QueueSays
    <3>2. CASE i # 1
      <4>1. i - 1 \in DOMAIN queue' /\ queue'[i - 1] = <<f, v>>
        BY <1>5, <2>2, <3>2
      <4>2. \A j \in DOMAIN queue' : j > i - 1 => queue'[j][1] # f
        BY <1>5, <2>2
      <4> QED  BY <4>1, <4>2 DEF QueueSays
    <3> QED  BY <3>1, <3>2
  <2> QED  BY <1>8, <2>1, <2>2 DEF QueueSays
<1>9. ASSUME NEW f \in Files, NEW v, Settles(f, v) PROVE Settles(f, v)'
  <2> HIDE DEF g, w
  <2> QED  BY <1>1, <1>8, <1>9 DEF Settles
<1>10. CurrentSettles'
  <2> HIDE DEF g, w
  <2> QED  BY <1>1, <1>9 DEF WatcherInv, CurrentSettles, NoReloads, In
<1> QED  BY <1>6, <1>7, <1>10 DEF WatcherInv

\* the merge
LEMMA MergeTyped ==
    ASSUME WatcherTypeOK, NEW out \in Updates, Merge(out)
    PROVE  pendingUpdates' \in Updates
BY DEF WatcherTypeOK, Updates, Merge

LEMMA DispatchHandledKeeps == ASSUME WatcherInv, DispatchHandled PROVE WatcherInv'
<1>1. handler.out \in Updates
  BY HandlerTyped DEF WatcherInv
<1>2. pendingUpdates' \in Updates
  BY <1>1, MergeTyped DEF WatcherInv, DispatchHandled
<1>3. handler' \in Handling /\ handler'.pc = "idle" /\ handler'.out = NoUpdate
  BY DEF DispatchHandled, WatcherInv, WatcherTypeOK, Handling, NoUpdate, Updates
<1>4. WatcherTypeOK' /\ HandlerInv'
  BY <1>2, <1>3 DEF DispatchHandled, WatcherInv, WatcherTypeOK, HandlerInv
<1>5. ASSUME NEW f \in Files, NEW v, Settles(f, v) PROVE Settles(f, v)'
  <2>1. handler'.out[f] = "none" /\ pendingUpdates'[f] = IF handler.out[f] = "none" THEN pendingUpdates[f] ELSE handler.out[f]
    BY <1>3 DEF DispatchHandled, Merge, NoUpdate
  <2>2. UNCHANGED <<batch, queue, applied>>
    BY DEF DispatchHandled
  <2> QED  BY <1>5, <2>1, <2>2 DEF Settles, QueueSays
<1>6. CurrentSettles'
  BY <1>5 DEF WatcherInv, CurrentSettles, NoReloads, In, DispatchHandled
<1> QED  BY <1>4, <1>6 DEF WatcherInv

\* handler
LEMMA KnownFile == "none" \notin Credentials /\ Versions \subseteq Contents /\ Versions \subseteq Credentials /\ "absent" \in Credentials
BY WatcherAssumption DEF WatcherSetting, Credentials, Contents

\* What the handler enters into the snapshot it is about to dispatch.
LEMMA Enters ==
    ASSUME WatcherInv, handler.pc # "dispatch", NEW data \in Credentials,
           handler' = [handler EXCEPT !.pc = "dispatch", !.out[File] = data],
           current' = [current EXCEPT ![File] = data],
           hashes' \in [Files -> Versions \cup {"none"}],
           UNCHANGED <<diskVars, recent, reloader, pendingUpdates, sendVars, reloads>>
    PROVE  WatcherInv'
<1>1. handler.file \in Files /\ handler.out = NoUpdate /\ handler.out \in Updates
  BY HandlerTyped DEF WatcherInv, HandlerInv
<1>2. /\ handler' \in Handling /\ handler'.pc = "dispatch"
      /\ handler'.out = [handler.out EXCEPT ![File] = data]
  <2>1. [handler.out EXCEPT ![File] = data] \in Updates
    BY <1>1 DEF Updates, File
  <2>2. handler' = [handler EXCEPT !.pc = "dispatch", !.out = [handler.out EXCEPT ![File] = data]]
    BY DEF WatcherInv, WatcherTypeOK, Handling
  <2> HIDE DEF Updates
  <2> QED  BY <2>1, <2>2 DEF WatcherInv, WatcherTypeOK, Handling
<1>3. current' \in [Files -> Credentials]
  BY <1>1 DEF WatcherInv, WatcherTypeOK, File
<1>4. WatcherTypeOK' /\ HandlerInv'
  BY <1>2, <1>3 DEF WatcherInv, WatcherTypeOK, HandlerInv
<1>5. ASSUME NEW f \in Files, Settles(f, current[f]) PROVE Settles(f, current[f])'
  <2>1. CASE f = File
    <3>1. handler'.out[f] = data /\ current'[f] = data
      BY <1>1, <1>2, <2>1 DEF WatcherInv, WatcherTypeOK, NoUpdate
    <3> QED  BY <3>1, KnownFile DEF Settles
  <2>2. CASE f # File
    <3>1. handler'.out[f] = handler.out[f] /\ current'[f] = current[f]
      BY <1>1, <1>2, <2>2 DEF WatcherInv, WatcherTypeOK, NoUpdate
    <3> QED  BY <1>5, <3>1 DEF Settles, QueueSays
  <2> QED  BY <2>1, <2>2
<1>6. CurrentSettles'
  BY <1>5 DEF WatcherInv, CurrentSettles, NoReloads, In
<1> QED  BY <1>4, <1>6 DEF WatcherInv

LEMMA TakeEventKeeps == ASSUME WatcherInv, TakeEvent PROVE WatcherInv'
<1>1. events \in Seq(Files \X {"write", "remove"}) /\ events # <<>> /\ events' = Tail(events)
  BY DEF WatcherInv, WatcherTypeOK, TakeEvent
<1>2. Head(events) \in Files \X {"write", "remove"} /\ events' \in Seq(Files \X {"write", "remove"})
  BY <1>1
<1>3. /\ handler' \in Handling /\ handler'.out = handler.out
      /\ handler'.pc \in {"check", "debounce"}
  BY <1>2 DEF TakeEvent, WatcherInv, WatcherTypeOK, Handling
<1>4. WatcherTypeOK' /\ HandlerInv'
  BY <1>2, <1>3 DEF WatcherInv, WatcherTypeOK, HandlerInv, TakeEvent, HandlerAt
<1>5. CurrentSettles'
  BY <1>3, Kept DEF TakeEvent, NoReloads, In
<1> QED  BY <1>4, <1>5 DEF WatcherInv

LEMMA MovesOn ==
    ASSUME WatcherInv, NEW pc \in {"idle", "check", "read", "debounce", "settle", "remove"},
           Goto(pc), handler.pc # "dispatch",
           recent' \in SUBSET Files,
           UNCHANGED <<diskVars, hashes, current, reloader, pendingUpdates, sendVars, reloads>>
    PROVE  WatcherInv'
<1>1. handler' \in Handling /\ handler'.pc = pc /\ handler'.out = handler.out
  BY HandlerGoes DEF WatcherInv
<1>2. WatcherTypeOK' /\ HandlerInv'
  BY <1>1 DEF WatcherInv, WatcherTypeOK, HandlerInv
<1>3. CurrentSettles'
  BY <1>1, Kept DEF NoReloads, In
<1> QED  BY <1>2, <1>3 DEF WatcherInv

LEMMA ReadFileKeeps == ASSUME WatcherInv, ReadFile PROVE WatcherInv'
<1>1. handler.file \in Files
  BY HandlerTyped DEF WatcherInv
<1>2. Content \in Contents
  BY <1>1 DEF WatcherInv, WatcherTypeOK, Content
<1>3. /\ handler' \in Handling /\ handler'.out = handler.out /\ handler'.data = Content
      /\ handler'.pc = IF Content \in Versions THEN "update" ELSE "idle"
  BY <1>2 DEF ReadFile, WatcherInv, WatcherTypeOK, Handling
<1>4. WatcherTypeOK' /\ HandlerInv'
  BY <1>3 DEF WatcherInv, WatcherTypeOK, HandlerInv, ReadFile, HandlerAt
<1>5. CurrentSettles'
  BY <1>3, Kept DEF ReadFile, NoReloads, In
<1> QED  BY <1>4, <1>5 DEF WatcherInv

LEMMA UpdateClientKeeps == ASSUME WatcherInv, UpdateClient PROVE WatcherInv'
<1>1. /\ handler.pc = "update" /\ handler.file \in Files /\ handler.data \in Versions
      /\ handler.out = NoUpdate
  BY HandlerTyped DEF WatcherInv, HandlerInv, UpdateClient, HandlerAt
<1>2. CASE hashes[File] = handler.data
  BY <1>1, <1>2, MovesOn DEF UpdateClient, WatcherInv, WatcherTypeOK
<1>3. CASE hashes[File] # handler.data
  <2>1. hashes' \in [Files -> Versions \cup {"none"}]
    BY <1>1, <1>3 DEF UpdateClient, WatcherInv, WatcherTypeOK, File
  <2>2. current' = [current EXCEPT ![File] = handler.data]
    BY <1>3 DEF UpdateClient
  <2>3. CASE current[File] # handler.data
    BY <1>1, <1>3, <2>1, <2>2, <2>3, Enters, KnownFile DEF UpdateClient
  <2>4. CASE current[File] = handler.data
    <3>1. handler' = [handler EXCEPT !.pc = "idle"] /\ current' = current
      BY <1>1, <1>3, <2>2, <2>4 DEF UpdateClient, WatcherInv, WatcherTypeOK, File
    <3>2. handler' \in Handling /\ handler'.pc = "idle" /\ handler'.out = handler.out
      BY <3>1, HandlerGoes DEF WatcherInv, Goto
    <3>3. WatcherTypeOK' /\ HandlerInv'
      BY <1>1, <2>1, <3>1, <3>2 DEF UpdateClient, WatcherInv, WatcherTypeOK, HandlerInv
    <3>4. CurrentSettles'
      BY <3>1, <3>2, Kept DEF UpdateClient, NoReloads, In
    <3> QED  BY <3>3, <3>4 DEF WatcherInv
  <2> QED  BY <2>3, <2>4
<1> QED  BY <1>2, <1>3

LEMMA RemoveClientKeeps == ASSUME WatcherInv, RemoveClient PROVE WatcherInv'
<1>1. hashes' \in [Files -> Versions \cup {"none"}]
  BY HandlerTyped DEF RemoveClient, WatcherInv, WatcherTypeOK, File
<1> QED  BY <1>1, Enters, KnownFile DEF RemoveClient, HandlerAt

LEMMA HandleKeeps == ASSUME WatcherInv, Handle PROVE WatcherInv'
<1>1. CASE CheckUnchanged
  BY <1>1, MovesOn DEF CheckUnchanged, HandlerAt, WatcherInv, WatcherTypeOK
<1>2. CASE DebounceRemove
  BY <1>2, MovesOn, HandlerTyped DEF DebounceRemove, HandlerAt, WatcherInv, WatcherTypeOK, File
<1>3. CASE SettleRemove
  <2>1. Goto("check") \/ Goto("idle") \/ Goto("remove")
    BY <1>3 DEF SettleRemove
  <2> QED  BY <1>3, <2>1, MovesOn DEF SettleRemove, HandlerAt, WatcherInv, WatcherTypeOK
<1> QED  BY <1>1, <1>2, <1>3, TakeEventKeeps, ReadFileKeeps, UpdateClientKeeps, RemoveClientKeeps,
            DispatchHandledKeeps DEF Handle

\* reloads
LEMMA ReloadAt ==
    ASSUME WatcherTypeOK, NEW l \in Reloaders, ~In(l, "off"),
           NEW r \in Reloading, r.pc # "off", reloader' = [reloader EXCEPT ![l] = r],
           handler' = handler, HandlerInv
    PROVE  reloader' \in [Reloaders -> Reloading] /\ CurrentSettles' /\ HandlerInv'
<1>1. reloader' \in [Reloaders -> Reloading] /\ reloader'[l] = r
  BY DEF WatcherTypeOK
<1>2. ~NoReloads'
  BY <1>1 DEF NoReloads, In
<1> QED  BY <1>1, <1>2, WithReloads DEF HandlerInv

LEMMA ReloadingTyped ==
    ASSUME WatcherTypeOK, NEW l \in Reloaders
    PROVE  reloader[l] \in Reloading /\ reloader[l].out \in Updates /\ reloader[l].snapshot \in [Files -> Credentials]
BY DEF WatcherTypeOK, Reloading

LEMMA BeginReloadKeeps ==
    ASSUME WatcherInv, NEW l \in Reloaders, NEW force \in BOOLEAN, NEW drop \in BOOLEAN,
           NEW rescan \in BOOLEAN,
           BeginReload(l, force, drop, rescan)
    PROVE  WatcherInv'
<1> DEFINE r == [reloader[l] EXCEPT !.pc = IF rescan THEN "rescan" ELSE "snapshot", !.force = force]
<1>1. r \in Reloading /\ r.pc # "off"
  BY ReloadingTyped DEF WatcherInv, Reloading
<1>2. reloader' = [reloader EXCEPT ![l] = r]
  BY DEF BeginReload, WatcherInv, WatcherTypeOK
<1>3. ~In(l, "off") /\ handler' = handler
  BY DEF BeginReload, In
<1>4. reloader' \in [Reloaders -> Reloading] /\ CurrentSettles' /\ HandlerInv'
  <2> HIDE DEF r
  <2> QED  BY <1>1, <1>2, <1>3, ReloadAt DEF WatcherInv
<1>5. WatcherTypeOK'
  <2>1. current' \in [Files -> Credentials]
    BY KnownFile DEF BeginReload, WatcherInv, WatcherTypeOK, Nothing
  <2>2. reloads' \in 0 .. MaxReloads
    BY WatcherAssumption DEF WatcherSetting, BeginReload, WatcherInv, WatcherTypeOK
  <2> QED  BY <1>4, <2>1, <2>2 DEF BeginReload, WatcherInv, WatcherTypeOK
<1> QED  BY <1>4, <1>5 DEF WatcherInv

LEMMA RescanKeeps == ASSUME WatcherInv, NEW l \in Reloaders, Rescan(l) PROVE WatcherInv'
<1> DEFINE r == [reloader[l] EXCEPT !.pc = "snapshot"]
<1>1. r \in Reloading /\ r.pc # "off"
  BY ReloadingTyped DEF WatcherInv, Reloading
<1>2. reloader' = [reloader EXCEPT ![l] = r] /\ ~In(l, "off") /\ handler' = handler
  BY DEF Rescan, WatcherInv, WatcherTypeOK, In
<1>3. reloader' \in [Reloaders -> Reloading] /\ CurrentSettles' /\ HandlerInv'
  <2> HIDE DEF r
  <2> QED  BY <1>1, <1>2, ReloadAt DEF WatcherInv
<1>4. hashes' \in [Files -> Versions \cup {"none"}]
  BY DEF Rescan
<1> QED  BY <1>3, <1>4 DEF Rescan, WatcherInv, WatcherTypeOK

LEMMA SnapshotKeeps == ASSUME WatcherInv, NEW l \in Reloaders, Snapshot(l) PROVE WatcherInv'
<1> DEFINE s == [f \in Files |-> Valid(disk[f])]
           r == [reloader[l] EXCEPT !.pc = "prepare", !.snapshot = s]
<1>1. s \in [Files -> Credentials]
  BY KnownFile DEF Valid
<1>2. r \in Reloading /\ r.pc # "off"
  <2> HIDE DEF s
  <2> QED  BY <1>1, ReloadingTyped DEF WatcherInv, Reloading
<1>3. reloader' = [reloader EXCEPT ![l] = r] /\ ~In(l, "off") /\ handler' = handler
  BY DEF Snapshot, WatcherInv, WatcherTypeOK, In
<1>4. reloader' \in [Reloaders -> Reloading] /\ CurrentSettles' /\ HandlerInv'
  <2> HIDE DEF r
  <2> QED  BY <1>2, <1>3, ReloadAt DEF WatcherInv
<1> QED  BY <1>4 DEF Snapshot, WatcherInv, WatcherTypeOK

LEMMA PrepareKeeps == ASSUME WatcherInv, NEW l \in Reloaders, Prepare(l) PROVE WatcherInv'
<1> DEFINE d == Difference(current, reloader[l].snapshot, reloader[l].force)
           r == [reloader[l] EXCEPT !.pc = "dispatch", !.out = d]
<1>1. d \in Updates /\ reloader[l].snapshot \in [Files -> Credentials]
  BY ReloadingTyped DEF WatcherInv, Difference, Updates
<1>2. r \in Reloading /\ r.pc # "off"
  <2> HIDE DEF d
  <2> QED  BY <1>1, ReloadingTyped DEF WatcherInv, Reloading
<1>3. reloader' = [reloader EXCEPT ![l] = r] /\ ~In(l, "off") /\ handler' = handler
  BY DEF Prepare, WatcherInv, WatcherTypeOK, In
<1>4. reloader' \in [Reloaders -> Reloading] /\ CurrentSettles' /\ HandlerInv'
  <2> HIDE DEF r
  <2> QED  BY <1>2, <1>3, ReloadAt DEF WatcherInv
<1> QED  BY <1>1, <1>4 DEF Prepare, WatcherInv, WatcherTypeOK

LEMMA DispatchReloadedKeeps ==
    ASSUME WatcherInv, NEW l \in Reloaders, DispatchReloaded(l)
    PROVE  WatcherInv'
<1>1. IdleReloader \in Reloading /\ IdleReloader.pc # "off"
  BY KnownFile DEF IdleReloader, Reloading, Nothing, NoUpdate, Updates
<1>2. reloader' = [reloader EXCEPT ![l] = IdleReloader] /\ ~In(l, "off") /\ handler' = handler
  BY DEF DispatchReloaded, In
<1>3. reloader' \in [Reloaders -> Reloading] /\ CurrentSettles' /\ HandlerInv'
  BY <1>1, <1>2, ReloadAt DEF WatcherInv
<1>4. pendingUpdates' \in Updates
  BY ReloadingTyped, MergeTyped DEF DispatchReloaded, WatcherInv
<1> QED  BY <1>3, <1>4 DEF DispatchReloaded, WatcherInv, WatcherTypeOK

LEMMA WatcherInitially == WatcherInit => WatcherInv
<1> SUFFICES ASSUME WatcherInit PROVE WatcherInv
  OBVIOUS
<1>1. NoUpdate \in Updates
  BY DEF NoUpdate, Updates
<1>2. IdleReloader \in Reloading /\ NoReloader \in Reloading
  BY <1>1, KnownFile DEF IdleReloader, NoReloader, Reloading, Nothing
<1>3. handler \in Handling
  BY <1>1, WatcherAssumption DEF WatcherInit, Handling, Contents, WatcherSetting
<1>4. current \in [Files -> Credentials] /\ disk \in [Files -> Contents] /\ applied = current
  BY DEF WatcherInit, Credentials, Contents
<1>5. hashes \in [Files -> Versions \cup {"none"}]
  BY DEF WatcherInit
<1>6. WatcherTypeOK
  BY <1>1, <1>2, <1>3, <1>4, <1>5, WatcherAssumption DEF WatcherSetting, WatcherInit, WatcherTypeOK
<1>7. HandlerInv
  BY DEF WatcherInit, HandlerInv
<1>8. CurrentSettles
  BY <1>4 DEF WatcherInit, CurrentSettles, Settles, QueueSays, NoUpdate
<1> QED  BY <1>6, <1>7, <1>8 DEF WatcherInv

\* Every step of the watcher keeps the invariant.
LEMMA WatcherInductive == WatcherInv /\ [WatcherNext]_watcherVars => WatcherInv'
<1> SUFFICES ASSUME WatcherInv, [WatcherNext]_watcherVars PROVE WatcherInv'
  OBVIOUS
<1>1. ASSUME NEW f \in Files, NEW content \in Contents, WriteFile(f, content) PROVE WatcherInv'
  BY <1>1, ChangeKeeps DEF WriteFile
<1>2. ASSUME NEW f \in Files, RemoveFile(f) PROVE WatcherInv'
  BY <1>2, ChangeKeeps DEF RemoveFile, Contents
<1>3. ASSUME NEW l \in Reloaders, Reload(l) PROVE WatcherInv'
  BY <1>3, RescanKeeps, SnapshotKeeps, PrepareKeeps, DispatchReloadedKeeps DEF Reload
<1>4. CASE Deliver
  BY <1>4, NextBatchKeeps, SendKeeps, ApplyKeeps DEF Deliver
<1>5. CASE UNCHANGED watcherVars
  <2>1. WatcherTypeOK' /\ HandlerInv'
    BY <1>5 DEF watcherVars, WatcherInv, WatcherTypeOK, HandlerInv
  <2>2. CurrentSettles'
    BY <1>5, Kept DEF watcherVars, NoReloads, In
  <2> QED  BY <2>1, <2>2 DEF WatcherInv
<1> QED  BY <1>1, <1>2, <1>3, <1>4, <1>5, WindowEndsKeeps, HandleKeeps, BeginReloadKeeps
   DEF WatcherNext

LEMMA WatcherInvariance == WatcherSpec => []WatcherInv
BY WatcherInitially, WatcherInductive, PTL DEF WatcherSpec

\* Events, hashes, credentials and updates keep their types, the service channel its
\* capacity, for any set of files, contents and reloads.
THEOREM WatcherTypeCorrect == WatcherSpec => []WatcherTypeOK
BY WatcherInvariance, PTL DEF WatcherInv

\* Without reloads, when handler, pending updates, batch and channel are empty, the
\* service has exactly the credentials that the watcher keeps, whatever the files did
\* meanwhile and however the updates were merged and held up.
THEOREM DeliveryAgrees == WatcherSpec => []DeliveredAgrees
<1>1. WatcherInv => DeliveredAgrees
  <2> SUFFICES ASSUME WatcherInv, NoReloads, Undisturbed, Delivered PROVE applied = current
    BY DEF DeliveredAgrees
  <2>1. ASSUME NEW f \in Files PROVE applied[f] = current[f]
    BY DEF WatcherInv, HandlerInv, CurrentSettles, Settles, QueueSays, Undisturbed, HandlerAt,
       Delivered, NoUpdate
  <2> QED  BY <2>1 DEF WatcherInv, WatcherTypeOK
<1> QED  BY <1>1, WatcherInvariance, PTL

HIDE DEF diskVars, clientVars, sendVars

(***************************************************************************)
(* ModelRegistry: the counts of a registration are the numbers of the      *)
(* listings of the clients, and a cached listing is what a fresh one would *)
(* be until it expires.                                                    *)
(***************************************************************************)

Places(f, D) == {l \in D \X (1..MaxCopies) : l[2] <= f[l[1]]}

\* One client has as many listings of a model as its list names it.
LEMMA OneColumn ==
    ASSUME NEW f, NEW c, f[c] \in 0..MaxCopies, MaxCopies \in Nat
    PROVE  IsFiniteSet(Places(f, {c})) /\ Cardinality(Places(f, {c})) = f[c]
<1> DEFINE S == Places(f, {c})
           g == [i \in 1..f[c] |-> <<c, i>>]
<1>1. g \in Bijection(1..f[c], S)
  <2>1. g \in [1..f[c] -> S]
    BY DEF Places
  <2>2. ASSUME NEW i \in 1..f[c], NEW j \in 1..f[c], g[i] = g[j] PROVE i = j
    BY <2>2
  <2>3. ASSUME NEW l \in S PROVE \E i \in 1..f[c] : g[i] = l
    <3>1. l[1] = c /\ l[2] \in 1..f[c] /\ l = <<l[1], l[2]>>
      BY DEF Places
    <3>2. g[l[2]] = l
      BY <3>1
    <3> QED  BY <3>1, <3>2
  <2> HIDE DEF g, S
  <2> QED  BY <2>1, <2>2, <2>3 DEF Bijection, Injection, Surjection, IsInjective
<1>2. ExistsBijection(1..f[c], S)
  BY <1>1 DEF ExistsBijection
<1>3. f[c] \in Nat
  OBVIOUS
<1>4. Cardinality(S) = f[c]
  BY <1>2, <1>3, FS_CountingElements
<1>5. IsFiniteSet(S)
  BY <1>2, <1>3, FS_NatBijection
<1> QED  BY <1>4, <1>5

\* There are finitely many listings, if there are finitely many clients.
LEMMA PlacesFinite ==
    ASSUME NEW f, NEW D \in SUBSET Clients, IsFiniteSet(Clients), MaxCopies \in Nat
    PROVE  IsFiniteSet(Places(f, D)) /\ Cardinality(Places(f, D)) \in Nat
<1>1. IsFiniteSet(D) /\ IsFiniteSet(1..MaxCopies)
  BY FS_Subset, FS_Interval
<1>2. IsFiniteSet(D \X (1..MaxCopies))
  BY <1>1, FS_Product
<1>3. Places(f, D) \in SUBSET (D \X (1..MaxCopies))
  BY DEF Places
<1> QED  BY <1>2, <1>3, FS_Subset, FS_CardinalityType

\* The listings are those of one client and those of the others.
LEMMA Split ==
    ASSUME NEW f, NEW D \in SUBSET Clients, NEW c \in D, f[c] \in 0..MaxCopies,
           IsFiniteSet(Clients), MaxCopies \in Nat
    PROVE  Cardinality(Places(f, D)) = Cardinality(Places(f, D \ {c})) + f[c]
<1>1. /\ Places(f, D) = Places(f, D \ {c}) \cup Places(f, {c})
      /\ Places(f, D \ {c}) \cap Places(f, {c}) = {}
  BY DEF Places
<1>2. IsFiniteSet(Places(f, D \ {c})) /\ Cardinality(Places(f, D \ {c})) \in Nat
  BY PlacesFinite
<1>3. Cardinality({}) = 0
  BY FS_EmptySet
<1>4. IsFiniteSet(Places(f, {c})) /\ Cardinality(Places(f, {c})) = f[c]
  BY OneColumn
<1>5. Cardinality(Places(f, D \ {c}) \cup Places(f, {c})) = Cardinality(Places(f, D \ {c})) + f[c] - 0
  BY <1>1, <1>2, <1>3, <1>4, FS_Union
<1> QED  BY <1>1, <1>2, <1>5

\* registrations
LEMMA RegTyped ==
    ASSUME NEW reg \in Registration
    PROVE  /\ reg.count \in Nat /\ reg.providers \in [Providers -> Nat]
           /\ reg.exceeded \in [Clients -> Nat] /\ reg.suspended \in [Clients -> Reasons]
BY DEF Registration

LEMMA AbsentTyped ==
    Absent \in Registration /\ Absent.count = 0 /\ \A q \in Providers : Absent.providers[q] = 0
BY DEF Registration, Absent, Reasons

\* how much of n falls on q
Share(p, q, n) == IF p = q THEN n ELSE 0

LEMMA ShareSays ==
    ASSUME NEW p, NEW q, NEW n \in Nat
    PROVE  Share(p, q, n) \in Nat /\ Share(p, q, 0) = 0 /\ (p # q => Share(p, q, n) = 0) /\ (p = q => Share(p, q, n) = n)
BY DEF Share

\* Gain, Lose, Forget, AddRegistration and RemoveRegistration: what each does to the
\* counts.
LEMMA GainSays ==
    ASSUME NEW reg \in Registration, NEW p, NEW n \in Nat, p = NoProvider \/ p \in Providers,
           NoProvider \notin Providers
    PROVE  /\ Gain(reg, p, n) \in Registration /\ Gain(reg, p, n).count = reg.count
           /\ \A q \in Providers : Gain(reg, p, n).providers[q] = reg.providers[q] + Share(p, q, n)
<1>1. CASE p = NoProvider
  BY <1>1, RegTyped DEF Gain, Share
<1>2. CASE p \in Providers
  <2> DEFINE f == [reg.providers EXCEPT ![p] = @ + n]
  <2>1. f \in [Providers -> Nat] /\ \A q \in Providers : f[q] = reg.providers[q] + Share(p, q, n)
    BY <1>2, RegTyped DEF Share
  <2>2. Gain(reg, p, n) = [reg EXCEPT !.providers = f]
    BY <1>2 DEF Gain
  <2> HIDE DEF f
  <2> QED  BY <2>1, <2>2 DEF Registration
<1> QED  BY <1>1, <1>2

LEMMA LoseSays ==
    ASSUME NEW reg \in Registration, NEW p, NEW n \in Nat, p = NoProvider \/ p \in Providers,
           NoProvider \notin Providers,
           p \in Providers => reg.providers[p] >= n
    PROVE  /\ Lose(reg, p, n) \in Registration /\ Lose(reg, p, n).count = reg.count
           /\ \A q \in Providers : Lose(reg, p, n).providers[q] = reg.providers[q] - Share(p, q, n)
<1>1. CASE p = NoProvider
  BY <1>1, RegTyped DEF Lose, Share
<1>2. CASE p \in Providers
  <2> DEFINE f == [reg.providers EXCEPT ![p] = AtLeastZero(@ - n)]
  <2>1. f \in [Providers -> Nat] /\ \A q \in Providers : f[q] = reg.providers[q] - Share(p, q, n)
    BY <1>2, RegTyped DEF Share, AtLeastZero
  <2>2. Lose(reg, p, n) = [reg EXCEPT !.providers = f]
    BY <1>2 DEF Lose
  <2> HIDE DEF f
  <2> QED  BY <2>1, <2>2 DEF Registration
<1> QED  BY <1>1, <1>2

LEMMA ForgetSays ==
    ASSUME NEW reg \in Registration, NEW c \in Clients
    PROVE  /\ Forget(reg, c) \in Registration /\ Forget(reg, c).count = reg.count
           /\ Forget(reg, c).providers = reg.providers
BY DEF Forget, Registration, Reasons

\* A registration that has `count' listings, providers[q] of them with q; no listing, no marks.
Tallies(reg, count, providers) ==
    /\ reg \in Registration
    /\ reg.count = count
    /\ \A q \in Providers : reg.providers[q] = providers[q]
    /\ count = 0 => reg = Absent

LEMMA AddSays ==
    ASSUME NEW reg \in Registration, NEW p, NEW n \in Nat \ {0}, p = NoProvider \/ p \in Providers,
           NoProvider \notin Providers,
           reg.count = 0 => reg = Absent
    PROVE  /\ AddRegistration(reg, p, n) \in Registration /\ AddRegistration(reg, p, n).count = reg.count + n
           /\ \A q \in Providers : AddRegistration(reg, p, n).providers[q] = reg.providers[q] + Share(p, q, n)
<1> DEFINE more == [reg EXCEPT !.count = @ + n]
<1>1. (IF reg.count = 0 THEN Absent ELSE reg) = reg
  OBVIOUS
<1>2. AddRegistration(reg, p, n) = Gain(more, p, n)
  BY <1>1 DEF AddRegistration
<1>3. more \in Registration /\ more.count = reg.count + n /\ more.providers = reg.providers
  BY DEF Registration
<1> HIDE DEF more
<1> QED  BY <1>2, <1>3, GainSays

LEMMA RemoveSays ==
    ASSUME NEW reg \in Registration, NEW c \in Clients, NEW p, NEW n \in Nat \ {0},
           p = NoProvider \/ p \in Providers, NoProvider \notin Providers,
           reg.count >= n, p \in Providers => reg.providers[p] >= n
    PROVE  /\ RemoveRegistration(reg, c, p, n) \in Registration
           /\ RemoveRegistration(reg, c, p, n).count = reg.count - n
           /\ IF reg.count = n THEN RemoveRegistration(reg, c, p, n) = Absent
              ELSE \A q \in Providers : RemoveRegistration(reg, c, p, n).providers[q] = reg.providers[q] - Share(p, q, n)
<1> DEFINE fewer == [reg EXCEPT !.count = @ - n]
           left == Lose(Forget(fewer, c), p, n)
<1>1. reg.count \in Nat /\ reg.count > 0
  BY RegTyped
<1>2. RemoveRegistration(reg, c, p, n) = IF left.count <= 0 THEN Absent ELSE left
  BY <1>1 DEF RemoveRegistration
<1>3. fewer \in Registration /\ fewer.count = reg.count - n /\ fewer.providers = reg.providers
  BY <1>1 DEF Registration
<1>4. /\ left \in Registration /\ left.count = reg.count - n
      /\ \A q \in Providers : left.providers[q] = reg.providers[q] - Share(p, q, n)
  <2> HIDE DEF fewer
  <2>1. Forget(fewer, c) \in Registration /\ Forget(fewer, c).count = reg.count - n /\ Forget(fewer, c).providers = reg.providers
    BY <1>3, ForgetSays
  <2> QED  BY <2>1, LoseSays
<1> HIDE DEF left
<1> QED  BY <1>1, <1>2, <1>4, AbsentTyped

\* A client's listings of a model change in number from old to new, and from one provider to another.
LEMMA ReconciledSays ==
    ASSUME NEW reg \in Registration, NEW c \in Clients, NoProvider \notin Providers,
           NEW oldP \in Providers \cup {NoProvider}, NEW newP \in Providers \cup {NoProvider},
           NEW old \in Nat, NEW new \in Nat,
           NEW rest \in Nat, NEW others \in [Providers -> Nat], \A q \in Providers : others[q] <= rest,
           NEW before, \A q \in Providers : before[q] = others[q] + Share(oldP, q, old),
           NEW after, \A q \in Providers : after[q] = others[q] + Share(newP, q, new),
           Tallies(reg, rest + old, before)
    PROVE  Tallies(Reconciled(reg, c, oldP, newP, old, new), rest + new, after)
<1> DEFINE kept == IF oldP = newP THEN 0 ELSE Smaller(old, new)
           moved == IF kept = 0 THEN reg ELSE Lose(reg, oldP, kept)
           cut == IF new < old THEN RemoveRegistration(moved, c, oldP, old - new) ELSE moved
           grown == IF new > old THEN AddRegistration(cut, newP, new - old) ELSE cut
           final == IF new = 0 THEN grown ELSE Gain(Forget(grown, c), newP, kept)
<1>1. Reconciled(reg, c, oldP, newP, old, new) = final
  BY DEF Reconciled
<1>2. /\ reg.count = rest + old
      /\ \A q \in Providers : reg.providers[q] = others[q] + Share(oldP, q, old)
      /\ reg.count = 0 => reg = Absent
  BY DEF Tallies
<1>3. kept \in Nat /\ kept <= old /\ kept <= new /\ (oldP = newP => kept = 0)
      /\ (oldP # newP => kept = old \/ kept = new) /\ (oldP # newP /\ new < old => kept = new)
      /\ (oldP # newP /\ ~(new < old) => kept = old)
  BY DEF Smaller
<1> HIDE DEF kept
<1>4. \A q \in Providers : Share(oldP, q, kept) \in Nat /\ Share(oldP, q, old) \in Nat
  BY <1>3 DEF Share
<1>5. /\ moved \in Registration /\ moved.count = rest + old
      /\ \A q \in Providers : moved.providers[q] = others[q] + Share(oldP, q, old - kept)
      /\ moved.count = 0 => moved = Absent
  <2>1. CASE kept = 0
    BY <1>2, <2>1
  <2>2. CASE kept # 0
    <3>1. oldP \in Providers => reg.providers[oldP] >= kept
      BY <1>2, <1>3 DEF Share
    <3>2. /\ moved \in Registration /\ moved.count = reg.count
          /\ \A q \in Providers : moved.providers[q] = reg.providers[q] - Share(oldP, q, kept)
      BY <1>3, <2>2, <3>1, LoseSays
    <3>3. ASSUME NEW q \in Providers PROVE moved.providers[q] = others[q] + Share(oldP, q, old - kept)
      BY <1>2, <1>3, <3>2 DEF Share
    <3>4. rest + old # 0
      BY <1>3, <2>2
    <3> QED  BY <1>2, <3>2, <3>3, <3>4
  <2> QED  BY <2>1, <2>2
<1> HIDE DEF moved
<1>6. /\ cut \in Registration /\ cut.count = rest + Smaller(old, new)
      /\ \A q \in Providers : cut.providers[q] = others[q] + Share(oldP, q, Smaller(old, new) - kept)
      /\ cut.count = 0 => cut = Absent
  <2>1. CASE ~(new < old)
    BY <1>5, <2>1 DEF Smaller
  <2>2. CASE new < old
    <3>1. old - new \in Nat \ {0} /\ Smaller(old, new) = new
      BY <2>2 DEF Smaller
    <3>2. oldP \in Providers => moved.providers[oldP] >= old - new
      <4>1. old - kept >= old - new
        BY <1>3
      <4> QED  BY <1>3, <1>5, <3>1, <4>1 DEF Share
    <3>3. moved.count >= old - new
      BY <1>5
    <3>4. cut = RemoveRegistration(moved, c, oldP, old - new)
      BY <2>2
    <3>5. /\ cut \in Registration /\ cut.count = moved.count - (old - new)
          /\ IF moved.count = old - new THEN cut = Absent
             ELSE \A q \in Providers : cut.providers[q] = moved.providers[q] - Share(oldP, q, old - new)
      <4> HIDE DEF cut
      <4> QED  BY <1>5, <3>1, <3>2, <3>3, <3>4, RemoveSays
    <3> HIDE DEF cut
    <3>6. cut.count = rest + new
      BY <1>5, <3>5
    <3>7. CASE rest + new = 0
      <4>1. cut = Absent /\ rest = 0 /\ new = 0 /\ kept = 0
        BY <1>3, <1>5, <3>5, <3>7
      <4>2. \A q \in Providers : others[q] = 0
        BY <4>1
      <4>3. \A q \in Providers : Share(oldP, q, 0) = 0
        BY DEF Share
      <4> QED  BY <3>1, <3>5, <3>6, <4>1, <4>2, <4>3, AbsentTyped
    <3>8. CASE rest + new # 0
      <4>1. ASSUME NEW q \in Providers PROVE cut.providers[q] = others[q] + Share(oldP, q, new - kept)
        BY <1>3, <1>5, <3>5, <3>8 DEF Share
      <4> QED  BY <3>1, <3>5, <3>6, <3>8, <4>1
    <3> QED  BY <3>7, <3>8
  <2> QED  BY <2>1, <2>2
<1> HIDE DEF cut
<1>7. /\ grown \in Registration /\ grown.count = rest + new
      /\ \A q \in Providers : grown.providers[q] = others[q] + Share(newP, q, new - kept)
      /\ grown.count = 0 => grown = Absent
  <2>1. CASE ~(new > old)
    <3>1. Smaller(old, new) = new
      BY <2>1 DEF Smaller
    <3>2. oldP # newP => kept = new
      BY <1>3, <2>1
    <3>3. \A q \in Providers : Share(oldP, q, new - kept) = Share(newP, q, new - kept)
      BY <3>2 DEF Share
    <3> QED  BY <1>6, <2>1, <3>1, <3>3
  <2>2. CASE new > old
    <3>1. Smaller(old, new) = old /\ new - old \in Nat \ {0}
      BY <2>2 DEF Smaller
    <3>2. grown = AddRegistration(cut, newP, new - old)
      BY <2>2
    <3>3. /\ grown \in Registration /\ grown.count = cut.count + (new - old)
          /\ \A q \in Providers : grown.providers[q] = cut.providers[q] + Share(newP, q, new - old)
      <4> HIDE DEF grown
      <4> QED  BY <1>6, <3>1, <3>2, AddSays
    <3>4. ASSUME NEW q \in Providers
          PROVE  grown.providers[q] = others[q] + Share(newP, q, new - kept)
      <4>1. Share(oldP, q, old - kept) = Share(newP, q, old - kept)
        BY <1>3, <2>2 DEF Share
      <4>2. grown.providers[q] = others[q] + Share(newP, q, old - kept) + Share(newP, q, new - old)
        BY <1>6, <3>1, <3>3, <4>1
      <4> QED  BY <1>3, <4>2 DEF Share
    <3>5. grown.count = rest + new /\ rest + new # 0
      BY <1>6, <2>2, <3>1, <3>3
    <3> QED  BY <3>3, <3>4, <3>5
  <2> QED  BY <2>1, <2>2
<1> HIDE DEF grown
<1>8. CASE new = 0
  <2>1. kept = 0 /\ final = grown
    BY <1>3, <1>8
  <2> QED  BY <1>1, <1>7, <1>8, <2>1 DEF Tallies
<1>9. CASE new # 0
  <2>1. Forget(grown, c) \in Registration /\ Forget(grown, c).count = grown.count /\ Forget(grown, c).providers = grown.providers
    BY <1>7, ForgetSays
  <2>2. /\ final \in Registration /\ final.count = rest + new
        /\ \A q \in Providers : final.providers[q] = grown.providers[q] + Share(newP, q, kept)
    BY <1>3, <1>7, <1>9, <2>1, GainSays
  <2>3. ASSUME NEW q \in Providers PROVE final.providers[q] = others[q] + Share(newP, q, new)
    BY <1>3, <1>7, <2>2 DEF Share
  <2>4. rest + new # 0
    BY <1>9
  <2> HIDE DEF final
  <2> QED  BY <1>1, <2>2, <2>3, <2>4 DEF Tallies
<1> QED  BY <1>8, <1>9

\* A list from which a model is gone altogether takes its listings off the counts.
LEMMA RemovedSays ==
    ASSUME NEW reg \in Registration, NEW c \in Clients, NoProvider \notin Providers,
           NEW oldP \in Providers \cup {NoProvider}, NEW old \in Nat,
           NEW rest \in Nat, NEW others \in [Providers -> Nat], \A q \in Providers : others[q] <= rest,
           NEW before, \A q \in Providers : before[q] = others[q] + Share(oldP, q, old),
           Tallies(reg, rest + old, before)
    PROVE  Tallies(RemoveRegistration(reg, c, oldP, old), rest, others)
<1> DEFINE after == RemoveRegistration(reg, c, oldP, old)
<1>1. /\ reg.count = rest + old
      /\ \A q \in Providers : reg.providers[q] = others[q] + Share(oldP, q, old)
      /\ reg.count = 0 => reg = Absent
  BY DEF Tallies
<1>2. CASE old = 0
  <2>1. after = reg
    BY <1>2 DEF RemoveRegistration
  <2>2. ASSUME NEW q \in Providers PROVE reg.providers[q] = others[q]
    <3>1. Share(oldP, q, old) = 0
      BY <1>2 DEF Share
    <3> QED  BY <1>1, <3>1
  <2>3. reg.count = rest
    BY <1>1, <1>2
  <2>4. Tallies(reg, rest, others)
    BY <1>1, <2>2, <2>3 DEF Tallies
  <2> QED  BY <2>1, <2>4
<1>3. CASE old # 0
  <2>1. oldP \in Providers => reg.providers[oldP] >= old
    BY <1>1 DEF Share
  <2>2. /\ after \in Registration /\ after.count = reg.count - old
        /\ IF reg.count = old THEN after = Absent
           ELSE \A q \in Providers : after.providers[q] = reg.providers[q] - Share(oldP, q, old)
    BY <1>1, <1>3, <2>1, RemoveSays
  <2> HIDE DEF after
  <2>3. CASE rest = 0
    <3>1. after = Absent /\ \A q \in Providers : others[q] = 0
      <4>1. reg.count = old
        BY <1>1, <2>3
      <4>2. \A q \in Providers : others[q] = 0
        BY <2>3
      <4> QED  BY <2>2, <4>1, <4>2
    <3>2. Tallies(Absent, rest, others)
      BY <2>3, <3>1, AbsentTyped DEF Tallies
    <3>3. after = Absent
      BY <3>1
    <3> QED  BY <3>2, <3>3 DEF after
  <2>4. CASE rest # 0
    <3>1. \A q \in Providers : Share(oldP, q, old) \in Nat
      BY DEF Share
    <3>2. reg.count # old /\ after.count = rest
      BY <1>1, <2>2, <2>4
    <3>3. ASSUME NEW q \in Providers PROVE after.providers[q] = others[q]
      <4>1. after.providers[q] = reg.providers[q] - Share(oldP, q, old)
        BY <2>2, <3>2
      <4>2. reg.providers[q] = others[q] + Share(oldP, q, old)
        BY <1>1
      <4> QED  BY <3>1, <4>1, <4>2
    <3>4. Tallies(after, rest, others)
      BY <2>2, <2>4, <3>2, <3>3 DEF Tallies
    <3> QED  BY <3>4 DEF after
  <2> QED  BY <2>3, <2>4
<1> QED  BY <1>2, <1>3

\* What the lists say about a model.
Count(m) == Cardinality(Listings(m))
CountOf(m) == [q \in Providers |-> Cardinality(ListingsOf(m, q))]

\* Each registration has the counts of its listings.
Counted == \A m \in Models : Tallies(models[m], Count(m), CountOf(m))

LEMMA CountedSays == Counted => CountsMatchLists
BY DEF Counted, Tallies, CountsMatchLists, Count, CountOf

\* A client's list and provider change: the listings of the others stay.
LEMMA Recount ==
    ASSUME RegistryTypeOK, NEW c \in Clients, NEW p \in Providers \cup {NoProvider}, NEW list \in Lists,
           clientModels' = [clientModels EXCEPT ![c] = list],
           clientProvider' = [clientProvider EXCEPT ![c] = p],
           NEW m \in Models
    PROVE  \E rest \in Nat : \E others \in [Providers -> Nat] :
               /\ \A q \in Providers : others[q] <= rest
               /\ Count(m) = rest + clientModels[c][m]
               /\ Count(m)' = rest + list[m]
               /\ \A q \in Providers : CountOf(m)[q] = others[q] + Share(clientProvider[c], q, clientModels[c][m])
               /\ \A q \in Providers : CountOf(m)'[q] = others[q] + Share(p, q, list[m])
<1> DEFINE f == [d \in Clients |-> clientModels[d][m]]
           g == [d \in Clients |-> clientModels'[d][m]]
           With(q) == {d \in Clients : clientProvider[d] = q}
           WithAfter(q) == {d \in Clients : clientProvider'[d] = q}
           rest == Cardinality(Places(f, Clients \ {c}))
           others == [q \in Providers |-> Cardinality(Places(f, With(q) \ {c}))]
<1>1. IsFiniteSet(Clients) /\ MaxCopies \in Nat
  BY RegistryAssumption DEF RegistrySetting
<1>2. /\ \A d \in Clients : f[d] \in 0..MaxCopies /\ g[d] \in 0..MaxCopies
      /\ g[c] = list[m] /\ f[c] = clientModels[c][m]
      /\ \A d \in Clients \ {c} : g[d] = f[d]
  BY DEF RegistryTypeOK, Lists
<1>3. \A q : WithAfter(q) \ {c} = With(q) \ {c} /\ (c \in With(q) <=> clientProvider[c] = q) /\ (c \in WithAfter(q) <=> p = q)
  BY DEF RegistryTypeOK
<1>4. Listings(m) = Places(f, Clients) /\ Listings(m)' = Places(g, Clients)
  BY DEF Listings, Places
<1>5. \A q \in Providers : ListingsOf(m, q) = Places(f, With(q)) /\ ListingsOf(m, q)' = Places(g, WithAfter(q))
  BY DEF ListingsOf, Listings, Places
<1>6. ASSUME NEW D \in SUBSET (Clients \ {c}) PROVE Places(g, D) = Places(f, D)
  BY <1>2 DEF Places
<1>7. \A D \in SUBSET Clients : Cardinality(Places(f, D)) \in Nat /\ IsFiniteSet(Places(f, D))
  BY <1>1, PlacesFinite
<1>8. \A q : With(q) \in SUBSET Clients /\ WithAfter(q) \in SUBSET Clients
  OBVIOUS
<1> HIDE DEF f, g, With, WithAfter
<1>9. Count(m) = rest + f[c] /\ Count(m)' = rest + g[c]
  <2>1. Cardinality(Places(f, Clients)) = Cardinality(Places(f, Clients \ {c})) + f[c]
    BY <1>1, <1>2, Split
  <2>2. Cardinality(Places(g, Clients)) = Cardinality(Places(g, Clients \ {c})) + g[c]
    BY <1>1, <1>2, Split
  <2> QED  BY <1>4, <1>6, <2>1, <2>2 DEF Count
<1>10. ASSUME NEW q \in Providers
       PROVE  /\ CountOf(m)[q] = others[q] + Share(clientProvider[c], q, f[c])
              /\ CountOf(m)'[q] = others[q] + Share(p, q, g[c])
  <2>1. Cardinality(Places(f, With(q))) = others[q] + Share(clientProvider[c], q, f[c])
    <3>1. CASE c \in With(q)
      <4>1. Cardinality(Places(f, With(q))) = Cardinality(Places(f, With(q) \ {c})) + f[c]
        BY <1>1, <1>2, <1>8, <3>1, Split
      <4> QED  BY <1>3, <3>1, <4>1 DEF Share
    <3>2. CASE c \notin With(q)
      <4>1. With(q) \ {c} = With(q)
        BY <3>2
      <4>2. others[q] \in Nat /\ Share(clientProvider[c], q, f[c]) = 0
        BY <1>3, <1>7, <1>8, <3>2 DEF Share
      <4> QED  BY <4>1, <4>2
    <3> QED  BY <3>1, <3>2
  <2>2. Cardinality(Places(g, WithAfter(q))) = others[q] + Share(p, q, g[c])
    <3>0. Cardinality(Places(g, WithAfter(q) \ {c})) = others[q]
      <4>1. Places(g, WithAfter(q) \ {c}) = Places(f, With(q) \ {c})
        BY <1>3, <1>6, <1>8
      <4> QED  BY <4>1
    <3>1. CASE c \in WithAfter(q)
      <4>1. Cardinality(Places(g, WithAfter(q))) = Cardinality(Places(g, WithAfter(q) \ {c})) + g[c]
        BY <1>1, <1>2, <1>8, <3>1, Split
      <4>2. Share(p, q, g[c]) = g[c]
        BY <1>3, <3>1 DEF Share
      <4> QED  BY <3>0, <4>1, <4>2
    <3>2. CASE c \notin WithAfter(q)
      <4>1. WithAfter(q) \ {c} = WithAfter(q)
        BY <3>2
      <4>2. others[q] \in Nat
        BY <1>7, <1>8
      <4>3. Share(p, q, g[c]) = 0
        BY <1>3, <3>2 DEF Share
      <4> HIDE DEF others
      <4>4. Cardinality(Places(g, WithAfter(q))) = others[q]
        BY <3>0, <4>1
      <4>5. others[q] + 0 = others[q]
        BY <4>2
      <4> QED  BY <4>3, <4>4, <4>5
    <3> QED  BY <3>1, <3>2
  <2>3. CountOf(m)[q] = Cardinality(Places(f, With(q))) /\ CountOf(m)'[q] = Cardinality(Places(g, WithAfter(q)))
    BY <1>5 DEF CountOf
  <2> QED  BY <2>1, <2>2, <2>3
<1>11. rest \in Nat /\ others \in [Providers -> Nat] /\ \A q \in Providers : others[q] <= rest
  <2>1. rest \in Nat /\ IsFiniteSet(Places(f, Clients \ {c}))
    BY <1>7
  <2>2. ASSUME NEW q \in Providers
        PROVE  Cardinality(Places(f, With(q) \ {c})) \in Nat /\ Cardinality(Places(f, With(q) \ {c})) <= rest
    <3>1. Places(f, With(q) \ {c}) \in SUBSET Places(f, Clients \ {c})
      BY <1>8 DEF Places
    <3> QED  BY <1>7, <1>8, <2>1, <3>1, FS_Subset
  <2> QED  BY <2>1, <2>2
<1> HIDE DEF rest, others
<1> QED  BY <1>2, <1>9, <1>10, <1>11

\* The cached listing.
CacheSound ==
    cache.built => \E b \in 1..now : cache.models = Listed(b) /\ cache.expires = Expires(b)

\* A call has read the clock in the past.
ClocksPast == \A r \in Readers : asOf[r] <= now

\* The inductive invariant of the registry.
RegistryInv == RegistryTypeOK /\ Counted /\ CacheSound /\ ClocksPast

LEMMA NoCacheSound == ASSUME cache' = NoCache PROVE CacheSound'
BY DEF CacheSound, NoCache

LEMMA NoCacheTyped == NoCache \in [built : BOOLEAN, models : SUBSET Models, expires : Nat]
BY DEF NoCache

LEMMA NoListTyped == NoList \in Lists
BY RegistryAssumption DEF RegistrySetting, NoList, Lists

LEMMA CountedTyped ==
    ASSUME Counted, NEW m \in Models
    PROVE  models[m] \in Registration /\ (models[m].count = 0 => models[m] = Absent)
BY DEF Counted, Tallies

\* A step that gives one client another list keeps the invariant if every registration
\* comes out with the new counts.
LEMMA RegistryStep ==
    ASSUME RegistryInv, NEW c \in Clients, NEW p \in Providers \cup {NoProvider}, NEW list \in Lists,
           clientModels' = [clientModels EXCEPT ![c] = list],
           clientProvider' = [clientProvider EXCEPT ![c] = p],
           \A m \in Models : Tallies(models'[m], Count(m)', CountOf(m)'),
           models' = [m \in Models |-> models'[m]],
           cache' = NoCache, UNCHANGED <<now, asOf>>
    PROVE  RegistryInv'
<1>1. \A m \in Models : models'[m] \in Registration /\ (models'[m].count = 0 => models'[m] = Absent)
  BY DEF Tallies
<1>2. RegistryTypeOK'
  BY <1>1, NoCacheTyped DEF RegistryInv, RegistryTypeOK
<1> QED  BY <1>2, NoCacheSound DEF RegistryInv, Counted, ClocksPast

LEMMA UnregisterKeeps == ASSUME RegistryInv, NEW c \in Clients, UnregisterClient(c) PROVE RegistryInv'
<1>1. ASSUME NEW m \in Models PROVE Tallies(models'[m], Count(m)', CountOf(m)')
  <2>0. NoProvider \in Providers \cup {NoProvider} /\ NoList \in Lists /\ RegistryTypeOK
    BY NoListTyped DEF RegistryInv
  <2>1. PICK rest \in Nat : \E others \in [Providers -> Nat] :
               /\ \A q \in Providers : others[q] <= rest
               /\ Count(m) = rest + clientModels[c][m]
               /\ Count(m)' = rest + NoList[m]
               /\ \A q \in Providers : CountOf(m)[q] = others[q] + Share(clientProvider[c], q, clientModels[c][m])
               /\ \A q \in Providers : CountOf(m)'[q] = others[q] + Share(NoProvider, q, NoList[m])
    <3>1. clientModels' = [clientModels EXCEPT ![c] = NoList] /\ clientProvider' = [clientProvider EXCEPT ![c] = NoProvider]
      BY DEF UnregisterClient
    <3> QED  BY <2>0, <3>1, Recount
  <2>2. PICK others \in [Providers -> Nat] :
               /\ \A q \in Providers : others[q] <= rest
               /\ Count(m) = rest + clientModels[c][m]
               /\ Count(m)' = rest + NoList[m]
               /\ \A q \in Providers : CountOf(m)[q] = others[q] + Share(clientProvider[c], q, clientModels[c][m])
               /\ \A q \in Providers : CountOf(m)'[q] = others[q] + Share(NoProvider, q, NoList[m])
    BY <2>1
  <2>3. /\ clientModels[c][m] \in Nat /\ clientProvider[c] \in Providers \cup {NoProvider}
        /\ NoProvider \notin Providers
    BY RegistryAssumption DEF RegistrySetting, RegistryInv, RegistryTypeOK, Lists
  <2>4. Count(m)' = rest /\ \A q \in Providers : CountOf(m)'[q] = others[q]
    <3>1. NoList[m] = 0 /\ \A q \in Providers : Share(NoProvider, q, 0) = 0
      BY DEF NoList, Share
    <3> QED  BY <2>2, <3>1
  <2>5. Tallies(models[m], rest + clientModels[c][m], CountOf(m))
    BY <2>2 DEF RegistryInv, Counted
  <2>6. models[m] \in Registration
    BY CountedTyped DEF RegistryInv
  <2>7. models'[m] = RemoveRegistration(models[m], c, clientProvider[c], clientModels[c][m])
    BY DEF UnregisterClient
  <2>8. Tallies(RemoveRegistration(models[m], c, clientProvider[c], clientModels[c][m]), rest, others)
    BY <2>2, <2>3, <2>5, <2>6, RemovedSays
  <2>9. Tallies(models'[m], Count(m)', others)
    BY <2>4, <2>7, <2>8
  <2> QED  BY <2>4, <2>9 DEF Tallies
<1>2. models' = [m \in Models |-> models'[m]]
  BY DEF UnregisterClient
<1> QED  BY <1>1, <1>2, RegistryStep, NoListTyped DEF UnregisterClient

LEMMA RegisterKeeps ==
    ASSUME RegistryInv, NEW c \in Clients, NEW p \in Providers \cup {NoProvider},
           NEW list \in Lists, RegisterClient(c, p, list)
    PROVE  RegistryInv'
<1>1. ASSUME NEW m \in Models PROVE Tallies(models'[m], Count(m)', CountOf(m)')
  <2>1. PICK rest \in Nat : \E others \in [Providers -> Nat] :
               /\ \A q \in Providers : others[q] <= rest
               /\ Count(m) = rest + clientModels[c][m]
               /\ Count(m)' = rest + list[m]
               /\ \A q \in Providers : CountOf(m)[q] = others[q] + Share(clientProvider[c], q, clientModels[c][m])
               /\ \A q \in Providers : CountOf(m)'[q] = others[q] + Share(p, q, list[m])
    BY Recount DEF RegisterClient, RegistryInv
  <2>2. PICK others \in [Providers -> Nat] :
               /\ \A q \in Providers : others[q] <= rest
               /\ Count(m) = rest + clientModels[c][m]
               /\ Count(m)' = rest + list[m]
               /\ \A q \in Providers : CountOf(m)[q] = others[q] + Share(clientProvider[c], q, clientModels[c][m])
               /\ \A q \in Providers : CountOf(m)'[q] = others[q] + Share(p, q, list[m])
    BY <2>1
  <2>3. /\ clientModels[c][m] \in Nat /\ clientProvider[c] \in Providers \cup {NoProvider}
        /\ list[m] \in Nat /\ NoProvider \notin Providers
    BY RegistryAssumption DEF RegistrySetting, RegistryInv, RegistryTypeOK, Lists
  <2>4. Tallies(models[m], rest + clientModels[c][m], CountOf(m))
    BY <2>2 DEF RegistryInv, Counted
  <2>5. models[m] \in Registration /\ (models[m].count = 0 => models[m] = Absent)
    BY CountedTyped DEF RegistryInv
  <2>6. CASE Known(c)
    <3>1. models'[m] = Reconciled(models[m], c, clientProvider[c], p, clientModels[c][m], list[m])
      BY <2>6 DEF RegisterClient
    <3>2. Tallies(Reconciled(models[m], c, clientProvider[c], p, clientModels[c][m], list[m]), rest + list[m], CountOf(m)')
      BY <2>2, <2>3, <2>4, <2>5, ReconciledSays
    <3> QED  BY <2>2, <3>1, <3>2
  <2>7. CASE ~Known(c)
    <3>1. clientModels[c][m] = 0 /\ \A q \in Providers : Share(clientProvider[c], q, 0) = 0
      BY <2>7 DEF Known, NoList, Share
    <3>2. models[m].count = rest /\ \A q \in Providers : models[m].providers[q] = others[q]
      BY <2>2, <2>3, <2>4, <3>1 DEF Tallies
    <3>3. CASE list[m] > 0
      <4>1. models'[m] = AddRegistration(models[m], p, list[m])
        BY <2>7, <3>3 DEF RegisterClient
      <4>2. /\ AddRegistration(models[m], p, list[m]) \in Registration
            /\ AddRegistration(models[m], p, list[m]).count = rest + list[m]
            /\ \A q \in Providers : AddRegistration(models[m], p, list[m]).providers[q] = others[q] + Share(p, q, list[m])
        BY <2>3, <2>5, <3>2, <3>3, AddSays
      <4>3. rest + list[m] # 0
        BY <2>3, <3>3
      <4> QED  BY <2>2, <4>1, <4>2, <4>3 DEF Tallies
    <3>4. CASE ~(list[m] > 0)
      <4>1. models'[m] = models[m] /\ list[m] = 0
        BY <2>3, <2>7, <3>4 DEF RegisterClient
      <4>2. \A q \in Providers : Share(p, q, 0) = 0
        BY DEF Share
      <4> QED  BY <2>2, <2>5, <3>2, <4>1, <4>2 DEF Tallies
    <3> QED  BY <3>3, <3>4
  <2> QED  BY <2>6, <2>7
<1>2. models' = [m \in Models |-> models'[m]]
  BY DEF RegisterClient
<1> QED  BY <1>1, <1>2, RegistryStep DEF RegisterClient

\* A step that leaves the lists, and each model's count and providers, alone.
LEMMA MarkedKeeps ==
    ASSUME RegistryInv, UNCHANGED <<now, clientModels, clientProvider, asOf>>, cache' = NoCache,
           models' = [m \in Models |-> models'[m]],
           \A m \in Models : /\ models'[m] \in Registration
                             /\ models'[m].count = models[m].count
                             /\ models'[m].providers = models[m].providers
                             /\ models'[m].count = 0 => models'[m] = Absent
    PROVE  RegistryInv'
<1>1. RegistryTypeOK'
  BY NoCacheTyped DEF RegistryInv, RegistryTypeOK
<1>2. ASSUME NEW m \in Models PROVE Tallies(models'[m], Count(m)', CountOf(m)')
  <2>1. Listings(m)' = Listings(m) /\ \A q : ListingsOf(m, q)' = ListingsOf(m, q)
    BY DEF Listings, ListingsOf
  <2>2. Count(m)' = Count(m) /\ CountOf(m)' = CountOf(m)
    BY <2>1 DEF Count, CountOf
  <2>3. Tallies(models[m], Count(m), CountOf(m))
    BY DEF RegistryInv, Counted
  <2> QED  BY <2>2, <2>3 DEF Tallies
<1> QED  BY <1>1, <1>2, NoCacheSound DEF RegistryInv, Counted, ClocksPast

\* Marks of one model leave the counts alone.
LEMMA MarkKeeps ==
    ASSUME RegistryInv, NEW m \in Models, NEW reg \in Registration, reg.count = models[m].count,
           reg.providers = models[m].providers, Mark(m, reg), cache' = NoCache
    PROVE  RegistryInv'
<1>1. models \in [Models -> Registration]
  BY DEF RegistryInv, RegistryTypeOK
<1>2. models' = [models EXCEPT ![m] = reg] /\ models[m].count > 0
  BY DEF Mark
<1>3. ASSUME NEW n \in Models
      PROVE  /\ models'[n] \in Registration
             /\ models'[n].count = models[n].count
             /\ models'[n].providers = models[n].providers
             /\ models'[n].count = 0 => models'[n] = Absent
  <2>1. CASE n = m
    BY <1>1, <1>2, <2>1 DEF Registration
  <2>2. CASE n # m
    BY <1>1, <1>2, <2>2, CountedTyped DEF RegistryInv
  <2> QED  BY <2>1, <2>2
<1>4. models' = [n \in Models |-> models'[n]]
  BY <1>1, <1>2
<1> QED  BY <1>3, <1>4, MarkedKeeps DEF Mark

LEMMA MarksKeep ==
    ASSUME RegistryInv, NEW c \in Clients, NEW m \in Models,
           \/ SetModelQuotaExceeded(c, m)
           \/ ClearModelQuotaExceeded(c, m)
           \/ \E reason \in Reasons \ {"none"} : SuspendClientModel(c, m, reason)
           \/ ResumeClientModel(c, m)
    PROVE  RegistryInv'
<1> DEFINE Exceeded(n) == [models[m] EXCEPT !.exceeded[c] = n]
           Suspended(why) == [models[m] EXCEPT !.suspended[c] = why]
<1>1. models[m] \in Registration /\ now \in Nat
  BY DEF RegistryInv, RegistryTypeOK
<1>2. ASSUME NEW n \in Nat
      PROVE  Exceeded(n) \in Registration /\ Exceeded(n).count = models[m].count /\ Exceeded(n).providers = models[m].providers
  BY <1>1 DEF Registration
<1>3. ASSUME NEW why \in Reasons
      PROVE  Suspended(why) \in Registration /\ Suspended(why).count = models[m].count /\ Suspended(why).providers = models[m].providers
  BY <1>1 DEF Registration
<1>4. SetModelQuotaExceeded(c, m) => Mark(m, Exceeded(now)) /\ cache' = NoCache
  BY DEF SetModelQuotaExceeded
<1>5. ClearModelQuotaExceeded(c, m) => Mark(m, Exceeded(0)) /\ cache' = NoCache
  BY DEF ClearModelQuotaExceeded
<1>6. ASSUME NEW why \in Reasons, SuspendClientModel(c, m, why) PROVE Mark(m, Suspended(why)) /\ cache' = NoCache
  BY <1>6 DEF SuspendClientModel
<1>7. ResumeClientModel(c, m) => Mark(m, Suspended("none")) /\ cache' = NoCache
  BY DEF ResumeClientModel
<1>8. "none" \in Reasons
  BY DEF Reasons
<1> HIDE DEF Exceeded, Suspended
<1>9. CASE SetModelQuotaExceeded(c, m)
  BY <1>1, <1>2, <1>4, <1>9, MarkKeeps
<1>10. CASE ClearModelQuotaExceeded(c, m)
  BY <1>2, <1>5, <1>10, MarkKeeps
<1>11. ASSUME NEW why \in Reasons \ {"none"}, SuspendClientModel(c, m, why) PROVE RegistryInv'
  BY <1>3, <1>6, <1>11, MarkKeeps
<1>12. CASE ResumeClientModel(c, m)
  BY <1>3, <1>7, <1>8, <1>12, MarkKeeps
<1> QED  BY <1>9, <1>10, <1>11, <1>12

LEMMA CleanupKeeps == ASSUME RegistryInv, CleanupExpiredQuotas PROVE RegistryInv'
<1> DEFINE over(m) == {c \in Clients : models[m].exceeded[c] # 0} \ OutOfQuota(models[m], now)
           left(m) == [c \in Clients |-> IF c \in over(m) THEN 0 ELSE models[m].exceeded[c]]
<1>1. models' = [m \in Models |-> [models[m] EXCEPT !.exceeded = left(m)]]
  BY DEF CleanupExpiredQuotas
<1>2. cache' = NoCache /\ UNCHANGED <<now, clientModels, clientProvider, asOf>>
  BY DEF CleanupExpiredQuotas
<1>3. ASSUME NEW m \in Models
      PROVE  /\ left(m) \in [Clients -> Nat]
             /\ models[m] = Absent => left(m) = models[m].exceeded
  <2>1. models[m].exceeded \in [Clients -> Nat]
    BY RegTyped DEF RegistryInv, RegistryTypeOK
  <2>2. ASSUME models[m] = Absent PROVE \A c \in Clients : models[m].exceeded[c] = 0
    BY <2>2 DEF Absent
  <2> QED  BY <2>1, <2>2
<1> HIDE DEF left
<1>4. ASSUME NEW m \in Models
      PROVE  /\ models'[m] \in Registration
             /\ models'[m].count = models[m].count
             /\ models'[m].providers = models[m].providers
             /\ models'[m].count = 0 => models'[m] = Absent
  <2>1. models[m] \in Registration /\ (models[m].count = 0 => models[m] = Absent)
    BY CountedTyped DEF RegistryInv
  <2>2. models'[m] = [models[m] EXCEPT !.exceeded = left(m)]
    BY <1>1
  <2>3. models[m].exceeded = left(m) => models'[m] = models[m]
    BY <2>1, <2>2 DEF Registration
  <2>4. /\ models'[m] \in Registration
        /\ models'[m].count = models[m].count
        /\ models'[m].providers = models[m].providers
    BY <1>3, <2>1, <2>2 DEF Registration
  <2> QED  BY <1>3, <2>1, <2>3, <2>4
<1>5. models' = [m \in Models |-> models'[m]]
  BY <1>1
<1> QED  BY <1>2, <1>4, <1>5, MarkedKeeps

\* The recovery times are finitely many, so that there is a first one.
LEMMA RecoveryTimesTyped ==
    ASSUME RegistryTypeOK, NEW t \in Nat
    PROVE  /\ RecoveryTimes(t) \in SUBSET Nat
           /\ \A m \in Models : \A c \in OutOfQuota(models[m], t) :
                 models[m].exceeded[c] + Window \in RecoveryTimes(t)
           /\ \A w \in RecoveryTimes(t) : t < w
<1>1. \A m \in Models : models[m].exceeded \in [Clients -> Nat]
  BY RegTyped DEF RegistryTypeOK
<1> QED  BY <1>1, RegistryAssumption DEF RegistrySetting, RecoveryTimes, OutOfQuota

LEMMA ExpiresSays ==
    ASSUME RegistryTypeOK, NEW t \in Nat
    PROVE  /\ Expires(t) \in Nat
           /\ Expires(t) = 0 => RecoveryTimes(t) = {}
           /\ \A w \in RecoveryTimes(t) : Expires(t) <= w
<1>1. CASE RecoveryTimes(t) = {}
  BY <1>1 DEF Expires
<1>2. CASE RecoveryTimes(t) # {}
  <2>1. Expires(t) \in RecoveryTimes(t) /\ \A w \in RecoveryTimes(t) : Expires(t) <= w
    BY <1>2, RecoveryTimesTyped, MinOfNaturals DEF Expires
  <2>2. Expires(t) \in Nat /\ t < Expires(t)
    BY <2>1, RecoveryTimesTyped
  <2> QED  BY <2>1, <2>2
<1> QED  BY <1>1, <1>2

LEMMA ListKeeps == ASSUME RegistryInv, NEW r \in Readers, BeginList(r) \/ EndList(r) PROVE RegistryInv'
<1>1. now \in 1..MaxNow /\ asOf \in [Readers -> 0..MaxNow] /\ asOf[r] <= now /\ now \in Nat
  BY DEF RegistryInv, RegistryTypeOK, ClocksPast
<1>2. UNCHANGED <<now, models, clientModels, clientProvider>>
  BY DEF BeginList, EndList
<1>3. Counted'
  <2>1. \A m : Listings(m)' = Listings(m) /\ \A q : ListingsOf(m, q)' = ListingsOf(m, q)
    BY <1>2 DEF Listings, ListingsOf
  <2>2. \A m : Count(m)' = Count(m) /\ CountOf(m)' = CountOf(m)
    BY <2>1 DEF Count, CountOf
  <2> QED  BY <1>2, <2>2 DEF RegistryInv, Counted
<1>4. \A t : Listed(t)' = Listed(t) /\ Expires(t)' = Expires(t)
  BY <1>2 DEF Listed, Expires, RecoveryTimes
<1>5. CASE BeginList(r)
  <2>1. asOf' = [asOf EXCEPT ![r] = now] /\ cache' = cache
    BY <1>5 DEF BeginList
  <2>2. RegistryTypeOK'
    BY <1>1, <1>2, <2>1 DEF RegistryInv, RegistryTypeOK
  <2>3. CacheSound'
    BY <1>2, <1>4, <2>1 DEF RegistryInv, CacheSound
  <2>4. ClocksPast'
    BY <1>1, <1>2, <2>1 DEF RegistryInv, ClocksPast
  <2> QED  BY <1>3, <2>2, <2>3, <2>4 DEF RegistryInv
<1>6. CASE EndList(r)
  <2>1. asOf' = [asOf EXCEPT ![r] = 0] /\ asOf[r] \in 1..now
    BY <1>1, <1>6 DEF EndList
  <2>2. Expires(asOf[r]) \in Nat /\ Listed(asOf[r]) \in SUBSET Models
    BY <2>1, ExpiresSays DEF RegistryInv, Listed
  <2>3. \/ cache' = cache
        \/ cache' = [built |-> TRUE, models |-> Listed(asOf[r]), expires |-> Expires(asOf[r])]
    BY <1>6 DEF EndList
  <2>4. RegistryTypeOK'
    <3>1. cache' \in [built : BOOLEAN, models : SUBSET Models, expires : Nat]
      <4>1. CASE cache' = cache
        BY <4>1 DEF RegistryInv, RegistryTypeOK
      <4>2. CASE cache' = [built |-> TRUE, models |-> Listed(asOf[r]), expires |-> Expires(asOf[r])]
        BY <2>2, <4>2
      <4> QED  BY <2>3, <4>1, <4>2
    <3>2. asOf' \in [Readers -> 0..MaxNow]
      BY <1>1, <2>1, RegistryAssumption DEF RegistrySetting
    <3> QED  BY <1>2, <3>1, <3>2 DEF RegistryInv, RegistryTypeOK
  <2>5. CacheSound'
    <3>1. CASE cache' = cache
      BY <1>2, <1>4, <3>1 DEF RegistryInv, CacheSound
    <3>2. CASE cache' = [built |-> TRUE, models |-> Listed(asOf[r]), expires |-> Expires(asOf[r])]
      <4>1. \E b \in 1..now : b = asOf[r] /\ cache'.models = Listed(b) /\ cache'.expires = Expires(b)
        BY <2>1, <3>2
      <4> QED  BY <1>2, <1>4, <4>1 DEF CacheSound
    <3> QED  BY <2>3, <3>1, <3>2
  <2>6. ClocksPast'
    BY <1>1, <1>2, <2>1 DEF RegistryInv, ClocksPast
  <2> QED  BY <1>3, <2>4, <2>5, <2>6 DEF RegistryInv
<1> QED  BY <1>5, <1>6

LEMMA IdleKeeps == ASSUME RegistryInv, Tick \/ UNCHANGED registryVars PROVE RegistryInv'
<1>1. UNCHANGED <<models, clientModels, clientProvider, cache, asOf>> /\ now' \in 1..MaxNow /\ now' >= now /\ now \in Nat
  BY RegistryAssumption DEF RegistrySetting, Tick, registryVars, RegistryInv, RegistryTypeOK
<1>2. Counted'
  <2>1. \A m : Listings(m)' = Listings(m) /\ \A q : ListingsOf(m, q)' = ListingsOf(m, q)
    BY <1>1 DEF Listings, ListingsOf
  <2>2. \A m : Count(m)' = Count(m) /\ CountOf(m)' = CountOf(m)
    BY <2>1 DEF Count, CountOf
  <2> QED  BY <1>1, <2>2 DEF RegistryInv, Counted
<1>3. RegistryTypeOK'
  BY <1>1 DEF RegistryInv, RegistryTypeOK
<1>4. \A t : Listed(t)' = Listed(t) /\ Expires(t)' = Expires(t)
  BY <1>1 DEF Listed, Expires, RecoveryTimes
<1>5. CacheSound'
  <2>1. \A b \in 1..now : b \in 1..now'
    BY <1>1
  <2> QED  BY <1>1, <1>4, <2>1 DEF RegistryInv, CacheSound
<1>6. ClocksPast'
  <2>1. \A r \in Readers : asOf[r] \in Int
    BY DEF RegistryInv, RegistryTypeOK
  <2> QED  BY <1>1, <2>1 DEF RegistryInv, ClocksPast, RegistryTypeOK
<1> QED  BY <1>2, <1>3, <1>5, <1>6 DEF RegistryInv

LEMMA RegistryInitially == RegistryInit => RegistryInv
<1> SUFFICES ASSUME RegistryInit PROVE RegistryInv
  OBVIOUS
<1>1. RegistryTypeOK
  BY RegistryAssumption, AbsentTyped, NoListTyped, NoCacheTyped
     DEF RegistryInit, RegistrySetting, RegistryTypeOK
<1>2. ASSUME NEW m \in Models PROVE Tallies(models[m], Count(m), CountOf(m))
  <2>1. Listings(m) = {} /\ \A q : ListingsOf(m, q) = {}
    BY DEF RegistryInit, NoList, Listings, ListingsOf
  <2>2. Count(m) = 0 /\ \A q \in Providers : CountOf(m)[q] = 0
    BY <2>1, FS_EmptySet DEF Count, CountOf
  <2> QED  BY <2>2, AbsentTyped DEF RegistryInit, Tallies
<1>3. CacheSound /\ ClocksPast
  BY DEF RegistryInit, CacheSound, ClocksPast, NoCache
<1> QED  BY <1>1, <1>2, <1>3 DEF RegistryInv, Counted

\* Every step of the registry keeps the invariant.
LEMMA RegistryInductive == RegistryInv /\ [RegistryNext]_registryVars => RegistryInv'
<1> SUFFICES ASSUME RegistryInv, [RegistryNext]_registryVars PROVE RegistryInv'
  OBVIOUS
<1>1. CASE Tick \/ UNCHANGED registryVars
  BY <1>1, IdleKeeps
<1>2. CASE \E c \in Clients : UnregisterClient(c)
  BY <1>2, UnregisterKeeps
<1>3. CASE \E c \in Clients, p \in Providers \cup {NoProvider}, list \in Lists : RegisterClient(c, p, list)
  BY <1>3, RegisterKeeps
<1>4. CASE \E c \in Clients, m \in Models :
              \/ SetModelQuotaExceeded(c, m)
              \/ ClearModelQuotaExceeded(c, m)
              \/ \E reason \in Reasons \ {"none"} : SuspendClientModel(c, m, reason)
              \/ ResumeClientModel(c, m)
  BY <1>4, MarksKeep
<1>5. CASE CleanupExpiredQuotas
  BY <1>5, CleanupKeeps
<1>6. CASE \E r \in Readers : BeginList(r) \/ EndList(r)
  BY <1>6, ListKeeps
<1> QED  BY <1>1, <1>2, <1>3, <1>4, <1>5, <1>6 DEF RegistryNext

LEMMA RegistryInvariance == RegistrySpec => []RegistryInv
<1>1. RegistryInit => RegistryInv
  BY RegistryInitially
<1>2. RegistryInv /\ [RegistryNext]_registryVars => RegistryInv'
  BY RegistryInductive
<1> QED  BY <1>1, <1>2, PTL DEF RegistrySpec

\* Registrations, lists, cache and clocks keep their types, for any clients, models,
\* providers and readers.
THEOREM RegistryTypeCorrect == RegistrySpec => []RegistryTypeOK
<1>1. RegistryInv => RegistryTypeOK
  BY DEF RegistryInv
<1> QED  BY <1>1, RegistryInvariance, PTL

\* RegisterClient and UnregisterClient: the count of a model, and that of each of its
\* providers, is the number of times that the lists of the registered clients name it,
\* through every change of lists and providers at once.
THEOREM ListingsCounted == RegistrySpec => []CountsMatchLists
<1>1. RegistryInv => CountsMatchLists
  BY CountedSays DEF RegistryInv
<1> QED  BY <1>1, RegistryInvariance, PTL

\* A listing changes with time only when a quota mark runs out, and it expires then at
\* the latest.
LEMMA SameUntilExpiry ==
    ASSUME RegistryTypeOK, NEW b \in Nat, NEW t \in Nat, b <= t, Expires(b) = 0 \/ t < Expires(b)
    PROVE  Listed(t) = Listed(b)
<1>1. ASSUME NEW m \in Models PROVE OutOfQuota(models[m], t) = OutOfQuota(models[m], b)
  <2>1. \A c \in Clients : models[m].exceeded[c] + Window \in Int
    BY RegTyped, RegistryAssumption DEF RegistrySetting, RegistryTypeOK
  <2>2. ASSUME NEW c \in OutOfQuota(models[m], b) PROVE t < models[m].exceeded[c] + Window
    <3>1. models[m].exceeded[c] + Window \in RecoveryTimes(b)
      BY <2>2, RecoveryTimesTyped
    <3>2. Expires(b) \in Nat /\ Expires(b) # 0 /\ Expires(b) <= models[m].exceeded[c] + Window
      BY <3>1, ExpiresSays
    <3> QED  BY <2>1, <3>2 DEF OutOfQuota
  <2>3. ASSUME NEW c \in OutOfQuota(models[m], t) PROVE b < models[m].exceeded[c] + Window
    BY <2>1 DEF OutOfQuota
  <2> QED  BY <2>2, <2>3 DEF OutOfQuota
<1>2. \A m \in Models : IsListed(models[m], t) <=> IsListed(models[m], b)
  BY <1>1 DEF IsListed
<1> QED  BY <1>2 DEF Listed

\* GetAvailableModels: what a call may be served from the cache is what a fresh listing
\* would have been at some moment of that call.
THEOREM ServedOnTime == RegistrySpec => []ServedIsCurrent
<1>1. RegistryInv => ServedIsCurrent
  <2> SUFFICES ASSUME RegistryInv, NEW r \in Readers, asOf[r] # 0, CacheValid(asOf[r])
               PROVE  \E t \in asOf[r]..now : cache.models = Listed(t)
    BY DEF ServedIsCurrent
  <2>1. asOf[r] \in 1..now /\ now \in Nat
    BY DEF RegistryInv, RegistryTypeOK, ClocksPast
  <2>2. PICK b \in 1..now : cache.models = Listed(b) /\ cache.expires = Expires(b)
    BY DEF RegistryInv, CacheSound, CacheValid
  <2>3. CASE b >= asOf[r]
    BY <2>1, <2>2, <2>3
  <2>4. CASE b < asOf[r]
    <3>1. Listed(asOf[r]) = Listed(b)
      BY <2>1, <2>2, <2>4, SameUntilExpiry DEF RegistryInv, CacheValid
    <3> QED  BY <2>1, <2>2, <3>1
  <2> QED  BY <2>1, <2>3, <2>4
<1> QED  BY <1>1, RegistryInvariance, PTL

\* If whoever lists the model is suspended for another reason than quota, they are no fewer
\* than its count, so that it is not listed.
LEMMA AllHeld ==
    ASSUME RegistryInv, NEW m \in Models, \A c \in Clients : clientModels[c][m] <= 1,
           \A c \in Clients : clientModels[c][m] > 0 => models[m].suspended[c] = "other"
    PROVE  /\ models[m].count \in Nat
           /\ Cardinality(Held(models[m], "other")) \in Nat
           /\ models[m].count <= Cardinality(Held(models[m], "other"))
<1> DEFINE H == Held(models[m], "other")
           g == [l \in Listings(m) |-> l[1]]
<1>1. IsFiniteSet(H) /\ Cardinality(H) \in Nat
  <2>1. H \in SUBSET Clients
    BY DEF Held
  <2> QED  BY <2>1, RegistryAssumption, FS_Subset, FS_CardinalityType DEF RegistrySetting
<1>2. models[m].count = Cardinality(Listings(m))
  BY DEF RegistryInv, Counted, Tallies, Count
<1>3. \A c \in Clients : clientModels[c][m] \in 0..1
  BY RegistryAssumption DEF RegistrySetting, RegistryInv, RegistryTypeOK, Lists
<1>4. ASSUME NEW l \in Listings(m) PROVE l[1] \in H /\ l = <<l[1], 1>>
  <2>1. l[1] \in Clients /\ l[2] \in Int /\ 1 <= l[2] /\ l[2] <= clientModels[l[1]][m] /\ l = <<l[1], l[2]>>
    BY RegistryAssumption DEF RegistrySetting, Listings
  <2> QED  BY <1>3, <2>1 DEF Held
<1>5. g \in Injection(Listings(m), H)
  <2>1. g \in [Listings(m) -> H]
    BY <1>4
  <2>2. \A k, l \in Listings(m) : g[k] = g[l] => k = l
    BY <1>4
  <2> HIDE DEF g, H
  <2> QED  BY <2>1, <2>2 DEF Injection, IsInjective
<1>6. models[m].count \in Nat
  BY RegTyped DEF RegistryInv, RegistryTypeOK
<1> HIDE DEF g, H
<1>7. Cardinality(Listings(m)) <= Cardinality(H)
  BY <1>1, <1>5, FS_Injection
<1> QED  BY <1>1, <1>2, <1>6, <1>7 DEF H

\* GetAvailableModels: as long as no list names it twice, a model is listed only if one of
\* the clients that list it is not suspended for anything but its quota.
THEOREM ListedProspects == RegistrySpec => []ListedHasProspect
<1>1. RegistryInv => ListedHasProspect
  <2> SUFFICES ASSUME RegistryInv, NEW m \in Models, IsListed(models[m], now),
                      \A c \in Clients : clientModels[c][m] <= 1,
                      ~ \E c \in Clients : clientModels[c][m] > 0 /\ models[m].suspended[c] # "other"
               PROVE  FALSE
    BY DEF ListedHasProspect, Listed
  <2>1. /\ models[m].count \in Nat
        /\ Cardinality(Held(models[m], "other")) \in Nat
        /\ models[m].count <= Cardinality(Held(models[m], "other"))
    BY AllHeld
  <2>2. Cardinality(OutOfQuota(models[m], now)) \in Nat
    <3>1. OutOfQuota(models[m], now) \in SUBSET Clients
      BY DEF OutOfQuota
    <3> QED  BY <3>1, RegistryAssumption, FS_Subset, FS_CardinalityType DEF RegistrySetting
  <2> QED  BY <2>1, <2>2 DEF IsListed
<1> QED  BY <1>1, RegistryInvariance, PTL
==============================================================================
