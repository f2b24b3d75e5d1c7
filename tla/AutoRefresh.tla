----------------------------- MODULE AutoRefresh -----------------------------
(***************************************************************************)
(* authAutoRefreshLoop: one goroutine keeps the credentials in a heap by   *)
(* the time of their next check, hands those that are due to workers over  *)
(* a bounded channel, and takes them up again when somebody marks them     *)
(* dirty.  Workers run refreshAuth; updates of the service and results of  *)
(* requests change the records meanwhile.                                  *)
(*                                                                         *)
(* Times are reduced to "has come" or not: of the record's                 *)
(* NextRefreshAfter (gated), of its token's lead (wants), and of a heap    *)
(* entry.  Only the loop touches the heap, so its timer always stands for  *)
(* the heap's first entry.  Credentials are known from the start, and are  *)
(* of a provider whose tokens are refreshed.                               *)
(***************************************************************************)
EXTENDS Naturals, Sequences, FiniteSets

CONSTANTS
    Auths,    \* credential IDs
    Workers,  \* refreshMaxConcurrency, 16
    JobCap,   \* capacity of l.jobs, at least 64
    NoAuth    \* no credential

ASSUME RefreshAssumption == NoAuth \notin Auths /\ JobCap \in Nat \ {0}

VARIABLES
    wants,     \* the token is inside its lead
    gated,     \* NextRefreshAfter is in the future
    rejected,  \* LastError is a 401: hasUnauthorizedAuthFailure
    updated,   \* updates that have yet to reach queueRefreshReschedule
    heap,      \* l.queue and l.index
    dirty,     \* l.dirty
    wake,      \* a token is in l.wakeCh
    loop,      \* the loop: popped or drained IDs, and the one it works on
    jobs,      \* l.jobs
    worker     \* the workers

recordVars == <<wants, gated, rejected>>
refreshVars == <<recordVars, updated, heap, dirty, wake, loop, jobs, worker>>

LoopState == [pc : {"due", "mark", "recheck", "send", "drain", "apply"},
              list : SUBSET Auths, hand : Auths \cup {NoAuth}]
WorkerState == [pc : {"idle", "refresh", "requeue"}, id : Auths \cup {NoAuth}]
Idle == [pc |-> "idle", id |-> NoAuth]

RefreshTypeOK ==
    /\ wants \in [Auths -> BOOLEAN]
    /\ gated \in [Auths -> BOOLEAN]
    /\ rejected \in [Auths -> BOOLEAN]
    /\ updated \in SUBSET Auths
    /\ heap \in [Auths -> {"out", "waiting", "due"}]
    /\ dirty \in SUBSET Auths
    /\ wake \in BOOLEAN
    /\ loop \in LoopState
    /\ jobs \in Seq(Auths) /\ Len(jobs) <= JobCap
    /\ worker \in [Workers -> WorkerState]

\* nextRefreshCheckAt, as the place in the heap that the loop gives it.
NextCheck(a) ==
    IF rejected[a] THEN "out" ELSE IF wants[a] /\ ~gated[a] THEN "due" ELSE "waiting"

\* shouldRefresh
ShouldRefresh(a) == wants[a] /\ ~gated[a] /\ ~rejected[a]

\* rebuild has run on freshly loaded records.
RefreshInit ==
    /\ wants \in [Auths -> BOOLEAN]
    /\ gated = [a \in Auths |-> FALSE]
    /\ rejected = [a \in Auths |-> FALSE]
    /\ updated = {}
    /\ heap = [a \in Auths |-> NextCheck(a)]
    /\ dirty = {}
    /\ wake = FALSE
    /\ loop = [pc |-> "apply", list |-> {}, hand |-> NoAuth]
    /\ jobs = <<>>
    /\ worker = [w \in Workers |-> Idle]

(***************************************************************************)
(* The loop.                                                               *)
(***************************************************************************)

\* Wrong forms, each next to the definition it distorts: a property that still
\* holds with one of them in place says nothing about the code.
RescheduleSilently(a) ==
    /\ dirty' = dirty \cup {a}
    /\ wake' = wake

\* queueReschedule
Reschedule(a) ==
    /\ dirty' = dirty \cup {a}
    /\ wake' = TRUE

LoopAt(pc) == loop.pc = pc

\* The IDs it went through are done with, and it blocks in its select.
Selecting == LoopAt("apply") /\ loop.list = {}

\* upsert, or remove if the record is out of the schedule.
Place(a) == heap' = [heap EXCEPT ![a] = NextCheck(a)]

Wake ==
    /\ Selecting
    /\ wake
    /\ wake' = FALSE
    /\ loop' = [loop EXCEPT !.pc = "drain"]
    /\ UNCHANGED <<recordVars, updated, heap, dirty, jobs, worker>>

\* The timer fires: popDue.
PopDue ==
    LET due == {a \in Auths : heap[a] = "due"}
    IN  /\ Selecting
        /\ due # {}
        /\ heap' = [a \in Auths |-> IF a \in due THEN "out" ELSE heap[a]]
        /\ loop' = [loop EXCEPT !.pc = "due", !.list = due]
        /\ UNCHANGED <<recordVars, updated, dirty, wake, jobs, worker>>

CheckDueDrops(a) ==
    /\ LoopAt("due")
    /\ a \in loop.list
    /\ heap' = heap
    /\ loop' = [loop EXCEPT !.list = @ \ {a}, !.hand = IF ShouldRefresh(a) THEN a ELSE NoAuth,
                            !.pc = IF ShouldRefresh(a) THEN "mark" ELSE "due"]
    /\ UNCHANGED <<recordVars, updated, dirty, wake, jobs, worker>>

\* handleDueAuth looks at the record under a read lock ...
CheckDue(a) ==
    /\ LoopAt("due")
    /\ a \in loop.list
    /\ IF ShouldRefresh(a)
       THEN /\ heap' = heap
            /\ loop' = [pc |-> "mark", list |-> loop.list \ {a}, hand |-> a]
       ELSE /\ Place(a)
            /\ loop' = [loop EXCEPT !.list = @ \ {a}]
    /\ UNCHANGED <<recordVars, updated, dirty, wake, jobs, worker>>

\* ... and markRefreshPending looks at the gate once more before it shuts it.
MarkRefreshPending ==
    LET a == loop.hand
    IN  /\ LoopAt("mark")
        /\ IF gated[a]
           THEN /\ loop' = [loop EXCEPT !.pc = "recheck"]
                /\ UNCHANGED <<gated, dirty, wake>>
           ELSE /\ gated' = [gated EXCEPT ![a] = TRUE]
                /\ Reschedule(a)
                /\ loop' = [loop EXCEPT !.pc = "send"]
        /\ UNCHANGED <<wants, rejected, updated, heap, jobs, worker>>

Recheck ==
    /\ LoopAt("recheck")
    /\ Place(loop.hand)
    /\ loop' = [loop EXCEPT !.pc = "due", !.hand = NoAuth]
    /\ UNCHANGED <<recordVars, updated, dirty, wake, jobs, worker>>

\* The loop blocks while the channel is full.
SendJob ==
    /\ LoopAt("send")
    /\ Len(jobs) < JobCap
    /\ jobs' = Append(jobs, loop.hand)
    /\ loop' = [loop EXCEPT !.pc = "due", !.hand = NoAuth]
    /\ UNCHANGED <<recordVars, updated, heap, dirty, wake, worker>>

DrainDirty ==
    /\ LoopAt("drain") \/ (LoopAt("due") /\ loop.list = {})
    /\ dirty' = {}
    /\ loop' = [loop EXCEPT !.pc = "apply", !.list = dirty]
    /\ UNCHANGED <<recordVars, updated, heap, wake, jobs, worker>>

\* applyDirty, for one of the drained IDs.
ApplyDirty(a) ==
    /\ LoopAt("apply")
    /\ a \in loop.list
    /\ Place(a)
    /\ loop' = [loop EXCEPT !.list = @ \ {a}]
    /\ UNCHANGED <<recordVars, updated, dirty, wake, jobs, worker>>

Loop == \/ Wake \/ PopDue \/ MarkRefreshPending \/ Recheck \/ SendJob \/ DrainDirty
        \/ \E a \in Auths : CheckDue(a) \/ ApplyDirty(a)

(***************************************************************************)
(* Workers: refreshAuth, then queueReschedule.                             *)
(***************************************************************************)

TakeJob(w) ==
    /\ worker[w].pc = "idle"
    /\ jobs # <<>>
    /\ worker' = [worker EXCEPT ![w] = [pc |-> "refresh", id |-> Head(jobs)]]
    /\ jobs' = Tail(jobs)
    /\ UNCHANGED <<recordVars, updated, heap, dirty, wake, loop>>

\* A 401 opens the gate, any other error shuts it for a while.
RefreshFails(w, unauthorized) ==
    LET a == worker[w].id
    IN  /\ worker[w].pc = "refresh"
        /\ rejected' = [rejected EXCEPT ![a] = unauthorized]
        /\ gated' = [gated EXCEPT ![a] = ~unauthorized]
        /\ worker' = [worker EXCEPT ![w].pc = "requeue"]
        /\ UNCHANGED <<wants, updated, heap, dirty, wake, loop, jobs>>

\* A refresh that leaves the token inside its lead (refreshIneffectiveBackoff) shuts
\* the gate.
RefreshSucceeds(w, ineffective) ==
    LET a == worker[w].id
    IN  /\ worker[w].pc = "refresh"
        /\ wants' = [wants EXCEPT ![a] = ineffective]
        /\ gated' = [gated EXCEPT ![a] = ineffective]
        /\ rejected' = [rejected EXCEPT ![a] = FALSE]
        /\ worker' = [worker EXCEPT ![w].pc = "requeue"]
        /\ UNCHANGED <<updated, heap, dirty, wake, loop, jobs>>

RequeueRefreshed(w) ==
    /\ worker[w].pc = "requeue"
    /\ Reschedule(worker[w].id)
    /\ worker' = [worker EXCEPT ![w] = Idle]
    /\ UNCHANGED <<recordVars, updated, heap, loop, jobs>>

Work(w) ==
    \/ TakeJob(w)
    \/ \E flag \in BOOLEAN : RefreshFails(w, flag) \/ RefreshSucceeds(w, flag)
    \/ RequeueRefreshed(w)

(***************************************************************************)
(* The others.                                                             *)
(***************************************************************************)

\* Register or Update with a record from elsewhere; its gate is that of an older copy.
Update(a) ==
    /\ a \notin updated
    /\ \E want, gate \in BOOLEAN : /\ wants' = [wants EXCEPT ![a] = want]
                                   /\ gated' = [gated EXCEPT ![a] = gate]
    /\ rejected' = [rejected EXCEPT ![a] = FALSE]
    /\ updated' = updated \cup {a}
    /\ UNCHANGED <<heap, dirty, wake, loop, jobs, worker>>

RequeueUpdated(a) ==
    /\ a \in updated
    /\ Reschedule(a)
    /\ updated' = updated \ {a}
    /\ UNCHANGED <<recordVars, heap, loop, jobs, worker>>

\* MarkResult sets and clears LastError, and reschedules nothing.
MarkResult(a, unauthorized) ==
    /\ rejected[a] # unauthorized
    /\ rejected' = [rejected EXCEPT ![a] = unauthorized]
    /\ UNCHANGED <<wants, gated, updated, heap, dirty, wake, loop, jobs, worker>>

LeadBegins(a) ==
    /\ ~wants[a]
    /\ wants' = [wants EXCEPT ![a] = TRUE]
    /\ UNCHANGED <<gated, rejected, updated, heap, dirty, wake, loop, jobs, worker>>

GateOpens(a) ==
    /\ gated[a]
    /\ gated' = [gated EXCEPT ![a] = FALSE]
    /\ UNCHANGED <<wants, rejected, updated, heap, dirty, wake, loop, jobs, worker>>

EntryFallsDue(a) ==
    /\ heap[a] = "waiting"
    /\ heap' = [heap EXCEPT ![a] = "due"]
    /\ UNCHANGED <<recordVars, updated, dirty, wake, loop, jobs, worker>>

RefreshNext ==
    \/ Loop
    \/ \E w \in Workers : Work(w)
    \/ \E a \in Auths :
           \/ Update(a) \/ RequeueUpdated(a)
           \/ \E flag \in BOOLEAN : MarkResult(a, flag)
           \/ LeadBegins(a) \/ GateOpens(a) \/ EntryFallsDue(a)

RefreshSpec == RefreshInit /\ [][RefreshNext]_refreshVars

\* Goroutines with work get to run, refreshes end, and deadlines pass.  The loop's
\* select and the order in which it goes through its lists are up to chance.
RefreshFairness ==
    /\ WF_refreshVars(Loop)
    /\ \A w \in Workers : WF_refreshVars(Work(w))
    /\ \A a \in Auths : /\ WF_refreshVars(RequeueUpdated(a))
                        /\ SF_refreshVars(GateOpens(a))
                        /\ WF_refreshVars(EntryFallsDue(a))
    /\ SF_refreshVars(PopDue) /\ SF_refreshVars(Wake)

RefreshFairSpec == RefreshSpec /\ RefreshFairness

(***************************************************************************)
(* Properties.                                                             *)
(***************************************************************************)

Refreshing(a) == \E w \in Workers : worker[w].id = a /\ worker[w].pc = "refresh"

\* Somebody will come back to the credential.
Tracked(a) ==
    \/ heap[a] # "out"
    \/ a \in dirty \cup updated \cup loop.list
    \/ loop.hand = a
    \/ \E i \in DOMAIN jobs : jobs[i] = a
    \/ \E w \in Workers : worker[w].id = a

\* Whatever the loop, the workers and updates do in between, a credential falls out
\* of the schedule only because the loop has seen a rejection on its record.
DropsOnlyRejected ==
    [][\A a \in Auths : (Tracked(a) /\ ~Tracked(a)') => rejected[a]]_refreshVars

\* From some time on the credential requires a refresh, and no update touches it.
Requires(a) == wants[a] /\ ~rejected[a] /\ a \notin updated

\* A credential that goes on requiring a refresh gets one, again and again, as long as
\* it has not been dropped: neither a full channel nor a lost wake-up nor the gate
\* keeps it waiting for ever.
RefreshedWhileTracked ==
    \A a \in Auths : <>[](Requires(a) /\ Tracked(a)) => []<>Refreshing(a)

\* The loop triggers a refresh of every credential that requires one, as a comment of the
\* code says: not so, as RefreshForgotten.cfg shows.
RefreshedWhenRequired == \A a \in Auths : <>[]Requires(a) => []<>Refreshing(a)
=============================================================================
