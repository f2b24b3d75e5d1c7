----------------------------- MODULE UsageHistory -----------------------------
(***************************************************************************)
(* The way of a usage record from the request that produced it to the      *)
(* history database: usage.Manager queues it, the manager's dispatcher     *)
(* hands it to the history plugin, whose Writer queues it again, and the   *)
(* writer's goroutine inserts batches.  At the end Service.Shutdown stops  *)
(* the manager and main stops the writer, while all of this still runs.    *)
(*                                                                         *)
(* A record stands for its event ID, on which the database ignores a       *)
(* second insert.  The writer is started with context.Background, so only  *)
(* Stop ends it.                                                           *)
(***************************************************************************)
EXTENDS Naturals, Sequences, SequencesExt

CONSTANTS
    Records,    \* usage records; a request of its own publishes each
    BatchSize,  \* w.batchSize
    Attempts    \* attempts of flushFinal: 3

ASSUME UsageAssumption == BatchSize \in Nat \ {0} /\ Attempts \in Nat \ {0}

VARIABLES
    publisher,    \* where the publisher of each record is
    pending,      \* Manager.queue
    closed,       \* Manager.closed
    dispatcher,   \* Manager.run
    accepted,     \* history: the records for which Writer.Write returned true
    writerQueue,  \* Writer.queue
    sealed,       \* Writer.closed
    done,         \* Writer.done is closed
    wake,         \* a token is in Writer.wakeCh
    writer,       \* Writer.run
    stored,       \* the rows of the database
    degraded,     \* the degrade hook was called
    shutdown      \* where Shutdown and main's deferred calls are

managerVars == <<publisher, pending, closed, dispatcher>>
writerVars == <<accepted, writerQueue, sealed, done, wake>>
flushVars == <<writer, stored, degraded>>
historyVars == <<managerVars, writerVars, flushVars, shutdown>>

Dispatching == [pc : {"run", "waiting", "write", "signal", "ended"},
                item : Seq(Records)]
Writing == [pc : {"select", "fill", "flush", "flush_tick", "final", "ended"},
            batch : Seq(Records), attempt : 0..Attempts]

HistoryTypeOK ==
    /\ publisher \in [Records -> {"new", "signal", "done"}]
    /\ pending \in Seq(Records)
    /\ closed \in BOOLEAN
    /\ dispatcher \in Dispatching
    /\ accepted \in SUBSET Records
    /\ writerQueue \in Seq(Records)
    /\ sealed \in BOOLEAN
    /\ done \in BOOLEAN
    /\ wake \in BOOLEAN
    /\ writer \in Writing
    /\ stored \in SUBSET Records
    /\ degraded \in BOOLEAN
    /\ shutdown \in {"serving", "broadcast", "seal", "close", "wait", "exited"}

HistoryInit ==
    /\ publisher = [r \in Records |-> "new"]
    /\ pending = <<>>
    /\ closed = FALSE
    /\ dispatcher = [pc |-> "run", item |-> <<>>]
    /\ accepted = {}
    /\ writerQueue = <<>>
    /\ sealed = FALSE
    /\ done = FALSE
    /\ wake = FALSE
    /\ writer = [pc |-> "select", batch |-> <<>>, attempt |-> 0]
    /\ stored = {}
    /\ degraded = FALSE
    /\ shutdown = "serving"

\* After the process has exited nothing runs.
Alive == shutdown # "exited"

(***************************************************************************)
(* usage.Manager                                                           *)
(***************************************************************************)

\* Publish appends under the lock, unless the manager is closed ...
Publish(r) ==
    /\ Alive
    /\ publisher[r] = "new"
    /\ IF closed
       THEN /\ publisher' = [publisher EXCEPT ![r] = "done"]
            /\ pending' = pending
       ELSE /\ publisher' = [publisher EXCEPT ![r] = "signal"]
            /\ pending' = Append(pending, r)
    /\ UNCHANGED <<closed, dispatcher, writerVars, flushVars, shutdown>>

\* Wrong forms, each next to the definition it distorts: a property that still
\* holds with one of them in place says nothing about the code.
SignalNobody(r) ==
    /\ Alive
    /\ publisher[r] = "signal"
    /\ publisher' = [publisher EXCEPT ![r] = "done"]
    /\ UNCHANGED <<pending, closed, dispatcher, writerVars, flushVars, shutdown>>

WakeDispatcher ==
    dispatcher' = IF dispatcher.pc = "waiting" THEN [dispatcher EXCEPT !.pc = "run"] ELSE dispatcher

\* ... and signals the condition after it has let go of the lock.
Signal(r) ==
    /\ Alive
    /\ publisher[r] = "signal"
    /\ publisher' = [publisher EXCEPT ![r] = "done"]
    /\ WakeDispatcher
    /\ UNCHANGED <<pending, closed, writerVars, flushVars, shutdown>>

\* One critical section of Manager.run: wait, take an item, or end.
Take ==
    /\ Alive
    /\ dispatcher.pc = "run"
    /\ IF pending # <<>>
       THEN /\ dispatcher' = [pc |-> "write", item |-> <<Head(pending)>>]
            /\ pending' = Tail(pending)
       ELSE /\ dispatcher' = [dispatcher EXCEPT !.pc = IF closed THEN "ended" ELSE "waiting"]
            /\ pending' = pending
    /\ UNCHANGED <<publisher, closed, writerVars, flushVars, shutdown>>

(***************************************************************************)
(* Writer.Write, called by the dispatcher through the history plugin.      *)
(***************************************************************************)

Write ==
    /\ Alive
    /\ dispatcher.pc = "write"
    /\ IF sealed
       THEN /\ dispatcher' = [pc |-> "run", item |-> <<>>]
            /\ UNCHANGED <<writerQueue, accepted>>
       ELSE /\ dispatcher' = [dispatcher EXCEPT !.pc = "signal"]
            /\ writerQueue' = writerQueue \o dispatcher.item
            /\ accepted' = accepted \cup Range(dispatcher.item)
    /\ UNCHANGED <<publisher, pending, closed, sealed, done, wake, flushVars, shutdown>>

\* The wake-up never blocks: a token that is already there is enough.
WakeWriter ==
    /\ Alive
    /\ dispatcher.pc = "signal"
    /\ wake' = TRUE
    /\ dispatcher' = [pc |-> "run", item |-> <<>>]
    /\ UNCHANGED <<publisher, pending, closed, accepted, writerQueue, sealed, done, flushVars, shutdown>>

(***************************************************************************)
(* Writer.run                                                              *)
(***************************************************************************)

\* drainLocked tops the batch up; a batch that failed before is kept.
Room == LET n == BatchSize - Len(writer.batch) IN IF Len(writerQueue) < n THEN Len(writerQueue) ELSE n
Topped == writer.batch \o SubSeq(writerQueue, 1, Room)
Remaining == SubSeq(writerQueue, Room + 1, Len(writerQueue))

MoveIntoBatch(pc) ==
    /\ writer' = [writer EXCEPT !.batch = Topped, !.pc = pc]
    /\ writerQueue' = Remaining

TakeTickWhenQueued ==
    /\ Alive
    /\ writer.pc = "select"
    /\ writerQueue # <<>>
    /\ MoveIntoBatch("flush_tick")
    /\ UNCHANGED <<managerVars, accepted, sealed, done, wake, stored, degraded, shutdown>>

\* The ticker fires and there is something to flush.
TakeTick ==
    /\ Alive
    /\ writer.pc = "select"
    /\ Topped # <<>>
    /\ MoveIntoBatch("flush_tick")
    /\ UNCHANGED <<managerVars, accepted, sealed, done, wake, stored, degraded, shutdown>>

TakeWake ==
    /\ Alive
    /\ writer.pc = "select"
    /\ wake
    /\ wake' = FALSE
    /\ writer' = [writer EXCEPT !.pc = "fill"]
    /\ UNCHANGED <<managerVars, accepted, writerQueue, sealed, done, stored, degraded, shutdown>>

\* After a wake-up only full batches are flushed.
Fill ==
    /\ Alive
    /\ writer.pc = "fill"
    /\ MoveIntoBatch(IF Len(Topped) < BatchSize THEN "select" ELSE "flush")
    /\ UNCHANGED <<managerVars, accepted, sealed, done, wake, stored, degraded, shutdown>>

Insert == stored' = stored \cup Range(writer.batch)

FlushSucceeds ==
    /\ Alive
    /\ writer.pc \in {"flush", "flush_tick"}
    /\ Insert
    /\ writer' = [writer EXCEPT !.batch = <<>>,
                                !.pc = IF writer.pc = "flush" THEN "fill" ELSE "select"]
    /\ UNCHANGED <<managerVars, writerVars, degraded, shutdown>>

FlushFailsAndForgets ==
    /\ Alive
    /\ writer.pc \in {"flush", "flush_tick"}
    /\ writer' = [writer EXCEPT !.batch = <<>>, !.pc = "select"]
    /\ UNCHANGED <<managerVars, writerVars, stored, degraded, shutdown>>

\* An insert that is reported as failed (a timeout) may have been committed.
FlushFails ==
    /\ Alive
    /\ writer.pc \in {"flush", "flush_tick"}
    /\ Insert \/ stored' = stored
    /\ writer' = [writer EXCEPT !.pc = "select"]
    /\ UNCHANGED <<managerVars, writerVars, degraded, shutdown>>

\* done is closed: everything goes into one last batch.
TakeDone ==
    /\ Alive
    /\ writer.pc = "select"
    /\ done
    /\ writerQueue' = <<>>
    /\ writer' = [writer EXCEPT !.batch = @ \o writerQueue,
                                !.pc = IF writer.batch \o writerQueue = <<>> THEN "ended" ELSE "final"]
    /\ UNCHANGED <<managerVars, accepted, sealed, done, wake, stored, degraded, shutdown>>

\* flushFinal
FinalFlushSucceeds ==
    /\ Alive
    /\ writer.pc = "final"
    /\ Insert
    /\ writer' = [writer EXCEPT !.batch = <<>>, !.pc = "ended"]
    /\ UNCHANGED <<managerVars, writerVars, degraded, shutdown>>

FinalFlushRetries ==
    /\ Alive
    /\ writer.pc = "final"
    /\ Insert \/ stored' = stored
    /\ writer' = [writer EXCEPT !.attempt = (@ + 1) % Attempts]
    /\ UNCHANGED <<managerVars, writerVars, degraded, shutdown>>

FinalFlushForgets ==
    LET attempt == writer.attempt + 1
    IN  /\ Alive
        /\ writer.pc = "final"
        /\ Insert \/ stored' = stored
        /\ writer' = [writer EXCEPT !.attempt = attempt,
                                    !.pc = IF attempt = Attempts THEN "ended" ELSE "final"]
        /\ UNCHANGED <<managerVars, writerVars, degraded, shutdown>>

FinalFlushFails ==
    LET attempt == writer.attempt + 1
    IN  /\ Alive
        /\ writer.pc = "final"
        /\ Insert \/ stored' = stored
        /\ writer' = [writer EXCEPT !.attempt = attempt,
                                    !.pc = IF attempt = Attempts THEN "ended" ELSE "final"]
        /\ degraded' = (degraded \/ attempt = Attempts)
        /\ UNCHANGED <<managerVars, writerVars, shutdown>>

(***************************************************************************)
(* The end: usage.StopDefault, then Writer.Stop, then the process exits.   *)
(* The store is closed between the last two, when nobody uses it any more. *)
(***************************************************************************)

Step(from, to) == shutdown = from /\ shutdown' = to

CloseManager ==
    /\ Step("serving", "broadcast")
    /\ closed' = TRUE
    /\ UNCHANGED <<publisher, pending, dispatcher, writerVars, flushVars>>

Broadcast ==
    /\ Step("broadcast", "seal")
    /\ WakeDispatcher
    /\ UNCHANGED <<publisher, pending, closed, writerVars, flushVars>>

SealWriter ==
    /\ Step("seal", "close")
    /\ sealed' = TRUE
    /\ UNCHANGED <<managerVars, accepted, writerQueue, done, wake, flushVars>>

CloseDone ==
    /\ Step("close", "wait")
    /\ done' = TRUE
    /\ UNCHANGED <<managerVars, accepted, writerQueue, sealed, wake, flushVars>>

Exit ==
    /\ Step("wait", "exited")
    /\ writer.pc = "ended"
    /\ UNCHANGED <<managerVars, writerVars, flushVars>>

Shutdown == Broadcast \/ SealWriter \/ CloseDone \/ Exit
DispatcherStep == Take \/ Write \/ WakeWriter
Run == TakeTick \/ TakeWake \/ Fill \/ FlushSucceeds \/ FlushFails \/ TakeDone
       \/ FinalFlushSucceeds \/ FinalFlushFails

HistoryNext ==
    \/ \E r \in Records : Publish(r) \/ Signal(r)
    \/ DispatcherStep
    \/ Run
    \/ CloseManager
    \/ Shutdown

HistorySpec == HistoryInit /\ [][HistoryNext]_historyVars

\* Goroutines that can run do; select chooses at random among the ready cases, so
\* it passes over none of them for ever; and the database is not down for ever.
\* Nothing forces requests to arrive or the process to end.
HistoryFairness ==
    /\ \A r \in Records : WF_historyVars(Signal(r))
    /\ WF_historyVars(DispatcherStep)
    /\ WF_historyVars(Run)
    /\ SF_historyVars(TakeTick)
    /\ SF_historyVars(TakeDone)
    /\ SF_historyVars(FlushSucceeds)
    /\ WF_historyVars(Shutdown)

HistoryFairSpec == HistorySpec /\ HistoryFairness

(***************************************************************************)
(* Properties.                                                             *)
(***************************************************************************)

\* Through failed flushes, late writes and the final drain, a record the writer has
\* accepted is stored or still in its hands; once the writer has ended, whatever is
\* not stored has the backend marked as degraded, so that nobody takes the history
\* for complete.
AcceptedIsKept ==
    IF writer.pc = "ended"
    THEN degraded \/ accepted \subseteq stored
    ELSE accepted \subseteq stored \cup Range(writerQueue) \cup Range(writer.batch)

\* Dispatcher, queue, batches and flushes together do what the writer promises: they
\* store what was accepted, nothing else, and stop with all of it or degraded.
Pipeline == INSTANCE UsagePipeline WITH over <- (writer.pc = "ended")
ImplementsPipeline == Pipeline!Spec

\* No wake-up of the dispatcher is lost: a published record is taken up, or the
\* process ends.
PublishedIsDispatched ==
    \A r \in Records : r \in Range(pending) ~> (r \notin Range(pending) \/ ~Alive)

\* A record the writer has accepted gets stored, also one that was in a batch that
\* failed, whether or not more records or a shutdown follow.
AcceptedIsStored ==
    \A r \in Records : r \in accepted ~> (r \in stored \/ degraded)

\* A shutdown ends: neither the dispatcher nor a failing database keeps the writer's
\* Stop waiting for ever.
ShutdownEnds == (shutdown = "broadcast") ~> ~Alive
=============================================================================
