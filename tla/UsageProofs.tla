----------------------------- MODULE UsageProofs -----------------------------
(***************************************************************************)
(* Proofs about the usage records: the history writer, which stores them,  *)
(* and the usage queue, which tells them to subscribers or keeps them for  *)
(* readers. The two components share no name; nothing proved of one is     *)
(* used for the other.                                                     *)
(***************************************************************************)
EXTENDS UsageHistory, UsageQueue, FiniteOrder, SequenceTheorems, FiniteSetTheorems, TLAPS

(***************************************************************************)
(* UsageHistory: what the writer accepts is kept, and dispatcher, queues,  *)
(* batches and flushes implement the promise of UsagePipeline.             *)
(***************************************************************************)

\* The records that the writer has yet to store.
InHand == Range(writerQueue) \cup Range(writer.batch)
Concluding == {"final", "ended"}

\* The writer comes to its last batch only after it was sealed, so nothing joins it.
Sealing ==
    /\ shutdown \in {"close", "wait", "exited"} => sealed
    /\ done => sealed
    /\ writer.pc \in Concluding => sealed /\ writerQueue = <<>>

\* The final attempts are counted from none; before them a batch has its size.
Counted ==
    /\ writer.pc \notin Concluding => writer.attempt = 0 /\ Len(writer.batch) <= BatchSize
    /\ writer.pc = "final" => writer.attempt < Attempts

\* What is stored or in hand was accepted, and the other way round until the end.
OnlyAccepted == stored \cup InHand \subseteq accepted

\* The inductive invariant of dispatcher and writer.
HistoryInv == HistoryTypeOK /\ Sealing /\ Counted /\ OnlyAccepted /\ AcceptedIsKept

(***************************************************************************)
(* Sequences                                                               *)
(***************************************************************************)

\* A concatenation has the elements of both parts.
LEMMA RangeConcat ==
    ASSUME NEW S, NEW s \in Seq(S), NEW t \in Seq(S)
    PROVE  /\ s \o t \in Seq(S)
           /\ Len(s \o t) = Len(s) + Len(t)
           /\ Range(s \o t) = Range(s) \cup Range(t)
<1>1. s \o t \in Seq(S) /\ Len(s \o t) = Len(s) + Len(t)
  OBVIOUS
<1>2. Range(s \o t) \subseteq Range(s) \cup Range(t)
  BY DEF Range
<1>3. Range(s) \subseteq Range(s \o t)
  <2> SUFFICES ASSUME NEW i \in 1..Len(s) PROVE s[i] \in Range(s \o t)
    BY DEF Range
  <2> i \in 1..Len(s \o t) /\ (s \o t)[i] = s[i]
    OBVIOUS
  <2> QED
    BY DEF Range
<1>4. Range(t) \subseteq Range(s \o t)
  <2> SUFFICES ASSUME NEW i \in 1..Len(t) PROVE t[i] \in Range(s \o t)
    BY DEF Range
  <2> Len(s) + i \in 1..Len(s \o t) /\ (s \o t)[Len(s) + i] = t[i]
    OBVIOUS
  <2> QED
    BY DEF Range
<1> QED
  BY <1>1, <1>2, <1>3, <1>4

\* A queue cut in two has its elements in the two parts.
LEMMA RangeSplit ==
    ASSUME NEW S, NEW s \in Seq(S), NEW n \in 0..Len(s)
    PROVE  /\ SubSeq(s, 1, n) \in Seq(S) /\ SubSeq(s, n + 1, Len(s)) \in Seq(S)
           /\ Len(SubSeq(s, 1, n)) = n
           /\ Range(SubSeq(s, 1, n)) \cup Range(SubSeq(s, n + 1, Len(s))) = Range(s)
<1> DEFINE front == SubSeq(s, 1, n)
           rest == SubSeq(s, n + 1, Len(s))
<1>1. /\ front \in Seq(S) /\ rest \in Seq(S)
      /\ Len(front) = n /\ Len(rest) = Len(s) - n
      /\ \A i \in 1..n : front[i] = s[i]
      /\ \A i \in 1..(Len(s) - n) : rest[i] = s[n + i]
  OBVIOUS
<1>2. \A i \in DOMAIN s : s[i] \in Range(front) \cup Range(rest)
  <2> SUFFICES ASSUME NEW i \in 1..Len(s) PROVE s[i] \in Range(front) \cup Range(rest)
    OBVIOUS
  <2>1. CASE i <= n
    <3> i \in 1..n /\ i \in DOMAIN front
      BY <1>1, <2>1
    <3> QED
      BY <1>1 DEF Range
  <2>2. CASE ~(i <= n)
    <3> i - n \in 1..(Len(s) - n) /\ i - n \in DOMAIN rest /\ n + (i - n) = i
      BY <1>1, <2>2
    <3> QED
      BY <1>1 DEF Range
  <2> QED
    BY <2>1, <2>2
<1>3. Range(front) \subseteq Range(s)
  <2> SUFFICES ASSUME NEW i \in 1..n PROVE front[i] \in Range(s)
    BY <1>1 DEF Range
  <2> i \in DOMAIN s
    OBVIOUS
  <2> QED
    BY <1>1 DEF Range
<1>4. Range(rest) \subseteq Range(s)
  <2> SUFFICES ASSUME NEW i \in 1..(Len(s) - n) PROVE rest[i] \in Range(s)
    BY <1>1 DEF Range
  <2> n + i \in DOMAIN s
    OBVIOUS
  <2> QED
    BY <1>1 DEF Range
<1> HIDE DEF front, rest
<1>5. Range(s) = Range(front) \cup Range(rest)
  BY <1>2, <1>3, <1>4 DEF Range
<1> QED
  BY <1>1, <1>5 DEF front, rest

\* Nothing is in the empty sequence, and something in every other.
LEMMA RangeEmpty ==
    ASSUME NEW S, NEW s \in Seq(S)
    PROVE  /\ Range(s) \subseteq S
           /\ Range(<<>>) = {}
  BY DEF Range

LEMMA EmptyIsSeq == \A S : <<>> \in Seq(S)
  OBVIOUS

(***************************************************************************)
(* One batch                                                               *)
(***************************************************************************)

\* What the writer takes for a batch fits, and moves from the queue to the batch.
LEMMA Moving ==
    ASSUME HistoryTypeOK, Len(writer.batch) <= BatchSize
    PROVE  /\ Topped \in Seq(Records) /\ Remaining \in Seq(Records)
           /\ Len(Topped) <= BatchSize
           /\ Range(Remaining) \cup Range(Topped) = InHand
<1> DEFINE batch == writer.batch
           moved == SubSeq(writerQueue, 1, Room)
<1>1. /\ batch \in Seq(Records) /\ writerQueue \in Seq(Records)
      /\ Len(batch) \in Nat /\ Len(writerQueue) \in Nat
      /\ Len(batch) <= BatchSize
      /\ BatchSize \in Nat
  BY UsageAssumption DEF HistoryTypeOK, Writing
<1>2. Room = IF Len(writerQueue) < BatchSize - Len(batch) THEN Len(writerQueue) ELSE BatchSize - Len(batch)
  BY DEF Room
<1> HIDE DEF batch
<1>3. Room \in 0..Len(writerQueue) /\ Len(batch) + Room <= BatchSize
  BY <1>1, <1>2
<1>4. /\ moved \in Seq(Records) /\ Remaining \in Seq(Records)
      /\ Len(moved) = Room
      /\ Range(moved) \cup Range(Remaining) = Range(writerQueue)
  BY <1>1, <1>3, RangeSplit DEF Remaining
<1>5. Topped = batch \o moved
  BY DEF Topped, batch
<1> HIDE DEF moved
<1>6. /\ Topped \in Seq(Records)
      /\ Len(Topped) = Len(batch) + Room
      /\ Range(Topped) = Range(batch) \cup Range(moved)
  <2>1. batch \in Seq(Records) /\ moved \in Seq(Records)
    BY <1>1, <1>4
  <2>2. /\ batch \o moved \in Seq(Records)
        /\ Len(batch \o moved) = Len(batch) + Len(moved)
        /\ Range(batch \o moved) = Range(batch) \cup Range(moved)
    BY ONLY <2>1, RangeConcat
  <2> QED
    BY <1>4, <1>5, <2>2
<1>7. InHand = Range(writerQueue) \cup Range(batch)
  BY DEF InHand, batch
<1> QED
  BY <1>3, <1>4, <1>6, <1>7

(***************************************************************************)
(* The inductive invariant.                                                *)
(***************************************************************************)

\* It holds at the start and after every step.
LEMMA HistoryInitially == HistoryInit => HistoryInv
<1> SUFFICES ASSUME HistoryInit PROVE HistoryInv
  OBVIOUS
<1>1. Range(<<>>) = {}
  BY DEF Range
<1>2. HistoryTypeOK
  <2>1. dispatcher \in Dispatching
    BY EmptyIsSeq DEF HistoryInit, Dispatching
  <2>2. writer \in Writing
    BY EmptyIsSeq, UsageAssumption DEF HistoryInit, Writing
  <2> QED
    BY <2>1, <2>2, EmptyIsSeq DEF HistoryInit, HistoryTypeOK
<1>3. Sealing /\ Counted
  BY UsageAssumption DEF HistoryInit, Sealing, Counted, Concluding
<1>4. OnlyAccepted /\ AcceptedIsKept
  BY <1>1 DEF HistoryInit, OnlyAccepted, AcceptedIsKept, InHand
<1> QED
  BY <1>2, <1>3, <1>4 DEF HistoryInv

\* A step that touches neither the queue, the batch nor the database leaves the part
\* of the invariant that is about them as it was.
LEMMA Untouched ==
    ASSUME HistoryInv, UNCHANGED <<accepted, writerQueue, stored, degraded>>,
           writer'.batch = writer.batch,
           (writer'.pc = "ended") <=> (writer.pc = "ended")
    PROVE  OnlyAccepted' /\ AcceptedIsKept'
  BY DEF HistoryInv, OnlyAccepted, AcceptedIsKept, InHand

LEMMA PublisherStep ==
    ASSUME HistoryInv, NEW r \in Records, Publish(r) \/ Signal(r)
    PROVE  HistoryInv'
<1>1. HistoryTypeOK'
  <2>1. CASE Publish(r)
    <3>1. /\ publisher' \in [Records -> {"new", "signal", "done"}]
          /\ pending' \in Seq(Records)
      BY <2>1 DEF HistoryInv, HistoryTypeOK, Publish
    <3> QED
      BY <2>1, <3>1 DEF HistoryInv, HistoryTypeOK, Publish, writerVars, flushVars
  <2>2. CASE Signal(r)
    <3>1. publisher' \in [Records -> {"new", "signal", "done"}]
      BY <2>2 DEF HistoryInv, HistoryTypeOK, Signal
    <3>2. dispatcher' \in Dispatching
      BY <2>2 DEF HistoryInv, HistoryTypeOK, Signal, WakeDispatcher, Dispatching
    <3> QED
      BY <2>2, <3>1, <3>2 DEF HistoryInv, HistoryTypeOK, Signal, writerVars, flushVars
  <2> QED
    BY <2>1, <2>2
<1>2. UNCHANGED <<writerVars, flushVars, shutdown>>
  BY DEF Publish, Signal
<1>3. Sealing' /\ Counted'
  BY <1>2 DEF HistoryInv, Sealing, Counted, writerVars, flushVars
<1>4. OnlyAccepted' /\ AcceptedIsKept'
  BY <1>2, Untouched DEF writerVars, flushVars
<1> QED
  BY <1>1, <1>3, <1>4 DEF HistoryInv

LEMMA TakeStep ==
    ASSUME HistoryInv, Take PROVE HistoryInv'
<1>1. HistoryTypeOK'
  <2>1. pending \in Seq(Records) /\ dispatcher \in Dispatching
    BY DEF HistoryInv, HistoryTypeOK
  <2>2. CASE pending # <<>>
    <3>1. /\ Head(pending) \in Records /\ Tail(pending) \in Seq(Records)
          /\ <<Head(pending)>> \in Seq(Records)
      BY <2>1, <2>2
    <3>2. pending' \in Seq(Records) /\ dispatcher' \in Dispatching
      <4>1. pending' = Tail(pending) /\ dispatcher' = [pc |-> "write", item |-> <<Head(pending)>>]
        BY <2>2 DEF Take
      <4> QED
        BY <3>1, <4>1 DEF Dispatching
    <3> QED
      BY <3>2 DEF HistoryInv, HistoryTypeOK, Take, writerVars, flushVars
  <2>3. CASE ~(pending # <<>>)
    <3>1. pending' \in Seq(Records) /\ dispatcher' \in Dispatching
      BY <2>1, <2>3 DEF Take, Dispatching
    <3> QED
      BY <3>1 DEF HistoryInv, HistoryTypeOK, Take, writerVars, flushVars
  <2> QED
    BY <2>2, <2>3
<1>2. UNCHANGED <<writerVars, flushVars, shutdown>>
  BY DEF Take
<1>3. Sealing' /\ Counted'
  BY <1>2 DEF HistoryInv, Sealing, Counted, writerVars, flushVars
<1>4. OnlyAccepted' /\ AcceptedIsKept'
  BY <1>2, Untouched DEF writerVars, flushVars
<1> QED
  BY <1>1, <1>3, <1>4 DEF HistoryInv

\* A refused record stays out; an accepted one is in the queue, and as the queue is
\* not sealed, the last batch has not been taken.
LEMMA WriteStep ==
    ASSUME HistoryInv, Write PROVE HistoryInv'
<1>0. /\ HistoryTypeOK /\ dispatcher.item \in Seq(Records) /\ writerQueue \in Seq(Records)
      /\ UNCHANGED <<publisher, pending, closed, sealed, done, wake, flushVars, shutdown>>
  BY DEF HistoryInv, HistoryTypeOK, Dispatching, Write
<1>1. CASE sealed
  <2>1. dispatcher' = [pc |-> "run", item |-> <<>>] /\ UNCHANGED <<writerQueue, accepted>>
    BY <1>1 DEF Write
  <2>2. HistoryTypeOK'
    BY <1>0, <2>1 DEF HistoryTypeOK, Dispatching, Writing, flushVars
  <2>3. Sealing' /\ Counted'
    BY <1>0, <2>1 DEF HistoryInv, Sealing, Counted, flushVars
  <2>4. OnlyAccepted' /\ AcceptedIsKept'
    BY <1>0, <2>1, Untouched DEF flushVars
  <2> QED
    BY <2>2, <2>3, <2>4 DEF HistoryInv
<1>2. CASE ~sealed
  <2>1. /\ dispatcher' = [dispatcher EXCEPT !.pc = "signal"]
        /\ writerQueue' = writerQueue \o dispatcher.item
        /\ accepted' = accepted \cup Range(dispatcher.item)
    BY <1>2 DEF Write
  <2>2. /\ writerQueue' \in Seq(Records)
        /\ Range(writerQueue') = Range(writerQueue) \cup Range(dispatcher.item)
    BY <1>0, <2>1, RangeConcat
  <2>3. Range(dispatcher.item) \subseteq Records
    BY <1>0, RangeEmpty
  <2>4. HistoryTypeOK'
    <3>1. dispatcher' \in Dispatching
      BY <1>0, <2>1 DEF HistoryTypeOK, Dispatching
    <3>2. accepted' \in SUBSET Records
      BY <1>0, <2>1, <2>3 DEF HistoryTypeOK
    <3> QED
      BY <1>0, <2>2, <3>1, <3>2 DEF HistoryTypeOK, flushVars
  <2>5. writer.pc \notin Concluding
    BY <1>2 DEF HistoryInv, Sealing
  <2>6. Sealing' /\ Counted'
    BY <1>0, <2>5 DEF HistoryInv, Sealing, Counted, flushVars
  <2>7. OnlyAccepted' /\ AcceptedIsKept'
    BY <1>0, <2>1, <2>2, <2>5
       DEF HistoryInv, OnlyAccepted, AcceptedIsKept, InHand, Concluding, flushVars
  <2> QED
    BY <2>4, <2>6, <2>7 DEF HistoryInv
<1> QED
  BY <1>1, <1>2

LEMMA WakeWriterStep ==
    ASSUME HistoryInv, WakeWriter PROVE HistoryInv'
<1>1. HistoryTypeOK'
  <2>1. dispatcher' \in Dispatching
    BY DEF WakeWriter, Dispatching
  <2> QED
    BY <2>1 DEF HistoryInv, HistoryTypeOK, WakeWriter, flushVars
<1>2. Sealing' /\ Counted'
  BY DEF HistoryInv, Sealing, Counted, WakeWriter, flushVars
<1>3. OnlyAccepted' /\ AcceptedIsKept'
  BY Untouched DEF WakeWriter, flushVars
<1> QED
  BY <1>1, <1>2, <1>3 DEF HistoryInv

\* A tick or a fill moves records from the queue into the batch and loses none.
LEMMA MoveStep ==
    ASSUME HistoryInv, NEW pc \in {"select", "flush", "flush_tick"},
           writer.pc \in {"select", "fill"}, MoveIntoBatch(pc),
           UNCHANGED <<managerVars, accepted, sealed, done, wake, stored, degraded, shutdown>>
    PROVE  HistoryInv'
<1>1. /\ HistoryTypeOK /\ writer \in Writing
      /\ writer.pc \notin Concluding /\ writer.attempt = 0 /\ Len(writer.batch) <= BatchSize
  BY DEF HistoryInv, HistoryTypeOK, Counted, Concluding
<1>2. /\ Topped \in Seq(Records) /\ Remaining \in Seq(Records)
      /\ Len(Topped) <= BatchSize
      /\ Range(Remaining) \cup Range(Topped) = InHand
  BY <1>1, Moving
<1>3. writerQueue' = Remaining /\ writer' = [writer EXCEPT !.batch = Topped, !.pc = pc]
  BY DEF MoveIntoBatch
<1> HIDE DEF Topped, Remaining
<1>4. /\ writer' \in Writing /\ writer'.pc = pc /\ writer'.batch = Topped
      /\ writer'.attempt = writer.attempt
  BY <1>1, <1>2, <1>3 DEF Writing
<1>5. HistoryTypeOK'
  BY <1>1, <1>2, <1>3, <1>4 DEF HistoryTypeOK, managerVars
<1>6. pc \notin Concluding /\ pc # "final" /\ pc # "ended"
  BY DEF Concluding
<1>7. Sealing' /\ Counted'
  BY <1>1, <1>2, <1>4, <1>6 DEF HistoryInv, Sealing, Counted
<1>8. OnlyAccepted' /\ AcceptedIsKept'
  BY <1>1, <1>2, <1>3, <1>4, <1>6 DEF HistoryInv, OnlyAccepted, AcceptedIsKept, InHand, Concluding
<1> QED
  BY <1>5, <1>7, <1>8 DEF HistoryInv

LEMMA TakeWakeStep ==
    ASSUME HistoryInv, TakeWake PROVE HistoryInv'
<1>1. /\ HistoryTypeOK /\ writer \in Writing /\ writer.pc = "select"
      /\ writer' = [writer EXCEPT !.pc = "fill"] /\ wake' = FALSE
      /\ UNCHANGED <<managerVars, accepted, writerQueue, sealed, done, stored, degraded, shutdown>>
  BY DEF HistoryInv, HistoryTypeOK, TakeWake
<1>2. /\ writer' \in Writing /\ writer'.pc = "fill"
      /\ writer'.batch = writer.batch /\ writer'.attempt = writer.attempt
  BY <1>1 DEF Writing
<1>3. HistoryTypeOK'
  BY <1>1, <1>2 DEF HistoryTypeOK, managerVars
<1>4. Sealing' /\ Counted'
  BY <1>1, <1>2 DEF HistoryInv, Sealing, Counted, Concluding
<1>5. OnlyAccepted' /\ AcceptedIsKept'
  BY <1>1, <1>2, Untouched
<1> QED
  BY <1>3, <1>4, <1>5 DEF HistoryInv

\* A batch that was inserted leaves the writer's hands for the database.
LEMMA FlushSucceedsStep ==
    ASSUME HistoryInv, FlushSucceeds PROVE HistoryInv'
<1> DEFINE next == IF writer.pc = "flush" THEN "fill" ELSE "select"
<1>1. /\ HistoryTypeOK /\ writer \in Writing /\ writer.pc \in {"flush", "flush_tick"}
      /\ stored' = stored \cup Range(writer.batch)
      /\ writer' = [writer EXCEPT !.batch = <<>>, !.pc = next]
      /\ UNCHANGED <<managerVars, writerVars, degraded, shutdown>>
  BY DEF HistoryInv, HistoryTypeOK, FlushSucceeds, Insert
<1>2. next \in {"fill", "select"}
  OBVIOUS
<1> HIDE DEF next
<1>3. /\ writer' \in Writing /\ writer'.pc = next
      /\ writer'.batch = <<>> /\ writer'.attempt = writer.attempt
  BY <1>1, <1>2, EmptyIsSeq DEF Writing
<1>4. Range(writer.batch) \subseteq Records /\ Range(<<>>) = {}
  BY <1>1, RangeEmpty DEF Writing
<1>5. HistoryTypeOK'
  BY <1>1, <1>3, <1>4 DEF HistoryTypeOK, managerVars, writerVars
<1>6. writer.pc \notin Concluding /\ next \notin Concluding
  BY <1>1, <1>2 DEF Concluding
<1>7. Len(<<>>) = 0 /\ 0 <= BatchSize
  BY UsageAssumption
<1>8. Sealing' /\ Counted'
  BY <1>1, <1>2, <1>3, <1>6, <1>7 DEF HistoryInv, Sealing, Counted, writerVars
<1>9. OnlyAccepted' /\ AcceptedIsKept'
  BY <1>1, <1>3, <1>4, <1>6
     DEF HistoryInv, OnlyAccepted, AcceptedIsKept, InHand, Concluding, writerVars
<1> QED
  BY <1>5, <1>8, <1>9 DEF HistoryInv

\* A failed batch is kept, whether or not the database has it by now.
LEMMA FlushFailsStep ==
    ASSUME HistoryInv, FlushFails PROVE HistoryInv'
<1>1. /\ HistoryTypeOK /\ writer \in Writing /\ writer.pc \in {"flush", "flush_tick"}
      /\ stored' = stored \cup Range(writer.batch) \/ stored' = stored
      /\ writer' = [writer EXCEPT !.pc = "select"]
      /\ UNCHANGED <<managerVars, writerVars, degraded, shutdown>>
  BY DEF HistoryInv, HistoryTypeOK, FlushFails, Insert
<1>2. /\ writer' \in Writing /\ writer'.pc = "select"
      /\ writer'.batch = writer.batch /\ writer'.attempt = writer.attempt
  BY <1>1 DEF Writing
<1>3. Range(writer.batch) \subseteq Records
  BY <1>1, RangeEmpty DEF Writing
<1>4. HistoryTypeOK'
  BY <1>1, <1>2, <1>3 DEF HistoryTypeOK, managerVars, writerVars
<1>5. Sealing' /\ Counted'
  BY <1>1, <1>2 DEF HistoryInv, Sealing, Counted, Concluding, writerVars
<1>6. OnlyAccepted' /\ AcceptedIsKept'
  BY <1>1, <1>2 DEF HistoryInv, OnlyAccepted, AcceptedIsKept, InHand, writerVars
<1> QED
  BY <1>4, <1>5, <1>6 DEF HistoryInv

\* The last batch: the queue is empty from here on, because it was sealed before.
LEMMA TakeDoneStep ==
    ASSUME HistoryInv, TakeDone
    PROVE  HistoryInv' /\ (writer'.pc = "ended" => InHand = {})
<1> DEFINE all == writer.batch \o writerQueue
           next == IF all = <<>> THEN "ended" ELSE "final"
<1>1. /\ HistoryTypeOK /\ writer \in Writing /\ writerQueue \in Seq(Records) /\ writer.pc = "select" /\ done
      /\ writerQueue' = <<>>
      /\ writer' = [writer EXCEPT !.batch = all, !.pc = next]
      /\ UNCHANGED <<managerVars, accepted, sealed, done, wake, stored, degraded, shutdown>>
  BY DEF HistoryInv, HistoryTypeOK, TakeDone
<1>2. next \in Concluding /\ (next = "ended" => all = <<>>)
  BY DEF Concluding
<1>3. all \in Seq(Records) /\ Range(all) = InHand
  <2>1. writer.batch \in Seq(Records)
    BY <1>1 DEF Writing
  <2> QED
    BY <1>1, <2>1, RangeConcat DEF InHand
<1> HIDE DEF next, all
<1>4. /\ writer' \in Writing /\ writer'.pc = next
      /\ writer'.batch = all /\ writer'.attempt = writer.attempt
  BY <1>1, <1>2, <1>3 DEF Writing, Concluding
<1>5. Range(<<>>) = {}
  BY DEF Range
<1>6. writer.pc \notin Concluding
  BY <1>1 DEF Concluding
<1>7. HistoryTypeOK'
  BY <1>1, <1>4 DEF HistoryTypeOK, managerVars
<1>8. Sealing' /\ Counted'
  BY <1>1, <1>2, <1>4, <1>6, UsageAssumption DEF HistoryInv, Sealing, Counted
<1>9. OnlyAccepted' /\ AcceptedIsKept'
  BY <1>1, <1>2, <1>3, <1>4, <1>5, <1>6
     DEF HistoryInv, OnlyAccepted, AcceptedIsKept, InHand, Concluding
<1>10. writer'.pc = "ended" => InHand = {}
  BY <1>2, <1>3, <1>4, <1>5
<1> QED
  BY <1>7, <1>8, <1>9, <1>10 DEF HistoryInv

\* The last batch is stored, and with it everything that was accepted.
LEMMA FinalFlushSucceedsStep ==
    ASSUME HistoryInv, FinalFlushSucceeds
    PROVE  HistoryInv' /\ stored' = accepted
<1>1. /\ HistoryTypeOK /\ writer \in Writing /\ writer.pc = "final"
      /\ stored' = stored \cup Range(writer.batch)
      /\ writer' = [writer EXCEPT !.batch = <<>>, !.pc = "ended"]
      /\ UNCHANGED <<managerVars, writerVars, degraded, shutdown>>
  BY DEF HistoryInv, HistoryTypeOK, FinalFlushSucceeds, Insert
<1>2. /\ writer' \in Writing /\ writer'.pc = "ended"
      /\ writer'.batch = <<>> /\ writer'.attempt = writer.attempt
  BY <1>1, EmptyIsSeq DEF Writing
<1>3. Range(<<>>) = {} /\ Range(writer.batch) \subseteq Records
  BY <1>1, RangeEmpty DEF Writing
<1>4. sealed /\ writerQueue = <<>>
  BY <1>1 DEF HistoryInv, Sealing, Concluding
<1>5. HistoryTypeOK'
  BY <1>1, <1>2, <1>3 DEF HistoryTypeOK, managerVars, writerVars
<1>6. Sealing' /\ Counted'
  BY <1>1, <1>2, <1>4 DEF HistoryInv, Sealing, Counted, Concluding, writerVars
<1>7. stored' = accepted
  BY <1>1, <1>3, <1>4 DEF HistoryInv, OnlyAccepted, AcceptedIsKept, InHand
<1>8. OnlyAccepted' /\ AcceptedIsKept'
  BY <1>1, <1>2, <1>3, <1>4, <1>7 DEF OnlyAccepted, AcceptedIsKept, InHand, writerVars
<1> QED
  BY <1>5, <1>6, <1>7, <1>8 DEF HistoryInv

\* The writer gives up after its last attempt only, and not in silence.
LEMMA FinalFlushFailsStep ==
    ASSUME HistoryInv, FinalFlushFails
    PROVE  HistoryInv' /\ (writer'.pc = "ended" => degraded')
<1> DEFINE attempt == writer.attempt + 1
           next == IF attempt = Attempts THEN "ended" ELSE "final"
<1>1. /\ HistoryTypeOK /\ writer \in Writing /\ writer.pc = "final"
      /\ stored' = stored \cup Range(writer.batch) \/ stored' = stored
      /\ writer' = [writer EXCEPT !.attempt = attempt, !.pc = next]
      /\ degraded' = (degraded \/ attempt = Attempts)
      /\ degraded \in BOOLEAN
      /\ UNCHANGED <<managerVars, writerVars, shutdown>>
  BY DEF HistoryInv, HistoryTypeOK, FinalFlushFails, Insert
<1>2. /\ attempt \in 0..Attempts
      /\ next \in Concluding
      /\ (next = "ended" <=> attempt = Attempts)
      /\ (next = "final" => attempt < Attempts)
  BY <1>1, UsageAssumption DEF HistoryInv, Counted, Writing, Concluding
<1> HIDE DEF attempt, next
<1>3. /\ writer' \in Writing /\ writer'.pc = next
      /\ writer'.batch = writer.batch /\ writer'.attempt = attempt
  BY <1>1, <1>2 DEF Writing, Concluding
<1>4. Range(writer.batch) \subseteq Records
  BY <1>1, RangeEmpty DEF Writing
<1>5. sealed /\ writerQueue = <<>>
  BY <1>1 DEF HistoryInv, Sealing, Concluding
<1>6. degraded' \in BOOLEAN
  BY <1>1
<1>7. HistoryTypeOK'
  BY <1>1, <1>3, <1>4, <1>6 DEF HistoryTypeOK, managerVars, writerVars
<1>8. Sealing' /\ Counted'
  BY <1>1, <1>2, <1>3, <1>5 DEF HistoryInv, Sealing, Counted, writerVars
<1>9. writer'.pc = "ended" => degraded'
  BY <1>1, <1>2, <1>3
<1>10. OnlyAccepted' /\ AcceptedIsKept'
  BY <1>1, <1>3, <1>9 DEF HistoryInv, OnlyAccepted, AcceptedIsKept, InHand, writerVars
<1> QED
  BY <1>7, <1>8, <1>9, <1>10 DEF HistoryInv

\* The steps of the shutdown touch none of the records.
LEMMA ShutdownStep ==
    ASSUME HistoryInv, CloseManager \/ Shutdown
    PROVE  HistoryInv'
<1> USE DEF Shutdown, CloseManager, Broadcast, SealWriter, CloseDone, Exit, Step
<1>1. UNCHANGED <<publisher, pending, accepted, writerQueue, wake, flushVars>>
  BY DEF writerVars, managerVars
<1>2. dispatcher' \in Dispatching
  BY DEF HistoryInv, HistoryTypeOK, WakeDispatcher, Dispatching, managerVars
<1>3. /\ shutdown' \in {"broadcast", "seal", "close", "wait", "exited"}
      /\ closed' \in BOOLEAN /\ sealed' \in BOOLEAN /\ done' \in BOOLEAN
  BY DEF HistoryInv, HistoryTypeOK, managerVars, writerVars
<1>4. /\ sealed => sealed'
      /\ shutdown' \in {"close", "wait", "exited"} => sealed'
      /\ done' => sealed'
  BY DEF HistoryInv, HistoryTypeOK, Sealing, managerVars, writerVars
<1>5. HistoryTypeOK'
  BY <1>1, <1>2, <1>3 DEF HistoryInv, HistoryTypeOK, flushVars
<1>6. Sealing' /\ Counted'
  BY <1>1, <1>4 DEF HistoryInv, Sealing, Counted, flushVars
<1>7. OnlyAccepted' /\ AcceptedIsKept'
  BY <1>1, Untouched DEF flushVars
<1> QED
  BY <1>5, <1>6, <1>7 DEF HistoryInv

LEMMA HistoryInductive == HistoryInv /\ [HistoryNext]_historyVars => HistoryInv'
<1> SUFFICES ASSUME HistoryInv, [HistoryNext]_historyVars PROVE HistoryInv'
  OBVIOUS
<1>1. ASSUME NEW r \in Records, Publish(r) \/ Signal(r) PROVE HistoryInv'
  BY <1>1, PublisherStep
<1>2. CASE DispatcherStep
  BY <1>2, TakeStep, WriteStep, WakeWriterStep DEF DispatcherStep
<1>3. CASE TakeTick
  BY <1>3, MoveStep DEF TakeTick
<1>4. CASE Fill
  <2>1. PICK pc \in {"select", "flush", "flush_tick"} : MoveIntoBatch(pc)
    BY <1>4 DEF Fill
  <2> QED
    BY <1>4, <2>1, MoveStep DEF Fill
<1>5. CASE TakeWake \/ FlushSucceeds \/ FlushFails
  BY <1>5, TakeWakeStep, FlushSucceedsStep, FlushFailsStep
<1>6. CASE TakeDone \/ FinalFlushSucceeds \/ FinalFlushFails
  BY <1>6, TakeDoneStep, FinalFlushSucceedsStep, FinalFlushFailsStep
<1>7. CASE CloseManager \/ Shutdown
  BY <1>7, ShutdownStep
<1>8. CASE UNCHANGED historyVars
  <2> USE <1>8 DEF historyVars, managerVars, writerVars, flushVars
  <2>1. HistoryTypeOK'
    BY DEF HistoryInv, HistoryTypeOK
  <2>2. Sealing' /\ Counted'
    BY DEF HistoryInv, Sealing, Counted
  <2>3. OnlyAccepted' /\ AcceptedIsKept'
    BY Untouched
  <2> QED
    BY <2>1, <2>2, <2>3 DEF HistoryInv
<1> QED
  BY <1>1, <1>2, <1>3, <1>4, <1>5, <1>6, <1>7, <1>8 DEF HistoryNext, Run

\* The inductive invariant holds in every reachable state of the pipeline.
THEOREM HistoryInvariance == HistorySpec => []HistoryInv
  BY HistoryInitially, HistoryInductive, PTL DEF HistorySpec

\* The goroutines of the pipeline keep their types, the final attempts their limit.
THEOREM HistoryTypeCorrect == HistorySpec => []HistoryTypeOK
<1> HistoryInv => HistoryTypeOK
  BY DEF HistoryInv
<1> QED
  BY HistoryInvariance, PTL

\* No record the writer has accepted is dropped by a failed flush, a late write or the
\* final drain, however many there are.
THEOREM AcceptedAreKept == HistorySpec => []AcceptedIsKept
<1> HistoryInv => AcceptedIsKept
  BY DEF HistoryInv
<1> QED
  BY HistoryInvariance, PTL

(***************************************************************************)
(* The pipeline implements the promise.                                    *)
(***************************************************************************)

\* What a step of the code is for the promise: a batch that got stored is Store, a
\* record taken in Accept, the writer's end Stop, anything else no step.
LEMMA StepImplements ==
    HistoryInv /\ [HistoryNext]_historyVars => [Pipeline!Next]_(Pipeline!vars)
<1> SUFFICES ASSUME HistoryInv, [HistoryNext]_historyVars PROVE [Pipeline!Next]_(Pipeline!vars)
  OBVIOUS
<1> DEFINE over == writer.pc = "ended"
<1> USE DEF Pipeline!Next, Pipeline!vars, writerVars, flushVars
<1>1. CASE UNCHANGED <<accepted, stored, degraded, over>>
  BY <1>1
<1>2. CASE Write
  <2>1. CASE sealed
    BY <1>2, <2>1 DEF Write
  <2>2. CASE ~sealed
    <3>1. ~over
      BY <2>2 DEF HistoryInv, Sealing, Concluding
    <3>2. Range(dispatcher.item) \in SUBSET Records
      BY RangeEmpty DEF HistoryInv, HistoryTypeOK, Dispatching
    <3>3. Pipeline!Accept
      BY <1>2, <2>2, <3>1, <3>2 DEF Write, Pipeline!Accept
    <3> QED
      BY <3>3
  <2> QED
    BY <2>1, <2>2
<1>3. CASE FlushSucceeds \/ FlushFails
  <2>1. ~over /\ ~over' /\ UNCHANGED <<accepted, degraded>>
    BY <1>3 DEF FlushSucceeds, FlushFails, HistoryInv, HistoryTypeOK, Writing
  <2>2. stored' = stored \cup Range(writer.batch) \/ stored' = stored
    BY <1>3 DEF FlushSucceeds, FlushFails, Insert
  <2>3. Pipeline!StoredMore
    BY <2>2 DEF Pipeline!StoredMore, HistoryInv, OnlyAccepted, InHand
  <2> QED
    BY <2>1, <2>3 DEF Pipeline!Store
<1>4. CASE TakeDone
  <2>1. ~over /\ UNCHANGED <<accepted, stored, degraded>>
    BY <1>4 DEF TakeDone
  <2>2. CASE over'
    <3>1. InHand = {}
      BY <1>4, <2>2, TakeDoneStep
    <3>2. stored = accepted
      BY <2>1, <3>1 DEF HistoryInv, OnlyAccepted, AcceptedIsKept, InHand
    <3> QED
      BY <2>1, <2>2, <3>2 DEF Pipeline!Stop, Pipeline!StoredMore
  <2>3. CASE ~over'
    BY <2>1, <2>3
  <2> QED
    BY <2>2, <2>3
<1>5. CASE FinalFlushSucceeds
  <2>1. ~over /\ over' /\ UNCHANGED <<accepted, degraded>>
    BY <1>5 DEF FinalFlushSucceeds, HistoryInv, HistoryTypeOK, Writing
  <2>2. stored' = accepted
    BY <1>5, FinalFlushSucceedsStep
  <2>3. stored \subseteq accepted
    BY DEF HistoryInv, OnlyAccepted
  <2> QED
    BY <2>1, <2>2, <2>3 DEF Pipeline!Stop, Pipeline!StoredMore
<1>6. CASE FinalFlushFails
  <2>1. ~over /\ UNCHANGED accepted
    BY <1>6 DEF FinalFlushFails
  <2>2. Pipeline!StoredMore
    BY <1>6 DEF FinalFlushFails, Insert, Pipeline!StoredMore, HistoryInv, OnlyAccepted, InHand
  <2>3. CASE over'
    <3>1. degraded' = TRUE
      BY <1>6, <2>3, FinalFlushFailsStep DEF HistoryInv, HistoryTypeOK
    <3> QED
      BY <2>1, <2>2, <2>3, <3>1 DEF Pipeline!Stop
  <2>4. CASE ~over'
    <3>1. degraded' = degraded
      BY <1>6, <2>4 DEF FinalFlushFails, HistoryInv, HistoryTypeOK, Writing
    <3> QED
      BY <2>1, <2>2, <2>4, <3>1 DEF Pipeline!Store
  <2> QED
    BY <2>3, <2>4
<1>7. CASE TakeTick \/ Fill \/ TakeWake
  <2>1. UNCHANGED <<accepted, stored, degraded>>
    BY <1>7 DEF TakeTick, Fill, TakeWake
  <2>2. ~over /\ ~over'
    BY <1>7 DEF TakeTick, Fill, TakeWake, MoveIntoBatch, HistoryInv, HistoryTypeOK, Writing
  <2> QED
    BY <1>1, <2>1, <2>2
<1>8. CASE \E r \in Records : Publish(r) \/ Signal(r)
  BY <1>1, <1>8 DEF Publish, Signal
<1>9. CASE Take \/ WakeWriter
  BY <1>1, <1>9 DEF Take, WakeWriter
<1>10. CASE CloseManager \/ Shutdown
  BY <1>1, <1>10 DEF CloseManager, Shutdown, Broadcast, SealWriter, CloseDone, Exit
<1>11. CASE UNCHANGED historyVars
  BY <1>1, <1>11 DEF historyVars
<1> QED
  BY <1>2, <1>3, <1>4, <1>5, <1>6, <1>7, <1>8, <1>9, <1>10, <1>11
     DEF HistoryNext, Run, DispatcherStep

\* Dispatcher, queue, batches and flushes implement what the writer promises: they
\* store what was accepted, nothing else, and stop with all of it or degraded.
THEOREM Implements == HistorySpec => ImplementsPipeline
<1>1. HistoryInit => Pipeline!Init
  BY DEF HistoryInit, Pipeline!Init
<1> QED
  BY <1>1, HistoryInvariance, StepImplements, PTL DEF HistorySpec, ImplementsPipeline, Pipeline!Spec

(***************************************************************************)
(* UsageQueue: the invariant, the properties of the queue that follow from *)
(* it, and that the queue implements UsageFeed.                            *)
(***************************************************************************)

\* Queues whose position is inside their items.
Queues == {q \in [items : Seq(Item), head : Nat] : q.head <= Len(q.items)}

\* What is left of w without its first k elements.
From(w, k) == SubSeq(w, k + 1, Len(w))

\* The assumption about the constants, taken apart.
LEMMA Numbers == /\ Buffer \in Nat \ {0} /\ Retention \in Nat \ {0} /\ CompactAt \in Nat \ {0}
                 /\ Batch \in Nat \ {0} /\ MaxPayloads \in Nat \ {0} /\ MaxTime \in Nat /\ MaxSwitches \in Nat
BY QueueAssumption DEF QueueSetting

\* From, and the first ones of a sequence, element by element.
LEMMA FromSays ==
    ASSUME NEW S, NEW w \in Seq(S), NEW k \in 0 .. Len(w)
    PROVE  /\ From(w, k) \in Seq(S)
           /\ Len(From(w, k)) = Len(w) - k
           /\ \A i \in 1 .. Len(w) - k : From(w, k)[i] = w[k + i]
<1>1. Len(w) \in Nat /\ k \in Nat
  BY LenProperties
<1>2. \A i \in k + 1 .. Len(w) : w[i] \in S
  BY <1>1, ElementOfSeq
<1>3. /\ SubSeq(w, k + 1, Len(w)) \in Seq(S)
      /\ Len(SubSeq(w, k + 1, Len(w))) = IF k + 1 <= Len(w) THEN Len(w) - (k + 1) + 1 ELSE 0
      /\ \A i \in 1 .. Len(w) - (k + 1) + 1 : SubSeq(w, k + 1, Len(w))[i] = w[k + 1 + i - 1]
  BY <1>1, <1>2, SubSeqProperties
<1>4. ASSUME NEW i \in 1 .. Len(w) - k PROVE SubSeq(w, k + 1, Len(w))[i] = w[k + i]
  <2>1. i \in 1 .. Len(w) - (k + 1) + 1 /\ k + 1 + i - 1 = k + i
    BY <1>1
  <2> QED  BY <1>3, <2>1
<1> QED  BY <1>1, <1>3, <1>4 DEF From

LEMMA FirstSays ==
    ASSUME NEW S, NEW w \in Seq(S), NEW n \in 0 .. Len(w)
    PROVE  /\ SubSeq(w, 1, n) \in Seq(S)
           /\ Len(SubSeq(w, 1, n)) = n
           /\ \A i \in 1 .. n : SubSeq(w, 1, n)[i] = w[i]
<1>1. Len(w) \in Nat /\ n \in Nat
  BY LenProperties
<1>2. \A i \in 1 .. n : w[i] \in S
  BY <1>1, ElementOfSeq
<1>3. /\ SubSeq(w, 1, n) \in Seq(S)
      /\ Len(SubSeq(w, 1, n)) = IF 1 <= n THEN n - 1 + 1 ELSE 0
      /\ \A i \in 1 .. n - 1 + 1 : SubSeq(w, 1, n)[i] = w[1 + i - 1]
  BY <1>1, <1>2, SubSeqProperties
<1>4. ASSUME NEW i \in 1 .. n PROVE SubSeq(w, 1, n)[i] = w[i]
  <2>1. i \in 1 .. n - 1 + 1 /\ 1 + i - 1 = i
    BY <1>1
  <2> QED  BY <1>3, <2>1
<1> QED  BY <1>1, <1>3, <1>4

\* Two cuts are one.
LEMMA FromFrom ==
    ASSUME NEW S, NEW w \in Seq(S), NEW k \in 0 .. Len(w), NEW n \in 0 .. Len(w) - k
    PROVE  From(From(w, k), n) = From(w, k + n)
<1>1. Len(w) \in Nat /\ k + n \in 0 .. Len(w) /\ Len(w) - k - n = Len(w) - (k + n)
  BY LenProperties
<1>2. /\ From(w, k) \in Seq(S) /\ Len(From(w, k)) = Len(w) - k
      /\ \A i \in 1 .. Len(w) - k : From(w, k)[i] = w[k + i]
  BY FromSays
<1>3. /\ From(w, k + n) \in Seq(S) /\ Len(From(w, k + n)) = Len(w) - (k + n)
      /\ \A i \in 1 .. Len(w) - (k + n) : From(w, k + n)[i] = w[k + n + i]
  BY <1>1, FromSays
<1>4. /\ From(From(w, k), n) \in Seq(S) /\ Len(From(From(w, k), n)) = Len(w) - k - n
      /\ \A i \in 1 .. Len(w) - k - n : From(From(w, k), n)[i] = From(w, k)[n + i]
  <2> DEFINE v == From(w, k)
  <2>1. v \in Seq(S) /\ n \in 0 .. Len(v) /\ Len(v) = Len(w) - k
    BY <1>2
  <2> HIDE DEF v
  <2>2. From(v, n) \in Seq(S) /\ Len(From(v, n)) = Len(v) - n /\ \A i \in 1 .. Len(v) - n : From(v, n)[i] = v[n + i]
    BY <2>1, FromSays
  <2> QED  BY <2>1, <2>2 DEF v
<1>5. ASSUME NEW i \in 1 .. Len(w) - (k + n) PROVE From(From(w, k), n)[i] = From(w, k + n)[i]
  <2>1. n + i \in 1 .. Len(w) - k /\ k + (n + i) = k + n + i /\ i \in 1 .. Len(w) - k - n
    BY <1>1
  <2> QED  BY <1>2, <1>3, <1>4, <2>1
<1> QED  BY <1>1, <1>3, <1>4, <1>5, SeqEqual

LEMMA QueueSays ==
    ASSUME NEW q \in Queues
    PROVE  /\ \A x : [q EXCEPT !.items = x] = [items |-> x, head |-> q.head]
           /\ \A h : [q EXCEPT !.head = h] = [items |-> q.items, head |-> h]
           /\ \A x \in Seq(Item) : \A h \in Nat :
                 h <= Len(x) => [items |-> x, head |-> h] \in Queues
BY DEF Queues

\* What is alive of a queue, element by element.
LEMMA LiveSays ==
    ASSUME NEW q \in Queues
    PROVE  /\ q.items \in Seq(Item) /\ q.head \in 0 .. Len(q.items) /\ Len(q.items) \in Nat
           /\ Live(q) = From(q.items, q.head)
           /\ Live(q) \in Seq(Item)
           /\ Len(Live(q)) = Len(q.items) - q.head
           /\ \A i \in 1 .. Len(q.items) - q.head : Live(q)[i] = q.items[q.head + i]
<1>1. q.items \in Seq(Item) /\ q.head \in 0 .. Len(q.items) /\ Len(q.items) \in Nat
  BY LenProperties DEF Queues
<1>2. Live(q) = From(q.items, q.head)
  BY DEF Live, From
<1> QED  BY <1>1, <1>2, FromSays

LEMMA NoItemsSay == NoItems \in Queues /\ Live(NoItems) = <<>>
<1>1. NoItems \in Queues /\ NoItems.items = <<>> /\ NoItems.head = 0
  BY EmptySeq DEF Queues, NoItems
<1>2. Len(Live(NoItems)) = 0 /\ Live(NoItems) \in Seq(Item)
  BY <1>1, LiveSays
<1> QED  BY <1>1, <1>2, EmptySeq

\* Compaction moves what waits and drops nothing of it.
LEMMA CompactedSays ==
    ASSUME NEW q \in Queues
    PROVE  Compacted(q) \in Queues /\ Live(Compacted(q)) = Live(q)
<1>1. /\ q.items \in Seq(Item) /\ q.head \in 0 .. Len(q.items) /\ Len(q.items) \in Nat
      /\ Live(q) = From(q.items, q.head) /\ Live(q) \in Seq(Item) /\ Len(Live(q)) = Len(q.items) - q.head
  BY LiveSays
<1>2. CASE q.head >= Len(q.items) /\ q.head # 0
  <2>1. Live(q) = <<>>
    BY <1>1, <1>2, EmptySeq
  <2>2. Compacted(q) = NoItems
    BY <1>2 DEF Compacted
  <2> QED  BY <2>1, <2>2, NoItemsSay
<1>3. CASE Compacted(q) = q
  BY <1>3
<1>4. CASE Compacted(q) = [items |-> Live(q), head |-> 0]
  <2> DEFINE r == [items |-> Live(q), head |-> 0]
  <2>1. r \in Queues /\ r.items = Live(q) /\ r.head = 0
    BY <1>1, LenProperties DEF Queues
  <2> HIDE DEF r
  <2>2. /\ Live(r) \in Seq(Item) /\ Len(Live(r)) = Len(r.items) - r.head /\ Len(r.items) \in Nat
        /\ \A i \in 1 .. Len(r.items) - r.head : Live(r)[i] = r.items[r.head + i]
    BY <2>1, LiveSays
  <2>3. Len(Live(r)) = Len(Live(q)) /\ \A i \in 1 .. Len(Live(r)) : Live(r)[i] = Live(q)[i]
    BY <2>1, <2>2
  <2>4. Live(r) = Live(q)
    BY <1>1, <2>2, <2>3, SeqEqual
  <2> QED  BY <1>4, <2>1, <2>4 DEF r
<1> QED  BY <1>2, <1>3, <1>4 DEF Compacted

\* Pruning passes over the oldest items, all of them too old.
LEMMA PrunedSays ==
    ASSUME NEW q \in Queues, NEW clock \in Nat
    PROVE  /\ Pruned(q, clock) \in Queues
           /\ \E k \in 0 .. Len(Live(q)) :
                 /\ Live(Pruned(q, clock)) = From(Live(q), k)
                 /\ \A i \in 1 .. k : Stale(Live(q)[i], clock)
<1> DEFINE fresh == {i \in DOMAIN q.items : i > q.head /\ ~Stale(q.items[i], clock)}
           h == IF fresh = {} THEN Len(q.items) ELSE Min(fresh) - 1
           r == [q EXCEPT !.head = h]
<1>1. /\ q.items \in Seq(Item) /\ q.head \in 0 .. Len(q.items) /\ Len(q.items) \in Nat
      /\ Live(q) = From(q.items, q.head) /\ Live(q) \in Seq(Item) /\ Len(Live(q)) = Len(q.items) - q.head
      /\ \A i \in 1 .. Len(q.items) - q.head : Live(q)[i] = q.items[q.head + i]
  BY LiveSays
<1>2. CASE q.head >= Len(q.items)
  <2>1. Len(Live(q)) = 0
    BY <1>1, <1>2
  <2>2. Live(q) = <<>> /\ From(Live(q), 0) = <<>>
    <3>1. Live(q) = <<>>
      BY <1>1, <2>1, EmptySeq
    <3>2. From(Live(q), 0) \in Seq(Item) /\ Len(From(Live(q), 0)) = 0
      BY <1>1, <2>1, FromSays
    <3> QED  BY <3>1, <3>2, EmptySeq
  <2>3. Pruned(q, clock) = NoItems
    BY <1>2 DEF Pruned
  <2>4. Live(Pruned(q, clock)) = From(Live(q), 0) /\ Pruned(q, clock) \in Queues
    BY <2>2, <2>3, NoItemsSay
  <2> QED  BY <2>1, <2>4
<1>3. CASE q.head < Len(q.items)
  <2>1. Pruned(q, clock) = r
    BY <1>1, <1>3 DEF Pruned
  <2>2. DOMAIN q.items = 1 .. Len(q.items) /\ fresh \in SUBSET Nat
    BY <1>1, LenProperties
  <2>9. \A i \in q.head + 1 .. Len(q.items) : i \in fresh <=> ~Stale(q.items[i], clock)
    BY <1>1, <2>2
  <2>10. \A i \in fresh : i \in q.head + 1 .. Len(q.items)
    BY <1>1, <2>2
  <2> HIDE DEF fresh
  <2>3. h \in q.head .. Len(q.items) /\ \A i \in q.head + 1 .. h : Stale(q.items[i], clock)
    <3>1. CASE fresh = {}
      <4>1. \A i \in q.head + 1 .. Len(q.items) : Stale(q.items[i], clock)
        BY <2>9, <3>1
      <4> QED  BY <1>1, <3>1, <4>1
    <3>2. CASE fresh # {}
      <4>1. Min(fresh) \in fresh /\ \A y \in fresh : Min(fresh) <= y
        BY <2>2, <3>2, MinOfNaturals
      <4>2. Min(fresh) \in q.head + 1 .. Len(q.items)
        BY <2>10, <4>1
      <4>3. ASSUME NEW i \in q.head + 1 .. Min(fresh) - 1 PROVE Stale(q.items[i], clock)
        <5>1. ~(Min(fresh) <= i) /\ i \in q.head + 1 .. Len(q.items)
          BY <1>1, <4>2
        <5>2. i \notin fresh
          BY <4>1, <5>1
        <5> QED  BY <2>9, <5>1, <5>2
      <4> QED  BY <1>1, <3>2, <4>2, <4>3
    <3> QED  BY <3>1, <3>2
  <2> HIDE DEF h
  <2>4. r \in Queues /\ r.items = q.items /\ r.head = h
    BY <1>1, <2>3 DEF Queues
  <2> HIDE DEF r
  <2>5. Live(r) = From(q.items, h)
    BY <2>4, LiveSays
  <2> DEFINE k == h - q.head
  <2>6. k \in 0 .. Len(q.items) - q.head /\ q.head + k = h
    BY <1>1, <2>3
  <2>7. From(Live(q), k) = From(q.items, h)
    <3> HIDE DEF k
    <3> QED  BY <1>1, <2>6, FromFrom
  <2>8. ASSUME NEW i \in 1 .. k PROVE Stale(Live(q)[i], clock)
    <3>1. q.head + i \in q.head + 1 .. h /\ i \in 1 .. Len(q.items) - q.head
      BY <1>1, <2>3, <2>6
    <3> QED  BY <1>1, <2>3, <3>1
  <2> HIDE DEF k
  <2> QED  BY <1>1, <2>1, <2>4, <2>5, <2>6, <2>7, <2>8
<1> QED  BY <1>1, <1>2, <1>3

\* enqueue adds its payload behind what waits, of which the oldest may have been passed over.
LEMMA AppendedSays ==
    ASSUME NEW q \in Queues, NEW payload \in Payloads, NEW clock \in 0 .. MaxTime
    PROVE  /\ Appended(q, payload, clock) \in Queues
           /\ \E k \in 0 .. Len(Live(q)) :
                 /\ Live(Appended(q, payload, clock)) = Append(From(Live(q), k), [payload |-> payload, at |-> clock])
                 /\ \A i \in 1 .. k : Stale(Live(q)[i], clock)
<1> DEFINE item == [payload |-> payload, at |-> clock]
           p == Pruned(q, clock)
           r == [p EXCEPT !.items = Append(@, item)]
<1>1. item \in Item /\ clock \in Nat
  BY Numbers DEF Item
<1>2. p \in Queues /\ \E k \in 0 .. Len(Live(q)) : Live(p) = From(Live(q), k) /\ \A i \in 1 .. k : Stale(Live(q)[i], clock)
  BY <1>1, PrunedSays
<1>3. Appended(q, payload, clock) = Compacted(r)
  BY DEF Appended
<1> HIDE DEF item, p
<1>4. /\ p.items \in Seq(Item) /\ p.head \in 0 .. Len(p.items) /\ Len(p.items) \in Nat
      /\ Live(p) \in Seq(Item) /\ Len(Live(p)) = Len(p.items) - p.head
      /\ \A i \in 1 .. Len(p.items) - p.head : Live(p)[i] = p.items[p.head + i]
  BY <1>2, LiveSays
<1>5. /\ Append(p.items, item) \in Seq(Item) /\ Len(Append(p.items, item)) = Len(p.items) + 1
      /\ \A i \in 1 .. Len(p.items) : Append(p.items, item)[i] = p.items[i]
      /\ Append(p.items, item)[Len(p.items) + 1] = item
  BY <1>1, <1>4, AppendProperties
<1>6. r \in Queues /\ r.items = Append(p.items, item) /\ r.head = p.head
  <2>1. r = [items |-> Append(p.items, item), head |-> p.head]
    <3>1. r = [p EXCEPT !.items = Append(p.items, item)]
      OBVIOUS
    <3> HIDE DEF r
    <3> QED  BY <1>2, <3>1, QueueSays
  <2>2. p.head \in Nat /\ p.head <= Len(Append(p.items, item))
    BY <1>4, <1>5
  <2>3. [items |-> Append(p.items, item), head |-> p.head] \in Queues
    BY <1>2, <1>5, <2>2, QueueSays
  <2> QED  BY <2>1, <2>3
<1> HIDE DEF r
<1>7. /\ Live(r) \in Seq(Item) /\ Len(Live(r)) = Len(p.items) + 1 - p.head
      /\ \A i \in 1 .. Len(p.items) + 1 - p.head : Live(r)[i] = Append(p.items, item)[p.head + i]
  <2>1. /\ Live(r) \in Seq(Item) /\ Len(Live(r)) = Len(r.items) - r.head
        /\ \A i \in 1 .. Len(r.items) - r.head : Live(r)[i] = r.items[r.head + i]
    BY <1>6, LiveSays
  <2>2. r.items = Append(p.items, item) /\ r.head = p.head /\ Len(r.items) = Len(p.items) + 1
    BY <1>5, <1>6
  <2>3. Len(r.items) - r.head = Len(p.items) + 1 - p.head
    BY <1>4, <2>2
  <2>4. ASSUME NEW i \in 1 .. Len(p.items) + 1 - p.head
        PROVE  Live(r)[i] = Append(p.items, item)[p.head + i]
    BY <2>1, <2>2, <2>3
  <2> QED  BY <2>1, <2>3, <2>4
<1>8. /\ Append(Live(p), item) \in Seq(Item) /\ Len(Append(Live(p), item)) = Len(Live(p)) + 1
      /\ \A i \in 1 .. Len(Live(p)) : Append(Live(p), item)[i] = Live(p)[i]
      /\ Append(Live(p), item)[Len(Live(p)) + 1] = item
  BY <1>1, <1>4, AppendProperties
<1>9. ASSUME NEW i \in 1 .. Len(Live(p)) + 1 PROVE Live(r)[i] = Append(Live(p), item)[i]
  <2>1. CASE i = Len(Live(p)) + 1
    <3>1. p.head + i = Len(p.items) + 1 /\ i \in 1 .. Len(p.items) + 1 - p.head
      BY <1>4, <2>1
    <3> QED  BY <1>5, <1>7, <1>8, <2>1, <3>1
  <2>2. CASE i # Len(Live(p)) + 1
    <3>1. i \in 1 .. Len(Live(p)) /\ i \in 1 .. Len(p.items) - p.head /\ i \in 1 .. Len(p.items) + 1 - p.head
          /\ p.head + i \in 1 .. Len(p.items)
      <4>1. Len(Live(p)) = Len(p.items) - p.head /\ p.head \in Nat /\ Len(p.items) \in Nat
        BY <1>4
      <4>2. i \in 1 .. Len(p.items) - p.head + 1
        BY <4>1
      <4>3. i # Len(p.items) - p.head + 1
        BY <2>2, <4>1
      <4>4. i \in 1 .. Len(p.items) - p.head
        BY <4>1, <4>2, <4>3
      <4> QED  BY <4>1, <4>4
    <3> QED  BY <1>4, <1>5, <1>7, <1>8, <3>1
  <2> QED  BY <2>1, <2>2
<1>10. Live(r) = Append(Live(p), item)
  <2>1. Len(Live(r)) = Len(Live(p)) + 1
    BY <1>4, <1>7
  <2> QED  BY <1>7, <1>8, <1>9, <2>1, SeqEqual
<1>11. Compacted(r) \in Queues /\ Live(Compacted(r)) = Append(Live(p), item)
  BY <1>6, <1>10, CompactedSays
<1> QED  BY <1>2, <1>3, <1>11 DEF item

\* The payloads of the items, in their order.
LEMMA PayloadsSay ==
    ASSUME NEW w \in Seq(Item)
    PROVE  /\ PayloadsOf(w) \in Seq(Payloads) /\ Len(PayloadsOf(w)) = Len(w) /\ Len(w) \in Nat
           /\ DOMAIN PayloadsOf(w) = 1 .. Len(w)
           /\ \A i \in 1 .. Len(w) : w[i] \in Item /\ PayloadsOf(w)[i] = w[i].payload /\ PayloadsOf(w)[i] \in Payloads
<1>1. Len(w) \in Nat /\ DOMAIN w = 1 .. Len(w)
  BY LenProperties
<1>2. ASSUME NEW i \in 1 .. Len(w) PROVE w[i] \in Item /\ w[i].payload \in Payloads
  <2>1. w[i] \in Item
    BY ElementOfSeq
  <2> QED  BY <2>1 DEF Item
<1>3. PayloadsOf(w) = [i \in 1 .. Len(w) |-> w[i].payload]
  BY <1>1 DEF PayloadsOf
<1>4. PayloadsOf(w) \in [1 .. Len(w) -> Payloads]
  BY <1>2, <1>3
<1>5. PayloadsOf(w) \in Seq(Payloads)
  BY <1>1, <1>4, SeqDef
<1>6. DOMAIN PayloadsOf(w) = 1 .. Len(w)
  BY <1>3
<1>7. Len(PayloadsOf(w)) = Len(w)
  <2>1. DOMAIN PayloadsOf(w) = 1 .. Len(PayloadsOf(w)) /\ Len(PayloadsOf(w)) \in Nat
    BY <1>5, LenProperties
  <2>2. \A a, b \in Nat : 1 .. a = 1 .. b => a = b
    <3> SUFFICES ASSUME NEW a \in Nat, NEW b \in Nat, 1 .. a = 1 .. b PROVE a = b
      OBVIOUS
    <3>1. (a >= 1 => a \in 1 .. b) /\ (b >= 1 => b \in 1 .. a)
      OBVIOUS
    <3> QED  BY <3>1
  <2> QED  BY <1>1, <1>6, <2>1, <2>2
<1> QED  BY <1>1, <1>2, <1>3, <1>5, <1>6, <1>7

\* popOldest passes over the oldest items, hands out the next n and keeps the rest.
LEMMA PoppedSays ==
    ASSUME NEW q \in Queues, NEW count \in Nat, NEW clock \in Nat
    PROVE  /\ Popped(q, count, clock).queue \in Queues
           /\ \E k \in 0 .. Len(Live(q)) : \E n \in 0 .. Len(Live(q)) - k :
                 /\ Live(Popped(q, count, clock).queue) = From(Live(q), k + n)
                 /\ Popped(q, count, clock).payloads = PayloadsOf(SubSeq(From(Live(q), k), 1, n))
                 /\ \A i \in 1 .. k : Stale(Live(q)[i], clock)
<1> DEFINE p == Pruned(q, clock)
           n == Min({count, Len(Live(p))})
           r == [p EXCEPT !.head = @ + n]
<1>1. PICK k \in 0 .. Len(Live(q)) : Live(p) = From(Live(q), k) /\ \A i \in 1 .. k : Stale(Live(q)[i], clock)
  BY PrunedSays
<1>2. p \in Queues
  BY PrunedSays
<1>3. /\ Popped(q, count, clock).payloads = PayloadsOf(SubSeq(Live(p), 1, n))
      /\ Popped(q, count, clock).queue = IF Live(p) = <<>> THEN NoItems ELSE Compacted(r)
  BY DEF Popped
<1> HIDE DEF p
<1>4. /\ p.items \in Seq(Item) /\ p.head \in 0 .. Len(p.items) /\ Len(p.items) \in Nat
      /\ Live(p) \in Seq(Item) /\ Len(Live(p)) = Len(p.items) - p.head /\ Live(p) = From(p.items, p.head)
  BY <1>2, LiveSays
<1>5. Live(q) \in Seq(Item) /\ Len(Live(q)) \in Nat
  BY LiveSays, LenProperties
<1>6. Len(Live(p)) = Len(Live(q)) - k /\ Len(Live(p)) \in Nat
  BY <1>1, <1>5, FromSays
<1>7. n \in 0 .. Len(Live(p))
  <2> DEFINE both == {count, Len(Live(p))}
  <2>1. both \in SUBSET Nat /\ both # {}
    BY <1>6
  <2>2. Min(both) \in both /\ \A y \in both : Min(both) <= y
    BY <2>1, MinOfNaturals
  <2>3. n \in Nat /\ n <= Len(Live(p))
    BY <2>1, <2>2
  <2> QED  BY <1>6, <2>3
<1> HIDE DEF n
<1>8. From(Live(p), n) = From(Live(q), k + n)
  BY <1>1, <1>5, <1>6, <1>7, FromFrom
<1>9. /\ Popped(q, count, clock).queue \in Queues
      /\ Live(Popped(q, count, clock).queue) = From(Live(p), n)
  <2>1. CASE Live(p) = <<>>
    <3>1. n = 0 /\ Len(Live(p)) = 0
      BY <1>7, <2>1, EmptySeq
    <3>2. From(Live(p), 0) \in Seq(Item) /\ Len(From(Live(p), 0)) = 0
      BY <1>4, <3>1, FromSays
    <3>3. From(Live(p), 0) = <<>>
      BY <3>2, EmptySeq
    <3> QED  BY <1>3, <2>1, <3>1, <3>3, NoItemsSay
  <2>2. CASE Live(p) # <<>>
    <3>1. r \in Queues /\ r.items = p.items /\ r.head = p.head + n
      <4>1. r = [items |-> p.items, head |-> p.head + n]
        BY <1>2, QueueSays
      <4>2. p.head + n \in Nat /\ p.head + n <= Len(p.items)
        <5>1. Len(Live(p)) = Len(p.items) - p.head /\ p.head \in Nat /\ Len(p.items) \in Nat
          BY <1>4
        <5> QED  BY <1>7, <5>1
      <4>3. [items |-> p.items, head |-> p.head + n] \in Queues
        BY <1>2, <1>4, <4>2, QueueSays
      <4> QED  BY <4>1, <4>3
    <3> HIDE DEF r
    <3>2. Live(r) = From(p.items, p.head + n)
      BY <3>1, LiveSays
    <3>3. From(Live(p), n) = From(p.items, p.head + n)
      BY <1>4, <1>7, FromFrom
    <3>4. Compacted(r) \in Queues /\ Live(Compacted(r)) = Live(r)
      BY <3>1, CompactedSays
    <3> QED  BY <1>3, <2>2, <3>2, <3>3, <3>4
  <2> QED  BY <2>1, <2>2
<1>10. n \in 0 .. Len(Live(q)) - k
  BY <1>6, <1>7
<1> QED  BY <1>1, <1>3, <1>8, <1>9, <1>10

\* --- payloads ---
NoneTwice(w) == \A i, j \in DOMAIN w : w[i] = w[j] => i = j

LEMMA RangeSays ==
    ASSUME NEW S, NEW w \in Seq(S)
    PROVE  /\ Len(w) \in Nat /\ DOMAIN w = 1 .. Len(w)
           /\ Range(w) = {w[i] : i \in 1 .. Len(w)}
           /\ Range(w) \in SUBSET S
           /\ w = <<>> => Range(w) = {}
<1>1. Len(w) \in Nat /\ DOMAIN w = 1 .. Len(w)
  BY LenProperties
<1>2. Range(w) = {w[i] : i \in 1 .. Len(w)} /\ Range(w) \in SUBSET S
  BY RangeEquality, RangeOfSeq
<1>3. w = <<>> => Len(w) = 0
  BY EmptySeq
<1>4. w = <<>> => Range(w) = {}
  BY <1>1, <1>2, <1>3
<1> QED  BY <1>1, <1>2, <1>4

LEMMA EmptyRange == Range(<<>>) = {}
<1>1. <<>> \in Seq({})
  BY EmptySeq
<1> QED  BY <1>1, RangeSays

\* What is left of a sequence, what joins it, and what follows its head: their elements,
\* none of them twice.
LEMMA FromRange ==
    ASSUME NEW S, NEW w \in Seq(S), NEW k \in 0 .. Len(w)
    PROVE  /\ Range(From(w, k)) \in SUBSET Range(w)
           /\ NoneTwice(w) => NoneTwice(From(w, k))
           /\ NoneTwice(w) => Range(SubSeq(w, 1, k)) \cap Range(From(w, k)) = {}
           /\ Range(w) = Range(SubSeq(w, 1, k)) \cup Range(From(w, k))
           /\ NoneTwice(w) => NoneTwice(SubSeq(w, 1, k))
<1> DEFINE a == SubSeq(w, 1, k)
           b == From(w, k)
<1>1. Len(w) \in Nat /\ k \in Nat /\ k <= Len(w) /\ DOMAIN w = 1 .. Len(w)
  BY RangeSays
<1>2. /\ b \in Seq(S) /\ Len(b) = Len(w) - k
      /\ \A i \in 1 .. Len(w) - k : b[i] = w[k + i] /\ k + i \in 1 .. Len(w)
  <2>1. \A i \in 1 .. Len(w) - k : k + i \in 1 .. Len(w)
    BY <1>1
  <2>2. b \in Seq(S) /\ Len(b) = Len(w) - k /\ \A i \in 1 .. Len(w) - k : b[i] = w[k + i]
    BY FromSays
  <2> HIDE DEF b
  <2> QED  BY <2>1, <2>2
<1>3. /\ a \in Seq(S) /\ Len(a) = k
      /\ \A i \in 1 .. k : a[i] = w[i] /\ i \in 1 .. Len(w)
  BY <1>1, FirstSays
<1> HIDE DEF a, b
<1>4. /\ Range(w) = {w[i] : i \in 1 .. Len(w)}
      /\ DOMAIN a = 1 .. k /\ Range(a) = {a[i] : i \in 1 .. k}
      /\ DOMAIN b = 1 .. Len(w) - k /\ Range(b) = {b[i] : i \in 1 .. Len(w) - k}
  <2>1. DOMAIN a = 1 .. Len(a) /\ Range(a) = {a[i] : i \in 1 .. Len(a)}
    BY <1>3, RangeSays
  <2>2. DOMAIN b = 1 .. Len(b) /\ Range(b) = {b[i] : i \in 1 .. Len(b)}
    BY <1>2, RangeSays
  <2> QED  BY <1>2, <1>3, <2>1, <2>2, RangeSays
<1>5. Range(b) \in SUBSET Range(w) /\ Range(a) \in SUBSET Range(w)
  BY <1>2, <1>3, <1>4
<1>6. ASSUME NEW i \in 1 .. Len(w) PROVE w[i] \in Range(a) \cup Range(b)
  <2>1. CASE i <= k
    <3>1. i \in 1 .. k
      BY <1>1, <2>1
    <3> QED  BY <1>3, <1>4, <3>1
  <2>2. CASE ~(i <= k)
    <3>1. i - k \in 1 .. Len(w) - k /\ k + (i - k) = i
      BY <1>1, <2>2
    <3>2. b[i - k] = w[i]
      BY <1>2, <3>1
    <3> QED  BY <1>4, <3>1, <3>2
  <2> QED  BY <2>1, <2>2
<1>7. ASSUME NoneTwice(w) PROVE NoneTwice(b)
  <2>1. ASSUME NEW i \in 1 .. Len(w) - k, NEW j \in 1 .. Len(w) - k, b[i] = b[j] PROVE i = j
    <3>1. w[k + i] = w[k + j] /\ k + i \in 1 .. Len(w) /\ k + j \in 1 .. Len(w)
      BY <1>2, <2>1
    <3>2. k + i = k + j
      BY <1>1, <1>7, <3>1 DEF NoneTwice
    <3> QED  BY <1>1, <3>2
  <2> QED  BY <1>4, <2>1 DEF NoneTwice
<1>8. ASSUME NoneTwice(w) PROVE NoneTwice(a)
  BY <1>1, <1>3, <1>4, <1>8 DEF NoneTwice
<1>9. ASSUME NoneTwice(w) PROVE Range(a) \cap Range(b) = {}
  <2>1. ASSUME NEW i \in 1 .. k, NEW j \in 1 .. Len(w) - k PROVE a[i] # b[j]
    <3>1. a[i] = w[i] /\ b[j] = w[k + j] /\ i \in 1 .. Len(w) /\ k + j \in 1 .. Len(w) /\ i # k + j
      BY <1>1, <1>2, <1>3
    <3> QED  BY <1>1, <1>9, <3>1 DEF NoneTwice
  <2> QED  BY <1>4, <2>1
<1>10. Range(w) = Range(a) \cup Range(b)
  BY <1>4, <1>5, <1>6
<1> QED  BY <1>5, <1>7, <1>8, <1>9, <1>10 DEF a, b

LEMMA AppendRange ==
    ASSUME NEW S, NEW w \in Seq(S), NEW x \in S
    PROVE  /\ Range(Append(w, x)) = Range(w) \cup {x}
           /\ NoneTwice(w) /\ x \notin Range(w) => NoneTwice(Append(w, x))
<1> DEFINE v == Append(w, x)
<1>1. /\ v \in Seq(S) /\ Len(v) = Len(w) + 1 /\ Len(w) \in Nat
      /\ \A i \in 1 .. Len(w) : v[i] = w[i]
      /\ v[Len(w) + 1] = x
  BY AppendProperties, LenProperties
<1> HIDE DEF v
<1>2. /\ Range(w) = {w[i] : i \in 1 .. Len(w)} /\ DOMAIN w = 1 .. Len(w)
      /\ Range(v) = {v[i] : i \in 1 .. Len(w) + 1} /\ DOMAIN v = 1 .. Len(w) + 1
  <2>1. DOMAIN v = 1 .. Len(v) /\ Range(v) = {v[i] : i \in 1 .. Len(v)}
    BY <1>1, RangeSays
  <2> QED  BY <1>1, <2>1, RangeSays
<1>3. \A i \in 1 .. Len(w) + 1 : i = Len(w) + 1 \/ i \in 1 .. Len(w)
  BY <1>1
<1>4. (\A i \in 1 .. Len(w) : i \in 1 .. Len(w) + 1) /\ Len(w) + 1 \in 1 .. Len(w) + 1
  BY <1>1
<1>5. Range(v) = Range(w) \cup {x}
  BY <1>1, <1>2, <1>3, <1>4
<1>6. ASSUME NoneTwice(w), x \notin Range(w) PROVE NoneTwice(v)
  <2>1. \A i \in 1 .. Len(w) : v[i] \in Range(w) /\ v[i] # x
    BY <1>1, <1>2, <1>6
  <2>2. ASSUME NEW i \in 1 .. Len(w) + 1, NEW j \in 1 .. Len(w) + 1, v[i] = v[j] PROVE i = j
    BY <1>1, <1>2, <1>3, <1>6, <2>1, <2>2 DEF NoneTwice
  <2> QED  BY <1>2, <2>2 DEF NoneTwice
<1> QED  BY <1>5, <1>6 DEF v

LEMMA TailSays ==
    ASSUME NEW S, NEW w \in Seq(S), w # <<>>
    PROVE  /\ Head(w) \in S /\ Tail(w) \in Seq(S) /\ Head(w) \in Range(w)
           /\ Range(w) = {Head(w)} \cup Range(Tail(w))
           /\ NoneTwice(w) => NoneTwice(Tail(w)) /\ Head(w) \notin Range(Tail(w))
<1>1. Len(w) \in Nat \ {0} /\ DOMAIN w = 1 .. Len(w)
  BY EmptySeq, RangeSays
<1>2. Head(w) \in S /\ Tail(w) \in Seq(S) /\ Tail(w) = From(w, 1) /\ Head(w) = w[1]
  BY HeadTailProperties, TailIsSubSeq DEF From
<1>3. /\ NoneTwice(w) => NoneTwice(Tail(w))
      /\ NoneTwice(w) => Range(SubSeq(w, 1, 1)) \cap Range(Tail(w)) = {}
      /\ Range(w) = Range(SubSeq(w, 1, 1)) \cup Range(Tail(w))
  <2>1. 1 \in 0 .. Len(w)
    BY <1>1
  <2>2. /\ NoneTwice(w) => NoneTwice(From(w, 1))
        /\ NoneTwice(w) => Range(SubSeq(w, 1, 1)) \cap Range(From(w, 1)) = {}
        /\ Range(w) = Range(SubSeq(w, 1, 1)) \cup Range(From(w, 1))
    BY <2>1, FromRange
  <2> QED  BY <1>2, <2>2
<1>4. Range(SubSeq(w, 1, 1)) = {Head(w)}
  <2> DEFINE v == SubSeq(w, 1, 1)
  <2>1. v \in Seq(S) /\ Len(v) = 1 /\ v[1] = w[1]
    <3>1. 1 \in 0 .. Len(w)
      BY <1>1
    <3>2. v \in Seq(S) /\ Len(v) = 1 /\ \A i \in 1 .. 1 : v[i] = w[i]
      BY <3>1, FirstSays
    <3> HIDE DEF v
    <3> QED  BY <3>2
  <2> HIDE DEF v
  <2>2. Range(v) = {v[i] : i \in 1 .. 1}
    BY <2>1, RangeSays
  <2> QED  BY <1>2, <2>1, <2>2 DEF v
<1> QED  BY <1>2, <1>3, <1>4

\* Cutting, taking and appending, seen from the payloads.
LEMMA PayloadsFrom ==
    ASSUME NEW w \in Seq(Item), NEW k \in 0 .. Len(w)
    PROVE  PayloadsOf(From(w, k)) = From(PayloadsOf(w), k)
<1> DEFINE v == From(w, k)
           p == PayloadsOf(w)
<1>1. /\ p \in Seq(Payloads) /\ Len(p) = Len(w) /\ Len(w) \in Nat
      /\ \A i \in 1 .. Len(w) : p[i] = w[i].payload
  BY PayloadsSay
<1>2. v \in Seq(Item) /\ Len(v) = Len(w) - k /\ \A i \in 1 .. Len(w) - k : v[i] = w[k + i]
  BY FromSays
<1> HIDE DEF v, p
<1>3. /\ PayloadsOf(v) \in Seq(Payloads) /\ Len(PayloadsOf(v)) = Len(w) - k
      /\ \A i \in 1 .. Len(w) - k : PayloadsOf(v)[i] = v[i].payload
  BY <1>2, PayloadsSay
<1>4. /\ From(p, k) \in Seq(Payloads) /\ Len(From(p, k)) = Len(w) - k
      /\ \A i \in 1 .. Len(w) - k : From(p, k)[i] = p[k + i]
  BY <1>1, FromSays
<1>5. ASSUME NEW i \in 1 .. Len(w) - k PROVE PayloadsOf(v)[i] = From(p, k)[i]
  <2>1. k + i \in 1 .. Len(w)
    BY <1>1
  <2> QED  BY <1>1, <1>2, <1>3, <1>4, <2>1
<1>6. PayloadsOf(v) = From(p, k)
  BY <1>3, <1>4, <1>5, SeqEqual
<1> QED  BY <1>6 DEF v, p

LEMMA PayloadsFirst ==
    ASSUME NEW w \in Seq(Item), NEW n \in 0 .. Len(w)
    PROVE  PayloadsOf(SubSeq(w, 1, n)) = SubSeq(PayloadsOf(w), 1, n)
<1> DEFINE v == SubSeq(w, 1, n)
           p == PayloadsOf(w)
<1>1. /\ p \in Seq(Payloads) /\ Len(p) = Len(w) /\ Len(w) \in Nat
      /\ \A i \in 1 .. Len(w) : p[i] = w[i].payload
  BY PayloadsSay
<1>2. v \in Seq(Item) /\ Len(v) = n /\ \A i \in 1 .. n : v[i] = w[i]
  BY FirstSays
<1> HIDE DEF v, p
<1>3. /\ PayloadsOf(v) \in Seq(Payloads) /\ Len(PayloadsOf(v)) = n
      /\ \A i \in 1 .. n : PayloadsOf(v)[i] = v[i].payload
  BY <1>2, PayloadsSay
<1>4. /\ SubSeq(p, 1, n) \in Seq(Payloads) /\ Len(SubSeq(p, 1, n)) = n
      /\ \A i \in 1 .. n : SubSeq(p, 1, n)[i] = p[i]
  BY <1>1, FirstSays
<1>5. ASSUME NEW i \in 1 .. n PROVE PayloadsOf(v)[i] = SubSeq(p, 1, n)[i]
  <2>1. i \in 1 .. Len(w)
    BY <1>1
  <2> QED  BY <1>1, <1>2, <1>3, <1>4, <2>1
<1>6. PayloadsOf(v) = SubSeq(p, 1, n)
  BY <1>3, <1>4, <1>5, SeqEqual
<1> QED  BY <1>6 DEF v, p

LEMMA PayloadsAppend ==
    ASSUME NEW w \in Seq(Item), NEW item \in Item
    PROVE  PayloadsOf(Append(w, item)) = Append(PayloadsOf(w), item.payload)
<1> DEFINE v == Append(w, item)
           p == PayloadsOf(w)
<1>1. /\ p \in Seq(Payloads) /\ Len(p) = Len(w) /\ Len(w) \in Nat
      /\ \A i \in 1 .. Len(w) : p[i] = w[i].payload
  BY PayloadsSay
<1>2. /\ v \in Seq(Item) /\ Len(v) = Len(w) + 1 /\ \A i \in 1 .. Len(w) : v[i] = w[i]
      /\ v[Len(w) + 1] = item
  BY AppendProperties
<1>0. item.payload \in Payloads
  BY DEF Item
<1> HIDE DEF v, p
<1>3. /\ PayloadsOf(v) \in Seq(Payloads) /\ Len(PayloadsOf(v)) = Len(w) + 1
      /\ \A i \in 1 .. Len(w) + 1 : PayloadsOf(v)[i] = v[i].payload
  BY <1>2, PayloadsSay
<1>4. /\ Append(p, item.payload) \in Seq(Payloads) /\ Len(Append(p, item.payload)) = Len(w) + 1
      /\ \A i \in 1 .. Len(w) : Append(p, item.payload)[i] = p[i]
      /\ Append(p, item.payload)[Len(w) + 1] = item.payload
  BY <1>0, <1>1, AppendProperties
<1>5. ASSUME NEW i \in 1 .. Len(w) + 1 PROVE PayloadsOf(v)[i] = Append(p, item.payload)[i]
  <2>1. CASE i = Len(w) + 1
    BY <1>2, <1>3, <1>4, <2>1
  <2>2. CASE i \in 1 .. Len(w)
    BY <1>1, <1>2, <1>3, <1>4, <2>2
  <2> QED  BY <1>1, <2>1, <2>2
<1>6. PayloadsOf(v) = Append(p, item.payload)
  BY <1>3, <1>4, <1>5, SeqEqual
<1> QED  BY <1>6 DEF v, p

\* The payloads that wait in the queue.
Waiting == PayloadsOf(Live(queue))

\* From q to r: some of the oldest are too old, and payload waits behind the others.
Adds(q, r, payload, clock) ==
    /\ r \in Queues
    /\ \E k \in 0 .. Len(PayloadsOf(Live(q))) :
          /\ PayloadsOf(Live(r)) = Append(From(PayloadsOf(Live(q)), k), payload)
          /\ \A i \in 1 .. k : Stale(Live(q)[i], clock)

\* From q to r: some of the oldest are too old, and the next ones are handed out.
HandsOut(q, r, payloads, clock) ==
    /\ r \in Queues
    /\ \E k \in 0 .. Len(PayloadsOf(Live(q))) : \E n \in 0 .. Len(PayloadsOf(Live(q))) - k :
          /\ PayloadsOf(Live(r)) = From(PayloadsOf(Live(q)), k + n)
          /\ payloads = SubSeq(From(PayloadsOf(Live(q)), k), 1, n)
          /\ \A i \in 1 .. k : Stale(Live(q)[i], clock)

\* enqueue: prunes, appends and compacts.
LEMMA AppendedAdds ==
    ASSUME NEW q \in Queues, NEW payload \in Payloads, NEW clock \in 0 .. MaxTime
    PROVE  Adds(q, Appended(q, payload, clock), payload, clock)
<1> DEFINE r == Appended(q, payload, clock)
           item == [payload |-> payload, at |-> clock]
           w == Live(q)
<1>1. r \in Queues
  BY AppendedSays
<1>2. PICK k \in 0 .. Len(w) : Live(r) = Append(From(w, k), item) /\ \A i \in 1 .. k : Stale(w[i], clock)
  BY AppendedSays
<1>3. item \in Item /\ item.payload = payload
  BY DEF Item
<1>4. w \in Seq(Item)
  BY LiveSays
<1> HIDE DEF r, item, w
<1>5. From(w, k) \in Seq(Item)
  BY <1>4, FromSays
<1>6. PayloadsOf(Live(r)) = Append(From(PayloadsOf(w), k), payload)
  BY <1>2, <1>3, <1>4, <1>5, PayloadsAppend, PayloadsFrom
<1>7. Len(PayloadsOf(w)) = Len(w)
  BY <1>4, PayloadsSay
<1> QED  BY <1>1, <1>2, <1>6, <1>7 DEF Adds, r, w

\* popOldest: prunes, hands out and compacts.
LEMMA PoppedHandsOut ==
    ASSUME NEW q \in Queues, NEW count \in Nat, NEW clock \in Nat
    PROVE  HandsOut(q, Popped(q, count, clock).queue, Popped(q, count, clock).payloads, clock)
<1> DEFINE r == Popped(q, count, clock)
           w == Live(q)
<1>1. r.queue \in Queues
  BY PoppedSays
<1>2. PICK k \in 0 .. Len(w) : \E n \in 0 .. Len(w) - k :
                 /\ Live(r.queue) = From(w, k + n)
                 /\ r.payloads = PayloadsOf(SubSeq(From(w, k), 1, n))
                 /\ \A i \in 1 .. k : Stale(w[i], clock)
  BY PoppedSays
<1>3. PICK n \in 0 .. Len(w) - k :
                 /\ Live(r.queue) = From(w, k + n)
                 /\ r.payloads = PayloadsOf(SubSeq(From(w, k), 1, n))
                 /\ \A i \in 1 .. k : Stale(w[i], clock)
  BY <1>2
<1>4. w \in Seq(Item)
  BY LiveSays
<1> HIDE DEF r, w
<1>5. Len(PayloadsOf(w)) = Len(w) /\ Len(w) \in Nat
  BY <1>4, PayloadsSay
<1>6. k + n \in 0 .. Len(w)
  BY <1>5
<1>7. From(w, k) \in Seq(Item) /\ Len(From(w, k)) = Len(w) - k
  BY <1>4, FromSays
<1>8. PayloadsOf(Live(r.queue)) = From(PayloadsOf(w), k + n)
  BY <1>3, <1>4, <1>6, PayloadsFrom
<1>9. n \in 0 .. Len(From(w, k))
  BY <1>7
<1>10. PayloadsOf(SubSeq(From(w, k), 1, n)) = SubSeq(PayloadsOf(From(w, k)), 1, n)
  BY <1>7, <1>9, PayloadsFirst
<1>11. PayloadsOf(From(w, k)) = From(PayloadsOf(w), k)
  BY <1>4, PayloadsFrom
<1> QED  BY <1>1, <1>3, <1>5, <1>8, <1>10, <1>11 DEF HandsOut, r, w

\* Who has something in hand: an Enqueue under way has a payload, that of the dispatcher
\* the one given last; the forwarder has a batch exactly while it pushes it or gives it
\* back, and lets its Enqueue end before it pops again. No clock that was read is ahead
\* of the time.
Phases ==
    /\ \A t \in Threads : /\ enqueuer[t].pc = "idle" <=> enqueuer[t].payload = 0
                          /\ enqueuer[t].clock <= now
    /\ enqueuer["dispatcher"].pc # "idle" => enqueuer["dispatcher"].payload = given
    /\ forwarder.pc \in {"poll", "pop", "cancelled", "off"} <=> forwarder.batch = <<>>
    /\ forwarder.pc \in {"pop", "push", "off"} => enqueuer["forwarder"].pc = "idle"
    /\ forwarder.clock <= now
    /\ poller.clock <= now

\* In home mode the queue stays switched on and nobody subscribes.
AtHome ==
    HomeMode =>
        /\ enabled
        /\ admin.pc = "idle"
        /\ subscribers = {}
        /\ \A s \in Subscribers : handler[s].pc \in {"away", "gone"}

\* A subscriber channel is open while somebody has yet to close it: the queue lists it,
\* the switching off holds it, or the connection has taken it back, never two of them.
\* Before the connection subscribes the channel is new.
OwnedBy(s) ==
    /\ s \in subscribers => s \notin admin.closing /\ ~channel[s].closed /\ handler[s].pc = "stream"
    /\ s \in admin.closing => ~channel[s].closed /\ handler[s].pc \in {"stream", "gone"}
    /\ handler[s].pc = "close" => ~channel[s].closed
    /\ handler[s].pc = "stream" => s \in subscribers \/ s \in admin.closing \/ channel[s].closed
    /\ handler[s].pc \in {"away", "command"} =>
          channel[s] = [buffer |-> <<>>, closed |-> FALSE] /\ handler[s].got = <<>> /\ handler[s].from = 0

\* SetEnabled closes channels exactly while it has some to close.
Owned == (admin.pc = "close" <=> admin.closing # {}) /\ \A s \in Subscribers : OwnedBy(s)

\* got and then b are what log holds after its first from elements.
Follows(from, got, b, log) ==
    /\ from + Len(got) + Len(b) <= Len(log)
    /\ \A i \in 1 .. Len(got) : got[i] = log[from + i]
    /\ \A i \in 1 .. Len(b) : b[i] = log[from + Len(got) + i]

\* What a connection has sent and what its channel holds are consecutive payloads from
\* the moment it subscribed; as long as the queue lists it they are all of them.
Followed ==
    \A s \in Subscribers :
        /\ Follows(handler[s].from, handler[s].got, channel[s].buffer, told)
        /\ s \in subscribers =>
              handler[s].from + Len(handler[s].got) + Len(channel[s].buffer) = Len(told)

\* No payload is in two places: none waits twice, is twice in the batch of the forwarder,
\* or is in both; and all of them have been dispatched.
Distinct ==
    /\ NoneTwice(Waiting)
    /\ NoneTwice(forwarder.batch)
    /\ Range(Waiting) \cap Away = {}
    /\ enqueuer["forwarder"].payload \notin Range(forwarder.batch)
    /\ \A p \in Range(Waiting) \cup Away : p <= Dispatched
    /\ Len(told) <= Dispatched

\* The inductive invariant of the usage queue.
QueueInv == QueueTypeOK /\ Phases /\ AtHome /\ Owned /\ Followed /\ Distinct

\* The members of BoundedSeq are short sequences.
LEMMA BoundedSays ==
    ASSUME NEW S, NEW n \in Nat, NEW b
    PROVE  b \in BoundedSeq(S, n) <=> b \in Seq(S) /\ Len(b) <= n
<1>1. BoundedSeq(S, n) = UNION {[1 .. m -> S] : m \in 0 .. n}
  BY DEF BoundedSeq, SeqOf
<1>2. ASSUME b \in BoundedSeq(S, n) PROVE b \in Seq(S) /\ Len(b) <= n
  <2>1. PICK m \in 0 .. n : b \in [1 .. m -> S]
    BY <1>1, <1>2
  <2>2. b \in Seq(S)
    BY <2>1, SeqDef
  <2>3. DOMAIN b = 1 .. m /\ DOMAIN b = 1 .. Len(b) /\ Len(b) \in Nat
    BY <2>1, <2>2, LenProperties
  <2>4. Len(b) <= m
    BY <2>3
  <2> QED  BY <2>2, <2>3, <2>4
<1>3. ASSUME b \in Seq(S), Len(b) <= n PROVE b \in BoundedSeq(S, n)
  <2>1. b \in [1 .. Len(b) -> S] /\ Len(b) \in 0 .. n
    BY <1>3, LenProperties
  <2> QED  BY <1>1, <2>1
<1> QED  BY <1>2, <1>3

\* QueueTypeOK, one variable at a time.
QueueT == queue \in Queues
ChannelT == /\ channel \in [Subscribers -> [buffer : Seq(Payloads), closed : BOOLEAN]]
            /\ \A s \in Subscribers : Len(channel[s].buffer) <= Buffer
AdminT == admin \in [pc : {"idle", "clear", "close"},
                     closing : SUBSET Subscribers, changes : 0 .. MaxSwitches]
EnqueuerT == enqueuer \in [Threads -> [pc : {"idle", "publish", "append"},
                                       payload : Payloads \cup {0}, clock : 0 .. MaxTime]]
HandlerT == handler \in [Subscribers -> [pc : {"away", "command", "stream", "close", "gone"},
                                         from : 0 .. MaxPayloads, got : Seq(Payloads)]]
PollerT == poller \in [pc : {"idle", "pop", "off"}, clock : 0 .. MaxTime]
ForwarderT == forwarder \in [pc : {"poll", "pop", "push", "requeue", "cancelled", "off"},
                             batch : Seq(Payloads), clock : 0 .. MaxTime]

\* The type invariant in these parts.
Typed ==
    /\ now \in 0 .. MaxTime /\ enabled \in BOOLEAN /\ QueueT /\ subscribers \in SUBSET Subscribers
    /\ ChannelT /\ AdminT /\ given \in 0 .. MaxPayloads /\ EnqueuerT /\ HandlerT /\ PollerT /\ ForwarderT
    /\ told \in Seq(Payloads) /\ taken \in Seq(Payloads) /\ home \in SUBSET Payloads

LEMMA TypeParts == QueueTypeOK <=> Typed
<1>1. QueueT <=> queue \in [items : Seq(Item), head : Nat] /\ queue.head <= Len(queue.items)
  BY DEF QueueT, Queues
<1>2. ChannelT <=> channel \in [Subscribers -> [buffer : BoundedSeq(Payloads, Buffer), closed : BOOLEAN]]
  <2>0. Buffer \in Nat
    BY Numbers
  <2>1. \A b : b \in BoundedSeq(Payloads, Buffer) <=> b \in Seq(Payloads) /\ Len(b) <= Buffer
    BY <2>0, BoundedSays
  <2> QED  BY <2>1 DEF ChannelT
<1> QED  BY <1>1, <1>2 DEF QueueTypeOK, Typed, AdminT, EnqueuerT, HandlerT, PollerT, ForwarderT

LEMMA TypePartsNext == QueueTypeOK' <=> Typed'
BY TypeParts, PTL

\* What a step leaves alone stays as it was.
LEMMA Frame ==
    ASSUME QueueInv
    PROVE  /\ UNCHANGED <<subscribers, channel, admin, handler>> => Owned'
           /\ UNCHANGED <<subscribers, channel, handler, told>> => Followed'
           /\ UNCHANGED <<queue, forwarder, enqueuer, given, told>> => Distinct'
           /\ UNCHANGED <<enqueuer, given, forwarder, poller, now>> => Phases'
           /\ UNCHANGED <<forwarder, enabled, admin, subscribers, handler>> => AtHome'
<1>1. UNCHANGED <<subscribers, channel, admin, handler>> => Owned'
  BY DEF QueueInv, Owned, OwnedBy
<1>2. UNCHANGED <<subscribers, channel, handler, told>> => Followed'
  BY DEF QueueInv, Followed
<1>3. UNCHANGED <<queue, forwarder, enqueuer, given, told>> => Distinct'
  <2> SUFFICES ASSUME UNCHANGED <<queue, forwarder, enqueuer, given, told>> PROVE Distinct'
    OBVIOUS
  <2>1. Waiting' = Waiting /\ Away' = Away /\ Dispatched' = Dispatched
    BY DEF Waiting, Away, Dispatched
  <2> QED  BY <2>1 DEF QueueInv, Distinct
<1>4. UNCHANGED <<enqueuer, given, forwarder, poller, now>> => Phases'
  BY DEF QueueInv, Phases
<1>5. UNCHANGED <<forwarder, enabled, admin, subscribers, handler>> => AtHome'
  BY DEF QueueInv, AtHome, HomeMode
<1> QED  BY <1>1, <1>2, <1>3, <1>4, <1>5

\* What the invariant says of an enqueuer and of the batch.
LEMMA Facts ==
    ASSUME QueueInv
    PROVE  /\ given \in 0 .. MaxPayloads /\ given \in Nat /\ Dispatched \in Nat
           /\ \A t \in Threads : enqueuer[t].payload \in 0 .. MaxPayloads
                               /\ enqueuer[t].clock \in 0 .. MaxTime
                               /\ (enqueuer[t].pc # "idle" => enqueuer[t].payload \in Payloads)
           /\ Dispatched = IF enqueuer["dispatcher"].pc = "idle" THEN given ELSE given - 1
           /\ queue \in Queues /\ Waiting \in Seq(Payloads)
           /\ forwarder.batch \in Seq(Payloads) /\ forwarder.clock \in 0 .. MaxTime
           /\ told \in Seq(Payloads) /\ Len(told) \in Nat
           /\ now \in Nat
<1>1. Typed
  BY TypeParts DEF QueueInv
<1>2. given \in 0 .. MaxPayloads /\ given \in Nat /\ MaxPayloads \in Nat /\ now \in Nat
  BY <1>1, Numbers DEF Typed
<1>3. ASSUME NEW t \in Threads
      PROVE  /\ enqueuer[t].payload \in 0 .. MaxPayloads
             /\ enqueuer[t].clock \in 0 .. MaxTime
             /\ enqueuer[t].pc # "idle" => enqueuer[t].payload \in Payloads
  <2>1. enqueuer[t].payload \in Payloads \cup {0} /\ enqueuer[t].clock \in 0 .. MaxTime
    BY <1>1 DEF Typed, EnqueuerT
  <2>2. enqueuer[t].pc = "idle" <=> enqueuer[t].payload = 0
    BY DEF QueueInv, Phases
  <2> QED  BY <1>2, <2>1, <2>2 DEF Payloads
<1>4. Dispatched \in Nat
  <2>1. enqueuer["dispatcher"].pc # "idle" => given \in Payloads
    BY <1>3 DEF QueueInv, Phases, Threads
  <2> QED  BY <1>2, <2>1 DEF Dispatched, Payloads
<1>5. queue \in Queues /\ Waiting \in Seq(Payloads)
  <2>1. queue \in Queues
    BY <1>1 DEF Typed, QueueT
  <2> QED  BY <2>1, LiveSays, PayloadsSay DEF Waiting
<1>6. forwarder.batch \in Seq(Payloads) /\ forwarder.clock \in 0 .. MaxTime
  BY <1>1 DEF Typed, ForwarderT
<1>7. told \in Seq(Payloads) /\ Len(told) \in Nat
  BY <1>1, LenProperties DEF Typed
<1> QED  BY <1>2, <1>3, <1>4, <1>5, <1>6, <1>7 DEF Dispatched

LEMMA DispatchKeeps == ASSUME QueueInv, Dispatch PROVE QueueInv'
<1>1. /\ enqueuer["dispatcher"].pc = "idle" /\ given < MaxPayloads /\ given' = given + 1
      /\ enqueuer' = [enqueuer EXCEPT !["dispatcher"] =
             IF enabled THEN [pc |-> "publish", payload |-> given', clock |-> 0] ELSE NoPayload]
      /\ UNCHANGED <<now, enabled, lockedVars, admin, handler, poller, forwarder, told, taken, home>>
  BY DEF Dispatch, Enqueue
<1>2. given' \in Payloads /\ given' \in 0 .. MaxPayloads
  BY <1>1, Facts, Numbers DEF Payloads
<1>3. EnqueuerT'
  <2>1. EnqueuerT
    BY TypeParts DEF QueueInv, Typed
  <2>2. 0 \in 0 .. MaxTime
    BY Numbers
  <2>3. CASE enabled
    BY <1>1, <1>2, <2>1, <2>2, <2>3 DEF EnqueuerT
  <2>4. CASE ~enabled
    BY <1>1, <2>1, <2>2, <2>4 DEF EnqueuerT, NoPayload
  <2> QED  BY <2>3, <2>4
<1>4. QueueTypeOK'
  BY <1>1, <1>2, <1>3, TypeParts, TypePartsNext
     DEF QueueInv, Typed, lockedVars, QueueT, ChannelT, AdminT, HandlerT, PollerT, ForwarderT
<1>5. /\ enqueuer'["forwarder"] = enqueuer["forwarder"]
      /\ enqueuer'["dispatcher"].clock = 0
      /\ IF enabled THEN enqueuer'["dispatcher"].pc = "publish" /\ enqueuer'["dispatcher"].payload = given'
         ELSE enqueuer'["dispatcher"].pc = "idle" /\ enqueuer'["dispatcher"].payload = 0
  <2>1. EnqueuerT
    BY TypeParts DEF QueueInv, Typed
  <2> QED  BY <1>1, <2>1 DEF EnqueuerT, Threads, NoPayload
<1>6. Phases'
  <2>1. given' # 0 /\ 0 <= now
    BY <1>2, Facts DEF Payloads
  <2> QED  BY <1>1, <1>5, <2>1 DEF QueueInv, Phases, Threads
<1>7. Distinct'
  <2>1. Waiting' = Waiting /\ Away' = Away
    BY <1>1, <1>5 DEF Waiting, Away, lockedVars
  <2>2. Dispatched' \in Nat /\ Dispatched' >= Dispatched
    BY <1>1, <1>5, Facts DEF Dispatched
  <2>3. \A p \in Range(Waiting) \cup Away : p \in Int
    <3>1. Range(Waiting) \in SUBSET Payloads /\ Range(forwarder.batch) \in SUBSET Payloads
      BY Facts, RangeSays
    <3> QED  BY <3>1, Facts DEF Away, Payloads, Threads
  <2> QED  BY <1>1, <1>5, <2>1, <2>2, <2>3, Facts DEF QueueInv, Distinct
<1>8. Owned' /\ Followed' /\ AtHome'
  BY <1>1, Frame DEF lockedVars
<1> QED  BY <1>4, <1>6, <1>7, <1>8 DEF QueueInv

\* What waits or is away are payloads that were dispatched.
LEMMA Whereabouts ==
    ASSUME QueueInv
    PROVE  /\ Range(Waiting) \in SUBSET Payloads
           /\ Range(forwarder.batch) \in SUBSET Payloads
           /\ \A p \in Range(Waiting) \cup Away : p \in Payloads /\ p \in Nat /\ p <= Dispatched
           /\ Away = Range(forwarder.batch) \cup
                        (IF enqueuer["forwarder"].pc = "idle" THEN {} ELSE {enqueuer["forwarder"].payload})
<1>1. Range(Waiting) \in SUBSET Payloads /\ Range(forwarder.batch) \in SUBSET Payloads
  BY Facts, RangeSays
<1>2. enqueuer["forwarder"].pc = "idle" <=> enqueuer["forwarder"].payload = 0
  BY DEF QueueInv, Phases, Threads
<1>3. Away = Range(forwarder.batch) \cup
                        (IF enqueuer["forwarder"].pc = "idle" THEN {} ELSE {enqueuer["forwarder"].payload})
  BY <1>2 DEF Away
<1>4. enqueuer["forwarder"].pc # "idle" => enqueuer["forwarder"].payload \in Payloads
  BY Facts DEF Threads
<1>5. ASSUME NEW p \in Range(Waiting) \cup Away PROVE p \in Payloads
  BY <1>1, <1>3, <1>4
<1>6. \A p \in Payloads : p \in Nat
  BY DEF Payloads
<1> QED  BY <1>1, <1>3, <1>5, <1>6 DEF QueueInv, Distinct

\* Following the log, one step further.
LEMMA FollowsLonger ==
    ASSUME NEW got \in Seq(Payloads), NEW b \in Seq(Payloads), NEW log \in Seq(Payloads),
           NEW p \in Payloads,
           NEW from \in Nat, Follows(from, got, b, log)
    PROVE  /\ Follows(from, got, b, Append(log, p)) /\ Len(Append(log, p)) = Len(log) + 1
           /\ from + Len(got) + Len(b) = Len(log) =>
                 /\ Follows(from, got, Append(b, p), Append(log, p))
                 /\ from + Len(got) + Len(Append(b, p)) = Len(Append(log, p))
<1> DEFINE l == Append(log, p)
           c == Append(b, p)
           start == from + Len(got)
<1>1. Len(got) \in Nat /\ Len(b) \in Nat /\ Len(log) \in Nat
  BY LenProperties
<1>2. Len(l) = Len(log) + 1 /\ (\A i \in 1 .. Len(log) : l[i] = log[i]) /\ l[Len(log) + 1] = p
  BY AppendProperties
<1>3. Len(c) = Len(b) + 1 /\ (\A i \in 1 .. Len(b) : c[i] = b[i]) /\ c[Len(b) + 1] = p
  BY AppendProperties
<1>4. /\ start + Len(b) <= Len(log)
      /\ \A i \in 1 .. Len(got) : got[i] = log[from + i]
      /\ \A i \in 1 .. Len(b) : b[i] = log[start + i]
  BY DEF Follows
<1> HIDE DEF l, c
<1>5. ASSUME NEW i \in 1 .. Len(got) PROVE got[i] = l[from + i]
  <2>1. from + i \in 1 .. Len(log)
    BY <1>1, <1>4
  <2> QED  BY <1>2, <1>4, <2>1
<1>6. ASSUME NEW i \in 1 .. Len(b) PROVE b[i] = l[start + i]
  <2>1. start + i \in 1 .. Len(log)
    BY <1>1, <1>4
  <2> QED  BY <1>2, <1>4, <2>1
<1>7. Follows(from, got, b, l)
  BY <1>1, <1>2, <1>4, <1>5, <1>6 DEF Follows
<1>8. ASSUME start + Len(b) = Len(log) PROVE Follows(from, got, c, l) /\ start + Len(c) = Len(l)
  <2>1. ASSUME NEW i \in 1 .. Len(b) + 1 PROVE c[i] = l[start + i]
    <3>1. CASE i = Len(b) + 1
      <4>1. start + i = Len(log) + 1
        BY <1>1, <1>8, <3>1
      <4> QED  BY <1>2, <1>3, <3>1, <4>1
    <3>2. CASE i \in 1 .. Len(b)
      BY <1>3, <1>6, <3>2
    <3> QED  BY <1>1, <3>1, <3>2
  <2>2. start \in Nat /\ start + Len(c) = Len(l) /\ start + Len(c) <= Len(l)
    BY <1>1, <1>2, <1>3, <1>8
  <2> QED  BY <1>3, <1>5, <2>1, <2>2 DEF Follows
<1> QED  BY <1>2, <1>7, <1>8 DEF l, c

LEMMA FollowsReceived ==
    ASSUME NEW got \in Seq(Payloads), NEW b \in Seq(Payloads), b # <<>>, NEW log \in Seq(Payloads),
           NEW from \in Nat, Follows(from, got, b, log)
    PROVE  /\ Follows(from, Append(got, Head(b)), Tail(b), log)
           /\ from + Len(Append(got, Head(b))) + Len(Tail(b)) = from + Len(got) + Len(b)
<1> DEFINE c == Append(got, Head(b))
           t == Tail(b)
<1>1. Len(got) \in Nat /\ Len(b) \in Nat \ {0} /\ Len(log) \in Nat
  BY LenProperties, EmptySeq
<1>2. Head(b) \in Payloads /\ Head(b) = b[1] /\ Len(t) = Len(b) - 1 /\ \A i \in 1 .. Len(t) : t[i] = b[i + 1]
  BY HeadTailProperties
<1>3. Len(c) = Len(got) + 1 /\ (\A i \in 1 .. Len(got) : c[i] = got[i]) /\ c[Len(got) + 1] = Head(b)
  BY <1>2, AppendProperties
<1> HIDE DEF c, t
<1>4. /\ from + Len(got) + Len(b) <= Len(log)
      /\ \A i \in 1 .. Len(got) : got[i] = log[from + i]
      /\ \A i \in 1 .. Len(b) : b[i] = log[from + Len(got) + i]
  BY DEF Follows
<1>5. ASSUME NEW i \in 1 .. Len(got) + 1 PROVE c[i] = log[from + i]
  <2>1. CASE i = Len(got) + 1
    <3>1. c[i] = b[1] /\ from + i = from + Len(got) + 1 /\ 1 \in 1 .. Len(b)
      BY <1>1, <1>2, <1>3, <2>1
    <3> QED  BY <1>4, <3>1
  <2>2. CASE i \in 1 .. Len(got)
    BY <1>3, <1>4, <2>2
  <2> QED  BY <1>1, <2>1, <2>2
<1>6. ASSUME NEW i \in 1 .. Len(t) PROVE t[i] = log[from + Len(c) + i]
  <2>1. i + 1 \in 1 .. Len(b) /\ from + Len(c) + i = from + Len(got) + (i + 1)
    BY <1>1, <1>2, <1>3
  <2> QED  BY <1>2, <1>4, <2>1
<1>7. from + Len(c) + Len(t) = from + Len(got) + Len(b)
  BY <1>1, <1>2, <1>3
<1> QED  BY <1>3, <1>4, <1>5, <1>6, <1>7 DEF Follows, c, t

LEMMA PublishKeeps == ASSUME QueueInv, NEW t \in Threads, PublishToSubscribers(t) PROVE QueueInv'
<1> DEFINE p == enqueuer[t].payload
<1>1. p \in Payloads /\ enqueuer[t].pc = "publish"
  BY Facts DEF PublishToSubscribers
<1>2. UNCHANGED <<now, enabled, queue, admin, given, handler, poller, forwarder, taken, home>>
  BY DEF PublishToSubscribers
<1>3. Typed
  BY TypeParts DEF QueueInv
<1>4. now \in 0 .. MaxTime /\ now \in Nat
  BY <1>3, Numbers DEF Typed
<1>5. CASE subscribers = {}
  <2>1. /\ enqueuer' = [enqueuer EXCEPT ![t].pc = "append", ![t].clock = now]
        /\ UNCHANGED <<subscribers, channel, told>>
    BY <1>5 DEF PublishToSubscribers
  <2>2. EnqueuerT'
    BY <1>3, <1>4, <2>1 DEF Typed, EnqueuerT
  <2>3. QueueTypeOK'
    BY <1>2, <1>3, <2>1, <2>2, TypePartsNext
       DEF Typed, QueueT, ChannelT, AdminT, HandlerT, PollerT, ForwarderT
  <2>4. \A u \in Threads : /\ enqueuer'[u].payload = enqueuer[u].payload
                           /\ (enqueuer'[u].pc = "idle" <=> enqueuer[u].pc = "idle")
                           /\ enqueuer'[u].clock <= now
    <3>1. \A u \in Threads : enqueuer[u].clock <= now
      BY DEF QueueInv, Phases
    <3> QED  BY <1>1, <1>3, <1>4, <2>1, <3>1 DEF Typed, EnqueuerT
  <2>5. Phases'
    BY <1>2, <2>4 DEF QueueInv, Phases, Threads
  <2>6. Distinct'
    <3>1. Waiting' = Waiting /\ Away' = Away /\ Dispatched' = Dispatched
      BY <1>2, <2>4 DEF Waiting, Away, Dispatched, Threads
    <3> QED  BY <1>2, <2>1, <2>4, <3>1 DEF QueueInv, Distinct, Threads
  <2>7. Owned' /\ Followed' /\ AtHome'
    BY <1>2, <2>1, Frame
  <2> QED  BY <2>3, <2>5, <2>6, <2>7 DEF QueueInv
<1>6. CASE subscribers # {}
  <2>1. /\ channel' = [s \in Subscribers |-> IF s \in subscribers THEN Offer(s, p) ELSE channel[s]]
        /\ subscribers' = {s \in subscribers : ~Full(s)}
        /\ told' = Append(told, p)
        /\ enqueuer' = [enqueuer EXCEPT ![t] = NoPayload]
    BY <1>6 DEF PublishToSubscribers, DropSlow
  <2>2. ~HomeMode
    BY <1>6 DEF QueueInv, AtHome
  <2>3. t = "dispatcher" /\ p = given
    <3>1. enqueuer["forwarder"].pc = "idle"
      BY <2>2 DEF QueueInv, Phases, HomeMode
    <3>2. t = "dispatcher"
      BY <1>1, <3>1 DEF Threads
    <3> QED  BY <1>1, <3>2 DEF QueueInv, Phases
  <2>4. /\ channel \in [Subscribers -> [buffer : Seq(Payloads), closed : BOOLEAN]]
        /\ \A s \in Subscribers : Len(channel[s].buffer) <= Buffer /\ channel[s].buffer \in Seq(Payloads)
                                  /\ Len(channel[s].buffer) \in Nat
        /\ Buffer \in Nat /\ subscribers \in SUBSET Subscribers
    BY <1>3, Numbers, LenProperties DEF Typed, ChannelT
  <2>5. ASSUME NEW s \in Subscribers
        PROVE  /\ s \notin subscribers => channel'[s] = channel[s]
               /\ s \in subscribers /\ Full(s) =>
                     channel'[s].buffer = channel[s].buffer /\ channel'[s].closed
               /\ s \in subscribers /\ ~Full(s) =>
                     /\ channel'[s].buffer = Append(channel[s].buffer, p)
                     /\ channel'[s].closed = channel[s].closed
                     /\ Len(channel[s].buffer) + 1 <= Buffer
               /\ channel'[s] \in [buffer : Seq(Payloads), closed : BOOLEAN]
    <3>1. channel[s] \in [buffer : Seq(Payloads), closed : BOOLEAN] /\ Append(channel[s].buffer, p) \in Seq(Payloads)
      BY <1>1, <2>4, AppendProperties
    <3>2. CASE s \notin subscribers
      BY <2>1, <3>1, <3>2
    <3>3. CASE s \in subscribers /\ Full(s)
      <4>1. channel'[s] = [channel[s] EXCEPT !.closed = TRUE]
        BY <2>1, <3>3 DEF Offer
      <4> QED  BY <3>1, <3>3, <4>1
    <3>4. CASE s \in subscribers /\ ~Full(s)
      <4>1. channel'[s] = [channel[s] EXCEPT !.buffer = Append(@, p)]
        BY <2>1, <3>4 DEF Offer
      <4>2. Len(channel[s].buffer) + 1 <= Buffer
        BY <2>4, <3>4 DEF Full
      <4> QED  BY <3>1, <3>4, <4>1, <4>2
    <3> QED  BY <3>2, <3>3, <3>4
  <2>6. ChannelT'
    <3>1. ASSUME NEW s \in Subscribers PROVE Len(channel'[s].buffer) <= Buffer
      <4>1. Len(Append(channel[s].buffer, p)) = Len(channel[s].buffer) + 1
        BY <1>1, <2>4, AppendProperties
      <4> QED  BY <2>4, <2>5, <4>1
    <3>2. channel' \in [Subscribers -> [buffer : Seq(Payloads), closed : BOOLEAN]]
      BY <2>1, <2>5
    <3> QED  BY <3>1, <3>2 DEF ChannelT
  <2>7. EnqueuerT'
    <3>1. 0 \in 0 .. MaxTime
      BY Numbers
    <3> QED  BY <1>3, <2>1, <3>1 DEF Typed, EnqueuerT, NoPayload
  <2>8. told' \in Seq(Payloads) /\ Len(told') = Len(told) + 1
    BY <1>1, <2>1, Facts, AppendProperties
  <2>9. QueueTypeOK'
    BY <1>2, <1>3, <2>1, <2>4, <2>6, <2>7, <2>8, TypePartsNext
       DEF Typed, QueueT, AdminT, HandlerT, PollerT, ForwarderT
  <2>10. /\ enqueuer'["forwarder"] = enqueuer["forwarder"]
         /\ enqueuer'["dispatcher"] = NoPayload
    BY <1>3, <2>1, <2>3 DEF Typed, EnqueuerT, Threads
  <2>11. Phases'
    BY <1>2, <1>4, <2>10 DEF QueueInv, Phases, Threads, NoPayload
  <2>12. Distinct'
    <3>1. Waiting' = Waiting /\ Away' = Away
      BY <1>2, <2>10 DEF Waiting, Away
    <3>2. Dispatched' = Dispatched + 1
      BY <1>1, <1>2, <2>3, <2>10, Facts DEF Dispatched, NoPayload
    <3> QED  BY <1>2, <2>8, <2>10, <3>1, <3>2, Facts, Whereabouts DEF QueueInv, Distinct
  <2>13. Owned'
    <3>1. ASSUME NEW s \in Subscribers PROVE OwnedBy(s)'
      <4>1. OwnedBy(s)
        BY DEF QueueInv, Owned
      <4> QED  BY <1>2, <2>1, <2>5, <4>1 DEF OwnedBy
    <3> QED  BY <1>2, <3>1 DEF QueueInv, Owned
  <2>14. Followed'
    <3>1. ASSUME NEW s \in Subscribers
          PROVE  /\ Follows(handler[s].from, handler[s].got, channel'[s].buffer, told')
                 /\ s \in subscribers' =>
                       handler[s].from + Len(handler[s].got) + Len(channel'[s].buffer) = Len(told')
      <4>1. handler[s].got \in Seq(Payloads) /\ handler[s].from \in Nat /\ channel[s].buffer \in Seq(Payloads)
        BY <1>3, <2>4 DEF Typed, HandlerT
      <4>2. Follows(handler[s].from, handler[s].got, channel[s].buffer, told)
        BY DEF QueueInv, Followed
      <4>3. /\ Follows(handler[s].from, handler[s].got, channel[s].buffer, told')
            /\ handler[s].from + Len(handler[s].got) + Len(channel[s].buffer) = Len(told) =>
                 /\ Follows(handler[s].from, handler[s].got, Append(channel[s].buffer, p), told')
                 /\ handler[s].from + Len(handler[s].got) + Len(Append(channel[s].buffer, p)) = Len(told')
        <5>1. told \in Seq(Payloads) /\ told' = Append(told, p)
          BY <2>1, Facts
        <5> HIDE DEF p
        <5> DEFINE from == handler[s].from
                   got == handler[s].got
                   b == channel[s].buffer
        <5>2. /\ got \in Seq(Payloads) /\ b \in Seq(Payloads) /\ told \in Seq(Payloads) /\ p \in Payloads
              /\ from \in Nat /\ Follows(from, got, b, told)
          BY <1>1, <4>1, <4>2, <5>1 DEF p
        <5> HIDE DEF from, got, b
        <5>3. /\ Follows(from, got, b, Append(told, p)) 
              /\ from + Len(got) + Len(b) = Len(told) =>
                    /\ Follows(from, got, Append(b, p), Append(told, p))
                    /\ from + Len(got) + Len(Append(b, p)) = Len(Append(told, p))
          BY <5>2, FollowsLonger
        <5> QED  BY <5>1, <5>3 DEF from, got, b
      <4>4. s \in subscribers => handler[s].from + Len(handler[s].got) + Len(channel[s].buffer) = Len(told)
        BY DEF QueueInv, Followed
      <4> QED  BY <2>1, <2>5, <4>3, <4>4
    <3> QED  BY <1>2, <3>1 DEF Followed
  <2>15. AtHome'
    BY <1>2, <2>2 DEF AtHome, HomeMode
  <2> QED  BY <2>9, <2>11, <2>12, <2>13, <2>14, <2>15 DEF QueueInv
<1> QED  BY <1>5, <1>6

\* Followed, of one connection.
FollowedBy(s) ==
    /\ Follows(handler[s].from, handler[s].got, channel[s].buffer, told)
    /\ s \in subscribers =>
          handler[s].from + Len(handler[s].got) + Len(channel[s].buffer) = Len(told)

\* The step of a connection disturbs what is said of that connection only.
LEMMA OneConnection ==
    ASSUME QueueInv, NEW s \in Subscribers, HandlerUnchanged, ~HomeMode,
           HandlerT', ChannelT', subscribers' \in SUBSET Subscribers,
           \A u \in Subscribers \ {s} : /\ handler'[u] = handler[u] /\ channel'[u] = channel[u]
                                        /\ u \in subscribers' <=> u \in subscribers,
           OwnedBy(s)', FollowedBy(s)'
    PROVE  QueueInv'
<1>1. UNCHANGED <<now, enabled, queue, admin, given, enqueuer, poller, forwarder, told, taken, home>>
  BY DEF HandlerUnchanged
<1>2. QueueTypeOK'
  BY <1>1, TypeParts, TypePartsNext
     DEF QueueInv, Typed, QueueT, AdminT, EnqueuerT, PollerT, ForwarderT
<1>3. ASSUME NEW u \in Subscribers PROVE OwnedBy(u)' /\ FollowedBy(u)'
  <2>1. CASE u = s
    BY <2>1
  <2>2. CASE u # s
    <3>1. OwnedBy(u) /\ FollowedBy(u)
      BY DEF QueueInv, Owned, Followed, FollowedBy
    <3>2. /\ handler'[u] = handler[u] /\ channel'[u] = channel[u] /\ u \in subscribers' <=> u \in subscribers
          /\ admin' = admin /\ told' = told
      BY <1>1, <2>2
    <3> QED  BY <3>1, <3>2 DEF OwnedBy, FollowedBy
  <2> QED  BY <2>1, <2>2
<1>4. Owned' /\ Followed'
  BY <1>1, <1>3 DEF QueueInv, Owned, Followed, FollowedBy
<1>5. Phases' /\ Distinct'
  BY <1>1, Frame
<1>6. AtHome'
  BY <1>1 DEF AtHome, HomeMode
<1> QED  BY <1>2, <1>4, <1>5, <1>6 DEF QueueInv

\* What the invariant says of one connection.
LEMMA ConnectionSays ==
    ASSUME QueueInv, NEW s \in Subscribers
    PROVE  /\ handler \in [Subscribers -> [pc : {"away", "command", "stream", "close", "gone"},
                                           from : 0 .. MaxPayloads, got : Seq(Payloads)]]
           /\ channel \in [Subscribers -> [buffer : Seq(Payloads), closed : BOOLEAN]]
           /\ \A u \in Subscribers : Len(channel[u].buffer) <= Buffer
           /\ handler[s].from \in Nat /\ handler[s].got \in Seq(Payloads) /\ channel[s].buffer \in Seq(Payloads)
           /\ subscribers \in SUBSET Subscribers
           /\ OwnedBy(s) /\ FollowedBy(s)
           /\ handler[s].pc \notin {"away", "gone"} => ~HomeMode
           /\ s \in subscribers => s \notin admin.closing
<1>1. Typed
  BY TypeParts DEF QueueInv
<1>2. /\ handler \in [Subscribers -> [pc : {"away", "command", "stream", "close", "gone"},
                                      from : 0 .. MaxPayloads, got : Seq(Payloads)]]
      /\ channel \in [Subscribers -> [buffer : Seq(Payloads), closed : BOOLEAN]]
      /\ \A u \in Subscribers : Len(channel[u].buffer) <= Buffer
      /\ subscribers \in SUBSET Subscribers
  BY <1>1 DEF Typed, HandlerT, ChannelT
<1>3. handler[s].from \in Nat /\ handler[s].got \in Seq(Payloads) /\ channel[s].buffer \in Seq(Payloads)
  BY <1>2, Numbers
<1>4. OwnedBy(s) /\ FollowedBy(s)
  BY DEF QueueInv, Owned, Followed, FollowedBy
<1>5. handler[s].pc \notin {"away", "gone"} => ~HomeMode
  BY DEF QueueInv, AtHome
<1> QED  BY <1>2, <1>3, <1>4, <1>5 DEF OwnedBy

LEMMA ConnectKeeps == ASSUME QueueInv, NEW s \in Subscribers, Connect(s) PROVE QueueInv'
<1>1. /\ handler[s].pc = "away" /\ ~HomeMode /\ HandlerUnchanged
      /\ handler' = [handler EXCEPT ![s].pc = "command"]
      /\ subscribers' = subscribers /\ channel' = channel /\ admin' = admin /\ told' = told
  BY DEF Connect, HandlerUnchanged
<1>2. HandlerT' /\ ChannelT' /\ subscribers' \in SUBSET Subscribers
  BY <1>1, ConnectionSays DEF HandlerT, ChannelT
<1>3. /\ handler'[s].pc = "command" /\ handler'[s].from = handler[s].from /\ handler'[s].got = handler[s].got
      /\ \A u \in Subscribers \ {s} : handler'[u] = handler[u]
  BY <1>1, ConnectionSays
<1>4. OwnedBy(s)'
  <2>1. OwnedBy(s)
    BY ConnectionSays
  <2> QED  BY <1>1, <1>3, <2>1 DEF OwnedBy
<1>5. FollowedBy(s)'
  <2>1. FollowedBy(s)
    BY ConnectionSays
  <2> QED  BY <1>1, <1>3, <2>1 DEF FollowedBy
<1> QED  BY <1>1, <1>2, <1>3, <1>4, <1>5, OneConnection

LEMMA SubscribeUsageKeeps == ASSUME QueueInv, NEW s \in Subscribers, SubscribeUsage(s) PROVE QueueInv'
<1>1. /\ handler[s].pc = "command" /\ HandlerUnchanged
      /\ handler' = [handler EXCEPT ![s].pc = "stream", ![s].from = Len(told)]
      /\ subscribers' = subscribers \cup {s} /\ channel' = channel /\ admin' = admin /\ told' = told
  BY DEF SubscribeUsage, HandlerUnchanged
<1>2. ~HomeMode
  BY <1>1, ConnectionSays
<1>3. Len(told) \in 0 .. MaxPayloads
  <2>1. Len(told) <= Dispatched /\ Dispatched <= given
    BY Facts DEF QueueInv, Distinct
  <2> QED  BY <2>1, Facts, Numbers
<1>4. HandlerT' /\ ChannelT' /\ subscribers' \in SUBSET Subscribers
  BY <1>1, <1>3, ConnectionSays DEF HandlerT, ChannelT
<1>5. /\ handler'[s].pc = "stream" /\ handler'[s].from = Len(told) /\ handler'[s].got = handler[s].got
      /\ \A u \in Subscribers \ {s} : handler'[u] = handler[u]
  BY <1>1, ConnectionSays
<1>6. /\ channel[s] = [buffer |-> <<>>, closed |-> FALSE] /\ handler[s].got = <<>>
      /\ s \notin admin.closing
  <2>1. OwnedBy(s)
    BY ConnectionSays
  <2> QED  BY <1>1, <2>1 DEF OwnedBy
<1>7. OwnedBy(s)'
  BY <1>1, <1>5, <1>6 DEF OwnedBy
<1>8. FollowedBy(s)'
  <2> DEFINE from == Len(told)
  <2>1. from \in Nat /\ Len(<<>>) = 0
    BY Facts, EmptySeq
  <2>2. Follows(from, <<>>, <<>>, told) /\ from + Len(<<>>) + Len(<<>>) = from
    <3> HIDE DEF from
    <3>1. from + 0 + 0 = from
      BY <2>1
    <3>2. \A i \in 1 .. 0 : FALSE
      OBVIOUS
    <3> QED  BY <2>1, <3>1, <3>2 DEF Follows, from
  <2>3. handler'[s].from = from /\ handler'[s].got = <<>> /\ channel'[s].buffer = <<>> /\ told' = told
    BY <1>1, <1>5, <1>6
  <2> HIDE DEF from
  <2>4. Follows(handler'[s].from, handler'[s].got, channel'[s].buffer, told')
    BY <2>2, <2>3
  <2>5. handler'[s].from + Len(handler'[s].got) + Len(channel'[s].buffer) = Len(told')
    BY <2>2, <2>3 DEF from
  <2> QED  BY <2>4, <2>5 DEF FollowedBy
<1> QED  BY <1>1, <1>2, <1>4, <1>5, <1>7, <1>8, OneConnection

LEMMA ReceiveKeeps == ASSUME QueueInv, NEW s \in Subscribers, Receive(s) PROVE QueueInv'
<1> DEFINE from == handler[s].from
           got == handler[s].got
           b == channel[s].buffer
<1>1. /\ handler[s].pc = "stream" /\ HandlerUnchanged /\ b # <<>>
      /\ handler' = [handler EXCEPT ![s].got = Append(got, Head(b))]
      /\ channel' = [channel EXCEPT ![s].buffer = Tail(b)]
      /\ subscribers' = subscribers /\ admin' = admin /\ told' = told
  BY DEF Receive, HandlerUnchanged
<1>2. ~HomeMode
  BY <1>1, ConnectionSays
<1>3. from \in Nat /\ got \in Seq(Payloads) /\ b \in Seq(Payloads)
  BY ConnectionSays
<1>4. /\ Append(got, Head(b)) \in Seq(Payloads) /\ Tail(b) \in Seq(Payloads) /\ Len(Tail(b)) <= Buffer
  <2>1. Head(b) \in Payloads /\ Tail(b) \in Seq(Payloads) /\ Len(Tail(b)) = Len(b) - 1 /\ Len(b) \in Nat
    BY <1>1, <1>3, HeadTailProperties, LenProperties
  <2>2. Append(got, Head(b)) \in Seq(Payloads)
    BY <1>3, <2>1, AppendProperties
  <2>3. Len(b) <= Buffer /\ Buffer \in Nat
    BY ConnectionSays, Numbers
  <2> QED  BY <2>1, <2>2, <2>3
<1>5. /\ handler'[s].pc = "stream" /\ handler'[s].from = from /\ handler'[s].got = Append(got, Head(b))
      /\ channel'[s].buffer = Tail(b) /\ channel'[s].closed = channel[s].closed
      /\ \A u \in Subscribers \ {s} : handler'[u] = handler[u] /\ channel'[u] = channel[u]
  BY <1>1, ConnectionSays
<1>6. HandlerT' /\ ChannelT' /\ subscribers' \in SUBSET Subscribers
  <2> HIDE DEF from, got, b
  <2>1. handler' \in [Subscribers -> [pc : {"away", "command", "stream", "close", "gone"},
                                      from : 0 .. MaxPayloads, got : Seq(Payloads)]]
    BY <1>1, <1>4, ConnectionSays
  <2>2. channel' \in [Subscribers -> [buffer : Seq(Payloads), closed : BOOLEAN]]
    BY <1>1, <1>4, ConnectionSays
  <2>3. \A u \in Subscribers : Len(channel'[u].buffer) <= Buffer
    BY <1>4, <1>5, ConnectionSays
  <2> QED  BY <1>1, <2>1, <2>2, <2>3, ConnectionSays DEF HandlerT, ChannelT
<1>7. OwnedBy(s)'
  <2>1. OwnedBy(s)
    BY ConnectionSays
  <2> QED  BY <1>1, <1>5, <2>1 DEF OwnedBy
<1>8. FollowedBy(s)'
  <2>1. /\ Follows(from, got, b, told)
        /\ s \in subscribers => from + Len(got) + Len(b) = Len(told)
    BY ConnectionSays DEF FollowedBy
  <2> HIDE DEF from, got, b
  <2>2. /\ Follows(from, Append(got, Head(b)), Tail(b), told)
        /\ from + Len(Append(got, Head(b))) + Len(Tail(b)) = from + Len(got) + Len(b)
    BY <1>1, <1>3, <2>1, Facts, FollowsReceived
  <2> QED  BY <1>1, <1>5, <2>1, <2>2 DEF FollowedBy
<1>9. \A u \in Subscribers \ {s} : /\ handler'[u] = handler[u] /\ channel'[u] = channel[u]
                                   /\ u \in subscribers' <=> u \in subscribers
  BY <1>1, <1>5
<1>10. HandlerUnchanged
  BY <1>1
<1> QED  BY <1>2, <1>6, <1>7, <1>8, <1>9, <1>10, OneConnection

LEMMA UnsubscribeKeeps ==
    ASSUME QueueInv, NEW s \in Subscribers, handler[s].pc = "stream", Unsubscribe(s)
    PROVE  QueueInv'
<1>1. /\ HandlerUnchanged
      /\ handler' = [handler EXCEPT ![s].pc = IF s \in subscribers THEN "close" ELSE "gone"]
      /\ subscribers' = subscribers \ {s} /\ channel' = channel /\ admin' = admin /\ told' = told
  BY DEF Unsubscribe, HandlerUnchanged
<1>2. ~HomeMode
  BY ConnectionSays
<1>3. HandlerT' /\ ChannelT' /\ subscribers' \in SUBSET Subscribers
  <2>1. HandlerT'
    BY <1>1, ConnectionSays DEF HandlerT
  <2>2. ChannelT'
    BY <1>1, ConnectionSays DEF ChannelT
  <2> QED  BY <1>1, <2>1, <2>2, ConnectionSays
<1>4. /\ handler'[s].pc = (IF s \in subscribers THEN "close" ELSE "gone")
      /\ handler'[s].from = handler[s].from /\ handler'[s].got = handler[s].got
      /\ \A u \in Subscribers \ {s} : handler'[u] = handler[u]
  BY <1>1, ConnectionSays
<1>5. OwnedBy(s)'
  <2>1. OwnedBy(s)
    BY ConnectionSays
  <2> QED  BY <1>1, <1>4, <2>1 DEF OwnedBy
<1>6. FollowedBy(s)'
  <2>1. FollowedBy(s)
    BY ConnectionSays
  <2> QED  BY <1>1, <1>4, <2>1 DEF FollowedBy
<1>7. \A u \in Subscribers \ {s} : /\ handler'[u] = handler[u] /\ channel'[u] = channel[u]
                                   /\ u \in subscribers' <=> u \in subscribers
  BY <1>1, <1>4
<1> QED  BY <1>1, <1>2, <1>3, <1>5, <1>6, <1>7, OneConnection

LEMMA CloseOwnKeeps == ASSUME QueueInv, NEW s \in Subscribers, CloseOwn(s) PROVE QueueInv'
<1>1. /\ handler[s].pc = "close" /\ HandlerUnchanged
      /\ handler' = [handler EXCEPT ![s].pc = "gone"]
      /\ channel' = [channel EXCEPT ![s].closed = TRUE]
      /\ subscribers' = subscribers /\ admin' = admin /\ told' = told
  BY DEF CloseOwn, HandlerUnchanged
<1>2. ~HomeMode
  BY <1>1, ConnectionSays
<1>3. /\ handler'[s].pc = "gone" /\ handler'[s].from = handler[s].from /\ handler'[s].got = handler[s].got
      /\ channel'[s].buffer = channel[s].buffer /\ channel'[s].closed
      /\ \A u \in Subscribers \ {s} : handler'[u] = handler[u] /\ channel'[u] = channel[u]
  BY <1>1, ConnectionSays
<1>4. HandlerT' /\ ChannelT' /\ subscribers' \in SUBSET Subscribers
  <2>1. \A u \in Subscribers : channel'[u].buffer = channel[u].buffer
    BY <1>3
  <2>2. channel' \in [Subscribers -> [buffer : Seq(Payloads), closed : BOOLEAN]]
    BY <1>1, ConnectionSays
  <2>3. HandlerT'
    BY <1>1, ConnectionSays DEF HandlerT
  <2>4. ChannelT'
    BY <2>1, <2>2, ConnectionSays DEF ChannelT
  <2> QED  BY <1>1, <2>3, <2>4, ConnectionSays
<1>5. OwnedBy(s)'
  <2>1. OwnedBy(s)
    BY ConnectionSays
  <2> QED  BY <1>1, <1>3, <2>1 DEF OwnedBy
<1>6. FollowedBy(s)'
  <2>1. FollowedBy(s)
    BY ConnectionSays
  <2> QED  BY <1>1, <1>3, <2>1 DEF FollowedBy
<1>7. \A u \in Subscribers \ {s} : /\ handler'[u] = handler[u] /\ channel'[u] = channel[u]
                                   /\ u \in subscribers' <=> u \in subscribers
  BY <1>1, <1>3
<1> QED  BY <1>1, <1>2, <1>4, <1>5, <1>6, <1>7, OneConnection

LEMMA HandlerKeeps == ASSUME QueueInv, NEW s \in Subscribers, Handler(s) PROVE QueueInv'
BY ConnectKeeps, SubscribeUsageKeeps, ReceiveKeeps, UnsubscribeKeeps, CloseOwnKeeps
   DEF Handler, Leave, StreamEnds

\* What is kept waits once, behind the others.
LEMMA WaitingGrows ==
    ASSUME QueueInv, NEW p \in Payloads, NEW clock, p \notin Range(Waiting),
           Adds(queue, queue', p, clock)
    PROVE  /\ QueueT' /\ NoneTwice(Waiting') /\ Range(Waiting') \in SUBSET (Range(Waiting) \cup {p})
           /\ p \in Range(Waiting')
<1> DEFINE w == Waiting
           v == Waiting'
<1>1. w \in Seq(Payloads) /\ NoneTwice(w)
  BY Facts DEF QueueInv, Distinct
<1>2. PICK k \in 0 .. Len(w) : v = Append(From(w, k), p)
  BY DEF Adds, Waiting
<1>3. queue' \in Queues
  BY DEF Adds
<1>4. p \notin Range(w)
  OBVIOUS
<1> HIDE DEF w, v
<1>5. From(w, k) \in Seq(Payloads) /\ Range(From(w, k)) \in SUBSET Range(w) /\ NoneTwice(From(w, k))
  BY <1>1, FromSays, FromRange
<1> DEFINE u == From(w, k)
<1>6. u \in Seq(Payloads) /\ NoneTwice(u) /\ p \notin Range(u) /\ Range(u) \in SUBSET Range(w) /\ v = Append(u, p)
  BY <1>2, <1>4, <1>5
<1> HIDE DEF u
<1>7. Range(v) = Range(u) \cup {p} /\ NoneTwice(v)
  BY <1>6, AppendRange
<1>8. Range(v) \in SUBSET (Range(w) \cup {p}) /\ p \in Range(v)
  BY <1>6, <1>7
<1> QED  BY <1>3, <1>7, <1>8 DEF v, w, QueueT

\* What is handed out was waiting, and waits no more.
LEMMA WaitingShrinks ==
    ASSUME QueueInv, NEW payloads, NEW clock, HandsOut(queue, queue', payloads, clock)
    PROVE  /\ QueueT' /\ NoneTwice(Waiting') /\ Range(Waiting') \in SUBSET Range(Waiting)
           /\ payloads \in Seq(Payloads) /\ NoneTwice(payloads) /\ Range(payloads) \in SUBSET Range(Waiting)
           /\ Range(payloads) \cap Range(Waiting') = {}
<1> DEFINE w == Waiting
           v == Waiting'
<1>1. w \in Seq(Payloads) /\ NoneTwice(w)
  BY Facts DEF QueueInv, Distinct
<1>2. /\ queue' \in Queues
      /\ \E k \in 0 .. Len(w) : \E n \in 0 .. Len(w) - k :
            v = From(w, k + n) /\ payloads = SubSeq(From(w, k), 1, n)
  BY DEF HandsOut, Waiting
<1> HIDE DEF w, v
<1>3. PICK k \in 0 .. Len(w) : \E n \in 0 .. Len(w) - k :
            v = From(w, k + n) /\ payloads = SubSeq(From(w, k), 1, n)
  BY <1>2
<1>4. PICK n \in 0 .. Len(w) - k : v = From(w, k + n) /\ payloads = SubSeq(From(w, k), 1, n)
  BY <1>3
<1> DEFINE u == From(w, k)
<1>5. /\ u \in Seq(Payloads) /\ Len(u) = Len(w) - k /\ NoneTwice(u) /\ Range(u) \in SUBSET Range(w)
      /\ v = From(u, n) /\ payloads = SubSeq(u, 1, n)
  BY <1>1, <1>4, FromSays, FromRange, FromFrom
<1> HIDE DEF u
<1>6. n \in 0 .. Len(u)
  BY <1>5
<1>7. /\ Range(v) \in SUBSET Range(u) /\ NoneTwice(v) /\ Range(payloads) \cap Range(v) = {}
      /\ Range(u) = Range(payloads) \cup Range(v) /\ NoneTwice(payloads) /\ payloads \in Seq(Payloads)
  BY <1>5, <1>6, FromRange, FirstSays
<1>8. Range(v) \in SUBSET Range(w) /\ Range(payloads) \in SUBSET Range(w)
  BY <1>5, <1>7
<1> QED  BY <1>2, <1>7, <1>8 DEF v, w, QueueT

\* Keep appends the payload of the Enqueue, which waits nowhere yet.
LEMMA KeepAdds ==
    ASSUME QueueInv, NEW t \in Threads, Keep(t)
    PROVE  /\ enqueuer[t].payload \in Payloads /\ enqueuer[t].payload \notin Range(Waiting)
           /\ Adds(queue, queue', enqueuer[t].payload, enqueuer[t].clock)
           /\ enqueuer'[t] = NoPayload /\ \A u \in Threads \ {t} : enqueuer'[u] = enqueuer[u]
<1>1. /\ enqueuer[t].pc = "append" /\ queue' = Appended(queue, enqueuer[t].payload, enqueuer[t].clock)
      /\ enqueuer' = [enqueuer EXCEPT ![t] = NoPayload]
  BY DEF Keep
<1>2. enqueuer[t].payload \in Payloads /\ enqueuer[t].clock \in 0 .. MaxTime /\ queue \in Queues
  BY <1>1, Facts
<1>3. enqueuer[t].payload \notin Range(Waiting)
  <2>1. CASE t = "dispatcher"
    <3>1. enqueuer[t].payload = given /\ Dispatched = given - 1 /\ given \in Nat
      BY <1>1, <2>1, Facts DEF QueueInv, Phases
    <3>2. \A p \in Range(Waiting) : p \in Nat /\ p <= Dispatched
      BY Whereabouts
    <3> QED  BY <3>1, <3>2
  <2>2. CASE t = "forwarder"
    <3>1. enqueuer[t].payload \in Away
      BY <1>1, <2>2, Whereabouts
    <3> QED  BY <3>1 DEF QueueInv, Distinct
  <2> QED  BY <2>1, <2>2 DEF Threads
<1>4. enqueuer'[t] = NoPayload /\ \A u \in Threads \ {t} : enqueuer'[u] = enqueuer[u]
  BY <1>1, TypeParts DEF QueueInv, Typed, EnqueuerT
<1> QED  BY <1>1, <1>2, <1>3, <1>4, AppendedAdds

LEMMA KeepKeeps == ASSUME QueueInv, NEW t \in Threads, Keep(t) PROVE QueueInv'
<1> DEFINE p == enqueuer[t].payload
<1>1. /\ enqueuer[t].pc = "append" /\ enqueuer' = [enqueuer EXCEPT ![t] = NoPayload]
      /\ UNCHANGED <<now, enabled, subscribers, channel, admin, given, handler, poller, forwarder, told, taken, home>>
  BY DEF Keep
<1>2. /\ p \in Payloads /\ p \notin Range(Waiting)
      /\ enqueuer'[t] = NoPayload /\ \A u \in Threads \ {t} : enqueuer'[u] = enqueuer[u]
  BY KeepAdds
<1>3. /\ QueueT' /\ NoneTwice(Waiting') /\ Range(Waiting') \in SUBSET (Range(Waiting) \cup {p})
  BY KeepAdds, WaitingGrows
<1>4. Typed
  BY TypeParts DEF QueueInv
<1>5. EnqueuerT'
  <2>1. 0 \in 0 .. MaxTime
    BY Numbers
  <2> QED  BY <1>1, <1>4, <2>1 DEF Typed, EnqueuerT, NoPayload
<1>6. QueueTypeOK'
  BY <1>1, <1>3, <1>4, <1>5, TypePartsNext
     DEF Typed, ChannelT, AdminT, HandlerT, PollerT, ForwarderT
<1>7. Phases'
  <2>1. enqueuer'[t].pc = "idle" /\ enqueuer'[t].payload = 0 /\ enqueuer'[t].clock = 0 /\ 0 <= now
    BY <1>2, Facts DEF NoPayload
  <2>2. \A u \in Threads : \/ enqueuer'[u] = enqueuer[u]
                           \/ enqueuer'[u].pc = "idle" /\ enqueuer'[u].payload = 0 /\ enqueuer'[u].clock = 0
    BY <1>2, <2>1
  <2>3. \A u \in Threads : (enqueuer'[u].pc = "idle" <=> enqueuer'[u].payload = 0) /\ enqueuer'[u].clock <= now
    BY <2>1, <2>2 DEF QueueInv, Phases
  <2>4. /\ enqueuer'["dispatcher"].pc # "idle" => enqueuer'["dispatcher"].payload = given
        /\ enqueuer["forwarder"].pc = "idle" => enqueuer'["forwarder"].pc = "idle"
    BY <2>2 DEF QueueInv, Phases, Threads
  <2> QED  BY <1>1, <2>3, <2>4 DEF QueueInv, Phases
<1>8. Distinct'
  <2>0. Away' = Range(forwarder.batch) \cup ({enqueuer'["forwarder"].payload} \ {0})
    BY <1>1 DEF Away
  <2>9. forwarder' = forwarder /\ told' = told
    BY <1>1
  <2>1. CASE t = "dispatcher"
    <3>1. Away' = Away /\ enqueuer'["forwarder"].payload = enqueuer["forwarder"].payload
      BY <1>2, <2>0, <2>1 DEF Away, Threads
    <3>2. p = given /\ Dispatched = given - 1 /\ Dispatched' = given /\ given \in Nat
      BY <1>1, <1>2, <2>1, Facts DEF QueueInv, Phases, NoPayload, Dispatched
    <3>3. \A q \in Range(Waiting) \cup Away : q \in Nat /\ q <= given - 1
      BY <3>2, Whereabouts
    <3>4. p \notin Away
      BY <3>2, <3>3
    <3>5. \A q \in Range(Waiting') \cup Away' : q <= Dispatched'
      BY <1>3, <3>1, <3>2, <3>3
    <3>6. Len(told) <= Dispatched'
      BY <3>2, Facts DEF QueueInv, Distinct
    <3>7. NoneTwice(forwarder.batch) /\ Range(Waiting) \cap Away = {}
          /\ enqueuer["forwarder"].payload \notin Range(forwarder.batch)
      BY DEF QueueInv, Distinct
    <3>8. Range(Waiting') \cap Away' = {}
      BY <1>3, <3>1, <3>4, <3>7
    <3> QED  BY <1>3, <2>9, <3>1, <3>5, <3>6, <3>7, <3>8 DEF Distinct
  <2>2. CASE t = "forwarder"
    <3>1. Away' = Range(forwarder.batch) /\ enqueuer'["forwarder"].payload = 0 /\ p \in Away
          /\ Range(forwarder.batch) \in SUBSET Away
      BY <1>1, <1>2, <2>0, <2>2, Whereabouts DEF NoPayload
    <3>2. Dispatched' = Dispatched
      BY <1>1, <1>2, <2>2 DEF Dispatched, Threads
    <3>3. /\ NoneTwice(forwarder.batch) /\ Range(Waiting) \cap Away = {}
          /\ p \notin Range(forwarder.batch)
          /\ \A q \in Range(Waiting) \cup Away : q <= Dispatched
          /\ Len(told) <= Dispatched
      BY <2>2 DEF QueueInv, Distinct
    <3>4. 0 \notin Range(forwarder.batch)
      BY Whereabouts DEF Payloads
    <3>5. Range(Waiting') \cap Away' = {}
      BY <1>3, <3>1, <3>3
    <3>6. \A q \in Range(Waiting') \cup Away' : q <= Dispatched'
      BY <1>3, <3>1, <3>2, <3>3
    <3> QED  BY <1>3, <2>9, <3>1, <3>2, <3>3, <3>4, <3>5, <3>6 DEF Distinct
  <2> QED  BY <2>1, <2>2 DEF Threads
<1>9. Owned' /\ Followed' /\ AtHome'
  BY <1>1, Frame
<1> QED  BY <1>6, <1>7, <1>8, <1>9 DEF QueueInv

LEMMA SetEnabledKeeps == ASSUME QueueInv, NEW value \in BOOLEAN, SetEnabled(value) PROVE QueueInv'
<1>1. /\ admin.pc = "idle" /\ admin.changes < MaxSwitches /\ (value = FALSE => ~HomeMode)
      /\ enabled' = value
      /\ admin' = [admin EXCEPT !.changes = @ + 1, !.pc = IF value THEN "idle" ELSE "clear"]
      /\ UNCHANGED <<now, lockedVars, given, enqueuer, handler, poller, forwarder, told, taken, home>>
  BY DEF SetEnabled
<1>2. Typed
  BY TypeParts DEF QueueInv
<1>3. AdminT' /\ admin'.closing = admin.closing /\ admin'.pc = (IF value THEN "idle" ELSE "clear")
  <2>1. AdminT /\ admin.changes + 1 \in 0 .. MaxSwitches
    <3>1. AdminT /\ admin.changes \in 0 .. MaxSwitches
      BY <1>2 DEF Typed, AdminT
    <3> QED  BY <1>1, <3>1, Numbers
  <2>2. CASE value
    <3>1. admin' = [admin EXCEPT !.changes = @ + 1, !.pc = "idle"]
      BY <1>1, <2>2
    <3> QED  BY <2>1, <2>2, <3>1 DEF AdminT
  <2>3. CASE ~value
    <3>1. admin' = [admin EXCEPT !.changes = @ + 1, !.pc = "clear"]
      BY <1>1, <2>3
    <3> QED  BY <2>1, <2>3, <3>1 DEF AdminT
  <2> QED  BY <2>2, <2>3
<1>4. QueueTypeOK'
  BY <1>1, <1>2, <1>3, TypePartsNext
     DEF Typed, QueueT, ChannelT, EnqueuerT, HandlerT, PollerT, ForwarderT, lockedVars
<1>5. Owned'
  <2>1. UNCHANGED <<subscribers, channel, handler>>
    BY <1>1 DEF lockedVars
  <2>2. \A s \in Subscribers : OwnedBy(s)'
    BY <1>3, <2>1 DEF QueueInv, Owned, OwnedBy
  <2>3. admin'.pc = "close" <=> admin'.closing # {}
    BY <1>1, <1>3 DEF QueueInv, Owned
  <2> QED  BY <2>2, <2>3 DEF Owned
<1>6. AtHome'
  <2>1. subscribers' = subscribers /\ forwarder' = forwarder /\ handler' = handler
    BY <1>1 DEF lockedVars
  <2> QED  BY <1>1, <1>3, <2>1 DEF QueueInv, AtHome, HomeMode
<1>7. Phases' /\ Distinct' /\ Followed'
  BY <1>1, Frame DEF lockedVars
<1> QED  BY <1>4, <1>5, <1>6, <1>7 DEF QueueInv

LEMMA ClearKeeps == ASSUME QueueInv, Clear PROVE QueueInv'
<1>1. /\ admin.pc = "clear" /\ queue' = NoItems /\ subscribers' = {}
      /\ admin' = [admin EXCEPT !.closing = subscribers, !.pc = IF subscribers = {} THEN "idle" ELSE "close"]
      /\ UNCHANGED <<now, enabled, channel, given, enqueuer, handler, poller, forwarder, told, taken, home>>
  BY DEF Clear
<1>2. Typed
  BY TypeParts DEF QueueInv
<1>3. AdminT' /\ admin'.closing = subscribers /\ admin'.pc = (IF subscribers = {} THEN "idle" ELSE "close")
  BY <1>1, <1>2 DEF Typed, AdminT
<1>4. QueueTypeOK'
  BY <1>1, <1>2, <1>3, NoItemsSay, TypePartsNext
     DEF Typed, QueueT, ChannelT, EnqueuerT, HandlerT, PollerT, ForwarderT
<1>5. Owned'
  <2>1. admin.closing = {}
    BY <1>1 DEF QueueInv, Owned
  <2>2. ASSUME NEW s \in Subscribers PROVE OwnedBy(s)'
    <3>1. OwnedBy(s)
      BY DEF QueueInv, Owned
    <3> QED  BY <1>1, <1>3, <2>1, <3>1 DEF OwnedBy
  <2>3. admin'.pc = "close" <=> admin'.closing # {}
    BY <1>3
  <2> QED  BY <2>2, <2>3 DEF Owned
<1>6. Followed'
  BY <1>1 DEF QueueInv, Followed
<1>7. ~HomeMode
  BY <1>1 DEF QueueInv, AtHome
<1>8. AtHome'
  BY <1>1, <1>7 DEF AtHome, HomeMode
<1>9. Phases'
  BY <1>1, Frame
<1>10. Distinct'
  <2>1. Waiting' = <<>>
    <3>1. Len(PayloadsOf(<<>>)) = 0 /\ PayloadsOf(<<>>) \in Seq(Payloads)
      BY PayloadsSay, EmptySeq
    <3>2. Live(queue') = <<>>
      BY <1>1, NoItemsSay
    <3> QED  BY <3>1, <3>2, EmptySeq DEF Waiting
  <2>2. Range(Waiting') = {} /\ NoneTwice(Waiting')
    <3>1. DOMAIN <<>> = {}
      <4>1. <<>> \in Seq({}) /\ Len(<<>>) = 0
        BY EmptySeq
      <4> QED  BY <4>1, LenProperties
    <3> QED  BY <2>1, <3>1, EmptyRange DEF NoneTwice
  <2>3. Away' = Away /\ Dispatched' = Dispatched /\ forwarder' = forwarder /\ enqueuer' = enqueuer /\ told' = told
    BY <1>1 DEF Away, Dispatched
  <2> QED  BY <2>2, <2>3 DEF QueueInv, Distinct
<1> QED  BY <1>4, <1>5, <1>6, <1>8, <1>9, <1>10 DEF QueueInv

LEMMA CloseNextKeeps == ASSUME QueueInv, CloseNext PROVE QueueInv'
<1>1. PICK s \in admin.closing :
           /\ channel' = [channel EXCEPT ![s].closed = TRUE]
           /\ admin' = [admin EXCEPT !.closing = @ \ {s}, !.pc = IF admin.closing = {s} THEN "idle" ELSE "close"]
  BY DEF CloseNext
<1>2. admin.pc = "close"
      /\ UNCHANGED <<now, enabled, queue, subscribers, given, enqueuer, handler, poller, forwarder, told, taken, home>>
  BY DEF CloseNext
<1>3. Typed
  BY TypeParts DEF QueueInv
<1>4. s \in Subscribers
  BY <1>3 DEF Typed, AdminT
<1>5. AdminT' /\ admin'.closing = admin.closing \ {s} /\ admin'.pc = (IF admin.closing = {s} THEN "idle" ELSE "close")
  BY <1>1, <1>3 DEF Typed, AdminT
<1>6. /\ channel'[s].closed /\ channel'[s].buffer = channel[s].buffer
      /\ \A u \in Subscribers \ {s} : channel'[u] = channel[u]
      /\ channel' \in [Subscribers -> [buffer : Seq(Payloads), closed : BOOLEAN]]
  BY <1>1, <1>3, <1>4 DEF Typed, ChannelT
<1>7. ChannelT'
  <2>1. \A u \in Subscribers : channel'[u].buffer = channel[u].buffer
    BY <1>6
  <2> QED  BY <1>3, <1>6, <2>1 DEF Typed, ChannelT
<1>8. QueueTypeOK'
  BY <1>2, <1>3, <1>5, <1>7, TypePartsNext
     DEF Typed, QueueT, EnqueuerT, HandlerT, PollerT, ForwarderT
<1>9. Owned'
  <2>1. ASSUME NEW u \in Subscribers PROVE OwnedBy(u)'
    <3>1. OwnedBy(u)
      BY DEF QueueInv, Owned
    <3>2. CASE u = s
      <4>1. s \notin subscribers /\ handler[s].pc \in {"stream", "gone"}
        BY <1>1, <3>1, <3>2 DEF OwnedBy
      <4> QED  BY <1>2, <1>5, <1>6, <3>2, <4>1 DEF OwnedBy
    <3>3. CASE u # s
      <4>1. channel'[u] = channel[u] /\ (u \in admin'.closing <=> u \in admin.closing)
        BY <1>5, <1>6, <3>3
      <4> QED  BY <1>2, <3>1, <4>1 DEF OwnedBy
    <3> QED  BY <3>2, <3>3
  <2>2. admin'.pc = "close" <=> admin'.closing # {}
    BY <1>1, <1>5
  <2> QED  BY <2>1, <2>2 DEF Owned
<1>10. Followed'
  <2>1. \A u \in Subscribers : channel'[u].buffer = channel[u].buffer
    BY <1>6
  <2> QED  BY <1>2, <2>1 DEF QueueInv, Followed
<1>11. ~HomeMode
  BY <1>2 DEF QueueInv, AtHome
<1>12. AtHome'
  BY <1>2, <1>11 DEF AtHome, HomeMode
<1>13. Phases' /\ Distinct'
  BY <1>2, Frame
<1> QED  BY <1>8, <1>9, <1>10, <1>12, <1>13 DEF QueueInv

LEMMA PollStartsKeeps == ASSUME QueueInv, PollStarts PROVE QueueInv'
<1>1. /\ poller' = [pc |-> "pop", clock |-> now]
      /\ UNCHANGED <<now, enabled, lockedVars, admin, given, enqueuer, handler, forwarder, told, taken, home>>
  BY DEF PollStarts
<1>2. QueueTypeOK'
  BY <1>1, TypeParts, TypePartsNext
     DEF QueueInv, Typed, lockedVars, QueueT, ChannelT, AdminT, EnqueuerT, HandlerT, PollerT, ForwarderT
<1>3. Phases'
  <2>1. poller'.clock <= now
    BY <1>1, Facts
  <2> QED  BY <1>1, <2>1 DEF QueueInv, Phases
<1>4. Owned' /\ Followed' /\ Distinct' /\ AtHome'
  BY <1>1, Frame DEF lockedVars
<1> QED  BY <1>2, <1>3, <1>4 DEF QueueInv

\* A reader gets the oldest that are not too old.
LEMMA PopOldestHandsOut ==
    ASSUME QueueInv, PopOldest
    PROVE  \E payloads : HandsOut(queue, queue', payloads, poller.clock) /\ taken' = taken \o payloads
<1>1. PICK count \in 1 .. 2 : /\ queue' = Popped(queue, count, poller.clock).queue
                              /\ taken' = taken \o Popped(queue, count, poller.clock).payloads
  BY DEF PopOldest
<1>2. queue \in Queues /\ count \in Nat /\ poller.clock \in Nat
  BY TypeParts, Numbers DEF QueueInv, Typed, QueueT, PollerT
<1>3. HandsOut(queue, queue', Popped(queue, count, poller.clock).payloads, poller.clock)
  BY <1>1, <1>2, PoppedHandsOut
<1> QED  BY <1>1, <1>3

LEMMA PopOldestKeeps == ASSUME QueueInv, PopOldest PROVE QueueInv'
<1>1. /\ poller' = [pc |-> "idle", clock |-> 0]
      /\ UNCHANGED <<now, enabled, subscribers, channel, admin, given, enqueuer, handler, forwarder, told, home>>
  BY DEF PopOldest
<1>2. PICK payloads : HandsOut(queue, queue', payloads, poller.clock) /\ taken' = taken \o payloads
  BY PopOldestHandsOut
<1>3. /\ QueueT' /\ NoneTwice(Waiting') /\ Range(Waiting') \in SUBSET Range(Waiting) /\ payloads \in Seq(Payloads)
  BY <1>2, WaitingShrinks
<1>4. Typed
  BY TypeParts DEF QueueInv
<1>5. taken' \in Seq(Payloads)
  BY <1>2, <1>3, <1>4, ConcatProperties DEF Typed
<1>6. PollerT'
  <2>1. 0 \in 0 .. MaxTime
    BY Numbers
  <2> QED  BY <1>1, <2>1 DEF PollerT
<1>7. QueueTypeOK'
  BY <1>1, <1>3, <1>4, <1>5, <1>6, TypePartsNext
     DEF Typed, ChannelT, AdminT, EnqueuerT, HandlerT, ForwarderT
<1>8. Phases'
  <2>1. poller'.clock <= now
    BY <1>1, Facts
  <2> QED  BY <1>1, <2>1 DEF QueueInv, Phases
<1>9. Distinct'
  <2>1. Away' = Away /\ Dispatched' = Dispatched /\ forwarder' = forwarder /\ enqueuer' = enqueuer /\ told' = told
    BY <1>1 DEF Away, Dispatched
  <2> QED  BY <1>3, <2>1 DEF QueueInv, Distinct
<1>10. Owned' /\ Followed' /\ AtHome'
  BY <1>1, Frame
<1> QED  BY <1>7, <1>8, <1>9, <1>10 DEF QueueInv

\* What the forwarder's steps have in common.
LEMMA ForwarderFrame ==
    ASSUME QueueInv, ForwarderUnchanged, HomeMode, QueueT', EnqueuerT', ForwarderT',
           home' \in SUBSET Payloads,
           forwarder'.pc # "off"
    PROVE  QueueTypeOK' /\ Owned' /\ Followed' /\ AtHome'
<1>1. UNCHANGED <<now, enabled, subscribers, channel, admin, given, handler, poller, told, taken>>
  BY DEF ForwarderUnchanged
<1>2. QueueTypeOK'
  BY <1>1, TypeParts, TypePartsNext DEF QueueInv, Typed, ChannelT, AdminT, HandlerT, PollerT
<1>3. Owned' /\ Followed'
  BY <1>1, Frame
<1>4. AtHome'
  BY <1>1 DEF QueueInv, AtHome
<1> QED  BY <1>2, <1>3, <1>4

\* The forwarder has its types, and what its batch holds is away.
LEMMA ForwarderSays ==
    ASSUME QueueInv
    PROVE  /\ forwarder \in [pc : {"poll", "pop", "push", "requeue", "cancelled", "off"},
                             batch : Seq(Payloads), clock : 0 .. MaxTime]
           /\ enqueuer \in [Threads -> [pc : {"idle", "publish", "append"},
                                        payload : Payloads \cup {0}, clock : 0 .. MaxTime]]
           /\ QueueT /\ EnqueuerT /\ home \in SUBSET Payloads /\ enabled \in BOOLEAN
           /\ now \in 0 .. MaxTime /\ 0 \in 0 .. MaxTime /\ 0 <= now
           /\ forwarder.clock <= now /\ forwarder.clock \in 0 .. MaxTime
           /\ forwarder.batch \in Seq(Payloads)
           /\ forwarder.pc \in {"push", "requeue"} => forwarder.batch # <<>>
           /\ forwarder.pc \in {"poll", "pop"} => forwarder.batch = <<>>
           /\ forwarder.pc \in {"pop", "push"} => enqueuer["forwarder"].pc = "idle"
           /\ enqueuer["forwarder"].pc = "idle" => enqueuer["forwarder"].payload = 0
<1>1. Typed
  BY TypeParts DEF QueueInv
<1>2. now \in 0 .. MaxTime /\ 0 \in 0 .. MaxTime /\ 0 <= now
  BY <1>1, Numbers DEF Typed
<1> QED  BY <1>1, <1>2 DEF Typed, ForwarderT, EnqueuerT, QueueInv, Phases, Threads

LEMMA ForwarderStartsKeeps == ASSUME QueueInv, ForwarderStarts PROVE QueueInv'
<1>1. /\ forwarder.pc = "poll" /\ enqueuer["forwarder"].pc = "idle" /\ ForwarderUnchanged
      /\ forwarder' = [forwarder EXCEPT !.pc = "pop", !.clock = now]
      /\ queue' = queue /\ enqueuer' = enqueuer /\ home' = home
      /\ UNCHANGED <<now, given, poller, told>>
  BY DEF ForwarderStarts, ForwarderUnchanged
<1>2. ForwarderT' /\ forwarder'.pc = "pop" /\ forwarder'.batch = forwarder.batch /\ forwarder'.clock = now
  BY <1>1, ForwarderSays DEF ForwarderT
<1>3. QueueT' /\ EnqueuerT' /\ HomeMode
  BY <1>1, ForwarderSays DEF QueueT, EnqueuerT, HomeMode
<1>4. QueueTypeOK' /\ Owned' /\ Followed' /\ AtHome'
  BY <1>1, <1>2, <1>3, ForwarderSays, ForwarderFrame
<1>5. Phases'
  <2>1. forwarder'.clock <= now
    BY <1>2, Facts
  <2> QED  BY <1>1, <1>2, <2>1 DEF QueueInv, Phases
<1>6. Distinct'
  <2>1. Waiting' = Waiting /\ Away' = Away /\ Dispatched' = Dispatched
    BY <1>1, <1>2 DEF Waiting, Away, Dispatched
  <2> QED  BY <1>1, <1>2, <2>1 DEF QueueInv, Distinct
<1> QED  BY <1>4, <1>5, <1>6 DEF QueueInv

\* So does the forwarder.
LEMMA ForwarderPopsHandsOut ==
    ASSUME QueueInv, ForwarderPops
    PROVE  /\ HandsOut(queue, queue', forwarder'.batch, forwarder.clock)
           /\ forwarder' = [pc |-> IF forwarder'.batch = <<>> THEN "poll" ELSE "push",
                            batch |-> forwarder'.batch, clock |-> 0]
<1> DEFINE popped == Popped(queue, Batch, forwarder.clock)
<1>1. /\ queue' = popped.queue
      /\ forwarder' = [pc |-> IF popped.payloads = <<>> THEN "poll" ELSE "push",
                         batch |-> popped.payloads, clock |-> 0]
  BY DEF ForwarderPops
<1>2. queue \in Queues /\ Batch \in Nat /\ forwarder.clock \in Nat
  BY ForwarderSays, Numbers DEF QueueT
<1>3. HandsOut(queue, popped.queue, popped.payloads, forwarder.clock)
  BY <1>2, PoppedHandsOut
<1> HIDE DEF popped
<1> QED  BY <1>1, <1>3

LEMMA ForwarderPopsKeeps == ASSUME QueueInv, ForwarderPops PROVE QueueInv'
<1> DEFINE batch == forwarder'.batch
<1>1. /\ forwarder.pc = "pop" /\ ForwarderUnchanged
      /\ enqueuer' = enqueuer /\ home' = home
      /\ UNCHANGED <<now, given, poller, told>>
  BY DEF ForwarderPops, ForwarderUnchanged
<1>2. /\ HandsOut(queue, queue', batch, forwarder.clock)
      /\ forwarder' = [pc |-> IF batch = <<>> THEN "poll" ELSE "push", batch |-> batch, clock |-> 0]
  BY ForwarderPopsHandsOut
<1>3. /\ QueueT' /\ NoneTwice(Waiting') /\ Range(Waiting') \in SUBSET Range(Waiting)
      /\ batch \in Seq(Payloads) /\ NoneTwice(batch) /\ Range(batch) \in SUBSET Range(Waiting)
      /\ Range(batch) \cap Range(Waiting') = {}
  BY <1>2, WaitingShrinks
<1> HIDE DEF batch
<1>4. /\ forwarder'.batch = batch /\ forwarder'.clock = 0
      /\ forwarder'.pc = (IF batch = <<>> THEN "poll" ELSE "push")
  BY <1>2
<1>5. ForwarderT'
  <2>1. CASE batch = <<>>
    <3>1. forwarder' = [pc |-> "poll", batch |-> batch, clock |-> 0]
      BY <1>2, <2>1
    <3> QED  BY <1>3, <3>1, ForwarderSays DEF ForwarderT
  <2>2. CASE batch # <<>>
    <3>1. forwarder' = [pc |-> "push", batch |-> batch, clock |-> 0]
      BY <1>2, <2>2
    <3> QED  BY <1>3, <3>1, ForwarderSays DEF ForwarderT
  <2> QED  BY <2>1, <2>2
<1>6. EnqueuerT' /\ HomeMode
  BY <1>1, ForwarderSays DEF EnqueuerT, HomeMode
<1>7. QueueTypeOK' /\ Owned' /\ Followed' /\ AtHome'
  BY <1>1, <1>3, <1>4, <1>5, <1>6, ForwarderSays, ForwarderFrame
<1>8. enqueuer["forwarder"].pc = "idle" /\ enqueuer["forwarder"].payload = 0
  BY <1>1, ForwarderSays
<1>9. Phases'
  <2>1. forwarder'.clock <= now
    BY <1>4, ForwarderSays
  <2>2. forwarder'.pc \in {"poll", "pop", "cancelled", "off"} <=> forwarder'.batch = <<>>
    BY <1>4
  <2> QED  BY <1>1, <1>8, <2>1, <2>2 DEF QueueInv, Phases
<1>10. Distinct'
  <2>1. Away' = Range(batch) /\ Dispatched' = Dispatched
    <3>1. Away' = Range(batch) \cup ({0} \ {0})
      BY <1>1, <1>4, <1>8 DEF Away
    <3> QED  BY <1>1, <3>1 DEF Dispatched
  <2>2. \A p \in Range(Waiting') \cup Away' : p <= Dispatched'
    BY <1>3, <2>1 DEF QueueInv, Distinct
  <2>3. 0 \notin Range(batch)
    BY <1>3, Whereabouts DEF Payloads
  <2> QED  BY <1>1, <1>3, <1>4, <1>8, <2>1, <2>2, <2>3 DEF QueueInv, Distinct
<1> QED  BY <1>7, <1>9, <1>10 DEF QueueInv

\* The batch without its first payload.
LEMMA RestSays ==
    ASSUME QueueInv, forwarder.pc \in {"push", "requeue"}
    PROVE  /\ Head(forwarder.batch) \in Payloads /\ Rest \in Seq(Payloads)
           /\ Range(forwarder.batch) = {Head(forwarder.batch)} \cup Range(Rest)
           /\ NoneTwice(Rest) /\ Head(forwarder.batch) \notin Range(Rest)
           /\ Head(forwarder.batch) \in Range(forwarder.batch)
<1>1. forwarder.batch \in Seq(Payloads) /\ forwarder.batch # <<>> /\ NoneTwice(forwarder.batch)
  BY ForwarderSays DEF QueueInv, Distinct
<1> QED  BY <1>1, TailSays DEF Rest

LEMMA PushKeeps == ASSUME QueueInv, Push PROVE QueueInv'
<1>1. /\ forwarder.pc = "push" /\ ForwarderUnchanged
      /\ home' = home \cup {Head(forwarder.batch)}
      /\ forwarder' = [forwarder EXCEPT !.batch = Rest, !.pc = IF Rest = <<>> THEN "poll" ELSE "push"]
      /\ queue' = queue /\ enqueuer' = enqueuer
      /\ UNCHANGED <<now, given, poller, told>>
  BY DEF Push, ForwarderUnchanged
<1>2. /\ Head(forwarder.batch) \in Payloads /\ Rest \in Seq(Payloads)
      /\ Range(forwarder.batch) = {Head(forwarder.batch)} \cup Range(Rest)
      /\ NoneTwice(Rest) /\ Head(forwarder.batch) \notin Range(Rest)
  BY <1>1, RestSays
<1> DEFINE rest == Rest
<1> HIDE DEF rest
<1>3. /\ ForwarderT' /\ forwarder'.batch = rest /\ forwarder'.clock = forwarder.clock
      /\ forwarder'.pc = (IF rest = <<>> THEN "poll" ELSE "push")
  <2>0. rest \in Seq(Payloads)
    BY <1>2 DEF rest
  <2>1. CASE rest = <<>>
    <3>1. forwarder' = [forwarder EXCEPT !.batch = rest, !.pc = "poll"]
      BY <1>1, <2>1 DEF rest
    <3> QED  BY <2>0, <2>1, <3>1, ForwarderSays DEF ForwarderT
  <2>2. CASE rest # <<>>
    <3>1. forwarder' = [forwarder EXCEPT !.batch = rest, !.pc = "push"]
      BY <1>1, <2>2 DEF rest
    <3> QED  BY <2>0, <2>2, <3>1, ForwarderSays DEF ForwarderT
  <2> QED  BY <2>1, <2>2
<1>4. QueueT' /\ EnqueuerT' /\ HomeMode /\ home' \in SUBSET Payloads
  BY <1>1, <1>2, ForwarderSays DEF QueueT, EnqueuerT, HomeMode
<1>5. QueueTypeOK' /\ Owned' /\ Followed' /\ AtHome'
  BY <1>1, <1>3, <1>4, ForwarderFrame
<1>6. Phases'
  <2>1. forwarder'.clock <= now
    BY <1>3, ForwarderSays
  <2>2. forwarder'.pc \in {"poll", "pop", "cancelled", "off"} <=> forwarder'.batch = <<>>
    BY <1>3
  <2>3. enqueuer["forwarder"].pc = "idle"
    BY <1>1, ForwarderSays
  <2> QED  BY <1>1, <2>1, <2>2, <2>3 DEF QueueInv, Phases
<1>7. Distinct'
  <2>1. Waiting' = Waiting /\ Dispatched' = Dispatched
    BY <1>1 DEF Waiting, Dispatched
  <2>2. Away' \in SUBSET Away /\ Range(forwarder'.batch) \in SUBSET Range(forwarder.batch) /\ NoneTwice(forwarder'.batch)
    BY <1>1, <1>2, <1>3 DEF Away, rest
  <2> QED  BY <1>1, <2>1, <2>2 DEF QueueInv, Distinct
<1> QED  BY <1>5, <1>6, <1>7 DEF QueueInv

LEMMA PushFailsKeeps == ASSUME QueueInv, PushFails PROVE QueueInv'
<1>0. forwarder.batch # <<>>
  BY ForwarderSays DEF PushFails
<1>1. /\ forwarder.pc = "push" /\ ForwarderUnchanged
      /\ home' \in {home, home \cup {Head(forwarder.batch)}}
      /\ forwarder' = [forwarder EXCEPT !.batch = forwarder.batch, !.pc = "requeue"]
      /\ queue' = queue /\ enqueuer' = enqueuer
      /\ UNCHANGED <<now, given, poller, told>>
  BY <1>0 DEF PushFails, ForwarderUnchanged, GivenBack
<1>2. /\ ForwarderT' /\ forwarder'.batch = forwarder.batch /\ forwarder'.clock = forwarder.clock
      /\ forwarder'.pc = "requeue"
  BY <1>1, ForwarderSays DEF ForwarderT
<1>3. home' \in SUBSET Payloads
  BY <1>1, RestSays, ForwarderSays
<1>4. QueueT' /\ EnqueuerT' /\ HomeMode
  BY <1>1, ForwarderSays DEF QueueT, EnqueuerT, HomeMode
<1>5. QueueTypeOK' /\ Owned' /\ Followed' /\ AtHome'
  BY <1>1, <1>2, <1>3, <1>4, ForwarderFrame
<1>6. Phases'
  BY <1>0, <1>1, <1>2 DEF QueueInv, Phases
<1>7. Distinct'
  <2>1. Waiting' = Waiting /\ Dispatched' = Dispatched /\ Away' = Away
    BY <1>1, <1>2 DEF Waiting, Dispatched, Away
  <2> QED  BY <1>1, <1>2, <2>1 DEF QueueInv, Distinct
<1> QED  BY <1>5, <1>6, <1>7 DEF QueueInv

LEMMA RequeueKeeps == ASSUME QueueInv, Requeue PROVE QueueInv'
<1> DEFINE rest == Rest
           p == Head(forwarder.batch)
<1>0. HomeMode /\ enabled
  BY DEF Requeue, HomeMode, QueueInv, AtHome
<1>1. /\ forwarder.pc = "requeue" /\ enqueuer["forwarder"].pc = "idle" /\ ForwarderUnchanged
      /\ forwarder' = [forwarder EXCEPT !.batch = rest, !.pc = IF rest = <<>> THEN "poll" ELSE "requeue"]
      /\ enqueuer' = [enqueuer EXCEPT !["forwarder"] = [pc |-> "publish", payload |-> p, clock |-> 0]]
      /\ queue' = queue /\ home' = home
      /\ UNCHANGED <<now, given, poller, told>>
  BY <1>0 DEF Requeue, Enqueue, ForwarderUnchanged, AfterFailure
<1>2. /\ p \in Payloads /\ rest \in Seq(Payloads)
      /\ Range(forwarder.batch) = {p} \cup Range(rest)
      /\ NoneTwice(rest) /\ p \notin Range(rest)
  BY <1>1, RestSays
<1> HIDE DEF rest, p
<1>3. /\ ForwarderT' /\ forwarder'.batch = rest /\ forwarder'.clock = forwarder.clock
      /\ forwarder'.pc = (IF rest = <<>> THEN "poll" ELSE "requeue")
  <2>1. CASE rest = <<>>
    <3>1. forwarder' = [forwarder EXCEPT !.batch = rest, !.pc = "poll"]
      BY <1>1, <2>1
    <3> QED  BY <1>2, <2>1, <3>1, ForwarderSays DEF ForwarderT
  <2>2. CASE rest # <<>>
    <3>1. forwarder' = [forwarder EXCEPT !.batch = rest, !.pc = "requeue"]
      BY <1>1, <2>2
    <3> QED  BY <1>2, <2>2, <3>1, ForwarderSays DEF ForwarderT
  <2> QED  BY <2>1, <2>2
<1>4. /\ EnqueuerT' /\ enqueuer'["dispatcher"] = enqueuer["dispatcher"]
      /\ enqueuer'["forwarder"] = [pc |-> "publish", payload |-> p, clock |-> 0]
  BY <1>1, <1>2, ForwarderSays DEF EnqueuerT, Threads
<1>5. QueueT' /\ home' \in SUBSET Payloads
  BY <1>1, ForwarderSays DEF QueueT
<1>6. QueueTypeOK' /\ Owned' /\ Followed' /\ AtHome'
  BY <1>0, <1>1, <1>3, <1>4, <1>5, ForwarderFrame
<1>7. Phases'
  <2>1. p # 0
    BY <1>2 DEF Payloads
  <2>2. forwarder'.clock <= now /\ 0 <= now
    BY <1>3, ForwarderSays
  <2>3. forwarder'.pc \in {"poll", "pop", "cancelled", "off"} <=> forwarder'.batch = <<>>
    BY <1>3
  <2> QED  BY <1>1, <1>3, <1>4, <2>1, <2>2, <2>3 DEF QueueInv, Phases, Threads
<1>8. Distinct'
  <2>1. Waiting' = Waiting /\ Dispatched' = Dispatched
    BY <1>1, <1>4 DEF Waiting, Dispatched
  <2>2. Away' = Range(rest) \cup {p} /\ Away = Range(forwarder.batch)
    <3>1. p # 0
      BY <1>2 DEF Payloads
    <3> QED  BY <1>1, <1>3, <1>4, <3>1, Whereabouts DEF Away
  <2>3. Away' = Away
    BY <1>2, <2>2
  <2> QED  BY <1>1, <1>2, <1>3, <1>4, <2>1, <2>3 DEF QueueInv, Distinct
<1> QED  BY <1>6, <1>7, <1>8 DEF QueueInv

LEMMA CancelKeeps == ASSUME QueueInv, Cancel PROVE QueueInv'
<1>1. /\ forwarder.pc = "poll" /\ enqueuer["forwarder"].pc = "idle" /\ ForwarderUnchanged
      /\ forwarder' = [forwarder EXCEPT !.pc = "cancelled"]
      /\ queue' = queue /\ enqueuer' = enqueuer /\ home' = home
      /\ UNCHANGED <<now, given, poller, told>>
  BY DEF Cancel, ForwarderUnchanged
<1>2. ForwarderT' /\ forwarder'.pc = "cancelled" /\ forwarder'.batch = forwarder.batch /\ forwarder'.clock = forwarder.clock
  BY <1>1, ForwarderSays DEF ForwarderT
<1>3. QueueT' /\ EnqueuerT' /\ HomeMode
  BY <1>1, ForwarderSays DEF QueueT, EnqueuerT, HomeMode
<1>4. QueueTypeOK' /\ Owned' /\ Followed' /\ AtHome'
  BY <1>1, <1>2, <1>3, ForwarderSays, ForwarderFrame
<1>5. Phases'
  BY <1>1, <1>2 DEF QueueInv, Phases
<1>6. Distinct'
  <2>1. Waiting' = Waiting /\ Away' = Away /\ Dispatched' = Dispatched
    BY <1>1, <1>2 DEF Waiting, Away, Dispatched
  <2> QED  BY <1>1, <1>2, <2>1 DEF QueueInv, Distinct
<1> QED  BY <1>4, <1>5, <1>6 DEF QueueInv

LEMMA TickKeeps == ASSUME QueueInv, Tick PROVE QueueInv'
<1>1. /\ now < MaxTime /\ now' = now + 1
      /\ UNCHANGED <<enabled, lockedVars, admin, given, enqueuer, handler, poller, forwarder, told, taken, home>>
  BY DEF Tick
<1>2. Typed
  BY TypeParts DEF QueueInv
<1>3. now' \in 0 .. MaxTime
  BY <1>1, <1>2, Numbers DEF Typed
<1>4. QueueTypeOK'
  BY <1>1, <1>2, <1>3, TypePartsNext
     DEF Typed, lockedVars, QueueT, ChannelT, AdminT, EnqueuerT, HandlerT, PollerT, ForwarderT
<1>5. Phases'
  <2>1. \A c \in 0 .. MaxTime : c <= now => c <= now'
    BY <1>1, <1>2, Numbers DEF Typed
  <2>2. /\ forwarder.clock \in 0 .. MaxTime /\ poller.clock \in 0 .. MaxTime
        /\ \A t \in Threads : enqueuer[t].clock \in 0 .. MaxTime
    BY <1>2 DEF Typed, ForwarderT, PollerT, EnqueuerT
  <2> QED  BY <1>1, <2>1, <2>2 DEF QueueInv, Phases
<1>6. Owned' /\ Followed' /\ Distinct' /\ AtHome'
  BY <1>1, Frame DEF lockedVars
<1> QED  BY <1>4, <1>5, <1>6 DEF QueueInv

LEMMA StutterKeeps == ASSUME QueueInv, UNCHANGED queueVars PROVE QueueInv'
<1>1. UNCHANGED <<now, enabled, queue, subscribers, channel, admin, given, enqueuer, handler, poller, forwarder, told, taken, home>>
  BY DEF queueVars, lockedVars
<1>2. QueueTypeOK'
  BY <1>1, TypeParts, TypePartsNext
     DEF QueueInv, Typed, QueueT, ChannelT, AdminT, EnqueuerT, HandlerT, PollerT, ForwarderT
<1> QED  BY <1>1, <1>2, Frame DEF QueueInv

LEMMA QueueInitially == QueueInit => QueueInv
<1> SUFFICES ASSUME QueueInit PROVE QueueInv
  OBVIOUS
<1>1. /\ now \in 0 .. MaxTime /\ enabled = TRUE /\ queue = NoItems /\ subscribers = {}
      /\ channel = [s \in Subscribers |-> [buffer |-> <<>>, closed |-> FALSE]]
      /\ admin = [pc |-> "idle", closing |-> {}, changes |-> 0]
      /\ given = 0 /\ enqueuer = [t \in Threads |-> NoPayload]
      /\ told = <<>> /\ taken = <<>> /\ home = {}
  BY DEF QueueInit
<1>2. PICK come \in SUBSET Subscribers :
           handler = [s \in Subscribers |->
                         [pc |-> IF s \in come THEN "away" ELSE "gone", from |-> 0, got |-> <<>>]]
  BY DEF QueueInit
<1>3. /\ poller = [pc |-> "idle", clock |-> 0] \/ poller = [pc |-> "off", clock |-> 0]
      /\ \/ forwarder = [pc |-> "poll", batch |-> <<>>, clock |-> 0]
         \/ forwarder = [pc |-> "off", batch |-> <<>>, clock |-> 0]
  BY DEF QueueInit
<1>4. /\ \A s \in Subscribers : /\ handler[s].pc \in {"away", "gone"} /\ handler[s].from = 0 /\ handler[s].got = <<>>
                                /\ channel[s] = [buffer |-> <<>>, closed |-> FALSE]
      /\ \A t \in Threads : enqueuer[t].pc = "idle" /\ enqueuer[t].payload = 0 /\ enqueuer[t].clock = 0
      /\ forwarder.batch = <<>> /\ forwarder.pc \in {"poll", "off"} /\ forwarder.clock = 0 /\ poller.clock = 0
  BY <1>1, <1>2, <1>3 DEF NoPayload
<1>5. <<>> \in Seq(Payloads) /\ Len(<<>>) = 0 /\ 0 \in 0 .. MaxTime /\ 0 \in 0 .. MaxPayloads /\ 0 \in 0 .. MaxSwitches
      /\ 0 <= Buffer /\ 0 <= now
  BY <1>1, Numbers, EmptySeq
<1>6. QueueTypeOK
  <2>1. QueueT
    BY <1>1, NoItemsSay DEF QueueT
  <2>2. ChannelT /\ AdminT /\ EnqueuerT
    BY <1>1, <1>5 DEF ChannelT, AdminT, EnqueuerT, NoPayload
  <2>3. HandlerT
    <3>1. ASSUME NEW s \in Subscribers
          PROVE  [pc |-> IF s \in come THEN "away" ELSE "gone", from |-> 0, got |-> <<>>]
                   \in [pc : {"away", "command", "stream", "close", "gone"},
                        from : 0 .. MaxPayloads, got : Seq(Payloads)]
      <4>1. CASE s \in come
        BY <1>5, <4>1
      <4>2. CASE s \notin come
        BY <1>5, <4>2
      <4> QED  BY <4>1, <4>2
    <3> QED  BY <1>2, <3>1 DEF HandlerT
  <2>4. PollerT /\ ForwarderT
    <3>1. PollerT
      BY <1>3, <1>5 DEF PollerT
    <3>2. \A b \in Seq(Payloads), c \in 0 .. MaxTime : \A pc \in {"poll", "off"} :
             [pc |-> pc, batch |-> b, clock |-> c]
                \in [pc : {"poll", "pop", "push", "requeue", "cancelled", "off"},
                     batch : Seq(Payloads), clock : 0 .. MaxTime]
      OBVIOUS
    <3>3. ForwarderT
      <4> DEFINE empty == <<>>
      <4>1. empty \in Seq(Payloads) /\ 0 \in 0 .. MaxTime
        BY <1>5
      <4>2. \/ forwarder = [pc |-> "poll", batch |-> empty, clock |-> 0]
            \/ forwarder = [pc |-> "off", batch |-> empty, clock |-> 0]
        BY <1>3
      <4> HIDE DEF empty
      <4> QED  BY <3>2, <4>1, <4>2 DEF ForwarderT
    <3> QED  BY <3>1, <3>3
  <2> QED  BY <1>1, <1>5, <2>1, <2>2, <2>3, <2>4, TypeParts DEF Typed
<1>7. Phases
  BY <1>4, <1>5 DEF Phases, Threads
<1>8. AtHome /\ Owned
  BY <1>1, <1>4 DEF AtHome, Owned, OwnedBy
<1>9. Followed
  <2>1. Follows(0, <<>>, <<>>, <<>>)
    <3>1. 0 + 0 + 0 = 0 /\ \A i \in 1 .. 0 : FALSE
      OBVIOUS
    <3> QED  BY <1>5, <3>1 DEF Follows
  <2>2. \A s \in Subscribers : channel[s].buffer = <<>>
    BY <1>4
  <2> QED  BY <1>1, <1>4, <2>1, <2>2 DEF Followed
<1>10. Distinct
  <2>1. Waiting = <<>>
    <3>1. Len(PayloadsOf(<<>>)) = 0 /\ PayloadsOf(<<>>) \in Seq(Payloads)
      BY PayloadsSay, EmptySeq
    <3> QED  BY <1>1, <3>1, EmptySeq, NoItemsSay DEF Waiting
  <2>2. DOMAIN <<>> = {}
    <3>1. <<>> \in Seq({})
      BY EmptySeq
    <3> QED  BY <1>5, <3>1, LenProperties
  <2>3. Away = {} /\ Dispatched = 0
    BY <1>1, <1>4, EmptyRange DEF Away, Dispatched, Threads
  <2> QED  BY <1>1, <1>4, <1>5, <2>1, <2>2, <2>3, EmptyRange DEF Distinct, NoneTwice, Threads
<1> QED  BY <1>6, <1>7, <1>8, <1>9, <1>10 DEF QueueInv

\* Every step of the usage queue keeps the invariant.
LEMMA QueueInductive == QueueInv /\ [QueueNext]_queueVars => QueueInv'
<1> SUFFICES ASSUME QueueInv, [QueueNext]_queueVars PROVE QueueInv'
  OBVIOUS
<1>1. CASE Dispatch
  BY <1>1, DispatchKeeps
<1>2. ASSUME NEW t \in Threads, PublishToSubscribers(t) \/ Keep(t) PROVE QueueInv'
  BY <1>2, PublishKeeps, KeepKeeps
<1>3. ASSUME NEW value \in BOOLEAN, SetEnabled(value) PROVE QueueInv'
  BY <1>3, SetEnabledKeeps
<1>4. CASE Clear \/ CloseNext
  BY <1>4, ClearKeeps, CloseNextKeeps
<1>5. ASSUME NEW s \in Subscribers, Handler(s) PROVE QueueInv'
  BY <1>5, HandlerKeeps
<1>6. CASE PollStarts \/ PopOldest
  BY <1>6, PollStartsKeeps, PopOldestKeeps
<1>7. CASE ForwarderStarts \/ ForwarderPops \/ Push \/ PushFails \/ Requeue \/ Cancel
  BY <1>7, ForwarderStartsKeeps, ForwarderPopsKeeps, PushKeeps, PushFailsKeeps, RequeueKeeps,
     CancelKeeps
<1>8. CASE Tick
  BY <1>8, TickKeeps
<1>9. CASE UNCHANGED queueVars
  BY <1>9, StutterKeeps
<1> QED  BY <1>1, <1>2, <1>3, <1>4, <1>5, <1>6, <1>7, <1>8, <1>9 DEF QueueNext

\* The inductive invariant holds in every reachable state, for any subscribers and any
\* sizes, times and bounds.
THEOREM QueueInvariance == QueueSpec => []QueueInv
BY QueueInitially, QueueInductive, PTL DEF QueueSpec

\* The queue, its channels, the connections, the reader and the forwarder keep their
\* types.
THEOREM QueueTypeCorrect == QueueSpec => []QueueTypeOK
BY QueueInvariance, PTL DEF QueueInv

\* A connection that the queue no longer lists has its channel closed, or somebody is
\* about to close it: it cannot wait for ever as if nothing had happened.
THEOREM DroppedLearn == QueueSpec => []DroppedAreTold
<1>1. QueueInv => DroppedAreTold
  BY DEF QueueInv, Owned, OwnedBy, DroppedAreTold
<1> QED  BY <1>1, QueueInvariance, PTL

\* A subscriber channel has at most one party that may close it, and none once it is
\* closed: publisher, switching off and the connection itself never close it twice.
THEOREM OneCloser == QueueSpec => []ClosedOnce
<1>1. ASSUME QueueInv PROVE ClosedOnce
  <2> SUFFICES ASSUME NEW s \in Subscribers
               PROVE  LET owners == {o \in {"queue", "admin", "handler"} :
                                        \/ o = "queue" /\ s \in subscribers
                                        \/ o = "admin" /\ s \in admin.closing
                                        \/ o = "handler" /\ handler[s].pc = "close"}
                      IN  Cardinality(owners) <= IF channel[s].closed THEN 0 ELSE 1
    BY DEF ClosedOnce
  <2> DEFINE owners == {o \in {"queue", "admin", "handler"} :
                          \/ o = "queue" /\ s \in subscribers
                          \/ o = "admin" /\ s \in admin.closing
                          \/ o = "handler" /\ handler[s].pc = "close"}
  <2>1. OwnedBy(s)
    BY <1>1 DEF QueueInv, Owned
  <2>2. channel[s].closed => owners = {}
    BY <2>1 DEF OwnedBy
  <2>3. owners = {} \/ owners = {"queue"} \/ owners = {"admin"} \/ owners = {"handler"}
    BY <2>1 DEF OwnedBy
  <2> HIDE DEF owners
  <2>4. Cardinality({}) = 0 /\ \A x : Cardinality({x}) = 1
    BY FS_EmptySet, FS_Singleton
  <2>5. Cardinality(owners) <= IF channel[s].closed THEN 0 ELSE 1
    <3>1. CASE channel[s].closed
      <4>1. Cardinality(owners) = 0
        BY <2>2, <2>4, <3>1
      <4> QED  BY <3>1, <4>1
    <3>2. CASE ~channel[s].closed
      <4>1. Cardinality(owners) = 0 \/ Cardinality(owners) = 1
        BY <2>3, <2>4
      <4> QED  BY <3>2, <4>1
    <3> QED  BY <3>1, <3>2
  <2> QED  BY <2>5 DEF owners
<1> QED  BY <1>1, QueueInvariance, PTL

\* A stream that follows the log is the stretch of the log that it covers.
LEMMA FollowsAll ==
    ASSUME NEW got \in Seq(Payloads), NEW b \in Seq(Payloads), NEW log \in Seq(Payloads),
           NEW from \in Nat, Follows(from, got, b, log)
    PROVE  /\ got \o b = SubSeq(log, from + 1, from + Len(got \o b))
           /\ Len(got \o b) = Len(got) + Len(b)
<1> DEFINE stream == got \o b
           n == Len(got) + Len(b)
           piece == SubSeq(log, from + 1, from + n)
<1>1. Len(got) \in Nat /\ Len(b) \in Nat /\ Len(log) \in Nat /\ n \in Nat
  BY LenProperties
<1>2. /\ stream \in Seq(Payloads) /\ Len(stream) = n
      /\ \A i \in 1 .. n : stream[i] = IF i <= Len(got) THEN got[i] ELSE b[i - Len(got)]
  BY ConcatProperties
<1> HIDE DEF stream
<1>3. /\ from + Len(got) + Len(b) <= Len(log)
      /\ \A i \in 1 .. Len(got) : got[i] = log[from + i]
      /\ \A i \in 1 .. Len(b) : b[i] = log[from + Len(got) + i]
  BY DEF Follows
<1>4. from + n <= Len(log)
  BY <1>1, <1>3
<1>5. /\ piece \in Seq(Payloads) /\ Len(piece) = n
      /\ \A i \in 1 .. n : piece[i] = log[from + i]
  <2> HIDE DEF n
  <2>1. \A i \in from + 1 .. from + n : log[i] \in Payloads
    <3>1. \A i \in from + 1 .. from + n : i \in 1 .. Len(log)
      BY <1>1, <1>4
    <3> QED  BY <3>1, ElementOfSeq
  <2> DEFINE first == from + 1
             last == from + n
  <2>2. first \in Int /\ last \in Int /\ \A i \in first .. last : log[i] \in Payloads
    BY <1>1, <2>1
  <2>3. piece = SubSeq(log, first, last)
    OBVIOUS
  <2>4. /\ last - first + 1 = n
        /\ (IF first <= last THEN last - first + 1 ELSE 0) = n
        /\ \A i \in 1 .. n : first + i - 1 = from + i
    BY <1>1
  <2> HIDE DEF first, last
  <2>5. /\ SubSeq(log, first, last) \in Seq(Payloads)
        /\ Len(SubSeq(log, first, last)) = IF first <= last THEN last - first + 1 ELSE 0
        /\ \A i \in 1 .. last - first + 1 : SubSeq(log, first, last)[i] = log[first + i - 1]
    BY <2>2, SubSeqProperties
  <2> HIDE DEF piece
  <2> QED  BY <2>3, <2>4, <2>5
<1> HIDE DEF piece
<1>6. ASSUME NEW i \in 1 .. n PROVE stream[i] = piece[i]
  <2>1. CASE i <= Len(got)
    <3>1. i \in 1 .. Len(got)
      BY <1>1, <2>1
    <3> QED  BY <1>2, <1>3, <1>5, <2>1, <3>1
  <2>2. CASE ~(i <= Len(got))
    <3>1. i - Len(got) \in 1 .. Len(b) /\ from + Len(got) + (i - Len(got)) = from + i
      BY <1>1, <2>2
    <3> QED  BY <1>2, <1>3, <1>5, <2>2, <3>1
  <2> QED  BY <2>1, <2>2
<1>7. stream = piece
  BY <1>2, <1>5, <1>6, SeqEqual
<1> QED  BY <1>2, <1>7 DEF stream, piece

\* What a connection has received and what its channel holds is a run without a gap of the
\* published payloads from its subscription on, up to the last one while the queue lists it.
THEOREM NoGaps == QueueSpec => []GapFree
<1>1. ASSUME QueueInv PROVE GapFree
  <2>1. ASSUME NEW s \in Subscribers
        PROVE  LET stream == handler[s].got \o channel[s].buffer
                   upto == handler[s].from + Len(stream)
               IN  /\ stream = SubSeq(told, handler[s].from + 1, upto)
                   /\ s \in subscribers => upto = Len(told)
    <3> DEFINE got == handler[s].got
               b == channel[s].buffer
               from == handler[s].from
    <3>1. /\ got \in Seq(Payloads) /\ b \in Seq(Payloads) /\ told \in Seq(Payloads) /\ from \in Nat
          /\ Follows(from, got, b, told)
          /\ s \in subscribers => from + Len(got) + Len(b) = Len(told)
      BY <1>1, ConnectionSays, Facts DEF FollowedBy
    <3> HIDE DEF got, b, from
    <3>2. got \o b = SubSeq(told, from + 1, from + Len(got \o b)) /\ Len(got \o b) = Len(got) + Len(b)
      BY <3>1, FollowsAll
    <3>3. s \in subscribers => from + Len(got \o b) = Len(told)
      BY <3>1, <3>2, LenProperties
    <3> QED  BY <3>2, <3>3 DEF got, b, from
  <2> QED  BY <2>1 DEF GapFree
<1> QED  BY <1>1, QueueInvariance, PTL

\* The payloads of the Enqueues under way.
Busy == {enqueuer[t].payload : t \in {u \in Threads : enqueuer[u].pc # "idle"}}

\* Where a payload may be held: in the queue, with the forwarder, or in an Enqueue.
LEMMA HeldIs == QueueInv => Held = Range(Waiting) \cup Range(forwarder.batch) \cup Busy
<1> SUFFICES ASSUME QueueInv PROVE Held = Range(Waiting) \cup Range(forwarder.batch) \cup Busy
  OBVIOUS
<1>1. {item.payload : item \in Range(Live(queue))} = Range(Waiting)
  <2> DEFINE w == Live(queue)
             v == PayloadsOf(w)
  <2>1. w \in Seq(Item)
    BY LiveSays, Facts
  <2> HIDE DEF w
  <2>2. /\ v \in Seq(Payloads) /\ Len(v) = Len(w)
        /\ \A i \in 1 .. Len(w) : v[i] = w[i].payload
    BY <2>1, PayloadsSay
  <2> HIDE DEF v
  <2>3. Range(w) = {w[i] : i \in 1 .. Len(w)} /\ Range(v) = {v[i] : i \in 1 .. Len(v)}
    BY <2>1, <2>2, RangeSays
  <2>4. Range(v) = {item.payload : item \in Range(w)}
    BY <2>2, <2>3
  <2> QED  BY <2>4 DEF Waiting, v, w
<1> QED  BY <1>1 DEF Held, Busy

\* The same of the next state.
LEMMA HeldNext == (QueueInv => Held = Range(Waiting) \cup Range(forwarder.batch) \cup Busy)'
BY HeldIs, PTL

\* Among the first k, who was too old when the clock was read is too old.
LEMMA PassedOver ==
    ASSUME QueueInv, NEW k \in 0 .. Len(Waiting), NEW clock \in Nat, clock <= now,
           \A i \in 1 .. k : Stale(Live(queue)[i], clock),
           NEW p \in Range(Waiting), p \notin Range(From(Waiting, k))
    PROVE  TooOld(p)
<1> DEFINE w == Live(queue)
           v == PayloadsOf(w)
<1>1. w \in Seq(Item)
  BY LiveSays, Facts
<1>2. Waiting = v
  BY DEF Waiting
<1>3. \A i \in 1 .. k : Stale(w[i], clock)
  OBVIOUS
<1>4. (\E item \in Range(w) : item.payload = p /\ item.at + Retention < now) => TooOld(p)
  BY DEF TooOld
<1> HIDE DEF w
<1>5. /\ v \in Seq(Payloads) /\ Len(v) = Len(w) /\ Len(w) \in Nat
      /\ \A i \in 1 .. Len(w) : w[i] \in Item /\ v[i] = w[i].payload
  BY <1>1, PayloadsSay
<1> HIDE DEF v
<1>6. k \in 0 .. Len(v) /\ p \in Range(v) /\ p \notin Range(From(v, k))
  BY <1>2
<1>7. p \in Range(SubSeq(v, 1, k))
  BY <1>5, <1>6, FromRange
<1>8. PICK i \in 1 .. k : p = v[i]
  <2> DEFINE u == SubSeq(v, 1, k)
  <2>1. u \in Seq(Payloads) /\ Len(u) = k /\ \A i \in 1 .. k : u[i] = v[i]
    BY <1>5, <1>6, FirstSays
  <2>2. p \in Range(u)
    BY <1>7
  <2> HIDE DEF u
  <2>3. Range(u) = {u[i] : i \in 1 .. k}
    BY <2>1, RangeSays
  <2> QED  BY <2>1, <2>2, <2>3
<1>9. i \in 1 .. Len(w)
  BY <1>5, <1>6
<1>10. w[i].payload = p /\ w[i] \in Range(w) /\ w[i].at + Retention < clock
  BY <1>1, <1>3, <1>5, <1>8, <1>9, RangeSays DEF Stale
<1>11. w[i].at + Retention < now
  <2>1. w[i].at \in Nat /\ Retention \in Nat /\ now \in Nat
    BY <1>5, <1>9, Numbers, Facts DEF Item
  <2> QED  BY <1>10, <2>1
<1> QED  BY <1>4, <1>10, <1>11

\* The step that could lose a payload: each action either leaves it where it was, hands
\* it on, or finds it too old.
LEMMA StepLosesNothing ==
    ASSUME QueueInv, [QueueNext]_queueVars, NEW p \in Held, HomeMode
    PROVE  p \in Held' \cup home' \cup Range(taken') \/ TooOld(p)
<1>0. /\ p \in Range(Waiting) \cup Range(forwarder.batch) \cup Busy
      /\ Held' = Range(Waiting') \cup Range(forwarder'.batch) \cup Busy'
  <2>1. QueueInv'
    BY QueueInductive
  <2>2. Held' = Range(Waiting') \cup Range(forwarder'.batch) \cup Busy'
    BY <2>1, HeldNext
  <2> QED  BY <2>2, HeldIs
<1>1. enabled /\ admin.pc = "idle" /\ subscribers = {} /\ \A s \in Subscribers : handler[s].pc \in {"away", "gone"}
  BY DEF QueueInv, AtHome
<1>2. ASSUME UNCHANGED <<queue, forwarder, enqueuer>> PROVE p \in Held'
  BY <1>2 DEF Held
<1>3. CASE Dispatch
  <2>1. UNCHANGED <<queue, forwarder>> /\ \A t \in Threads : enqueuer[t].pc # "idle" => enqueuer'[t] = enqueuer[t]
    <3>1. PICK e : enqueuer' = [enqueuer EXCEPT !["dispatcher"] = e]
      BY <1>3 DEF Dispatch, Enqueue
    <3>2. enqueuer["dispatcher"].pc = "idle" /\ queue' = queue /\ forwarder' = forwarder
      BY <1>3 DEF Dispatch, lockedVars
    <3> QED  BY <3>1, <3>2, ForwarderSays DEF Threads
  <2>2. Waiting' = Waiting /\ Busy \in SUBSET Busy'
    BY <2>1 DEF Waiting, Busy
  <2> QED  BY <1>0, <2>1, <2>2
<1>4. ASSUME NEW t \in Threads, PublishToSubscribers(t) PROVE p \in Held'
  <2>1. /\ UNCHANGED <<queue, forwarder>> /\ enqueuer[t].pc = "publish"
        /\ enqueuer' = [enqueuer EXCEPT ![t].pc = "append", ![t].clock = now]
    BY <1>1, <1>4 DEF PublishToSubscribers
  <2>2. \A u \in Threads : /\ enqueuer[u].pc # "idle" => enqueuer'[u].pc # "idle"
                           /\ enqueuer'[u].payload = enqueuer[u].payload
    BY <2>1, ForwarderSays
  <2>3. Waiting' = Waiting /\ Busy \in SUBSET Busy'
    BY <2>1, <2>2 DEF Waiting, Busy
  <2> QED  BY <1>0, <2>1, <2>3
<1>5. ASSUME NEW t \in Threads, Keep(t) PROVE p \in Held' \/ TooOld(p)
  <2> DEFINE new == enqueuer[t].payload
             clock == enqueuer[t].clock
  <2>1. /\ new \in Payloads /\ new \notin Range(Waiting) /\ Adds(queue, queue', new, clock)
        /\ \A u \in Threads \ {t} : enqueuer'[u] = enqueuer[u]
        /\ forwarder' = forwarder
    BY <1>5, KeepAdds DEF Keep
  <2>2. clock \in Nat /\ clock <= now
    BY Facts, Numbers DEF QueueInv, Phases
  <2>3. new \in Range(Waiting')
    BY <2>1, WaitingGrows
  <2>4. Busy \in SUBSET (Busy' \cup {new})
    BY <2>1 DEF Busy
  <2> HIDE DEF new, clock
  <2>5. PICK k \in 0 .. Len(Waiting) : /\ Waiting' = Append(From(Waiting, k), new)
                                       /\ \A i \in 1 .. k : Stale(Live(queue)[i], clock)
    BY <2>1 DEF Adds, Waiting
  <2>6. Range(Waiting') = Range(From(Waiting, k)) \cup {new}
    <3>1. From(Waiting, k) \in Seq(Payloads)
      BY Facts, FromSays
    <3> DEFINE u == From(Waiting, k)
    <3>2. u \in Seq(Payloads) /\ Waiting' = Append(u, new)
      BY <2>5, <3>1
    <3> HIDE DEF u
    <3>3. Range(Waiting') = Range(u) \cup {new}
      BY <2>1, <3>2, AppendRange
    <3> QED  BY <3>3 DEF u
  <2>7. p \in Range(Waiting) /\ p \notin Range(From(Waiting, k)) => TooOld(p)
    BY <2>2, <2>5, PassedOver
  <2> QED  BY <1>0, <2>1, <2>3, <2>4, <2>6, <2>7
<1>6. ASSUME NEW payloads, NEW clock \in Nat, clock <= now, HandsOut(queue, queue', payloads, clock)
      PROVE  p \in Range(Waiting) => p \in Range(Waiting') \cup Range(payloads) \/ TooOld(p)
  <2>1. PICK k \in 0 .. Len(Waiting) : \E n \in 0 .. Len(Waiting) - k :
              /\ Waiting' = From(Waiting, k + n)
              /\ payloads = SubSeq(From(Waiting, k), 1, n)
              /\ \A i \in 1 .. k : Stale(Live(queue)[i], clock)
    BY <1>6 DEF HandsOut, Waiting
  <2>2. PICK n \in 0 .. Len(Waiting) - k :
              /\ Waiting' = From(Waiting, k + n)
              /\ payloads = SubSeq(From(Waiting, k), 1, n)
              /\ \A i \in 1 .. k : Stale(Live(queue)[i], clock)
    BY <2>1
  <2> DEFINE u == From(Waiting, k)
  <2>3. u \in Seq(Payloads) /\ n \in 0 .. Len(u)
    BY Facts, FromSays
  <2>4. From(u, n) = From(Waiting, k + n)
    BY Facts, FromFrom
  <2>5. Waiting' = From(u, n) /\ payloads = SubSeq(u, 1, n)
    BY <2>2, <2>4
  <2>6. p \in Range(Waiting) /\ p \notin Range(u) => TooOld(p)
    BY <1>6, <2>2, PassedOver
  <2> HIDE DEF u
  <2>7. Range(u) = Range(SubSeq(u, 1, n)) \cup Range(From(u, n))
    BY <2>3, FromRange
  <2> QED  BY <2>5, <2>6, <2>7
<1>7. CASE PopOldest
  <2>1. PICK payloads : HandsOut(queue, queue', payloads, poller.clock) /\ taken' = taken \o payloads
    BY <1>7, PopOldestHandsOut
  <2>2. payloads \in Seq(Payloads) /\ taken \in Seq(Payloads)
    BY <2>1, WaitingShrinks, TypeParts DEF QueueInv, Typed
  <2>3. Range(taken') = Range(taken) \cup Range(payloads)
    BY <2>1, <2>2, RangeConcatenation
  <2>4. poller.clock \in Nat /\ poller.clock <= now
    BY TypeParts, Numbers DEF QueueInv, Typed, PollerT, Phases
  <2>5. p \in Range(Waiting) => p \in Range(Waiting') \cup Range(payloads) \/ TooOld(p)
    BY <1>6, <2>1, <2>4
  <2>6. forwarder' = forwarder /\ Busy' = Busy
    BY <1>7 DEF PopOldest, Busy
  <2> QED  BY <1>0, <2>3, <2>5, <2>6
<1>8. CASE ForwarderPops
  <2>1. HandsOut(queue, queue', forwarder'.batch, forwarder.clock)
    BY <1>8, ForwarderPopsHandsOut
  <2>2. forwarder.clock \in Nat /\ forwarder.clock <= now
    BY ForwarderSays, Numbers
  <2>3. p \in Range(Waiting) => p \in Range(Waiting') \cup Range(forwarder'.batch) \/ TooOld(p)
    BY <1>6, <2>1, <2>2
  <2>4. Range(forwarder.batch) = {} /\ Busy' = Busy
    BY <1>8, ForwarderSays, EmptyRange DEF ForwarderPops, Busy
  <2> QED  BY <1>0, <2>3, <2>4
<1>9. CASE Push
  <2>1. /\ forwarder.pc = "push" /\ queue' = queue /\ enqueuer' = enqueuer
        /\ home' = home \cup {Head(forwarder.batch)}
        /\ forwarder' = [forwarder EXCEPT !.batch = Rest, !.pc = IF Rest = <<>> THEN "poll" ELSE "push"]
    BY <1>9 DEF Push
  <2>2. forwarder'.batch = Rest
    BY <2>1, ForwarderSays
  <2>3. Range(forwarder.batch) = {Head(forwarder.batch)} \cup Range(Rest)
    BY <2>1, RestSays
  <2>4. Waiting' = Waiting /\ Busy' = Busy
    BY <2>1 DEF Waiting, Busy
  <2> QED  BY <1>0, <2>1, <2>2, <2>3, <2>4
<1>10. CASE PushFails
  <2>1. queue' = queue /\ enqueuer' = enqueuer /\ forwarder'.batch = forwarder.batch
    BY <1>10, ForwarderSays DEF PushFails, GivenBack
  <2>2. Waiting' = Waiting /\ Busy' = Busy
    BY <2>1 DEF Waiting, Busy
  <2> QED  BY <1>0, <2>1, <2>2
<1>11. CASE Requeue
  <2>1. /\ forwarder.pc = "requeue" /\ enqueuer["forwarder"].pc = "idle" /\ queue' = queue
        /\ enqueuer' = [enqueuer EXCEPT !["forwarder"] = [pc |-> "publish", payload |-> Head(forwarder.batch), clock |-> 0]]
        /\ forwarder' = [forwarder EXCEPT !.batch = Rest, !.pc = IF Rest = <<>> THEN AfterFailure ELSE "requeue"]
    BY <1>1, <1>11 DEF Requeue, Enqueue
  <2>2. forwarder'.batch = Rest /\ Waiting' = Waiting
    BY <2>1, ForwarderSays DEF Waiting
  <2>3. Range(forwarder.batch) = {Head(forwarder.batch)} \cup Range(Rest)
    BY <2>1, RestSays
  <2>4. /\ enqueuer'["forwarder"].pc = "publish" /\ enqueuer'["forwarder"].payload = Head(forwarder.batch)
        /\ enqueuer'["dispatcher"] = enqueuer["dispatcher"]
    BY <2>1, ForwarderSays DEF Threads
  <2>5. Busy \in SUBSET Busy' /\ Head(forwarder.batch) \in Busy'
    BY <2>1, <2>4 DEF Busy, Threads
  <2> QED  BY <1>0, <2>2, <2>3, <2>5
<1>12. CASE ForwarderStarts \/ Cancel
  <2>1. queue' = queue /\ enqueuer' = enqueuer /\ forwarder'.batch = forwarder.batch
    BY <1>12, ForwarderSays DEF ForwarderStarts, Cancel
  <2>2. Waiting' = Waiting /\ Busy' = Busy
    BY <2>1 DEF Waiting, Busy
  <2> QED  BY <1>0, <2>1, <2>2
<1>13. CASE \E value \in BOOLEAN : SetEnabled(value)
  BY <1>1, <1>13 DEF SetEnabled
<1>14. CASE Clear \/ CloseNext
  BY <1>1, <1>14 DEF Clear, CloseNext
<1>15. CASE \E s \in Subscribers : Handler(s)
  BY <1>2, <1>15
     DEF Handler, Connect, SubscribeUsage, Receive, Leave, StreamEnds, Unsubscribe, CloseOwn,
     HandlerUnchanged
<1>16. CASE PollStarts \/ Tick \/ UNCHANGED queueVars
  BY <1>2, <1>16 DEF PollStarts, Tick, queueVars, lockedVars
<1> QED  BY <1>3, <1>4, <1>5, <1>7, <1>8, <1>9, <1>10, <1>11, <1>12, <1>13, <1>14, <1>15, <1>16
   DEF QueueNext

\* In home mode a payload leaves queue, forwarder and Enqueue only for the home service
\* or a reader, or because it is older than the retention time; a failed push loses
\* nothing.
THEOREM NothingLost == QueueSpec => KeptUntilDelivered
<1>1. QueueInv /\ [QueueNext]_queueVars => [\A payload \in Held :
                                              \/ ~HomeMode
                                              \/ payload \in Held' \cup home' \cup Range(taken')
                                              \/ TooOld(payload)]_queueVars
  BY StepLosesNothing
<1> QED  BY <1>1, QueueInvariance, PTL DEF QueueSpec, KeptUntilDelivered

\* The initial states are initial states of UsageFeed.
LEMMA FeedInit == QueueInit => Feed!Init
<1> SUFFICES ASSUME QueueInit PROVE Feed!Init
  OBVIOUS
<1>1. /\ queue = NoItems /\ given = 0 /\ enqueuer = [t \in Threads |-> NoPayload] /\ told = <<>> /\ taken = <<>>
      /\ forwarder.batch = <<>>
  BY DEF QueueInit
<1>2. PayloadsOf(Live(queue)) = <<>>
  <2>1. Len(PayloadsOf(<<>>)) = 0 /\ PayloadsOf(<<>>) \in Seq(Payloads)
    BY PayloadsSay, EmptySeq
  <2> QED  BY <1>1, <2>1, EmptySeq, NoItemsSay
<1>3. Dispatched = 0 /\ Away = {}
  BY <1>1, EmptyRange DEF Dispatched, Away, Threads, NoPayload
<1> QED  BY <1>1, <1>2, <1>3 DEF Feed!Init

\* What UsageFeed calls Left: the queue without its k oldest.
LEMMA LeftSays ==
    ASSUME QueueInv, NEW k \in 0 .. Len(Waiting)
    PROVE  From(Waiting, k) \in Feed!Left
<1>1. Len(Waiting) \in Nat
  BY Facts, LenProperties
<1>2. k + 1 \in 1 .. Len(Waiting) + 1
  BY <1>1
<1> QED  BY <1>2 DEF Feed!Left, From, Waiting

\* What is handed out is the beginning of what is left, which goes on with what then waits.
LEMMA HandsOutLeft ==
    ASSUME QueueInv, NEW payloads, NEW clock, HandsOut(queue, queue', payloads, clock)
    PROVE  \E left \in Feed!Left : \E n \in 0 .. Len(left) :
               payloads = SubSeq(left, 1, n) /\ Waiting' = SubSeq(left, n + 1, Len(left))
<1>1. PICK k \in 0 .. Len(Waiting) : \E n \in 0 .. Len(Waiting) - k :
              Waiting' = From(Waiting, k + n) /\ payloads = SubSeq(From(Waiting, k), 1, n)
  BY DEF HandsOut, Waiting
<1>2. PICK n \in 0 .. Len(Waiting) - k :
              Waiting' = From(Waiting, k + n) /\ payloads = SubSeq(From(Waiting, k), 1, n)
  BY <1>1
<1> DEFINE left == From(Waiting, k)
<1>3. left \in Feed!Left /\ n \in 0 .. Len(left)
  BY LeftSays, Facts, FromSays
<1>4. From(left, n) = Waiting'
  BY <1>2, Facts, FromFrom
<1>5. payloads = SubSeq(left, 1, n)
  BY <1>2
<1> HIDE DEF left
<1> QED  BY <1>3, <1>4, <1>5 DEF From

\* Every step of the queue is a step of UsageFeed or none: Dispatch under a disabled
\* queue refuses, publishing tells, Keep keeps or comes back, pops take or send away, and
\* a push arrives.
LEMMA FeedStep == QueueInv /\ [QueueNext]_queueVars => [Feed!Next]_(Feed!vars)
<1> SUFFICES ASSUME QueueInv, [QueueNext]_queueVars PROVE Feed!Next \/ UNCHANGED Feed!vars
  OBVIOUS
<1> DEFINE waiting == PayloadsOf(Live(queue))
<1>0. waiting = Waiting
  BY DEF Waiting
<1>1. ASSUME Waiting' = Waiting, Away' = Away, Dispatched' = Dispatched, told' = told, taken' = taken
      PROVE  UNCHANGED Feed!vars
  BY <1>1 DEF Feed!vars, Waiting
<1>2. ASSUME UNCHANGED <<queue, forwarder, enqueuer, given, told, taken>> PROVE UNCHANGED Feed!vars
  BY <1>1, <1>2 DEF Waiting, Away, Dispatched
<1>3. CASE Dispatch
  <2>1. /\ enqueuer["dispatcher"].pc = "idle" /\ given' = given + 1
        /\ UNCHANGED <<queue, forwarder, told, taken>>
        /\ enqueuer' = [enqueuer EXCEPT !["dispatcher"] =
             IF enabled THEN [pc |-> "publish", payload |-> given', clock |-> 0] ELSE NoPayload]
    BY <1>3 DEF Dispatch, Enqueue, lockedVars
  <2>2. enqueuer'["forwarder"] = enqueuer["forwarder"]
    <3>1. PICK e : enqueuer' = [enqueuer EXCEPT !["dispatcher"] = e]
      BY <2>1
    <3> QED  BY <3>1, ForwarderSays DEF Threads
  <2>3. Waiting' = Waiting /\ Away' = Away /\ Dispatched = given /\ given \in Nat
    BY <2>1, <2>2, Facts DEF Waiting, Away
  <2>4. CASE enabled
    <3>1. enqueuer'["dispatcher"].pc = "publish"
      BY <2>1, <2>4, ForwarderSays DEF Threads
    <3>2. Dispatched' = Dispatched
      BY <2>1, <2>3, <3>1 DEF Dispatched
    <3> QED  BY <1>1, <2>1, <2>3, <3>2
  <2>5. CASE ~enabled
    <3>1. enqueuer'["dispatcher"].pc = "idle"
      BY <2>1, <2>5, ForwarderSays DEF Threads, NoPayload
    <3>2. Dispatched' = Dispatched + 1
      BY <2>1, <2>3, <3>1 DEF Dispatched
    <3>3. Feed!Refuse
      BY <2>1, <2>3, <3>2 DEF Feed!Refuse, Waiting
    <3> QED  BY <3>3 DEF Feed!Next
  <2> QED  BY <2>4, <2>5
<1>4. ASSUME NEW t \in Threads, PublishToSubscribers(t) PROVE Feed!Next \/ UNCHANGED Feed!vars
  <2>1. enqueuer[t].pc = "publish" /\ UNCHANGED <<queue, forwarder, given, taken>>
    BY <1>4 DEF PublishToSubscribers
  <2>2. CASE subscribers = {}
    <3>1. enqueuer' = [enqueuer EXCEPT ![t].pc = "append", ![t].clock = now] /\ told' = told
      BY <1>4, <2>2 DEF PublishToSubscribers
    <3>2. \A u \in Threads : /\ enqueuer'[u].payload = enqueuer[u].payload
                             /\ enqueuer'[u].pc = "idle" <=> enqueuer[u].pc = "idle"
      BY <2>1, <3>1, ForwarderSays
    <3>3. Waiting' = Waiting /\ Away' = Away /\ Dispatched' = Dispatched
      BY <2>1, <3>2 DEF Waiting, Away, Dispatched, Threads
    <3> QED  BY <1>1, <2>1, <3>1, <3>3
  <2>3. CASE subscribers # {}
    <3>1. enqueuer' = [enqueuer EXCEPT ![t] = NoPayload] /\ told' = Append(told, enqueuer[t].payload)
      BY <1>4, <2>3 DEF PublishToSubscribers
    <3>2. t = "dispatcher" /\ enqueuer[t].payload = given
      <4>1. ~HomeMode
        BY <2>3 DEF QueueInv, AtHome
      <4>2. enqueuer["forwarder"].pc = "idle"
        BY <4>1 DEF QueueInv, Phases, HomeMode
      <4>3. t = "dispatcher"
        BY <2>1, <4>2 DEF Threads
      <4> QED  BY <2>1, <4>3 DEF QueueInv, Phases
    <3>3. enqueuer'["forwarder"] = enqueuer["forwarder"] /\ enqueuer'["dispatcher"].pc = "idle"
      BY <3>1, <3>2, ForwarderSays DEF Threads, NoPayload
    <3>4. Waiting' = Waiting /\ Away' = Away
      BY <2>1, <3>3 DEF Waiting, Away
    <3>5. Dispatched' = Dispatched + 1 /\ Dispatched' = given
      BY <2>1, <3>2, <3>3, Facts DEF Dispatched
    <3>6. Feed!Tell
      BY <2>1, <3>1, <3>2, <3>4, <3>5 DEF Feed!Tell, Waiting
    <3> QED  BY <3>6 DEF Feed!Next
  <2> QED  BY <2>2, <2>3
<1>5. ASSUME NEW t \in Threads, Keep(t) PROVE Feed!Next
  <2> DEFINE p == enqueuer[t].payload
  <2>1. /\ enqueuer[t].pc = "append" /\ UNCHANGED <<given, forwarder, told, taken>>
    BY <1>5 DEF Keep
  <2>2. /\ Adds(queue, queue', p, enqueuer[t].clock)
        /\ enqueuer'[t] = NoPayload /\ \A u \in Threads \ {t} : enqueuer'[u] = enqueuer[u]
    BY <1>5, KeepAdds
  <2>3. \E left \in Feed!Left : Waiting' = Append(left, p)
    <3>1. PICK k \in 0 .. Len(Waiting) : Waiting' = Append(From(Waiting, k), p)
      BY <2>2 DEF Adds, Waiting
    <3> QED  BY <3>1, LeftSays
  <2>4. CASE t = "dispatcher"
    <3>1. p = given /\ Dispatched = given - 1 /\ Dispatched' = given /\ given \in Nat
      BY <2>1, <2>2, <2>4, Facts DEF QueueInv, Phases, Dispatched, NoPayload
    <3>2. Away' = Away
      BY <2>1, <2>2, <2>4 DEF Away, Threads
    <3>3. Feed!Keep
      <4>1. Dispatched' = Dispatched + 1 /\ \E left \in Feed!Left : Waiting' = Append(left, Dispatched')
        BY <2>3, <3>1
      <4> QED  BY <2>1, <3>2, <4>1 DEF Feed!Keep, Waiting
    <3> QED  BY <3>3 DEF Feed!Next
  <2>5. CASE t = "forwarder"
    <3>1. Dispatched' = Dispatched
      BY <2>1, <2>2, <2>5 DEF Dispatched, Threads
    <3>2. p \in Away /\ Away' = Away \ {p}
      <4>1. p \notin Range(forwarder.batch) /\ p \in Away
        BY <2>1, <2>5, Whereabouts DEF QueueInv, Distinct
      <4>2. Away = Range(forwarder.batch) \cup {p}
        BY <2>1, <2>5, Whereabouts
      <4>3. Away' = Range(forwarder.batch)
        BY <2>1, <2>2, <2>5 DEF Away, NoPayload
      <4> QED  BY <4>1, <4>2, <4>3
    <3>3. Feed!ComeBack
      BY <2>1, <2>3, <3>1, <3>2 DEF Feed!ComeBack, Waiting
    <3> QED  BY <3>3 DEF Feed!Next
  <2> QED  BY <2>4, <2>5 DEF Threads
<1>6. CASE PopOldest
  <2>1. PICK payloads : HandsOut(queue, queue', payloads, poller.clock) /\ taken' = taken \o payloads
    BY <1>6, PopOldestHandsOut
  <2>2. PICK left \in Feed!Left : \E n \in 0 .. Len(left) :
               payloads = SubSeq(left, 1, n) /\ Waiting' = SubSeq(left, n + 1, Len(left))
    BY <2>1, HandsOutLeft
  <2>3. UNCHANGED <<enqueuer, forwarder, given, told>>
    BY <1>6 DEF PopOldest
  <2>4. Dispatched' = Dispatched /\ Away' = Away
    BY <2>3 DEF Dispatched, Away
  <2>5. Feed!Take
    BY <2>1, <2>2, <2>3, <2>4 DEF Feed!Take, Waiting
  <2> QED  BY <2>5 DEF Feed!Next
<1>7. CASE Clear
  <2>1. queue' = NoItems /\ UNCHANGED <<enqueuer, forwarder, given, told, taken>>
    BY <1>7 DEF Clear
  <2>2. Waiting' = <<>> /\ <<>> \in Seq(Payloads) /\ Len(<<>>) = 0
    <3>1. Len(PayloadsOf(<<>>)) = 0 /\ PayloadsOf(<<>>) \in Seq(Payloads)
      BY PayloadsSay, EmptySeq
    <3> QED  BY <2>1, <3>1, EmptySeq, NoItemsSay DEF Waiting
  <2> DEFINE empty == <<>>
  <2>3. empty \in Feed!Left
    <3>1. Len(Waiting) \in Nat /\ Waiting \in Seq(Payloads)
      BY Facts, LenProperties
    <3>2. Len(Waiting) \in 0 .. Len(Waiting)
      BY <3>1
    <3>3. Len(From(Waiting, Len(Waiting))) = 0 /\ From(Waiting, Len(Waiting)) \in Seq(Payloads)
      BY <3>1, <3>2, FromSays
    <3>4. From(Waiting, Len(Waiting)) = <<>>
      BY <3>3, EmptySeq
    <3> QED  BY <3>2, <3>4, LeftSays
  <2>4. empty = From(empty, 0) /\ SubSeq(empty, 1, 0) = empty /\ empty \in Seq(Payloads)
        /\ 0 \in 0 .. Len(empty) /\ Waiting' = empty
    <3>1. empty \in Seq(Payloads) /\ Len(empty) = 0 /\ 0 \in 0 .. Len(empty)
      BY <2>2
    <3>2. \A w \in Seq(Payloads) : Len(w) = 0 => w = empty
      <4> TAKE w \in Seq(Payloads)
      <4> QED  BY EmptySeq
    <3>3. Waiting' = empty
      BY <2>2
    <3> HIDE DEF empty
    <3>4. From(empty, 0) \in Seq(Payloads) /\ Len(From(empty, 0)) = 0
      <4>1. \A n \in 0 .. Len(empty) : From(empty, n) \in Seq(Payloads) /\ Len(From(empty, n)) = Len(empty) - n
        BY <3>1, FromSays
      <4> QED  BY <3>1, <4>1
    <3>5. SubSeq(empty, 1, 0) \in Seq(Payloads) /\ Len(SubSeq(empty, 1, 0)) = 0
      <4>1. \A n \in 0 .. Len(empty) : SubSeq(empty, 1, n) \in Seq(Payloads) /\ Len(SubSeq(empty, 1, n)) = n
        BY <3>1, FirstSays
      <4> QED  BY <3>1, <4>1
    <3> QED  BY <3>1, <3>2, <3>3, <3>4, <3>5
  <2>5. taken \o empty = taken
    <3>1. taken \in Seq(Payloads)
      BY TypeParts DEF QueueInv, Typed
    <3> QED  BY <3>1, ConcatEmptySeq
  <2> HIDE DEF empty
  <2>6. /\ taken' = taken \o SubSeq(empty, 1, 0)
        /\ Waiting' = SubSeq(empty, 0 + 1, Len(empty))
    BY <2>1, <2>4, <2>5 DEF From
  <2>7. Dispatched' = Dispatched /\ Away' = Away
    BY <2>1 DEF Dispatched, Away
  <2>8. Feed!Take
    BY <2>1, <2>3, <2>4, <2>6, <2>7 DEF Feed!Take, Waiting
  <2> QED  BY <2>8 DEF Feed!Next
<1>8. CASE ForwarderPops
  <2>1. HandsOut(queue, queue', forwarder'.batch, forwarder.clock)
    BY <1>8, ForwarderPopsHandsOut
  <2>2. PICK left \in Feed!Left : \E n \in 0 .. Len(left) :
               forwarder'.batch = SubSeq(left, 1, n) /\ Waiting' = SubSeq(left, n + 1, Len(left))
    BY <2>1, HandsOutLeft
  <2>3. /\ UNCHANGED <<enqueuer, given, told, taken>> /\ forwarder.pc = "pop"
    BY <1>8 DEF ForwarderPops, ForwarderUnchanged
  <2>4. Away = {} /\ Away' = Range(forwarder'.batch) /\ Dispatched' = Dispatched
    <3>1. forwarder.batch = <<>> /\ enqueuer["forwarder"].payload = 0
      BY <2>3, ForwarderSays
    <3>2. {enqueuer["forwarder"].payload} \ {0} = {} /\ {enqueuer'["forwarder"].payload} \ {0} = {}
      BY <2>3, <3>1
    <3> QED  BY <2>3, <3>1, <3>2, EmptyRange DEF Away, Dispatched
  <2>5. \A w : Range(w) = Feed!ToSet(w)
    BY DEF Range, Feed!ToSet
  <2>6. Feed!SendAway
    BY <2>2, <2>3, <2>4, <2>5 DEF Feed!SendAway, Waiting
  <2> QED  BY <2>6 DEF Feed!Next
<1>9. CASE Push
  <2>1. /\ forwarder.pc = "push" /\ UNCHANGED <<queue, enqueuer, given, told, taken>>
        /\ forwarder' = [forwarder EXCEPT !.batch = Rest, !.pc = IF Rest = <<>> THEN "poll" ELSE "push"]
    BY <1>9 DEF Push, ForwarderUnchanged
  <2>2. /\ Range(forwarder.batch) = {Head(forwarder.batch)} \cup Range(Rest)
        /\ Head(forwarder.batch) \notin Range(Rest) /\ Head(forwarder.batch) \in Payloads
    BY <2>1, RestSays
  <2>3. forwarder'.batch = Rest /\ {enqueuer["forwarder"].payload} \ {0} = {}
    BY <2>1, ForwarderSays
  <2>4. Away = Range(forwarder.batch) /\ Away' = Range(Rest)
    BY <2>1, <2>3 DEF Away
  <2>5. Head(forwarder.batch) \in Away /\ Away' = Away \ {Head(forwarder.batch)}
    BY <2>2, <2>4
  <2>6. Waiting' = Waiting /\ Dispatched' = Dispatched
    BY <2>1 DEF Waiting, Dispatched
  <2>7. Feed!Arrive
    BY <2>1, <2>5, <2>6 DEF Feed!Arrive, Waiting
  <2> QED  BY <2>7 DEF Feed!Next
<1>10. CASE ForwarderStarts \/ PushFails \/ Cancel
  <2>1. UNCHANGED <<queue, enqueuer, given, told, taken>> /\ forwarder'.batch = forwarder.batch
    BY <1>10, ForwarderSays DEF ForwarderStarts, PushFails, Cancel, ForwarderUnchanged, GivenBack
  <2>2. Waiting' = Waiting /\ Away' = Away /\ Dispatched' = Dispatched
    BY <2>1 DEF Waiting, Away, Dispatched
  <2> QED  BY <1>1, <2>1, <2>2
<1>11. CASE Requeue
  <2>0. enabled
    BY <1>11 DEF Requeue, QueueInv, AtHome, HomeMode
  <2>1. /\ forwarder.pc = "requeue" /\ enqueuer["forwarder"].pc = "idle"
        /\ UNCHANGED <<queue, given, told, taken>>
        /\ enqueuer' = [enqueuer EXCEPT !["forwarder"] = [pc |-> "publish", payload |-> Head(forwarder.batch), clock |-> 0]]
        /\ forwarder' = [forwarder EXCEPT !.batch = Rest, !.pc = IF Rest = <<>> THEN AfterFailure ELSE "requeue"]
    BY <1>11, <2>0 DEF Requeue, Enqueue, ForwarderUnchanged
  <2>2. /\ Range(forwarder.batch) = {Head(forwarder.batch)} \cup Range(Rest) /\ Head(forwarder.batch) \in Payloads
    BY <2>1, RestSays
  <2>3. forwarder'.batch = Rest /\ enqueuer'["dispatcher"] = enqueuer["dispatcher"]
        /\ enqueuer'["forwarder"].payload = Head(forwarder.batch)
    BY <2>1, ForwarderSays DEF Threads
  <2>4. Away = Range(forwarder.batch)
    BY <2>1, Whereabouts
  <2>5. Away' = Range(Rest) \cup {Head(forwarder.batch)}
    BY <2>2, <2>3 DEF Away, Payloads
  <2>6. Waiting' = Waiting /\ Dispatched' = Dispatched
    BY <2>1, <2>3 DEF Waiting, Dispatched
  <2> QED  BY <1>1, <2>1, <2>2, <2>4, <2>5, <2>6
<1>12. CASE \E value \in BOOLEAN : SetEnabled(value)
  BY <1>2, <1>12 DEF SetEnabled, lockedVars
<1>13. CASE CloseNext
  BY <1>2, <1>13 DEF CloseNext
<1>14. CASE \E s \in Subscribers : Handler(s)
  BY <1>2, <1>14
     DEF Handler, Connect, SubscribeUsage, Receive, Leave, StreamEnds, Unsubscribe, CloseOwn,
     HandlerUnchanged
<1>15. CASE PollStarts \/ Tick \/ UNCHANGED queueVars
  BY <1>2, <1>15 DEF PollStarts, Tick, queueVars, lockedVars
<1> QED  BY <1>3, <1>4, <1>5, <1>6, <1>7, <1>8, <1>9, <1>10, <1>11, <1>12, <1>13, <1>14, <1>15
   DEF QueueNext

\* The usage queue implements UsageFeed, under the refinement mapping given <-
\* Dispatched, waiting <- the payloads alive in the queue, away <- what the forwarder
\* has.
THEOREM IsFeed == QueueSpec => ImplementsFeed
<1>1. [][QueueNext]_queueVars /\ []QueueInv => [][Feed!Next]_(Feed!vars)
  BY FeedStep, PTL
<1> QED  BY <1>1, FeedInit, QueueInvariance, PTL DEF QueueSpec, ImplementsFeed, Feed!Spec
==============================================================================
