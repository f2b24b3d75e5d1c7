------------------------------ MODULE UsageQueue ------------------------------
(***************************************************************************)
(* internal/redisqueue: usage payloads, sent to the clients that have      *)
(* subscribed over the redis protocol or else kept for a while for those   *)
(* that poll.  In home mode nobody subscribes, and a forwarder polls for   *)
(* the home service and gives back what it could not deliver.              *)
(*                                                                         *)
(* A step is what one goroutine does under the queue's lock, or between    *)
(* two locks.  Payloads are numbered in the order in which the usage       *)
(* dispatcher, a single goroutine, hands them to the plugin.               *)
(***************************************************************************)
EXTENDS Naturals, Sequences, FiniteSets, FiniteSetsExt, SequencesExt

CONSTANTS
    Subscribers,  \* connections
    Buffer,       \* usageSubscriberBuffer: 256
    Retention,
    CompactAt,    \* 1024
    Batch,        \* what the forwarder pops at a time: 64
    MaxPayloads,  \* bound on the payloads
    MaxTime,      \* bound on the clock
    MaxSwitches   \* bound on the changes of the configuration

QueueSetting ==
    /\ {Buffer, Retention, CompactAt, Batch, MaxPayloads} \subseteq Nat \ {0}
    /\ {MaxTime, MaxSwitches} \subseteq Nat

ASSUME QueueAssumption == QueueSetting

VARIABLES
    now,
    enabled,     \* the flag, and managementRoutesEnabled, which is set just before it
    queue,       \* items and head
    subscribers, \* keys of q.subscribers
    channel,     \* by subscriber
    admin,       \* UpdateClients: SetEnabled under way
    given,       \* payloads dispatched
    enqueuer,    \* Enqueue under way, of the dispatcher and of the forwarder
    handler,     \* redis connections
    poller,      \* a reader that pops
    forwarder,
    told,        \* payloads published to subscribers
    taken,       \* payloads popped by the reader
    home         \* payloads that the home service has stored

lockedVars == <<queue, subscribers, channel>>
queueVars == <<now, enabled, lockedVars, admin, given, enqueuer, handler, poller, forwarder, told, taken, home>>

Threads == {"dispatcher", "forwarder"}
Payloads == 1 .. MaxPayloads
Item == [payload : Payloads, at : 0 .. MaxTime]
NoItems == [items |-> <<>>, head |-> 0]

(***************************************************************************)
(* The queue: items[head + 1], ... are alive                               *)
(***************************************************************************)

Live(q) == SubSeq(q.items, q.head + 1, Len(q.items))
PayloadsOf(items) == [i \in DOMAIN items |-> items[i].payload]

Stale(item, clock) == item.at + Retention < clock

\* pruneLocked: the oldest items that are too old are passed over.
Pruned(q, clock) ==
    IF q.head >= Len(q.items) THEN NoItems
    ELSE LET fresh == {i \in DOMAIN q.items : i > q.head /\ ~Stale(q.items[i], clock)}
         IN  [q EXCEPT !.head = IF fresh = {} THEN Len(q.items) ELSE Min(fresh) - 1]

CompactedShort(q) ==
    IF q.head = 0 THEN q
    ELSE IF q.head >= Len(q.items) THEN NoItems
    ELSE IF q.head < CompactAt /\ q.head * 2 < Len(q.items) THEN q
    ELSE [items |-> Tail(Live(q)), head |-> 0]

\* maybeCompactLocked
Compacted(q) ==
    IF q.head = 0 THEN q
    ELSE IF q.head >= Len(q.items) THEN NoItems
    ELSE IF q.head < CompactAt /\ q.head * 2 < Len(q.items) THEN q
    ELSE [items |-> Live(q), head |-> 0]

\* enqueue
Appended(q, payload, clock) ==
    Compacted([Pruned(q, clock) EXCEPT !.items = Append(@, [payload |-> payload, at |-> clock])])

\* popOldest
Popped(q, count, clock) ==
    LET pruned == Pruned(q, clock)
        n == Min({count, Len(Live(pruned))})
    IN  [payloads |-> PayloadsOf(SubSeq(Live(pruned), 1, n)),
         queue |-> IF Live(pruned) = <<>> THEN NoItems
                   ELSE Compacted([pruned EXCEPT !.head = @ + n])]

(***************************************************************************)
(* State                                                                   *)
(***************************************************************************)

QueueTypeOK ==
    /\ now \in 0 .. MaxTime
    /\ enabled \in BOOLEAN
    /\ queue \in [items : Seq(Item), head : Nat] /\ queue.head <= Len(queue.items)
    /\ subscribers \in SUBSET Subscribers
    /\ channel \in [Subscribers -> [buffer : BoundedSeq(Payloads, Buffer), closed : BOOLEAN]]
    /\ admin \in [pc : {"idle", "clear", "close"}, closing : SUBSET Subscribers, changes : 0 .. MaxSwitches]
    /\ given \in 0 .. MaxPayloads
    /\ enqueuer \in [Threads -> [pc : {"idle", "publish", "append"}, payload : Payloads \cup {0},
                                 clock : 0 .. MaxTime]]
    /\ handler \in [Subscribers -> [pc : {"away", "command", "stream", "close", "gone"},
                                    from : 0 .. MaxPayloads, got : Seq(Payloads)]]
    /\ poller \in [pc : {"idle", "pop", "off"}, clock : 0 .. MaxTime]
    /\ forwarder \in [pc : {"poll", "pop", "push", "requeue", "cancelled", "off"}, batch : Seq(Payloads),
                      clock : 0 .. MaxTime]
    /\ told \in Seq(Payloads)
    /\ taken \in Seq(Payloads)
    /\ home \in SUBSET Payloads

\* The service has a forwarder, and the queue stays on.
HomeMode == forwarder.pc # "off"

NoPayload == [pc |-> "idle", payload |-> 0, clock |-> 0]

\* Any of the connections may never come, nobody may poll, and there may be no forwarder.
QueueInit ==
    /\ now \in 0 .. MaxTime
    /\ enabled = TRUE
    /\ queue = NoItems
    /\ subscribers = {}
    /\ channel = [s \in Subscribers |-> [buffer |-> <<>>, closed |-> FALSE]]
    /\ admin = [pc |-> "idle", closing |-> {}, changes |-> 0]
    /\ given = 0
    /\ enqueuer = [t \in Threads |-> NoPayload]
    /\ \E come \in SUBSET Subscribers :
           handler = [s \in Subscribers |->
                         [pc |-> IF s \in come THEN "away" ELSE "gone", from |-> 0, got |-> <<>>]]
    /\ \E mode \in {"idle", "off"} : poller = [pc |-> mode, clock |-> 0]
    /\ \E mode \in {"poll", "off"} : forwarder = [pc |-> mode, batch |-> <<>>, clock |-> 0]
    /\ told = <<>>
    /\ taken = <<>>
    /\ home = {}

(***************************************************************************)
(* Enqueue                                                                 *)
(***************************************************************************)

\* Enabled() is asked first. What is handed over when the queue is off is gone.
Enqueue(t, payload) ==
    enqueuer' = [enqueuer EXCEPT ![t] =
        IF enabled THEN [pc |-> "publish", payload |-> payload, clock |-> 0] ELSE NoPayload]

Dispatch ==
    /\ enqueuer["dispatcher"].pc = "idle"
    /\ given < MaxPayloads
    /\ given' = given + 1
    /\ Enqueue("dispatcher", given')
    /\ UNCHANGED <<now, enabled, lockedVars, admin, handler, poller, forwarder, told, taken, home>>

Full(s) == Len(channel[s].buffer) >= Buffer

OfferSilently(s, payload) ==
    IF Full(s) THEN channel[s] ELSE [channel[s] EXCEPT !.buffer = Append(@, payload)]

OfferNewest(s, payload) ==
    IF Full(s) THEN [buffer |-> Append(Tail(channel[s].buffer), payload), closed |-> TRUE]
    ELSE [channel[s] EXCEPT !.buffer = Append(@, payload)]

Offer(s, payload) ==
    IF Full(s) THEN [channel[s] EXCEPT !.closed = TRUE]
    ELSE [channel[s] EXCEPT !.buffer = Append(@, payload)]

\* Whoever cannot take a payload at once is dropped.
DropSlow == {s \in subscribers : ~Full(s)}

\* publishToSubscribers. The clock that enqueue reads is read here already.
PublishToSubscribers(t) ==
    LET payload == enqueuer[t].payload
    IN  /\ enqueuer[t].pc = "publish"
        /\ IF subscribers = {}
           THEN /\ enqueuer' = [enqueuer EXCEPT ![t].pc = "append", ![t].clock = now]
                /\ UNCHANGED <<subscribers, channel, told>>
           ELSE /\ channel' = [s \in Subscribers |-> IF s \in subscribers THEN Offer(s, payload)
                                                     ELSE channel[s]]
                /\ subscribers' = DropSlow
                /\ told' = Append(told, payload)
                /\ enqueuer' = [enqueuer EXCEPT ![t] = NoPayload]
        /\ UNCHANGED <<now, enabled, queue, admin, given, handler, poller, forwarder, taken, home>>

Keep(t) ==
    /\ enqueuer[t].pc = "append"
    /\ queue' = Appended(queue, enqueuer[t].payload, enqueuer[t].clock)
    /\ enqueuer' = [enqueuer EXCEPT ![t] = NoPayload]
    /\ UNCHANGED <<now, enabled, subscribers, channel, admin, given, handler, poller, forwarder,
                   told, taken, home>>

(***************************************************************************)
(* SetEnabled, on every change of the configuration                        *)
(***************************************************************************)

SetEnabled(value) ==
    /\ admin.pc = "idle" /\ admin.changes < MaxSwitches
    /\ IF value THEN ~enabled ELSE ~HomeMode     \* nothing changes otherwise
    /\ enabled' = value
    /\ admin' = [admin EXCEPT !.changes = @ + 1, !.pc = IF value THEN "idle" ELSE "clear"]
    /\ UNCHANGED <<now, lockedVars, given, enqueuer, handler, poller, forwarder, told, taken, home>>

Clear ==
    /\ admin.pc = "clear"
    /\ queue' = NoItems
    /\ subscribers' = {}
    /\ admin' = [admin EXCEPT !.closing = subscribers, !.pc = IF subscribers = {} THEN "idle" ELSE "close"]
    /\ UNCHANGED <<now, enabled, channel, given, enqueuer, handler, poller, forwarder, told, taken, home>>

CloseNext ==
    /\ admin.pc = "close"
    /\ \E s \in admin.closing :
           /\ channel' = [channel EXCEPT ![s].closed = TRUE]
           /\ admin' = [admin EXCEPT !.closing = @ \ {s}, !.pc = IF admin.closing = {s} THEN "idle" ELSE "close"]
    /\ UNCHANGED <<now, enabled, queue, subscribers, given, enqueuer, handler, poller, forwarder,
                   told, taken, home>>

(***************************************************************************)
(* A redis connection that subscribes                                      *)
(***************************************************************************)

HandlerUnchanged == UNCHANGED <<now, enabled, queue, admin, given, enqueuer, poller, forwarder, told, taken, home>>

\* handleRedisConnection has looked at managementRoutesEnabled and waits for a command.
Connect(s) ==
    /\ handler[s].pc = "away"
    /\ enabled /\ ~HomeMode
    /\ handler' = [handler EXCEPT ![s].pc = "command"]
    /\ UNCHANGED <<subscribers, channel>> /\ HandlerUnchanged

SubscribeUsage(s) ==
    /\ handler[s].pc = "command"
    /\ subscribers' = subscribers \cup {s}
    /\ handler' = [handler EXCEPT ![s].pc = "stream", ![s].from = Len(told)]
    /\ UNCHANGED channel /\ HandlerUnchanged

\* streamRedisUsageSubscription
Receive(s) ==
    /\ handler[s].pc = "stream"
    /\ channel[s].buffer # <<>>
    /\ handler' = [handler EXCEPT ![s].got = Append(@, Head(channel[s].buffer))]
    /\ channel' = [channel EXCEPT ![s].buffer = Tail(@)]
    /\ UNCHANGED subscribers /\ HandlerUnchanged

UnsubscribeUnchecked(s) ==
    /\ subscribers' = subscribers \ {s}
    /\ handler' = [handler EXCEPT ![s].pc = "close"]
    /\ UNCHANGED channel /\ HandlerUnchanged

Unsubscribe(s) ==
    /\ subscribers' = subscribers \ {s}
    /\ handler' = [handler EXCEPT ![s].pc = IF s \in subscribers THEN "close" ELSE "gone"]
    /\ UNCHANGED channel /\ HandlerUnchanged

\* The client asks for it, or does not answer any more.
Leave(s) == handler[s].pc = "stream" /\ Unsubscribe(s)

\* The channel is closed and there is nothing left in it.
StreamEnds(s) ==
    /\ handler[s].pc = "stream"
    /\ channel[s] = [buffer |-> <<>>, closed |-> TRUE]
    /\ Unsubscribe(s)

CloseOwn(s) ==
    /\ handler[s].pc = "close"
    /\ channel' = [channel EXCEPT ![s].closed = TRUE]
    /\ handler' = [handler EXCEPT ![s].pc = "gone"]
    /\ UNCHANGED subscribers /\ HandlerUnchanged

(***************************************************************************)
(* PopOldest                                                               *)
(***************************************************************************)

PollStarts ==
    /\ poller.pc = "idle"
    /\ enabled
    /\ poller' = [pc |-> "pop", clock |-> now]
    /\ UNCHANGED <<now, enabled, lockedVars, admin, given, enqueuer, handler, forwarder, told, taken, home>>

PopOldest ==
    /\ poller.pc = "pop"
    /\ \E count \in 1 .. 2 :
           LET popped == Popped(queue, count, poller.clock)
           IN  queue' = popped.queue /\ taken' = taken \o popped.payloads
    /\ poller' = [pc |-> "idle", clock |-> 0]
    /\ UNCHANGED <<now, enabled, subscribers, channel, admin, given, enqueuer, handler, forwarder, told, home>>

(***************************************************************************)
(* The forwarder of home mode                                              *)
(***************************************************************************)

ForwarderUnchanged ==
    UNCHANGED <<now, enabled, subscribers, channel, admin, given, handler, poller, told, taken>>

\* The home service has answered lately, and the forwarder reads the clock for PopOldest.
ForwarderStarts ==
    /\ forwarder.pc = "poll" /\ enqueuer["forwarder"].pc = "idle"
    /\ forwarder' = [forwarder EXCEPT !.pc = "pop", !.clock = now]
    /\ UNCHANGED <<queue, enqueuer, home>> /\ ForwarderUnchanged

ForwarderPops ==
    LET popped == Popped(queue, Batch, forwarder.clock)
    IN  /\ forwarder.pc = "pop"
        /\ queue' = popped.queue
        /\ forwarder' = [pc |-> IF popped.payloads = <<>> THEN "poll" ELSE "push",
                         batch |-> popped.payloads, clock |-> 0]
        /\ UNCHANGED <<enqueuer, home>> /\ ForwarderUnchanged

Rest == Tail(forwarder.batch)

\* LPushUsage
Push ==
    /\ forwarder.pc = "push"
    /\ home' = home \cup {Head(forwarder.batch)}
    /\ forwarder' = [forwarder EXCEPT !.batch = Rest, !.pc = IF Rest = <<>> THEN "poll" ELSE "push"]
    /\ UNCHANGED <<queue, enqueuer>> /\ ForwarderUnchanged

GivenBackRest == Rest

\* A payload that could not be delivered goes back with all that were to follow.
GivenBack == forwarder.batch

\* The home service may have stored the payload all the same.
PushFails ==
    /\ forwarder.pc = "push"
    /\ home' \in {home, home \cup {Head(forwarder.batch)}}
    /\ forwarder' = [forwarder EXCEPT !.batch = GivenBack,
                                      !.pc = IF GivenBack = <<>> THEN "poll" ELSE "requeue"]
    /\ UNCHANGED <<queue, enqueuer>> /\ ForwarderUnchanged

AfterFailureOver == "off"

\* It tries again a second later.
AfterFailure == "poll"

Requeue ==
    /\ forwarder.pc = "requeue" /\ enqueuer["forwarder"].pc = "idle"
    /\ Enqueue("forwarder", Head(forwarder.batch))
    /\ forwarder' = [forwarder EXCEPT !.batch = Rest, !.pc = IF Rest = <<>> THEN AfterFailure ELSE "requeue"]
    /\ UNCHANGED <<queue, home>> /\ ForwarderUnchanged

\* The service shuts down or turns to another home service.
Cancel ==
    /\ forwarder.pc = "poll" /\ enqueuer["forwarder"].pc = "idle"
    /\ forwarder' = [forwarder EXCEPT !.pc = "cancelled"]
    /\ UNCHANGED <<queue, enqueuer, home>> /\ ForwarderUnchanged

Tick ==
    /\ now < MaxTime
    /\ now' = now + 1
    /\ UNCHANGED <<enabled, lockedVars, admin, given, enqueuer, handler, poller, forwarder, told, taken, home>>

Handler(s) == Connect(s) \/ SubscribeUsage(s) \/ Receive(s) \/ Leave(s) \/ StreamEnds(s) \/ CloseOwn(s)

QueueNext ==
    \/ Dispatch
    \/ \E t \in Threads : PublishToSubscribers(t) \/ Keep(t)
    \/ \E value \in BOOLEAN : SetEnabled(value)
    \/ Clear \/ CloseNext
    \/ \E s \in Subscribers : Handler(s)
    \/ PollStarts \/ PopOldest
    \/ ForwarderStarts \/ ForwarderPops \/ Push \/ PushFails \/ Requeue \/ Cancel
    \/ Tick

QueueSpec == QueueInit /\ [][QueueNext]_queueVars

ForwarderStep ==
    \/ ForwarderStarts \/ ForwarderPops \/ Requeue
    \/ PublishToSubscribers("forwarder") \/ Keep("forwarder")

\* Dispatcher and forwarder go on; nobody has to dispatch, connect, poll or change the
\* configuration. The home service answers again and again and stores what it is sent
\* now and then.
QueueFairness ==
    /\ WF_queueVars(PublishToSubscribers("dispatcher") \/ Keep("dispatcher"))
    /\ WF_queueVars(ForwarderStep)
    /\ SF_queueVars(Push)

QueueFairSpec == QueueSpec /\ QueueFairness

(***************************************************************************)
(* Properties                                                              *)
(***************************************************************************)

\* Nobody closes a channel that is closed or sends on one: who takes a channel out of the
\* map is the one to close it.
ClosedOnce ==
    \A s \in Subscribers :
        LET owners == {o \in {"queue", "admin", "handler"} :
                          \/ o = "queue" /\ s \in subscribers
                          \/ o = "admin" /\ s \in admin.closing
                          \/ o = "handler" /\ handler[s].pc = "close"}
        IN  Cardinality(owners) <= IF channel[s].closed THEN 0 ELSE 1

\* What a subscriber gets is what was published since it subscribed, without a gap, and up
\* to the last payload while it is subscribed.
GapFree ==
    \A s \in Subscribers :
        LET stream == handler[s].got \o channel[s].buffer
            upto == handler[s].from + Len(stream)
        IN  /\ stream = SubSeq(told, handler[s].from + 1, upto)
            /\ s \in subscribers => upto = Len(told)

\* Compaction, pruning and the position in the array do not show: the queue does what
\* UsageFeed promises.
Dispatched == IF enqueuer["dispatcher"].pc = "idle" THEN given ELSE given - 1
Away == Range(forwarder.batch) \cup ({enqueuer["forwarder"].payload} \ {0})
Feed == INSTANCE UsageFeed WITH given <- Dispatched, waiting <- PayloadsOf(Live(queue)), away <- Away
ImplementsFeed == Feed!Spec

\* In home mode a payload is somewhere until the home service has it, a reader took it or
\* it is too old, whatever fails between the forwarder and the service.
Held == {item.payload : item \in Range(Live(queue))} \cup Range(forwarder.batch)
            \cup {enqueuer[t].payload : t \in {u \in Threads : enqueuer[u].pc # "idle"}}
TooOld(payload) ==
    \E item \in Range(Live(queue)) : item.payload = payload /\ item.at + Retention < now
KeptUntilDelivered ==
    [][\A payload \in Held :
           \/ ~HomeMode
           \/ payload \in Held' \cup home' \cup Range(taken')
           \/ TooOld(payload)]_queueVars

\* No payload waits for ever while there is a forwarder.
Forwarded ==
    \A payload \in Payloads :
        (HomeMode /\ payload \in Held) ~> (payload \notin Held \/ forwarder.pc = "cancelled")

\* Who was dropped, by a payload or by the switch, learns it from its channel, which is
\* closed or about to be.
DroppedAreTold ==
    \A s \in Subscribers :
        handler[s].pc = "stream" =>
            s \in subscribers \/ s \in admin.closing \/ channel[s].closed

\* When management is off, no subscription is open. Not so for a connection that was
\* waiting for its command when it was switched off (LateSubscriber.cfg).
SubscribersLeave ==
    ~enabled /\ admin.pc = "idle" =>
        \A s \in Subscribers : handler[s].pc = "stream" => channel[s].closed
=============================================================================
