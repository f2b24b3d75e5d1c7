-------------------------------- MODULE Relay --------------------------------
(***************************************************************************)
(* A session of the websocket relay: requests that are sent over one       *)
(* connection and answered out of turn, the goroutine that reads the       *)
(* answers and hands them to the requests' channels, and the cleanup,      *)
(* which any of reader, heartbeat and Manager.Stop may be first to run.    *)
(*                                                                         *)
(* A channel is closed by whoever takes its request out of the pending     *)
(* map, and by the cleanup; nothing keeps the others from sending on it.   *)
(* A send on a closed channel ends the process, since neither the reader   *)
(* nor the heartbeat recovers.                                             *)
(*                                                                         *)
(* Every connection gets a name of its own, so sessions share nothing.     *)
(* An answer is some chunks and an end, or it breaks off with an error.    *)
(***************************************************************************)
EXTENDS Naturals, Sequences

CONSTANTS
    Requests,  \* message IDs
    Whole,     \* those of NonStream; Stream makes the others
    Leaving,   \* those whose client may go away
    Parts,     \* chunks of the answer to each
    Cap        \* places in the channel of a request: 8

RelaySetting == /\ Whole \subseteq Requests /\ Leaving \subseteq Requests
                /\ Parts \in [Requests -> Nat] /\ Cap \in Nat \ {0}

ASSUME RelayAssumption == RelaySetting

VARIABLES
    listed,     \* the session is in Manager.sessions
    closed,     \* session.closed
    connected,  \* the connection is open
    pending,    \* session.pending
    chan,       \* the channel of each request
    caller,     \* where each request is
    gone,       \* the requests whose context is done
    peer,       \* how many messages the other side has yet to send for each request
    reader,     \* session.run
    cleaner,    \* session.cleanup, run by whoever was first
    crashed,    \* a goroutine without a recover has panicked
    lost        \* history: the requests for which a message found no room

sessionVars == <<listed, closed, connected, cleaner>>
requestVars == <<caller, gone>>
readerVars == <<peer, reader>>
relayVars == <<sessionVars, pending, chan, requestVars, readerVars, crashed, lost>>

Messages == {"part", "end", "error"}
Final == {"end", "error"}
Outcomes == {"none", "complete", "error", "left", "panic"}
Caller == [pc : {"new", "store", "load", "check", "write", "wait", "done"},
           got : Nat, outcome : Outcomes]
Reader == [pc : {"read", "offer", "finish", "cleanup", "ended"},
           id : SUBSET Requests, type : Messages]
Cleaner == [pc : {"no", "range", "notify", "reset", "hangup", "unlist", "done"},
            byReader : BOOLEAN, todo : SUBSET Requests, id : SUBSET Requests]

RelayTypeOK ==
    /\ listed \in BOOLEAN /\ closed \in BOOLEAN /\ connected \in BOOLEAN
    /\ pending \in SUBSET Requests
    /\ chan \in [Requests -> [buf : Seq(Messages), closed : BOOLEAN]]
    /\ \A r \in Requests : Len(chan[r].buf) <= Cap
    /\ caller \in [Requests -> Caller]
    /\ gone \in SUBSET Requests
    /\ peer \in [Requests -> Nat]
    /\ reader \in Reader
    /\ cleaner \in Cleaner
    /\ crashed \in BOOLEAN
    /\ lost \in SUBSET Requests

RelayInit ==
    /\ listed = TRUE /\ closed = FALSE /\ connected = TRUE
    /\ pending = {}
    /\ chan = [r \in Requests |-> [buf |-> <<>>, closed |-> FALSE]]
    /\ caller = [r \in Requests |-> [pc |-> "new", got |-> 0, outcome |-> "none"]]
    /\ gone = {}
    /\ peer = [r \in Requests |-> 0]
    /\ reader = [pc |-> "read", id |-> {}, type |-> "part"]
    /\ cleaner = [pc |-> "no", byReader |-> FALSE, todo |-> {}, id |-> {}]
    /\ crashed = FALSE
    /\ lost = {}

Go(r, from, to) ==
    /\ ~crashed
    /\ caller[r].pc = from
    /\ caller' = [caller EXCEPT ![r].pc = to]

End(r, from, outcome) ==
    /\ ~crashed
    /\ caller[r].pc = from
    /\ caller' = [caller EXCEPT ![r].pc = "done", ![r].outcome = outcome]

\* select { case ch <- msg: default: }
Offered(r, msg) ==
    IF Len(chan[r].buf) < Cap
    THEN /\ chan' = [chan EXCEPT ![r].buf = Append(@, msg)]
         /\ lost' = lost
    ELSE /\ chan' = chan
         /\ lost' = lost \cup {r}

\* LoadAndDelete: only the one who finds the request in the map closes its channel.
TakeAndClose(r) ==
    /\ pending' = pending \ {r}
    /\ chan' = IF r \in pending THEN [chan EXCEPT ![r].closed = TRUE] ELSE chan

(***************************************************************************)
(* Manager.Send and session.request                                        *)
(***************************************************************************)

Send(r) ==
    /\ IF listed THEN Go(r, "new", "store") ELSE End(r, "new", "error")
    /\ UNCHANGED <<sessionVars, pending, chan, gone, readerVars, crashed, lost>>

Store(r) ==
    /\ Go(r, "store", "load")
    /\ pending' = pending \cup {r}
    /\ UNCHANGED <<sessionVars, chan, gone, readerVars, crashed, lost>>

\* The second look may find nothing: the cleanup has put a new map in place.  The panic
\* is one of the request's own goroutine, which recovers.
Load(r) ==
    /\ IF r \in pending THEN Go(r, "load", "check") ELSE End(r, "load", "panic")
    /\ UNCHANGED <<sessionVars, pending, chan, gone, readerVars, crashed, lost>>

CheckNothing(r) ==
    /\ Go(r, "check", "write")
    /\ UNCHANGED <<sessionVars, pending, chan, gone, readerVars, crashed, lost>>

\* send looks whether the session is closed ...
Check(r) ==
    /\ IF closed
       THEN End(r, "check", "error") /\ TakeAndClose(r)
       ELSE Go(r, "check", "write") /\ UNCHANGED <<pending, chan>>
    /\ UNCHANGED <<sessionVars, gone, readerVars, crashed, lost>>

\* ... and writes.
Write(r) ==
    /\ connected
    /\ Go(r, "write", "wait")
    /\ peer' = [peer EXCEPT ![r] = Parts[r] + 1]
    /\ UNCHANGED <<sessionVars, pending, chan, gone, reader, crashed, lost>>

WriteFails(r) ==
    /\ End(r, "write", "error")
    /\ TakeAndClose(r)
    /\ UNCHANGED <<sessionVars, gone, readerVars, crashed, lost>>

\* The client leaves.  (The context of a request that is answered ends as well, when
\* the request is out of the map or the reader about to take it out.)
Leave(r) ==
    /\ r \in Leaving
    /\ ~crashed
    /\ caller[r].pc = "wait"
    /\ gone' = gone \cup {r}
    /\ UNCHANGED <<sessionVars, pending, chan, caller, readerVars, crashed, lost>>

\* The goroutine request leaves behind.
Cancel(r) ==
    /\ ~crashed
    /\ r \in gone \cap pending
    /\ TakeAndClose(r)
    /\ UNCHANGED <<sessionVars, requestVars, readerVars, crashed, lost>>

(***************************************************************************)
(* NonStream and Stream                                                    *)
(***************************************************************************)

\* A channel that is closed without a final message: NonStream takes what it has for
\* the answer if that is anything at all, Stream never does.
AfterClose(r) == IF r \in Whole /\ caller[r].got > 0 THEN "complete" ELSE "error"

Taken(r, type) ==
    IF type = "part"
    THEN /\ ~crashed
         /\ caller[r].pc = "wait"
         /\ caller' = [caller EXCEPT ![r].got = @ + 1]
    ELSE End(r, "wait", IF type = "end" THEN "complete" ELSE "error")

Receive(r) ==
    /\ chan[r].buf # <<>>
    /\ Taken(r, Head(chan[r].buf))
    /\ chan' = [chan EXCEPT ![r].buf = Tail(@)]
    /\ UNCHANGED <<sessionVars, pending, gone, readerVars, crashed, lost>>

ReceiveClosed(r) ==
    /\ chan[r].buf = <<>> /\ chan[r].closed
    /\ End(r, "wait", AfterClose(r))
    /\ UNCHANGED <<sessionVars, pending, chan, gone, readerVars, crashed, lost>>

ReceiveDone(r) ==
    /\ r \in gone
    /\ End(r, "wait", "left")
    /\ UNCHANGED <<sessionVars, pending, chan, gone, readerVars, crashed, lost>>

(***************************************************************************)
(* session.run and dispatch                                                *)
(***************************************************************************)

\* The other side answers in order, or gives up with an error at any point.
Sends(r, type) ==
    \/ type = "part" /\ peer[r] > 1 /\ peer' = [peer EXCEPT ![r] = @ - 1]
    \/ type = "end" /\ peer[r] = 1 /\ peer' = [peer EXCEPT ![r] = 0]
    \/ type = "error" /\ peer[r] > 0 /\ peer' = [peer EXCEPT ![r] = 0]

\* A message arrives and its request is looked up ...
Read(r, type) ==
    /\ ~crashed
    /\ connected
    /\ reader.pc = "read"
    /\ Sends(r, type)
    /\ reader' = IF r \in pending THEN [pc |-> "offer", id |-> {r}, type |-> type] ELSE reader
    /\ UNCHANGED <<sessionVars, pending, chan, requestVars, crashed, lost>>

\* ... and the message is sent to it, whatever has become of it since.
Offer(r) ==
    /\ ~crashed
    /\ reader.pc = "offer" /\ r \in reader.id
    /\ IF chan[r].closed
       THEN crashed' = TRUE /\ UNCHANGED <<chan, lost, reader>>
       ELSE /\ crashed' = FALSE
            /\ Offered(r, reader.type)
            /\ reader' = [reader EXCEPT !.pc = IF reader.type \in Final THEN "finish" ELSE "read"]
    /\ UNCHANGED <<sessionVars, pending, requestVars, peer>>

Finish(r) ==
    /\ ~crashed
    /\ reader.pc = "finish" /\ r \in reader.id
    /\ TakeAndClose(r)
    /\ reader' = [reader EXCEPT !.pc = "read"]
    /\ UNCHANGED <<sessionVars, requestVars, peer, crashed, lost>>

(***************************************************************************)
(* cleanup: by the reader when the connection fails, by the heartbeat, or  *)
(* by Manager.Stop, which takes the session off the list first             *)
(***************************************************************************)

Begin(byReader) ==
    /\ ~crashed
    /\ cleaner.pc = "no"
    /\ closed' = TRUE
    /\ cleaner' = [pc |-> "range", byReader |-> byReader, todo |-> pending, id |-> {}]

ReadFails ==
    /\ reader.pc = "read"
    /\ IF cleaner.pc = "no"
       THEN Begin(TRUE) /\ reader' = [reader EXCEPT !.pc = "cleanup"]
       ELSE /\ ~crashed
            /\ reader' = [reader EXCEPT !.pc = "ended"]
            /\ UNCHANGED <<closed, cleaner>>
    /\ UNCHANGED <<listed, connected, pending, chan, requestVars, peer, crashed, lost>>

HeartbeatFails ==
    /\ Begin(FALSE)
    /\ UNCHANGED <<listed, connected, pending, chan, requestVars, readerVars, crashed, lost>>

Stop ==
    /\ Begin(FALSE)
    /\ listed' = FALSE
    /\ UNCHANGED <<connected, pending, chan, requestVars, readerVars, crashed, lost>>

\* pending.Range sees every request that was there when it began and still is, and
\* may see one that was stored since.
RangeNext(r) ==
    /\ ~crashed
    /\ cleaner.pc = "range" /\ r \in pending /\ ~chan[r].closed
    /\ cleaner' = [cleaner EXCEPT !.pc = "notify", !.id = {r}, !.todo = @ \ {r}]
    /\ UNCHANGED <<listed, closed, connected, pending, chan, requestVars, readerVars, crashed, lost>>

CloseSilently(r) ==
    /\ ~crashed
    /\ cleaner.pc = "notify" /\ r \in cleaner.id
    /\ chan' = [chan EXCEPT ![r].closed = TRUE]
    /\ cleaner' = [cleaner EXCEPT !.pc = "range", !.id = {}]
    /\ UNCHANGED <<listed, closed, connected, pending, requestVars, readerVars, crashed, lost>>

\* An error is offered and the channel closed.
Notify(r) ==
    /\ ~crashed
    /\ cleaner.pc = "notify" /\ r \in cleaner.id
    /\ IF chan[r].closed
       THEN crashed' = TRUE /\ UNCHANGED <<chan, lost, cleaner>>
       ELSE /\ crashed' = FALSE
            /\ IF Len(chan[r].buf) < Cap
               THEN /\ chan' = [chan EXCEPT ![r] = [buf |-> Append(@.buf, "error"), closed |-> TRUE]]
                    /\ lost' = lost
               ELSE /\ chan' = [chan EXCEPT ![r].closed = TRUE]
                    /\ lost' = lost \cup {r}
            /\ cleaner' = [cleaner EXCEPT !.pc = "range", !.id = {}]
    /\ UNCHANGED <<listed, closed, connected, pending, requestVars, readerVars>>

CleanerGoes(from, to) ==
    /\ ~crashed
    /\ cleaner.pc = from
    /\ cleaner' = [cleaner EXCEPT !.pc = to]
    /\ UNCHANGED <<closed, chan, requestVars, peer, crashed, lost>>

RangeEnds ==
    /\ cleaner.todo \cap pending = {}
    /\ CleanerGoes("range", "reset")
    /\ UNCHANGED <<listed, connected, pending, reader>>

Reset ==
    /\ CleanerGoes("reset", "hangup")
    /\ pending' = {}
    /\ UNCHANGED <<listed, connected, reader>>

HangUp ==
    /\ CleanerGoes("hangup", "unlist")
    /\ connected' = FALSE
    /\ UNCHANGED <<listed, pending, reader>>

\* handleSessionClosed; a reader that ran the cleanup ends with it.
Unlist ==
    /\ CleanerGoes("unlist", "done")
    /\ listed' = FALSE
    /\ reader' = IF cleaner.byReader THEN [reader EXCEPT !.pc = "ended"] ELSE reader
    /\ UNCHANGED <<connected, pending>>

(***************************************************************************)
(* Specification                                                           *)
(***************************************************************************)

RequestStep(r) ==
    \/ Send(r) \/ Store(r) \/ Load(r) \/ Check(r) \/ Write(r) \/ WriteFails(r)
    \/ Leave(r) \/ Cancel(r) \/ Receive(r) \/ ReceiveClosed(r) \/ ReceiveDone(r)

SessionStep(r) == Offer(r) \/ Finish(r) \/ RangeNext(r) \/ Notify(r)

Cleanup == RangeEnds \/ Reset \/ HangUp \/ Unlist

RelayNext ==
    \/ \E r \in Requests : RequestStep(r) \/ SessionStep(r) \/ \E type \in Messages : Read(r, type)
    \/ ReadFails \/ HeartbeatFails \/ Stop
    \/ Cleanup

RelaySpec == RelayInit /\ [][RelayNext]_relayVars

\* Goroutines go on; nobody is made to send, answer, leave or stop.
RelayFairSpec ==
    /\ RelaySpec
    /\ WF_relayVars(Cleanup)
    /\ \A r \in Requests :
         /\ WF_relayVars(SessionStep(r))
         /\ WF_relayVars(Receive(r) \/ ReceiveClosed(r) \/ ReceiveDone(r))

(***************************************************************************)
(* Properties                                                              *)
(***************************************************************************)

\* An answer that is reported complete has all its chunks, unless the caller did not
\* empty its channel in time or has left.
WholeUnlessCrowded ==
    \A r \in Requests :
        caller[r].outcome = "complete" => caller[r].got = Parts[r] \/ r \in lost \cup gone

\* A request that waits when its session closes does not wait for ever.
WaitersEnd ==
    \A r \in Requests :
        (closed /\ caller[r].pc = "wait") ~> (crashed \/ caller[r].pc = "done")

\* Taking a session off the list closes it and leaves the process running, as long as
\* no client has left.
StopsGracefully == ~listed /\ gone = {} => ~crashed
=============================================================================
