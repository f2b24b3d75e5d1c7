--------------------------- MODULE SessionAffinity ---------------------------
(***************************************************************************)
(* SessionAffinitySelector and its SessionCache: conversations are bound   *)
(* to the credential that served them first, for a time that every use     *)
(* prolongs.  Selectors are called under Manager.mu's read lock, several   *)
(* at a time; each takes the cache's own lock for every access.            *)
(*                                                                         *)
(* The credentials offered to the selector - allowed, not yet tried, of    *)
(* the best priority and not on hold - are any set of usable ones, and     *)
(* which of them the wrapped selector takes is left open.                  *)
(***************************************************************************)
EXTENDS Naturals

CONSTANTS
    Auths,
    Requests,
    Keys,       \* cache keys: provider, session ID and model
    None,       \* no key, no binding
    Turns,      \* the primary and the fallback key of the requests there are
    TTL,
    MaxTime,    \* bound on the clock
    MaxChanges  \* bound on the changes of the selector

ASSUME AffinityAssumption ==
    /\ Turns # {} /\ Turns \subseteq [key : Keys \cup {None}, parent : Keys \cup {None}]
    /\ TTL \in Nat \ {0} /\ MaxTime \in Nat /\ MaxChanges \in Nat
    /\ None \notin Auths \cup Keys \cup [auth : Auths, expires : Nat]

VARIABLES
    now,
    held,      \* credentials on hold
    entries,   \* c.entries of the current selector
    selector,  \* number of the current selector
    sweeping,  \* selectors whose cleanupLoop runs
    stopped,   \* StopAutoRefresh has been called
    request

vars == <<now, held, entries, selector, sweeping, stopped, request>>

Binding == [auth : Auths, expires : Nat]
Request == [pc : {"idle", "refresh", "inherit", "judge", "drop", "choose", "bind", "done"},
            turn : Turns, offered : SUBSET Auths, clock : Nat,
            seen : Binding \cup {None}, auth : Auths \cup {None}]

TypeOK ==
    /\ now \in 0 .. MaxTime
    /\ held \in SUBSET Auths
    /\ entries \in [Keys -> Binding \cup {None}]
    /\ selector \in 1 .. MaxChanges + 1
    /\ sweeping \in SUBSET (1 .. selector)
    /\ stopped \in BOOLEAN
    /\ request \in [Requests -> Request]

Idle == [pc |-> "idle", turn |-> CHOOSE t \in Turns : TRUE, offered |-> {}, clock |-> 0,
         seen |-> None, auth |-> None]

Init ==
    /\ now = 0
    /\ held = {}
    /\ entries = [k \in Keys |-> None]
    /\ selector = 1
    /\ sweeping = {1}
    /\ stopped = FALSE
    /\ request = [r \in Requests |-> Idle]

At(r, pc) == request[r].pc = pc
Key(r) == request[r].turn.key
Parent(r) == request[r].turn.parent
Nobody == \A r \in Requests : At(r, "idle")  \* Manager.mu is free for a writer
Fresh(auth, at) == [auth |-> auth, expires |-> at + TTL]
Expired(b, at) == at > b.expires

ManagerUnchanged == UNCHANGED <<held, selector, sweeping, stopped>>

(***************************************************************************)
(* Pick                                                                    *)
(***************************************************************************)

\* The credentials are collected, and GetAndRefresh reads the clock.
Start(r, turn, offered) ==
    /\ At(r, "idle")
    /\ offered # {}
    /\ request' = [request EXCEPT ![r] = [Idle EXCEPT
           !.pc = IF turn.key = None THEN "choose" ELSE "refresh",
           !.turn = turn, !.offered = offered, !.clock = now]]
    /\ UNCHANGED <<now, entries>> /\ ManagerUnchanged

\* What a request has read is forgotten when it is of no more use.
Goto(r, pc) == [request EXCEPT ![r].pc = pc, ![r].clock = 0, ![r].seen = None]
GotoWith(r, pc, auth) == [Goto(r, pc) EXCEPT ![r].auth = auth]
Serve(r, auth) == GotoWith(r, "done", auth)

ServeUnchecked(r, b) == Serve(r, b.auth)

\* A cached credential that is not offered is replaced.
ServeBound(r, b) ==
    IF b.auth \in request[r].offered THEN Serve(r, b.auth)
    ELSE Goto(r, "choose")

Missed(r) ==
    Goto(r, IF Parent(r) \notin {None, Key(r)} THEN "inherit" ELSE "choose")

OutdatedEarly(b, at) == at >= b.expires

Outdated(b, at) == Expired(b, at)

GetAndRefresh(r) ==
    LET b == entries[Key(r)]
        clock == request[r].clock
    IN  /\ At(r, "refresh")
        /\ IF b = None THEN request' = Missed(r) /\ UNCHANGED entries
           ELSE IF Outdated(b, clock)
           THEN /\ request' = Missed(r)
                /\ entries' = [entries EXCEPT ![Key(r)] = None]
           ELSE /\ request' = ServeBound(r, b)
                /\ entries' = [entries EXCEPT ![Key(r)] = Fresh(b.auth, clock)]
        /\ UNCHANGED now /\ ManagerUnchanged

\* Get, for the binding of the first turn: the entry is read, ...
Get(r) ==
    LET b == entries[Parent(r)]
    IN  /\ At(r, "inherit")
        /\ request' = IF b = None THEN Goto(r, "choose")
                      ELSE [request EXCEPT ![r].pc = "judge", ![r].seen = b]
        /\ UNCHANGED <<now, entries>> /\ ManagerUnchanged

\* ... compared with the clock, ...
Judge(r) ==
    LET b == request[r].seen
    IN  /\ At(r, "judge")
        /\ request' = IF Expired(b, now) THEN Goto(r, "drop")
                      ELSE IF b.auth \in request[r].offered THEN GotoWith(r, "bind", b.auth)
                      ELSE Goto(r, "choose")
        /\ UNCHANGED <<now, entries>> /\ ManagerUnchanged

\* ... and what is there by then is deleted.
DropExpired(r) ==
    /\ At(r, "drop")
    /\ entries' = [entries EXCEPT ![Parent(r)] = None]
    /\ request' = Goto(r, "choose")
    /\ UNCHANGED now /\ ManagerUnchanged

\* The wrapped selector. A request without a session is served at once.
Choose(r) ==
    /\ At(r, "choose")
    /\ \E auth \in request[r].offered :
           request' = IF Key(r) = None THEN Serve(r, auth)
                      ELSE GotoWith(r, "bind", auth)
    /\ UNCHANGED <<now, entries>> /\ ManagerUnchanged

\* Set
Bind(r) ==
    /\ At(r, "bind")
    /\ entries' = [entries EXCEPT ![Key(r)] = Fresh(request[r].auth, now)]
    /\ request' = Goto(r, "done")
    /\ UNCHANGED now /\ ManagerUnchanged

\* The manager has its credential and unlocks.
Finish(r) ==
    /\ At(r, "done")
    /\ request' = [request EXCEPT ![r] = Idle]
    /\ UNCHANGED <<now, entries>> /\ ManagerUnchanged

(***************************************************************************)
(* The others                                                              *)
(***************************************************************************)

Tick == /\ now < MaxTime
        /\ now' = now + 1
        /\ UNCHANGED <<entries, request>> /\ ManagerUnchanged

SweptLate == [k \in Keys |-> IF entries[k] # None /\ now > entries[k].expires + TTL THEN None
                              ELSE entries[k]]

Swept == [k \in Keys |-> IF entries[k] # None /\ Expired(entries[k], now) THEN None ELSE entries[k]]

\* cleanupLoop of the current selector; those of others work on caches that nobody reads.
Cleanup ==
    /\ selector \in sweeping
    /\ entries' = Swept
    /\ UNCHANGED <<now, request>> /\ ManagerUnchanged

\* A result puts a credential on hold, under Manager.mu; the hold runs out by itself.
Hold(a) == /\ Nobody
           /\ held' = held \cup {a}
           /\ UNCHANGED <<now, entries, selector, sweeping, stopped, request>>

HoldEnds(a) == /\ a \in held
               /\ held' = held \ {a}
               /\ UNCHANGED <<now, entries, selector, sweeping, stopped, request>>

\* applyConfigUpdate with other routing settings: SetSelector puts a new selector, with a
\* cache and a cleanup of its own, in the place of the old one.
SetSelector ==
    /\ Nobody
    /\ selector <= MaxChanges
    /\ selector' = selector + 1
    /\ sweeping' = sweeping \cup {selector + 1}
    /\ entries' = [k \in Keys |-> None]
    /\ UNCHANGED <<now, held, stopped, request>>

\* Service.Shutdown stops the selector that the manager has then.
StopAutoRefresh ==
    /\ ~stopped
    /\ stopped' = TRUE
    /\ sweeping' = sweeping \ {selector}
    /\ UNCHANGED <<now, held, entries, selector, request>>

Next ==
    \/ \E r \in Requests :
           \/ \E turn \in Turns, offered \in SUBSET (Auths \ held) : Start(r, turn, offered)
           \/ GetAndRefresh(r) \/ Get(r) \/ Judge(r) \/ DropExpired(r)
           \/ Choose(r) \/ Bind(r) \/ Finish(r)
    \/ \E a \in Auths : Hold(a) \/ HoldEnds(a)
    \/ Tick \/ Cleanup \/ SetSelector \/ StopAutoRefresh

Spec == Init /\ [][Next]_vars

\* The ticker of a cleanup that runs keeps ticking.
FairSpec == Spec /\ WF_vars(Cleanup)

(***************************************************************************)
(* Properties                                                              *)
(***************************************************************************)

\* However bindings, holds and the offers of several requests come together, a request is
\* never served with a credential on hold or one that it was not offered, bound or not.
ServesUsable ==
    \A r \in Requests : At(r, "done") => request[r].auth \in request[r].offered \ held

\* A binding lasts its time: as long as it has not expired, no request and no cleanup
\* removes it, only a new selector.
Lasts(keys) ==
    \A k \in keys : entries[k] # None /\ ~Expired(entries[k], now) /\ selector' = selector
                        => entries'[k] # None

\* Not so for the first turn of a conversation: Get may delete what another request has
\* renewed since it looked.
BindingLasts == [][Lasts(Keys)]_vars

\* It is so for all sessions from whose bindings no other request inherits.
Inherited == {t.parent : t \in {u \in Turns : u.parent # u.key}}
OwnBindingLasts == [][Lasts(Keys \ Inherited)]_vars

\* The sessions of clients that are gone do not stay in the cache.
ExpiredAreSwept ==
    \A k \in Keys : (entries[k] # None /\ Expired(entries[k], now))
                        ~> (stopped \/ entries[k] = None \/ ~Expired(entries[k], now))

\* The cleanup of every selector ends with the service. Not so for one that a change of
\* the configuration has replaced.
SelectorsStop == stopped => sweeping = {}
=============================================================================
