-------------------------- MODULE RequestLoopProofs --------------------------
(***************************************************************************)
(* Theorems about RequestLoop, for any number of credentials, models and   *)
(* requests and any limits: what a round leaves out, who prepares a        *)
(* credential, what is reported, and that requests run out of steps.       *)
(***************************************************************************)
EXTENDS RequestLoop, FiniteOrder

InHand == {"lock", "prepare", "written", "unprepared"} \cup InCall
UnderWay == InCall \ {"call"}

\* What a request's own fields say of each other.
Sound(s) ==
    /\ s \in State
    /\ s.attempted \subseteq s.tried
    /\ s.pc \in InHand => s.id \in Auths /\ s.models # {}
    /\ s.pc \in UnderWay => s.model \in s.models
    /\ s.failed => s.pc = "stream"
    /\ s.pc = "wait" => MayRetry(s) # {}

Records == \A r \in Requests : Sound(request[r])

\* Whoever prepares a credential holds its lock, until its record is written, and nobody
\* else does.
Preparing == {"prepare", "written"}
Locking ==
    \A r \in Requests :
        /\ \A a \in Auths : lock[a] = r <=> request[r].pc \in Preparing /\ request[r].id = a
        /\ request[r].pc = "prepare" => request[r].id \notin settled

\* Nobody but a worker takes a preparation back.
SettledIsPrepared == \A a \in settled : record[a].prepared

\* Credentials that were tried without a call had no free model at some time in the round,
\* and a rebuilt scheduler has the others ready.
PassedIsNew ==
    \A r \in Requests :
        /\ passed[r] \subseteq Usable
        /\ passed[r] \cap request[r].tried = {}
        /\ request[r].pc = "again" => \A a \in passed[r] : Ready(scheduler[a])

IInv ==
    /\ TypeOK
    /\ Records
    /\ Locking
    /\ SettledIsPrepared
    /\ ReportedOnce
    /\ PassedIsNew
    /\ UsableIsTried

LEMMA Typing ==
    ASSUME IInv, NEW r \in Requests
    PROVE  /\ request[r] \in State /\ Sound(request[r])
           /\ request[r].pc \in Pcs
           /\ request[r].tried \in SUBSET Auths /\ request[r].attempted \in SUBSET Auths
           /\ request[r].models \in SUBSET Models /\ request[r].model \in Models
           /\ request[r].error \in Errors
           /\ request[r].attempt \in Nat /\ request[r].wait \in Nat
           /\ request[r].failed \in BOOLEAN /\ request[r].cancelled \in BOOLEAN
  BY DEF IInv, TypeOK, Records, State

LEMMA IdleIsSound ==
    /\ Sound(Idle)
    /\ \A s : Sound(s) => Sound(Ended(s)) /\ Ended(s).pc = "idle"
<1>1. NoHold \in HoldMap /\ NoCopy \in Copy
  BY DEF NoHold, NoCopy, HoldMap, Copy
<1>2. Idle \in State
  BY <1>1, LoopAssumption DEF Idle, State, Pcs, Errors
<1>3. Sound(Idle)
  BY <1>2 DEF Sound, Idle, InHand, UnderWay, InCall
<1>4. ASSUME NEW s, Sound(s) PROVE Sound(Ended(s)) /\ Ended(s).pc = "idle"
  <2>1. s.cancelled \in BOOLEAN
    BY <1>4 DEF Sound, State
  <2>2. Ended(s) \in State
    BY <1>2, <2>1 DEF Ended, Idle, State
  <2> QED  BY <1>2, <2>2 DEF Sound, Ended, Idle, InHand, UnderWay, InCall
<1> QED  BY <1>3, <1>4

\* A step of one request leaves the others where they are.
LEMMA OneMoves ==
    ASSUME IInv, NEW r \in Requests, NEW from, NEW new, Step(r, from, new), Sound(new)
    PROVE  /\ request' = [request EXCEPT ![r] = new]
           /\ request' \in [Requests -> State]
           /\ request'[r] = new
           /\ \A q \in Requests \ {r} : request'[q] = request[q]
           /\ Records'
<1>1. request \in [Requests -> State]
  BY DEF IInv, TypeOK
<1>2. new \in State
  BY DEF Sound
<1>3. request' = [request EXCEPT ![r] = new]
  BY DEF Step
<1>4. /\ request' \in [Requests -> State]
      /\ request'[r] = new
      /\ \A q \in Requests \ {r} : request'[q] = request[q]
  BY <1>1, <1>2, <1>3
<1>5. Records'
  <2> SUFFICES ASSUME NEW q \in Requests PROVE Sound(request'[q])
    BY DEF Records, Sound, MayRetry
  <2> QED  BY <1>4 DEF IInv, Records
<1> QED  BY <1>3, <1>4, <1>5

\* The step of an action, with what Sound and StepsRunOut ask of the record it leaves.
Moves(r) ==
    \E from, new :
        /\ Step(r, from, new)
        /\ Sound(new)
        /\ request[r].pc # "idle" => Closer(request[r], new)

LEMMA StartMoves ==
    ASSUME IInv, NEW r \in Requests, Start(r)
    PROVE  Moves(r)
<1> DEFINE new == [Idle EXCEPT !.pc = "pick"]
<1>1. Step(r, "idle", new)
  BY DEF Start
<1>2. new \in State
  <2>1. Idle \in State
    BY IdleIsSound DEF Sound
  <2> QED  BY <2>1 DEF State, Pcs, Idle
<1>3. Sound(new)
  BY <1>2 DEF Sound, Idle, InHand, UnderWay, InCall
<1>4. request[r].pc = "idle"
  BY <1>1 DEF Step
<1> QED  BY <1>1, <1>3, <1>4 DEF Moves

LEMMA ChosenMoves ==
    ASSUME IInv, NEW r \in Requests, NEW from \in {"pick", "again"},
           NEW a \in Auths \ request[r].tried, NEW copy,
           Step(r, from, Chosen(request[r], a, copy))
    PROVE  Moves(r)
<1> DEFINE s == request[r]
           free == FreeModels(a, copy)
           new == Chosen(s, a, copy)
<1>2. free \in SUBSET Models
  BY LoopAssumption DEF FreeModels
<1>3. s \in State /\ Sound(s) /\ s.pc = from /\ s.tried \in SUBSET Auths
      /\ s.attempted \in SUBSET s.tried /\ ~s.failed
  BY Typing DEF Step, Sound
<1>4. CASE free = {}
  <2> DEFINE tried == s.tried \cup {a}
  <2>0. tried \in SUBSET Auths /\ s.attempted \in SUBSET tried
        /\ s.tried \subseteq tried /\ s.tried # tried
    BY <1>3
  <2>1. new = [s EXCEPT !.pc = "pick", !.tried = tried]
    BY <1>4 DEF Chosen
  <2> HIDE DEF tried, new
  <2>2. new \in State
    BY <1>3, <2>0, <2>1 DEF State, Pcs
  <2>3. Sound(new)
    BY <1>3, <2>0, <2>1, <2>2 DEF Sound, State, InHand, UnderWay, InCall
  <2>4. Closer(s, new)
    BY <1>3, <2>0, <2>1 DEF Closer, State
  <2> QED  BY <2>3, <2>4 DEF Moves, new
<1>5. CASE free # {}
  <2> DEFINE pc == IF copy.prepared THEN "call" ELSE "lock"
  <2>1. new = [s EXCEPT !.tried = s.tried \cup {a}, !.attempted = s.attempted \cup {a}, !.id = a,
                        !.models = free, !.pc = pc]
    BY <1>5 DEF Chosen
  <2>2. pc \in Pcs /\ pc \in {"call", "lock"}
    BY DEF Pcs, InCall
  <2> DEFINE tried == s.tried \cup {a}  attempted == s.attempted \cup {a}
  <2>3. tried \in SUBSET Auths /\ attempted \in SUBSET tried /\ attempted \in SUBSET Auths
        /\ s.tried \subseteq tried /\ s.tried # tried
    BY <1>3
  <2> HIDE DEF pc, free, tried, attempted
  <2>4. new = [s EXCEPT !.tried = tried, !.attempted = attempted, !.id = a, !.models = free,
                        !.pc = pc]
    BY <2>1 DEF tried, attempted
  <2> HIDE DEF new
  <2>5. new \in State
    BY <1>2, <1>3, <2>2, <2>3, <2>4 DEF State
  <2>6. new.tried = tried /\ new.attempted = attempted /\ new.id = a /\ new.models = free
        /\ new.pc = pc /\ new.failed = s.failed /\ new.attempt = s.attempt
    BY <1>3, <2>4 DEF State
  <2>7. Sound(new)
    BY <1>3, <1>5, <2>2, <2>3, <2>5, <2>6 DEF Sound, InHand, UnderWay, InCall
  <2>8. Closer(s, new)
    BY <2>3, <2>6 DEF Closer
  <2> QED  BY <2>7, <2>8 DEF Moves, new, free
<1> QED  BY <1>4, <1>5

LEMMA PickMoves ==
    ASSUME IInv, NEW r \in Requests, Pick(r) \/ PickLegacy(r)
    PROVE  Moves(r)
<1>1. CASE Pick(r)
  <2>1. PICK a \in Auths \ request[r].tried, from \in {"pick", "again"} :
            Step(r, from, Chosen(request[r], a, scheduler[a]))
    BY <1>1 DEF Pick
  <2> QED  BY <2>1, ChosenMoves
<1>2. CASE PickLegacy(r)
  <2>1. PICK a \in Auths \ request[r].tried : Step(r, "pick", Chosen(request[r], a, record[a]))
    BY <1>2 DEF PickLegacy
  <2> QED  BY <2>1, ChosenMoves
<1> QED  BY <1>1, <1>2

\* Steps that only change where the request is, and what it has copied
Gone(s, pc, copy) == [s EXCEPT !.pc = pc, !.copy = copy]
Forward(from, pc) ==
    /\ from \in Pcs /\ pc \in Pcs
    /\ Rank[pc] > Rank[from]
    /\ from \notin {"idle", "stream"} /\ pc # "wait"
    /\ pc \in InHand => from \in InHand
    /\ pc \in UnderWay => from \in UnderWay

LEMMA Goes ==
    ASSUME IInv, NEW r \in Requests, NEW from, NEW pc, Forward(from, pc), NEW copy \in Copy,
           Step(r, from, Gone(request[r], pc, copy))
    PROVE  Moves(r)
<1> DEFINE s == request[r]  new == Gone(s, pc, copy)
<1>1. s \in State /\ Sound(s) /\ s.pc = from
  BY Typing DEF Step
<1>2. new \in State
  BY <1>1 DEF State, Gone, Forward, Copy
<1>3. new.pc = pc /\ new.tried = s.tried /\ new.attempted = s.attempted /\ new.id = s.id
      /\ new.models = s.models /\ new.model = s.model /\ new.failed = s.failed
      /\ new.attempt = s.attempt
  BY <1>1 DEF State, Gone
<1> HIDE DEF new
<1>4. Sound(new)
  BY <1>1, <1>2, <1>3 DEF Sound, Forward
<1>5. Closer(s, new)
  BY <1>1, <1>3 DEF Closer, Forward
<1> QED  BY <1>4, <1>5 DEF Moves, new

LEMMA ForwardSteps ==
    /\ Forward("pick", "decide") /\ Forward("pick", "sync") /\ Forward("sync", "rebuild")
    /\ Forward("rebuild", "again") /\ Forward("again", "decide")
    /\ Forward("lock", "call") /\ Forward("lock", "prepare")
    /\ Forward("prepare", "written") /\ Forward("written", "call")
    /\ Forward("prepare", "unprepared")
    /\ Forward("called", "bootstrap") /\ Forward("bootstrap", "stream")
  BY DEF Forward, Pcs, InHand, UnderWay, InCall, Rank

\* Steps that end the request
LEMMA Ends ==
    ASSUME IInv, NEW r \in Requests, NEW from, Step(r, from, Ended(request[r]))
    PROVE  Moves(r)
  BY Typing, IdleIsSound DEF Moves, Closer

LEMMA KeepsCopy ==
    ASSUME IInv, NEW r \in Requests, NEW pc
    PROVE  /\ [request[r] EXCEPT !.pc = pc] = Gone(request[r], pc, request[r].copy)
           /\ request[r].copy \in Copy
  BY Typing DEF State, Gone, Copy

LEMMA PcsKnown ==
    /\ {"idle", "pick", "sync", "rebuild", "again", "lock", "prepare", "written", "unprepared",
        "decide", "wait", "call", "called", "bootstrap", "stream"} \subseteq Pcs
    /\ NoCopy \in Copy
  BY DEF Pcs, InCall, NoCopy, NoHold, HoldMap, Copy

LEMMA LockMoves ==
    ASSUME IInv, NEW r \in Requests, Lock(r)
    PROVE  Moves(r)
<1> DEFINE a == request[r].id
<1>1. CASE record[a].prepared
  <2>1. Step(r, "lock", Gone(request[r], "call", request[r].copy)) /\ request[r].copy \in Copy
    BY <1>1, KeepsCopy DEF Lock
  <2> QED  BY <2>1, Goes, ForwardSteps
<1>2. CASE ~record[a].prepared
  <2>1. Step(r, "lock", Gone(request[r], "prepare", record[a]))
    BY <1>2 DEF Lock, Gone
  <2>2. a \in Auths
    BY <2>1, Typing DEF Step, Sound, InHand
  <2>3. record[a] \in Copy
    BY <2>2 DEF IInv, TypeOK
  <2> QED  BY <2>1, <2>3, Goes, ForwardSteps
<1> QED  BY <1>1, <1>2

\* Steps that go on and leave the copy alone
Passes(r, from, pc) == Step(r, from, [request[r] EXCEPT !.pc = pc])

LEMMA PassesMoves ==
    ASSUME IInv, NEW r \in Requests, NEW from, NEW pc, Forward(from, pc), Passes(r, from, pc)
    PROVE  Moves(r)
<1>1. Step(r, from, Gone(request[r], pc, request[r].copy)) /\ request[r].copy \in Copy
  BY KeepsCopy DEF Passes
<1> QED  BY <1>1, Goes

LEMMA PlainSteps ==
    ASSUME NEW r
    PROVE  /\ PickFails(r) => Passes(r, "pick", "sync")
           /\ SnapshotAuths(r) => Passes(r, "sync", "rebuild")
           /\ Rebuild(r) => Passes(r, "rebuild", "again")
           /\ SecondPickFails(r) => Passes(r, "again", "decide")
           /\ LimitReached(r) => Passes(r, "pick", "decide")
           /\ PickLegacyFails(r) => Passes(r, "pick", "decide")
           /\ Unlock(r) => Passes(r, "written", "call")
           /\ StreamOpens(r) => Passes(r, "called", "bootstrap")
           /\ FirstPayload(r) => Passes(r, "bootstrap", "stream")
  BY DEF PickFails, SnapshotAuths, Rebuild, SecondPickFails, LimitReached, PickLegacyFails,
         Unlock, StreamOpens, FirstPayload, Passes

LEMMA PlainMoves ==
    ASSUME IInv, NEW r \in Requests,
           \/ PickFails(r) \/ SnapshotAuths(r) \/ Rebuild(r) \/ SecondPickFails(r)
           \/ LimitReached(r) \/ PickLegacyFails(r) \/ Prepared(r) \/ Unlock(r)
           \/ PrepareFails(r) \/ StreamOpens(r) \/ FirstPayload(r)
    PROVE  Moves(r)
<1>1. CASE Prepared(r)
  <2>1. Step(r, "prepare", Gone(request[r], "written", NoCopy)) /\ NoCopy \in Copy
    BY <1>1, PcsKnown DEF Prepared, Gone
  <2> QED  BY <2>1, Goes, ForwardSteps
<1>2. CASE PrepareFails(r)
  <2>1. Step(r, "prepare", Gone(request[r], "unprepared", NoCopy)) /\ NoCopy \in Copy
    BY <1>2, PcsKnown DEF PrepareFails, Gone
  <2> QED  BY <2>1, Goes, ForwardSteps
<1> QED  BY <1>1, <1>2, PlainSteps, PassesMoves, ForwardSteps

LEMMA CallMoves ==
    ASSUME IInv, NEW r \in Requests, Call(r)
    PROVE  Moves(r)
<1> DEFINE s == request[r]
<1>1. PICK model \in s.models : Step(r, "call", [s EXCEPT !.pc = "called", !.model = model])
  BY DEF Call
<1> DEFINE new == [s EXCEPT !.pc = "called", !.model = model]
<1>2. s \in State /\ Sound(s) /\ s.pc = "call" /\ model \in Models
  BY <1>1, Typing DEF Step
<1>3. new \in State
  BY <1>2, PcsKnown DEF State
<1>4. Sound(new)
  BY <1>1, <1>2, <1>3 DEF Sound, State, InHand, UnderWay, InCall
<1>5. Closer(s, new)
  BY <1>2 DEF Closer, State, Rank
<1> QED  BY <1>1, <1>4, <1>5 DEF Moves

LEMMA OnwardIsCloser ==
    ASSUME NEW s, Sound(s), s.pc \in UnderWay, s.pc # "stream", NEW error \in Errors
    PROVE  Sound(Onward(s, error)) /\ Closer(s, Onward(s, error))
           /\ Onward(s, error).pc \in {"call", "pick"}
<1> DEFINE new == Onward(s, error)
<1>1. s \in State /\ s.model \in s.models /\ s.models \in SUBSET Models /\ s.id \in Auths
  BY DEF Sound, State, InHand, UnderWay
<1>2. CASE s.models # {s.model}
  <2>1. new = [s EXCEPT !.pc = "call", !.models = s.models \ {s.model}, !.model = Route]
    BY <1>2 DEF Onward
  <2> DEFINE rest == s.models \ {s.model}
  <2>2. rest \in SUBSET Models /\ rest \subseteq s.models /\ rest # s.models /\ rest # {}
    BY <1>1, <1>2
  <2> HIDE DEF rest
  <2>3. new = [s EXCEPT !.pc = "call", !.models = rest, !.model = Route]
    BY <2>1 DEF rest
  <2> HIDE DEF new
  <2>4. new \in State
    BY <1>1, <2>2, <2>3, PcsKnown, LoopAssumption DEF State
  <2>5. new.pc = "call" /\ new.models = rest /\ new.tried = s.tried /\ new.id = s.id
        /\ new.attempted = s.attempted /\ new.failed = s.failed /\ new.attempt = s.attempt
    BY <1>1, <2>3 DEF State
  <2>6. Sound(new)
    BY <1>1, <2>2, <2>4, <2>5 DEF Sound, InHand, UnderWay, InCall
  <2>7. Closer(s, new)
    BY <2>2, <2>5 DEF Closer
  <2> QED  BY <2>5, <2>6, <2>7 DEF new
<1>3. CASE s.models = {s.model}
  <2>1. new = [s EXCEPT !.pc = "pick", !.models = {}, !.model = Route, !.id = NoAuth,
                      !.error = error]
    BY <1>3 DEF Onward
  <2>2. new \in State
    BY <1>1, <2>1, PcsKnown, LoopAssumption DEF State
  <2>3. Sound(new)
    BY <1>1, <1>3, <2>1, <2>2 DEF Sound, State, InHand, UnderWay, InCall
  <2>4. Closer(s, new)
    BY <1>1, <2>1 DEF Closer, State
  <2> QED  BY <1>1, <2>1, <2>3, <2>4 DEF State
<1> QED  BY <1>2, <1>3

LEMMA FailureMoves ==
    ASSUME IInv, NEW r \in Requests, Fails(r) \/ EmptyStream(r) \/ ReportUnprepared(r)
    PROVE  Moves(r)
<1> DEFINE s == request[r]
<1>1. s \in State /\ Sound(s)
  BY Typing
<1>2. CASE Fails(r)
  <2>1. PICK error \in {"plain", "limited", "invalid"} :
            Step(r, s.pc, IF error = "invalid" THEN Ended(s) ELSE Onward(s, Kept(r, error)))
    BY <1>2 DEF Fails
  <2>2. CASE error = "invalid"
    BY <2>1, <2>2, Ends
  <2>3. CASE error # "invalid"
    <3>1. Kept(r, error) \in Errors
      BY <2>3 DEF Kept, Errors
    <3>2. s.pc \in UnderWay /\ s.pc # "stream"
      BY <1>2 DEF Fails, UnderWay, InCall
    <3> QED  BY <1>1, <2>1, <2>3, <3>1, <3>2, OnwardIsCloser DEF Moves
  <2> QED  BY <2>2, <2>3
<1>3. CASE EmptyStream(r)
  <2>1. Step(r, "bootstrap", Onward(s, "plain"))
    BY <1>3 DEF EmptyStream
  <2>2. s.pc \in UnderWay /\ s.pc # "stream" /\ "plain" \in Errors
    BY <2>1 DEF Step, UnderWay, InCall, Errors
  <2> QED  BY <1>1, <2>1, <2>2, OnwardIsCloser DEF Moves
<1>4. CASE ReportUnprepared(r)
  <2> DEFINE new == [s EXCEPT !.pc = "pick", !.models = {}, !.id = NoAuth, !.error = "plain"]
  <2>1. Step(r, "unprepared", new)
    BY <1>4 DEF ReportUnprepared
  <2>2. s.pc = "unprepared"
    BY <2>1 DEF Step
  <2>3. new \in State
    BY <1>1, PcsKnown DEF State, Errors
  <2>4. Sound(new)
    BY <1>1, <2>2, <2>3 DEF Sound, State, InHand, UnderWay, InCall
  <2>5. Closer(s, new)
    BY <1>1, <2>2 DEF Closer, Sound, State, InHand
  <2> QED  BY <2>1, <2>4, <2>5 DEF Moves
<1> QED  BY <1>2, <1>3, <1>4

LEMMA EndingMoves ==
    ASSUME IInv, NEW r \in Requests,
           \/ Succeeds(r) \/ FailsCancelled(r) \/ StreamEnds(r) \/ StreamLeft(r) \/ WaitCancelled(r)
    PROVE  Moves(r)
<1>1. \E from : Step(r, from, Ended(request[r]))
  BY DEF Succeeds, FailsCancelled, StreamEnds, StreamLeft, WaitCancelled
<1> QED  BY <1>1, Ends

LEMMA ChunkMoves ==
    ASSUME IInv, NEW r \in Requests, ChunkFails(r)
    PROVE  Moves(r)
<1> DEFINE s == request[r]  new == [s EXCEPT !.failed = TRUE]
<1>1. Step(r, "stream", new)
  BY DEF ChunkFails
<1>2. s \in State /\ Sound(s) /\ s.pc = "stream"
  BY <1>1, Typing DEF Step
<1>3. new \in State
  BY <1>2 DEF State
<1>4. Sound(new)
  BY <1>2, <1>3 DEF Sound, State, MayRetry
<1>5. Closer(s, new)
  BY <1>2 DEF Closer, State
<1> QED  BY <1>1, <1>4, <1>5 DEF Moves

\* A request waits only when a credential allows it another round, and for a time.
LEMMA RetryWaitIsNat ==
    ASSUME IInv, NEW s \in State
    PROVE  /\ RetryWait(s) \in Nat
           /\ Retries(s) => MayRetry(s) # {}
<1>1. Cooldowns(s) \in SUBSET Nat
  <2>1. ASSUME NEW a \in Auths PROVE record[a].hold[Route] \in Nat
    BY LoopAssumption DEF IInv, TypeOK, HoldMap, Copy
  <2> QED  BY <2>1 DEF Cooldowns, MayRetry
<1>2. Cooldowns(s) # {} => Min(Cooldowns(s)) \in Nat
  BY <1>1, MinOfNaturals
<1>3. MaxWait \in Nat /\ LongHold \in Nat
  BY LoopAssumption
<1>4. RetryWait(s) \in Nat
  BY <1>2, <1>3 DEF RetryWait
<1>5. Cooldowns(s) # {} => MayRetry(s) # {}
  BY DEF Cooldowns
<1> QED  BY <1>4, <1>5 DEF Retries

LEMMA RoundMoves ==
    ASSUME IInv, NEW r \in Requests, Decide(r) \/ NextRound(r)
    PROVE  Moves(r)
<1> DEFINE s == request[r]
<1>1. s \in State /\ Sound(s) /\ s.attempt \in Nat
  BY Typing
<1>2. CASE Decide(r)
  <2> DEFINE new == [s EXCEPT !.pc = "wait", !.wait = RetryWait(s)]
  <2>1. Step(r, "decide", IF Retries(s) THEN new ELSE Ended(s))
    BY <1>2 DEF Decide
  <2>2. CASE ~Retries(s)
    BY <2>1, <2>2, Ends
  <2>3. CASE Retries(s)
    <3>1. RetryWait(s) \in Nat /\ MayRetry(s) # {} /\ s.pc = "decide"
      BY <1>1, <2>1, <2>3, RetryWaitIsNat DEF Step
    <3>2. new \in State
      BY <1>1, <3>1, PcsKnown DEF State
    <3>3. new.attempt = s.attempt /\ new.tried = s.tried /\ new.attempted = s.attempted
          /\ new.models = s.models /\ new.failed = s.failed /\ new.pc = "wait"
      BY <1>1 DEF State
    <3>4. MayRetry(new) # {}
      BY <3>1, <3>3 DEF MayRetry
    <3>5. Sound(new)
      BY <1>1, <3>1, <3>2, <3>3, <3>4 DEF Sound, InHand, UnderWay, InCall
    <3>6. Closer(s, new)
      BY <3>1, <3>3 DEF Closer, Rank
    <3> QED  BY <2>1, <2>3, <3>5, <3>6 DEF Moves
  <2> QED  BY <2>2, <2>3
<1>3. CASE NextRound(r)
  <2> DEFINE next == s.attempt + 1
             new == [Idle EXCEPT !.pc = "pick", !.cancelled = s.cancelled, !.attempt = next]
  <2>1. Step(r, "wait", new)
    BY <1>3 DEF NextRound
  <2>2. Idle \in State /\ s.cancelled \in BOOLEAN /\ s.pc = "wait"
    BY <2>1, IdleIsSound, Typing DEF Sound, Step
  <2>0. next \in Nat /\ next > s.attempt
    BY <1>1
  <2> HIDE DEF next
  <2>3. new \in State
    BY <2>0, <2>2, PcsKnown DEF State
  <2>4. Sound(new)
    BY <2>2, <2>3 DEF Sound, Idle, InHand, UnderWay, InCall
  <2>5. PICK a \in Auths : s.attempt < Retry[a]
    BY <1>1, <2>2 DEF Sound, MayRetry
  <2>6. new.attempt = next
    BY <2>2 DEF State
  <2>7. new.attempt > s.attempt /\ new.attempt <= Retry[a]
    BY <1>1, <2>0, <2>5, <2>6, LoopAssumption DEF next
  <2>8. Closer(s, new)
    BY <2>7 DEF Closer
  <2> QED  BY <2>1, <2>4, <2>8 DEF Moves
<1> QED  BY <1>2, <1>3

LEMMA EveryStepMoves ==
    ASSUME IInv, NEW r \in Requests, Start(r) \/ Lock(r) \/ RequestStep(r) \/ ChunkFails(r)
    PROVE  Moves(r)
  BY StartMoves, PickMoves, LockMoves, PlainMoves, CallMoves, FailureMoves, EndingMoves,
     ChunkMoves, RoundMoves DEF RequestStep

(***************************************************************************)
(* The other variables                                                     *)
(***************************************************************************)

LEMMA Types ==
    ASSUME IInv
    PROVE  /\ record \in [Auths -> Copy] /\ scheduler \in [Auths -> Copy]
           /\ late \in [Threads -> Snapshot] /\ taken \in [Workers -> Snapshot]
           /\ shots \in [Requests -> [Auths -> Copy]]
           /\ lock \in [Auths -> Requests \cup {NoAuth}]
           /\ request \in [Requests -> State]
           /\ settled \in SUBSET Auths /\ owed \in [Requests -> Int]
           /\ Requests \subseteq Threads /\ Workers \subseteq Threads
  BY DEF IInv, TypeOK, Threads

LEMMA NothingSays == NoCopy \in Copy /\ Nothing \in Snapshot /\ NoShot \in [Auths -> Copy]
<1>1. NoCopy \in Copy
  BY PcsKnown
<1> QED  BY <1>1 DEF Snapshot, NoShot

\* MarkResult and Update, of a credential's record
LEMMA Marked ==
    ASSUME IInv, NEW r \in Requests, NEW a \in Auths, NEW model \in Models, NEW held \in Nat,
           MarkResult(r, a, model, held)
    PROVE  /\ record' \in [Auths -> Copy] /\ late' \in [Threads -> Snapshot]
           /\ \A b \in Auths : record'[b].prepared = record[b].prepared
<1> DEFINE new == [record[a] EXCEPT !.hold[model] = held]
<1>1. new \in Copy /\ new.prepared = record[a].prepared
  <2> DEFINE hold == [record[a].hold EXCEPT ![model] = held]
  <2>1. record[a] \in Copy
    BY Types
  <2>2. record[a].hold \in HoldMap
    BY <2>1 DEF Copy
  <2>3. hold \in HoldMap
    BY <2>2 DEF HoldMap
  <2>4. new = [record[a] EXCEPT !.hold = hold]
    BY <2>1 DEF Copy
  <2> HIDE DEF hold
  <2>5. [record[a] EXCEPT !.hold = hold] \in Copy
        /\ [record[a] EXCEPT !.hold = hold].prepared = record[a].prepared
    BY <2>1, <2>3 DEF Copy
  <2> QED  BY <2>4, <2>5
<1>2. /\ record' = [record EXCEPT ![a] = new]
      /\ late' = [late EXCEPT ![r] = [auth |-> a, copy |-> new]]
  BY DEF MarkResult
<1> HIDE DEF new
<1>3. [auth |-> a, copy |-> new] \in Snapshot
  BY <1>1 DEF Snapshot
<1> QED  BY <1>1, <1>2, <1>3, Types

LEMMA Updated ==
    ASSUME IInv, NEW t \in Threads, NEW a \in Auths, NEW copy \in Copy, Update(t, a, copy)
    PROVE  /\ record' \in [Auths -> Copy] /\ late' \in [Threads -> Snapshot]
           /\ \A b \in Auths \ {a} : record'[b] = record[b]
           /\ record'[a].prepared = copy.prepared
<1>1. PICK new \in Written(a, copy) :
          /\ record' = [record EXCEPT ![a] = new]
          /\ late' = [late EXCEPT ![t] = [auth |-> a, copy |-> new]]
  BY DEF Update
<1>2. new \in Copy /\ new.prepared = copy.prepared
  <2>1. record[a].hold \in HoldMap
    BY Types DEF Copy
  <2>2. [copy EXCEPT !.hold = record[a].hold] \in Copy
        /\ [copy EXCEPT !.hold = record[a].hold].prepared = copy.prepared
    BY <2>1 DEF Copy
  <2> QED  BY <2>2 DEF Written
<1>3. [auth |-> a, copy |-> new] \in Snapshot
  BY <1>2 DEF Snapshot
<1> QED  BY <1>1, <1>2, <1>3, Types

LEMMA CopiesAge ==
    /\ \A copy \in Copy : /\ Older(copy) \in Copy /\ Older(copy).prepared = copy.prepared
                          /\ Ready(copy) => Ready(Older(copy))
    /\ \A snapshot \in Snapshot : [snapshot EXCEPT !.copy = Older(@)] \in Snapshot
<1>1. \A n \in Nat : Less(n) \in Nat
  BY DEF Less
<1>2. ASSUME NEW copy \in Copy
      PROVE  /\ Older(copy) \in Copy /\ Older(copy).prepared = copy.prepared
             /\ Ready(copy) => Ready(Older(copy))
  <2> DEFINE hold == [x \in Models |-> Less(copy.hold[x])]
  <2>1. Older(copy) = [copy EXCEPT !.hold = hold]
    BY DEF Older, Copy
  <2>2. hold \in HoldMap
    BY <1>1 DEF Copy, HoldMap
  <2>3. copy.hold[Route] = 0 => hold[Route] = 0
    BY LoopAssumption DEF Less
  <2> HIDE DEF hold
  <2> QED  BY <2>1, <2>2, <2>3 DEF Copy, Ready
<1>3. Older(NoCopy) = NoCopy
  <2>1. [x \in Models |-> Less(NoHold[x])] = NoHold
    BY DEF NoHold, Less
  <2>2. Older(NoCopy) = [NoCopy EXCEPT !.hold = NoHold]
    BY <2>1 DEF Older, NoCopy
  <2> QED  BY <2>2 DEF NoCopy
<1>4. ASSUME NEW snapshot \in Snapshot
      PROVE  [snapshot EXCEPT !.copy = Older(@)] \in Snapshot
  <2>1. CASE snapshot = Nothing
    <3>1. [snapshot EXCEPT !.copy = Older(@)] = [Nothing EXCEPT !.copy = NoCopy]
      BY <1>3, <2>1 DEF Nothing
    <3>2. [Nothing EXCEPT !.copy = NoCopy] = Nothing
      BY DEF Nothing
    <3> QED  BY <3>1, <3>2 DEF Snapshot
  <2>2. CASE snapshot \in [auth : Auths, copy : Copy]
    BY <1>2, <2>2 DEF Snapshot
  <2> QED  BY <2>1, <2>2 DEF Snapshot
<1> QED  BY <1>2, <1>4

\* What a request's step does to the shared variables
Quiet == UNCHANGED <<credentialVars, schedulerVars, lock>>
Marks(r) ==
    \E a \in Auths, model \in Models, held \in Nat : MarkResult(r, a, model, held)

LEMMA StepKinds ==
    ASSUME IInv, NEW r \in Requests,
           Start(r) \/ Lock(r) \/ RequestStep(r) \/ ChunkFails(r) \/ Cancel(r)
    PROVE  \/ Quiet \/ Marks(r)
           \/ SnapshotAuths(r) \/ Rebuild(r)
           \/ Lock(r) \/ Prepared(r) \/ Unlock(r) \/ PrepareFails(r)
<1>1. CASE \/ Start(r) \/ Cancel(r) \/ Pick(r) \/ PickFails(r) \/ SecondPickFails(r)
           \/ PickLegacy(r) \/ PickLegacyFails(r) \/ LimitReached(r) \/ Call(r)
           \/ StreamOpens(r) \/ FailsCancelled(r) \/ FirstPayload(r) \/ StreamLeft(r)
           \/ Decide(r) \/ NextRound(r) \/ WaitCancelled(r)
  BY <1>1 DEF Start, Cancel, Pick, PickFails, SecondPickFails, PickLegacy, PickLegacyFails,
              LimitReached, Call, StreamOpens, FailsCancelled, FirstPayload, StreamLeft,
              Decide, NextRound, WaitCancelled, Quiet
<1>2. ASSUME request[r].pc \in UnderWay
      PROVE  request[r].id \in Auths /\ CalledModel(r) \in Models
  BY <1>2, Typing, LoopAssumption DEF Sound, InHand, UnderWay, CalledModel, StateModel
<1>3. LongHold \in Nat /\ Holds \subseteq Nat
  BY LoopAssumption DEF Holds
<1>4. CASE ReportUnprepared(r)
  <2>1. request[r].id \in Auths /\ Route \in Models
    BY <1>4, Typing, LoopAssumption DEF ReportUnprepared, Step, Sound, InHand
  <2>2. PICK held \in Holds : MarkResult(r, request[r].id, Route, held)
    BY <1>4 DEF ReportUnprepared
  <2> QED  BY <1>3, <2>1, <2>2 DEF Marks
<1>5. ASSUME request[r].pc \in UnderWay, NEW held \in Nat, Report(r, CalledModel(r), held)
      PROVE  Marks(r)
  BY <1>2, <1>5 DEF Report, Marks
<1>6. CASE Succeeds(r) \/ EmptyStream(r) \/ StreamEnds(r)
  <2>1. request[r].pc \in UnderWay
    BY <1>6 DEF Succeeds, EmptyStream, StreamEnds, Step, UnderWay, InCall
  <2>2. Report(r, CalledModel(r), 0) \/ Quiet
    BY <1>6 DEF Succeeds, EmptyStream, StreamEnds, Quiet
  <2> QED  BY <1>5, <2>1, <2>2
<1>7. CASE Fails(r) \/ ChunkFails(r)
  <2>1. request[r].pc \in UnderWay
    BY <1>7 DEF Fails, ChunkFails, Step, UnderWay, InCall
  <2>2. record[request[r].id].hold[CalledModel(r)] \in Nat
    BY <1>2, <2>1, Types DEF Copy, HoldMap
  <2>3. \A e \in {"plain", "limited", "invalid"}, held \in Nat : HeldAfter(e, held) \subseteq Nat
    BY LoopAssumption DEF HeldAfter, Holds
  <2>4. \E held \in Nat : Report(r, CalledModel(r), held)
    <3>1. CASE Fails(r)
      BY <2>2, <2>3, <3>1 DEF Fails
    <3>2. CASE ChunkFails(r)
      BY <1>3, <3>2 DEF ChunkFails
    <3> QED  BY <1>7, <3>1, <3>2
  <2> QED  BY <1>5, <2>1, <2>4
<1> QED  BY <1>1, <1>4, <1>6, <1>7 DEF RequestStep

LEMMA OwedTyped ==
    ASSUME IInv, Action
    PROVE  owed' \in [Requests -> Int]
<1>1. owed \in [Requests -> Int]
  BY Types
<1>2. ASSUME NEW r \in Requests, NEW model, NEW held, Report(r, model, held)
      PROVE  owed' \in [Requests -> Int]
  <2>1. owed[r] - 1 \in Int
    BY <1>1
  <2> QED  BY <1>1, <1>2, <2>1 DEF Report
<1>3. ASSUME NEW r \in Requests, Start(r) \/ Call(r)
      PROVE  owed' \in [Requests -> Int]
  <2>1. owed[r] + 1 \in Int /\ 0 \in Int
    BY <1>1
  <2> QED  BY <1>1, <1>3, <2>1 DEF Start, Call
<1>4. ASSUME NEW r \in Requests, Lock(r) \/ RequestStep(r) \/ ChunkFails(r) \/ Cancel(r), ~Call(r)
      PROVE  UNCHANGED owed \/ \E model, held : Report(r, model, held)
  BY <1>4 DEF RequestStep, Lock, Cancel, Pick, PickFails, SnapshotAuths, Rebuild, SecondPickFails,
              PickLegacy, PickLegacyFails, LimitReached, Prepared, Unlock, PrepareFails,
              ReportUnprepared, Succeeds, StreamOpens, Fails, FailsCancelled, EmptyStream,
              FirstPayload, StreamEnds, StreamLeft, Decide, NextRound, WaitCancelled, ChunkFails
<1>5. ASSUME NEW w \in Workers,
             \/ TakeCopy(w) \/ RefreshSucceeds(w) \/ RefreshFails(w) \/ Replace(w)
             \/ ReconcileRegistryModelStates(w) \/ RefreshSchedulerEntry(w)
      PROVE  UNCHANGED owed
  BY <1>5 DEF TakeCopy, RefreshSucceeds, RefreshFails, Replace, RefreshSchedulerEntry, WriteBack,
              ReconcileRegistryModelStates
<1> QED  BY <1>1, <1>2, <1>3, <1>4, <1>5 DEF Action, RequestStep, Publish, Tick

\* A worker's copy, written back
LEMMA WrittenBack ==
    ASSUME IInv, NEW w \in Workers, RefreshSucceeds(w) \/ Replace(w)
    PROVE  \E work \in Works, copy \in Copy :
               /\ WriteBack(w, work, copy)
               /\ taken[w].auth \in Auths
<1>1. taken[w] # Nothing
  BY DEF RefreshSucceeds, Replace, WriteBack
<1>2. taken[w].auth \in Auths /\ taken[w].copy \in Copy
  BY <1>1, Types DEF Snapshot
<1>3. CASE RefreshSucceeds(w)
  <2>1. PICK prepared \in {taken[w].copy.prepared, TRUE} :
            WriteBack(w, "refresh", [taken[w].copy EXCEPT !.prepared = prepared])
    BY <1>3 DEF RefreshSucceeds
  <2>2. [taken[w].copy EXCEPT !.prepared = prepared] \in Copy
    BY <1>2 DEF Copy
  <2> QED  BY <1>2, <2>1, <2>2 DEF Works
<1>4. CASE Replace(w)
  <2>1. PICK on \in BOOLEAN, prepared \in BOOLEAN, hold \in {taken[w].copy.hold, NoHold} :
            WriteBack(w, "update", [enabled |-> on, prepared |-> prepared, hold |-> hold])
    BY <1>4 DEF Replace
  <2>2. hold \in HoldMap
    BY <1>2, NothingSays DEF Copy, NoCopy
  <2>3. [enabled |-> on, prepared |-> prepared, hold |-> hold] \in Copy
    BY <2>2 DEF Copy
  <2> QED  BY <1>2, <2>1, <2>3 DEF Works
<1> QED  BY <1>3, <1>4

SharedTyped ==
    /\ record \in [Auths -> Copy]
    /\ scheduler \in [Auths -> Copy]
    /\ late \in [Threads -> Snapshot]
    /\ shots \in [Requests -> [Auths -> Copy]]
    /\ taken \in [Workers -> Snapshot]
    /\ lock \in [Auths -> Requests \cup {NoAuth}]
    /\ settled \in SUBSET Auths

LEMMA SharedStep ==
    ASSUME IInv, Action
    PROVE  SharedTyped' /\ SettledIsPrepared'
<1>0. SharedTyped /\ SettledIsPrepared
  BY Types DEF SharedTyped, IInv
<1>1. CASE Quiet
  BY <1>0, <1>1 DEF Quiet, credentialVars, schedulerVars, SharedTyped, SettledIsPrepared
<1>2. ASSUME NEW r \in Requests, Marks(r) PROVE SharedTyped' /\ SettledIsPrepared'
  <2>1. PICK a \in Auths, model \in Models, held \in Nat : MarkResult(r, a, model, held)
    BY <1>2 DEF Marks
  <2>2. /\ record' \in [Auths -> Copy] /\ late' \in [Threads -> Snapshot]
        /\ \A b \in Auths : record'[b].prepared = record[b].prepared
    BY <2>1, Marked
  <2>3. UNCHANGED <<taken, settled, scheduler, shots, lock>>
    BY <2>1 DEF MarkResult
  <2> QED  BY <1>0, <2>2, <2>3 DEF SharedTyped, SettledIsPrepared
<1>3. ASSUME NEW r \in Requests, SnapshotAuths(r) \/ Rebuild(r)
      PROVE  SharedTyped' /\ SettledIsPrepared'
  BY <1>0, <1>3, NothingSays
     DEF SnapshotAuths, Rebuild, credentialVars, SharedTyped, SettledIsPrepared
<1>4. ASSUME NEW r \in Requests, Lock(r) \/ Unlock(r) \/ PrepareFails(r)
      PROVE  SharedTyped' /\ SettledIsPrepared'
  <2>1. UNCHANGED <<credentialVars, schedulerVars>> /\ lock' \in [Auths -> Requests \cup {NoAuth}]
    BY <1>0, <1>4 DEF Lock, Unlock, PrepareFails, SharedTyped
  <2> QED  BY <1>0, <2>1 DEF credentialVars, schedulerVars, SharedTyped, SettledIsPrepared
<1>5. ASSUME NEW r \in Requests, Prepared(r) PROVE SharedTyped' /\ SettledIsPrepared'
  <2> DEFINE a == request[r].id  copy == [request[r].copy EXCEPT !.prepared = TRUE]
  <2>1. a \in Auths /\ copy \in Copy /\ copy.prepared = TRUE
    BY <1>5, Typing DEF Prepared, Step, Sound, State, InHand, Copy
  <2>2. /\ Update(r, a, copy) /\ settled' = settled \cup {a}
        /\ UNCHANGED <<taken, scheduler, shots, lock>>
    BY <1>5 DEF Prepared
  <2>3. r \in Threads
    BY DEF Threads
  <2> HIDE DEF copy
  <2>4. /\ record' \in [Auths -> Copy] /\ late' \in [Threads -> Snapshot]
        /\ \A b \in Auths \ {a} : record'[b] = record[b]
        /\ record'[a].prepared = TRUE
    BY <2>1, <2>2, <2>3, Updated
  <2>5. SharedTyped'
    BY <1>0, <2>1, <2>2, <2>4 DEF SharedTyped
  <2>6. SettledIsPrepared'
    BY <1>0, <2>1, <2>2, <2>4 DEF SharedTyped, SettledIsPrepared
  <2> QED  BY <2>5, <2>6
<1>6. ASSUME NEW t \in Threads, Publish(t) PROVE SharedTyped' /\ SettledIsPrepared'
  <2>1. late[t] \in Snapshot /\ late[t] # Nothing
    BY <1>6, Types DEF Publish
  <2>2. late[t].auth \in Auths /\ late[t].copy \in Copy
    BY <2>1 DEF Snapshot
  <2> QED  BY <1>0, <1>6, <2>2, NothingSays
           DEF Publish, credentialVars, SharedTyped, SettledIsPrepared
<1>7. ASSUME NEW w \in Workers, RefreshSucceeds(w) \/ Replace(w)
      PROVE  SharedTyped' /\ SettledIsPrepared'
  <2> DEFINE a == taken[w].auth
  <2>1. PICK work \in Works, copy \in Copy : WriteBack(w, work, copy) /\ a \in Auths
    BY <1>7, WrittenBack
  <2>2. /\ Update(w, a, copy) /\ taken' = [taken EXCEPT ![w] = Nothing]
        /\ settled' = settled \ {a} /\ UNCHANGED <<scheduler, shots, lock>>
    BY <2>1 DEF WriteBack
  <2>3. w \in Threads
    BY DEF Threads
  <2> HIDE DEF a
  <2>4. /\ record' \in [Auths -> Copy] /\ late' \in [Threads -> Snapshot]
        /\ \A b \in Auths \ {a} : record'[b] = record[b]
    BY <2>1, <2>2, <2>3, Updated
  <2>5. SharedTyped'
    BY <1>0, <2>2, <2>4, NothingSays DEF SharedTyped
  <2>6. SettledIsPrepared'
    BY <1>0, <2>2, <2>4 DEF SharedTyped, SettledIsPrepared
  <2> QED  BY <2>5, <2>6
<1>8. ASSUME NEW w \in Workers, TakeCopy(w) \/ RefreshFails(w) \/ RefreshSchedulerEntry(w)
      PROVE  SharedTyped' /\ SettledIsPrepared'
  <2>1. UNCHANGED <<record, settled, shots, lock>>
    BY <1>8 DEF TakeCopy, RefreshFails, RefreshSchedulerEntry, credentialVars, schedulerVars
  <2>2. \A a \in Auths : record[a] \in Copy /\ [auth |-> a, copy |-> record[a]] \in Snapshot
    BY Types DEF Snapshot
  <2>3. CASE TakeCopy(w)
    BY <1>0, <2>1, <2>2, <2>3 DEF TakeCopy, schedulerVars, SharedTyped, SettledIsPrepared
  <2>4. CASE RefreshFails(w)
    <3>1. taken[w].auth \in Auths
      BY <2>4, Types DEF RefreshFails, Snapshot
    <3>2. scheduler' \in [Auths -> Copy]
      BY <1>0, <2>2, <2>4, <3>1 DEF RefreshFails, SharedTyped
    <3>3. taken' \in [Workers -> Snapshot] /\ UNCHANGED late
      BY <1>0, <2>4, NothingSays DEF RefreshFails, SharedTyped
    <3> QED  BY <1>0, <2>1, <3>2, <3>3 DEF SharedTyped, SettledIsPrepared
  <2>5. CASE RefreshSchedulerEntry(w)
    <3>1. w \in Threads
      BY DEF Threads
    <3> QED  BY <1>0, <2>1, <2>2, <2>5, <3>1
             DEF RefreshSchedulerEntry, credentialVars, SharedTyped, SettledIsPrepared
  <2> QED  BY <1>8, <2>3, <2>4, <2>5
<1>10. ASSUME NEW w \in Workers, ReconcileRegistryModelStates(w)
       PROVE  SharedTyped' /\ SettledIsPrepared'
  <2>1. PICK a \in Auths :
            /\ record' = [record EXCEPT ![a] = [record[a] EXCEPT !.hold = NoHold]]
            /\ late' = [late EXCEPT ![w] = [auth |-> a,
                                            copy |-> [record[a] EXCEPT !.hold = NoHold]]]
    BY <1>10 DEF ReconcileRegistryModelStates
  <2> DEFINE new == [record[a] EXCEPT !.hold = NoHold]
  <2>2. record[a] \in Copy /\ NoHold \in HoldMap
    BY Types, NothingSays DEF Copy, NoCopy
  <2>3. new \in Copy /\ new.prepared = record[a].prepared
    BY <2>2 DEF Copy
  <2>4. record' = [record EXCEPT ![a] = new]
        /\ late' = [late EXCEPT ![w] = [auth |-> a, copy |-> new]]
    BY <2>1
  <2> HIDE DEF new
  <2>5. [auth |-> a, copy |-> new] \in Snapshot /\ w \in Threads
    BY <2>3 DEF Snapshot, Threads
  <2>6. record' \in [Auths -> Copy] /\ late' \in [Threads -> Snapshot]
        /\ \A b \in Auths : record'[b].prepared = record[b].prepared
    BY <2>3, <2>4, <2>5, Types
  <2>7. UNCHANGED <<taken, settled, scheduler, shots, lock>>
    BY <1>10 DEF ReconcileRegistryModelStates
  <2> QED  BY <1>0, <2>6, <2>7 DEF SharedTyped, SettledIsPrepared
<1>9. CASE Tick
  <2>1. record' \in [Auths -> Copy] /\ scheduler' \in [Auths -> Copy]
        /\ \A a \in Auths : record'[a].prepared = record[a].prepared
    BY <1>9, Types, CopiesAge DEF Tick
  <2>2. late' \in [Threads -> Snapshot] /\ taken' \in [Workers -> Snapshot]
    BY <1>9, Types, CopiesAge DEF Tick
  <2>3. shots' \in [Requests -> [Auths -> Copy]]
    BY <1>9, Types, CopiesAge DEF Tick
  <2>4. UNCHANGED <<lock, settled>>
    BY <1>9 DEF Tick
  <2> QED  BY <1>0, <2>1, <2>2, <2>3, <2>4 DEF SharedTyped, SettledIsPrepared
<1> QED  BY <1>1, <1>2, <1>3, <1>4, <1>5, <1>6, <1>7, <1>8, <1>9, <1>10, StepKinds DEF Action

(***************************************************************************)
(* Records and steps                                                       *)
(***************************************************************************)

LEMMA CancelKeeps ==
    ASSUME IInv, NEW r \in Requests, Cancel(r)
    PROVE  /\ request' \in [Requests -> State] /\ Records'
           /\ \A q \in Requests : request[q].pc # "idle" => Closer(request[q], request'[q])
           /\ request[r].pc # "idle"
           /\ \A q \in Requests :
                 LET s == request[q] t == request'[q]
                 IN  /\ t.pc = s.pc /\ t.id = s.id /\ t.tried = s.tried /\ t.attempted = s.attempted
                     /\ t.failed = s.failed /\ (q # r => t.cancelled = s.cancelled)
<1> DEFINE new == [request[r] EXCEPT !.cancelled = TRUE]
<1>1. request' = [request EXCEPT ![r] = new] /\ request[r].pc # "idle"
  BY DEF Cancel
<1>2. request \in [Requests -> State] /\ Sound(request[r])
  BY Typing DEF IInv, TypeOK
<1>3. new \in State
  BY <1>2 DEF State
<1>4. Sound(new)
  BY <1>2, <1>3 DEF Sound, State, MayRetry
<1>5. /\ request' \in [Requests -> State]
      /\ request'[r] = new
      /\ \A q \in Requests \ {r} : request'[q] = request[q]
  BY <1>1, <1>2, <1>3
<1>6. Records'
  <2> SUFFICES ASSUME NEW q \in Requests PROVE Sound(request'[q])
    BY DEF Records, Sound, MayRetry
  <2> QED  BY <1>4, <1>5 DEF IInv, Records
<1>7. \A q \in Requests :
          LET s == request[q] t == request'[q]
          IN  /\ t.pc = s.pc /\ t.id = s.id /\ t.tried = s.tried /\ t.attempted = s.attempted
              /\ t.failed = s.failed /\ (q # r => t.cancelled = s.cancelled)
              /\ t.attempt = s.attempt /\ t.models = s.models
  BY <1>2, <1>5 DEF State
<1>8. \A q \in Requests : Closer(request[q], request'[q])
  BY <1>7 DEF Closer
<1> QED  BY <1>1, <1>5, <1>6, <1>7, <1>8

LEMMA TickKeeps ==
    ASSUME IInv, Tick
    PROVE  /\ request' \in [Requests -> State] /\ Records'
           /\ \A q \in Requests : request[q].pc # "idle" => Closer(request[q], request'[q])
           /\ \A q \in Requests :
                 LET s == request[q] t == request'[q]
                 IN  /\ t.pc = s.pc /\ t.id = s.id /\ t.tried = s.tried /\ t.attempted = s.attempted
                     /\ t.failed = s.failed /\ t.cancelled = s.cancelled
<1>1. ASSUME NEW q \in Requests
      PROVE  /\ request'[q] \in State
             /\ Sound(request'[q])
             /\ LET s == request[q] t == request'[q]
                IN  /\ t.pc = s.pc /\ t.id = s.id /\ t.tried = s.tried /\ t.attempted = s.attempted
                    /\ t.failed = s.failed /\ t.cancelled = s.cancelled
                    /\ t.attempt = s.attempt /\ t.models = s.models
  <2> DEFINE s == request[q]
             wait == Less(s.wait)
             copy == Older(s.copy)
             new == [s EXCEPT !.wait = wait, !.copy = copy]
  <2>1. request'[q] = new
    BY Typing DEF Tick, State
  <2>2. s \in State /\ Sound(s)
    BY Typing
  <2>3. wait \in Nat /\ copy \in Copy
    BY <2>2, CopiesAge DEF State, Less
  <2> HIDE DEF wait, copy
  <2>7. new \in State
    BY <2>2, <2>3 DEF State
  <2>8. /\ new.pc = s.pc /\ new.id = s.id /\ new.tried = s.tried /\ new.attempted = s.attempted
        /\ new.failed = s.failed /\ new.cancelled = s.cancelled
        /\ new.attempt = s.attempt /\ new.models = s.models /\ new.model = s.model
    BY <2>2 DEF State
  <2> HIDE DEF new
  <2>9. Sound(new)
    BY <2>2, <2>7, <2>8 DEF Sound, MayRetry
  <2> QED  BY <2>1, <2>7, <2>8, <2>9
<1>2. request' \in [Requests -> State]
  <2>1. request' = [q \in Requests |-> request'[q]]
    BY DEF Tick
  <2> QED  BY <1>1, <2>1
<1>3. Records'
  <2> SUFFICES ASSUME NEW q \in Requests PROVE Sound(request'[q])
    BY DEF Records, Sound, MayRetry
  <2> QED  BY <1>1
<1>4. \A q \in Requests : Closer(request[q], request'[q])
  BY <1>1 DEF Closer
<1> QED  BY <1>1, <1>2, <1>3, <1>4

LEMMA WorkersStandAside ==
    ASSUME NEW w,
           \/ TakeCopy(w) \/ RefreshSucceeds(w) \/ RefreshFails(w) \/ Replace(w)
           \/ ReconcileRegistryModelStates(w) \/ RefreshSchedulerEntry(w)
    PROVE  UNCHANGED <<request, lock, owed>> /\ settled' \subseteq settled
  BY DEF TakeCopy, RefreshSucceeds, RefreshFails, Replace, RefreshSchedulerEntry, WriteBack,
         ReconcileRegistryModelStates, credentialVars

LEMMA RecordsStep ==
    ASSUME IInv, Action
    PROVE  /\ request' \in [Requests -> State] /\ Records'
           /\ \A q \in Requests : request[q].pc # "idle" => Closer(request[q], request'[q])
<1>1. ASSUME NEW r \in Requests, Moves(r)
      PROVE  /\ request' \in [Requests -> State] /\ Records'
             /\ \A q \in Requests : request[q].pc # "idle" => Closer(request[q], request'[q])
  <2>1. PICK from, new : /\ Step(r, from, new)
                         /\ Sound(new)
                         /\ request[r].pc # "idle" => Closer(request[r], new)
    BY <1>1 DEF Moves
  <2>2. /\ request' \in [Requests -> State] /\ Records'
        /\ request'[r] = new
        /\ \A q \in Requests \ {r} : request'[q] = request[q]
    BY <2>1, OneMoves
  <2>3. \A s : Closer(s, s)
    BY DEF Closer
  <2> QED  BY <2>1, <2>2, <2>3
<1>2. CASE UNCHANGED request
  <2>1. \A s : Closer(s, s)
    BY DEF Closer
  <2> QED  BY <1>2, <2>1 DEF IInv, TypeOK, Records, Sound, MayRetry
<1>3. ASSUME NEW t \in Threads, Publish(t) PROVE UNCHANGED request
  BY <1>3 DEF Publish
<1>4. ASSUME NEW w \in Workers,
             \/ TakeCopy(w) \/ RefreshSucceeds(w) \/ RefreshFails(w) \/ Replace(w)
             \/ ReconcileRegistryModelStates(w) \/ RefreshSchedulerEntry(w)
      PROVE  UNCHANGED request
  BY <1>4, WorkersStandAside
<1> QED  BY <1>1, <1>2, <1>3, <1>4, EveryStepMoves, CancelKeeps, TickKeeps DEF Action

(***************************************************************************)
(* Where each step comes from and where it lands                           *)
(***************************************************************************)

Same(s, t) == /\ t.tried = s.tried /\ t.attempted = s.attempted
              /\ t.failed = s.failed /\ t.cancelled = s.cancelled
Over(s, t) == t.pc = "idle" /\ ~t.failed /\ t.cancelled = s.cancelled
Between == {"idle", "wait"}

\* Steps that begin a round
LEMMA Begins ==
    ASSUME IInv, NEW r \in Requests, Start(r) \/ NextRound(r)
    PROVE  /\ request[r].pc = (IF Start(r) THEN "idle" ELSE "wait")
           /\ request'[r].pc = "pick" /\ request'[r].tried = {} /\ ~request'[r].failed
<1>0. request \in [Requests -> State]
  BY DEF IInv, TypeOK
<1>1. CASE Start(r)
  BY <1>0, <1>1 DEF Start, Step, Idle
<1>2. CASE NextRound(r)
  <2>1. request[r].pc = "wait" /\ ~Start(r)
    BY <1>2 DEF NextRound, Start, Step
  <2> QED  BY <1>0, <1>2, <2>1 DEF NextRound, Step, Idle
<1> QED  BY <1>1, <1>2

\* Steps inside a round that try nothing new: where they begin and end
GoesFrom(r, from, to) ==
    /\ request[r].pc = from /\ request'[r].pc \in to
    /\ Same(request[r], request'[r])

LEMMA Continues ==
    ASSUME IInv, NEW r \in Requests
    PROVE  /\ PickFails(r) => GoesFrom(r, "pick", {"sync"})
           /\ SnapshotAuths(r) => GoesFrom(r, "sync", {"rebuild"})
           /\ Rebuild(r) => GoesFrom(r, "rebuild", {"again"})
           /\ SecondPickFails(r) => GoesFrom(r, "again", {"decide"})
           /\ LimitReached(r) => GoesFrom(r, "pick", {"decide"})
           /\ PickLegacyFails(r) => GoesFrom(r, "pick", {"decide"})
           /\ Lock(r) => GoesFrom(r, "lock", {"call", "prepare"})
           /\ Prepared(r) => GoesFrom(r, "prepare", {"written"})
           /\ Unlock(r) => GoesFrom(r, "written", {"call"})
           /\ PrepareFails(r) => GoesFrom(r, "prepare", {"unprepared"})
           /\ ReportUnprepared(r) => GoesFrom(r, "unprepared", {"pick"})
           /\ Call(r) => GoesFrom(r, "call", {"called"})
           /\ StreamOpens(r) => GoesFrom(r, "called", {"bootstrap"})
           /\ FirstPayload(r) => GoesFrom(r, "bootstrap", {"stream"})
           /\ EmptyStream(r) => GoesFrom(r, "bootstrap", {"call", "pick"})
<1> DEFINE s == request[r]
<1>1. request \in [Requests -> State] /\ s \in State
  BY DEF IInv, TypeOK
<1>2. ASSUME NEW from, NEW pc, Passes(r, from, pc) PROVE GoesFrom(r, from, {pc})
  BY <1>1, <1>2 DEF Passes, Step, State, GoesFrom, Same
<1>3. Prepared(r) => GoesFrom(r, "prepare", {"written"})
  BY <1>1 DEF Prepared, Step, State, GoesFrom, Same
<1>4. PrepareFails(r) => GoesFrom(r, "prepare", {"unprepared"})
  BY <1>1 DEF PrepareFails, Step, State, GoesFrom, Same
<1>5. ReportUnprepared(r) => GoesFrom(r, "unprepared", {"pick"})
  BY <1>1 DEF ReportUnprepared, Step, State, GoesFrom, Same
<1>8. ASSUME Lock(r) PROVE GoesFrom(r, "lock", {"call", "prepare"})
  <2>1. CASE record[s.id].prepared
    <3>1. Step(r, "lock", [s EXCEPT !.pc = "call"])
      BY <1>8, <2>1 DEF Lock
    <3> QED  BY <1>1, <3>1 DEF Step, State, GoesFrom, Same
  <2>2. CASE ~record[s.id].prepared
    <3>1. Step(r, "lock", [s EXCEPT !.pc = "prepare", !.copy = record[s.id]])
      BY <1>8, <2>2 DEF Lock
    <3> QED  BY <1>1, <3>1 DEF Step, State, GoesFrom, Same
  <2> QED  BY <2>1, <2>2
<1>9. ASSUME Call(r) PROVE GoesFrom(r, "call", {"called"})
  <2>1. PICK model : Step(r, "call", [s EXCEPT !.pc = "called", !.model = model])
    BY <1>9 DEF Call
  <2> QED  BY <1>1, <2>1 DEF Step, State, GoesFrom, Same
<1>10. ASSUME EmptyStream(r) PROVE GoesFrom(r, "bootstrap", {"call", "pick"})
  <2>1. Step(r, "bootstrap", Onward(s, "plain"))
    BY <1>10 DEF EmptyStream
  <2>2. Onward(s, "plain").pc \in {"call", "pick"} /\ Same(s, Onward(s, "plain"))
    BY <1>1 DEF Onward, State, Same
  <2> QED  BY <1>1, <2>1, <2>2 DEF Step, GoesFrom
<1> QED  BY <1>2, <1>3, <1>4, <1>5, <1>8, <1>9, <1>10, PlainSteps

\* Steps that end the request
LEMMA Finishes ==
    ASSUME IInv, NEW r \in Requests, NEW from, Step(r, from, Ended(request[r]))
    PROVE  request[r].pc = from /\ Over(request[r], request'[r])
<1>1. request \in [Requests -> State]
  BY DEF IInv, TypeOK
<1> QED  BY <1>1 DEF Step, Ended, Idle, Over

\* Steps that may end the request or go on with it
LEMMA EndsOrContinues ==
    ASSUME IInv, NEW r \in Requests
    PROVE  /\ Decide(r) => /\ request[r].pc = "decide"
                           /\ \/ Over(request[r], request'[r])
                              \/ GoesFrom(r, "decide", {"wait"})
           /\ Fails(r) => /\ request[r].pc \in {"called", "bootstrap"}
                          /\ \/ Over(request[r], request'[r])
                             \/ GoesFrom(r, request[r].pc, {"call", "pick"})
<1> DEFINE s == request[r]
<1>1. request \in [Requests -> State] /\ s \in State
  BY DEF IInv, TypeOK
<1>2. ASSUME Decide(r)
      PROVE  s.pc = "decide" /\ (Over(s, request'[r]) \/ GoesFrom(r, "decide", {"wait"}))
  <2>1. CASE Retries(s)
    BY <1>1, <1>2, <2>1 DEF Decide, Step, State, GoesFrom, Same
  <2>2. CASE ~Retries(s)
    BY <1>2, <2>2, Finishes DEF Decide
  <2> QED  BY <2>1, <2>2 DEF GoesFrom
<1>3. ASSUME Fails(r)
      PROVE  s.pc \in {"called", "bootstrap"}
             /\ (Over(s, request'[r]) \/ GoesFrom(r, s.pc, {"call", "pick"}))
  <2>1. PICK error :
            Step(r, s.pc, IF error = "invalid" THEN Ended(s) ELSE Onward(s, Kept(r, error)))
    BY <1>3 DEF Fails
  <2>2. CASE error = "invalid"
    BY <1>3, <2>1, <2>2, Finishes DEF Fails
  <2>3. CASE error # "invalid"
    <3> DEFINE kept == Kept(r, error)
    <3> HIDE DEF kept
    <3>1. Onward(s, kept).pc \in {"call", "pick"} /\ Same(s, Onward(s, kept))
      BY <1>1 DEF Onward, State, Same
    <3>2. Step(r, s.pc, Onward(s, kept))
      BY <2>1, <2>3 DEF kept
    <3> QED  BY <1>1, <1>3, <3>1, <3>2 DEF Step, GoesFrom, Fails
  <2> QED  BY <2>2, <2>3
<1> QED  BY <1>2, <1>3

\* A pick, from the scheduler's copies or from the records
Picks(r, copies) ==
    \E a \in Auths :
        /\ request[r].pc \in {"pick", "again"}
        /\ request'[r].pc \in {"pick", "call", "lock"}
        /\ request'[r].failed = request[r].failed
        /\ request'[r].tried = request[r].tried \cup {a}
        /\ Ready(copies[a])
        /\ Serves(a, copies[a]) => a \in request'[r].attempted

LEMMA PickLands ==
    ASSUME IInv, NEW r \in Requests
    PROVE  /\ Pick(r) => Picks(r, scheduler)
           /\ PickLegacy(r) => Picks(r, record)
<1> DEFINE s == request[r]
<1>1. request \in [Requests -> State] /\ s \in State
  BY DEF IInv, TypeOK
<1>2. ASSUME NEW copies, NEW a \in Auths, NEW from \in {"pick", "again"}, Ready(copies[a]),
             Step(r, from, Chosen(s, a, copies[a]))
      PROVE  Picks(r, copies)
  <2> DEFINE new == Chosen(s, a, copies[a])
  <2>1. s.pc = from /\ request'[r] = new
    BY <1>1, <1>2 DEF Step
  <2>2. /\ new.pc \in {"pick", "call", "lock"} /\ new.failed = s.failed
        /\ new.tried = s.tried \cup {a}
        /\ FreeModels(a, copies[a]) # {} => a \in new.attempted
    BY <1>1 DEF Chosen, State
  <2> HIDE DEF new
  <2> QED  BY <1>2, <2>1, <2>2 DEF Picks, Serves
<1>3. Pick(r) => Picks(r, scheduler)
  BY <1>2 DEF Pick
<1>4. PickLegacy(r) => Picks(r, record)
  BY <1>2 DEF PickLegacy
<1> QED  BY <1>3, <1>4

LEMMA ChunkLands ==
    ASSUME IInv, NEW r \in Requests, ChunkFails(r)
    PROVE  /\ request[r].pc = "stream" /\ request'[r].pc = "stream"
           /\ ~request[r].failed /\ request'[r].failed
           /\ request'[r].tried = request[r].tried
           /\ request'[r].attempted = request[r].attempted
<1>1. request \in [Requests -> State] /\ request[r] \in State
  BY DEF IInv, TypeOK
<1> QED  BY <1>1 DEF ChunkFails, Step, State

(***************************************************************************)
(* Who prepares                                                            *)
(***************************************************************************)

\* Steps that neither begin nor end a preparation
LEMMA NoPreparing ==
    ASSUME IInv, UNCHANGED lock, settled' \subseteq settled,
           \A q \in Requests : /\ (request'[q].pc = "prepare") = (request[q].pc = "prepare")
                               /\ (request'[q].pc = "written") = (request[q].pc = "written")
                               /\ request[q].pc \in Preparing => request'[q].id = request[q].id
    PROVE  Locking'
  BY DEF IInv, Locking, Preparing

\* A request takes the lock of its credential and begins.
LEMMA LockLocks ==
    ASSUME IInv, NEW r \in Requests, Lock(r)
    PROVE  Locking'
<1> DEFINE s == request[r]  a == s.id
<1>0. request \in [Requests -> State] /\ lock \in [Auths -> Requests \cup {NoAuth}]
      /\ NoAuth \notin Requests
  BY LoopAssumption DEF IInv, TypeOK
<1>1. CASE record[a].prepared
  <2> DEFINE new == [s EXCEPT !.pc = "call"]
  <2>1. request' = [request EXCEPT ![r] = new] /\ s.pc = "lock" /\ UNCHANGED <<lock, settled>>
    BY <1>1 DEF Lock, Step, credentialVars
  <2>2. new.pc = "call"
    BY <1>0 DEF State
  <2> HIDE DEF new
  <2> QED  BY <1>0, <2>1, <2>2, NoPreparing DEF Preparing
<1>2. CASE ~record[a].prepared
  <2> DEFINE new == [s EXCEPT !.pc = "prepare", !.copy = record[a]]
  <2>1. /\ request' = [request EXCEPT ![r] = new]
        /\ s.pc = "lock" /\ lock[a] = NoAuth
        /\ lock' = [lock EXCEPT ![a] = r] /\ UNCHANGED settled
    BY <1>2 DEF Lock, Step, credentialVars
  <2>2. new.pc = "prepare" /\ new.id = a
    BY <1>0 DEF State
  <2>3. a \in Auths
    BY <2>1, Typing DEF Sound, InHand
  <2>4. a \notin settled
    BY <1>2 DEF IInv, SettledIsPrepared
  <2> HIDE DEF new
  <2>5. ASSUME NEW q \in Requests
        PROVE  /\ \A b \in Auths :
                      lock'[b] = q <=> request'[q].pc \in Preparing /\ request'[q].id = b
               /\ request'[q].pc = "prepare" => request'[q].id \notin settled'
    <3>1. CASE q = r
      BY <1>0, <2>1, <2>2, <2>3, <2>4, <3>1 DEF IInv, Locking, Preparing
    <3>2. CASE q # r
      BY <1>0, <2>1, <2>3, <3>2 DEF IInv, Locking
    <3> QED  BY <3>1, <3>2
  <2> QED  BY <2>5 DEF Locking
<1> QED  BY <1>1, <1>2

\* It writes the record, and keeps the lock until the scheduler has it too.
LEMMA PreparedKeepsLock ==
    ASSUME IInv, NEW r \in Requests, Prepared(r)
    PROVE  Locking'
<1> DEFINE s == request[r]  a == s.id
           new == [s EXCEPT !.pc = "written", !.copy = NoCopy]
<1>1. /\ request' = [request EXCEPT ![r] = new]
      /\ s.pc = "prepare" /\ settled' = settled \cup {a} /\ UNCHANGED lock
  BY DEF Prepared, Step
<1>2. request \in [Requests -> State] /\ lock \in [Auths -> Requests \cup {NoAuth}]
  BY DEF IInv, TypeOK
<1>3. new.pc = "written" /\ new.id = a /\ a \in Auths
  BY <1>1, <1>2, Typing DEF State, Sound, InHand
<1> HIDE DEF new
<1>4. ASSUME NEW q \in Requests
      PROVE  /\ \A b \in Auths : lock'[b] = q <=> request'[q].pc \in Preparing /\ request'[q].id = b
             /\ request'[q].pc = "prepare" => request'[q].id \notin settled'
  <2>1. CASE q = r
    BY <1>1, <1>2, <1>3, <2>1 DEF IInv, Locking, Preparing
  <2>2. CASE q # r
    <3>1. request[q].pc = "prepare" => request[q].id # a
      BY <1>1, <1>3, <2>2 DEF IInv, Locking, Preparing
    <3> QED  BY <1>1, <1>2, <2>2, <3>1 DEF IInv, Locking
  <2> QED  BY <2>1, <2>2
<1> QED  BY <1>4 DEF Locking

LEMMA UnlockUnlocks ==
    ASSUME IInv, NEW r \in Requests, Unlock(r) \/ PrepareFails(r)
    PROVE  Locking'
<1> DEFINE s == request[r]  a == s.id
<1>0. request \in [Requests -> State] /\ lock \in [Auths -> Requests \cup {NoAuth}]
      /\ NoAuth \notin Requests /\ s \in State
  BY LoopAssumption DEF IInv, TypeOK
<1>1. /\ s.pc \in Preparing
      /\ \A q \in Requests \ {r} : request'[q] = request[q]
      /\ request'[r].pc \notin Preparing
      /\ lock' = [lock EXCEPT ![a] = NoAuth] /\ UNCHANGED settled
  <2>1. CASE Unlock(r)
    BY <1>0, <2>1 DEF Unlock, Step, State, Preparing, credentialVars
  <2>2. CASE PrepareFails(r)
    BY <1>0, <2>2 DEF PrepareFails, Step, State, Preparing, credentialVars
  <2> QED  BY <2>1, <2>2
<1>2. a \in Auths
  BY <1>1, Typing DEF Sound, InHand, Preparing
<1>3. ASSUME NEW q \in Requests
      PROVE  /\ \A b \in Auths : lock'[b] = q <=> request'[q].pc \in Preparing /\ request'[q].id = b
             /\ request'[q].pc = "prepare" => request'[q].id \notin settled'
  <2>1. CASE q = r
    BY <1>0, <1>1, <1>2, <2>1 DEF IInv, Locking, Preparing
  <2>2. CASE q # r
    <3>1. request[q].pc \in Preparing => request[q].id # a
      BY <1>1, <1>2, <2>2 DEF IInv, Locking
    <3> QED  BY <1>0, <1>1, <1>2, <2>2, <3>1 DEF IInv, Locking
  <2> QED  BY <2>1, <2>2
<1> QED  BY <1>3 DEF Locking

LEMMA LockingStep ==
    ASSUME IInv, Action
    PROVE  Locking'
<1>3. ASSUME NEW r \in Requests, NEW from, NEW new, Step(r, from, new), Sound(new),
             from \notin Preparing, new.pc \notin Preparing, UNCHANGED <<lock, settled>>
      PROVE  Locking'
  <2>1. /\ request'[r] = new
        /\ \A q \in Requests \ {r} : request'[q] = request[q]
    BY <1>3, OneMoves
  <2>2. request[r].pc = from
    BY <1>3 DEF Step
  <2> QED  BY <1>3, <2>1, <2>2, NoPreparing DEF Preparing
<1>4. ASSUME NEW r \in Requests, Start(r) \/ RequestStep(r) \/ ChunkFails(r),
             ~Prepared(r), ~Unlock(r), ~PrepareFails(r)
      PROVE  Locking'
  <2>1. UNCHANGED <<lock, settled>>
    BY <1>4 DEF Start, ChunkFails, RequestStep, Pick, PickFails, SnapshotAuths, Rebuild,
                SecondPickFails, PickLegacy, PickLegacyFails, LimitReached, ReportUnprepared, Call,
                Succeeds, StreamOpens, Fails, FailsCancelled, EmptyStream, FirstPayload, StreamEnds,
                StreamLeft, Decide, NextRound, WaitCancelled, Report, MarkResult, credentialVars
  <2>2. PICK from, new : Step(r, from, new) /\ Sound(new)
    BY <1>4, EveryStepMoves DEF Moves
  <2>3. request'[r].pc \notin Preparing /\ request[r].pc \notin Preparing
    <3>1. CASE \/ Succeeds(r) \/ FailsCancelled(r) \/ StreamEnds(r) \/ StreamLeft(r)
               \/ WaitCancelled(r)
      <4>1. PICK from_ \in {"called", "bootstrap", "stream", "wait"} :
                Step(r, from_, Ended(request[r]))
        BY <3>1 DEF Succeeds, FailsCancelled, StreamEnds, StreamLeft, WaitCancelled
      <4> QED  BY <4>1, Finishes DEF Over, Preparing
    <3>2. CASE Start(r) \/ NextRound(r) \/ ChunkFails(r)
      BY <3>2, Begins, ChunkLands DEF Preparing
    <3>3. CASE Pick(r) \/ PickLegacy(r)
      BY <3>3, PickLands DEF Picks, Preparing
    <3>4. CASE Decide(r) \/ Fails(r)
      BY <3>4, EndsOrContinues DEF GoesFrom, Over, Preparing
    <3> QED  BY <1>4, <3>1, <3>2, <3>3, <3>4, Continues DEF RequestStep, GoesFrom, Preparing
  <2> QED  BY <1>3, <2>1, <2>2, <2>3, OneMoves DEF Step
<1>5. ASSUME NEW r \in Requests, Cancel(r) PROVE Locking'
  BY <1>5, CancelKeeps, NoPreparing DEF Cancel, credentialVars
<1>6. ASSUME UNCHANGED <<request, lock>>, settled' \subseteq settled PROVE Locking'
  BY <1>6, NoPreparing
<1>7. CASE Tick
  BY <1>7, TickKeeps, NoPreparing DEF Tick
<1>8. ASSUME NEW t \in Threads, Publish(t) PROVE Locking'
  BY <1>6, <1>8 DEF Publish, credentialVars
<1> QED  BY <1>4, <1>5, <1>6, <1>7, <1>8, LockLocks, PreparedKeepsLock, UnlockUnlocks,
            WorkersStandAside DEF Action, RequestStep

(***************************************************************************)
(* What is reported                                                        *)
(***************************************************************************)

Owing(s) == IF s.pc \in {"called", "bootstrap"} \/ (s.pc = "stream" /\ ~s.failed) THEN 1 ELSE 0
Excused(s) == s.pc = "idle" /\ s.cancelled

LEMMA ReportedOnceSays ==
    ReportedOnce <=> \A r \in Requests : Excused(request[r]) \/ owed[r] = Owing(request[r])
  BY DEF ReportedOnce, Owing, Excused

LEMMA ReportedStep ==
    ASSUME IInv, Action
    PROVE  \A r \in Requests : Excused(request'[r]) \/ owed'[r] = Owing(request'[r])
<1>1. owed \in [Requests -> Int] /\ request \in [Requests -> State]
  BY DEF IInv, TypeOK
<1>2. \A r \in Requests : Excused(request[r]) \/ owed[r] = Owing(request[r])
  BY ReportedOnceSays DEF IInv
<1>3. \A r \in Requests : request[r].failed => request[r].pc = "stream"
  BY Typing DEF Sound
<1>4. ASSUME NEW r \in Requests, Moves(r), NEW d \in Int, owed' = [owed EXCEPT ![r] = d],
             Excused(request'[r]) \/ d = Owing(request'[r])
      PROVE  \A q \in Requests : Excused(request'[q]) \/ owed'[q] = Owing(request'[q])
  <2>1. \A q \in Requests \ {r} : request'[q] = request[q]
    BY <1>4, OneMoves DEF Moves
  <2> QED  BY <1>1, <1>2, <1>4, <2>1
<1>5. ASSUME NEW r \in Requests, Moves(r), UNCHANGED owed,
             request[r].pc # "idle",
             Excused(request'[r]) \/ Owing(request[r]) = Owing(request'[r])
      PROVE  \A q \in Requests : Excused(request'[q]) \/ owed'[q] = Owing(request'[q])
  <2>1. owed' = [owed EXCEPT ![r] = owed[r]]
    BY <1>1, <1>5
  <2>2. owed[r] = Owing(request[r])
    BY <1>2, <1>5 DEF Excused
  <2> QED  BY <1>1, <1>4, <1>5, <2>1, <2>2
<1>6. ASSUME NEW r \in Requests, Start(r)
      PROVE  \A q \in Requests : Excused(request'[q]) \/ owed'[q] = Owing(request'[q])
  <2>1. Moves(r) /\ Owing(request'[r]) = 0
    BY <1>6, Begins, EveryStepMoves DEF Owing
  <2>2. owed' = [owed EXCEPT ![r] = 0] /\ 0 \in Int
    BY <1>6 DEF Start
  <2> QED  BY <1>4, <2>1, <2>2
<1>7. ASSUME NEW r \in Requests, NEW model, NEW held, Report(r, model, held), Moves(r),
             Owing(request[r]) = 1, Owing(request'[r]) = 0
      PROVE  \A q \in Requests : Excused(request'[q]) \/ owed'[q] = Owing(request'[q])
  <2>1. owed' = [owed EXCEPT ![r] = owed[r] - 1]
    BY <1>7 DEF Report
  <2>2. owed[r] = 1
    BY <1>2, <1>7 DEF Owing, Excused
  <2>3. owed[r] - 1 \in Int /\ owed[r] - 1 = 0
    BY <2>2
  <2> QED  BY <1>4, <1>7, <2>1, <2>3
<1>8. ASSUME NEW r \in Requests, Lock(r) \/ RequestStep(r) \/ ChunkFails(r)
      PROVE  \A q \in Requests : Excused(request'[q]) \/ owed'[q] = Owing(request'[q])
  <2>0. Moves(r)
    BY <1>8, EveryStepMoves
  <2>1. CASE \/ PickFails(r) \/ SnapshotAuths(r) \/ Rebuild(r) \/ SecondPickFails(r)
             \/ PickLegacyFails(r) \/ LimitReached(r)
             \/ Lock(r) \/ Prepared(r) \/ Unlock(r) \/ PrepareFails(r) \/ ReportUnprepared(r)
             \/ StreamOpens(r) \/ FirstPayload(r)
    <3>1. UNCHANGED owed
      BY <2>1 DEF PickFails, SnapshotAuths, Rebuild, SecondPickFails, PickLegacyFails, LimitReached,
                  Lock, Prepared, Unlock, PrepareFails, ReportUnprepared, StreamOpens, FirstPayload
    <3>2. request[r].pc # "idle" /\ Owing(request[r]) = Owing(request'[r])
      BY <1>3, <2>1, Continues DEF GoesFrom, Same, Owing
    <3> QED  BY <1>5, <2>0, <3>1, <3>2
  <2>2. CASE Pick(r) \/ PickLegacy(r) \/ NextRound(r)
    <3>1. UNCHANGED owed
      BY <2>2 DEF Pick, PickLegacy, NextRound
    <3>2. request[r].pc # "idle" /\ Owing(request[r]) = Owing(request'[r])
      <4>1. CASE Pick(r) \/ PickLegacy(r)
        BY <4>1, PickLands DEF Picks, Owing
      <4>2. CASE NextRound(r)
        <5>1. request[r].pc = "wait"
          BY <4>2 DEF NextRound, Step
        <5> QED  BY <4>2, <5>1, Begins DEF Owing
      <4> QED  BY <2>2, <4>1, <4>2
    <3> QED  BY <1>5, <2>0, <3>1, <3>2
  <2>3. CASE Decide(r)
    <3>1. UNCHANGED owed
      BY <2>3 DEF Decide
    <3>2. request[r].pc # "idle" /\ Owing(request[r]) = Owing(request'[r])
      BY <2>3, EndsOrContinues DEF Over, GoesFrom, Owing
    <3> QED  BY <1>5, <2>0, <3>1, <3>2
  <2>4. CASE Call(r)
    <3>1. owed' = [owed EXCEPT ![r] = owed[r] + 1]
      BY <2>4 DEF Call
    <3>2. GoesFrom(r, "call", {"called"})
      BY <2>4, Continues
    <3>3. owed[r] = 0 /\ Owing(request'[r]) = 1
      BY <1>2, <3>2 DEF GoesFrom, Owing, Excused
    <3>4. owed[r] + 1 \in Int /\ owed[r] + 1 = 1
      BY <3>3
    <3> QED  BY <1>4, <2>0, <3>1, <3>3, <3>4
  <2>5. CASE FailsCancelled(r) \/ StreamLeft(r) \/ WaitCancelled(r)
    <3>1. UNCHANGED owed /\ request[r].cancelled
      BY <2>5 DEF FailsCancelled, StreamLeft, WaitCancelled
    <3>2. PICK from \in {"called", "bootstrap", "stream", "wait"} : Step(r, from, Ended(request[r]))
      BY <2>5 DEF FailsCancelled, StreamLeft, WaitCancelled
    <3>3. request[r].pc # "idle" /\ Excused(request'[r])
      BY <3>1, <3>2, Finishes DEF Over, Excused
    <3> QED  BY <1>5, <2>0, <3>1, <3>3
  <2>6. CASE Succeeds(r)
    <3>1. Step(r, "called", Ended(request[r])) /\ Report(r, CalledModel(r), 0)
      BY <2>6 DEF Succeeds
    <3>2. Owing(request[r]) = 1 /\ Owing(request'[r]) = 0
      BY <3>1, Finishes DEF Over, Owing
    <3> QED  BY <1>7, <2>0, <3>1, <3>2
  <2>7. CASE StreamEnds(r)
    <3>1. Step(r, "stream", Ended(request[r]))
      BY <2>7 DEF StreamEnds
    <3>2. request[r].pc = "stream" /\ Owing(request'[r]) = 0
      BY <3>1, Finishes DEF Over, Owing
    <3>3. CASE request[r].failed
      <4>1. UNCHANGED owed /\ Owing(request[r]) = 0
        BY <2>7, <3>2, <3>3 DEF StreamEnds, Owing
      <4> QED  BY <1>5, <2>0, <3>2, <4>1
    <3>4. CASE ~request[r].failed
      <4>1. Report(r, CalledModel(r), 0) /\ Owing(request[r]) = 1
        BY <2>7, <3>2, <3>4 DEF StreamEnds, Owing
      <4> QED  BY <1>7, <2>0, <3>2, <4>1
    <3> QED  BY <3>3, <3>4
  <2>8. CASE Fails(r)
    <3>1. \E held : Report(r, CalledModel(r), held)
      BY <2>8 DEF Fails
    <3>2. Owing(request[r]) = 1 /\ Owing(request'[r]) = 0
      BY <2>8, EndsOrContinues DEF Over, GoesFrom, Owing
    <3> QED  BY <1>7, <2>0, <3>1, <3>2
  <2>9. CASE EmptyStream(r)
    <3>1. Report(r, CalledModel(r), 0)
      BY <2>9 DEF EmptyStream
    <3>2. Owing(request[r]) = 1 /\ Owing(request'[r]) = 0
      BY <2>9, Continues DEF GoesFrom, Owing
    <3> QED  BY <1>7, <2>0, <3>1, <3>2
  <2>10. CASE ChunkFails(r)
    <3>1. \E held : Report(r, CalledModel(r), held)
      BY <2>10 DEF ChunkFails
    <3>2. Owing(request[r]) = 1 /\ Owing(request'[r]) = 0
      BY <2>10, ChunkLands DEF Owing
    <3> QED  BY <1>7, <2>0, <3>1, <3>2
  <2> QED  BY <1>8, <2>1, <2>2, <2>3, <2>4, <2>5, <2>6, <2>7, <2>8, <2>9, <2>10 DEF RequestStep
<1>9. ASSUME NEW r \in Requests, Cancel(r)
      PROVE  \A q \in Requests : Excused(request'[q]) \/ owed'[q] = Owing(request'[q])
  <2>1. UNCHANGED owed
    BY <1>9 DEF Cancel
  <2>2. ASSUME NEW q \in Requests PROVE Excused(request'[q]) \/ owed'[q] = Owing(request'[q])
    <3>1. Owing(request'[q]) = Owing(request[q])
      BY <1>9, CancelKeeps DEF Owing
    <3>2. Excused(request[q]) => Excused(request'[q])
      BY <1>9, CancelKeeps DEF Excused
    <3> QED  BY <1>2, <2>1, <3>1, <3>2
  <2> QED  BY <2>2
<1>10. ASSUME UNCHANGED <<request, owed>>
       PROVE  \A q \in Requests : Excused(request'[q]) \/ owed'[q] = Owing(request'[q])
  BY <1>2, <1>10
<1>11. ASSUME Tick
       PROVE  \A q \in Requests : Excused(request'[q]) \/ owed'[q] = Owing(request'[q])
  <2>1. UNCHANGED owed
    BY <1>11 DEF Tick
  <2>2. ASSUME NEW q \in Requests
        PROVE  Owing(request'[q]) = Owing(request[q]) /\ Excused(request'[q]) = Excused(request[q])
    BY <1>11, TickKeeps DEF Owing, Excused
  <2> QED  BY <1>2, <2>1, <2>2
<1>12. ASSUME NEW t \in Threads, Publish(t) PROVE UNCHANGED <<request, owed>>
  BY <1>12 DEF Publish
<1> QED  BY <1>6, <1>8, <1>9, <1>10, <1>11, <1>12, WorkersStandAside DEF Action

(***************************************************************************)
(* What a round leaves out                                                 *)
(***************************************************************************)

\* Nothing new is tried, or a round begins or is over, or it is a pick, or the end of one.
Stands(s, t) ==
    \/ t.pc \in Between
    \/ s.pc \in Between /\ t.pc = "pick" /\ t.tried = {}
    \/ /\ s.pc \notin Between /\ t.tried = s.tried /\ t.attempted = s.attempted
       /\ t.pc \in {"decide", "again"} => t.pc = s.pc

LEMMA StandsOrPicks ==
    ASSUME IInv, Action, NEW q \in Requests
    PROVE  \/ Stands(request[q], request'[q])
           \/ Pick(q) \/ PickLegacy(q) \/ Rebuild(q)
           \/ SecondPickFails(q) \/ PickLegacyFails(q) \/ LimitReached(q)
<1>1. ASSUME NEW r \in Requests, q # r, Moves(r) PROVE request'[q] = request[q]
  BY <1>1, OneMoves DEF Moves
<1>2. request'[q] = request[q] => Stands(request[q], request'[q])
  BY DEF Stands
<1>3. CASE Start(q) \/ Lock(q) \/ RequestStep(q) \/ ChunkFails(q)
  <2>1. CASE Start(q) \/ NextRound(q)
    <3>1. request[q].pc \in Between
      BY <2>1, Begins DEF Between
    <3> QED  BY <2>1, <3>1, Begins DEF Stands
  <2>2. CASE \/ PickFails(q) \/ SnapshotAuths(q) \/ Lock(q) \/ Prepared(q) \/ Unlock(q)
             \/ PrepareFails(q) \/ ReportUnprepared(q) \/ Call(q)
             \/ StreamOpens(q) \/ FirstPayload(q) \/ EmptyStream(q)
    BY <2>2, Continues DEF GoesFrom, Same, Stands, Between
  <2>3. CASE Decide(q) \/ Fails(q)
    BY <2>3, EndsOrContinues DEF GoesFrom, Over, Same, Stands, Between
  <2>4. CASE \/ Succeeds(q) \/ FailsCancelled(q) \/ StreamEnds(q) \/ StreamLeft(q)
             \/ WaitCancelled(q)
    <3>1. \E from : Step(q, from, Ended(request[q]))
      BY <2>4 DEF Succeeds, FailsCancelled, StreamEnds, StreamLeft, WaitCancelled
    <3> QED  BY <3>1, Finishes DEF Over, Stands, Between
  <2>5. CASE ChunkFails(q)
    BY <2>5, ChunkLands DEF Stands, Between
  <2> QED  BY <1>3, <2>1, <2>2, <2>3, <2>4, <2>5 DEF RequestStep
<1>4. ASSUME NEW r \in Requests, Cancel(r) PROVE Stands(request[q], request'[q])
  BY <1>4, CancelKeeps DEF Stands
<1>5. CASE Tick
  BY <1>5, TickKeeps DEF Stands
<1>6. ASSUME NEW t \in Threads, Publish(t) PROVE UNCHANGED request
  BY <1>6 DEF Publish
<1> QED  BY <1>1, <1>2, <1>3, <1>4, <1>5, <1>6, EveryStepMoves, WorkersStandAside DEF Action

LEMMA ObserveSays ==
    ASSUME Observe, NEW q \in Requests
    PROVE  /\ passed' \in [Requests -> SUBSET (Usable')]
           /\ passed'[q] \cap request'[q].attempted = {}
           /\ request'[q].pc \in Between => passed'[q] = {}
           /\ request[q].pc \notin Between => passed'[q] \subseteq passed[q]
  BY DEF Observe, Watch, Between

\* The scheduler's copy of a credential that stays usable stays ready.
LEMMA StaysReady ==
    ASSUME IInv, Action, NEW a \in Usable, Ready(scheduler[a])
    PROVE  Ready(scheduler'[a])
<1>1. a \in Auths /\ Serves(a, record[a]) /\ \A copy \in OnTheWay(a) : Ready(copy)
  BY DEF Usable, Serves
<1>2. CASE UNCHANGED scheduler
  BY <1>2
<1>3. ASSUME NEW r \in Requests, Rebuild(r) PROVE Ready(scheduler'[a])
  <2>1. shots[r][a] \in OnTheWay(a)
    BY <1>1, <1>3 DEF OnTheWay, Rebuild, Step
  <2> QED  BY <1>1, <1>3, <2>1 DEF Rebuild
<1>4. ASSUME NEW t \in Threads, Publish(t) PROVE Ready(scheduler'[a])
  <2>1. scheduler' = [scheduler EXCEPT ![late[t].auth] = late[t].copy]
    BY <1>4 DEF Publish
  <2>2. CASE late[t].auth = a
    <3>1. late[t].copy \in OnTheWay(a)
      BY <2>2 DEF OnTheWay
    <3>2. scheduler'[a] = late[t].copy
      BY <1>1, <2>1, <2>2, Types
    <3> QED  BY <1>1, <3>1, <3>2
  <2>3. CASE late[t].auth # a
    BY <1>1, <2>1, <2>3, Types
  <2> QED  BY <2>2, <2>3
<1>5. ASSUME NEW w \in Workers, RefreshFails(w) PROVE Ready(scheduler'[a])
  <2>1. CASE scheduler' = [scheduler EXCEPT ![taken[w].auth] = record[taken[w].auth]]
    BY <1>1, <2>1, Types DEF Serves
  <2> QED  BY <1>5, <2>1 DEF RefreshFails
<1>6. CASE Tick
  <2>1. scheduler'[a] = Older(scheduler[a]) /\ scheduler[a] \in Copy
    BY <1>1, <1>6, Types DEF Tick
  <2> QED  BY <2>1, CopiesAge
<1>7. ASSUME NEW r \in Requests, NEW b, NEW model, NEW held, MarkResult(r, b, model, held)
      PROVE  UNCHANGED scheduler
  BY <1>7 DEF MarkResult
<1>8. ASSUME NEW r \in Requests,
             Start(r) \/ Lock(r) \/ RequestStep(r) \/ ChunkFails(r) \/ Cancel(r)
      PROVE  UNCHANGED scheduler \/ Rebuild(r)
  BY <1>7, <1>8, StepKinds DEF Quiet, Marks, SnapshotAuths, Lock, Prepared, Unlock, PrepareFails,
                               schedulerVars
<1>9. ASSUME NEW w \in Workers,
             \/ TakeCopy(w) \/ RefreshSucceeds(w) \/ Replace(w)
             \/ ReconcileRegistryModelStates(w) \/ RefreshSchedulerEntry(w)
      PROVE  UNCHANGED scheduler
  BY <1>9 DEF TakeCopy, RefreshSucceeds, Replace, RefreshSchedulerEntry, WriteBack,
              ReconcileRegistryModelStates, schedulerVars
<1> QED  BY <1>2, <1>3, <1>4, <1>5, <1>6, <1>8, <1>9 DEF Action

LEMMA PassedStep ==
    ASSUME IInv, Action, Observe, NEW q \in Requests
    PROVE  /\ passed'[q] \cap request'[q].tried = {}
           /\ request'[q].pc = "again" => \A a \in passed'[q] : Ready(scheduler'[a])
           /\ request'[q].pc = "decide" =>
                \/ Limit > 0 /\ Cardinality(request'[q].attempted) >= Limit
                \/ passed'[q] = {}
<1> DEFINE s == request[q]  t == request'[q]
           Result == /\ passed'[q] \cap t.tried = {}
                     /\ t.pc = "again" => \A a \in passed'[q] : Ready(scheduler'[a])
                     /\ t.pc = "decide" =>
                          \/ Limit > 0 /\ Cardinality(t.attempted) >= Limit
                          \/ passed'[q] = {}
<1>1. /\ passed[q] \subseteq Usable
      /\ passed[q] \cap s.tried = {}
      /\ s.pc = "again" => \A a \in passed[q] : Ready(scheduler[a])
  BY DEF IInv, PassedIsNew
<1>2. s.pc = "decide" => \/ Limit > 0 /\ Cardinality(s.attempted) >= Limit
                         \/ passed[q] = {}
  BY DEF IInv, UsableIsTried
<1>3. passed'[q] \subseteq Usable' /\ passed'[q] \subseteq Auths
  BY ObserveSays DEF Usable
<1>4. ASSUME Stands(s, t) PROVE Result
  <2>1. CASE t.pc \in Between
    BY <2>1, ObserveSays DEF Between
  <2>2. CASE s.pc \in Between /\ t.pc = "pick" /\ t.tried = {}
    BY <2>2
  <2>3. CASE /\ s.pc \notin Between /\ t.tried = s.tried /\ t.attempted = s.attempted
             /\ t.pc \in {"decide", "again"} => t.pc = s.pc
    <3>1. passed'[q] \subseteq passed[q]
      BY <2>3, ObserveSays
    <3>2. t.pc = "again" => \A a \in passed'[q] : Ready(scheduler'[a])
      BY <1>1, <2>3, <3>1, StaysReady
    <3> QED  BY <1>1, <1>2, <2>3, <3>1, <3>2
  <2> QED  BY <1>4, <2>1, <2>2, <2>3 DEF Stands
<1>5. ASSUME NEW copies, Picks(q, copies),
             \A a \in passed'[q] : Ready(copies[a]) => Serves(a, copies[a])
      PROVE  Result
  <2>1. PICK a \in Auths :
            /\ s.pc \in {"pick", "again"} /\ t.pc \in {"pick", "call", "lock"}
            /\ t.tried = s.tried \cup {a}
            /\ Ready(copies[a])
            /\ Serves(a, copies[a]) => a \in t.attempted
    BY <1>5 DEF Picks
  <2>2. passed'[q] \subseteq passed[q]
    BY <2>1, ObserveSays DEF Between
  <2>3. a \notin passed'[q]
    BY <1>5, <2>1, ObserveSays
  <2> QED  BY <1>1, <2>1, <2>2, <2>3
<1>6. ASSUME Pick(q) PROVE Result
  <2>1. scheduler' = scheduler
    BY <1>6 DEF Pick, schedulerVars
  <2>2. \A a \in passed'[q] : Ready(scheduler[a]) => Serves(a, scheduler[a])
    BY <1>3, <2>1 DEF Usable
  <2> QED  BY <1>5, <1>6, <2>2, PickLands
<1>7. ASSUME PickLegacy(q) PROVE Result
  <2>1. record' = record
    BY <1>7 DEF PickLegacy, credentialVars
  <2>2. \A a \in passed'[q] : Serves(a, record[a])
    BY <1>3, <2>1 DEF Usable
  <2> QED  BY <1>5, <1>7, <2>2, PickLands
<1>8. ASSUME NEW from \in {"pick", "rebuild", "again"}, NEW pc \in {"again", "decide"},
             GoesFrom(q, from, {pc})
      PROVE  /\ passed'[q] \subseteq passed[q] /\ t.pc = pc /\ t.attempted = s.attempted
             /\ t.tried = s.tried /\ passed'[q] \cap t.tried = {}
  <2>1. s.pc = from /\ t.pc = pc /\ t.tried = s.tried /\ t.attempted = s.attempted
    BY <1>8 DEF GoesFrom, Same
  <2>2. passed'[q] \subseteq passed[q]
    BY <2>1, ObserveSays DEF Between
  <2> QED  BY <1>1, <2>1, <2>2
<1>9. ASSUME Rebuild(q) PROVE Result
  <2>1. /\ passed'[q] \subseteq passed[q] /\ t.pc = "again" /\ passed'[q] \cap t.tried = {}
    BY <1>8, <1>9, Continues
  <2>2. ASSUME NEW a \in passed'[q] PROVE Ready(scheduler'[a])
    <3>1. a \in Usable /\ shots[q][a] \in OnTheWay(a)
      BY <1>1, <1>9, <2>1 DEF OnTheWay, Rebuild, Step
    <3> QED  BY <1>9, <3>1 DEF Usable, Serves, Rebuild
  <2> QED  BY <2>1, <2>2
<1>10. ASSUME SecondPickFails(q) PROVE Result
  <2>1. /\ passed'[q] \subseteq passed[q] /\ t.pc = "decide" /\ t.tried = s.tried
        /\ passed'[q] \cap t.tried = {}
    BY <1>8, <1>10, Continues
  <2>2. s.pc = "again" /\ \A a \in Auths \ s.tried : ~Ready(scheduler[a])
    BY <1>10 DEF SecondPickFails, NothingToPick, Step
  <2> QED  BY <1>1, <1>3, <2>1, <2>2
<1>11. ASSUME PickLegacyFails(q) PROVE Result
  <2>1. /\ passed'[q] \subseteq passed[q] /\ t.pc = "decide" /\ t.tried = s.tried
        /\ passed'[q] \cap t.tried = {}
    BY <1>8, <1>11, Continues
  <2>2. record' = record /\ \A a \in Auths \ s.tried : ~Ready(record[a])
    BY <1>11 DEF PickLegacyFails, NothingToPick, credentialVars
  <2>3. \A a \in passed'[q] : Ready(record[a])
    BY <1>3, <2>2 DEF Usable, Serves
  <2> QED  BY <1>3, <2>1, <2>2, <2>3
<1>12. ASSUME LimitReached(q) PROVE Result
  <2>1. t.pc = "decide" /\ t.attempted = s.attempted /\ passed'[q] \cap t.tried = {}
    BY <1>8, <1>12, Continues
  <2>2. AtLimit(s)
    BY <1>12 DEF LimitReached
  <2> QED  BY <2>1, <2>2 DEF AtLimit
<1> QED  BY <1>4, <1>6, <1>7, <1>9, <1>10, <1>11, <1>12, StandsOrPicks

(***************************************************************************)
(* Theorems                                                                *)
(***************************************************************************)

LEMMA Initially == Init => IInv
<1> SUFFICES ASSUME Init PROVE IInv
  OBVIOUS
<1>1. Idle \in State /\ Loaded \in [Auths -> Copy]
  BY IdleIsSound, NothingSays DEF Loaded, NoCopy, Copy, Sound
<1>2. TypeOK
  BY <1>1, NothingSays DEF Init, Still, TypeOK
<1>3. Records
  BY IdleIsSound DEF Init, Records
<1>4. Locking /\ SettledIsPrepared
  BY LoopAssumption DEF Init, Still, Locking, SettledIsPrepared, Idle, Preparing
<1>5. ReportedOnce
  BY DEF Init, Still, ReportedOnce, Idle
<1>6. PassedIsNew /\ UsableIsTried
  BY DEF Init, Still, PassedIsNew, UsableIsTried, Idle
<1> QED  BY <1>2, <1>3, <1>4, <1>5, <1>6 DEF IInv

LEMMA Inductive == IInv /\ [Next]_vars => IInv'
<1> SUFFICES ASSUME IInv, [Next]_vars PROVE IInv'
  OBVIOUS
<1>1. CASE Action /\ Observe
  <2>1. \A r \in Requests : passed'[r] \in SUBSET Auths
    <3>1. Usable' \subseteq Auths
      BY DEF Usable
    <3> QED  BY <1>1, <3>1, ObserveSays
  <2>2. passed' \in [Requests -> SUBSET Auths]
    BY <1>1, <2>1 DEF Observe, Watch
  <2>3. TypeOK'
    BY <1>1, <2>2, SharedStep, OwedTyped, RecordsStep DEF TypeOK, SharedTyped
  <2>4. Records' /\ Locking' /\ SettledIsPrepared'
    BY <1>1, RecordsStep, LockingStep, SharedStep
  <2>5. ReportedOnce'
    BY <1>1, ReportedStep DEF ReportedOnce, Owing, Excused
  <2>6. PassedIsNew' /\ UsableIsTried'
    BY <1>1, PassedStep, ObserveSays DEF PassedIsNew, UsableIsTried
  <2> QED  BY <2>3, <2>4, <2>5, <2>6 DEF IInv
<1>2. CASE UNCHANGED vars
  BY <1>2 DEF vars, credentialVars, schedulerVars, IInv, TypeOK, Records, Sound, MayRetry, Locking,
              SettledIsPrepared, ReportedOnce, PassedIsNew, UsableIsTried, Usable, OnTheWay
<1> QED  BY <1>1, <1>2 DEF Next

\* The inductive invariant of requests, locks and reports.
THEOREM Invariance == Spec => []IInv
<1> QED  BY Initially, Inductive, PTL DEF Spec

\* Every variable keeps its type.
THEOREM TypeCorrect == Spec => []TypeOK
<1>1. IInv => TypeOK
  BY DEF IInv
<1> QED  BY Invariance, <1>1, PTL

\* A round gives up only when every credential that its record and the snapshots on their
\* way call usable all through it has been attempted, or the limit is reached: a copy the
\* scheduler kept from an older snapshot hides nobody, for the second pick follows a
\* rebuild that no snapshot on its way takes back.
THEOREM NobodyIsPassedOver == Spec => []UsableIsTried
<1>1. IInv => UsableIsTried
  BY DEF IInv
<1> QED  BY Invariance, <1>1, PTL

\* prepareRequestAuth prepares a credential for one request at a time, and again only when
\* a refresh or an update has written the record since: who waited for the lock does not
\* repeat what the request before has done.
THEOREM OnePrepares == Spec => []PreparedOnce
<1>1. IInv => PreparedOnce
  <2> SUFFICES ASSUME IInv, NEW r \in Requests, request[r].pc = "prepare"
               PROVE  /\ request[r].id \notin settled
                      /\ \A q \in Requests \ {r} :
                            ~(request[q].pc = "prepare" /\ request[q].id = request[r].id)
    BY DEF PreparedOnce
  <2>1. request[r].id \in Auths
    BY Typing DEF Sound, InHand
  <2> QED  BY <2>1 DEF IInv, Locking, Preparing
<1> QED  BY Invariance, <1>1, PTL

\* Every call upstream is reported once, unless its client has gone.
THEOREM CallsAreReported == Spec => []ReportedOnce
<1>1. IInv => ReportedOnce
  BY DEF IInv
<1> QED  BY Invariance, <1>1, PTL

\* No request goes on without end: each step ends it or comes closer to its end.
THEOREM RequestsEnd == Spec => StepsRunOut
<1>1. IInv /\ [Next]_vars =>
        [\A r \in Requests : request[r].pc # "idle" => Closer(request[r], request'[r])]_vars
  <2> SUFFICES ASSUME IInv, Next
               PROVE  \A r \in Requests : request[r].pc # "idle" => Closer(request[r], request'[r])
    OBVIOUS
  <2> QED  BY RecordsStep DEF Next
<1> QED  BY Invariance, <1>1, PTL DEF Spec, StepsRunOut
=============================================================================
