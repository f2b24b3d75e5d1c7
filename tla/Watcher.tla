------------------------------- MODULE Watcher -------------------------------
(***************************************************************************)
(* internal/watcher for credential files: fsnotify events are handled one  *)
(* by one (processEvents), configuration reloads run on goroutines of      *)
(* their own, and both turn what they read into updates that a dispatcher  *)
(* coalesces per credential and sends to the service over a bounded        *)
(* channel.  Files change while all of that runs; what is read from a file *)
(* before clientsMutex is taken, and what is dispatched after it is let    *)
(* go, may be old.                                                         *)
(*                                                                         *)
(* A file holds one credential, and a version stands for its content.  A   *)
(* file that is being rewritten is empty for a while; content that does    *)
(* not parse is treated like an empty file.                                *)
(***************************************************************************)
EXTENDS Naturals, Sequences, FiniteSets

CONSTANTS
    Files,       \* credential files
    Versions,    \* contents they may have
    Reloaders,   \* concurrent runs of reloadClients
    QueueCap,    \* capacity of the service's channel, 256
    MaxChanges,  \* bound: changes on disk
    MaxReloads   \* bound: reloads

WatcherSetting ==
    /\ Files # {}
    /\ "absent" \notin Versions /\ "empty" \notin Versions /\ "none" \notin Versions
    /\ QueueCap \in Nat \ {0}
    /\ MaxChanges \in Nat
    /\ MaxReloads \in Nat

ASSUME WatcherAssumption == WatcherSetting

VARIABLES
    disk,           \* the files
    events,         \* the fsnotify events that wait to be handled
    hashes,         \* lastAuthHashes; "none" for an unknown file
    current,        \* currentAuths
    recent,         \* files with a remove inside the debounce window
    handler,        \* processEvents
    reloader,       \* the reloads
    pendingUpdates, \* what to do with each credential
    batch,          \* the dispatcher's batch, as far as it is not sent
    queue,          \* the service's channel
    applied,        \* what the service has
    changes,        \* changes on disk so far
    reloads         \* reloads so far

diskVars == <<disk, events, changes>>
clientVars == <<hashes, current, recent>>
sendVars == <<batch, queue, applied>>
watcherVars == <<diskVars, clientVars, handler, reloader, pendingUpdates, sendVars, reloads>>

Contents == Versions \cup {"absent", "empty"}
Credentials == Versions \cup {"absent"}     \* "absent": none, or delete it
Updates == [Files -> Credentials \cup {"none"}]
NoUpdate == [f \in Files |-> "none"]
Nothing == [f \in Files |-> "absent"]

Handling == [pc : {"idle", "check", "read", "update", "debounce", "settle", "remove", "dispatch"},
             file : Files, data : Contents, out : Updates]
Reloading == [pc : {"off", "idle", "rescan", "snapshot", "prepare", "dispatch"},
              force : BOOLEAN, snapshot : [Files -> Credentials], out : Updates]

IdleReloader == [pc |-> "idle", force |-> FALSE, snapshot |-> Nothing, out |-> NoUpdate]
NoReloader == [IdleReloader EXCEPT !.pc = "off"]

WatcherTypeOK ==
    /\ disk \in [Files -> Contents]
    /\ events \in Seq(Files \X {"write", "remove"})
    /\ hashes \in [Files -> Versions \cup {"none"}]
    /\ current \in [Files -> Credentials]
    /\ recent \in SUBSET Files
    /\ handler \in Handling
    /\ reloader \in [Reloaders -> Reloading]
    /\ pendingUpdates \in Updates
    /\ batch \in Updates
    /\ queue \in Seq(Files \X Credentials) /\ Len(queue) <= QueueCap
    /\ applied \in [Files -> Credentials]
    /\ changes \in 0..MaxChanges
    /\ reloads \in 0..MaxReloads

\* The credential a content yields.
Valid(content) == IF content \in Versions THEN content ELSE "absent"

\* A watcher that has finished its start. There are runs of it with and without reloads.
WatcherInit ==
    /\ disk \in [Files -> Versions \cup {"absent"}]
    /\ events = <<>>
    /\ hashes = [f \in Files |-> IF disk[f] = "absent" THEN "none" ELSE disk[f]]
    /\ current = disk
    /\ recent = {}
    /\ handler = [pc |-> "idle", file |-> CHOOSE f \in Files : TRUE, data |-> "absent",
                  out |-> NoUpdate]
    /\ reloader \in [Reloaders -> {IdleReloader, NoReloader}]
    /\ pendingUpdates = NoUpdate
    /\ batch = NoUpdate
    /\ queue = <<>>
    /\ applied = disk
    /\ changes = 0
    /\ reloads = 0

(***************************************************************************)
(* The file system, and time.                                              *)
(***************************************************************************)

Change(f, content, op) ==
    /\ changes < MaxChanges
    /\ changes' = changes + 1
    /\ disk' = [disk EXCEPT ![f] = content]
    /\ events' = Append(events, <<f, op>>)
    /\ UNCHANGED <<clientVars, handler, reloader, pendingUpdates, sendVars, reloads>>

WriteFile(f, content) == content # "absent" /\ Change(f, content, "write")
RemoveFile(f) == disk[f] # "absent" /\ Change(f, "absent", "remove")

\* authRemoveDebounceWindow passes.
WindowEnds(f) ==
    /\ f \in recent
    /\ recent' = recent \ {f}
    /\ UNCHANGED <<diskVars, hashes, current, handler, reloader, pendingUpdates, sendVars, reloads>>

(***************************************************************************)
(* Dispatching: dispatchAuthUpdates, the dispatch loop, the service.       *)
(***************************************************************************)

\* Wrong forms, each next to the definition it distorts: a property that still
\* holds with one of them in place says nothing about the code.
MergeKeepsFirst(out) ==
    pendingUpdates' = [f \in Files |-> IF pendingUpdates[f] = "none" THEN out[f] ELSE pendingUpdates[f]]

\* A later update of a credential takes the place of one that was not sent yet.
Merge(out) == pendingUpdates' = [f \in Files |-> IF out[f] = "none" THEN pendingUpdates[f] ELSE out[f]]

NextBatch ==
    /\ batch = NoUpdate
    /\ pendingUpdates # NoUpdate
    /\ batch' = pendingUpdates
    /\ pendingUpdates' = NoUpdate
    /\ UNCHANGED <<diskVars, clientVars, handler, reloader, queue, applied, reloads>>

SendUpdate(f) ==
    /\ batch[f] # "none"
    /\ Len(queue) < QueueCap
    /\ queue' = Append(queue, <<f, batch[f]>>)
    /\ batch' = [batch EXCEPT ![f] = "none"]
    /\ UNCHANGED <<diskVars, clientVars, handler, reloader, pendingUpdates, applied, reloads>>

\* handleAuthUpdate
Apply ==
    /\ queue # <<>>
    /\ applied' = [applied EXCEPT ![Head(queue)[1]] = Head(queue)[2]]
    /\ queue' = Tail(queue)
    /\ UNCHANGED <<diskVars, clientVars, handler, reloader, pendingUpdates, batch, reloads>>

(***************************************************************************)
(* processEvents                                                           *)
(***************************************************************************)

HandlerAt(pc) == handler.pc = pc
File == handler.file
Content == disk[handler.file]
Goto(pc) == handler' = [handler EXCEPT !.pc = pc]

TakeEvent ==
    /\ HandlerAt("idle")
    /\ events # <<>>
    /\ events' = Tail(events)
    /\ handler' = [handler EXCEPT !.file = Head(events)[1],
                                  !.pc = IF Head(events)[2] = "write" THEN "check" ELSE "debounce"]
    /\ UNCHANGED <<disk, changes, clientVars, reloader, pendingUpdates, sendVars, reloads>>

\* authFileUnchanged
CheckUnchanged ==
    /\ HandlerAt("check")
    /\ Goto(IF Content \in Versions /\ hashes[File] = Content THEN "idle" ELSE "read")
    /\ UNCHANGED <<diskVars, clientVars, reloader, pendingUpdates, sendVars, reloads>>

\* addOrUpdateClient reads the file once more ...
ReadFile ==
    /\ HandlerAt("read")
    /\ handler' = [handler EXCEPT !.data = Content,
                                  !.pc = IF Content \in Versions THEN "update" ELSE "idle"]
    /\ UNCHANGED <<diskVars, clientVars, reloader, pendingUpdates, sendVars, reloads>>

\* ... and compares under the lock.
UpdateClient ==
    /\ HandlerAt("update")
    /\ IF hashes[File] = handler.data
       THEN /\ Goto("idle")
            /\ UNCHANGED <<hashes, current>>
       ELSE /\ hashes' = [hashes EXCEPT ![File] = handler.data]
            /\ current' = [current EXCEPT ![File] = handler.data]
            /\ handler' = IF current[File] = handler.data
                          THEN [handler EXCEPT !.pc = "idle"]
                          ELSE [handler EXCEPT !.pc = "dispatch", !.out[File] = handler.data]
    /\ UNCHANGED <<diskVars, recent, reloader, pendingUpdates, sendVars, reloads>>

\* shouldDebounceRemove: a second remove inside the window is dropped.
DebounceRemove ==
    /\ HandlerAt("debounce")
    /\ Goto(IF File \in recent THEN "idle" ELSE "settle")
    /\ recent' = recent \cup {File}
    /\ UNCHANGED <<diskVars, hashes, current, reloader, pendingUpdates, sendVars, reloads>>

\* After replaceCheckDelay: the file is back, or was never known, or is removed.
SettleRemove ==
    /\ HandlerAt("settle")
    /\ Goto(CASE Content # "absent" -> "check"
              [] Content = "absent" /\ hashes[File] = "none" -> "idle"
              [] OTHER -> "remove")
    /\ UNCHANGED <<diskVars, clientVars, reloader, pendingUpdates, sendVars, reloads>>

RemoveClientKeepsHash ==
    /\ HandlerAt("remove")
    /\ current' = [current EXCEPT ![File] = "absent"]
    /\ handler' = [handler EXCEPT !.pc = "dispatch", !.out[File] = "absent"]
    /\ UNCHANGED <<diskVars, hashes, recent, reloader, pendingUpdates, sendVars, reloads>>

RemoveClient ==
    /\ HandlerAt("remove")
    /\ hashes' = [hashes EXCEPT ![File] = "none"]
    /\ current' = [current EXCEPT ![File] = "absent"]
    /\ handler' = [handler EXCEPT !.pc = "dispatch", !.out[File] = "absent"]
    /\ UNCHANGED <<diskVars, recent, reloader, pendingUpdates, sendVars, reloads>>

DispatchHandled ==
    /\ HandlerAt("dispatch")
    /\ Merge(handler.out)
    /\ handler' = [handler EXCEPT !.pc = "idle", !.out = NoUpdate]
    /\ UNCHANGED <<diskVars, clientVars, reloader, sendVars, reloads>>

Handle == \/ TakeEvent \/ CheckUnchanged \/ ReadFile \/ UpdateClient
          \/ DebounceRemove \/ SettleRemove \/ RemoveClient \/ DispatchHandled

(***************************************************************************)
(* reloadClients and refreshAuthState                                      *)
(***************************************************************************)

In(l, pc) == reloader[l].pc = pc

\* A change of the excluded models first drops the provider's credentials from the
\* snapshot; a change of the credential directory has it read again.
BeginReload(l, force, drop, rescan) ==
    /\ In(l, "idle")
    /\ reloads < MaxReloads
    /\ reloads' = reloads + 1
    /\ current' = IF drop THEN Nothing ELSE current
    /\ reloader' = [reloader EXCEPT ![l].pc = IF rescan THEN "rescan" ELSE "snapshot",
                                    ![l].force = force]
    /\ UNCHANGED <<diskVars, hashes, recent, handler, pendingUpdates, sendVars>>

Rescan(l) ==
    /\ In(l, "rescan")
    /\ hashes' = [f \in Files |-> IF disk[f] \in Versions THEN disk[f] ELSE "none"]
    /\ reloader' = [reloader EXCEPT ![l].pc = "snapshot"]
    /\ UNCHANGED <<diskVars, current, recent, handler, pendingUpdates, sendVars, reloads>>

\* snapshotCoreAuths reads every file, without the lock.
Snapshot(l) ==
    /\ In(l, "snapshot")
    /\ reloader' = [reloader EXCEPT ![l].pc = "prepare",
                                    ![l].snapshot = [f \in Files |-> Valid(disk[f])]]
    /\ UNCHANGED <<diskVars, clientVars, handler, pendingUpdates, sendVars, reloads>>

DifferenceUnforced(old, new, force) ==
    [f \in Files |-> IF new[f] = old[f] THEN "none" ELSE new[f]]

\* prepareAuthUpdatesLocked
Difference(old, new, force) ==
    [f \in Files |-> IF new[f] = old[f] /\ ~(force /\ new[f] # "absent") THEN "none" ELSE new[f]]

Prepare(l) ==
    LET new == reloader[l].snapshot
    IN  /\ In(l, "prepare")
        /\ current' = new
        /\ reloader' = [reloader EXCEPT ![l].pc = "dispatch",
                                        ![l].out = Difference(current, new, reloader[l].force)]
        /\ UNCHANGED <<diskVars, hashes, recent, handler, pendingUpdates, sendVars, reloads>>

DispatchReloaded(l) ==
    /\ In(l, "dispatch")
    /\ Merge(reloader[l].out)
    /\ reloader' = [reloader EXCEPT ![l] = IdleReloader]
    /\ UNCHANGED <<diskVars, clientVars, handler, sendVars, reloads>>

Reload(l) == Rescan(l) \/ Snapshot(l) \/ Prepare(l) \/ DispatchReloaded(l)

Deliver == NextBatch \/ (\E f \in Files : SendUpdate(f)) \/ Apply

WatcherNext ==
    \/ \E f \in Files :
           \/ \E content \in Contents : WriteFile(f, content)
           \/ RemoveFile(f)
           \/ WindowEnds(f)
    \/ Handle
    \/ \E l \in Reloaders :
           \/ Reload(l)
           \/ \E force, drop, rescan \in BOOLEAN : BeginReload(l, force, drop, rescan)
    \/ Deliver

WatcherSpec == WatcherInit /\ [][WatcherNext]_watcherVars

\* Every goroutine that has something to do gets to do it.
WatcherFairness ==
    /\ WF_watcherVars(Handle)
    /\ \A l \in Reloaders : WF_watcherVars(Reload(l))
    /\ WF_watcherVars(Deliver)

WatcherFairSpec == WatcherSpec /\ WatcherFairness

(***************************************************************************)
(* Properties.                                                             *)
(***************************************************************************)

Undisturbed == events = <<>> /\ HandlerAt("idle")
NoReloads == \A l \in Reloaders : In(l, "off")     \* which stays so
Delivered == pendingUpdates = NoUpdate /\ batch = NoUpdate /\ queue = <<>>

\* As long as only file events change the snapshot, coalescing, batching and the full
\* channel lose and reorder nothing: once all is delivered, the service has exactly
\* the credentials of the watcher's snapshot.
DeliveredAgrees == (NoReloads /\ Undisturbed /\ Delivered) => applied = current

\* A file that ends up with some content gets that very content applied, whatever it
\* was before: rewritten, empty for a while, or removed and created again, unless a reload
\* has read an older one.
LastWriteApplied ==
    \A f \in Files, v \in Versions : <>[](NoReloads /\ disk[f] = v) => <>[](applied[f] = v)

\* A forced reload that meets a quiet file system brings every file that is there to
\* the service, even after earlier races have left the two apart.
ForcedReloadRepairs ==
    \A l \in Reloaders, f \in Files :
        (/\ In(l, "snapshot") /\ reloader[l].force
         /\ Undisturbed /\ disk[f] \in Versions
         /\ \A k \in Reloaders \ {l} : In(k, "idle"))
            ~> (applied[f] = disk[f] \/ ~Undisturbed \/ \E k \in Reloaders \ {l} : ~In(k, "idle"))
=============================================================================
