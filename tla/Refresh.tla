---- MODULE Refresh ----
(***************************************************************************)
(* The converter's data plane: the refresh manager's single permit, the    *)
(* operations that run under it (refreshAll, refreshTemplate,              *)
(* reloadSnapshot), the HTTP handlers, the auto-updater and the cache      *)
(* watcher, over the cache files and the in-memory snapshot.               *)
(*                                                                         *)
(* Contents are version numbers: upstream[f] is what the remote serves for *)
(* file f, disk[f] what the cache holds (0: missing or unusable), snap[f]  *)
(* what the current snapshot was built from (0: empty snapshot).  Commit   *)
(* is three steps here (backups, renames, success or rollback); CacheBatch *)
(* models each file operation and shows that there is no other outcome.    *)
(***************************************************************************)
EXTENDS Naturals, Sequences

CONSTANTS
    Templates,     \* the enabled templates
    node,          \* the node file
    Order,         \* node, then the templates in name order: the fetch order
    Requests,      \* HTTP handler goroutines
    updater,       \* the goroutine of the initial fetch and the auto-updates
    watcher,       \* the goroutine of the cache watcher
    MaxVersion,    \* bound: versions the remote publishes
    MaxEdits,      \* bound: external changes of cache files
    RestoreFails   \* BOOLEAN: a rollback may leave files replaced

Files == {node} \cup Templates
Procs == Requests \cup {updater, watcher}
Empty == [f \in Files |-> 0]

ASSUME FilesAssumption ==
    /\ node \notin Templates
    /\ Templates # {}
    /\ Order \in Seq(Files)
    /\ {Order[i] : i \in DOMAIN Order} = Files
    /\ Order[1] = node
ASSUME ProcsAssumption ==
    updater # watcher /\ updater \notin Requests /\ watcher \notin Requests
ASSUME BoundsAssumption ==
    MaxVersion \in Nat \ {0} /\ MaxEdits \in Nat /\ RestoreFails \in BOOLEAN

VARIABLES
    upstream, disk, snap,
    permit,      \* Manager.permit: the channel holds its token
    pc,          \* where each goroutine is
    trigger,     \* why its refresh work runs
    tpl,         \* template a request asks for
    cand,        \* the contents the work has collected
    old,         \* the contents its Commit has backed up
    replaced,    \* the files its Commit has renamed
    cur,         \* position in Order of the fetch loop
    failed,      \* the last Do of the goroutine returned an error
    cancelled,   \* the request's context has ended
    loaded,      \* ensureTemplate's reading of "template is in the snapshot"
    started,     \* newServerFromConfig has returned
    events,      \* watched files with an event not yet reloaded
    missed,      \* history: a file changed unnoticed before the watcher ran
    edits,       \* external changes so far
    status,      \* the answer of each request
    had,         \* history: the snapshot was usable when the request arrived
    want         \* history: what the remote served when a manual refresh arrived

store == <<upstream, disk, snap, started, events, missed, edits>>
request == <<tpl, cancelled, loaded, status, had, want>>
work == <<trigger, cand, old, replaced, cur, failed>>
vars == <<store, permit, pc, work, request>>

Local == MaxVersion + 1        \* contents the remote never served
Versions == 0..Local
Snapshots == [Files -> Versions]
Full == {"initial", "manual", "query", "auto"}   \* triggers that run refreshAll

Working == {"fetch", "read", "stage", "rename", "renamed", "apply", "release"}
Handling == {"ensure", "serve", "answered"}

TypeOK ==
    /\ upstream \in Snapshots /\ disk \in Snapshots /\ snap \in Snapshots
    /\ permit \in BOOLEAN
    /\ pc \in [Procs -> {"idle", "wait", "returned"} \cup Working \cup Handling]
    /\ \A p \in {updater, watcher} : pc[p] \notin Handling
    /\ trigger \in [Procs -> Full \cup {"on-demand", "watcher"}]
    /\ tpl \in [Requests -> Templates]
    /\ cand \in [Procs -> Snapshots] /\ old \in [Procs -> Snapshots]
    /\ replaced \in [Procs -> SUBSET Files]
    /\ cur \in [Procs -> 1..Len(Order) + 1]
    /\ failed \in [Procs -> BOOLEAN]
    /\ cancelled \in [Procs -> BOOLEAN]
    /\ loaded \in [Requests -> BOOLEAN]
    /\ started \in BOOLEAN
    /\ events \in SUBSET Files /\ missed \in BOOLEAN
    /\ edits \in 0..MaxEdits
    /\ status \in [Requests -> {"none", "ok", "bad_request", "not_loaded",
                            "render_error", "refreshed", "refresh_failed"}]
    /\ \A r \in Requests : pc[r] = "answered" <=> status[r] # "none"
    /\ had \in [Requests -> BOOLEAN] /\ want \in [Requests -> Snapshots]

Complete(s) == \A f \in Files : s[f] # 0

\* handler.Init: load the cache if it is complete, else start with an empty snapshot;
\* then initializeData queues the initial refresh before anything else runs.
Init ==
    /\ upstream = [f \in Files |-> 1]
    /\ disk \in [Files -> {0, 1}]
    /\ snap = IF Complete(disk) THEN disk ELSE Empty
    /\ permit = TRUE
    /\ pc = [p \in Procs |-> IF p = updater THEN "wait" ELSE "idle"]
    /\ trigger = [p \in Procs |-> IF p = watcher THEN "watcher" ELSE "initial"]
    /\ tpl = [r \in Requests |-> CHOOSE t \in Templates : TRUE]
    /\ cand = [p \in Procs |-> Empty] /\ old = [p \in Procs |-> Empty]
    /\ replaced = [p \in Procs |-> {}]
    /\ cur = [p \in Procs |-> 1]
    /\ failed = [p \in Procs |-> FALSE]
    /\ cancelled = [p \in Procs |-> FALSE]
    /\ loaded = [r \in Requests |-> FALSE]
    /\ started = FALSE
    /\ events = {} /\ missed = FALSE
    /\ edits = 0
    /\ status = [r \in Requests |-> "none"]
    /\ had = [r \in Requests |-> FALSE] /\ want = [r \in Requests |-> Empty]
----
(* The remote and the cache directory *)

\* The provider publishes a new version of one file.
Publish(f) ==
    /\ upstream[f] < MaxVersion
    /\ upstream' = [upstream EXCEPT ![f] = @ + 1]
    /\ UNCHANGED <<disk, snap, permit, pc, work, request, started, events, missed, edits>>

\* Variant: the templates are not watched.
NotifyNode(fs) == events' = IF started THEN events \cup (fs \cap {node}) ELSE events

\* The watcher, if it runs, is notified that the files in fs changed.
Notify(fs) == events' = IF started THEN events \cup fs ELSE events
Miss(fs) == missed' = (missed \/ (~started /\ fs # {}))

\* Somebody replaces, damages or removes a cache file; a removal is no event.
Edit(f, v, silent) ==
    /\ edits < MaxEdits /\ v # disk[f]
    /\ silent => v = 0
    /\ edits' = edits + 1
    /\ disk' = [disk EXCEPT ![f] = v]
    /\ IF silent THEN UNCHANGED <<events, missed>> ELSE Notify({f}) /\ Miss({f})
    /\ UNCHANGED <<upstream, snap, permit, pc, work, request, started>>
----
(* Manager.Do *)

Goto(p, l) == pc' = [pc EXCEPT ![p] = l]

\* p calls Do with trigger t: it waits for the permit.
Call(p, t) ==
    /\ Goto(p, "wait")
    /\ trigger' = [trigger EXCEPT ![p] = t]
    /\ UNCHANGED <<cand, old, replaced, cur, failed>>

\* Variant: the work runs without the permit.
AcquireAtOnce(p) ==
    /\ pc[p] = "wait"
    /\ permit' = FALSE
    /\ failed' = [failed EXCEPT ![p] = cancelled[p]]
    /\ Goto(p, IF cancelled[p] THEN "release"
               ELSE IF trigger[p] = "watcher" THEN "read" ELSE "fetch")
    /\ UNCHANGED <<store, trigger, cand, old, replaced, cur, request>>

\* Variant: a Do whose context ended during the wait returns no error.
AcquireForgives(p) ==
    /\ pc[p] = "wait" /\ permit
    /\ permit' = FALSE
    /\ failed' = [failed EXCEPT ![p] = FALSE]
    /\ Goto(p, IF cancelled[p] THEN "release"
               ELSE IF trigger[p] = "watcher" THEN "read" ELSE "fetch")
    /\ UNCHANGED <<store, trigger, cand, old, replaced, cur, request>>

\* The permit is received; a context that ended meanwhile keeps the work from running.
Acquire(p) ==
    /\ pc[p] = "wait" /\ permit
    /\ permit' = FALSE
    /\ failed' = [failed EXCEPT ![p] = cancelled[p]]
    /\ Goto(p, IF cancelled[p] THEN "release"
               ELSE IF trigger[p] = "watcher" THEN "read" ELSE "fetch")
    /\ UNCHANGED <<store, trigger, cand, old, replaced, cur, request>>

\* The context ends first: the wait is abandoned.
Abandon(p) ==
    /\ pc[p] = "wait" /\ cancelled[p]
    /\ failed' = [failed EXCEPT ![p] = TRUE]
    /\ Goto(p, "returned")
    /\ UNCHANGED <<store, permit, trigger, cand, old, replaced, cur, request>>

\* Variant: the token is put back only when the work succeeded.
ReleaseOnSuccess(p) ==
    /\ pc[p] = "release"
    /\ permit' = ~failed[p]
    /\ cand' = [cand EXCEPT ![p] = Empty] /\ old' = [old EXCEPT ![p] = Empty]
    /\ replaced' = [replaced EXCEPT ![p] = {}] /\ cur' = [cur EXCEPT ![p] = 1]
    /\ Goto(p, "returned")
    /\ UNCHANGED <<store, trigger, failed, request>>

\* Do's deferred send puts the token back; what the work held is garbage.
Release(p) ==
    /\ pc[p] = "release"
    /\ permit' = TRUE
    /\ cand' = [cand EXCEPT ![p] = Empty] /\ old' = [old EXCEPT ![p] = Empty]
    /\ replaced' = [replaced EXCEPT ![p] = {}] /\ cur' = [cur EXCEPT ![p] = 1]
    /\ Goto(p, "returned")
    /\ UNCHANGED <<store, trigger, failed, request>>

\* The work returns an error, having changed nothing.
WorkFails(p) ==
    /\ failed' = [failed EXCEPT ![p] = TRUE]
    /\ Goto(p, "release")
    /\ UNCHANGED <<store, permit, trigger, cand, old, replaced, cur, request>>
----
(* The work: refreshAll, refreshTemplate, reloadSnapshot *)

\* The files the work of p fetches and writes.
Targets(p) == CASE trigger[p] \in Full        -> Files
                [] trigger[p] = "on-demand"   -> {tpl[p]}
                [] trigger[p] = "watcher"     -> {}

\* Fetch the next file, in order; a full refresh has then everything it needs.
Fetch(p) ==
    LET full == trigger[p] \in Full
        f == IF full THEN Order[cur[p]] ELSE tpl[p]
    IN /\ pc[p] = "fetch"
       /\ cand' = [cand EXCEPT ![p][f] = upstream[f]]
       /\ cur' = [cur EXCEPT ![p] = @ + 1]
       /\ Goto(p, IF ~full THEN "read" ELSE IF cur[p] = Len(Order) THEN "stage" ELSE "fetch")
       /\ UNCHANGED <<store, permit, trigger, old, replaced, failed, request>>

\* Network error, bad status, size limit, empty or unparsable payload, dead context.
FetchFails(p) == pc[p] = "fetch" /\ WorkFails(p)

\* Read the files that were not fetched from the cache.
ReadDisk(p) ==
    /\ pc[p] = "read" /\ ~(trigger[p] = "watcher" /\ cancelled[p])
    /\ \A f \in Files \ Targets(p) : disk[f] # 0
    /\ cand' = [cand EXCEPT ![p] =
                    [f \in Files |-> IF f \in Targets(p) THEN @[f] ELSE disk[f]]]
    /\ Goto(p, IF trigger[p] = "watcher" THEN "apply" ELSE "stage")
    /\ UNCHANGED <<store, permit, trigger, old, replaced, cur, failed, request>>

\* One of them is missing or unusable, or the reload's context has ended.
ReadFails(p) ==
    /\ pc[p] = "read"
    /\ cancelled[p] \/ \E f \in Files \ Targets(p) : disk[f] = 0
    /\ WorkFails(p)

\* buildSnapshot and every Stage accepted the candidate, the context is alive, and
\* Commit has copied the files it is about to replace.
Backup(p) ==
    /\ pc[p] = "stage" /\ ~cancelled[p]
    /\ old' = [old EXCEPT ![p] = disk]
    /\ Goto(p, "rename")
    /\ UNCHANGED <<store, permit, trigger, cand, replaced, cur, failed, request>>

StageFails(p) == pc[p] = "stage" /\ WorkFails(p)

\* Commit renames the staged files, in order, until one rename fails.
Rename(p, done) ==
    /\ pc[p] = "rename" /\ done \subseteq Targets(p)
    /\ disk' = [f \in Files |-> IF f \in done THEN cand[p][f] ELSE disk[f]]
    /\ Notify(done)
    /\ replaced' = [replaced EXCEPT ![p] = done]
    /\ Goto(p, "renamed")
    /\ UNCHANGED <<upstream, snap, started, missed, edits, permit, trigger, cand, old,
                   cur, failed, request>>

\* A rename or the sync failed: restore what was renamed, but for the files whose
\* restore fails.
Rollback(p, kept) ==
    /\ pc[p] = "renamed"
    /\ kept \subseteq replaced[p] /\ (kept # {} => RestoreFails)
    /\ disk' = [f \in Files |-> IF f \in replaced[p] \ kept THEN old[p][f] ELSE disk[f]]
    /\ Notify({f \in replaced[p] \ kept : old[p][f] # 0})
    /\ Miss(kept)
    /\ failed' = [failed EXCEPT ![p] = TRUE]
    /\ Goto(p, "release")
    /\ UNCHANGED <<upstream, snap, started, edits, permit, trigger, cand, old, replaced,
                   cur, request>>

\* Everything was renamed and the directory is synced (or the work is a reload):
\* applySnapshot, whatever has become of the context.
Apply(p) ==
    /\ pc[p] = "apply" \/ (pc[p] = "renamed" /\ replaced[p] = Targets(p))
    /\ snap' = cand[p]
    /\ missed' = (missed /\ ~started)
    /\ Goto(p, "release")
    /\ UNCHANGED <<upstream, disk, started, events, edits, permit, work, request>>
----
(* The goroutines of the server *)

\* The initial refresh returned, successful or not: the server starts to serve,
\* to watch and to update.
Start ==
    /\ ~started /\ pc[updater] = "returned"
    /\ started' = TRUE
    /\ Goto(updater, "idle")
    /\ UNCHANGED <<upstream, disk, snap, events, missed, edits, permit, work, request>>

\* The ticker fires.
Tick ==
    /\ started /\ pc[updater] = "idle"
    /\ Call(updater, "auto")
    /\ UNCHANGED <<store, permit, request>>

\* Variant: a change seen while a refresh runs is taken for its own and dropped.
DueWhenFree(f) ==
    /\ started /\ pc[watcher] = "idle" /\ f \in events
    /\ events' = events \ {f}
    /\ IF permit THEN Call(watcher, "watcher") ELSE UNCHANGED <<pc, work>>
    /\ UNCHANGED <<upstream, disk, snap, started, missed, edits, permit, request>>

\* The debounce of a changed file is over: onNodeChange and onTemplateChange reload.
Due(f) ==
    /\ started /\ pc[watcher] = "idle" /\ f \in events
    /\ events' = events \ {f}
    /\ Call(watcher, "watcher")
    /\ UNCHANGED <<upstream, disk, snap, started, missed, edits, permit, request>>

\* performAutoUpdate and the watcher only log the result.
LogResult(p) ==
    /\ started /\ p \in {updater, watcher} /\ pc[p] = "returned"
    /\ Goto(p, "idle")
    /\ failed' = [failed EXCEPT ![p] = FALSE]
    /\ UNCHANGED <<store, permit, trigger, cand, old, replaced, cur, request>>
----
(* The HTTP handlers *)

Arrive(r) ==
    /\ started /\ pc[r] = "idle"
    /\ had' = [had EXCEPT ![r] = snap # Empty]

\* GET /refresh
HandleRefresh(r) ==
    /\ Arrive(r)
    /\ want' = [want EXCEPT ![r] = upstream]
    /\ Call(r, "manual")
    /\ UNCHANGED <<store, permit, tpl, cancelled, loaded, status>>

\* GET /?template=t, with or without refresh=1
HandleRequest(r, t, query) ==
    /\ Arrive(r)
    /\ tpl' = [tpl EXCEPT ![r] = t]
    /\ IF query THEN Call(r, "query") ELSE Goto(r, "ensure") /\ UNCHANGED work
    /\ UNCHANGED <<store, permit, cancelled, loaded, status, want>>

\* The client goes away.
Disconnect(r) ==
    /\ pc[r] \notin {"idle", "answered"} /\ ~cancelled[r]
    /\ cancelled' = [cancelled EXCEPT ![r] = TRUE]
    /\ UNCHANGED <<store, permit, pc, work, tpl, loaded, status, had, want>>

Answer(r, s) ==
    /\ status' = [status EXCEPT ![r] = s]
    /\ Goto(r, "answered")

\* ensureTemplate: note whether the template is loaded; download it when its file is
\* missing or older than its interval (time is not modelled: either may be the case),
\* else reload the cache if it is not loaded.
EnsureTemplate(r, download) ==
    /\ pc[r] = "ensure"
    /\ loaded' = [loaded EXCEPT ![r] = snap[tpl[r]] # 0]
    /\ IF download THEN Call(r, "on-demand")
       ELSE IF loaded'[r] THEN Goto(r, "serve") /\ UNCHANGED work
       ELSE Call(r, "watcher")
    /\ UNCHANGED <<store, permit, tpl, cancelled, status, had, want>>

\* Variant: a failed download is an error although the template is loaded.
ReturnedStrict(r) ==
    /\ pc[r] = "returned"
    /\ \/ /\ trigger[r] = "manual"
          /\ Answer(r, IF failed[r] THEN "refresh_failed" ELSE "refreshed")
       \/ /\ trigger[r] = "query"
          /\ Goto(r, "ensure") /\ UNCHANGED status
       \/ /\ trigger[r] \in {"on-demand", "watcher"}
          /\ IF failed[r] THEN Answer(r, "bad_request")
             ELSE Goto(r, "serve") /\ UNCHANGED status
    /\ UNCHANGED <<store, permit, work, tpl, cancelled, loaded, had, want>>

\* Variant: the handler returns after a failed download without writing an answer.
ReturnedSilent(r) ==
    /\ pc[r] = "returned"
    /\ \/ /\ trigger[r] = "manual"
          /\ Answer(r, IF failed[r] THEN "refresh_failed" ELSE "refreshed")
       \/ /\ trigger[r] = "query"
          /\ Goto(r, "ensure") /\ UNCHANGED status
       \/ /\ trigger[r] \in {"on-demand", "watcher"}
          /\ Goto(r, IF failed[r] THEN "answered" ELSE "serve") /\ UNCHANGED status
    /\ UNCHANGED <<store, permit, work, tpl, cancelled, loaded, had, want>>

\* What each handler does with the result of Do.
Returned(r) ==
    /\ pc[r] = "returned"
    /\ \/ /\ trigger[r] = "manual"
          /\ Answer(r, IF failed[r] THEN "refresh_failed" ELSE "refreshed")
       \/ /\ trigger[r] = "query"     \* opportunistic: a failure is only logged
          /\ Goto(r, "ensure") /\ UNCHANGED status
       \/ /\ trigger[r] = "on-demand"
          /\ IF failed[r] /\ ~loaded[r] THEN Answer(r, "bad_request")
             ELSE Goto(r, "serve") /\ UNCHANGED status
       \/ /\ trigger[r] = "watcher"
          /\ IF failed[r] \/ snap[tpl[r]] = 0 THEN Answer(r, "bad_request")
             ELSE Goto(r, "serve") /\ UNCHANGED status
    /\ UNCHANGED <<store, permit, work, tpl, cancelled, loaded, had, want>>

\* The one reading of the snapshot: the response is rendered from it alone, and the
\* rendering itself may fail.
Serve(r, rendered) ==
    /\ pc[r] = "serve"
    /\ Answer(r, IF snap[tpl[r]] = 0 THEN "not_loaded"
                 ELSE IF rendered THEN "ok" ELSE "render_error")
    /\ UNCHANGED <<store, permit, work, tpl, cancelled, loaded, had, want>>

\* The handler returns and its goroutine ends.
Finish(r) ==
    /\ pc[r] = "answered"
    /\ Goto(r, "idle")
    /\ trigger' = [trigger EXCEPT ![r] = "initial"]
    /\ failed' = [failed EXCEPT ![r] = FALSE]
    /\ tpl' = [tpl EXCEPT ![r] = CHOOSE t \in Templates : TRUE]
    /\ cancelled' = [cancelled EXCEPT ![r] = FALSE]
    /\ loaded' = [loaded EXCEPT ![r] = FALSE]
    /\ status' = [status EXCEPT ![r] = "none"]
    /\ had' = [had EXCEPT ![r] = FALSE] /\ want' = [want EXCEPT ![r] = Empty]
    /\ UNCHANGED <<store, permit, cand, old, replaced, cur>>
----
Step(p) ==
    \/ Acquire(p) \/ Abandon(p) \/ Release(p)
    \/ Fetch(p) \/ FetchFails(p)
    \/ ReadDisk(p) \/ ReadFails(p)
    \/ Backup(p) \/ StageFails(p)
    \/ \E done \in SUBSET Files : Rename(p, done)
    \/ \E kept \in SUBSET Files : Rollback(p, kept)
    \/ Apply(p)
    \/ LogResult(p)

Handle(r) ==
    \/ \E d \in BOOLEAN : EnsureTemplate(r, d)
    \/ \E d \in BOOLEAN : Serve(r, d)
    \/ Returned(r) \/ Finish(r)

Next ==
    \/ \E f \in Files : Publish(f) \/ Due(f)
    \/ \E f \in Files, v \in {0, Local}, q \in BOOLEAN : Edit(f, v, q)
    \/ \E p \in Procs : Step(p)
    \/ Start \/ Tick
    \/ \E r \in Requests :
        \/ HandleRefresh(r) \/ Disconnect(r) \/ Handle(r)
        \/ \E t \in Templates, q \in BOOLEAN : HandleRequest(r, t, q)

Spec == Init /\ [][Next]_vars

\* Goroutines are scheduled; fetches end by their timeout; a waiting receiver of the
\* permit channel is served in FIFO order, which strong fairness abstracts.
Fairness ==
    /\ WF_vars(Step(watcher)) /\ WF_vars(Step(updater) \/ Start)
    /\ \A r \in Requests : WF_vars(Step(r) \/ Handle(r))
    /\ \A p \in Procs : SF_vars(Acquire(p))
    /\ \A f \in Files : SF_vars(Due(f))

FairSpec == Spec /\ Fairness
----
(* Correctness *)

\* Manager.Do (manager.go:23-24) runs one work at a time: the token is in the channel
\* exactly when no goroutine works on the cache.
SoleWriter ==
    /\ permit <=> \A p \in Procs : pc[p] \notin Working
    /\ \A p, q \in Procs : pc[p] \in Working /\ pc[q] \in Working => p = q

\* The snapshot in memory is the cache on disk whenever nobody works on either and the
\* watcher has nothing left to do: after failed refreshes, rollbacks (also incomplete
\* ones), lost clients and external edits.  Only what changed before the watcher ran
\* goes unnoticed, until the next refresh.
MemoryMatchesDisk ==
    permit /\ events = {} /\ pc[watcher] # "wait" /\ Complete(disk) /\ ~missed => snap = disk

\* Whatever the order in which overlapping refreshes finish, the snapshot never goes
\* back to an older version of a file (edits of the cache set aside).
NoRegression == [][\A f \in Files : snap'[f] >= snap[f]]_vars

\* A client that is told "Files refreshed successfully" (handler.go:391-393) sees a
\* snapshot at least as new as what the remote served when the request arrived, although
\* the request may have waited for other refreshes.
RefreshedMeansNew ==
    \A r \in Requests : status[r] = "refreshed" =>
        \A f \in Files : snap[f] >= want[r][f]

\* A request that found a usable snapshot is never refused because a refresh, a reload
\* or its own context failed (handler.go:113-117, 425-431): last known good is served.
LastKnownGoodServed ==
    \A r \in Requests : status[r] \in {"bad_request", "not_loaded"} => ~had[r]

\* Whoever has called Do gets its turn and its answer, whatever fails in the work of
\* those before it: the updater and the watcher become idle again, and so do requests.
\* (Checked for the updater and the watcher, who queue for one permit; see README.)
EverybodyReturns == \A p \in Procs : pc[p] # "idle" ~> pc[p] = "idle"

\* However memory and cache came to differ, they agree again or the cache is unusable.
Converges == started /\ ~missed /\ snap # disk ~> snap = disk \/ ~Complete(disk)
====
