---- MODULE ActionJob ----
(***************************************************************************)
(* The background jobs of the rpcd backend (refresh, check, update).  Each *)
(* call takes rpc-action.lock, marks its job running in action.state,      *)
(* forks a worker, makes the worker the lock's owner and lets it go by     *)
(* creating the file ready; the worker runs update.sh, reports the result  *)
(* in action.state and releases the lock by the job's token.  The page     *)
(* asks for the status, which reads the state and then the lock.           *)
(*                                                                         *)
(* One action is one command that touches the lock or the state.           *)
(***************************************************************************)
EXTENDS Naturals, Sequences

CONSTANTS
    Jobs,       \* calls, one token each
    Attempts,   \* rounds of _lock_acquire; 3 in the code
    MaxDeaths,  \* bound: processes killed
    MaxFails,   \* bound: files that cannot be written
    None

ASSUME JobAssumption ==
    /\ None \notin Jobs \cup (Jobs \X {"caller", "worker"})
    /\ Attempts \in Nat /\ Attempts >= 2 /\ MaxDeaths \in Nat /\ MaxFails \in Nat

VARIABLES
    dir,      \* whose call made the lock directory
    owner,    \* the owner record in it: a process, and with it the job's token
    ready,    \* the file ready in it
    state,    \* action.state
    pc,       \* where each process is
    tries,    \* rounds of each call
    seen,     \* the record it has read
    page,     \* what the status call under way has read: the running job, the owner
    gone,     \* history: jobs the page has called interrupted while action.state
              \* was as it had read it
    met,      \* history: calls that were not alone
    mishaps,  \* history: see below
    deaths, fails

jobLock == <<dir, owner, ready>>
bounds == <<deaths, fails>>
jobVars == <<jobLock, state, pc, tries, seen, page, gone, met, mishaps, bounds>>

\* A recovery whose decision has gone stale took apart what a live call had made;
\* a call came back to a directory that was no longer its job's; a worker went by
\* the ready of another job.
Mishaps == {"robbed", "late", "borrowed"}

Caller(j) == <<j, "caller">>
Worker(j) == <<j, "worker">>
Procs == Jobs \X {"caller", "worker"}
Job(p) == p[1]

Ended == {"idle", "queued", "refused", "failed", "gave up", "ended", "dead"}
Alive(p) == pc[p] \notin Ended

\* _process_start finds a process, and for as long as its parent may not have reaped
\* it, a worker that has ended.
MayExist(p) == Alive(p) \/ (p \in Jobs \X {"worker"} /\ Alive(Caller(Job(p))))

JobInit ==
    /\ dir = None /\ owner = None /\ ready = FALSE /\ state = None
    /\ pc = [p \in Procs |-> "idle"]
    /\ tries = [j \in Jobs |-> 0] /\ seen = [j \in Jobs |-> None]
    /\ page = <<>> /\ gone = {} /\ met = {} /\ mishaps = {}
    /\ deaths = 0 /\ fails = 0

Empty == dir # None /\ owner = None /\ ~ready

Goto(p, from, to) == pc[p] = from /\ pc' = [pc EXCEPT ![p] = to]
Fail == fails < MaxFails /\ fails' = fails + 1
Mishap(what, happened) == mishaps' = IF happened THEN mishaps \cup {what} ELSE mishaps

\* rmdir, which needs an empty directory, and rm of the record, whoever's they are by
\* now; mine says which ones the decision was about.
Rmdir(j) ==
    /\ dir' = IF Empty THEN None ELSE dir
    /\ Mishap("robbed", Empty /\ dir # j /\ pc[Caller(dir)] = "publish")
RmOwner(mine) ==
    /\ owner' = None
    /\ Mishap("robbed", owner \notin mine \cup {None})

---------------------------------------------------------------------------
(* _lock_acquire *)

Start(j) ==
    /\ Goto(Caller(j), "idle", "mkdir")
    /\ met' = LET company == {Job(p) : p \in {q \in Procs : Alive(q)}} IN
              IF company = {} THEN met ELSE met \cup company \cup {j}
    /\ UNCHANGED <<jobLock, tries, seen, mishaps>>

Mkdir(j) ==
    /\ \/ /\ tries[j] < Attempts /\ tries' = [tries EXCEPT ![j] = @ + 1]
          /\ \/ dir = None /\ dir' = j /\ Goto(Caller(j), "mkdir", "publish")
             \/ dir # None /\ Goto(Caller(j), "mkdir", "look") /\ UNCHANGED dir
       \/ tries[j] = Attempts /\ Goto(Caller(j), "mkdir", "refused") /\ UNCHANGED <<dir, tries>>
    /\ UNCHANGED <<owner, ready, seen, met, mishaps>>

\* mv into the directory that has the name by now, or rmdir.
PublishOwner(j) ==
    /\ \/ dir # None /\ owner' = Caller(j) /\ Goto(Caller(j), "publish", "mark")
          /\ Mishap("late", dir # j)
       \/ dir = None /\ Goto(Caller(j), "publish", "unpublish") /\ UNCHANGED <<owner, mishaps>>
    /\ UNCHANGED <<dir, ready, tries, seen, met>>

Unpublish(j) == Goto(Caller(j), "unpublish", "refused") /\ Rmdir(j) /\ UNCHANGED <<owner, ready, tries, seen, met>>

\* The loop's two sleeps, however slow the maker of the directory is.
Look(j) ==
    /\ \/ Goto(Caller(j), "look", IF dir = None THEN "refused" ELSE IF owner = None THEN "wait" ELSE "read")
       \/ Goto(Caller(j), "wait", IF owner = None THEN "sweep" ELSE "read")
    /\ UNCHANGED <<jobLock, tries, seen, met, mishaps>>

\* A record of a live process means busy; one that is gone or has changed does too.
Read(j) ==
    /\ seen' = [seen EXCEPT ![j] = owner]
    /\ Goto(Caller(j), "read", IF owner = None THEN "refused" ELSE "judge")
    /\ UNCHANGED <<jobLock, tries, met, mishaps>>

Judge(j) ==
    /\ \/ Goto(Caller(j), "judge", "refused") /\ MayExist(seen[j])
       \/ Goto(Caller(j), "judge", "compare") /\ ~Alive(seen[j])
    /\ UNCHANGED <<jobLock, tries, seen, met, mishaps>>

Compare(j) ==
    /\ Goto(Caller(j), "compare", IF owner = seen[j] THEN "unready" ELSE "refused")
    /\ UNCHANGED <<jobLock, tries, seen, met, mishaps>>

\* Variant: a recovery forgets the file ready.
UnreadyNot(j) == Goto(Caller(j), "unready", "remove") /\ UNCHANGED <<jobLock, tries, seen, met, mishaps>>

Unready(j) ==
    /\ Goto(Caller(j), "unready", "remove")
    /\ ready' = FALSE /\ Mishap("robbed", ready /\ owner # seen[j])
    /\ UNCHANGED <<dir, owner, tries, seen, met>>

Remove(j) ==
    /\ Goto(Caller(j), "remove", "rmdir") /\ RmOwner({seen[j]})
    /\ UNCHANGED <<dir, ready, tries, seen, met>>

\* rmdir, of a directory without a record ("sweep") or after the removals, works or the
\* call is refused.
Recover(j) ==
    /\ \E from \in {"sweep", "rmdir"} : Goto(Caller(j), from, IF Empty THEN "mkdir" ELSE "refused")
    /\ Rmdir(j) /\ UNCHANGED <<owner, ready, tries, seen, met>>

Acquire(j) ==
    /\ \/ Start(j) \/ Mkdir(j) \/ PublishOwner(j) \/ Unpublish(j) \/ Look(j) \/ Read(j) \/ Judge(j)
       \/ Compare(j) \/ Unready(j) \/ Remove(j) \/ Recover(j)
    /\ UNCHANGED <<state, page, gone, bounds>>

---------------------------------------------------------------------------
(* _spawn_update *)

Mark(j) ==
    /\ \/ state' = <<j, "running">> /\ Goto(Caller(j), "mark", "fork") /\ UNCHANGED fails
       \/ Fail /\ Goto(Caller(j), "mark", "release") /\ UNCHANGED state
    /\ UNCHANGED <<jobLock, mishaps>>

Fork(j) ==
    /\ pc[Caller(j)] = "fork"
    /\ pc' = [pc EXCEPT ![Caller(j)] = "hand over", ![Worker(j)] = "wait"]
    /\ UNCHANGED <<jobLock, state, mishaps, fails>>

\* The worker is killed, the lock released.
Undo(j, from) ==
    /\ pc[Caller(j)] = from
    /\ pc' = [pc EXCEPT ![Caller(j)] = "release",
                        ![Worker(j)] = IF Alive(Worker(j)) THEN "dead" ELSE @]

\* The worker's start time, which may still be there when it has ended, then mv of its
\* record over the caller's.
HandOver(j) ==
    /\ \/ dir # None /\ owner' = Worker(j) /\ Goto(Caller(j), "hand over", "let go")
          /\ Mishap("late", owner # Caller(j)) /\ UNCHANGED fails
       \/ /\ Undo(j, "hand over") /\ UNCHANGED <<owner, mishaps>>
          /\ Fail \/ ((dir = None \/ ~Alive(Worker(j))) /\ UNCHANGED fails)
    /\ UNCHANGED <<dir, ready, state>>

\* A recovery has judged the owner dead and is at its removals.
TakenApart == \E q \in Jobs : pc[Caller(q)] \in {"compare", "unready", "remove", "rmdir"}

LetGo(j) ==
    /\ \/ dir # None /\ ready' = TRUE /\ Goto(Caller(j), "let go", "queued")
          /\ Mishap("late", owner # Worker(j) \/ TakenApart) /\ UNCHANGED fails
       \/ /\ Undo(j, "let go") /\ UNCHANGED <<ready, mishaps>>
          /\ Fail \/ (dir = None /\ UNCHANGED fails)
    /\ UNCHANGED <<dir, owner, state>>

\* ready is all that the worker looks for; without it, it gives up after five seconds
\* and leaves the lock.
Go(j) ==
    /\ \/ ready /\ Goto(Worker(j), "wait", "run") /\ Mishap("borrowed", owner = None \/ Job(owner) # j)
       \/ ~ready /\ Goto(Worker(j), "wait", "gave up") /\ UNCHANGED mishaps
    /\ UNCHANGED <<jobLock, state, fails>>

\* Variant: the lock is released before the result is reported.
FinishReleases(j) ==
    /\ Goto(Worker(j), "run", "report") /\ owner = Worker(j)
    /\ dir' = None /\ owner' = None /\ ready' = FALSE
    /\ UNCHANGED <<state, mishaps, fails>>

\* update.sh ends, by itself or by the watchdog.
Finish(j) == Goto(Worker(j), "run", "report") /\ UNCHANGED <<jobLock, state, mishaps, fails>>

Report(j) ==
    /\ Goto(Worker(j), "report", "release")
    /\ \/ state' = <<j, "done">> /\ UNCHANGED fails
       \/ Fail /\ UNCHANGED state
    /\ UNCHANGED <<jobLock, mishaps>>

Spawn(j) ==
    /\ Mark(j) \/ Fork(j) \/ HandOver(j) \/ LetGo(j) \/ Go(j) \/ Finish(j) \/ Report(j)
    /\ UNCHANGED <<tries, seen, page, gone, met, deaths>>

---------------------------------------------------------------------------
(* _lock_release_token, of the worker or of a call that failed *)

Last(p) == IF p = Caller(Job(p)) THEN "failed" ELSE "ended"
Own(p) == {Caller(Job(p)), Worker(Job(p))}

ReleaseToken(p) ==
    /\ \/ Goto(p, "release", IF owner \in Own(p) THEN "unmark" ELSE Last(p)) /\ UNCHANGED <<jobLock, mishaps>>
       \/ Goto(p, "unmark", "erase") /\ ready' = FALSE /\ UNCHANGED <<dir, owner>>
          /\ Mishap("robbed", ready /\ owner \notin Own(p) \cup {None})
       \/ Goto(p, "erase", "drop") /\ RmOwner(Own(p)) /\ UNCHANGED <<dir, ready>>
       \/ Goto(p, "drop", Last(p)) /\ Rmdir(Job(p)) /\ UNCHANGED <<owner, ready>>
    /\ UNCHANGED <<state, tries, seen, page, gone, met, bounds>>

---------------------------------------------------------------------------
(* Kills, and the status call *)

Die(p) ==
    /\ Alive(p) /\ deaths < MaxDeaths /\ deaths' = deaths + 1
    /\ pc' = [pc EXCEPT ![p] = "dead"]
    /\ UNCHANGED <<jobLock, state, tries, seen, page, gone, met, mishaps, fails>>

\* The page polls from the answer "queued" on.  Only a job that is said to run makes
\* status look at the lock.
StatusReads(j) ==
    /\ page = <<>> /\ state = <<j, "running">> /\ pc[Caller(j)] = "queued"
    /\ page' = <<j>>
    /\ UNCHANGED <<jobLock, state, pc, tries, seen, gone, met, mishaps, bounds>>

StatusLooks ==
    /\ Len(page) = 1 /\ page' = <<page[1], owner>>
    /\ UNCHANGED <<jobLock, state, pc, tries, seen, gone, met, mishaps, bounds>>

\* "Operation was interrupted": the record is another's, nobody's or a dead process's.
StatusAnswers ==
    /\ Len(page) = 2 /\ page' = <<>>
    /\ LET j == page[1]
           stale == page[2] = None \/ Job(page[2]) # j \/ ~Alive(page[2]) IN
       gone' = IF stale /\ state = <<j, "running">> THEN gone \cup {j} ELSE gone
    /\ UNCHANGED <<jobLock, state, pc, tries, seen, met, mishaps, bounds>>

JobNext ==
    \/ \E j \in Jobs : Acquire(j) \/ Spawn(j) \/ StatusReads(j)
    \/ \E p \in Procs : ReleaseToken(p) \/ Die(p)
    \/ StatusLooks \/ StatusAnswers

JobSpec == JobInit /\ [][JobNext]_jobVars

---------------------------------------------------------------------------
(* Properties *)

AtWork(j) == pc[Worker(j)] \in {"run", "report"}

\* While a job is at work the lock is its worker's and the state says that it runs: no
\* other job is at work, and a status that looks shows this one.  A job that the page has
\* called interrupted (overview.js:637), when it still was said to run after status had
\* looked at the lock, does not work any more and never reports a result.
PageTellsTruth ==
    mishaps = {} => \A j \in Jobs :
        /\ AtWork(j) => owner = Worker(j) /\ state = <<j, "running">>
        /\ j \in gone => ~AtWork(j) /\ state # <<j, "done">>

\* Whatever killed calls and workers, and workers that gave up, have left of the lock, a
\* call that is alone from its start is not told that "another operation is already
\* running".
NextJobStarts ==
    mishaps = {} => \A j \in Jobs : pc[Caller(j)] = "refused" => j \in met
====
