---- MODULE OwnerLock ----
(***************************************************************************)
(* The directory locks of the shell side: mkdir claims, an owner record    *)
(* (pid, start time, token) moved into the directory names the holder, and *)
(* a later process takes a dead holder's lock apart.  update.lock is the   *)
(* plain form (acquire_lock of update.sh).  lifecycle.lock is the guarded  *)
(* form (acquire_lifecycle_lock of update.sh, lf_acquire_lifecycle_lock of *)
(* the init script): its holder may run an init child that publishes a     *)
(* delegate record of its own in the directory, and that record keeps the  *)
(* directory in place when the holder is killed meanwhile.                 *)
(*                                                                         *)
(* One action is one command of the shell that touches the directory.      *)
(***************************************************************************)
EXTENDS Naturals, FiniteSets

CONSTANTS
    Procs,      \* runs of update.sh or of the init script, one pid each
    Forms,      \* the forms considered: guarded (TRUE), plain (FALSE)
    MaxLive,    \* bound: runs alive at the same time
    MaxDeaths,  \* bound: runs and init children killed
    MaxKids,    \* bound: init children of one run
    Attempts,   \* recoveries one run tries; 3 in the code
    None

ASSUME LockAssumption ==
    /\ None \notin Procs /\ None \notin Procs \X Nat
    /\ Forms \subseteq BOOLEAN
    /\ MaxLive \in Nat /\ MaxDeaths \in Nat /\ MaxKids \in Nat
    /\ Attempts \in Nat

VARIABLES
    guarded,   \* the lifecycle lock, with delegates, or the update lock
    dir,       \* who made the lock directory, None when there is none
    owner,     \* the owner record in it
    delegate,  \* the delegate record in it: a run and the number of its child
    pc,        \* where each run is
    tries,     \* attempts
    seen,      \* the owner record a run has read
    round,     \* how often it has read it since its last mkdir
    watched,   \* the runs that were publishing when it began its wait
    kid,       \* the init child of a run: its number and where it is
    deaths,
    met,       \* history: the runs that were alive together with somebody else
    robbed     \* history: somebody took apart what a live run had made

lockVars == <<dir, owner, delegate>>
vars == <<guarded, dir, owner, delegate, pc, tries, seen, round, watched, kid, deaths, met, robbed>>

Ended == {"done", "refused", "failed", "dead"}
KidEnded == {"none", "done", "refused", "dead"}
Labels == {"idle", "mkdir", "publish", "unpublish", "look", "wait", "sweep", "read", "judge",
           "guard", "clear", "compare", "remove", "rmdir", "held", "waiting",
           "release", "erase", "drop"} \cup Ended
KidLabels == {"check", "guard", "clear", "link", "confirm", "alive", "work",
              "release", "erase", "drop", "undo", "unerase", "undrop"} \cup KidEnded
Kids == Procs \X (1..MaxKids)

TypeOK ==
    /\ guarded \in Forms
    /\ dir \in Procs \cup {None}
    /\ owner \in Procs \cup {None}
    /\ delegate \in Kids \cup {None}
    /\ pc \in [Procs -> Labels]
    /\ tries \in [Procs -> 0..Attempts]
    /\ seen \in [Procs -> Procs \cup {None}]
    /\ round \in [Procs -> 0..2]
    /\ watched \in [Procs -> SUBSET Procs]
    /\ kid \in [Procs -> [n : 0..MaxKids, at : KidLabels]]
    /\ deaths \in 0..MaxDeaths
    /\ met \subseteq Procs
    /\ robbed \in BOOLEAN
    /\ (dir = None => (owner = None /\ delegate = None))

Init ==
    /\ guarded \in Forms
    /\ dir = None /\ owner = None /\ delegate = None
    /\ pc = [p \in Procs |-> "idle"]
    /\ tries = [p \in Procs |-> 0]
    /\ seen = [p \in Procs |-> None]
    /\ round = [p \in Procs |-> 0]
    /\ watched = [p \in Procs |-> {}]
    /\ kid = [p \in Procs |-> [n |-> 0, at |-> "none"]]
    /\ deaths = 0
    /\ met = {}
    /\ robbed = FALSE

\* /proc/<pid>/stat shows the recorded start time.
Alive(p) == pc[p] \notin Ended \cup {"idle"}
KidAlive(p) == kid[p].at \notin KidEnded
DelegateAlive == delegate # None /\ kid[delegate[1]].n = delegate[2] /\ KidAlive(delegate[1])
Record(p) == <<p, kid[p].n>>
Live == {p \in Procs : Alive(p)}
Company == {p \in Procs : Alive(p) \/ KidAlive(p)}

Empty == dir # None /\ owner = None /\ delegate = None

Goto(p, from, to) == pc[p] = from /\ pc' = [pc EXCEPT ![p] = to]
KidGoto(p, from, to) == kid[p].at = from /\ kid' = [kid EXCEPT ![p].at = to]

---------------------------------------------------------------------------
(* Taking the lock *)

\* A run begins: its identity, token and owner record are prepared outside
\* the directory.
Start(p) ==
    /\ Cardinality(Live) < MaxLive
    /\ Goto(p, "idle", "mkdir")
    /\ met' = IF Company = {} THEN met ELSE met \cup Company \cup {p}
    /\ UNCHANGED <<lockVars, tries, seen, round, watched, kid, deaths, robbed>>

Mkdir(p) ==
    /\ tries[p] < Attempts
    /\ \/ dir = None /\ dir' = p /\ Goto(p, "mkdir", "publish")
       \/ dir # None /\ Goto(p, "mkdir", "look") /\ UNCHANGED dir
    /\ round' = [round EXCEPT ![p] = 0]
    /\ UNCHANGED <<owner, delegate, tries, seen, watched, kid, deaths, met, robbed>>

GiveUp(p) ==
    /\ tries[p] = Attempts
    /\ Goto(p, "mkdir", "refused")
    /\ UNCHANGED <<lockVars, tries, seen, round, watched, kid, deaths, met, robbed>>

\* mv of the prepared record into the directory: it lands in whatever
\* directory has the name now, and on whatever record is there.
Publish(p) ==
    /\ \/ dir # None /\ owner' = p /\ Goto(p, "publish", "held")
       \/ dir = None /\ Goto(p, "publish", "unpublish") /\ UNCHANGED owner
    /\ UNCHANGED <<dir, delegate, tries, seen, round, watched, kid, deaths, met, robbed>>

\* rmdir by p removes an empty directory, also one that a live run has just
\* made and not yet moved its record into.
Rmdir(p) ==
    /\ dir' = IF Empty THEN None ELSE dir
    /\ robbed' = (robbed \/ (Empty /\ dir # p /\ pc[dir] = "publish"))

\* rm -f of the owner record, whoever's it is by then.
RmOwner(p) ==
    /\ owner' = None
    /\ robbed' = (robbed \/ (owner \notin {None, p} /\ Alive(owner)))

RmDelegate(own) ==
    /\ delegate' = None
    /\ robbed' = (robbed \/ (DelegateAlive /\ delegate # own))

Unpublish(p) ==
    /\ Goto(p, "unpublish", "failed")
    /\ Rmdir(p)
    /\ UNCHANGED <<owner, delegate, tries, seen, round, watched, kid, deaths, met>>

Publishing == {q \in Procs : pc[q] = "publish"}

Look(p) ==
    /\ \/ dir = None /\ Goto(p, "look", "failed") /\ UNCHANGED watched
       \/ /\ dir # None /\ owner = None
          /\ Goto(p, "look", "wait")
          /\ watched' = [watched EXCEPT ![p] = Publishing]
       \/ owner # None /\ Goto(p, "look", "read") /\ UNCHANGED watched
    /\ UNCHANGED <<lockVars, tries, seen, round, kid, deaths, met, robbed>>

\* Up to two sleeps of a second.  A run that had made its directory before
\* they began has moved its record by then; one that makes it during the
\* sleeps may not have.
Wait(p) ==
    /\ \/ owner # None /\ Goto(p, "wait", "read")
       \/ /\ owner = None /\ watched[p] \cap Publishing = {}
          /\ Goto(p, "wait", IF guarded THEN "guard" ELSE "sweep")
    /\ UNCHANGED <<lockVars, tries, seen, round, watched, kid, deaths, met, robbed>>

Again(p, from) ==
    /\ Empty /\ Rmdir(p)
    /\ tries' = [tries EXCEPT ![p] = @ + 1]
    /\ Goto(p, from, "mkdir")

Sweep(p) ==
    /\ \/ Again(p, "sweep")
       \/ ~Empty /\ Goto(p, "sweep", "refused") /\ UNCHANGED <<dir, tries, robbed>>
    /\ UNCHANGED <<owner, delegate, seen, round, watched, kid, deaths, met>>

Read(p) ==
    /\ \/ owner = None /\ Goto(p, "read", "refused") /\ UNCHANGED <<seen, round>>
       \/ /\ owner # None
          /\ Goto(p, "read", "judge")
          /\ seen' = [seen EXCEPT ![p] = owner]
          /\ round' = [round EXCEPT ![p] = @ + 1]
    /\ UNCHANGED <<lockVars, tries, watched, kid, deaths, met, robbed>>

\* A live owner means busy.  The guarded form looks at the delegate next
\* and then reads and judges the owner a second time.
Judge(p) ==
    /\ Goto(p, "judge", IF Alive(seen[p]) THEN "refused"
                        ELSE IF guarded /\ round[p] = 1 THEN "guard" ELSE "compare")
    /\ UNCHANGED <<lockVars, tries, seen, round, watched, kid, deaths, met, robbed>>

AfterGuard(p) == IF round[p] = 0 THEN "sweep" ELSE "read"

\* Variant: any delegate record blocks, a dead child's too.
GuardAny(p) ==
    /\ Goto(p, "guard", IF delegate = None THEN AfterGuard(p) ELSE "refused")
    /\ UNCHANGED <<lockVars, tries, seen, round, watched, kid, deaths, met, robbed>>

\* lifecycle_delegate_blocks_recovery: a live delegate blocks; the record of
\* a dead one is removed by the next command.
Guard(p) ==
    /\ Goto(p, "guard", IF delegate = None THEN AfterGuard(p)
                        ELSE IF DelegateAlive THEN "refused" ELSE "clear")
    /\ UNCHANGED <<lockVars, tries, seen, round, watched, kid, deaths, met, robbed>>

Clear(p) ==
    /\ Goto(p, "clear", AfterGuard(p))
    /\ RmDelegate(None)
    /\ UNCHANGED <<dir, owner, tries, seen, round, watched, kid, deaths, met>>

Compare(p) ==
    /\ Goto(p, "compare", IF owner = seen[p] THEN "remove" ELSE "refused")
    /\ UNCHANGED <<lockVars, tries, seen, round, watched, kid, deaths, met, robbed>>

Remove(p) ==
    /\ Goto(p, "remove", "rmdir")
    /\ RmOwner(p)
    /\ UNCHANGED <<dir, delegate, tries, seen, round, watched, kid, deaths, met>>

Recover(p) ==
    /\ \/ Again(p, "rmdir")
       \/ ~Empty /\ Goto(p, "rmdir", "refused") /\ UNCHANGED <<dir, tries, robbed>>
    /\ UNCHANGED <<owner, delegate, seen, round, watched, kid, deaths, met>>

---------------------------------------------------------------------------
(* Holding it *)

\* The temporary start or stop of the converter: INIT start manual, INIT stop,
\* with the lock's token in the environment; the holder waits for it.
Spawn(p) ==
    /\ guarded /\ kid[p].n < MaxKids
    /\ Goto(p, "held", "waiting")
    /\ kid' = [kid EXCEPT ![p] = [n |-> @.n + 1, at |-> "check"]]
    /\ UNCHANGED <<lockVars, tries, seen, round, watched, deaths, met, robbed>>

Reap(p) ==
    /\ ~KidAlive(p)
    /\ Goto(p, "waiting", "held")
    /\ UNCHANGED <<lockVars, tries, seen, round, watched, kid, deaths, met, robbed>>

Finish(p) ==
    /\ Goto(p, "held", "release")
    /\ UNCHANGED <<lockVars, tries, seen, round, watched, kid, deaths, met, robbed>>

\* release_lock: only a record that is its own is removed.
Release(p) ==
    /\ Goto(p, "release", IF owner = p THEN "erase" ELSE "done")
    /\ UNCHANGED <<lockVars, tries, seen, round, watched, kid, deaths, met, robbed>>

Erase(p) ==
    /\ Goto(p, "erase", "drop")
    /\ RmOwner(p)
    /\ UNCHANGED <<dir, delegate, tries, seen, round, watched, kid, deaths, met>>

Drop(p) ==
    /\ Goto(p, "drop", "done")
    /\ Rmdir(p)
    /\ UNCHANGED <<owner, delegate, tries, seen, round, watched, kid, deaths, met>>

---------------------------------------------------------------------------
(* The init child: lf_acquire_lifecycle_delegate, the service operation,   *)
(* lf_release_lifecycle_delegate                                           *)

KidCheck(p) ==
    /\ KidGoto(p, "check", IF owner = p /\ Alive(p) THEN "guard" ELSE "refused")
    /\ UNCHANGED <<lockVars, pc, tries, seen, round, watched, deaths, met, robbed>>

KidGuard(p) ==
    /\ KidGoto(p, "guard", IF delegate = None THEN "link"
                           ELSE IF DelegateAlive THEN "refused" ELSE "clear")
    /\ UNCHANGED <<lockVars, pc, tries, seen, round, watched, deaths, met, robbed>>

KidClear(p) ==
    /\ KidGoto(p, "clear", "link")
    /\ RmDelegate(None)
    /\ UNCHANGED <<dir, owner, pc, tries, seen, round, watched, deaths, met>>

\* Variant: the record is published although the directory is gone.
KidLinkBlind(p) ==
    /\ delegate' = Record(p)
    /\ KidGoto(p, "link", "confirm")
    /\ UNCHANGED <<dir, owner, pc, tries, seen, round, watched, deaths, met, robbed>>

\* ln never overwrites, and needs the directory.
KidLink(p) ==
    /\ \/ /\ dir # None /\ delegate = None
          /\ delegate' = Record(p)
          /\ KidGoto(p, "link", "confirm")
       \/ /\ dir = None \/ delegate # None
          /\ KidGoto(p, "link", "refused") /\ UNCHANGED delegate
    /\ UNCHANGED <<dir, owner, pc, tries, seen, round, watched, deaths, met, robbed>>

\* Variant: nothing is checked again after the publication.
KidConfirmTrusts(p) ==
    /\ KidGoto(p, "confirm", "work")
    /\ UNCHANGED <<lockVars, pc, tries, seen, round, watched, deaths, met, robbed>>

\* The published record keeps rmdir away; the owner is checked once more.
KidConfirm(p) ==
    /\ KidGoto(p, "confirm", IF owner = p THEN "alive" ELSE "undo")
    /\ UNCHANGED <<lockVars, pc, tries, seen, round, watched, deaths, met, robbed>>

KidAliveCheck(p) ==
    /\ KidGoto(p, "alive", IF Alive(p) THEN "work" ELSE "undo")
    /\ UNCHANGED <<lockVars, pc, tries, seen, round, watched, deaths, met, robbed>>

KidFinish(p) ==
    /\ KidGoto(p, "work", "release")
    /\ UNCHANGED <<lockVars, pc, tries, seen, round, watched, deaths, met, robbed>>

KidRelease(p) ==
    /\ \/ KidGoto(p, "release", IF delegate = Record(p) THEN "erase" ELSE "done")
       \/ KidGoto(p, "undo", IF delegate = Record(p) THEN "unerase" ELSE "refused")
    /\ UNCHANGED <<lockVars, pc, tries, seen, round, watched, deaths, met, robbed>>

KidErase(p) ==
    /\ KidGoto(p, "erase", "drop") \/ KidGoto(p, "unerase", "undrop")
    /\ RmDelegate(Record(p))
    /\ UNCHANGED <<dir, owner, pc, tries, seen, round, watched, deaths, met>>

\* The holder may have died and lost its record meanwhile.
KidDrop(p) ==
    /\ KidGoto(p, "drop", "done") \/ KidGoto(p, "undrop", "refused")
    /\ Rmdir(p)
    /\ UNCHANGED <<owner, delegate, pc, tries, seen, round, watched, deaths, met>>

---------------------------------------------------------------------------
(* SIGKILL, or a signal whose trap finds LOCK_HELD still 0: every file stays *)

Die(p) ==
    /\ Alive(p) /\ deaths < MaxDeaths
    /\ pc' = [pc EXCEPT ![p] = "dead"]
    /\ deaths' = deaths + 1
    /\ UNCHANGED <<lockVars, tries, seen, round, watched, kid, met, robbed>>

KidDie(p) ==
    /\ KidAlive(p) /\ deaths < MaxDeaths
    /\ kid' = [kid EXCEPT ![p].at = "dead"]
    /\ deaths' = deaths + 1
    /\ UNCHANGED <<lockVars, pc, tries, seen, round, watched, met, robbed>>

Take(p) ==
    \/ Start(p) \/ Mkdir(p) \/ GiveUp(p) \/ Publish(p) \/ Unpublish(p)
    \/ Look(p) \/ Wait(p) \/ Sweep(p) \/ Read(p) \/ Judge(p) \/ Guard(p)
    \/ Clear(p) \/ Compare(p) \/ Remove(p) \/ Recover(p)
Leave(p) == Spawn(p) \/ Reap(p) \/ Finish(p) \/ Release(p) \/ Erase(p) \/ Drop(p)
Child(p) ==
    \/ KidCheck(p) \/ KidGuard(p) \/ KidClear(p) \/ KidLink(p) \/ KidConfirm(p)
    \/ KidAliveCheck(p) \/ KidFinish(p) \/ KidRelease(p) \/ KidErase(p) \/ KidDrop(p)

Next ==
    /\ \E p \in Procs : Take(p) \/ Leave(p) \/ Child(p) \/ Die(p) \/ KidDie(p)
    /\ UNCHANGED guarded

Spec == Init /\ [][Next]_vars

---------------------------------------------------------------------------
(* Properties *)

\* The runs that act under the lock, themselves or through their child.
Acting == {p \in Procs : pc[p] \in {"held", "waiting"} \/ kid[p].at = "work"}

\* "Only one update task", "refusing to race another lifecycle operation": no
\* two runs act under the lock, an orphaned init child counting as its run.
MutualExclusion == Cardinality(Acting) <= 1

\* Exclusion is lost in one way only: a recovery whose decision has gone stale
\* takes apart what a live run has made since.  Neither a kill between any two
\* commands, of a run or of its child, nor a slow run loses it.
ExclusiveUnlessRobbed == robbed \/ MutualExclusion

\* Whatever killed runs and children have left behind - an empty directory,
\* an owner record, a delegate record, any two of them - a run that was alone
\* from its start is not told that the lock is busy and takes it.
NeverWedged == \A p \in Procs : pc[p] \in {"refused", "failed"} => p \in met

====
