---- MODULE Backend_proofs ----
(***************************************************************************)
(* What the rpcd backend starts.  First its update jobs, for every set of  *)
(* calls and any number of rounds, deaths and failures: what status says   *)
(* of a job is true, and a call that is alone starts.  Then the service    *)
(* control it shares with init.d, procd and update.sh, for every number of *)
(* saves and runs and every set of faults: a run removes its own converter *)
(* and no other, and the saved switch decides.                             *)
(***************************************************************************)
EXTENDS ActionJob, ServiceControl, TLAPS

---------------------------------------------------------------------------
(* The inductive invariant of the jobs *)

Loop == {"mkdir", "publish", "unpublish", "look", "wait", "sweep", "read", "judge", "compare",
         "unready", "remove", "rmdir"}
Spawning == {"mark", "fork", "hand over", "let go"}
Releasing == {"release", "unmark", "erase", "drop"}
CallerPCs == Loop \cup Spawning \cup Releasing \cup {"idle", "refused", "queued", "failed", "dead"}
WorkerPCs == Releasing \cup {"idle", "wait", "run", "report", "gave up", "ended", "dead"}

\* Each process is where its program has a place for it.
PcOK ==
    /\ pc \in [Procs -> CallerPCs \cup WorkerPCs]
    /\ \A j \in Jobs : pc[Caller(j)] \in CallerPCs /\ pc[Worker(j)] \in WorkerPCs

LockOK == dir \in Jobs \cup {None} /\ owner \in Procs \cup {None} /\ ready \in BOOLEAN

PageOK == page \in {<<>>} \cup {<<j>> : j \in Jobs} \cup (Jobs \X (Procs \cup {None}))

JobTypeOK ==
    /\ LockOK /\ PcOK /\ PageOK
    /\ state \in {None} \cup (Jobs \X {"running", "done"})
    /\ tries \in [Jobs -> 0..Attempts] /\ seen \in [Jobs -> Procs \cup {None}]
    /\ gone \subseteq Jobs /\ met \subseteq Jobs /\ mishaps \subseteq Mishaps
    /\ deaths \in 0..MaxDeaths /\ fails \in 0..MaxFails

\* A worker is there from its call's fork on, and does not outlive the call's failure.
Forked(j) ==
    /\ pc[Worker(j)] # "idle" =>
          pc[Caller(j)] \in {"hand over", "let go", "queued", "failed", "dead"} \cup Releasing
    /\ pc[Caller(j)] = "hand over" => pc[Worker(j)] # "idle"
    /\ pc[Caller(j)] \in Releasing \cup {"failed"} => ~Alive(Worker(j))
    /\ pc[Caller(j)] = "idle" => tries[j] = 0

\* A record is of a process that has started, and nothing of a lock is left without its
\* directory.
Records ==
    /\ dir = None => owner = None /\ ~ready
    /\ \A j \in Jobs :
          /\ owner = Caller(j) => pc[Caller(j)] \notin Loop \cup {"idle", "refused"}
          /\ owner = Worker(j) => pc[Worker(j)] # "idle"

\* What a recovery has judged dead had started, so it stays dead.
Judged(j) ==
    /\ pc[Caller(j)] \in {"judge", "compare", "unready", "remove"} =>
          seen[j] \in Procs /\ pc[seen[j]] # "idle"
    /\ pc[Caller(j)] \in {"compare", "unready", "remove"} => ~Alive(seen[j])

\* Two jobs that are alive together have met.
Company == \A p, q \in Procs : Alive(p) /\ Alive(q) /\ Job(p) # Job(q) => Job(p) \in met

\* The lock is the caller's until it hands it over, and the worker's from then on for as
\* long as it works; it works only after its caller has let it go.
Locked(j) ==
    /\ pc[Caller(j)] = "publish" => dir = j /\ owner = None /\ ~ready
    /\ pc[Caller(j)] \in {"mark", "fork", "hand over"} => owner = Caller(j)
    /\ pc[Caller(j)] = "remove" => ~ready
    /\ pc[Worker(j)] \in Releasing \cup {"run", "report", "ended"} => pc[Caller(j)] = "queued"
    /\ pc[Caller(j)] = "queued" /\ pc[Worker(j)] \in {"wait", "run", "report"} => owner = Worker(j)
    /\ pc[Caller(j)] = "erase" \/ pc[Worker(j)] = "erase" =>
          (owner = Caller(j) \/ owner = Worker(j) => ~ready)

\* ready is of the job whose worker has the record.
ReadyOwned == ready => \E j \in Jobs : owner = Worker(j) /\ pc[Caller(j)] = "queued"

\* action.state says that the job that has the lock runs.
Stated(j) ==
    /\ pc[Caller(j)] \in {"fork", "hand over"} => state = <<j, "running">>
    /\ owner = Worker(j) /\ pc[Worker(j)] \in {"wait", "run", "report"} => state = <<j, "running">>

\* A status call that has found another record than the worker's, or has answered that the
\* job was interrupted, is about a job that will not work any more.
Over(j) == pc[Caller(j)] = "queued" /\ pc[Worker(j)] \notin {"wait", "run", "report"}
Paged ==
    /\ page # <<>> => pc[Caller(page[1])] = "queued"
    /\ Len(page) = 2 /\ page[2] # Worker(page[1]) => Over(page[1])
    /\ \A j \in gone : Over(j) /\ state # <<j, "done">>

\* A call that is alone finds at most a leftover, which nobody else changes, and takes it
\* apart in one round.
OneWay(j) ==
    /\ pc[Caller(j)] \notin {"refused", "unpublish"}
    /\ pc[Caller(j)] = "mkdir" => tries[j] = 0 \/ (tries[j] = 1 /\ dir = None)
    /\ pc[Caller(j)] \in Loop \ {"mkdir", "publish", "unpublish"} => tries[j] = 1 /\ dir # None
    /\ pc[Caller(j)] \in {"wait", "sweep", "rmdir"} => owner = None
    /\ pc[Caller(j)] = "rmdir" => ~ready
    /\ pc[Caller(j)] = "read" => owner # None
    /\ pc[Caller(j)] \in {"judge", "compare", "unready", "remove"} => owner = seen[j]

Sound == JobTypeOK /\ (\A j \in Jobs : Forked(j) /\ Judged(j)) /\ Records /\ Company
Lawful ==
    /\ ReadyOwned /\ Paged
    /\ \A j \in Jobs : Locked(j) /\ Stated(j)
    /\ \A j \in Jobs \ met : OneWay(j)
JobInv == Sound /\ (mishaps = {} => Lawful)

---------------------------------------------------------------------------
(* Facts of processes and moves *)

LEMMA ProcFacts ==
    /\ \A j \in Jobs : Caller(j) \in Procs /\ Worker(j) \in Procs
                       /\ Job(Caller(j)) = j /\ Job(Worker(j)) = j
                       /\ Own(Caller(j)) = {Caller(j), Worker(j)}
                       /\ Own(Worker(j)) = {Caller(j), Worker(j)}
    /\ \A j, k \in Jobs : Caller(j) # Worker(k) /\ (Caller(j) = Caller(k) => j = k)
                          /\ (Worker(j) = Worker(k) => j = k)
    /\ \A p \in Procs : Job(p) \in Jobs /\ (p = Caller(Job(p)) \/ p = Worker(Job(p)))
    /\ None \notin Jobs /\ None \notin Procs
  BY JobAssumption DEF Caller, Worker, Procs, Job, Own

\* The processes of the other jobs stay where they are.
Others(j) == \A k \in Jobs : k # j =>
    pc'[Caller(k)] = pc[Caller(k)] /\ pc'[Worker(k)] = pc[Worker(k)]
CallerMove(j, from, to) ==
    /\ pc[Caller(j)] \in from /\ pc'[Caller(j)] \in to
    /\ pc'[Worker(j)] = pc[Worker(j)] /\ Others(j) /\ PcOK'
WorkerMove(j, from, to) ==
    /\ pc[Worker(j)] \in from /\ pc'[Worker(j)] \in to
    /\ pc'[Caller(j)] = pc[Caller(j)] /\ Others(j) /\ PcOK'

LEMMA CallerGoes ==
    ASSUME PcOK, NEW j \in Jobs, NEW from, NEW to, Goto(Caller(j), from, to), to \in CallerPCs
    PROVE  CallerMove(j, {from}, {to})
  <1>1. pc'[Caller(j)] = to /\ pc[Caller(j)] = from
        /\ \A q \in Procs : q # Caller(j) => pc'[q] = pc[q]
    BY ProcFacts DEF PcOK, Goto
  <1>2. pc' \in [Procs -> CallerPCs \cup WorkerPCs]
    BY ProcFacts DEF PcOK, Goto
  <1>3. Others(j) /\ pc'[Worker(j)] = pc[Worker(j)]
    BY <1>1, ProcFacts DEF Others
  <1>4. PcOK'
    <2> SUFFICES ASSUME NEW k \in Jobs
                 PROVE  pc'[Caller(k)] \in CallerPCs /\ pc'[Worker(k)] \in WorkerPCs
      BY <1>2 DEF PcOK
    <2>1. CASE k = j
      BY <2>1, <1>1, <1>3 DEF PcOK
    <2>2. CASE k # j
      BY <2>2, <1>3 DEF PcOK, Others
    <2> QED BY <2>1, <2>2
  <1> QED BY <1>1, <1>3, <1>4 DEF CallerMove

LEMMA WorkerGoes ==
    ASSUME PcOK, NEW j \in Jobs, NEW from, NEW to, Goto(Worker(j), from, to), to \in WorkerPCs
    PROVE  WorkerMove(j, {from}, {to})
  <1>1. pc'[Worker(j)] = to /\ pc[Worker(j)] = from
        /\ \A q \in Procs : q # Worker(j) => pc'[q] = pc[q]
    BY ProcFacts DEF PcOK, Goto
  <1>2. pc' \in [Procs -> CallerPCs \cup WorkerPCs]
    BY ProcFacts DEF PcOK, Goto
  <1>3. Others(j) /\ pc'[Caller(j)] = pc[Caller(j)]
    BY <1>1, ProcFacts DEF Others
  <1>4. PcOK'
    <2> SUFFICES ASSUME NEW k \in Jobs
                 PROVE  pc'[Caller(k)] \in CallerPCs /\ pc'[Worker(k)] \in WorkerPCs
      BY <1>2 DEF PcOK
    <2>1. CASE k = j
      BY <2>1, <1>1, <1>3 DEF PcOK
    <2>2. CASE k # j
      BY <2>2, <1>3 DEF PcOK, Others
    <2> QED BY <2>1, <2>2
  <1> QED BY <1>1, <1>3, <1>4 DEF WorkerMove

\* What has ended stays so, and nobody but a live caller's worker comes to life.
Waning == \A q \in Procs :
    /\ pc[q] # "idle" => pc'[q] # "idle"
    /\ pc'[q] \notin Ended =>
          pc[q] \notin Ended \/ (pc[q] = "idle" /\ Alive(Caller(Job(q))))

LEMMA CallerWanes ==
    ASSUME NEW j \in Jobs, NEW from, NEW to, CallerMove(j, from, to),
           from \cap Ended = {}, "idle" \notin to
    PROVE  Waning
  <1>1. ASSUME NEW q \in Procs
        PROVE  (pc[q] # "idle" => pc'[q] # "idle") /\ (pc'[q] \notin Ended => pc[q] \notin Ended)
    <2>1. CASE q = Caller(j)
      BY <2>1 DEF CallerMove
    <2>2. CASE q = Worker(j)
      BY <2>2 DEF CallerMove
    <2>3. CASE Job(q) # j
      BY <2>3, ProcFacts DEF CallerMove, Others
    <2> QED BY <2>1, <2>2, <2>3, ProcFacts
  <1> QED BY <1>1 DEF Waning

LEMMA WorkerWanes ==
    ASSUME NEW j \in Jobs, NEW from, NEW to, WorkerMove(j, from, to),
           from \cap Ended = {}, "idle" \notin to
    PROVE  Waning
  <1>1. ASSUME NEW q \in Procs
        PROVE  (pc[q] # "idle" => pc'[q] # "idle") /\ (pc'[q] \notin Ended => pc[q] \notin Ended)
    <2>1. CASE q = Caller(j)
      BY <2>1 DEF WorkerMove
    <2>2. CASE q = Worker(j)
      BY <2>2 DEF WorkerMove
    <2>3. CASE Job(q) # j
      BY <2>3, ProcFacts DEF WorkerMove, Others
    <2> QED BY <2>1, <2>2, <2>3, ProcFacts
  <1> QED BY <1>1 DEF Waning

---------------------------------------------------------------------------
(* What a step of one job leaves of the invariant *)

LEMMA CompanyKept ==
    ASSUME Company, Waning, met' = met
    PROVE  Company'
  <1> SUFFICES ASSUME NEW p \in Procs, NEW q \in Procs, Alive(p)', Alive(q)', Job(p) # Job(q)
               PROVE  Job(p) \in met
    BY DEF Company
  <1>1. Alive(p) \/ Alive(Caller(Job(p)))
    BY DEF Waning, Alive
  <1>2. Alive(q) \/ Alive(Caller(Job(q)))
    BY DEF Waning, Alive
  <1> QED BY <1>1, <1>2, ProcFacts DEF Company

LEMMA JudgedKept ==
    ASSUME NEW k \in Jobs, Judged(k), Waning, pc'[Caller(k)] = pc[Caller(k)], seen'[k] = seen[k]
    PROVE  Judged(k)'
  BY DEF Judged, Waning, Alive

LEMMA ForkedKept ==
    ASSUME NEW k \in Jobs, Forked(k), pc'[Caller(k)] = pc[Caller(k)],
           pc'[Worker(k)] = pc[Worker(k)], tries'[k] = tries[k]
    PROVE  Forked(k)'
  BY DEF Forked, Alive

\* The rest of the invariant's first part needs nothing of the other jobs.
LEMMA SoundKept ==
    ASSUME Sound, NEW j \in Jobs, Others(j), Waning, JobTypeOK', met' = met,
           \A k \in Jobs : k # j => tries'[k] = tries[k] /\ seen'[k] = seen[k],
           Forked(j)', Judged(j)', Records'
    PROVE  Sound'
  <1>1. ASSUME NEW k \in Jobs PROVE Forked(k)' /\ Judged(k)'
    <2>1. CASE k = j
      BY <2>1
    <2>2. CASE k # j
      BY <2>2, JudgedKept, ForkedKept DEF Others, Sound
    <2> QED BY <2>1, <2>2
  <1> QED BY <1>1, CompanyKept DEF Sound

\* What a step of one job must leave alone of another one's.
Spared(k) ==
    /\ pc[Caller(k)] = "publish" => dir' = dir /\ owner' = owner /\ ready' = ready
    /\ pc[Caller(k)] \in {"mark", "fork", "hand over"} => owner' = owner
    /\ pc[Caller(k)] = "remove" /\ ready' => ready
    /\ pc[Worker(k)] \in {"wait", "run", "report"} /\ owner = Worker(k) =>
          owner' = owner /\ state' = state
    /\ owner' \in {Caller(k), Worker(k)} => owner' = owner /\ (ready' => ready)
    /\ pc[Caller(k)] \in {"fork", "hand over"} => state' = state

LEMMA SparedStays ==
    ASSUME NEW k \in Jobs, Locked(k), Stated(k), Spared(k),
           pc'[Caller(k)] = pc[Caller(k)], pc'[Worker(k)] = pc[Worker(k)]
    PROVE  Locked(k)' /\ Stated(k)'
  <1>1. Locked(k)'
    <2>1. pc'[Caller(k)] = "publish" => dir' = k /\ owner' = None /\ ~ready'
      BY DEF Locked, Spared
    <2>2. pc'[Caller(k)] \in {"mark", "fork", "hand over"} => owner' = Caller(k)
      BY DEF Locked, Spared
    <2>3. pc'[Caller(k)] = "remove" => ~ready'
      BY DEF Locked, Spared
    <2>4. pc'[Worker(k)] \in Releasing \cup {"run", "report", "ended"} => pc'[Caller(k)] = "queued"
      BY DEF Locked
    <2>5. pc'[Caller(k)] = "queued" /\ pc'[Worker(k)] \in {"wait", "run", "report"} => owner' = Worker(k)
      BY DEF Locked, Spared
    <2>6. pc'[Caller(k)] = "erase" \/ pc'[Worker(k)] = "erase" =>
             (owner' = Caller(k) \/ owner' = Worker(k) => ~ready')
      BY DEF Locked, Spared
    <2> QED BY <2>1, <2>2, <2>3, <2>4, <2>5, <2>6 DEF Locked
  <1>2. Stated(k)'
    BY DEF Stated, Spared
  <1> QED BY <1>1, <1>2

LEMMA LockUntouched ==
    ASSUME UNCHANGED <<jobLock, state>>, NEW k
    PROVE  Spared(k)
  BY DEF Spared, jobLock

\* A job that nobody has met is not there while another one moves.
LEMMA OthersOneWay ==
    ASSUME Sound, NEW j \in Jobs, Alive(Caller(j)) \/ Alive(Worker(j)), Others(j), NEW k \in Jobs \ met, k # j,
           OneWay(k)
    PROVE  OneWay(k)'
  <1>1. ~Alive(Caller(k))
    BY ProcFacts DEF Sound, Company
  <1>2. pc[Caller(k)] \in {"idle", "queued", "failed", "gave up", "ended", "dead"}
    BY <1>1 DEF OneWay, Alive, Ended
  <1>3. pc'[Caller(k)] \in {"idle", "queued", "failed", "gave up", "ended", "dead"}
    BY <1>2 DEF Others
  <1> QED BY <1>3 DEF OneWay, Loop

\* An end stays one.
LEMMA PagedKept ==
    ASSUME JobTypeOK, Paged, NEW j \in Jobs, Others(j), UNCHANGED <<page, gone>>,
           state' = state \/ (\A k \in gone : state' # <<k, "done">>),
           pc[Caller(j)] = "queued" => pc'[Caller(j)] = "queued",
           Over(j) => Over(j)'
    PROVE  Paged'
  <1>1. \A k \in Jobs : (pc[Caller(k)] = "queued" => pc'[Caller(k)] = "queued") /\ (Over(k) => Over(k)')
    BY DEF Others, Over
  <1>2. page # <<>> => page[1] \in Jobs
    BY DEF JobTypeOK, PageOK
  <1>3. gone \subseteq Jobs
    BY DEF JobTypeOK
  <1>4. page' # <<>> => pc'[Caller(page'[1])] = "queued"
    BY <1>1, <1>2 DEF Paged
  <1>5. Len(page') = 2 /\ page'[2] # Worker(page'[1]) => Over(page[1])'
    <2>1. Len(page) = 2 => page # <<>>
      OBVIOUS
    <2> QED BY <1>1, <1>2, <2>1 DEF Paged
  <1>6. \A k \in gone' : Over(k)' /\ state' # <<k, "done">>
    BY <1>1, <1>3 DEF Paged
  <1> QED BY <1>4, <1>5, <1>6 DEF Paged, Over

LEMMA LawfulKept ==
    ASSUME Sound, Lawful, NEW j \in Jobs, Alive(Caller(j)) \/ Alive(Worker(j)), Others(j), met' = met,
           \A k \in Jobs : k # j => Spared(k),
           Locked(j)', Stated(j)', j \notin met => OneWay(j)', ReadyOwned', Paged'
    PROVE  Lawful'
  <1>1. ASSUME NEW k \in Jobs PROVE Locked(k)' /\ Stated(k)'
    <2>1. CASE k = j
      BY <2>1
    <2>2. CASE k # j
      BY <2>2, SparedStays DEF Others, Lawful
    <2> QED BY <2>1, <2>2
  <1>2. ASSUME NEW k \in Jobs \ met' PROVE OneWay(k)'
    <2>1. CASE k = j
      BY <2>1, <1>2
    <2>2. CASE k # j
      BY <2>2, <1>2, OthersOneWay DEF Lawful
    <2> QED BY <2>1, <2>2
  <1> QED BY <1>1, <1>2 DEF Lawful

---------------------------------------------------------------------------
(* _lock_acquire *)

\* Nothing but the mover's place, its rounds and what it has read, and the directory, if
\* nobody is about to publish in it.
LEMMA Wander ==
    ASSUME JobInv, NEW j \in Jobs, NEW from, NEW to, CallerMove(j, from, to),
           from \subseteq Loop, to \subseteq (Loop \ {"publish", "remove"}) \cup {"refused"},
           UNCHANGED <<owner, ready, state, page, gone, met, bounds>>,
           dir' \in Jobs \cup {None}, dir' = None => dir = None \/ Empty,
           tries' \in [Jobs -> 0..Attempts], seen' \in [Jobs -> Procs \cup {None}],
           \A k \in Jobs : k # j => tries'[k] = tries[k] /\ seen'[k] = seen[k],
           mishaps \subseteq mishaps', mishaps' \subseteq Mishaps,
           Judged(j)',
           mishaps' = {} /\ Lawful =>
               /\ \A k \in Jobs : k # j /\ pc[Caller(k)] = "publish" => dir' = dir
               /\ j \notin met => OneWay(j)'
    PROVE  JobInv'
  <1>1. Sound
    BY DEF JobInv
  <1>2. pc[Caller(j)] \in Loop /\ pc'[Caller(j)] \in (Loop \ {"publish", "remove"}) \cup {"refused"}
        /\ pc'[Worker(j)] = pc[Worker(j)] /\ Others(j) /\ PcOK'
    BY DEF CallerMove
  <1>3. Waning
    <2>1. from \cap Ended = {} /\ "idle" \notin to
      BY DEF Loop, Ended
    <2> QED BY <2>1, CallerWanes
  <1>4. pc[Worker(j)] = "idle"
    BY <1>1, <1>2 DEF Sound, Forked, Loop, Releasing
  <1>5. JobTypeOK'
    <2>1. LockOK'
      BY <1>1 DEF Sound, JobTypeOK, LockOK
    <2>2. PageOK'
      BY <1>1 DEF Sound, JobTypeOK, PageOK
    <2> QED BY <1>1, <1>2, <2>1, <2>2 DEF Sound, JobTypeOK, bounds
  <1>6. Forked(j)'
    BY <1>2, <1>4 DEF Forked, Loop, Releasing
  <1>7. Records'
    <2>1. owner' # Caller(j) /\ owner' # Worker(j)
      BY <1>1, <1>2, <1>4 DEF Sound, Records
    <2>2. ASSUME NEW k \in Jobs
          PROVE  /\ owner' = Caller(k) => pc'[Caller(k)] \notin Loop \cup {"idle", "refused"}
                 /\ owner' = Worker(k) => pc'[Worker(k)] # "idle"
      BY <1>1, <1>2, <2>1 DEF Sound, Records, Others
    <2>3. dir' = None => owner' = None /\ ~ready'
      BY <1>1 DEF Sound, Records, Empty
    <2> QED BY <2>2, <2>3 DEF Records
  <1>8. Sound'
    BY <1>1, <1>2, <1>3, <1>5, <1>6, <1>7, SoundKept
  <1>9. ASSUME mishaps' = {} PROVE Lawful'
    <2>1. Lawful
      BY <1>9 DEF JobInv
    <2>2. Alive(Caller(j))
      BY <1>2 DEF Alive, Loop, Ended
    <2>3. \A k \in Jobs : k # j => Spared(k)
      BY <1>9, <2>1 DEF Spared
    <2>4. Locked(j)'
      BY <1>2, <1>4 DEF Locked, Loop, Releasing
    <2>5. Stated(j)'
      BY <1>2, <1>4 DEF Stated, Loop
    <2>6. ReadyOwned'
      BY <1>2, <2>1 DEF Lawful, ReadyOwned, Others, Loop
    <2>7. Paged'
      <3>1. pc[Caller(j)] # "queued"
        BY <1>2 DEF Loop
      <3> QED BY <1>1, <1>2, <2>1, <3>1, PagedKept DEF Sound, Lawful, Over
    <2> QED BY <1>1, <1>2, <1>9, <2>1, <2>2, <2>3, <2>4, <2>5, <2>6, <2>7, LawfulKept
  <1> QED BY <1>8, <1>9 DEF JobInv

\* rmdir takes the directory of no other call that is about to publish in it.
LEMMA RmdirFacts ==
    ASSUME Sound, NEW j \in Jobs, Rmdir(j)
    PROVE  /\ dir' \in Jobs \cup {None} /\ (dir' = None => dir = None \/ Empty)
           /\ dir' = dir \/ (Empty /\ dir' = None)
           /\ mishaps \subseteq mishaps' /\ mishaps' \subseteq Mishaps
           /\ mishaps' = {} /\ Lawful => \A k \in Jobs : k # j /\ pc[Caller(k)] = "publish" => dir' = dir
  <1>1. /\ dir' \in Jobs \cup {None} /\ (dir' = None => dir = None \/ Empty)
        /\ dir' = dir \/ (Empty /\ dir' = None)
    BY DEF Sound, JobTypeOK, LockOK, Rmdir
  <1>2. mishaps \subseteq mishaps' /\ mishaps' \subseteq Mishaps
    BY DEF Sound, JobTypeOK, Rmdir, Mishap, Mishaps
  <1>3. ASSUME mishaps' = {}, Lawful, NEW k \in Jobs, k # j, pc[Caller(k)] = "publish"
        PROVE  dir' = dir
    <2>1. dir = k
      BY <1>3 DEF Lawful, Locked
    <2>2. ~Empty
      BY <1>3, <2>1 DEF Rmdir, Mishap
    <2> QED BY <2>2 DEF Rmdir
  <1> QED BY <1>1, <1>2, <1>3

LEMMA StartStep ==
    ASSUME JobInv, NEW j \in Jobs, Start(j), UNCHANGED <<state, page, gone, bounds>>
    PROVE  JobInv'
  <1> DEFINE company == {Job(p) : p \in {q \in Procs : Alive(q)}}
  <1>1. Sound
    BY DEF JobInv
  <1>2. CallerMove(j, {"idle"}, {"mkdir"})
    BY <1>1, CallerGoes DEF Start, Sound, JobTypeOK, CallerPCs, Loop
  <1>3. pc[Caller(j)] = "idle" /\ pc'[Caller(j)] = "mkdir" /\ pc'[Worker(j)] = pc[Worker(j)]
        /\ Others(j) /\ PcOK'
    BY <1>2 DEF CallerMove
  <1>4. pc[Worker(j)] = "idle" /\ tries[j] = 0
    BY <1>1, <1>3 DEF Sound, Forked, Releasing
  <1>5. UNCHANGED <<dir, owner, ready, state, page, gone, tries, seen, mishaps, deaths, fails>>
    BY DEF Start, jobLock, bounds
  <1>6. company \subseteq Jobs
    BY ProcFacts
  <1>7. met' = met \/ met' = met \cup company \cup {j}
    BY DEF Start
  <1>8. met \subseteq met' /\ met' \subseteq Jobs
    BY <1>1, <1>6, <1>7 DEF Sound, JobTypeOK
  <1>9. \A p \in Procs : Alive(p) => j \in met' /\ Job(p) \in met'
    BY DEF Start
  <1>10. \A q \in Procs : q # Caller(j) => pc'[q] = pc[q]
    BY <1>3, ProcFacts DEF Others
  <1>11. JobTypeOK'
    BY <1>1, <1>3, <1>5, <1>8 DEF Sound, JobTypeOK, LockOK, PageOK
  <1>12. ASSUME NEW k \in Jobs PROVE Forked(k)' /\ Judged(k)'
    <2>1. CASE k = j
      BY <2>1, <1>3, <1>4 DEF Forked, Judged, Releasing
    <2>2. CASE k # j
      <3>1. Forked(k)'
        BY <1>1, <1>3, <1>5, <2>2, ForkedKept DEF Others, Sound
      <3>2. Judged(k)'
        BY <1>1, <1>3, <1>5, <1>10, <2>2, ProcFacts DEF Others, Sound, Judged, Alive
      <3> QED BY <3>1, <3>2
    <2> QED BY <2>1, <2>2
  <1>13. Records'
    <2>1. owner # Caller(j) /\ owner # Worker(j)
      BY <1>1, <1>3, <1>4 DEF Sound, Records
    <2>2. ASSUME NEW k \in Jobs
          PROVE  /\ owner' = Caller(k) => pc'[Caller(k)] \notin Loop \cup {"idle", "refused"}
                 /\ owner' = Worker(k) => pc'[Worker(k)] # "idle"
      BY <1>1, <1>3, <1>5, <2>1 DEF Sound, Records, Others
    <2>3. dir' = None => owner' = None /\ ~ready'
      BY <1>1, <1>5 DEF Sound, Records
    <2> QED BY <2>2, <2>3 DEF Records
  <1>14. Company'
    <2> SUFFICES ASSUME NEW p \in Procs, NEW q \in Procs, Alive(p)', Alive(q)', Job(p) # Job(q)
                 PROVE  Job(p) \in met'
      BY DEF Company
    <2>1. Alive(p) \/ p = Caller(j)
      BY <1>10 DEF Alive
    <2>2. Alive(q) \/ q = Caller(j)
      BY <1>10 DEF Alive
    <2> QED BY <2>1, <2>2, <1>9, ProcFacts
  <1>15. Sound'
    BY <1>11, <1>12, <1>13, <1>14 DEF Sound
  <1>16. ASSUME mishaps' = {} PROVE Lawful'
    <2>1. Lawful
      BY <1>5, <1>16 DEF JobInv
    <2>2. ASSUME NEW k \in Jobs PROVE Locked(k)' /\ Stated(k)'
      <3>1. CASE k = j
        BY <3>1, <1>3, <1>4 DEF Locked, Stated, Releasing
      <3>2. CASE k # j
        BY <3>2, <1>3, <1>5, <2>1, SparedStays, LockUntouched DEF Others, Lawful, jobLock
      <3> QED BY <3>1, <3>2
    <2>3. ASSUME NEW k \in Jobs \ met' PROVE OneWay(k)'
      <3>1. CASE k = j
        BY <3>1, <1>3, <1>4, <1>5 DEF OneWay, Loop
      <3>2. CASE k # j
        <4>1. ~Alive(Caller(k))
          BY <1>9, <2>3, ProcFacts
        <4>2. k \notin met
          BY <1>8, <2>3
        <4>3. pc[Caller(k)] \in {"idle", "queued", "failed", "gave up", "ended", "dead"}
          BY <2>1, <2>3, <4>1, <4>2 DEF OneWay, Alive, Ended, Lawful
        <4>4. pc'[Caller(k)] \in {"idle", "queued", "failed", "gave up", "ended", "dead"}
          BY <1>3, <2>3, <3>2, <4>3 DEF Others
        <4> QED BY <4>4 DEF OneWay, Loop
      <3> QED BY <3>1, <3>2
    <2>4. ReadyOwned'
      BY <1>3, <1>5, <2>1 DEF Lawful, ReadyOwned, Others
    <2>5. Paged'
      BY <1>1, <1>3, <1>5, <2>1, PagedKept DEF Sound, Lawful, Over
    <2> QED BY <2>2, <2>3, <2>4, <2>5 DEF Lawful
  <1> QED BY <1>15, <1>16 DEF JobInv

\* A call that nobody has met and that has come this far has found its leftover alone.
LEMMA AloneFacts ==
    ASSUME Sound, NEW j \in Jobs, j \notin met, Alive(Caller(j)), NEW p \in Procs, Job(p) # j
    PROVE  ~Alive(p)
  BY ProcFacts DEF Sound, Company

LEMMA MkdirStep ==
    ASSUME JobInv, NEW j \in Jobs, Mkdir(j), UNCHANGED <<state, page, gone, bounds>>
    PROVE  JobInv'
  <1>1. Sound /\ PcOK /\ dir \in Jobs \cup {None} /\ owner \in Procs \cup {None}
        /\ tries \in [Jobs -> 0..Attempts] /\ seen \in [Jobs -> Procs \cup {None}]
        /\ mishaps \subseteq Mishaps
    BY DEF JobInv, Sound, JobTypeOK, LockOK
  <1>2. UNCHANGED <<owner, ready, state, page, gone, seen, met, mishaps, bounds>>
    BY DEF Mkdir
  <1>3. CASE tries[j] < Attempts /\ tries' = [tries EXCEPT ![j] = @ + 1]
             /\ dir # None /\ Goto(Caller(j), "mkdir", "look") /\ UNCHANGED dir
    <2>1. CallerMove(j, {"mkdir"}, {"look"})
      BY <1>1, <1>3, CallerGoes DEF CallerPCs, Loop
    <2>2. tries' \in [Jobs -> 0..Attempts] /\ tries'[j] = tries[j] + 1
          /\ \A k \in Jobs : k # j => tries'[k] = tries[k]
      BY <1>1, <1>3, JobAssumption
    <2>3. Judged(j)'
      BY <2>1 DEF CallerMove, Judged
    <2>4. ASSUME Lawful, j \notin met PROVE OneWay(j)'
      <3>1. tries[j] = 0
        BY <1>3, <2>1, <2>4 DEF Lawful, OneWay, CallerMove
      <3> QED BY <1>3, <2>1, <2>2, <3>1 DEF OneWay, CallerMove, Loop
    <2>5. {"mkdir"} \subseteq Loop /\ {"look"} \subseteq (Loop \ {"publish", "remove"}) \cup {"refused"}
      BY DEF Loop
    <2> QED BY <1>1, <1>2, <1>3, <2>1, <2>2, <2>3, <2>4, <2>5, Wander
  <1>4. CASE tries[j] = Attempts /\ Goto(Caller(j), "mkdir", "refused") /\ UNCHANGED <<dir, tries>>
    <2>1. CallerMove(j, {"mkdir"}, {"refused"})
      BY <1>1, <1>4, CallerGoes DEF CallerPCs
    <2>2. Judged(j)'
      BY <2>1 DEF CallerMove, Judged
    <2>3. Lawful => j \in met
      <3>1. ~(tries[j] = 0 \/ tries[j] = 1)
        BY <1>4, JobAssumption
      <3> QED BY <2>1, <3>1 DEF Lawful, OneWay, CallerMove
    <2>4. {"mkdir"} \subseteq Loop /\ {"refused"} \subseteq (Loop \ {"publish", "remove"}) \cup {"refused"}
      BY DEF Loop
    <2> QED BY <1>1, <1>2, <1>4, <2>1, <2>2, <2>3, <2>4, Wander
  <1>5. CASE tries[j] < Attempts /\ tries' = [tries EXCEPT ![j] = @ + 1]
             /\ dir = None /\ dir' = j /\ Goto(Caller(j), "mkdir", "publish")
    <2>1. CallerMove(j, {"mkdir"}, {"publish"})
      BY <1>1, <1>5, CallerGoes DEF CallerPCs, Loop
    <2>2. pc[Caller(j)] = "mkdir" /\ pc'[Caller(j)] = "publish" /\ pc'[Worker(j)] = pc[Worker(j)]
          /\ Others(j) /\ PcOK'
      BY <2>1 DEF CallerMove
    <2>3. pc[Worker(j)] = "idle"
      BY <1>1, <2>2 DEF Sound, Forked, Releasing
    <2>4. tries' \in [Jobs -> 0..Attempts] /\ \A k \in Jobs : k # j => tries'[k] = tries[k]
      BY <1>1, <1>5, JobAssumption
    <2>5. owner = None /\ ~ready
      BY <1>1, <1>5 DEF Sound, Records
    <2>6. JobTypeOK'
      <3>1. LockOK' /\ PageOK'
        BY <1>1, <1>2, <1>5 DEF Sound, JobTypeOK, LockOK, PageOK
      <3> QED BY <1>1, <1>2, <2>2, <2>4, <3>1 DEF Sound, JobTypeOK, bounds
    <2>7. Forked(j)' /\ Judged(j)'
      BY <2>2, <2>3 DEF Forked, Judged, Releasing
    <2>8. Records'
      BY <1>2, <1>5, <2>5, ProcFacts DEF Records
    <2>9. Waning
      BY <2>1, CallerWanes DEF Ended
    <2>10. Sound'
      BY <1>1, <1>2, <2>2, <2>4, <2>6, <2>7, <2>8, <2>9, SoundKept
    <2>11. ASSUME mishaps' = {} PROVE Lawful'
      <3>1. Lawful
        BY <1>2, <2>11 DEF JobInv
      <3>2. ASSUME NEW k \in Jobs, k # j PROVE Spared(k)
        <4>1. pc[Caller(k)] # "publish"
          BY <1>5, <3>1, ProcFacts DEF Lawful, Locked
        <4> QED BY <1>2, <4>1 DEF Spared
      <3>3. Locked(j)' /\ Stated(j)'
        BY <1>2, <1>5, <2>2, <2>3, <2>5 DEF Locked, Stated, Releasing
      <3>4. OneWay(j)'
        BY <2>2 DEF OneWay
      <3>5. ReadyOwned'
        BY <1>2, <2>5 DEF ReadyOwned
      <3>6. Paged'
        BY <1>1, <1>2, <2>2, <3>1, PagedKept DEF Sound, Lawful, Over
      <3>7. Alive(Caller(j))
        BY <2>2 DEF Alive, Ended
      <3> QED BY <1>1, <1>2, <2>2, <3>1, <3>2, <3>3, <3>4, <3>5, <3>6, <3>7, LawfulKept
    <2> QED BY <2>10, <2>11 DEF JobInv
  <1> QED BY <1>3, <1>4, <1>5 DEF Mkdir

LEMMA UnpublishStep ==
    ASSUME JobInv, NEW j \in Jobs, Unpublish(j), UNCHANGED <<state, page, gone, bounds>>
    PROVE  JobInv'
  <1>1. Sound /\ PcOK /\ tries \in [Jobs -> 0..Attempts] /\ seen \in [Jobs -> Procs \cup {None}]
    BY DEF JobInv, Sound, JobTypeOK
  <1>2. UNCHANGED <<owner, ready, tries, state, page, gone, seen, met, bounds>> /\ Rmdir(j)
    BY DEF Unpublish
  <1>3. CallerMove(j, {"unpublish"}, {"refused"})
    BY <1>1, CallerGoes DEF Unpublish, CallerPCs
  <1>4. Judged(j)'
    BY <1>3 DEF CallerMove, Judged
  <1>5. Lawful => j \in met
    BY <1>3 DEF Lawful, OneWay, CallerMove
  <1>6. {"unpublish"} \subseteq Loop /\ {"refused"} \subseteq (Loop \ {"publish", "remove"}) \cup {"refused"}
    BY DEF Loop
  <1> QED BY <1>1, <1>2, <1>3, <1>4, <1>5, <1>6, RmdirFacts, Wander

LEMMA LookStep ==
    ASSUME JobInv, NEW j \in Jobs, Look(j), UNCHANGED <<state, page, gone, bounds>>
    PROVE  JobInv'
  <1>1. Sound /\ PcOK /\ tries \in [Jobs -> 0..Attempts] /\ seen \in [Jobs -> Procs \cup {None}]
        /\ mishaps \subseteq Mishaps /\ dir \in Jobs \cup {None}
    BY DEF JobInv, Sound, JobTypeOK, LockOK
  <1>2. UNCHANGED <<dir, owner, ready, tries, state, page, gone, seen, met, mishaps, bounds>>
    BY DEF Look, jobLock
  <1>3. ASSUME NEW from \in {"look", "wait"}, NEW to \in {"refused", "wait", "read", "sweep"},
               Goto(Caller(j), from, to),
               Lawful /\ j \notin met =>
                   to # "refused" /\ (to = "read" => owner # None) /\ (to # "read" => owner = None)
        PROVE  JobInv'
    <2>1. CallerMove(j, {from}, {to})
      BY <1>1, <1>3, CallerGoes DEF CallerPCs, Loop
    <2>2. Judged(j)'
      BY <2>1 DEF CallerMove, Judged
    <2>3. ASSUME Lawful, j \notin met PROVE OneWay(j)'
      <3>1. tries[j] = 1 /\ dir # None
        BY <2>1, <2>3 DEF Lawful, OneWay, CallerMove, Loop
      <3> QED BY <1>2, <1>3, <2>1, <2>3, <3>1 DEF OneWay, CallerMove
    <2>4. {from} \subseteq Loop /\ {to} \subseteq (Loop \ {"publish", "remove"}) \cup {"refused"}
      BY DEF Loop
    <2> QED BY <1>1, <1>2, <2>1, <2>2, <2>3, <2>4, Wander
  <1>4. CASE Goto(Caller(j), "look", IF dir = None THEN "refused" ELSE IF owner = None THEN "wait" ELSE "read")
    <2>1. Lawful /\ j \notin met => dir # None
      BY <1>4 DEF Lawful, OneWay, Goto, Loop
    <2>2. CASE dir = None
      BY <1>3, <1>4, <2>1, <2>2
    <2>3. CASE dir # None /\ owner = None
      BY <1>3, <1>4, <2>3
    <2>4. CASE dir # None /\ owner # None
      BY <1>3, <1>4, <2>4
    <2> QED BY <2>2, <2>3, <2>4
  <1>5. CASE Goto(Caller(j), "wait", IF owner = None THEN "sweep" ELSE "read")
    <2>1. CASE owner = None
      BY <1>3, <1>5, <2>1
    <2>2. CASE owner # None
      BY <1>3, <1>5, <2>2
    <2> QED BY <2>1, <2>2
  <1> QED BY <1>4, <1>5 DEF Look

LEMMA ReadStep ==
    ASSUME JobInv, NEW j \in Jobs, Read(j), UNCHANGED <<state, page, gone, bounds>>
    PROVE  JobInv'
  <1>1. Sound /\ PcOK /\ tries \in [Jobs -> 0..Attempts] /\ seen \in [Jobs -> Procs \cup {None}]
        /\ mishaps \subseteq Mishaps /\ dir \in Jobs \cup {None} /\ owner \in Procs \cup {None}
    BY DEF JobInv, Sound, JobTypeOK, LockOK
  <1>2. UNCHANGED <<dir, owner, ready, tries, state, page, gone, met, mishaps, bounds>>
    BY DEF Read, jobLock
  <1>3. seen' \in [Jobs -> Procs \cup {None}] /\ seen'[j] = owner
        /\ \A k \in Jobs : k # j => seen'[k] = seen[k]
    BY <1>1 DEF Read
  <1>4. {"read"} \subseteq Loop /\ {"refused"} \subseteq (Loop \ {"publish", "remove"}) \cup {"refused"}
        /\ {"judge"} \subseteq (Loop \ {"publish", "remove"}) \cup {"refused"}
    BY DEF Loop
  <1>5. CASE owner = None
    <2>1. CallerMove(j, {"read"}, {"refused"})
      BY <1>1, <1>5, CallerGoes DEF CallerPCs, Read
    <2>2. Judged(j)'
      BY <2>1 DEF CallerMove, Judged
    <2>3. Lawful => j \in met
      BY <1>5, <2>1 DEF Lawful, OneWay, CallerMove
    <2> QED BY <1>1, <1>2, <1>3, <1>4, <2>1, <2>2, <2>3, Wander
  <1>6. CASE owner # None
    <2>1. CallerMove(j, {"read"}, {"judge"})
      BY <1>1, <1>6, CallerGoes DEF CallerPCs, Read, Loop
    <2>2. Judged(j)'
      <3>1. owner \in Procs /\ pc[owner] # "idle"
        BY <1>1, <1>6, ProcFacts DEF Sound, Records
      <3>2. owner # Caller(j)
        BY <1>1, <2>1 DEF Sound, Records, CallerMove, Loop
      <3>3. pc'[owner] = pc[owner]
        <4>1. CASE owner = Worker(j)
          BY <2>1, <4>1 DEF CallerMove
        <4>2. CASE owner # Worker(j)
          BY <2>1, <3>1, <3>2, <4>2, ProcFacts DEF CallerMove, Others
        <4> QED BY <4>1, <4>2
      <3> QED BY <1>3, <2>1, <3>1, <3>3 DEF Judged, CallerMove
    <2>3. ASSUME Lawful, j \notin met PROVE OneWay(j)'
      <3>1. tries[j] = 1 /\ dir # None
        BY <2>1, <2>3 DEF Lawful, OneWay, CallerMove, Loop
      <3> QED BY <1>2, <1>3, <2>1, <3>1 DEF OneWay, CallerMove
    <2> QED BY <1>1, <1>2, <1>3, <1>4, <2>1, <2>2, <2>3, Wander
  <1> QED BY <1>5, <1>6

LEMMA JudgeStep ==
    ASSUME JobInv, NEW j \in Jobs, Judge(j), UNCHANGED <<state, page, gone, bounds>>
    PROVE  JobInv'
  <1>1. Sound /\ PcOK /\ tries \in [Jobs -> 0..Attempts] /\ seen \in [Jobs -> Procs \cup {None}]
        /\ mishaps \subseteq Mishaps /\ dir \in Jobs \cup {None}
    BY DEF JobInv, Sound, JobTypeOK, LockOK
  <1>2. UNCHANGED <<dir, owner, ready, tries, state, page, gone, seen, met, mishaps, bounds>>
    BY DEF Judge, jobLock
  <1>3. {"judge"} \subseteq Loop /\ {"refused"} \subseteq (Loop \ {"publish", "remove"}) \cup {"refused"}
        /\ {"compare"} \subseteq (Loop \ {"publish", "remove"}) \cup {"refused"}
    BY DEF Loop
  <1>4. CASE Goto(Caller(j), "judge", "refused") /\ MayExist(seen[j])
    <2>1. CallerMove(j, {"judge"}, {"refused"})
      BY <1>1, <1>4, CallerGoes DEF CallerPCs
    <2>2. Judged(j)'
      BY <2>1 DEF CallerMove, Judged
    <2>3. ASSUME Lawful, j \notin met PROVE FALSE
      <3>1. Alive(Caller(j)) /\ pc[Worker(j)] = "idle"
        BY <1>1, <2>1 DEF CallerMove, Alive, Ended, Sound, Forked, Releasing
      <3>2. seen[j] \in Procs /\ seen[j] = owner /\ pc[seen[j]] # "idle"
        BY <1>1, <2>1, <2>3 DEF Sound, Judged, Lawful, OneWay, CallerMove
      <3>3. owner # Caller(j) /\ owner # Worker(j)
        BY <1>1, <2>1, <3>1, <3>2 DEF Sound, Records, CallerMove, Loop
      <3>4. Job(seen[j]) \in Jobs /\ Job(seen[j]) # j
        BY <3>2, <3>3, ProcFacts
      <3>5. ~Alive(seen[j]) /\ ~Alive(Caller(Job(seen[j])))
        BY <1>1, <2>3, <3>1, <3>2, <3>4, AloneFacts, ProcFacts
      <3> QED BY <1>4, <3>5 DEF MayExist
    <2> QED BY <1>1, <1>2, <1>3, <2>1, <2>2, <2>3, Wander
  <1>5. CASE Goto(Caller(j), "judge", "compare") /\ ~Alive(seen[j])
    <2>1. CallerMove(j, {"judge"}, {"compare"})
      BY <1>1, <1>5, CallerGoes DEF CallerPCs, Loop
    <2>2. Judged(j)'
      <3>1. seen[j] \in Procs /\ pc[seen[j]] # "idle"
        BY <1>1, <2>1 DEF Sound, Judged, CallerMove
      <3>2. Waning
        BY <2>1, CallerWanes DEF Ended
      <3> QED BY <1>2, <1>5, <2>1, <3>1, <3>2 DEF Judged, CallerMove, Waning, Alive
    <2>3. ASSUME Lawful, j \notin met PROVE OneWay(j)'
      <3>1. tries[j] = 1 /\ dir # None /\ owner = seen[j]
        BY <2>1, <2>3 DEF Lawful, OneWay, CallerMove, Loop
      <3> QED BY <1>2, <2>1, <3>1 DEF OneWay, CallerMove
    <2> QED BY <1>1, <1>2, <1>3, <2>1, <2>2, <2>3, Wander
  <1> QED BY <1>4, <1>5 DEF Judge

LEMMA CompareStep ==
    ASSUME JobInv, NEW j \in Jobs, Compare(j), UNCHANGED <<state, page, gone, bounds>>
    PROVE  JobInv'
  <1>1. Sound /\ PcOK /\ tries \in [Jobs -> 0..Attempts] /\ seen \in [Jobs -> Procs \cup {None}]
        /\ mishaps \subseteq Mishaps /\ dir \in Jobs \cup {None}
    BY DEF JobInv, Sound, JobTypeOK, LockOK
  <1>2. UNCHANGED <<dir, owner, ready, tries, state, page, gone, seen, met, mishaps, bounds>>
    BY DEF Compare, jobLock
  <1>3. {"compare"} \subseteq Loop /\ {"refused"} \subseteq (Loop \ {"publish", "remove"}) \cup {"refused"}
        /\ {"unready"} \subseteq (Loop \ {"publish", "remove"}) \cup {"refused"}
    BY DEF Loop
  <1>4. CASE owner # seen[j]
    <2>1. CallerMove(j, {"compare"}, {"refused"})
      BY <1>1, <1>4, CallerGoes DEF CallerPCs, Compare
    <2>2. Judged(j)'
      BY <2>1 DEF CallerMove, Judged
    <2>3. Lawful => j \in met
      BY <1>4, <2>1 DEF Lawful, OneWay, CallerMove
    <2> QED BY <1>1, <1>2, <1>3, <2>1, <2>2, <2>3, Wander
  <1>5. CASE owner = seen[j]
    <2>1. CallerMove(j, {"compare"}, {"unready"})
      BY <1>1, <1>5, CallerGoes DEF CallerPCs, Loop, Compare
    <2>2. Judged(j)'
      <3>1. seen[j] \in Procs /\ pc[seen[j]] # "idle" /\ ~Alive(seen[j])
        BY <1>1, <2>1 DEF Sound, Judged, CallerMove
      <3>2. Waning
        BY <2>1, CallerWanes DEF Ended
      <3> QED BY <1>2, <2>1, <3>1, <3>2 DEF Judged, CallerMove, Waning, Alive
    <2>3. ASSUME Lawful, j \notin met PROVE OneWay(j)'
      <3>1. tries[j] = 1 /\ dir # None
        BY <2>1, <2>3 DEF Lawful, OneWay, CallerMove, Loop
      <3> QED BY <1>2, <1>5, <2>1, <3>1 DEF OneWay, CallerMove
    <2> QED BY <1>1, <1>2, <1>3, <2>1, <2>2, <2>3, Wander
  <1> QED BY <1>4, <1>5

LEMMA RecoverStep ==
    ASSUME JobInv, NEW j \in Jobs, Recover(j), UNCHANGED <<state, page, gone, bounds>>
    PROVE  JobInv'
  <1>1. Sound /\ PcOK /\ tries \in [Jobs -> 0..Attempts] /\ seen \in [Jobs -> Procs \cup {None}]
    BY DEF JobInv, Sound, JobTypeOK
  <1>2. UNCHANGED <<owner, ready, tries, state, page, gone, seen, met, bounds>> /\ Rmdir(j)
    BY DEF Recover
  <1>3. {"sweep", "rmdir"} \subseteq Loop /\ {"refused"} \subseteq (Loop \ {"publish", "remove"}) \cup {"refused"}
        /\ {"mkdir"} \subseteq (Loop \ {"publish", "remove"}) \cup {"refused"}
    BY DEF Loop
  <1>4. PICK from \in {"sweep", "rmdir"} : Goto(Caller(j), from, IF Empty THEN "mkdir" ELSE "refused")
    BY DEF Recover
  <1>5. CASE ~Empty
    <2>1. CallerMove(j, {from}, {"refused"})
      BY <1>1, <1>4, <1>5, CallerGoes DEF CallerPCs
    <2>2. CallerMove(j, {"sweep", "rmdir"}, {"refused"})
      BY <2>1 DEF CallerMove
    <2>3. Judged(j)'
      BY <2>1 DEF CallerMove, Judged
    <2>4. ASSUME Lawful, j \notin met PROVE FALSE
      <3>1. dir # None /\ owner = None
        BY <2>2, <2>4 DEF Lawful, OneWay, CallerMove, Loop
      <3>2. ~ready
        BY <2>4, <3>1, ProcFacts DEF Lawful, ReadyOwned
      <3> QED BY <1>5, <3>1, <3>2 DEF Empty
    <2> QED BY <1>1, <1>2, <1>3, <2>2, <2>3, <2>4, RmdirFacts, Wander
  <1>6. CASE Empty
    <2>1. CallerMove(j, {from}, {"mkdir"})
      BY <1>1, <1>4, <1>6, CallerGoes DEF CallerPCs, Loop
    <2>2. CallerMove(j, {"sweep", "rmdir"}, {"mkdir"})
      BY <2>1 DEF CallerMove
    <2>3. Judged(j)'
      BY <2>1 DEF CallerMove, Judged
    <2>4. ASSUME Lawful, j \notin met PROVE OneWay(j)'
      <3>1. tries[j] = 1
        BY <2>2, <2>4 DEF Lawful, OneWay, CallerMove, Loop
      <3>2. dir' = None
        BY <1>2, <1>6 DEF Rmdir
      <3> QED BY <1>2, <2>2, <3>1, <3>2 DEF OneWay, CallerMove
    <2> QED BY <1>1, <1>2, <1>3, <2>2, <2>3, <2>4, RmdirFacts, Wander
  <1> QED BY <1>5, <1>6

\* A history of mishaps only grows.
LEMMA MishapFacts ==
    ASSUME mishaps \subseteq Mishaps, NEW what \in Mishaps, NEW happened, Mishap(what, happened)
    PROVE  /\ mishaps \subseteq mishaps' /\ mishaps' \subseteq Mishaps
           /\ mishaps' = {} => mishaps = {} /\ ~happened
  BY DEF Mishap, Mishaps

LEMMA PublishStep ==
    ASSUME JobInv, NEW j \in Jobs, PublishOwner(j), UNCHANGED <<state, page, gone, bounds>>
    PROVE  JobInv'
  <1>1. Sound /\ PcOK /\ dir \in Jobs \cup {None} /\ owner \in Procs \cup {None}
        /\ tries \in [Jobs -> 0..Attempts] /\ seen \in [Jobs -> Procs \cup {None}]
        /\ mishaps \subseteq Mishaps
    BY DEF JobInv, Sound, JobTypeOK, LockOK
  <1>2. UNCHANGED <<dir, ready, tries, seen, met, state, page, gone, bounds>>
    BY DEF PublishOwner
  <1>3. CASE dir = None /\ Goto(Caller(j), "publish", "unpublish") /\ UNCHANGED <<owner, mishaps>>
    <2>1. CallerMove(j, {"publish"}, {"unpublish"})
      BY <1>1, <1>3, CallerGoes DEF CallerPCs, Loop
    <2>2. Judged(j)'
      BY <2>1 DEF CallerMove, Judged
    <2>3. ~Lawful
      BY <1>3, <2>1, ProcFacts DEF Lawful, Locked, CallerMove
    <2>4. {"publish"} \subseteq Loop /\ {"unpublish"} \subseteq (Loop \ {"publish", "remove"}) \cup {"refused"}
      BY DEF Loop
    <2> QED BY <1>1, <1>2, <1>3, <2>1, <2>2, <2>3, <2>4, Wander
  <1>4. CASE dir # None /\ owner' = Caller(j) /\ Goto(Caller(j), "publish", "mark") /\ Mishap("late", dir # j)
    <2>1. CallerMove(j, {"publish"}, {"mark"})
      BY <1>1, <1>4, CallerGoes DEF CallerPCs, Spawning
    <2>2. pc[Caller(j)] = "publish" /\ pc'[Caller(j)] = "mark" /\ pc'[Worker(j)] = pc[Worker(j)]
          /\ Others(j) /\ PcOK'
      BY <2>1 DEF CallerMove
    <2>3. pc[Worker(j)] = "idle"
      BY <1>1, <2>2 DEF Sound, Forked, Releasing
    <2>4. mishaps' \subseteq Mishaps /\ (mishaps' = {} => mishaps = {})
      BY <1>1, <1>4 DEF Mishap, Mishaps
    <2>5. JobTypeOK'
      <3>1. LockOK' /\ PageOK'
        BY <1>1, <1>2, <1>4, ProcFacts DEF Sound, JobTypeOK, LockOK, PageOK
      <3> QED BY <1>1, <1>2, <2>2, <2>4, <3>1 DEF Sound, JobTypeOK, bounds
    <2>6. Forked(j)' /\ Judged(j)'
      BY <2>2, <2>3 DEF Forked, Judged, Releasing
    <2>7. Records'
      <3>1. \A k \in Jobs : owner' = Caller(k) => k = j
        BY <1>4, ProcFacts
      <3>2. \A k \in Jobs : owner' # Worker(k)
        BY <1>4, ProcFacts
      <3> QED BY <1>2, <1>4, <2>2, <3>1, <3>2 DEF Records, Loop
    <2>8. Waning
      BY <2>1, CallerWanes DEF Ended
    <2>9. Sound'
      BY <1>1, <1>2, <2>2, <2>5, <2>6, <2>7, <2>8, SoundKept
    <2>10. ASSUME mishaps' = {} PROVE Lawful'
      <3>1. Lawful
        BY <2>4, <2>10 DEF JobInv
      <3>2. dir = j /\ owner = None /\ ~ready
        BY <2>2, <3>1 DEF Lawful, Locked
      <3>3. ASSUME NEW k \in Jobs, k # j PROVE Spared(k)
        <4>1. pc[Caller(k)] \notin {"publish", "mark", "fork", "hand over"}
          BY <3>1, <3>2, <3>3, ProcFacts DEF Lawful, Locked
        <4>2. owner # Worker(k) /\ owner' # Caller(k) /\ owner' # Worker(k)
          BY <1>4, <3>2, <3>3, ProcFacts
        <4> QED BY <1>2, <4>1, <4>2 DEF Spared
      <3>4. Locked(j)' /\ Stated(j)'
        BY <1>2, <1>4, <2>2, <2>3 DEF Locked, Stated, Releasing
      <3>5. OneWay(j)'
        BY <2>2 DEF OneWay, Loop
      <3>6. ReadyOwned'
        BY <1>2, <3>2 DEF ReadyOwned
      <3>7. Paged'
        BY <1>1, <1>2, <2>2, <3>1, PagedKept DEF Sound, Lawful, Over
      <3>8. Alive(Caller(j))
        BY <2>2 DEF Alive, Ended
      <3> QED BY <1>1, <1>2, <2>2, <3>1, <3>3, <3>4, <3>5, <3>6, <3>7, <3>8, LawfulKept
    <2> QED BY <2>9, <2>10 DEF JobInv
  <1> QED BY <1>3, <1>4 DEF PublishOwner

LEMMA UnreadyStep ==
    ASSUME JobInv, NEW j \in Jobs, Unready(j), UNCHANGED <<state, page, gone, bounds>>
    PROVE  JobInv'
  <1>1. Sound /\ PcOK /\ mishaps \subseteq Mishaps
    BY DEF JobInv, Sound, JobTypeOK
  <1>2. UNCHANGED <<dir, owner, tries, seen, met, state, page, gone, bounds>> /\ ready' = FALSE
        /\ Mishap("robbed", ready /\ owner # seen[j])
    BY DEF Unready
  <1>3. CallerMove(j, {"unready"}, {"remove"})
    BY <1>1, CallerGoes DEF CallerPCs, Loop, Unready
  <1>4. pc[Caller(j)] = "unready" /\ pc'[Caller(j)] = "remove" /\ pc'[Worker(j)] = pc[Worker(j)]
        /\ Others(j) /\ PcOK'
    BY <1>3 DEF CallerMove
  <1>5. pc[Worker(j)] = "idle"
    BY <1>1, <1>4 DEF Sound, Forked, Releasing
  <1>6. mishaps' \subseteq Mishaps /\ (mishaps' = {} => mishaps = {})
    BY <1>1, <1>2 DEF Mishap, Mishaps
  <1>7. JobTypeOK'
    <2>1. LockOK' /\ PageOK'
      BY <1>1, <1>2 DEF Sound, JobTypeOK, LockOK, PageOK
    <2> QED BY <1>1, <1>2, <1>4, <1>6, <2>1 DEF Sound, JobTypeOK, bounds
  <1>8. Waning
    BY <1>3, CallerWanes DEF Ended
  <1>9. Forked(j)' /\ Judged(j)'
    <2>1. seen[j] \in Procs /\ pc[seen[j]] # "idle" /\ ~Alive(seen[j])
      BY <1>1, <1>4 DEF Sound, Judged
    <2>2. Judged(j)'
      BY <1>2, <1>8, <2>1 DEF Judged, Waning, Alive
    <2>3. Forked(j)'
      BY <1>4, <1>5 DEF Forked, Releasing
    <2> QED BY <2>2, <2>3
  <1>10. Records'
    <2>1. owner # Caller(j) /\ owner # Worker(j)
      BY <1>1, <1>4, <1>5 DEF Sound, Records, Loop
    <2> QED BY <1>1, <1>2, <1>4, <2>1 DEF Records, Sound, Others
  <1>11. Sound'
    BY <1>1, <1>2, <1>4, <1>7, <1>8, <1>9, <1>10, SoundKept
  <1>12. ASSUME mishaps' = {} PROVE Lawful'
    <2>1. Lawful
      BY <1>6, <1>12 DEF JobInv
    <2>2. ASSUME NEW k \in Jobs, k # j PROVE Spared(k)
      <3>1. pc[Caller(k)] = "publish" => ready' = ready
        BY <1>1, <1>2, <2>1 DEF Lawful, Locked, Sound, JobTypeOK, LockOK
      <3> QED BY <1>2, <3>1 DEF Spared
    <2>3. Locked(j)' /\ Stated(j)'
      BY <1>2, <1>4, <1>5 DEF Locked, Stated, Releasing
    <2>4. ASSUME j \notin met PROVE OneWay(j)'
      <3>1. tries[j] = 1 /\ dir # None /\ owner = seen[j]
        BY <1>4, <2>1, <2>4 DEF Lawful, OneWay, Loop
      <3> QED BY <1>2, <1>4, <3>1 DEF OneWay
    <2>5. ReadyOwned'
      BY <1>2 DEF ReadyOwned
    <2>6. Paged'
      BY <1>1, <1>2, <1>4, <2>1, PagedKept DEF Sound, Lawful, Over
    <2>7. Alive(Caller(j))
      BY <1>4 DEF Alive, Ended
    <2> QED BY <1>1, <1>2, <1>4, <2>1, <2>2, <2>3, <2>4, <2>5, <2>6, <2>7, LawfulKept
  <1> QED BY <1>11, <1>12 DEF JobInv

\* A record that is removed without a mishap is that of a process that has ended.
LEMMA RemoveStep ==
    ASSUME JobInv, NEW j \in Jobs, Remove(j), UNCHANGED <<state, page, gone, bounds>>
    PROVE  JobInv'
  <1>1. Sound /\ PcOK /\ mishaps \subseteq Mishaps
    BY DEF JobInv, Sound, JobTypeOK
  <1>2. UNCHANGED <<dir, ready, tries, seen, met, state, page, gone, bounds>> /\ owner' = None
        /\ Mishap("robbed", owner \notin {seen[j]} \cup {None})
    BY DEF Remove, RmOwner
  <1>3. CallerMove(j, {"remove"}, {"rmdir"})
    BY <1>1, CallerGoes DEF CallerPCs, Loop, Remove
  <1>4. pc[Caller(j)] = "remove" /\ pc'[Caller(j)] = "rmdir" /\ pc'[Worker(j)] = pc[Worker(j)]
        /\ Others(j) /\ PcOK'
    BY <1>3 DEF CallerMove
  <1>5. pc[Worker(j)] = "idle"
    BY <1>1, <1>4 DEF Sound, Forked, Releasing
  <1>6. mishaps' \subseteq Mishaps /\ (mishaps' = {} => mishaps = {} /\ (owner = seen[j] \/ owner = None))
    BY <1>1, <1>2 DEF Mishap, Mishaps
  <1>7. JobTypeOK'
    <2>1. LockOK' /\ PageOK'
      BY <1>1, <1>2 DEF Sound, JobTypeOK, LockOK, PageOK
    <2> QED BY <1>1, <1>2, <1>4, <1>6, <2>1 DEF Sound, JobTypeOK, bounds
  <1>8. Waning
    BY <1>3, CallerWanes DEF Ended
  <1>9. Forked(j)' /\ Judged(j)'
    BY <1>4, <1>5 DEF Forked, Releasing, Judged
  <1>10. Records'
    <2>1. dir' = None => ~ready'
      BY <1>1, <1>2 DEF Sound, Records
    <2> QED BY <1>2, <2>1, ProcFacts DEF Records
  <1>11. Sound'
    BY <1>1, <1>2, <1>4, <1>7, <1>8, <1>9, <1>10, SoundKept
  <1>12. ASSUME mishaps' = {} PROVE Lawful'
    <2>1. Lawful
      BY <1>6, <1>12 DEF JobInv
    <2>2. ~Alive(seen[j]) /\ ~ready /\ (owner = seen[j] \/ owner = None)
      BY <1>1, <1>4, <1>6, <1>12, <2>1 DEF Lawful, Locked, Sound, Judged
    <2>3. ASSUME NEW k \in Jobs, k # j PROVE Spared(k)
      <3>1. pc[Caller(k)] = "publish" => owner' = owner
        BY <1>2, <2>1 DEF Lawful, Locked
      <3>a. owner = None \/ ~Alive(owner)
        BY <2>2
      <3>b. Caller(k) # None /\ Worker(k) # None
        BY ProcFacts
      <3>2. pc[Caller(k)] \notin {"mark", "fork", "hand over"}
        <4>1. ASSUME owner = Caller(k) PROVE pc[Caller(k)] \in Ended
          BY <3>a, <3>b, <4>1 DEF Alive
        <4> QED BY <2>1, <4>1 DEF Lawful, Locked, Ended
      <3>3. ~(pc[Worker(k)] \in {"wait", "run", "report"} /\ owner = Worker(k))
        <4>1. ASSUME owner = Worker(k) PROVE pc[Worker(k)] \in Ended
          BY <3>a, <3>b, <4>1 DEF Alive
        <4> QED BY <4>1 DEF Ended
      <3>4. owner' \notin {Caller(k), Worker(k)}
        BY <1>2, ProcFacts
      <3> QED BY <1>2, <3>1, <3>2, <3>3, <3>4 DEF Spared
    <2>4. Locked(j)' /\ Stated(j)'
      BY <1>2, <1>4, <1>5, <2>2 DEF Locked, Stated, Releasing
    <2>5. ASSUME j \notin met PROVE OneWay(j)'
      <3>1. tries[j] = 1 /\ dir # None
        BY <1>4, <2>1, <2>5 DEF Lawful, OneWay, Loop
      <3> QED BY <1>2, <1>4, <2>2, <3>1 DEF OneWay
    <2>6. ReadyOwned'
      BY <1>2, <2>2 DEF ReadyOwned
    <2>7. Paged'
      BY <1>1, <1>2, <1>4, <2>1, PagedKept DEF Sound, Lawful, Over
    <2>8. Alive(Caller(j))
      BY <1>4 DEF Alive, Ended
    <2> QED BY <1>1, <1>2, <1>4, <2>1, <2>3, <2>4, <2>5, <2>6, <2>7, <2>8, LawfulKept
  <1> QED BY <1>11, <1>12 DEF JobInv

LEMMA AcquireStep ==
    ASSUME JobInv, NEW j \in Jobs, Acquire(j)
    PROVE  JobInv'
  BY StartStep, MkdirStep, PublishStep, UnpublishStep, LookStep, ReadStep, JudgeStep, CompareStep,
     UnreadyStep, RemoveStep, RecoverStep DEF Acquire

---------------------------------------------------------------------------
(* _spawn_update, the worker and the kills *)

Beyond == CallerPCs \ (Loop \cup {"idle", "refused"})

\* A step of a job whose caller is past the lock's loop.
LEMMA JobStep ==
    ASSUME JobInv, NEW j \in Jobs, Alive(Caller(j)) \/ Alive(Worker(j)), Others(j), PcOK', Waning,
           LockOK', state' = state \/ state' \in Jobs \X {"running", "done"},
           UNCHANGED <<tries, seen, page, gone, met>>,
           deaths' \in 0..MaxDeaths, fails' \in 0..MaxFails,
           mishaps' \subseteq Mishaps, mishaps' = {} => mishaps = {},
           Forked(j)', Records', pc'[Caller(j)] \in Beyond,
           pc[Caller(j)] = "queued" => pc'[Caller(j)] = "queued",
           mishaps' = {} /\ Lawful =>
               /\ Locked(j)' /\ Stated(j)' /\ ReadyOwned' /\ (Over(j) => Over(j)')
               /\ \A k \in Jobs : k # j => Spared(k)
               /\ state' = state \/ (\A k \in gone : state' # <<k, "done">>)
    PROVE  JobInv'
  <1>1. Sound
    BY DEF JobInv
  <1>2. JobTypeOK'
    <2>1. PageOK'
      BY <1>1 DEF Sound, JobTypeOK, PageOK
    <2> QED BY <1>1, <2>1 DEF Sound, JobTypeOK
  <1>3. Judged(j)'
    BY DEF Judged, Loop, Beyond
  <1>4. Sound'
    BY <1>1, <1>2, <1>3, SoundKept
  <1>5. ASSUME mishaps' = {} PROVE Lawful'
    <2>1. Lawful
      BY <1>5 DEF JobInv
    <2>2. OneWay(j)'
      BY DEF OneWay, Loop, Beyond
    <2>3. Paged'
      BY <1>1, <1>5, <2>1, PagedKept DEF Sound, Lawful
    <2> QED BY <1>1, <1>5, <2>1, <2>2, <2>3, LawfulKept
  <1> QED BY <1>4, <1>5 DEF JobInv

\* Nothing of the records changes with the processes of the job that owns one.
LEMMA RecordsKept ==
    ASSUME Records, UNCHANGED <<dir, owner, ready>>, NEW j \in Jobs, Others(j), Waning,
           pc'[Caller(j)] \in Beyond
    PROVE  Records'
  <1>1. dir' = None => owner' = None /\ ~ready'
    BY DEF Records
  <1>2. ASSUME NEW k \in Jobs
        PROVE  /\ owner' = Caller(k) => pc'[Caller(k)] \notin Loop \cup {"idle", "refused"}
               /\ owner' = Worker(k) => pc'[Worker(k)] # "idle"
    <2>1. pc'[Caller(k)] = pc[Caller(k)] \/ pc'[Caller(k)] \notin Loop \cup {"idle", "refused"}
      BY DEF Others, Beyond
    <2>2. pc[Worker(k)] # "idle" => pc'[Worker(k)] # "idle"
      BY ProcFacts DEF Waning
    <2> QED BY <2>1, <2>2 DEF Records
  <1> QED BY <1>1, <1>2 DEF Records

LEMMA ReadyKept ==
    ASSUME ReadyOwned, ready' => ready, owner' = owner, NEW j \in Jobs, Others(j),
           pc[Caller(j)] = "queued" => pc'[Caller(j)] = "queued"
    PROVE  ReadyOwned'
  BY DEF ReadyOwned, Others

\* A step that moves a job's own processes and touches nothing that another one looks at.
LEMMA Leave ==
    ASSUME JobInv, NEW j \in Jobs, Alive(Caller(j)) \/ Alive(Worker(j)), Others(j), PcOK', Waning,
           UNCHANGED <<dir, owner, ready, state, tries, seen, page, gone, met>>,
           deaths' \in 0..MaxDeaths, fails' \in 0..MaxFails,
           mishaps' \subseteq Mishaps, mishaps' = {} => mishaps = {},
           Forked(j)', pc'[Caller(j)] \in Beyond,
           pc[Caller(j)] = "queued" => pc'[Caller(j)] = "queued",
           mishaps' = {} /\ Lawful => Locked(j)' /\ Stated(j)' /\ (Over(j) => Over(j)')
    PROVE  JobInv'
  <1>1. Sound /\ LockOK'
    BY DEF JobInv, Sound, JobTypeOK, LockOK
  <1>2. Records'
    BY <1>1, RecordsKept DEF Sound
  <1>3. \A k \in Jobs : k # j => Spared(k)
    BY LockUntouched DEF jobLock
  <1>4. Lawful => ReadyOwned'
    BY ReadyKept DEF Lawful
  <1> QED BY <1>1, <1>2, <1>3, <1>4, JobStep

\* The bounds of a step that fails to write a file.
LEMMA FailFacts ==
    ASSUME JobTypeOK, Fail \/ UNCHANGED fails
    PROVE  fails' \in 0..MaxFails
  BY JobAssumption DEF JobTypeOK, Fail

LEMMA MarkStep ==
    ASSUME JobInv, NEW j \in Jobs, Mark(j), UNCHANGED <<tries, seen, page, gone, met, deaths>>
    PROVE  JobInv'
  <1>1. Sound /\ PcOK /\ JobTypeOK /\ LockOK /\ mishaps \subseteq Mishaps /\ deaths \in 0..MaxDeaths
    BY DEF JobInv, Sound, JobTypeOK
  <1>2. UNCHANGED <<dir, owner, ready, mishaps, tries, seen, page, gone, met, deaths>>
    BY DEF Mark, jobLock
  <1>3. pc[Caller(j)] = "mark" /\ pc[Worker(j)] = "idle" /\ Alive(Caller(j)) /\ ~Over(j)
    BY <1>1 DEF Mark, Goto, Sound, Forked, Releasing, Alive, Ended, Over
  <1>4. CASE Fail /\ Goto(Caller(j), "mark", "release") /\ UNCHANGED state
    <2>1. CallerMove(j, {"mark"}, {"release"})
      BY <1>1, <1>4, CallerGoes DEF CallerPCs, Releasing
    <2>2. Waning
      BY <2>1, CallerWanes DEF Ended
    <2>3. pc'[Caller(j)] = "release" /\ pc'[Worker(j)] = "idle" /\ Others(j) /\ PcOK'
      BY <1>3, <2>1 DEF CallerMove
    <2>4. Forked(j)' /\ Locked(j)' /\ Stated(j)'
      BY <2>3 DEF Forked, Locked, Stated, Releasing, Alive, Ended
    <2>5. pc'[Caller(j)] \in Beyond
      BY <2>3 DEF Beyond, CallerPCs, Loop, Releasing
    <2>6. fails' \in 0..MaxFails
      BY <1>1, <1>4, FailFacts
    <2> QED BY <1>1, <1>2, <1>3, <1>4, <2>2, <2>3, <2>4, <2>5, <2>6, Leave
  <1>5. CASE state' = <<j, "running">> /\ Goto(Caller(j), "mark", "fork") /\ UNCHANGED fails
    <2>1. CallerMove(j, {"mark"}, {"fork"})
      BY <1>1, <1>5, CallerGoes DEF CallerPCs, Spawning
    <2>2. Waning
      BY <2>1, CallerWanes DEF Ended
    <2>3. pc'[Caller(j)] = "fork" /\ pc'[Worker(j)] = "idle" /\ Others(j) /\ PcOK'
      BY <1>3, <2>1 DEF CallerMove
    <2>4. Forked(j)' /\ pc'[Caller(j)] \in Beyond
      BY <2>3 DEF Forked, Releasing, Beyond, CallerPCs, Loop, Spawning
    <2>5. Records'
      BY <1>1, <1>2, <2>2, <2>3, <2>4, RecordsKept DEF Sound
    <2>6. ASSUME Lawful
          PROVE  /\ Locked(j)' /\ Stated(j)' /\ ReadyOwned'
                 /\ \A k \in Jobs : k # j => Spared(k)
      <3>1. owner = Caller(j)
        BY <1>3, <2>6 DEF Lawful, Locked
      <3>2. ASSUME NEW k \in Jobs, k # j PROVE Spared(k)
        <4>1. owner # Caller(k) /\ owner # Worker(k)
          BY <3>1, <3>2, ProcFacts
        <4>2. pc[Caller(k)] \notin {"fork", "hand over"}
          BY <2>6, <4>1 DEF Lawful, Locked
        <4> QED BY <1>2, <4>1, <4>2 DEF Spared
      <3>3. Locked(j)' /\ Stated(j)'
        BY <1>2, <1>5, <2>3, <3>1 DEF Locked, Stated, Releasing
      <3>4. ReadyOwned'
        BY <1>2, <1>3, <2>3, <2>6, ReadyKept DEF Lawful
      <3> QED BY <3>2, <3>3, <3>4
    <2>7. (\A k \in gone : state' # <<k, "done">>) /\ state' \in Jobs \X {"running", "done"}
      BY <1>5
    <2>8. LockOK' /\ fails' \in 0..MaxFails
      BY <1>1, <1>2, <1>5, FailFacts DEF LockOK
    <2> QED BY <1>1, <1>2, <1>3, <2>2, <2>3, <2>4, <2>5, <2>6, <2>7, <2>8, JobStep
  <1> QED BY <1>4, <1>5 DEF Mark

\* Both processes of a job move.
LEMMA BothGo ==
    ASSUME PcOK, NEW j \in Jobs, NEW c \in CallerPCs, NEW w \in WorkerPCs,
           pc' = [pc EXCEPT ![Caller(j)] = c, ![Worker(j)] = w]
    PROVE  pc'[Caller(j)] = c /\ pc'[Worker(j)] = w /\ Others(j) /\ PcOK'
  <1>1. pc'[Caller(j)] = c /\ pc'[Worker(j)] = w
        /\ \A q \in Procs : q # Caller(j) /\ q # Worker(j) => pc'[q] = pc[q]
    BY ProcFacts DEF PcOK
  <1>2. pc' \in [Procs -> CallerPCs \cup WorkerPCs]
    BY ProcFacts DEF PcOK
  <1>3. Others(j)
    BY <1>1, ProcFacts DEF Others
  <1>4. PcOK'
    <2> SUFFICES ASSUME NEW k \in Jobs
                 PROVE  pc'[Caller(k)] \in CallerPCs /\ pc'[Worker(k)] \in WorkerPCs
      BY <1>2 DEF PcOK
    <2>1. CASE k = j
      BY <2>1, <1>1
    <2>2. CASE k # j
      BY <2>2, <1>3 DEF PcOK, Others
    <2> QED BY <2>1, <2>2
  <1> QED BY <1>1, <1>3, <1>4

LEMMA BothWane ==
    ASSUME NEW j \in Jobs, Others(j), Alive(Caller(j)), pc'[Caller(j)] # "idle",
           pc[Worker(j)] # "idle" => pc'[Worker(j)] # "idle",
           pc'[Worker(j)] \notin Ended => pc[Worker(j)] \notin Ended \ {"idle"}
    PROVE  Waning
  <1> SUFFICES ASSUME NEW q \in Procs
               PROVE  /\ pc[q] # "idle" => pc'[q] # "idle"
                      /\ pc'[q] \notin Ended =>
                            pc[q] \notin Ended \/ (pc[q] = "idle" /\ Alive(Caller(Job(q))))
    BY DEF Waning
  <1>1. CASE q = Caller(j)
    BY <1>1 DEF Alive
  <1>2. CASE q = Worker(j)
    BY <1>2, ProcFacts
  <1>3. CASE Job(q) # j
    BY <1>3, ProcFacts DEF Others
  <1> QED BY <1>1, <1>2, <1>3, ProcFacts

LEMMA ForkStep ==
    ASSUME JobInv, NEW j \in Jobs, Fork(j), UNCHANGED <<tries, seen, page, gone, met, deaths>>
    PROVE  JobInv'
  <1>1. Sound /\ PcOK /\ JobTypeOK /\ mishaps \subseteq Mishaps /\ deaths \in 0..MaxDeaths
        /\ fails \in 0..MaxFails
    BY DEF JobInv, Sound, JobTypeOK
  <1>2. UNCHANGED <<dir, owner, ready, state, mishaps, tries, seen, page, gone, met, deaths, fails>>
    BY DEF Fork, jobLock
  <1>3. pc[Caller(j)] = "fork" /\ pc[Worker(j)] = "idle" /\ Alive(Caller(j)) /\ ~Over(j)
    BY <1>1 DEF Fork, Sound, Forked, Releasing, Alive, Ended, Over
  <1>4. pc'[Caller(j)] = "hand over" /\ pc'[Worker(j)] = "wait" /\ Others(j) /\ PcOK'
    BY <1>1, BothGo DEF Fork, CallerPCs, WorkerPCs, Spawning
  <1>5. Waning
    BY <1>3, <1>4, BothWane
  <1>6. Forked(j)' /\ pc'[Caller(j)] \in Beyond
    BY <1>4 DEF Forked, Releasing, Beyond, CallerPCs, Loop, Spawning
  <1>7. ASSUME Lawful PROVE Locked(j)' /\ Stated(j)'
    <2>1. owner = Caller(j) /\ state = <<j, "running">>
      BY <1>3, <1>7 DEF Lawful, Locked, Stated
    <2> QED BY <1>2, <1>4, <2>1, ProcFacts DEF Locked, Stated, Releasing
  <1> QED BY <1>1, <1>2, <1>3, <1>4, <1>5, <1>6, <1>7, Leave

\* A call that fails kills its worker and goes to release the lock.
LEMMA UndoStep ==
    ASSUME JobInv, NEW j \in Jobs, NEW from \in {"hand over", "let go"}, Undo(j, from),
           UNCHANGED <<dir, owner, ready, state, mishaps, tries, seen, page, gone, met, deaths>>,
           Fail \/ UNCHANGED fails
    PROVE  JobInv'
  <1>1. Sound /\ PcOK /\ JobTypeOK /\ mishaps \subseteq Mishaps /\ deaths \in 0..MaxDeaths
    BY DEF JobInv, Sound, JobTypeOK
  <1> DEFINE w == IF Alive(Worker(j)) THEN "dead" ELSE pc[Worker(j)]
  <1>2. pc[Caller(j)] = from /\ pc' = [pc EXCEPT ![Caller(j)] = "release", ![Worker(j)] = w]
    <2>1. Worker(j) # Caller(j) /\ Worker(j) \in Procs /\ Caller(j) \in Procs
      BY ProcFacts
    <2> QED BY <1>1, <2>1 DEF Undo, PcOK
  <1>3. w \in WorkerPCs /\ w \in Ended
    BY <1>1 DEF PcOK, WorkerPCs, Alive, Ended
  <1> HIDE DEF w
  <1>4. pc'[Caller(j)] = "release" /\ pc'[Worker(j)] = w /\ Others(j) /\ PcOK'
    BY <1>1, <1>2, <1>3, BothGo DEF CallerPCs, Releasing
  <1>5. Alive(Caller(j)) /\ ~Over(j) /\ pc[Caller(j)] # "queued"
    BY <1>2 DEF Alive, Ended, Over
  <1>6. pc[Worker(j)] # "idle" => w # "idle"
    BY DEF w
  <1>7. Waning
    BY <1>3, <1>4, <1>5, <1>6, BothWane
  <1>8. Forked(j)' /\ pc'[Caller(j)] \in Beyond
    BY <1>3, <1>4 DEF Forked, Releasing, Beyond, CallerPCs, Loop, Alive
  <1>9. ASSUME Lawful PROVE Locked(j)' /\ Stated(j)'
    <2>1. pc[Worker(j)] # "ended"
      BY <1>2, <1>9 DEF Lawful, Locked
    <2>2. w # "ended" /\ w \notin Releasing \cup {"wait", "run", "report"}
      BY <1>3, <2>1 DEF w, Ended, Releasing
    <2> QED BY <1>4, <2>2 DEF Locked, Stated, Releasing
  <1>10. fails' \in 0..MaxFails
    BY <1>1, FailFacts
  <1> QED BY <1>1, <1>4, <1>5, <1>7, <1>8, <1>9, <1>10, Leave

LEMMA HandOverStep ==
    ASSUME JobInv, NEW j \in Jobs, HandOver(j), UNCHANGED <<tries, seen, page, gone, met, deaths>>
    PROVE  JobInv'
  <1>1. Sound /\ PcOK /\ JobTypeOK /\ LockOK /\ mishaps \subseteq Mishaps /\ deaths \in 0..MaxDeaths
        /\ fails \in 0..MaxFails
    BY DEF JobInv, Sound, JobTypeOK
  <1>2. UNCHANGED <<dir, ready, state, tries, seen, page, gone, met, deaths>>
    BY DEF HandOver
  <1>3. CASE /\ Undo(j, "hand over") /\ UNCHANGED <<owner, mishaps>>
             /\ Fail \/ ((dir = None \/ ~Alive(Worker(j))) /\ UNCHANGED fails)
    BY <1>2, <1>3, UndoStep
  <1>4. CASE dir # None /\ owner' = Worker(j) /\ Goto(Caller(j), "hand over", "let go")
             /\ Mishap("late", owner # Caller(j)) /\ UNCHANGED fails
    <2>1. CallerMove(j, {"hand over"}, {"let go"})
      BY <1>1, <1>4, CallerGoes DEF CallerPCs, Spawning
    <2>2. Waning
      BY <2>1, CallerWanes DEF Ended
    <2>3. pc[Caller(j)] = "hand over" /\ pc'[Caller(j)] = "let go" /\ pc'[Worker(j)] = pc[Worker(j)]
          /\ Others(j) /\ PcOK'
      BY <2>1 DEF CallerMove
    <2>4. pc[Worker(j)] # "idle" /\ Alive(Caller(j)) /\ ~Over(j)
      BY <1>1, <2>3 DEF Sound, Forked, Alive, Ended, Over
    <2>5. Forked(j)' /\ pc'[Caller(j)] \in Beyond
      BY <2>3 DEF Forked, Releasing, Beyond, CallerPCs, Loop, Spawning
    <2>6. Records'
      <3>1. \A k \in Jobs : owner' # Caller(k) /\ (owner' = Worker(k) => k = j)
        BY <1>4, ProcFacts
      <3> QED BY <1>2, <1>4, <2>3, <2>4, <3>1 DEF Records
    <2>7. mishaps' \subseteq Mishaps /\ (mishaps' = {} => mishaps = {} /\ owner = Caller(j))
      BY <1>1, <1>4 DEF Mishap, Mishaps
    <2>8. LockOK'
      BY <1>1, <1>2, <1>4, ProcFacts DEF LockOK
    <2>9. ASSUME mishaps' = {}, Lawful
          PROVE  /\ Locked(j)' /\ Stated(j)' /\ ReadyOwned'
                 /\ \A k \in Jobs : k # j => Spared(k)
      <3>1. owner = Caller(j)
        BY <2>7, <2>9
      <3>2. ~ready
        BY <2>9, <3>1, ProcFacts DEF Lawful, ReadyOwned
      <3>3. ASSUME NEW k \in Jobs, k # j PROVE Spared(k)
        <4>1. owner # Caller(k) /\ owner # Worker(k) /\ owner # None
              /\ owner' # Caller(k) /\ owner' # Worker(k)
          BY <1>4, <3>1, <3>3, ProcFacts
        <4>2. pc[Caller(k)] \notin {"publish", "mark", "fork", "hand over"}
          BY <2>9, <4>1 DEF Lawful, Locked
        <4> QED BY <1>2, <4>1, <4>2 DEF Spared
      <3>4. pc[Worker(j)] \notin Releasing \cup {"run", "report", "ended"} /\ state = <<j, "running">>
        BY <2>3, <2>9 DEF Lawful, Locked, Stated
      <3>5. Locked(j)' /\ Stated(j)'
        BY <1>2, <2>3, <3>4 DEF Locked, Stated, Releasing
      <3>6. ReadyOwned'
        BY <1>2, <3>2 DEF ReadyOwned
      <3> QED BY <3>3, <3>5, <3>6
    <2> QED BY <1>1, <1>2, <1>4, <2>2, <2>3, <2>4, <2>5, <2>6, <2>7, <2>8, <2>9, JobStep
  <1> QED BY <1>3, <1>4 DEF HandOver

LEMMA LetGoStep ==
    ASSUME JobInv, NEW j \in Jobs, LetGo(j), UNCHANGED <<tries, seen, page, gone, met, deaths>>
    PROVE  JobInv'
  <1>1. Sound /\ PcOK /\ JobTypeOK /\ LockOK /\ mishaps \subseteq Mishaps /\ deaths \in 0..MaxDeaths
        /\ fails \in 0..MaxFails
    BY DEF JobInv, Sound, JobTypeOK
  <1>2. UNCHANGED <<dir, owner, state, tries, seen, page, gone, met, deaths>>
    BY DEF LetGo
  <1>3. CASE /\ Undo(j, "let go") /\ UNCHANGED <<ready, mishaps>>
             /\ Fail \/ (dir = None /\ UNCHANGED fails)
    BY <1>2, <1>3, UndoStep
  <1>4. CASE dir # None /\ ready' = TRUE /\ Goto(Caller(j), "let go", "queued")
             /\ Mishap("late", owner # Worker(j) \/ TakenApart) /\ UNCHANGED fails
    <2>1. CallerMove(j, {"let go"}, {"queued"})
      BY <1>1, <1>4, CallerGoes DEF CallerPCs
    <2>2. Waning
      BY <2>1, CallerWanes DEF Ended
    <2>3. pc[Caller(j)] = "let go" /\ pc'[Caller(j)] = "queued" /\ pc'[Worker(j)] = pc[Worker(j)]
          /\ Others(j) /\ PcOK'
      BY <2>1 DEF CallerMove
    <2>4. Alive(Caller(j)) /\ ~Over(j)
      BY <2>3 DEF Alive, Ended, Over
    <2>5. Forked(j)' /\ pc'[Caller(j)] \in Beyond
      BY <2>3 DEF Forked, Releasing, Beyond, CallerPCs, Loop
    <2>6. Records'
      <3>1. ASSUME NEW k \in Jobs
            PROVE  /\ owner' = Caller(k) => pc'[Caller(k)] \notin Loop \cup {"idle", "refused"}
                   /\ owner' = Worker(k) => pc'[Worker(k)] # "idle"
        BY <1>1, <1>2, <2>3 DEF Sound, Records, Others, Loop
      <3> QED BY <1>2, <1>4, <3>1 DEF Records
    <2>7. mishaps' \subseteq Mishaps
          /\ (mishaps' = {} => mishaps = {} /\ owner = Worker(j) /\ ~TakenApart)
      BY <1>1, <1>4 DEF Mishap, Mishaps
    <2>8. LockOK'
      BY <1>1, <1>2, <1>4 DEF LockOK
    <2>9. ASSUME mishaps' = {}, Lawful
          PROVE  /\ Locked(j)' /\ Stated(j)' /\ ReadyOwned'
                 /\ \A k \in Jobs : k # j => Spared(k)
      <3>1. owner = Worker(j) /\ ~TakenApart
        BY <2>7, <2>9
      <3>2. ASSUME NEW k \in Jobs, k # j PROVE Spared(k)
        <4>1. owner # Caller(k) /\ owner # Worker(k) /\ owner # None
          BY <3>1, <3>2, ProcFacts
        <4>2. pc[Caller(k)] # "publish"
          BY <2>9, <4>1 DEF Lawful, Locked
        <4>3. pc[Caller(k)] # "remove"
          BY <3>1 DEF TakenApart
        <4> QED BY <1>2, <4>1, <4>2, <4>3 DEF Spared
      <3>3. pc[Worker(j)] \notin Releasing \cup {"run", "report", "ended"}
        BY <2>3, <2>9 DEF Lawful, Locked
      <3>4. Locked(j)' /\ Stated(j)'
        BY <1>2, <2>3, <2>9, <3>1, <3>3 DEF Lawful, Locked, Stated, Releasing
      <3>5. ReadyOwned'
        BY <1>2, <2>3, <3>1 DEF ReadyOwned
      <3> QED BY <3>2, <3>4, <3>5
    <2> QED BY <1>1, <1>2, <1>4, <2>2, <2>3, <2>4, <2>5, <2>6, <2>7, <2>8, <2>9, JobStep
  <1> QED BY <1>3, <1>4 DEF LetGo

LEMMA WorkStep ==
    ASSUME JobInv, NEW j \in Jobs, Go(j) \/ Finish(j),
           UNCHANGED <<tries, seen, page, gone, met, deaths>>
    PROVE  JobInv'
  <1>1. Sound /\ PcOK /\ JobTypeOK /\ LockOK /\ mishaps \subseteq Mishaps /\ deaths \in 0..MaxDeaths
        /\ fails \in 0..MaxFails
    BY DEF JobInv, Sound, JobTypeOK
  <1>2. UNCHANGED <<dir, owner, ready, state, fails>>
    BY DEF Go, Finish, jobLock
  <1>3. ASSUME NEW from \in {"wait", "run"}, NEW to \in {"run", "gave up", "report"},
               Goto(Worker(j), from, to), mishaps' \subseteq Mishaps, mishaps' = {} => mishaps = {},
               from = "wait" => to # "report", from = "run" => to = "report",
               mishaps' = {} /\ Lawful /\ to = "run" => owner = Worker(j) /\ pc[Caller(j)] = "queued"
        PROVE  JobInv'
    <2>1. WorkerMove(j, {from}, {to})
      BY <1>1, <1>3, WorkerGoes DEF WorkerPCs
    <2>2. pc[Worker(j)] = from /\ pc'[Worker(j)] = to /\ pc'[Caller(j)] = pc[Caller(j)]
          /\ Others(j) /\ PcOK'
      BY <2>1 DEF WorkerMove
    <2>3. Waning
      <3>1. {from} \cap Ended = {} /\ "idle" \notin {to}
        BY DEF Ended
      <3> QED BY <2>1, <3>1, WorkerWanes
    <2>4. Alive(Worker(j)) /\ ~Over(j)
      BY <2>2 DEF Alive, Ended, Over
    <2>5. pc[Caller(j)] \in {"hand over", "let go", "queued", "dead"}
      BY <1>1, <2>2, <2>4 DEF Sound, Forked
    <2>6. Forked(j)' /\ pc'[Caller(j)] \in Beyond
      BY <2>2, <2>5 DEF Forked, Releasing, Beyond, CallerPCs, Loop, Spawning
    <2>7. ASSUME mishaps' = {}, Lawful PROVE Locked(j)' /\ Stated(j)'
      <3>1. /\ to # "gave up" => owner = Worker(j) /\ pc[Caller(j)] = "queued"
            /\ pc[Caller(j)] \in {"mark", "fork", "hand over"} => owner = Caller(j)
        BY <1>3, <2>2, <2>7 DEF Lawful, Locked
      <3>2. Locked(j)'
        BY <1>2, <2>2, <2>5, <3>1 DEF Locked, Releasing
      <3>3. Stated(j)'
        BY <1>2, <1>3, <2>2, <2>7 DEF Lawful, Stated
      <3> QED BY <3>2, <3>3
    <2> QED BY <1>1, <1>2, <1>3, <2>2, <2>3, <2>4, <2>6, <2>7, Leave
  <1>4. CASE ready /\ Goto(Worker(j), "wait", "run") /\ Mishap("borrowed", owner = None \/ Job(owner) # j)
    <2>1. mishaps' \subseteq Mishaps
          /\ (mishaps' = {} => mishaps = {} /\ ~(owner = None \/ Job(owner) # j))
      BY <1>1, <1>4 DEF Mishap, Mishaps
    <2>2. ASSUME mishaps' = {}, Lawful PROVE owner = Worker(j) /\ pc[Caller(j)] = "queued"
      <3>1. PICK k \in Jobs : owner = Worker(k) /\ pc[Caller(k)] = "queued"
        BY <1>4, <2>2 DEF Lawful, ReadyOwned
      <3>2. k = j
        BY <2>1, <2>2, <3>1, ProcFacts
      <3> QED BY <3>1, <3>2
    <2> QED BY <1>3, <1>4, <2>1, <2>2
  <1>5. CASE Goto(Worker(j), "wait", "gave up") /\ UNCHANGED mishaps
    BY <1>1, <1>3, <1>5
  <1>6. CASE Goto(Worker(j), "run", "report") /\ UNCHANGED mishaps
    BY <1>1, <1>3, <1>6
  <1> QED BY <1>4, <1>5, <1>6 DEF Go, Finish

LEMMA ReportStep ==
    ASSUME JobInv, NEW j \in Jobs, Report(j), UNCHANGED <<tries, seen, page, gone, met, deaths>>
    PROVE  JobInv'
  <1>1. Sound /\ PcOK /\ JobTypeOK /\ LockOK /\ mishaps \subseteq Mishaps /\ deaths \in 0..MaxDeaths
        /\ fails \in 0..MaxFails
    BY DEF JobInv, Sound, JobTypeOK
  <1>2. UNCHANGED <<dir, owner, ready, mishaps>>
    BY DEF Report, jobLock
  <1>3. WorkerMove(j, {"report"}, {"release"})
    BY <1>1, WorkerGoes DEF WorkerPCs, Report, Releasing
  <1>4. pc[Worker(j)] = "report" /\ pc'[Worker(j)] = "release" /\ pc'[Caller(j)] = pc[Caller(j)]
        /\ Others(j) /\ PcOK'
    BY <1>3 DEF WorkerMove
  <1>5. Waning
    BY <1>3, WorkerWanes DEF Ended
  <1>6. Alive(Worker(j)) /\ ~Over(j)
    BY <1>4 DEF Alive, Ended, Over
  <1>7. pc[Caller(j)] \in {"hand over", "let go", "queued", "dead"}
    BY <1>1, <1>4, <1>6 DEF Sound, Forked
  <1>8. Forked(j)' /\ pc'[Caller(j)] \in Beyond
    BY <1>4, <1>7 DEF Forked, Releasing, Beyond, CallerPCs, Loop, Spawning
  <1>9. Records'
    BY <1>1, <1>2, <1>4, <1>5, <1>8, RecordsKept DEF Sound
  <1>10. LockOK'
    BY <1>1, <1>2 DEF LockOK
  <1>11. (state' = state \/ state' = <<j, "done">>) /\ (Fail \/ UNCHANGED fails)
    BY DEF Report
  <1>12. fails' \in 0..MaxFails /\ (state' = state \/ state' \in Jobs \X {"running", "done"})
    BY <1>1, <1>11, FailFacts
  <1>13. ASSUME Lawful
         PROVE  /\ Locked(j)' /\ Stated(j)' /\ ReadyOwned'
                /\ \A k \in Jobs : k # j => Spared(k)
                /\ state' = state \/ (\A k \in gone : state' # <<k, "done">>)
    <2>1. pc[Caller(j)] = "queued" /\ owner = Worker(j)
      BY <1>4, <1>13 DEF Lawful, Locked
    <2>2. Locked(j)' /\ Stated(j)'
      BY <1>4, <2>1 DEF Locked, Stated, Releasing
    <2>3. ASSUME NEW k \in Jobs, k # j PROVE Spared(k)
      <3>1. owner # Caller(k) /\ owner # Worker(k)
        BY <2>1, <2>3, ProcFacts
      <3>2. pc[Caller(k)] \notin {"fork", "hand over"}
        BY <1>13, <3>1 DEF Lawful, Locked
      <3> QED BY <1>2, <3>1, <3>2 DEF Spared
    <2>4. ReadyOwned'
      BY <1>2, <1>4, <1>13, ReadyKept DEF Lawful
    <2>5. j \notin gone
      BY <1>4, <1>13 DEF Lawful, Paged, Over
    <2>6. \A k \in gone : <<j, "done">> # <<k, "done">>
      BY <2>5
    <2> QED BY <1>11, <2>2, <2>3, <2>4, <2>6
  <1> QED BY <1>1, <1>2, <1>4, <1>5, <1>6, <1>8, <1>9, <1>10, <1>12, <1>13, JobStep

LEMMA SpawnStep ==
    ASSUME JobInv, NEW j \in Jobs, Spawn(j)
    PROVE  JobInv'
  BY MarkStep, ForkStep, HandOverStep, LetGoStep, WorkStep, ReportStep DEF Spawn

\* A process on its way through _lock_release_token.
LEMMA ReleaseGoes ==
    ASSUME Sound, NEW p \in Procs, NEW j \in Jobs, Job(p) = j, NEW from \in Releasing, NEW to,
           Goto(p, from, to), to \in Releasing \/ to = Last(p)
    PROVE  /\ Alive(Caller(j)) \/ Alive(Worker(j))
           /\ Others(j) /\ PcOK' /\ Waning /\ Forked(j)' /\ pc'[Caller(j)] \in Beyond
           /\ pc[Caller(j)] = "queued" => pc'[Caller(j)] = "queued"
           /\ Over(j) => Over(j)'
           /\ Lawful => Stated(j)' /\ (to # "erase" \/ ~ready' => Locked(j)')
  <1>1. PcOK
    BY DEF Sound, JobTypeOK
  <1>2. from \notin Ended /\ from \notin Loop /\ to # "idle" /\ to \notin Loop \cup {"refused"}
        /\ from \notin {"queued", "wait", "run", "report", "hand over", "let go", "mark", "fork", "ended"}
        /\ to \notin {"queued", "wait", "run", "report", "hand over", "let go", "mark", "fork"}
    BY DEF Releasing, Ended, Loop, Last
  <1>3. CASE p = Caller(j)
    <2>1. to \in Releasing \cup {"failed"}
      BY <1>3, ProcFacts DEF Last
    <2>2. CallerMove(j, {from}, {to})
      BY <1>1, <1>3, <2>1, CallerGoes DEF CallerPCs
    <2>3. Waning
      <3>1. {from} \cap Ended = {} /\ "idle" \notin {to}
        BY <1>2
      <3> QED BY <2>2, <3>1, CallerWanes
    <2>4. pc[Caller(j)] = from /\ pc'[Caller(j)] = to /\ pc'[Worker(j)] = pc[Worker(j)]
          /\ Others(j) /\ PcOK'
      BY <2>2 DEF CallerMove
    <2>5. ~Alive(Worker(j))
      BY <2>4 DEF Sound, Forked
    <2>6. Forked(j)' /\ pc'[Caller(j)] \in Beyond
      BY <1>2, <2>1, <2>4, <2>5 DEF Forked, Beyond, CallerPCs, Alive
    <2>7. Alive(Caller(j)) /\ pc[Caller(j)] # "queued" /\ ~Over(j)
      BY <1>2, <2>4 DEF Alive, Over
    <2>8. ASSUME Lawful PROVE Stated(j)' /\ (to # "erase" \/ ~ready' => Locked(j)')
      <3>1. pc[Worker(j)] \notin Releasing \cup {"run", "report", "ended", "wait"}
        BY <2>5, <2>7, <2>8 DEF Lawful, Locked, Alive, Ended
      <3>2. Stated(j)'
        BY <1>2, <2>4, <3>1 DEF Stated
      <3>3. to # "erase" \/ ~ready' => Locked(j)'
        BY <1>2, <2>4, <3>1 DEF Locked, Loop, Releasing
      <3> QED BY <3>2, <3>3
    <2> QED BY <2>3, <2>4, <2>6, <2>7, <2>8
  <1>4. CASE p = Worker(j)
    <2>1. to \in Releasing \cup {"ended"}
      BY <1>4, ProcFacts DEF Last
    <2>2. WorkerMove(j, {from}, {to})
      BY <1>1, <1>4, <2>1, WorkerGoes DEF WorkerPCs
    <2>3. Waning
      <3>1. {from} \cap Ended = {} /\ "idle" \notin {to}
        BY <1>2
      <3> QED BY <2>2, <3>1, WorkerWanes
    <2>4. pc[Worker(j)] = from /\ pc'[Worker(j)] = to /\ pc'[Caller(j)] = pc[Caller(j)]
          /\ Others(j) /\ PcOK'
      BY <2>2 DEF WorkerMove
    <2>5. Alive(Worker(j))
      BY <1>2, <2>4 DEF Alive
    <2>6. pc[Caller(j)] \in {"hand over", "let go", "queued", "dead"}
      BY <2>4, <2>5, <1>2 DEF Sound, Forked, Ended
    <2>7. Forked(j)' /\ pc'[Caller(j)] \in Beyond
      BY <1>2, <2>4, <2>6 DEF Forked, Releasing, Beyond, CallerPCs, Loop, Spawning
    <2>8. Over(j) => Over(j)'
      BY <1>2, <2>4 DEF Over
    <2>9. ASSUME Lawful PROVE Stated(j)' /\ (to # "erase" \/ ~ready' => Locked(j)')
      <3>1. pc[Caller(j)] = "queued"
        BY <2>4, <2>9 DEF Lawful, Locked
      <3>2. Stated(j)'
        BY <1>2, <2>4, <3>1 DEF Stated
      <3>3. to # "erase" \/ ~ready' => Locked(j)'
        BY <1>2, <2>4, <3>1 DEF Locked, Releasing
      <3> QED BY <3>2, <3>3
    <2> QED BY <2>3, <2>4, <2>5, <2>7, <2>8, <2>9
  <1> QED BY <1>3, <1>4, ProcFacts

LEMMA RecordsLess ==
    ASSUME Records, owner' = owner \/ owner' = None, dir' = None => owner' = None /\ ~ready',
           NEW j \in Jobs, Others(j), Waning, pc'[Caller(j)] \in Beyond
    PROVE  Records'
  <1>1. ASSUME NEW k \in Jobs
        PROVE  /\ owner' = Caller(k) => pc'[Caller(k)] \notin Loop \cup {"idle", "refused"}
               /\ owner' = Worker(k) => pc'[Worker(k)] # "idle"
    <2>1. pc'[Caller(k)] = pc[Caller(k)] \/ pc'[Caller(k)] \notin Loop \cup {"idle", "refused"}
      BY DEF Others, Beyond
    <2>2. pc[Worker(k)] # "idle" => pc'[Worker(k)] # "idle"
      BY ProcFacts DEF Waning
    <2>3. Caller(k) # None /\ Worker(k) # None
      BY ProcFacts
    <2> QED BY <2>1, <2>2, <2>3 DEF Records
  <1> QED BY <1>1 DEF Records

LEMMA ReleaseStep ==
    ASSUME JobInv, NEW p \in Procs, ReleaseToken(p)
    PROVE  JobInv'
  <1> DEFINE j == Job(p)
  <1>0. j \in Jobs /\ Own(p) = {Caller(j), Worker(j)}
    BY ProcFacts DEF Own
  <1> HIDE DEF j
  <1>j. Job(p) = j
    BY DEF j
  <1>1. Sound /\ PcOK /\ JobTypeOK /\ LockOK /\ mishaps \subseteq Mishaps /\ deaths \in 0..MaxDeaths
        /\ fails \in 0..MaxFails /\ Records
    BY DEF JobInv, Sound, JobTypeOK
  <1>2. UNCHANGED <<state, tries, seen, page, gone, met, deaths, fails>>
    BY DEF ReleaseToken, bounds
  <1>3. CASE Goto(p, "release", IF owner \in Own(p) THEN "unmark" ELSE Last(p)) /\ UNCHANGED <<jobLock, mishaps>>
    <2> DEFINE to == IF owner \in Own(p) THEN "unmark" ELSE Last(p)
    <2>1. Goto(p, "release", to) /\ (to \in Releasing \/ to = Last(p)) /\ to # "erase"
          /\ "release" \in Releasing
      BY <1>3 DEF Last, Releasing
    <2> HIDE DEF to
    <2>2. UNCHANGED <<dir, owner, ready, mishaps>>
      BY <1>3 DEF jobLock
    <2>3. /\ Alive(Caller(j)) \/ Alive(Worker(j))
          /\ Others(j) /\ PcOK' /\ Waning /\ Forked(j)' /\ pc'[Caller(j)] \in Beyond
          /\ pc[Caller(j)] = "queued" => pc'[Caller(j)] = "queued"
          /\ Over(j) => Over(j)'
          /\ Lawful => Stated(j)' /\ Locked(j)'
      BY <1>0, <1>1, <1>j, <2>1, ReleaseGoes
    <2> QED BY <1>0, <1>1, <1>2, <2>2, <2>3, Leave
  <1>4. CASE Goto(p, "unmark", "erase") /\ ready' = FALSE /\ UNCHANGED <<dir, owner>>
             /\ Mishap("robbed", ready /\ owner \notin Own(p) \cup {None})
    <2>1. "unmark" \in Releasing /\ "erase" \in Releasing
      BY DEF Releasing
    <2>2. /\ Alive(Caller(j)) \/ Alive(Worker(j))
          /\ Others(j) /\ PcOK' /\ Waning /\ Forked(j)' /\ pc'[Caller(j)] \in Beyond
          /\ pc[Caller(j)] = "queued" => pc'[Caller(j)] = "queued"
          /\ Over(j) => Over(j)'
          /\ Lawful => Stated(j)' /\ Locked(j)'
      BY <1>0, <1>1, <1>4, <1>j, <2>1, ReleaseGoes
    <2>3. mishaps' \subseteq Mishaps /\ (mishaps' = {} => mishaps = {})
      BY <1>1, <1>4 DEF Mishap, Mishaps
    <2>4. LockOK'
      BY <1>1, <1>4 DEF LockOK
    <2>5. dir' = None => owner' = None /\ ~ready'
      BY <1>1, <1>4 DEF Records
    <2>6. Records'
      BY <1>0, <1>1, <1>4, <2>2, <2>5, RecordsLess
    <2>7. ASSUME Lawful, NEW k \in Jobs PROVE Spared(k)
      <3>1. pc[Caller(k)] = "publish" => ready' = ready
        BY <1>1, <1>4, <2>7 DEF Lawful, Locked, LockOK
      <3> QED BY <1>2, <1>4, <3>1 DEF Spared
    <2>8. ReadyOwned'
      BY <1>4 DEF ReadyOwned
    <2> QED BY <1>0, <1>1, <1>2, <2>2, <2>3, <2>4, <2>6, <2>7, <2>8, JobStep
  <1>5. CASE Goto(p, "erase", "drop") /\ RmOwner(Own(p)) /\ UNCHANGED <<dir, ready>>
    <2>1. "erase" \in Releasing /\ "drop" \in Releasing /\ owner' = None
          /\ Mishap("robbed", owner \notin Own(p) \cup {None})
      BY <1>5 DEF Releasing, RmOwner
    <2>2. /\ Alive(Caller(j)) \/ Alive(Worker(j))
          /\ Others(j) /\ PcOK' /\ Waning /\ Forked(j)' /\ pc'[Caller(j)] \in Beyond
          /\ pc[Caller(j)] = "queued" => pc'[Caller(j)] = "queued"
          /\ Over(j) => Over(j)'
          /\ Lawful => Stated(j)' /\ Locked(j)'
      BY <1>0, <1>1, <1>5, <1>j, <2>1, ReleaseGoes
    <2>3. mishaps' \subseteq Mishaps
          /\ (mishaps' = {} => mishaps = {} /\ owner \in {Caller(j), Worker(j), None})
      BY <1>0, <1>1, <2>1 DEF Mishap, Mishaps
    <2>4. LockOK'
      BY <1>1, <1>5, <2>1 DEF LockOK
    <2>5. dir' = None => owner' = None /\ ~ready'
      BY <1>1, <1>5, <2>1 DEF Records
    <2>6. Records'
      BY <1>0, <1>1, <2>1, <2>2, <2>5, RecordsLess
    <2>7. ASSUME mishaps' = {}, Lawful
          PROVE  ReadyOwned' /\ \A k \in Jobs : k # j => Spared(k)
      <3>1. ~ready
        <4>1. pc[p] = "erase"
          BY <1>5 DEF Goto
        <4>2. p = Caller(j) \/ p = Worker(j)
          BY <1>j, ProcFacts
        <4>3. CASE owner = None
          BY <2>7, <4>3, ProcFacts DEF Lawful, ReadyOwned
        <4>4. CASE owner = Caller(j) \/ owner = Worker(j)
          BY <1>0, <2>7, <4>1, <4>2, <4>4 DEF Lawful, Locked
        <4> QED BY <2>3, <2>7, <4>3, <4>4
      <3>2. ASSUME NEW k \in Jobs, k # j PROVE Spared(k)
        <4>1. owner # Caller(k) /\ owner # Worker(k) /\ owner' # Caller(k) /\ owner' # Worker(k)
          BY <1>0, <2>1, <2>3, <2>7, <3>2, ProcFacts
        <4>2. pc[Caller(k)] \notin {"mark", "fork", "hand over"}
          BY <2>7, <4>1 DEF Lawful, Locked
        <4>3. pc[Caller(k)] = "publish" => owner = None
          BY <2>7 DEF Lawful, Locked
        <4> QED BY <1>2, <1>5, <2>1, <4>1, <4>2, <4>3 DEF Spared
      <3> QED BY <1>5, <3>1, <3>2 DEF ReadyOwned
    <2> QED BY <1>0, <1>1, <1>2, <2>2, <2>3, <2>4, <2>6, <2>7, JobStep
  <1>6. CASE Goto(p, "drop", Last(p)) /\ Rmdir(Job(p)) /\ UNCHANGED <<owner, ready>>
    <2>1. "drop" \in Releasing /\ Last(p) # "erase" /\ Rmdir(j)
      BY <1>6, <1>j DEF Releasing, Last
    <2>2. /\ Alive(Caller(j)) \/ Alive(Worker(j))
          /\ Others(j) /\ PcOK' /\ Waning /\ Forked(j)' /\ pc'[Caller(j)] \in Beyond
          /\ pc[Caller(j)] = "queued" => pc'[Caller(j)] = "queued"
          /\ Over(j) => Over(j)'
          /\ Lawful => Stated(j)' /\ Locked(j)'
      BY <1>0, <1>1, <1>6, <1>j, <2>1, ReleaseGoes
    <2>3. /\ dir' \in Jobs \cup {None} /\ (dir' = None => dir = None \/ Empty)
          /\ mishaps \subseteq mishaps' /\ mishaps' \subseteq Mishaps
          /\ mishaps' = {} /\ Lawful => \A k \in Jobs : k # j /\ pc[Caller(k)] = "publish" => dir' = dir
      BY <1>0, <1>1, <2>1, RmdirFacts
    <2>4. LockOK'
      BY <1>1, <1>6, <2>3 DEF LockOK
    <2>5. dir' = None => owner' = None /\ ~ready'
      BY <1>1, <1>6, <2>3 DEF Records, Empty
    <2>6. Records'
      BY <1>0, <1>1, <1>6, <2>2, <2>5, RecordsLess
    <2>7. ASSUME mishaps' = {}, Lawful PROVE ReadyOwned' /\ \A k \in Jobs : k # j => Spared(k)
      <3>1. ReadyOwned'
        BY <1>0, <1>6, <2>2, <2>7, ReadyKept DEF Lawful
      <3>2. \A k \in Jobs : k # j => Spared(k)
        BY <1>2, <1>6, <2>3, <2>7 DEF Spared
      <3> QED BY <3>1, <3>2
    <2>8. mishaps' = {} => mishaps = {}
      BY <2>3
    <2> QED BY <1>0, <1>1, <1>2, <2>2, <2>3, <2>4, <2>6, <2>7, <2>8, JobStep
  <1> QED BY <1>3, <1>4, <1>5, <1>6 DEF ReleaseToken

LEMMA DieStep ==
    ASSUME JobInv, NEW p \in Procs, Die(p)
    PROVE  JobInv'
  <1> DEFINE j == Job(p)
  <1>0. j \in Jobs
    BY ProcFacts
  <1> HIDE DEF j
  <1>j. p = Caller(j) \/ p = Worker(j)
    BY ProcFacts DEF j
  <1>1. Sound /\ PcOK /\ JobTypeOK /\ mishaps \subseteq Mishaps /\ deaths \in 0..MaxDeaths
        /\ fails \in 0..MaxFails
    BY DEF JobInv, Sound, JobTypeOK
  <1>2. UNCHANGED <<dir, owner, ready, state, tries, seen, page, gone, met, mishaps, fails>>
        /\ deaths' \in 0..MaxDeaths
    BY <1>1, JobAssumption DEF Die, jobLock
  <1>3. pc[p] \notin Ended /\ Goto(p, pc[p], "dead")
    BY DEF Die, Alive, Goto
  <1>4. CASE p = Caller(j)
    <2>1. CallerMove(j, {pc[p]}, {"dead"})
      BY <1>0, <1>1, <1>3, <1>4, CallerGoes DEF CallerPCs
    <2>2. Waning
      BY <1>0, <1>3, <2>1, CallerWanes
    <2>3. pc'[Caller(j)] = "dead" /\ pc'[Worker(j)] = pc[Worker(j)] /\ Others(j) /\ PcOK'
      BY <2>1 DEF CallerMove
    <2>4. Alive(Caller(j)) /\ pc[Caller(j)] # "queued" /\ ~Over(j)
      BY <1>3, <1>4 DEF Alive, Ended, Over
    <2>5. Forked(j)' /\ pc'[Caller(j)] \in Beyond
      BY <2>3 DEF Forked, Releasing, Beyond, CallerPCs, Loop
    <2>6. ASSUME Lawful PROVE Locked(j)' /\ Stated(j)'
      <3>1. Locked(j) /\ Stated(j)
        BY <1>0, <2>6 DEF Lawful
      <3>2. pc[Worker(j)] \notin Releasing \cup {"run", "report", "ended"}
        BY <2>4, <3>1 DEF Locked
      <3>3. Locked(j)'
        BY <2>3, <3>2 DEF Locked, Releasing
      <3>4. Stated(j)'
        BY <1>2, <2>3, <3>1 DEF Stated
      <3> QED BY <3>3, <3>4
    <2> QED BY <1>0, <1>1, <1>2, <2>2, <2>3, <2>4, <2>5, <2>6, Leave
  <1>5. CASE p = Worker(j)
    <2>1. WorkerMove(j, {pc[p]}, {"dead"})
      BY <1>0, <1>1, <1>3, <1>5, WorkerGoes DEF WorkerPCs
    <2>2. Waning
      BY <1>0, <1>3, <2>1, WorkerWanes
    <2>3. pc'[Worker(j)] = "dead" /\ pc'[Caller(j)] = pc[Caller(j)] /\ Others(j) /\ PcOK'
      BY <2>1 DEF WorkerMove
    <2>4. Alive(Worker(j)) /\ pc[Worker(j)] # "idle"
      BY <1>3, <1>5 DEF Alive, Ended
    <2>5. pc[Caller(j)] \in {"hand over", "let go", "queued", "dead"}
      BY <1>0, <1>1, <2>4 DEF Sound, Forked
    <2>6. Forked(j)' /\ pc'[Caller(j)] \in Beyond
      BY <2>3, <2>5 DEF Forked, Releasing, Beyond, CallerPCs, Loop, Spawning
    <2>7. ASSUME Lawful PROVE Locked(j)' /\ Stated(j)'
      <3>1. Locked(j) /\ Stated(j)
        BY <1>0, <2>7 DEF Lawful
      <3>2. Locked(j)'
        BY <1>2, <2>3, <2>5, <3>1 DEF Locked, Releasing
      <3>3. Stated(j)'
        BY <1>2, <2>3, <3>1 DEF Stated
      <3> QED BY <3>2, <3>3
    <2>8. Over(j) => Over(j)'
      BY <2>3 DEF Over
    <2> QED BY <1>0, <1>1, <1>2, <2>2, <2>3, <2>4, <2>6, <2>7, <2>8, Leave
  <1> QED BY <1>j, <1>4, <1>5

---------------------------------------------------------------------------
(* The status call *)

\* The status call changes nothing that the jobs look at.
LEMMA StatusStays ==
    ASSUME JobInv, UNCHANGED <<jobLock, state, pc, tries, seen, met, mishaps, bounds>>,
           PageOK', gone' \subseteq Jobs, mishaps = {} /\ Lawful => Paged'
    PROVE  JobInv'
  <1>1. UNCHANGED <<dir, owner, ready, state, pc, tries, seen, met, mishaps, deaths, fails>>
    BY DEF jobLock, bounds
  <1>2. JobTypeOK'
    BY <1>1 DEF JobInv, Sound, JobTypeOK, LockOK, PcOK
  <1>3. ASSUME NEW j \in Jobs PROVE Forked(j)' /\ Judged(j)'
    BY <1>1 DEF JobInv, Sound, Forked, Judged, Alive
  <1>4. Records' /\ Company'
    BY <1>1 DEF JobInv, Sound, Records, Company, Alive
  <1>5. Sound'
    BY <1>2, <1>3, <1>4 DEF Sound
  <1>6. ASSUME mishaps' = {} PROVE Lawful'
    <2>1. Lawful /\ Paged'
      BY <1>1, <1>6 DEF JobInv
    <2>2. ReadyOwned'
      BY <1>1, <2>1 DEF Lawful, ReadyOwned
    <2>3. ASSUME NEW j \in Jobs PROVE Locked(j)' /\ Stated(j)'
      BY <1>1, <2>1 DEF Lawful, Locked, Stated
    <2>4. ASSUME NEW j \in Jobs \ met' PROVE OneWay(j)'
      BY <1>1, <2>1, <2>4 DEF Lawful, OneWay
    <2> QED BY <2>1, <2>2, <2>3, <2>4 DEF Lawful
  <1> QED BY <1>5, <1>6 DEF JobInv

LEMMA StatusReadsStep ==
    ASSUME JobInv, NEW j \in Jobs, StatusReads(j)
    PROVE  JobInv'
  <1>1. UNCHANGED <<jobLock, state, pc, tries, seen, met, mishaps, bounds>> /\ gone' = gone
        /\ page' = <<j>> /\ pc[Caller(j)] = "queued"
    BY DEF StatusReads
  <1>2. PageOK' /\ gone' \subseteq Jobs
    BY <1>1 DEF JobInv, Sound, JobTypeOK, PageOK
  <1>3. Lawful => Paged'
    <2>1. Len(page') # 2 /\ page'[1] = j
      BY <1>1
    <2>2. pc' = pc /\ state' = state
      BY <1>1
    <2> QED BY <1>1, <2>1, <2>2 DEF Lawful, Paged, Over
  <1> QED BY <1>1, <1>2, <1>3, StatusStays

LEMMA StatusLooksStep ==
    ASSUME JobInv, StatusLooks
    PROVE  JobInv'
  <1>1. UNCHANGED <<jobLock, state, pc, tries, seen, met, mishaps, bounds>> /\ gone' = gone
        /\ page' = <<page[1], owner>> /\ Len(page) = 1
    BY DEF StatusLooks
  <1>2. PICK j \in Jobs : page = <<j>>
    <2>1. page # <<>>
      BY <1>1
    <2>2. \A k \in Jobs, o \in Procs \cup {None} : page # <<k, o>>
      BY <1>1
    <2> QED BY <2>1, <2>2 DEF JobInv, Sound, JobTypeOK, PageOK
  <1>3. page' = <<j, owner>>
    BY <1>1, <1>2
  <1>4. owner \in Procs \cup {None}
    BY DEF JobInv, Sound, JobTypeOK, LockOK
  <1>5. PageOK' /\ gone' \subseteq Jobs
    BY <1>1, <1>3, <1>4 DEF JobInv, Sound, JobTypeOK, PageOK
  <1>6. ASSUME Lawful PROVE Paged'
    <2>1. page'[1] = j /\ page'[2] = owner /\ page[1] = j /\ page # <<>>
      BY <1>2, <1>3
    <2>2. pc[Caller(j)] = "queued"
      BY <1>6, <2>1 DEF Lawful, Paged
    <2>3. owner # Worker(j) => Over(j)
      BY <1>6, <2>2 DEF Lawful, Locked, Over
    <2>4. pc' = pc /\ state' = state
      BY <1>1
    <2>5. \A k \in gone : Over(k) /\ state # <<k, "done">>
      BY <1>6 DEF Lawful, Paged
    <2> QED BY <1>1, <2>1, <2>2, <2>3, <2>4, <2>5 DEF Paged, Over
  <1> QED BY <1>1, <1>5, <1>6, StatusStays

LEMMA StatusAnswersStep ==
    ASSUME JobInv, StatusAnswers
    PROVE  JobInv'
  <1> DEFINE stale(j, o) == o = None \/ Job(o) # j \/ ~Alive(o)
  <1>1. UNCHANGED <<jobLock, state, pc, tries, seen, met, mishaps, bounds>> /\ page' = <<>>
        /\ Len(page) = 2
    BY DEF StatusAnswers
  <1>2. PICK j \in Jobs, o \in Procs \cup {None} : page = <<j, o>>
    <2>1. page # <<>>
      BY <1>1
    <2>2. \A k \in Jobs : page # <<k>>
      BY <1>1
    <2> QED BY <2>1, <2>2 DEF JobInv, Sound, JobTypeOK, PageOK
  <1>3. page[1] = j /\ page[2] = o /\ page # <<>>
    BY <1>2
  <1>4. gone' = IF stale(j, o) /\ state = <<j, "running">> THEN gone \cup {j} ELSE gone
    BY <1>3 DEF StatusAnswers
  <1>5. PageOK' /\ gone' \subseteq Jobs
    BY <1>1, <1>4 DEF JobInv, Sound, JobTypeOK, PageOK
  <1>6. ASSUME Lawful PROVE Paged'
    <2>1. pc[Caller(j)] = "queued" /\ (o # Worker(j) => Over(j))
      BY <1>1, <1>3, <1>6 DEF Lawful, Paged
    <2>2. ASSUME stale(j, o) PROVE Over(j)
      <3>1. CASE o = Worker(j)
        <4>1. ~Alive(Worker(j))
          BY <2>2, <3>1, ProcFacts
        <4> QED BY <2>1, <4>1 DEF Over, Alive, Ended
      <3> QED BY <2>1, <3>1
    <2> HIDE DEF stale
    <2>3. \A k \in gone : Over(k) /\ state # <<k, "done">>
      BY <1>6 DEF Lawful, Paged
    <2>4. state = <<j, "running">> => state # <<j, "done">>
      OBVIOUS
    <2>5. \A k \in gone' : Over(k) /\ state # <<k, "done">>
      BY <1>4, <2>2, <2>3, <2>4
    <2>6. pc' = pc /\ state' = state /\ Len(page') # 2
      BY <1>1
    <2> QED BY <1>1, <2>5, <2>6 DEF Paged, Over
  <1> QED BY <1>1, <1>5, <1>6, StatusStays

---------------------------------------------------------------------------
(* The theorems of the jobs *)

LEMMA InitJobInv == JobInit => JobInv
  <1> SUFFICES ASSUME JobInit PROVE JobInv
    OBVIOUS
  <1> USE DEF JobInit
  <1>1. \A p \in Procs : pc[p] = "idle"
    OBVIOUS
  <1>2. \A j \in Jobs : pc[Caller(j)] = "idle" /\ pc[Worker(j)] = "idle"
    BY <1>1, ProcFacts
  <1>3. JobTypeOK
    <2>1. PcOK
      BY <1>2 DEF PcOK, CallerPCs, WorkerPCs
    <2>2. LockOK /\ PageOK
      BY DEF LockOK, PageOK
    <2>3. 0 \in 0..Attempts /\ deaths \in 0..MaxDeaths /\ fails \in 0..MaxFails
      BY JobAssumption
    <2> QED BY <2>1, <2>2, <2>3 DEF JobTypeOK
  <1>4. ASSUME NEW j \in Jobs PROVE Forked(j) /\ Judged(j)
    BY <1>2 DEF Forked, Judged, Releasing
  <1>5. Records /\ Company
    BY <1>1, ProcFacts DEF Records, Company, Alive, Ended
  <1>6. ASSUME NEW j \in Jobs PROVE Locked(j) /\ Stated(j) /\ OneWay(j)
    BY <1>2, ProcFacts DEF Locked, Stated, OneWay, Loop, Releasing
  <1>7. ReadyOwned /\ Paged
    BY DEF ReadyOwned, Paged
  <1> QED BY <1>3, <1>4, <1>5, <1>6, <1>7 DEF JobInv, Sound, Lawful

LEMMA JobStays ==
    ASSUME JobInv, [JobNext]_jobVars
    PROVE  JobInv'
  <1>1. CASE UNCHANGED jobVars
    <2>1. UNCHANGED <<jobLock, state, pc, tries, seen, met, mishaps, bounds>> /\ page' = page /\ gone' = gone
      BY <1>1 DEF jobVars
    <2>2. pc' = pc /\ state' = state
      BY <2>1
    <2>3. PageOK' /\ gone' \subseteq Jobs
      BY <2>1 DEF JobInv, Sound, JobTypeOK, PageOK
    <2>4. Lawful => Paged'
      BY <2>1, <2>2 DEF Lawful, Paged, Over
    <2> QED BY <2>1, <2>3, <2>4, StatusStays
  <1>2. CASE JobNext
    BY <1>2, AcquireStep, SpawnStep, StatusReadsStep, ReleaseStep, DieStep, StatusLooksStep,
       StatusAnswersStep DEF JobNext
  <1> QED BY <1>1, <1>2

\* The lock, the state and the page of the jobs have their types in every reachable state,
\* for every set of calls: no call tries more than its rounds and no process is anywhere
\* but in its own program.
THEOREM JobTypeCorrect == JobSpec => []JobTypeOK
  <1>1. JobInv => JobTypeOK
    BY DEF JobInv, Sound
  <1> QED BY InitJobInv, JobStays, <1>1, PTL DEF JobSpec

\* overview.js and the rpcd backend: a job at work has the lock and is said to run, and one
\* that the page has called interrupted never reports a result, whatever number of calls
\* contend and wherever callers and workers are killed.
THEOREM StatusIsTrue == JobSpec => []PageTellsTruth
  <1>1. JobInv => PageTellsTruth
    <2> SUFFICES ASSUME JobInv, mishaps = {}, NEW j \in Jobs
                 PROVE  /\ AtWork(j) => owner = Worker(j) /\ state = <<j, "running">>
                        /\ j \in gone => ~AtWork(j) /\ state # <<j, "done">>
      BY DEF PageTellsTruth
    <2>1. Locked(j) /\ Stated(j) /\ Paged
      BY DEF JobInv, Lawful
    <2> QED BY <2>1 DEF AtWork, Locked, Stated, Paged, Over
  <1> QED BY InitJobInv, JobStays, <1>1, PTL DEF JobSpec

\* The lock's recovery: a call that is alone from its start is not refused, whatever killed
\* calls and workers have left.
THEOREM AloneStarts == JobSpec => []NextJobStarts
  <1>1. JobInv => NextJobStarts
    BY DEF JobInv, Lawful, NextJobStarts, OneWay
  <1> QED BY InitJobInv, JobStays, <1>1, PTL DEF JobSpec

---------------------------------------------------------------------------
(* The inductive invariant of the service control *)

\* What a run does to procd's instance it does under the lock, and it keeps the lock
\* as long as a converter that it has started is its own to stop.
RunLocks ==
    /\ run \in {"reprobe", "running", "start", "mark"} => lock = "run"
    /\ started => lock = "run" /\ run \in {"wait", "work", "cleanup"}

\* Without a crash an instance has its process, so a run starts one only if there is
\* none, and nobody publishes another while the run has the lock.
RunsOwn == "crash" \notin hit =>
    /\ up = "down" => inst = "none"
    /\ run = "start" => inst = "none"
    /\ run = "mark" \/ started => inst # "user"

\* A run knows of the converter it has started.
Marked == inst = "run" /\ hit \cap {"signal", "stop"} = {} => run = "mark" \/ started

\* What is on its way to the service: a reload that has read an old switch is followed
\* by another one, and once a save was made at rest, or a page has decided since it with
\* no action under way, the actions called for and at work are those of the switch, and
\* when nothing is on its way the service is as the switch says.
OnItsWay ==
    /\ valid
    /\ rpc = "start" => action = "restart"
    /\ reload = "publish" => (want <=> on) \/ pending
    /\ calm \/ decided =>
        /\ \A a \in Actions : calls[a] > 0 => (a = "restart" <=> on)
        /\ rpc # "idle" => (action = "restart" <=> on)
        /\ NoAction /\ ~pending /\ reload = "idle" => (inst # "none" <=> on)

Undisturbed == hit = {} /\ runs = 0 /\ run = "idle"

\* A run that has begun is not counted yet.
Uncounted == run # "idle" => runs < MaxRuns

ControlInv == TypeOK /\ RunLocks /\ RunsOwn /\ Marked /\ Uncounted /\ (Undisturbed => OnItsWay)

LEMMA InitControlInv == Init => ControlInv
  <1> SUFFICES ASSUME Init PROVE ControlInv
    OBVIOUS
  <1> USE ControlAssumption DEF Init
  <1>1. on \in BOOLEAN /\ valid \in BOOLEAN /\ pending \in BOOLEAN /\ want \in BOOLEAN
        /\ started \in BOOLEAN
    OBVIOUS
  <1>2. inst = "none" => up = "down"
    OBVIOUS
  <1>3. inst \in {"none", "user"} /\ up \in {"down", "healthy"}
    OBVIOUS
  <1>4. saves \in 0..MaxSaves /\ runs \in 0..MaxRuns /\ hit \subseteq Faults
    OBVIOUS
  <1>5. TypeOK
    <2>1. calls \in [Actions -> Nat] /\ action \in Actions
      BY DEF Actions
    <2> QED
      BY <1>1, <1>2, <1>3, <1>4, <2>1 DEF TypeOK
  <1>6. RunLocks /\ Marked /\ Uncounted
    BY <1>3 DEF RunLocks, Marked, Uncounted
  <1>7. RunsOwn
    BY DEF RunsOwn
  <1>8. OnItsWay
    <2>1. inst # "none" <=> on
      OBVIOUS
    <2> QED
      BY <2>1 DEF OnItsWay
  <1> QED
    BY <1>5, <1>6, <1>7, <1>8 DEF ControlInv

LEMMA ControlTypeStep ==
    ASSUME ControlInv, [Next]_vars
    PROVE  TypeOK'
  <1> USE ControlAssumption DEF ControlInv, TypeOK, Uncounted, userVars, pageVars, instVars, reloadVars, rpcVars,
     runVars
  <1>1. CASE Ready
    BY <1>1 DEF Ready
  <1>2. CASE Crash
    BY <1>2 DEF Crash, Hit, Running
  <1>3. CASE Respawn
    BY <1>3 DEF Respawn
  <1>4. CASE UiDecide
    <2>1. ui' \in Nat /\ calls' \in [Actions -> Nat]
      BY <1>4 DEF UiDecide, Call
    <2>2. decided' \in BOOLEAN
      BY <1>4 DEF UiDecide
    <2> QED
      BY <1>4, <2>1, <2>2 DEF UiDecide
  <1>5. CASE ReloadEnter
    <2>1. pending' \in BOOLEAN
      BY <1>5 DEF ReloadEnter
    <2> QED
      BY <1>5, <2>1 DEF ReloadEnter
  <1>6. CASE ReloadAgain
    BY <1>6 DEF ReloadAgain, Vanish, Gone
  <1>7. CASE ReloadLoad
    BY <1>7 DEF ReloadLoad
  <1>8. CASE ReloadPublish
    BY <1>8 DEF ReloadPublish, Publish, Vanish, Gone, StartFails, Hit, Running
  <1>9. ASSUME NEW a \in Actions, RpcEnter(a)
        PROVE  TypeOK'
    BY <1>9 DEF RpcEnter, Actions
  <1>10. CASE RpcStop
    BY <1>10 DEF RpcStop, Vanish, Gone, StopFails, Hit
  <1>11. CASE RpcStart
    BY <1>11 DEF RpcStart, Publish, Vanish, Gone, StartFails, Hit, Running
  <1>12. CASE RunStart
    BY <1>12 DEF RunStart, RunStep
  <1>13. CASE RunGenerate
    BY <1>13 DEF RunGenerate, RunStep
  <1>14. CASE RunProbe
    BY <1>14 DEF RunProbe, RunStep
  <1>15. CASE RunLock
    BY <1>15 DEF RunLock, RunStep
  <1>16. CASE RunReprobe
    BY <1>16 DEF RunReprobe, RunStep, Release
  <1>17. CASE RunRunning
    BY <1>17 DEF RunRunning, RunStep, Release, Running
  <1>18. CASE RunInitStart
    BY <1>18 DEF RunInitStart, RunStep, Publish, Vanish, Gone, StartFails, Hit, Release, Running
  <1>19. CASE RunMark
    BY <1>19 DEF RunMark, RunStep
  <1>20. CASE RunWait
    BY <1>20 DEF RunWait, RunStep
  <1>21. CASE RunWork
    BY <1>21 DEF RunWork, RunStep
  <1>22. CASE RunCleanup
    <2>1. started' \in BOOLEAN
      BY <1>22 DEF RunCleanup, RunStep, Vanish, Gone, StopFails, Hit
    <2>2. inst' \in {"none", "user", "run"} /\ hit' \subseteq Faults
      BY <1>22 DEF RunCleanup, RunStep, Vanish, Gone, StopFails, Hit
    <2> QED
      BY <1>22, <2>1, <2>2 DEF RunCleanup, RunStep, Vanish, Gone, StopFails, Hit
  <1>23. CASE RunUnlock
    BY <1>23 DEF RunUnlock, RunStep, Release
  <1>24. CASE Signal
    <2>1. started' \in BOOLEAN
      BY <1>24 DEF Signal, Hit, Release
    <2>2. runs' \in 0..MaxRuns
      BY <1>24 DEF Signal, Hit, Release
    <2> QED
      BY <1>24, <2>1, <2>2 DEF Signal, Hit, Release
  <1>25. ASSUME NEW e \in BOOLEAN, NEW v \in BOOLEAN, Save(e, v)
        PROVE  TypeOK'
    <2>1. calm' \in BOOLEAN /\ decided' \in BOOLEAN
      BY <1>25 DEF Save, Rest, NoAction
    <2>2. ui' \in Nat /\ saves' \in 0..MaxSaves /\ hit' \subseteq Faults
      BY <1>25 DEF Save, Hit
    <2> QED
      BY <1>25, <2>1, <2>2 DEF Save
  <1>26. CASE UNCHANGED vars
    BY <1>26 DEF vars
  <1>27. CASE UiDrops
    <2>1. ui' \in Nat
      BY <1>27 DEF UiDrops
    <2> QED
      BY <1>27, <2>1 DEF UiDrops
  <1>28. CASE UiRestart
    <2>1. calls' \in [Actions -> Nat]
      <3>1. "restart" \in Actions /\ calls \in [Actions -> Nat]
        BY DEF Actions
      <3>2. calls' = [calls EXCEPT !["restart"] = calls["restart"] + 1]
        BY <1>28 DEF UiRestart, Call
      <3> QED
        BY ONLY <3>1, <3>2
    <2>2. calm' \in BOOLEAN /\ decided' \in BOOLEAN
      BY <1>28 DEF UiRestart
    <2>3. UNCHANGED <<on, valid, pending, ui, saves>>
      BY <1>28 DEF UiRestart
    <2>4. UNCHANGED <<instVars, lock, reloadVars, rpc, action, runVars, hit>>
      BY <1>28 DEF UiRestart
    <2> QED
      BY <2>1, <2>2, <2>3, <2>4
  <1> QED
    BY <1>1, <1>2, <1>3, <1>4, <1>5, <1>6, <1>7, <1>8, <1>9, <1>10, <1>11, <1>12, <1>13, <1>14,
       <1>15, <1>16, <1>17, <1>18, <1>19, <1>20, <1>21, <1>22, <1>23, <1>24, <1>25, <1>26,
       <1>27, <1>28
    DEF Next, Procd, User, InitScript, Rpcd, Updater

LEMMA RunLockStep ==
    ASSUME ControlInv, [Next]_vars
    PROVE  RunLocks'
  <1> USE ControlAssumption DEF ControlInv, TypeOK, RunLocks, userVars, pageVars, instVars, reloadVars, rpcVars,
     runVars
  <1>1. CASE Procd
    BY <1>1 DEF Procd, Ready, Crash, Respawn, Hit, Running
  <1>2. CASE User
    BY <1>2 DEF User, Save, UiDecide, UiDrops, UiRestart, Hit, Running
  <1>3. CASE InitScript
    BY <1>3 DEF InitScript, ReloadEnter, ReloadAgain, ReloadLoad, ReloadPublish, Gone,
       Hit, Publish, Running, StartFails, Vanish
  <1>4. CASE Rpcd
    BY <1>4 DEF Rpcd, RpcEnter, RpcStop, RpcStart, Gone, Hit, Publish, Running,
       StartFails, StopFails, Vanish
  <1>5. CASE RunStart
    BY <1>5 DEF RunStart, RunStep
  <1>6. CASE RunGenerate
    BY <1>6 DEF RunGenerate, RunStep
  <1>7. CASE RunProbe
    BY <1>7 DEF RunProbe, RunStep
  <1>8. CASE RunLock
    BY <1>8 DEF RunLock, RunStep
  <1>9. CASE RunReprobe
    BY <1>9 DEF RunReprobe, RunStep, Release
  <1>10. CASE RunRunning
    BY <1>10 DEF RunRunning, RunStep, Release, Running
  <1>11. CASE RunInitStart
    BY <1>11 DEF RunInitStart, RunStep, Publish, Vanish, Gone, StartFails, Hit, Release,
       Running
  <1>12. CASE RunMark
    BY <1>12 DEF RunMark, RunStep
  <1>13. CASE RunWait
    BY <1>13 DEF RunWait, RunStep
  <1>14. CASE RunWork
    BY <1>14 DEF RunWork, RunStep
  <1>15. CASE RunCleanup
    BY <1>15 DEF RunCleanup, RunStep, Vanish, Gone, StopFails, Hit
  <1>16. CASE RunUnlock
    BY <1>16 DEF RunUnlock, RunStep, Release
  <1>17. CASE Signal
    BY <1>17 DEF Signal, Hit, Release
  <1>18. CASE UNCHANGED vars
    BY <1>18 DEF vars
  <1> QED
    BY <1>1, <1>2, <1>3, <1>4, <1>5, <1>6, <1>7, <1>8, <1>9, <1>10, <1>11, <1>12, <1>13,
       <1>14, <1>15, <1>16, <1>17, <1>18 DEF Next, Updater

LEMMA RunOwnStep ==
    ASSUME ControlInv, [Next]_vars
    PROVE  RunsOwn'
  <1> USE ControlAssumption DEF ControlInv, TypeOK, RunLocks, RunsOwn, userVars, pageVars, instVars, reloadVars,
     rpcVars, runVars
  <1>1. CASE Procd
    BY <1>1 DEF Procd, Ready, Crash, Respawn, Hit, Running
  <1>2. CASE User
    BY <1>2 DEF User, Save, UiDecide, UiDrops, UiRestart, Hit, Running
  <1>3. CASE ReloadEnter
    BY <1>3 DEF ReloadEnter
  <1>4. CASE ReloadAgain
    BY <1>4 DEF ReloadAgain, Vanish, Gone
  <1>5. CASE ReloadLoad
    BY <1>5 DEF ReloadLoad
  <1>6. CASE ReloadPublish
    BY <1>6 DEF ReloadPublish, Publish, Vanish, Gone, StartFails, Hit, Running
  <1>7. ASSUME NEW a \in Actions, RpcEnter(a)
        PROVE  RunsOwn'
    BY <1>7 DEF RpcEnter, Actions
  <1>8. CASE RpcStop
    BY <1>8 DEF RpcStop, Vanish, Gone, StopFails, Hit
  <1>9. CASE RpcStart
    BY <1>9 DEF RpcStart, Publish, Vanish, Gone, StartFails, Hit, Running
  <1>10. CASE RunStart
    BY <1>10 DEF RunStart, RunStep
  <1>11. CASE RunGenerate
    BY <1>11 DEF RunGenerate, RunStep
  <1>12. CASE RunProbe
    BY <1>12 DEF RunProbe, RunStep
  <1>13. CASE RunLock
    BY <1>13 DEF RunLock, RunStep
  <1>14. CASE RunReprobe
    BY <1>14 DEF RunReprobe, RunStep, Release
  <1>15. CASE RunRunning
    BY <1>15 DEF RunRunning, RunStep, Release, Running
  <1>16. CASE RunInitStart
    BY <1>16 DEF RunInitStart, RunStep, Publish, Vanish, Gone, StartFails, Hit, Release,
       Running
  <1>17. CASE RunMark
    BY <1>17 DEF RunMark, RunStep
  <1>18. CASE RunWait
    BY <1>18 DEF RunWait, RunStep
  <1>19. CASE RunWork
    BY <1>19 DEF RunWork, RunStep
  <1>20. CASE RunCleanup
    BY <1>20 DEF RunCleanup, RunStep, Vanish, Gone, StopFails, Hit
  <1>21. CASE RunUnlock
    BY <1>21 DEF RunUnlock, RunStep, Release
  <1>22. CASE Signal
    BY <1>22 DEF Signal, Hit, Release
  <1>23. CASE UNCHANGED vars
    BY <1>23 DEF vars
  <1> QED
    BY <1>1, <1>2, <1>3, <1>4, <1>5, <1>6, <1>7, <1>8, <1>9, <1>10, <1>11, <1>12, <1>13,
       <1>14, <1>15, <1>16, <1>17, <1>18, <1>19, <1>20, <1>21, <1>22, <1>23 DEF Next,
       InitScript, Rpcd, Updater

LEMMA RunMarkStep ==
    ASSUME ControlInv, [Next]_vars
    PROVE  Marked'
  <1> USE ControlAssumption DEF ControlInv, TypeOK, RunLocks, Marked, userVars, pageVars, instVars, reloadVars,
     rpcVars, runVars
  <1>1. CASE Procd
    BY <1>1 DEF Procd, Ready, Crash, Respawn, Hit, Running
  <1>2. CASE User
    BY <1>2 DEF User, Save, UiDecide, UiDrops, UiRestart, Hit, Running
  <1>3. CASE ReloadEnter
    BY <1>3 DEF ReloadEnter
  <1>4. CASE ReloadAgain
    BY <1>4 DEF ReloadAgain, Vanish, Gone
  <1>5. CASE ReloadLoad
    BY <1>5 DEF ReloadLoad
  <1>6. CASE ReloadPublish
    BY <1>6 DEF ReloadPublish, Publish, Vanish, Gone, StartFails, Hit, Running
  <1>7. ASSUME NEW a \in Actions, RpcEnter(a)
        PROVE  Marked'
    BY <1>7 DEF RpcEnter, Actions
  <1>8. CASE RpcStop
    BY <1>8 DEF RpcStop, Vanish, Gone, StopFails, Hit
  <1>9. CASE RpcStart
    BY <1>9 DEF RpcStart, Publish, Vanish, Gone, StartFails, Hit, Running
  <1>10. CASE RunStart
    BY <1>10 DEF RunStart, RunStep
  <1>11. CASE RunGenerate
    BY <1>11 DEF RunGenerate, RunStep
  <1>12. CASE RunProbe
    BY <1>12 DEF RunProbe, RunStep
  <1>13. CASE RunLock
    BY <1>13 DEF RunLock, RunStep
  <1>14. CASE RunReprobe
    BY <1>14 DEF RunReprobe, RunStep, Release
  <1>15. CASE RunRunning
    BY <1>15 DEF RunRunning, RunStep, Release, Running
  <1>16. CASE RunInitStart
    BY <1>16 DEF RunInitStart, RunStep, Publish, Vanish, Gone, StartFails, Hit, Release,
       Running
  <1>17. CASE RunMark
    BY <1>17 DEF RunMark, RunStep
  <1>18. CASE RunWait
    BY <1>18 DEF RunWait, RunStep
  <1>19. CASE RunWork
    BY <1>19 DEF RunWork, RunStep
  <1>20. CASE RunCleanup
    BY <1>20 DEF RunCleanup, RunStep, Vanish, Gone, StopFails, Hit
  <1>21. CASE RunUnlock
    BY <1>21 DEF RunUnlock, RunStep, Release
  <1>22. CASE Signal
    BY <1>22 DEF Signal, Hit, Release
  <1>23. CASE UNCHANGED vars
    BY <1>23 DEF vars
  <1> QED
    BY <1>1, <1>2, <1>3, <1>4, <1>5, <1>6, <1>7, <1>8, <1>9, <1>10, <1>11, <1>12, <1>13,
       <1>14, <1>15, <1>16, <1>17, <1>18, <1>19, <1>20, <1>21, <1>22, <1>23 DEF Next,
       InitScript, Rpcd, Updater

LEMMA WayStep ==
    ASSUME ControlInv, [Next]_vars
    PROVE  (Undisturbed => OnItsWay)'
  <1> USE ControlAssumption DEF ControlInv, TypeOK, Undisturbed, OnItsWay, NoAction, RunsOwn, userVars, pageVars, instVars,
     reloadVars, rpcVars, runVars
  <1>1. CASE Procd
    BY <1>1 DEF Procd, Ready, Crash, Respawn, Hit, Running
  <1>2. ASSUME NEW e \in BOOLEAN, NEW v \in BOOLEAN, Save(e, v)
        PROVE  (Undisturbed => OnItsWay)'
    BY <1>2 DEF Save, Hit, Rest
  <1>3. CASE UiDecide
    BY <1>3 DEF UiDecide, Call, Running, Actions
  <1>4. CASE ReloadEnter
    BY <1>4 DEF ReloadEnter
  <1>5. CASE ReloadAgain
    BY <1>5 DEF ReloadAgain, Vanish, Gone
  <1>6. CASE ReloadLoad
    BY <1>6 DEF ReloadLoad
  <1>7. CASE ReloadPublish
    BY <1>7 DEF ReloadPublish, Publish, Vanish, Gone, StartFails, Hit, Running
  <1>8. ASSUME NEW a \in Actions, RpcEnter(a)
        PROVE  (Undisturbed => OnItsWay)'
    BY <1>8 DEF RpcEnter, Actions
  <1>9. CASE RpcStop
    BY <1>9 DEF RpcStop, Vanish, Gone, StopFails, Hit
  <1>10. CASE RpcStart
    BY <1>10 DEF RpcStart, Publish, Vanish, Gone, StartFails, Hit, Running
  <1>11. CASE Updater
    BY <1>11 DEF Updater, Gone, Hit, Publish, Release, RunCleanup, RunGenerate,
       RunInitStart, RunLock, RunMark, RunProbe, RunReprobe, RunRunning, RunStart,
       RunStep, RunUnlock, RunWait, RunWork, Running, Signal, StartFails, StopFails,
       Vanish
  <1>12. CASE UNCHANGED vars
    BY <1>12 DEF vars
  <1>13. CASE UiDrops
    BY <1>13 DEF UiDrops
  <1>14. CASE UiRestart
    BY <1>14 DEF UiRestart
  <1> QED
    BY <1>1, <1>2, <1>3, <1>4, <1>5, <1>6, <1>7, <1>8, <1>9, <1>10, <1>11, <1>12,
       <1>13, <1>14 DEF Next,
       User, InitScript, Rpcd

LEMMA RunCountStep ==
    ASSUME ControlInv, [Next]_vars
    PROVE  Uncounted'
  <1> USE ControlAssumption DEF ControlInv, TypeOK, Uncounted, userVars, pageVars, instVars, reloadVars, rpcVars,
     runVars
  <1>1. CASE Procd
    BY <1>1 DEF Procd, Ready, Crash, Respawn, Hit, Running
  <1>2. CASE User
    BY <1>2 DEF User, Save, UiDecide, UiDrops, UiRestart, Hit, Running
  <1>3. CASE InitScript
    BY <1>3 DEF InitScript, ReloadEnter, ReloadAgain, ReloadLoad, ReloadPublish, Gone,
       Hit, Publish, Running, StartFails, Vanish
  <1>4. CASE Rpcd
    BY <1>4 DEF Rpcd, RpcEnter, RpcStop, RpcStart, Gone, Hit, Publish, Running,
       StartFails, StopFails, Vanish
  <1>5. CASE Updater
    BY <1>5 DEF Updater, Gone, Hit, Publish, Release, RunCleanup, RunGenerate,
       RunInitStart, RunLock, RunMark, RunProbe, RunReprobe, RunRunning, RunStart,
       RunStep, RunUnlock, RunWait, RunWork, Running, Signal, StartFails, StopFails,
       Vanish
  <1>6. CASE UNCHANGED vars
    BY <1>6 DEF vars
  <1> QED
    BY <1>1, <1>2, <1>3, <1>4, <1>5, <1>6 DEF Next

LEMMA ControlInvHolds == Spec => []ControlInv
  <1>1. ControlInv /\ [Next]_vars => ControlInv'
    BY ControlTypeStep, RunLockStep, RunOwnStep, RunMarkStep, WayStep, RunCountStep DEF ControlInv
  <1> QED
    BY <1>1, InitControlInv, PTL DEF Spec

---------------------------------------------------------------------------
(* The theorems of the service control *)

\* Every variable has its type, an instance that procd does not have has no process, and
\* the lifecycle lock is where its three holders (init.d/liquid-formula, rpcd, update.sh)
\* take and release it.
THEOREM TypeCorrect == Spec => []TypeOK
  BY ControlInvHolds, PTL DEF ControlInv

\* A temporary converter does not outlive its run of update.sh, which knows of it from
\* INIT start to its exit trap unless a signal or a failed INIT stop comes between.
THEOREM TemporaryGoes == Spec => []TemporaryRemoved
  <1>1. ControlInv => TemporaryRemoved
    BY DEF ControlInv, RunLocks, Marked, TemporaryRemoved
  <1> QED
    BY <1>1, ControlInvHolds, PTL

\* However the reload triggers of several saves (init.d/liquid-formula), the decisions of
\* their pages and the Restart button (overview.js) and rpcd's refusals interleave, the
\* service ends as the last save says, if that was made at rest, or once a page has
\* decided with no service action under way.
THEOREM SwitchDecides == Spec => []SwitchHolds
  <1>1. ControlInv => SwitchHolds
    <2> SUFFICES ASSUME ControlInv, Rest, hit = {}, runs = 0, calm \/ decided
                 PROVE  (inst # "none") = on
      BY DEF SwitchHolds
    <2>1. inst # "none" <=> on
      BY DEF ControlInv, Undisturbed, OnItsWay, Rest
    <2>2. on \in BOOLEAN
      BY DEF ControlInv, TypeOK
    <2> QED
      BY <2>1, <2>2
  <1> QED
    BY <1>1, ControlInvHolds, PTL

\* A step of a run that disturbs an instance is its start or its cleanup; both find none
\* of the user's.
LEMMA KeepStep ==
    ASSUME ControlInv, [Next]_vars
    PROVE  run' # run /\ inst = "user" /\ "crash" \notin hit => inst' = "user"
  <1> USE DEF ControlInv, TypeOK, RunLocks, RunsOwn, userVars, pageVars, instVars, reloadVars, rpcVars, runVars
  <1>1. Procd \/ User \/ InitScript \/ Rpcd => run' = run
    BY DEF Procd, User, InitScript, Rpcd, Ready, Crash, Respawn, Save, UiDecide, UiDrops, UiRestart, ReloadEnter,
       ReloadAgain, ReloadLoad, ReloadPublish, RpcEnter, RpcStop, RpcStart
  <1>2. CASE RunInitStart
    BY <1>2 DEF RunInitStart, RunStep, Publish, Vanish, Gone, StartFails, Hit
  <1>3. CASE RunCleanup
    BY <1>3 DEF RunCleanup, RunStep, Vanish, Gone, StopFails, Hit
  <1>4. Updater /\ ~RunInitStart /\ ~RunCleanup => inst' = inst
    BY DEF Updater, RunStart, RunGenerate, RunProbe, RunLock, RunReprobe, RunRunning, RunMark,
       RunWait, RunWork, RunUnlock, Signal
  <1> QED
    BY <1>1, <1>2, <1>3, <1>4 DEF Next, vars

\* No step of update.sh (ensure_converter_for_generation, cleanup) removes an instance
\* that the user's side has published, as long as the converter has not crashed.
THEOREM UserKept == Spec => UserServiceSurvives
  <1>1. ControlInv /\ [Next]_vars
          => [run' # run /\ inst = "user" /\ "crash" \notin hit => inst' = "user"]_vars
    BY KeepStep
  <1> QED
    BY <1>1, ControlInvHolds, PTL DEF Spec, UserServiceSurvives
====
