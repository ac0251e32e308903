---- MODULE OwnerLock_proofs ----
(***************************************************************************)
(* Type correctness of the directory locks, and that exclusion is lost in  *)
(* one way only, for every number of runs, children, kills and attempts.   *)
(***************************************************************************)
EXTENDS OwnerLock, FiniteSetTheorems, TLAPS

---------------------------------------------------------------------------
(* Types *)

\* A recovery begins below the limit of attempts and reads the owner twice at most;
\* children are counted from 1.
Counting ==
    \A p \in Procs :
        /\ pc[p] \in {"look", "wait", "sweep", "read", "judge", "guard", "clear", "compare",
                      "remove", "rmdir"} => tries[p] < Attempts
        /\ pc[p] \in {"look", "wait", "read", "guard", "clear"} => round[p] <= 1
        /\ kid[p].at # "none" => kid[p].n >= 1

Typed == TypeOK /\ Counting

LEMMA RmdirTypes ==
    ASSUME TypeOK, NEW p \in Procs, Rmdir(p)
    PROVE  /\ dir' \in Procs \cup {None} /\ robbed' \in BOOLEAN
           /\ dir' = None => owner = None /\ delegate = None
  BY LockAssumption DEF TypeOK, Rmdir, Empty

LEMMA AgainTypes ==
    ASSUME Typed, NEW p \in Procs, NEW from \in {"sweep", "rmdir"}, Again(p, from),
           UNCHANGED <<guarded, owner, delegate, seen, round, watched, kid, deaths, met>>
    PROVE  Typed'
  <1>1. tries' = [tries EXCEPT ![p] = tries[p] + 1] /\ tries[p] + 1 \in 0..Attempts
    BY LockAssumption DEF Typed, TypeOK, Counting, Again, Goto
  <1>2. pc' = [pc EXCEPT ![p] = "mkdir"] /\ Rmdir(p)
    BY DEF Again, Goto
  <1>3. TypeOK'
    BY <1>1, <1>2, RmdirTypes DEF Typed, TypeOK, Labels, Ended
  <1>4. Counting'
    BY <1>1, <1>2 DEF Typed, TypeOK, Counting
  <1> QED BY <1>3, <1>4 DEF Typed

LEMMA TakeTypes ==
    ASSUME Typed, NEW p \in Procs, Take(p), UNCHANGED guarded
    PROVE  Typed'
  <1> USE LockAssumption DEF Typed, TypeOK, Counting, Goto, lockVars, Labels, Ended
  <1>1. CASE Start(p)
    BY <1>1 DEF Start, Company
  <1>2. CASE Mkdir(p)
    <2>1. round' = [round EXCEPT ![p] = 0] /\ pc[p] = "mkdir" /\ tries[p] < Attempts
      BY <1>2 DEF Mkdir
    <2>2. CASE dir = None
      BY <1>2, <2>1, <2>2 DEF Mkdir
    <2>3. CASE dir # None
      BY SMTT(60), <1>2, <2>1, <2>3 DEF Mkdir
    <2> QED BY <2>2, <2>3
  <1>3. CASE GiveUp(p)
    BY <1>3 DEF GiveUp
  <1>4. CASE Publish(p)
    BY <1>4 DEF Publish
  <1>5. CASE Unpublish(p)
    BY <1>5, RmdirTypes DEF Unpublish
  <1>6. CASE Look(p)
    <2>1. /\ pc' = [pc EXCEPT ![p] = pc'[p]] /\ pc'[p] \in {"failed", "wait", "read"}
          /\ pc[p] = "look" /\ watched' \in [Procs -> SUBSET Procs]
      BY <1>6 DEF Look, Publishing
    <2> QED BY <1>6, <2>1 DEF Look
  <1>7. CASE Wait(p)
    BY <1>7 DEF Wait
  <1>8. CASE Sweep(p)
    BY <1>8, AgainTypes DEF Sweep
  <1>9. CASE Read(p)
    <2>1. CASE owner = None
      BY <1>9, <2>1 DEF Read
    <2>2. CASE owner # None
      <3>1. round' = [round EXCEPT ![p] = round[p] + 1] /\ round[p] + 1 \in 0..2
        <4>1. round[p] \in {0, 1} /\ round' = [round EXCEPT ![p] = round[p] + 1]
          BY <1>9, <2>2 DEF Read
        <4> QED BY <4>1
      <3>2. seen' = [seen EXCEPT ![p] = owner] /\ pc' = [pc EXCEPT ![p] = "judge"] /\ pc[p] = "read"
        BY <1>9, <2>2 DEF Read
      <3>3. TypeOK'
        BY <1>9, <3>1, <3>2 DEF Read
      <3>4. Counting'
        BY <1>9, <3>1, <3>2 DEF Read
      <3> QED BY <3>3, <3>4
    <2> QED BY <2>1, <2>2
  <1>10. CASE Judge(p)
    BY <1>10 DEF Judge
  <1>11. CASE Guard(p)
    BY <1>11 DEF Guard, AfterGuard
  <1>12. CASE Clear(p)
    BY <1>12 DEF Clear, AfterGuard, RmDelegate
  <1>13. CASE Compare(p)
    BY <1>13 DEF Compare
  <1>14. CASE Remove(p)
    BY <1>14 DEF Remove, RmOwner
  <1>15. CASE Recover(p)
    BY <1>15, AgainTypes DEF Recover
  <1> QED
    BY <1>1, <1>2, <1>3, <1>4, <1>5, <1>6, <1>7, <1>8, <1>9, <1>10, <1>11, <1>12, <1>13, <1>14, <1>15
       DEF Take

LEMMA LeaveTypes ==
    ASSUME Typed, NEW p \in Procs, Leave(p), UNCHANGED guarded
    PROVE  Typed'
  <1> USE LockAssumption DEF Typed, TypeOK, Counting, Goto, lockVars, Labels, Ended
  <1>1. CASE Spawn(p)
    <2>1. /\ kid' = [kid EXCEPT ![p] = [n |-> kid[p].n + 1, at |-> "check"]]
          /\ kid[p].n + 1 \in 0..MaxKids /\ kid[p].n + 1 >= 1
      BY <1>1 DEF Spawn
    <2>2. kid' \in [Procs -> [n : 0..MaxKids, at : KidLabels]]
      BY <2>1 DEF KidLabels
    <2>3. TypeOK'
      BY <1>1, <2>2 DEF Spawn
    <2>4. Counting'
      BY <1>1, <2>1 DEF Spawn
    <2> QED BY <2>3, <2>4
  <1>2. CASE Reap(p)
    BY <1>2 DEF Reap
  <1>3. CASE Finish(p)
    BY <1>3 DEF Finish
  <1>4. CASE Release(p)
    BY <1>4 DEF Release
  <1>5. CASE Erase(p)
    BY <1>5 DEF Erase, RmOwner
  <1>6. CASE Drop(p)
    BY <1>6, RmdirTypes DEF Drop
  <1> QED BY <1>1, <1>2, <1>3, <1>4, <1>5, <1>6 DEF Leave

\* A child's program counter moves.
LEMMA KidMoves ==
    ASSUME Typed, NEW p \in Procs, NEW at \in KidLabels, kid[p].at # "none", kid' = [kid EXCEPT ![p].at = at]
    PROVE  /\ kid' \in [Procs -> [n : 0..MaxKids, at : KidLabels]]
           /\ \A q \in Procs : kid'[q].at # "none" => kid'[q].n >= 1
  <1>1. kid \in [Procs -> [n : 0..MaxKids, at : KidLabels]]
    BY DEF Typed, TypeOK
  <1>2. kid' = [kid EXCEPT ![p] = [kid[p] EXCEPT !.at = at]]
    OBVIOUS
  <1>3. [kid[p] EXCEPT !.at = at] \in [n : 0..MaxKids, at : KidLabels]
    BY <1>1
  <1>4. kid' \in [Procs -> [n : 0..MaxKids, at : KidLabels]]
    BY <1>1, <1>2, <1>3
  <1>5. \A q \in Procs : kid[q].at # "none" => kid[q].n >= 1
    BY DEF Typed, Counting
  <1>6. \A q \in Procs : kid'[q].n = kid[q].n /\ (q # p => kid'[q] = kid[q])
    BY <1>1, <1>2
  <1> QED BY <1>4, <1>5, <1>6

LEMMA ChildTypes ==
    ASSUME Typed, NEW p \in Procs, Child(p), UNCHANGED guarded
    PROVE  Typed'
  <1> USE LockAssumption DEF Typed, TypeOK, Counting, KidGoto, lockVars, KidLabels, KidEnded
  <1>1. CASE KidCheck(p)
    BY <1>1 DEF KidCheck
  <1>2. CASE KidGuard(p)
    BY <1>2 DEF KidGuard
  <1>3. CASE KidClear(p)
    BY <1>3 DEF KidClear, RmDelegate
  <1>4. CASE KidLink(p)
    <2>1. Record(p) \in Kids
      BY <1>4 DEF KidLink, Record, Kids
    <2>2. /\ kid' = [kid EXCEPT ![p].at = kid'[p].at] /\ kid[p].at = "link"
          /\ kid'[p].at \in {"confirm", "refused"}
      BY <1>4 DEF KidLink
    <2>3. /\ kid' \in [Procs -> [n : 0..MaxKids, at : KidLabels]]
          /\ \A q \in Procs : kid'[q].at # "none" => kid'[q].n >= 1
      BY ZenonT(60), <2>2, KidMoves
    <2>4. TypeOK'
      BY <1>4, <2>1, <2>3 DEF KidLink
    <2>5. Counting'
      BY <1>4, <2>3 DEF KidLink
    <2> QED BY <2>4, <2>5
  <1>5. CASE KidConfirm(p)
    BY <1>5 DEF KidConfirm
  <1>6. CASE KidAliveCheck(p)
    BY <1>6 DEF KidAliveCheck
  <1>7. CASE KidFinish(p)
    BY <1>7 DEF KidFinish
  <1>8. CASE KidRelease(p)
    <2>1. /\ kid' = [kid EXCEPT ![p].at = kid'[p].at] /\ kid[p].at \in {"release", "undo"}
          /\ kid'[p].at \in {"erase", "done", "unerase", "refused"}
      BY <1>8 DEF KidRelease
    <2>2. /\ kid' \in [Procs -> [n : 0..MaxKids, at : KidLabels]]
          /\ \A q \in Procs : kid'[q].at # "none" => kid'[q].n >= 1
      BY SMTT(60), <2>1, KidMoves
    <2>3. TypeOK'
      BY <1>8, <2>2 DEF KidRelease
    <2>4. Counting'
      BY <1>8, <2>2 DEF KidRelease
    <2> QED BY <2>3, <2>4
  <1>9. CASE KidErase(p)
    <2>1. /\ kid' = [kid EXCEPT ![p].at = kid'[p].at] /\ kid[p].at \in {"erase", "unerase"}
          /\ kid'[p].at \in {"drop", "undrop"}
      BY <1>9 DEF KidErase
    <2>2. /\ kid' \in [Procs -> [n : 0..MaxKids, at : KidLabels]]
          /\ \A q \in Procs : kid'[q].at # "none" => kid'[q].n >= 1
      BY ZenonT(60), <2>1, KidMoves
    <2>3. delegate' = None /\ robbed' \in BOOLEAN
      BY <1>9 DEF KidErase, RmDelegate
    <2>4. TypeOK'
      BY <1>9, <2>2, <2>3 DEF KidErase
    <2>5. Counting'
      BY <1>9, <2>2 DEF KidErase
    <2> QED BY <2>4, <2>5
  <1>10. CASE KidDrop(p)
    <2>1. /\ kid' = [kid EXCEPT ![p].at = kid'[p].at] /\ kid[p].at \in {"drop", "undrop"}
          /\ kid'[p].at \in {"done", "refused"}
      BY <1>10 DEF KidDrop
    <2>2. /\ kid' \in [Procs -> [n : 0..MaxKids, at : KidLabels]]
          /\ \A q \in Procs : kid'[q].at # "none" => kid'[q].n >= 1
      BY ZenonT(60), <2>1, KidMoves
    <2>3. TypeOK'
      BY <1>10, <2>2, RmdirTypes DEF KidDrop
    <2>4. Counting'
      BY <1>10, <2>2 DEF KidDrop
    <2> QED BY <2>3, <2>4
  <1> QED
    BY <1>1, <1>2, <1>3, <1>4, <1>5, <1>6, <1>7, <1>8, <1>9, <1>10 DEF Child

LEMMA DeathTypes ==
    ASSUME Typed, NEW p \in Procs, Die(p) \/ KidDie(p), UNCHANGED guarded
    PROVE  Typed'
  <1>1. CASE Die(p)
    BY <1>1, LockAssumption DEF Typed, TypeOK, Counting, Die, lockVars, Labels, Ended
  <1>2. CASE KidDie(p)
    <2>1. "dead" \in KidLabels /\ kid[p].at # "none" /\ kid' = [kid EXCEPT ![p].at = "dead"]
      BY <1>2 DEF KidDie, KidAlive, KidLabels, KidEnded
    <2>2. /\ kid' \in [Procs -> [n : 0..MaxKids, at : KidLabels]]
          /\ \A q \in Procs : kid'[q].at # "none" => kid'[q].n >= 1
      BY <2>1, KidMoves
    <2>3. TypeOK'
      BY <1>2, <2>2, LockAssumption DEF Typed, TypeOK, KidDie, lockVars
    <2>4. Counting'
      BY <1>2, <2>2 DEF Typed, Counting, KidDie
    <2> QED BY <2>3, <2>4 DEF Typed
  <1> QED BY <1>1, <1>2

LEMMA TypedStep == Typed /\ [Next]_vars => Typed'
  <1> SUFFICES ASSUME Typed, [Next]_vars
               PROVE  Typed'
    OBVIOUS
  <1>1. CASE Next
    BY <1>1, TakeTypes, LeaveTypes, ChildTypes, DeathTypes DEF Next
  <1>2. CASE UNCHANGED vars
    BY <1>2 DEF Typed, TypeOK, Counting, vars
  <1> QED BY <1>1, <1>2

LEMMA InitTyped == Init => Typed
  <1> SUFFICES ASSUME Init
               PROVE  Typed
    OBVIOUS
  <1>1. kid \in [Procs -> [n : 0..MaxKids, at : KidLabels]]
    BY LockAssumption DEF Init, KidLabels, KidEnded
  <1>2. /\ pc \in [Procs -> Labels] /\ tries \in [Procs -> 0..Attempts]
        /\ seen \in [Procs -> Procs \cup {None}] /\ round \in [Procs -> 0..2]
    BY LockAssumption DEF Init, Labels
  <1>3. met \subseteq Procs /\ robbed \in BOOLEAN /\ deaths \in 0..MaxDeaths
    <2>1. met = {} /\ robbed = FALSE /\ deaths = 0
      BY DEF Init
    <2>2. deaths \in 0..MaxDeaths
      BY <2>1, LockAssumption
    <2> QED BY <2>1, <2>2
  <1>4. watched \in [Procs -> SUBSET Procs]
    <2>1. watched = [p \in Procs |-> {}] /\ {} \in SUBSET Procs
      BY DEF Init
    <2> QED BY <2>1
  <1>5. TypeOK
    BY <1>1, <1>2, <1>3, <1>4 DEF Init, TypeOK
  <1>6. Counting
    BY LockAssumption DEF Init, Counting
  <1> QED BY <1>5, <1>6 DEF Typed

\* Type correctness; among others a run takes a dead holder's lock apart as often as
\* the limit of acquire_lock says and never leaves a record where there is no directory.
THEOREM TypeCorrect == Spec => []TypeOK
  <1>1. Typed => TypeOK
    BY DEF Typed
  <1> QED BY <1>1, InitTyped, TypedStep, PTL DEF Spec

---------------------------------------------------------------------------
(* Exclusion.  A run may act when its record is in the directory that it   *)
(* made itself; a child when its own record is there too, which keeps rmdir *)
(* away.  So everybody who acts belongs to the directory's maker.          *)

Entitled ==
    /\ owner \in {None, dir}
    /\ \A p \in Procs :
          /\ pc[p] = "publish" => dir = p /\ owner = None
          /\ pc[p] \in {"held", "waiting"} => owner = p
          /\ kid[p].at \in {"confirm", "alive", "work"} => delegate = Record(p)
          /\ kid[p].at \in {"alive", "work"} => dir = p

\* Only a run that holds the lock, or did, has a child.
Parents ==
    \A p \in Procs : kid[p].at # "none" =>
        pc[p] \in {"held", "waiting", "release", "erase", "drop", "done", "dead"}

Inv == Typed /\ Parents /\ (robbed \/ Entitled)

LEMMA ParentsStep ==
    ASSUME Typed, Parents, NEW p \in Procs,
           Take(p) \/ Leave(p) \/ Child(p) \/ Die(p) \/ KidDie(p)
    PROVE  Parents'
  <1>1. CASE Take(p)
    BY <1>1 DEF Typed, TypeOK, Parents, Take, Goto, Start, Mkdir, GiveUp, Publish, Unpublish, Look, Wait, Sweep,
                Again, Read, Judge, Guard, Clear, Compare, Remove, Recover
  <1>2. CASE Leave(p)
    BY <1>2 DEF Typed, TypeOK, Parents, Leave, Goto, Spawn, Reap, Finish, Release, Erase, Drop
  <1>3. CASE Child(p)
    BY <1>3 DEF Typed, TypeOK, Parents, Child, KidGoto, KidCheck, KidGuard, KidClear, KidLink, KidConfirm,
                KidAliveCheck, KidFinish, KidRelease, KidErase, KidDrop
  <1>4. CASE Die(p)
    BY <1>4 DEF Typed, TypeOK, Parents, Die
  <1>5. CASE KidDie(p)
    BY <1>5 DEF Typed, TypeOK, Parents, KidDie, KidAlive, KidEnded
  <1> QED BY <1>1, <1>2, <1>3, <1>4, <1>5

LEMMA RecordIsOne == Typed => \A q \in Procs : Record(q) # None /\ Record(q)[1] = q /\ Record(q)[2] = kid[q].n
  BY LockAssumption DEF Typed, TypeOK, Record

LEMMA RecordsDiffer == \A p, q \in Procs : p # q => Record(p) # Record(q)
  BY DEF Record

\* rmdir by somebody who is not publishing spares what anybody is entitled to.
LEMMA RmdirSpares ==
    ASSUME Typed, Entitled, NEW p \in Procs, pc[p] # "publish", Rmdir(p), ~robbed',
           UNCHANGED <<owner, delegate>>,
           \A q \in Procs : pc'[q] \in {"publish", "held", "waiting"} => pc'[q] = pc[q],
           \A q \in Procs : kid'[q].n = kid[q].n,
           \A q \in Procs : kid'[q].at \in {"confirm", "alive", "work"} => kid'[q].at = kid[q].at
    PROVE  Entitled'
  <1>1. CASE ~Empty
    BY <1>1 DEF Entitled, Rmdir, Record
  <1>2. CASE Empty
    <2>1. dir' = None /\ owner = None /\ delegate = None /\ (dir = p \/ pc[dir] # "publish")
      BY <1>2 DEF Rmdir, Empty
    <2>2. \A q \in Procs : pc[q] # "publish"
      BY <2>1 DEF Entitled
    <2>3. \A q \in Procs : pc[q] \notin {"held", "waiting"} /\ kid[q].at \notin {"confirm", "alive", "work"}
      BY <2>1, RecordIsOne, LockAssumption DEF Entitled
    <2> QED BY <2>1, <2>2, <2>3 DEF Entitled
  <1> QED BY <1>1, <1>2

\* rm of the owner record by somebody who does not act.
LEMMA RmOwnerSpares ==
    ASSUME Typed, Entitled, NEW p \in Procs, pc[p] \in {"remove", "erase"}, RmOwner(p), ~robbed',
           UNCHANGED <<dir, delegate, kid>>,
           \A q \in Procs : pc'[q] \in {"publish", "held", "waiting"} => pc'[q] = pc[q]
    PROVE  Entitled'
  <1>1. \A q \in Procs : pc[q] \in {"held", "waiting"} => owner = q /\ Alive(q) /\ q # p /\ q # None
    BY LockAssumption DEF Entitled, Alive, Ended
  <1>2. \A q \in Procs : pc[q] \notin {"held", "waiting"}
    BY <1>1 DEF RmOwner
  <1> QED BY <1>2 DEF Entitled, RmOwner, Record

\* rm of a delegate record: that of a dead child, or one's own.
LEMMA RmDelegateSpares ==
    ASSUME Typed, Entitled, NEW own, RmDelegate(own), ~robbed',
           \A q \in Procs : kid[q].at \in {"confirm", "alive", "work"} => own # Record(q),
           UNCHANGED <<dir, owner>>,
           \A q \in Procs : pc'[q] \in {"publish", "held", "waiting"} => pc'[q] = pc[q],
           \A q \in Procs : kid'[q].n = kid[q].n,
           \A q \in Procs : kid'[q].at \in {"confirm", "alive", "work"} => kid'[q].at = kid[q].at
    PROVE  Entitled'
  <1>1. ASSUME NEW q \in Procs, kid[q].at \in {"confirm", "alive", "work"}
        PROVE  FALSE
    <2>1. delegate = Record(q)
      BY <1>1 DEF Entitled
    <2>2. DelegateAlive
      BY <1>1, <2>1, RecordIsOne DEF DelegateAlive, KidAlive, KidEnded
    <2> QED BY <1>1, <2>1, <2>2 DEF RmDelegate
  <1> QED BY <1>1 DEF Entitled, RmDelegate

LEMMA TakeEntitled ==
    ASSUME Typed, Entitled, NEW p \in Procs, Take(p), ~robbed'
    PROVE  Entitled'
  <1> USE LockAssumption DEF Goto, lockVars
  <1>0. pc \in [Procs -> Labels] /\ (dir = None => owner = None /\ delegate = None)
    BY DEF Typed, TypeOK
  <1>1. CASE Start(p) \/ GiveUp(p) \/ Look(p) \/ Wait(p) \/ Read(p) \/ Judge(p) \/ Guard(p) \/ Compare(p)
    BY <1>0, <1>1 DEF Entitled, Record, Start, GiveUp, Look, Wait, Read, Judge, Guard, AfterGuard, Compare
  <1>2. CASE Mkdir(p)
    BY <1>0, <1>2, LockAssumption DEF Entitled, Record, Mkdir
  <1>3. CASE Publish(p)
    BY <1>0, <1>3 DEF Entitled, Record, Publish
  <1>4. CASE Unpublish(p)
    BY <1>0, <1>4, RmdirSpares DEF Unpublish
  <1>5. CASE Sweep(p)
    <2>1. CASE Again(p, "sweep")
      BY <1>0, <1>5, <2>1, RmdirSpares DEF Sweep, Again
    <2>2. CASE ~Again(p, "sweep")
      BY <1>0, <1>5, <2>2 DEF Sweep, Entitled, Record
    <2> QED BY <2>1, <2>2
  <1>6. CASE Recover(p)
    <2>1. CASE Again(p, "rmdir")
      BY <1>0, <1>6, <2>1, RmdirSpares DEF Recover, Again
    <2>2. CASE ~Again(p, "rmdir")
      BY <1>0, <1>6, <2>2 DEF Recover, Entitled, Record
    <2> QED BY <2>1, <2>2
  <1>7. CASE Clear(p)
    BY <1>0, <1>7, RecordIsOne, RmDelegateSpares DEF Clear, AfterGuard
  <1>8. CASE Remove(p)
    BY <1>0, <1>8, RmOwnerSpares DEF Remove
  <1> QED BY <1>1, <1>2, <1>3, <1>4, <1>5, <1>6, <1>7, <1>8 DEF Take

LEMMA LeaveEntitled ==
    ASSUME Typed, Entitled, NEW p \in Procs, Leave(p), ~robbed'
    PROVE  Entitled'
  <1> USE LockAssumption DEF Goto, lockVars
  <1>0. pc \in [Procs -> Labels] /\ kid \in [Procs -> [n : 0..MaxKids, at : KidLabels]]
    BY DEF Typed, TypeOK
  <1>1. CASE Spawn(p)
    BY <1>0, <1>1 DEF Entitled, Record, Spawn
  <1>2. CASE Reap(p) \/ Finish(p) \/ Release(p)
    BY <1>0, <1>2 DEF Entitled, Record, Reap, Finish, Release
  <1>3. CASE Erase(p)
    BY <1>0, <1>3, RmOwnerSpares DEF Erase
  <1>4. CASE Drop(p)
    BY <1>0, <1>4, RmdirSpares DEF Drop
  <1> QED BY <1>1, <1>2, <1>3, <1>4 DEF Leave

LEMMA ChildEntitled ==
    ASSUME Typed, Parents, Entitled, NEW p \in Procs, Child(p), ~robbed'
    PROVE  Entitled'
  <1> USE LockAssumption DEF KidGoto, lockVars
  <1>0. /\ kid \in [Procs -> [n : 0..MaxKids, at : KidLabels]]
        /\ kid[p].at # "none" => pc[p] # "publish"
        /\ dir = None => owner = None
    BY DEF Typed, TypeOK, Parents
  <1>1. CASE KidCheck(p) \/ KidGuard(p) \/ KidFinish(p) \/ KidRelease(p) \/ KidAliveCheck(p)
    BY <1>0, <1>1 DEF Entitled, Record, KidCheck, KidGuard, KidFinish, KidRelease, KidAliveCheck
  <1>2. CASE KidClear(p)
    BY <1>0, <1>2, RecordIsOne, RmDelegateSpares DEF KidClear
  <1>3. CASE KidLink(p)
    <2>1. CASE dir # None /\ delegate = None /\ delegate' = Record(p) /\ KidGoto(p, "link", "confirm")
      <3>1. \A q \in Procs : kid[q].at \notin {"confirm", "alive", "work"}
        BY <2>1, RecordIsOne DEF Entitled
      <3>2. \A q \in Procs : kid'[q].at \in {"confirm", "alive", "work"} => q = p /\ kid'[q].at = "confirm"
        BY <1>0, <2>1, <3>1
      <3>3. Record(p)' = Record(p)
        BY <1>0, <2>1 DEF Record
      <3> QED BY <1>3, <2>1, <3>2, <3>3 DEF Entitled, KidLink
    <2>2. CASE KidGoto(p, "link", "refused") /\ UNCHANGED delegate
      BY <1>0, <1>3, <2>2 DEF Entitled, Record, KidLink
    <2> QED BY <1>3, <2>1, <2>2 DEF KidLink
  <1>4. CASE KidConfirm(p)
    <2>1. kid[p].at = "confirm" /\ kid' = [kid EXCEPT ![p].at = IF owner = p THEN "alive" ELSE "undo"]
      BY <1>4 DEF KidConfirm
    <2>2. \A q \in Procs : Record(q)' = Record(q)
      BY <1>0, <2>1 DEF Record
    <2>3. owner = p => dir = p
      BY <1>0 DEF Entitled
    <2>4. \A q \in Procs : q # p => kid'[q].at = kid[q].at
      BY <1>0, <2>1
    <2>5. kid'[p].at = IF owner = p THEN "alive" ELSE "undo"
      BY <1>0, <2>1
    <2> QED BY <1>4, <2>1, <2>2, <2>3, <2>4, <2>5 DEF Entitled, KidConfirm
  <1>5. CASE KidErase(p)
    BY <1>0, <1>5, RecordsDiffer, RmDelegateSpares DEF KidErase
  <1>6. CASE KidDrop(p)
    BY <1>0, <1>6, RmdirSpares DEF KidDrop
  <1> QED BY <1>1, <1>2, <1>3, <1>4, <1>5, <1>6 DEF Child

LEMMA DeathEntitled ==
    ASSUME Typed, Entitled, NEW p \in Procs, Die(p) \/ KidDie(p)
    PROVE  Entitled'
  <1>1. CASE Die(p)
    BY <1>1 DEF Typed, TypeOK, Entitled, Record, Die, lockVars
  <1>2. CASE KidDie(p)
    BY <1>2 DEF Typed, TypeOK, Entitled, Record, KidDie, lockVars
  <1> QED BY <1>1, <1>2

LEMMA RobbedStays ==
    ASSUME NEW p \in Procs, robbed,
           Take(p) \/ Leave(p) \/ Child(p) \/ Die(p) \/ KidDie(p)
    PROVE  robbed'
  <1>1. CASE Take(p)
    BY <1>1 DEF Take, Start, Mkdir, GiveUp, Publish, Unpublish, Look, Wait, Sweep, Again, Read, Judge,
                Guard, Clear, Compare, Remove, Recover, Rmdir, RmOwner, RmDelegate
  <1>2. CASE Leave(p)
    BY <1>2 DEF Leave, Spawn, Reap, Finish, Release, Erase, Drop, Rmdir, RmOwner
  <1>3. CASE Child(p)
    BY <1>3 DEF Child, KidCheck, KidGuard, KidClear, KidLink, KidConfirm, KidAliveCheck, KidFinish, KidRelease,
                KidErase, KidDrop, Rmdir, RmDelegate
  <1>4. CASE Die(p) \/ KidDie(p)
    BY <1>4 DEF Die, KidDie
  <1> QED BY <1>1, <1>2, <1>3, <1>4

LEMMA InvStep == Inv /\ [Next]_vars => Inv'
  <1> SUFFICES ASSUME Inv, [Next]_vars
               PROVE  Inv'
    OBVIOUS
  <1>1. Typed'
    BY TypedStep DEF Inv
  <1>2. CASE UNCHANGED vars
    BY <1>1, <1>2 DEF Inv, Parents, Entitled, Record, vars
  <1>3. ASSUME NEW p \in Procs, Take(p) \/ Leave(p) \/ Child(p) \/ Die(p) \/ KidDie(p)
        PROVE  Inv'
    <2>1. Parents'
      BY <1>3, ParentsStep DEF Inv
    <2>2. ASSUME ~robbed'
          PROVE  Entitled'
      <3>1. ~robbed
        BY <1>3, <2>2, RobbedStays
      <3>2. Typed /\ Parents /\ Entitled
        BY <3>1 DEF Inv
      <3> QED BY <1>3, <2>2, <3>2, TakeEntitled, LeaveEntitled, ChildEntitled, DeathEntitled
    <2> QED BY <1>1, <2>1, <2>2 DEF Inv
  <1> QED BY <1>2, <1>3 DEF Next

\* update.sh, the init script: no two runs act under the lock at the same time, nor a
\* run beside the orphaned child of a killed one, unless a recovery or a wait whose
\* decision has gone stale has taken apart what a live run has made; for every number of
\* runs and children, killed between any two commands.
THEOREM Exclusive == Spec => []ExclusiveUnlessRobbed
  <1>1. Init => Inv
    <2> SUFFICES ASSUME Init
                 PROVE  Inv
      OBVIOUS
    <2>1. Typed
      BY InitTyped
    <2>2. \A p \in Procs : pc[p] = "idle" /\ kid[p].at = "none"
      BY DEF Init
    <2>3. owner = None
      BY DEF Init
    <2> QED BY <2>1, <2>2, <2>3 DEF Inv, Parents, Entitled
  <1>2. Inv => ExclusiveUnlessRobbed
    <2> SUFFICES ASSUME Inv, ~robbed
                 PROVE  Cardinality(Acting) <= 1
      BY DEF ExclusiveUnlessRobbed, MutualExclusion
    <2>1. Acting \subseteq {dir}
      BY LockAssumption DEF Inv, Entitled, Acting
    <2>2. IsFiniteSet({dir}) /\ Cardinality({dir}) = 1
      BY FS_Singleton
    <2> QED BY <2>1, <2>2, FS_Subset, FS_CardinalityType
  <1> QED BY <1>1, <1>2, InvStep, PTL DEF Spec

---------------------------------------------------------------------------
(* Leftovers do not wedge the lock *)

\* A record names a run that has published it; only the guarded form has children.
Published ==
    /\ owner # None => pc[owner] \in {"held", "waiting", "release", "erase", "drop", "done", "dead"}
    /\ ~guarded => delegate = None /\ \A p \in Procs : kid[p].at = "none"

\* A run that has met nobody is the only one, its child included.
Alone == \A p \in Procs : p \notin met /\ (Alive(p) \/ KidAlive(p)) => Company \subseteq {p}

\* How such a run gets through what it finds: each label knows what the ones before it
\* have seen or removed, since nobody else has changed it, and one recovery is enough.
Finds(p) ==
    /\ pc[p] = "idle" => tries[p] = 0
    /\ pc[p] = "mkdir" => tries[p] = 0 \/ (tries[p] = 1 /\ dir = None)
    /\ pc[p] \in {"look", "wait", "sweep", "read", "judge", "guard", "clear", "compare",
                  "remove", "rmdir"} => tries[p] = 0 /\ dir # None
    /\ pc[p] = "publish" => dir # None
    /\ pc[p] \in {"look", "wait"} => round[p] = 0
    /\ pc[p] \in {"wait", "sweep", "rmdir"} => owner = None
    /\ pc[p] \in {"guard", "clear"} => (owner = None <=> round[p] = 0)
    /\ pc[p] = "read" => owner # None /\ (round[p] # 0 => delegate = None)
    /\ pc[p] \in {"judge", "compare", "remove"} => owner = seen[p] /\ seen[p] # None
    /\ pc[p] = "judge" => (round[p] # 1 => delegate = None)
    /\ pc[p] \in {"compare", "remove", "rmdir", "sweep"} => delegate = None
    /\ pc[p] \notin {"unpublish", "refused", "failed"}

Finding == \A p \in Procs \ met : Finds(p)

Unwedged == Typed /\ Parents /\ Published /\ Alone /\ Finding

LEMMA PublishedStep ==
    ASSUME Typed, Parents, Published, NEW p \in Procs, UNCHANGED guarded,
           Take(p) \/ Leave(p) \/ Child(p) \/ Die(p) \/ KidDie(p)
    PROVE  Published'
  <1> USE LockAssumption DEF Typed, TypeOK, Published, Goto, lockVars
  <1>1. CASE Take(p)
    BY <1>1 DEF Take, Start, Mkdir, GiveUp, Publish, Unpublish, Look, Wait, Sweep, Again, Read, Judge,
                Guard, Clear, Compare, Remove, Recover, RmOwner, RmDelegate
  <1>2. CASE Leave(p)
    BY <1>2 DEF Leave, Spawn, Reap, Finish, Release, Erase, Drop, RmOwner
  <1>3. CASE Child(p)
    <2>1. guarded /\ guarded'
      BY <1>3 DEF Child, KidGoto, KidCheck, KidGuard, KidClear, KidLink, KidConfirm, KidAliveCheck, KidFinish,
                  KidRelease, KidErase, KidDrop
    <2>2. UNCHANGED <<owner, pc>>
      BY <1>3 DEF Child, KidCheck, KidGuard, KidClear, KidLink, KidConfirm, KidAliveCheck, KidFinish,
                  KidRelease, KidErase, KidDrop
    <2> QED BY <2>1, <2>2
  <1>4. CASE Die(p)
    BY <1>4 DEF Die
  <1>5. CASE KidDie(p)
    BY <1>5 DEF KidDie, KidAlive, KidEnded
  <1> QED BY <1>1, <1>2, <1>3, <1>4, <1>5

\* Whoever acts is there already, but for a run that starts.
LEMMA ActorsAreThere ==
    ASSUME Typed, NEW p \in Procs, ~Start(p),
           Take(p) \/ Leave(p) \/ Child(p) \/ Die(p) \/ KidDie(p)
    PROVE  p \in Company /\ Company' \subseteq Company /\ met' = met
  <1> USE DEF Typed, TypeOK, Company, Alive, KidAlive, Ended, KidEnded, Goto, KidGoto, lockVars
  <1>1. CASE Take(p)
    BY <1>1 DEF Take, Mkdir, GiveUp, Publish, Unpublish, Look, Wait, Sweep, Again, Read, Judge,
                Guard, Clear, Compare, Remove, Recover
  <1>2. CASE Leave(p)
    BY <1>2 DEF Leave, Spawn, Reap, Finish, Release, Erase, Drop
  <1>3. CASE Child(p)
    BY <1>3 DEF Child, KidCheck, KidGuard, KidClear, KidLink, KidConfirm, KidAliveCheck, KidFinish,
                KidRelease, KidErase, KidDrop
  <1>4. CASE Die(p) \/ KidDie(p)
    BY <1>4 DEF Die, KidDie
  <1> QED BY <1>1, <1>2, <1>3, <1>4

LEMMA AloneStep ==
    ASSUME Typed, Alone, NEW p \in Procs,
           Take(p) \/ Leave(p) \/ Child(p) \/ Die(p) \/ KidDie(p)
    PROVE  Alone'
  <1>1. CASE Start(p)
    <2>1. Company' = Company \cup {p} /\ met' = (IF Company = {} THEN met ELSE met \cup Company \cup {p})
      BY <1>1 DEF Start, Goto, Typed, TypeOK, Company, Alive, KidAlive, Ended
    <2> QED BY <2>1 DEF Alone, Company
  <1>2. CASE ~Start(p)
    BY <1>2, ActorsAreThere DEF Alone, Company
  <1> QED BY <1>1, <1>2

\* The run's own steps.
LEMMA FindsItsWay ==
    ASSUME Attempts >= 2, Unwedged, NEW p \in Procs \ met, ~Start(p),
           Take(p) \/ Leave(p) \/ Child(p) \/ Die(p) \/ KidDie(p)
    PROVE  Finds(p)'
  <1> USE LockAssumption DEF Unwedged, Typed, TypeOK, Finding, Finds, Goto, lockVars
  <1>1. CASE Take(p)
    <2>1. Company \subseteq {p} /\ kid[p].at = "none"
      BY ZenonT(60), <1>1, ActorsAreThere DEF Alone, Company, Parents, Take, Mkdir, GiveUp, Publish, Unpublish, Look,
         Wait, Sweep, Again, Read, Judge, Guard, Clear, Compare, Remove, Recover
    <2>2. ~DelegateAlive
      BY <2>1 DEF DelegateAlive, Kids, Company, KidAlive, KidEnded
    <2>3. CASE Mkdir(p)
      BY <2>3 DEF Mkdir
    <2>4. CASE GiveUp(p)
      BY <2>4 DEF GiveUp
    <2>5. CASE Publish(p) \/ Unpublish(p)
      BY <2>5 DEF Publish, Unpublish
    <2>6. CASE Look(p)
      BY <2>6 DEF Look
    <2>7. CASE Wait(p)
      BY <2>7, <1>1 DEF Wait, Published
    <2>8. CASE Sweep(p) \/ Recover(p)
      BY <2>8 DEF Sweep, Recover, Again, Rmdir, Empty
    <2>9. CASE Read(p)
      BY <2>9 DEF Read, Counting
    <2>10. CASE Judge(p)
      <3>1. ~Alive(seen[p])
        BY <2>10, <2>1 DEF Judge, Published, Company, Alive
      <3> QED BY <2>10, <3>1 DEF Judge, Published
    <2>11. CASE Guard(p)
      BY <2>11, <2>2 DEF Guard, AfterGuard, Counting
    <2>12. CASE Clear(p)
      BY <2>12 DEF Clear, AfterGuard, RmDelegate
    <2>13. CASE Compare(p)
      BY <2>13 DEF Compare
    <2>14. CASE Remove(p)
      BY <2>14 DEF Remove, RmOwner
    <2> QED
      BY <1>1, <2>3, <2>4, <2>5, <2>6, <2>7, <2>8, <2>9, <2>10, <2>11, <2>12, <2>13, <2>14 DEF Take
  <1>2. CASE Leave(p)
    BY <1>2 DEF Leave, Spawn, Reap, Finish, Release, Erase, Drop
  <1>3. CASE Child(p) \/ KidDie(p)
    <2>1. pc' = pc /\ kid[p].at # "none"
      BY <1>3 DEF Child, KidGoto, KidCheck, KidGuard, KidClear, KidLink, KidConfirm, KidAliveCheck, KidFinish,
                  KidRelease, KidErase, KidDrop, KidDie, KidAlive, KidEnded
    <2> QED BY <2>1 DEF Parents
  <1>4. CASE Die(p)
    BY <1>4 DEF Die
  <1> QED BY <1>1, <1>2, <1>3, <1>4

LEMMA FindingStep ==
    ASSUME Attempts >= 2, Unwedged, NEW q \in Procs,
           Take(q) \/ Leave(q) \/ Child(q) \/ Die(q) \/ KidDie(q)
    PROVE  Finding'
  <1> SUFFICES ASSUME NEW p \in Procs, p \notin met'
               PROVE  Finds(p)'
    BY DEF Finding
  <1>1. CASE Start(q)
    <2>1. Company = {} \/ p \notin Company
      BY <1>1 DEF Start
    <2>2. p \notin met /\ ~Alive(p)
      BY <1>1, <2>1 DEF Start, Company
    <2> QED
      BY <1>1, <2>2 DEF Start, Goto, Alive, Ended, Unwedged, Typed, TypeOK, Finding, Finds, Labels
  <1>2. CASE ~Start(q) /\ q = p
    BY <1>2, ActorsAreThere, FindsItsWay DEF Unwedged
  <1>3. CASE ~Start(q) /\ q # p
    <2>1. q \in Company /\ p \notin met
      BY <1>3, ActorsAreThere DEF Unwedged
    <2>2. ~Alive(p)
      BY <1>3, <2>1 DEF Unwedged, Alone
    <2>3. pc'[p] = pc[p] /\ tries'[p] = tries[p]
      BY <1>3 DEF Unwedged, Typed, TypeOK, Take, Start, Mkdir, GiveUp, Publish, Unpublish, Look, Wait,
         Sweep, Again, Read, Judge, Guard, Clear, Compare, Remove, Recover, Leave, Spawn, Reap,
         Finish, Release, Erase, Drop, Child, KidCheck, KidGuard, KidClear, KidLink, KidConfirm,
         KidAliveCheck, KidFinish, KidRelease, KidErase, KidDrop, Die, KidDie, Goto
    <2> QED
      BY <2>1, <2>2, <2>3 DEF Alive, Ended, Unwedged, Typed, TypeOK, Finding, Finds, Labels
  <1> QED BY <1>1, <1>2, <1>3

\* update.sh, the init script: whatever killed runs and children have left, a run that
\* meets nobody takes the lock and is not told that it is busy; it needs two attempts,
\* and the code makes three.
THEOREM LeftoversCleared == ASSUME Attempts >= 2 PROVE Spec => []NeverWedged
  <1>1. Init => Unwedged
    <2> SUFFICES ASSUME Init
                 PROVE  Unwedged
      OBVIOUS
    <2>1. Typed
      BY InitTyped
    <2>2. \A p \in Procs : pc[p] = "idle" /\ kid[p].at = "none" /\ tries[p] = 0
      BY DEF Init
    <2>3. owner = None /\ delegate = None
      BY DEF Init
    <2> QED
      BY <2>1, <2>2, <2>3 DEF Unwedged, Parents, Published, Alone, Alive, Ended, KidAlive, KidEnded, Finding, Finds
  <1>2. Unwedged /\ [Next]_vars => Unwedged'
    <2> SUFFICES ASSUME Unwedged, [Next]_vars
                 PROVE  Unwedged'
      OBVIOUS
    <2>1. CASE UNCHANGED vars
      BY <2>1, TypedStep DEF vars, Unwedged, Parents, Published, Alone, Company, Alive, KidAlive, Finding, Finds
    <2>2. ASSUME NEW p \in Procs, Take(p) \/ Leave(p) \/ Child(p) \/ Die(p) \/ KidDie(p), UNCHANGED guarded
          PROVE  Unwedged'
      BY <2>2, TypedStep, ParentsStep, PublishedStep, AloneStep, FindingStep DEF Unwedged
    <2> QED BY <2>1, <2>2 DEF Next
  <1>3. Unwedged => NeverWedged
    BY DEF Unwedged, Finding, Finds, NeverWedged
  <1> QED BY <1>1, <1>2, <1>3, PTL DEF Spec
====
