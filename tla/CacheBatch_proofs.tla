---- MODULE CacheBatch_proofs ----
(***************************************************************************)
(* The cache transaction for every set of files, every list of batches and *)
(* every number of them: type correctness, all or nothing, no last good    *)
(* content is lost, and each batch is one step of AtomicStore.             *)
(***************************************************************************)
EXTENDS CacheBatch, TLAPS

---------------------------------------------------------------------------
(* Types *)

Running == pc \notin {"idle", "down"}

\* A batch that runs has entries, and its loop is at one of them.
Typed == TypeOK /\ (Running => ents \in Batches /\ cur \in DOMAIN ents)

LEMMA Entries ==
    ASSUME Typed, Running
    PROVE  /\ Len(ents) \in Nat \ {0} /\ DOMAIN ents = 1..Len(ents) /\ ents # <<>>
           /\ cur \in 1..Len(ents) /\ d0 \in Dest
           /\ \A k \in DOMAIN ents : ents[k] \in Dest /\ (k # cur => ents[k] # d0)
  <1>1. ents \in Seq(Dest) /\ ents # <<>> /\ Injective(ents) /\ cur \in DOMAIN ents
    BY BatchesAssumption DEF Typed
  <1>2. Len(ents) \in Nat \ {0} /\ DOMAIN ents = 1..Len(ents) /\ \A k \in DOMAIN ents : ents[k] \in Dest
    BY <1>1
  <1> QED BY <1>1, <1>2 DEF d0, Injective

\* A loop goes to another of the entries or on to its next phase.
LEMMA LoopTypes ==
    ASSUME Typed, Running, NEW p, NEW q, Loop(p, q)
    PROVE  pc' \in {p, q} /\ cur' \in DOMAIN ents
  BY Entries DEF Loop

LEMMA FailTypes ==
    ASSUME Typed, Running, Fail
    PROVE  pc' = "rollback" /\ cur' \in DOMAIN ents /\ result' = "error"
  BY Entries DEF Fail

LEMMA TypedStep == Typed /\ [Next]_vars => Typed'
  <1> SUFFICES ASSUME Typed, [Next]_vars
               PROVE  Typed'
    OBVIOUS
  <1> USE MaxGenAssumption DEF Typed, TypeOK, fields, history
  <1>1. ASSUME NEW b \in Batches, NewBatch(b)
        PROVE  Typed'
    <2>1. b \in Seq(Dest) /\ b # <<>>
      BY BatchesAssumption
    <2>2. 1 \in DOMAIN b /\ DOMAIN b = 1..Len(b)
      BY <2>1
    <2>3. None \in [Dest -> BOOLEAN] /\ NoBackup \in [Dest -> Contents]
      BY DEF None, NoBackup, Contents
    <2>4. gen' \in 1..MaxGen + 1
      BY <1>1 DEF NewBatch
    <2> QED BY <1>1, <2>2, <2>3, <2>4 DEF NewBatch, Running
  <1>2. CASE StageOk
    BY <1>2, Entries, LoopTypes DEF StageOk, Running
  <1>3. ASSUME NEW r \in BOOLEAN, StageFail(r)
        PROVE  Typed'
    <2>1. litter' \in SUBSET (Dest \X Contents)
      BY SMTT(60), <1>3, Entries DEF StageFail, Running, Contents
    <2>2. faulted' \in BOOLEAN
      BY <1>3 DEF StageFail
    <2>3. pc' = "abort" /\ cur' = 1 /\ 1 \in DOMAIN ents /\ ents \in Batches
      BY <1>3, Entries DEF StageFail, Running
    <2> QED BY <1>3, <2>1, <2>2, <2>3 DEF StageFail, Running
  <1>4. CASE Cancelled
    BY <1>4, Entries DEF Cancelled, Running
  <1>5. CASE BackupOk
    BY <1>5, Entries, LoopTypes DEF BackupOk, Running
  <1>6. CASE BackupFail
    BY ZenonT(60), <1>6, Entries, FailTypes DEF BackupFail, Running
  <1>7. CASE RenameOk
    <2>0. gen \in Contents
      BY DEF Contents
    <2>1. disk' \in [Dest -> Contents]
      BY <1>7, <2>0 DEF RenameOk
    <2>2. stage' \in [Dest -> BOOLEAN] /\ replaced' \in [Dest -> BOOLEAN]
      BY <1>7 DEF RenameOk
    <2>3. pc' \in {"rename", "sync"} /\ cur' \in DOMAIN ents /\ ents \in Batches
      BY <1>7, LoopTypes DEF RenameOk, Running
    <2> QED BY SMTT(60), <1>7, <2>1, <2>2, <2>3 DEF RenameOk, Running
  <1>8. CASE RenameFail \/ SyncFail
    BY <1>8, Entries, FailTypes DEF RenameFail, SyncFail, Running
  <1>9. CASE SyncOk
    BY <1>9, Entries DEF SyncOk, Running
  <1>10. ASSUME NEW r \in BOOLEAN, CleanBackup(r)
         PROVE  Typed'
    <2>1. faulted' \in BOOLEAN /\ backup' \in [Dest -> Contents]
      BY <1>10, Entries DEF CleanBackup, Running, Contents
    <2>2. pc' \in {"clean", "abort"} /\ cur' \in DOMAIN ents /\ ents \in Batches
      BY <1>10, LoopTypes DEF CleanBackup, Running
    <2> QED BY <1>10, Entries, <2>1, <2>2 DEF CleanBackup, Running
  <1>11. CASE RollbackSkip \/ RollbackOk \/ RollbackFail
    <2>1. pc' \in {"rollback", "cleanup"} /\ cur' \in DOMAIN ents /\ ents \in Batches
      BY <1>11, Entries DEF RollbackSkip, RollbackOk, RollbackFail, NextRollback, Running
    <2>2. disk' \in [Dest -> Contents] /\ backup' \in [Dest -> Contents] /\ replaced' \in [Dest -> BOOLEAN]
      <3>1. CASE RollbackOk
        <4>1. d0 \in Dest /\ 0 \in Contents /\ backup[d0] \in Contents
          BY <3>1, Entries DEF RollbackOk, Running, Contents
        <4>2. disk' \in [Dest -> Contents]
          BY <3>1, <4>1 DEF RollbackOk
        <4>3. backup' \in [Dest -> Contents]
          BY <3>1, <4>1 DEF RollbackOk
        <4> QED BY <3>1, <4>1, <4>2, <4>3 DEF RollbackOk
      <3>2. CASE RollbackSkip \/ RollbackFail
        BY <3>2 DEF RollbackSkip, RollbackFail
      <3> QED BY <1>11, <3>1, <3>2
    <2>3. restoreFailed' \in BOOLEAN /\ faulted' \in BOOLEAN
      BY <1>11 DEF RollbackSkip, RollbackOk, RollbackFail
    <2> QED BY <1>11, Entries, <2>1, <2>2, <2>3 DEF RollbackSkip, RollbackOk, RollbackFail, Running
  <1>12. ASSUME NEW s \in BOOLEAN, NEW b \in BOOLEAN, Cleanup(s, b)
         PROVE  Typed'
    <2>1. stage' \in [Dest -> BOOLEAN] /\ backup' \in [Dest -> Contents] /\ faulted' \in BOOLEAN
      BY SMTT(60), <1>12, Entries DEF Cleanup, Running, Contents
    <2>2. litter' \in SUBSET (Dest \X Contents)
      BY SMTT(60), <1>12, <2>1 DEF Cleanup, Held, Contents
    <2>3. (pc' \in {"cleanup", "abort"} /\ cur' \in DOMAIN ents) \/ (pc' = "idle" /\ cur' = 1)
      BY <1>12, Entries, LoopTypes DEF Cleanup, Running
    <2> QED BY <1>12, Entries, <2>1, <2>2, <2>3 DEF Cleanup, Running
  <1>13. CASE Crash
    <2>1. litter' \in SUBSET (Dest \X Contents)
      BY <1>13 DEF Crash, Held, Contents
    <2>2. None \in [Dest -> BOOLEAN] /\ NoBackup \in [Dest -> Contents]
      BY DEF None, NoBackup, Contents
    <2> QED BY <1>13, <2>1, <2>2 DEF Crash, Running
  <1>14. CASE Restart
    BY <1>14 DEF Restart, Running
  <1>15. CASE UNCHANGED vars
    BY <1>15 DEF vars, Running
  <1> QED BY <1>1, <1>2, <1>3, <1>4, <1>5, <1>6, <1>7, <1>8, <1>9, <1>10, <1>11, <1>12, <1>13,
             <1>14, <1>15 DEF Next

LEMMA InitTyped == Init => Typed
  <1> SUFFICES ASSUME Init
               PROVE  Typed
    OBVIOUS
  <1>1. disk \in [Dest -> Contents] /\ backup \in [Dest -> Contents]
    BY MaxGenAssumption DEF Init, NoBackup, Contents
  <1>2. stage \in [Dest -> BOOLEAN] /\ existed \in [Dest -> BOOLEAN] /\ replaced \in [Dest -> BOOLEAN]
    BY DEF Init, None
  <1>3. restoreFailed \in BOOLEAN /\ faulted \in BOOLEAN
    BY DEF Init
  <1> QED BY MaxGenAssumption, <1>1, <1>2, <1>3 DEF Init, Typed, TypeOK, Running

\* Every variable of the transaction stays in its range (cache.Batch's fields, the
\* directory, the position of its loops).
THEOREM TypeCorrect == Spec => []TypeOK
  <1>1. Spec => []Typed
    BY InitTyped, TypedStep, PTL DEF Spec
  <1>2. Typed => TypeOK
    BY DEF Typed
  <1> QED BY <1>1, <1>2, PTL

---------------------------------------------------------------------------
(* What each phase knows of each entry *)

IsEntry(d) == \E k \in DOMAIN ents : ents[k] = d

Untouched(d) == disk[d] = before[d] /\ ~replaced[d]
Saved(d) == (existed[d] <=> before[d] # 0) /\ backup[d] = before[d]
Done(d) == disk[d] = gen /\ replaced[d]
\* A rollback finds an entry as it was, or replaced with its backup beside it.
Undone(d) == Untouched(d) \/ (Done(d) /\ Saved(d))

\* A batch leaves other files alone.
Others == \A d \in Dest : ~IsEntry(d) =>
    /\ disk[d] = before[d]
    /\ Running => ~stage[d] /\ backup[d] = 0 /\ ~replaced[d]

Returned ==
    /\ pc \in {"staging", "backup", "rename", "sync"} => result = "none"
    /\ pc = "clean" => result = "ok"
    /\ pc \in {"rollback", "cleanup"} => result = "error"
    /\ pc = "abort" => result \in {"ok", "error"}
    /\ restoreFailed => /\ faulted /\ result = "error"
                        /\ pc \in {"rollback", "cleanup", "abort", "idle", "down"}

\* The loops of Stage and Commit.
Forward == \A k \in DOMAIN ents :
    /\ pc = "staging" => Untouched(ents[k])
    /\ pc = "backup" => Untouched(ents[k]) /\ (k < cur => Saved(ents[k]))
    /\ pc = "rename" => Saved(ents[k]) /\ IF k < cur THEN Done(ents[k]) ELSE Untouched(ents[k])
    /\ pc = "sync" => Saved(ents[k]) /\ Done(ents[k])

\* An entry that the rollback has passed is as it was, or its restore has failed.
Backward == \A k \in DOMAIN ents :
    /\ pc = "rollback" => Undone(ents[k]) /\ (k > cur /\ replaced[ents[k]] => restoreFailed)
    /\ pc \in {"cleanup", "abort"} /\ result = "error" =>
          Undone(ents[k]) /\ (replaced[ents[k]] => restoreFailed)

\* After a commit the files are the new ones; what was removed without a fault is gone.
Committed == \A k \in DOMAIN ents :
    /\ result = "ok" => disk[ents[k]] = gen
    /\ pc = "clean" => replaced[ents[k]] /\ (k < cur /\ ~faulted => backup[ents[k]] = 0)
    /\ pc = "abort" /\ result = "ok" => replaced[ents[k]] /\ (~faulted => backup[ents[k]] = 0)
    /\ pc = "abort" /\ k < cur /\ ~faulted => ~stage[ents[k]] /\ backup[ents[k]] = 0

\* What the batch has left when it is over.
Remains ==
    /\ ~Running /\ result # "ok" => LastGoodRecoverable
    /\ ~Running /\ ~faulted /\ result # "ok" => \A d \in Dest : disk[d] = before[d]
    /\ litter # {} => faulted
    /\ pc = "down" => faulted

Phases == Others /\ Returned /\ Forward /\ Backward /\ Committed /\ Remains
Inv == Typed /\ Phases

LEMMA InitInv == Init => Inv
  <1> SUFFICES ASSUME Init
               PROVE  Inv
    OBVIOUS
  <1>1. Others /\ Returned /\ Forward /\ Backward /\ Committed
    BY DEF Init, Others, Returned, Forward, Backward, Committed, Running
  <1>2. Remains
    BY DEF Init, Remains, Running, LastGoodRecoverable
  <1> QED BY <1>1, <1>2, InitTyped DEF Inv, Phases

\* A step of a loop changes the files and fields of its entry only.
Elsewhere == \A d \in Dest \ {d0} :
    /\ disk'[d] = disk[d] /\ backup'[d] = backup[d]
    /\ stage'[d] <=> stage[d]
    /\ existed'[d] <=> existed[d]
    /\ replaced'[d] <=> replaced[d]

LEMMA OthersStay ==
    ASSUME Inv, Running, UNCHANGED <<ents, before>>, Elsewhere
    PROVE  Others'
  <1>1. IsEntry(d0)
    BY Entries DEF Inv, IsEntry, d0
  <1>2. \A d \in Dest : ~IsEntry(d)' => d # d0 /\ ~IsEntry(d)
    BY <1>1 DEF IsEntry
  <1> QED BY <1>2 DEF Inv, Phases, Others, Elsewhere

LEMMA BeginPhases ==
    ASSUME Inv, NEW b \in Batches, NewBatch(b)
    PROVE  Phases'
  <1>1. DOMAIN b = 1..Len(b) /\ \A k \in DOMAIN b : b[k] \in Dest
    BY BatchesAssumption
  <1>2. Others'
    BY <1>1 DEF NewBatch, Others, None, NoBackup
  <1>3. Returned' /\ Backward' /\ Committed'
    BY DEF NewBatch, Returned, Backward, Committed
  <1>4. Forward'
    BY <1>1 DEF NewBatch, Forward, Untouched, None
  <1>5. Remains'
    BY DEF Inv, Phases, NewBatch, Remains, Running
  <1> QED BY <1>2, <1>3, <1>4, <1>5 DEF Phases

LEMMA StagePhases ==
    ASSUME Inv, StageOk \/ Cancelled \/ \E r \in BOOLEAN : StageFail(r)
    PROVE  Phases'
  <1> USE DEF Inv, Phases
  <1>1. CASE StageOk
    <2>1. pc' \in {"staging", "backup"} /\ (pc' = "backup" => cur' = 1)
      BY <1>1 DEF StageOk, Loop
    <2>2. Others'
      <3>1. Elsewhere
        BY <1>1, Entries DEF StageOk, Elsewhere, Typed, TypeOK, Running
      <3> QED BY <1>1, <3>1, OthersStay DEF StageOk, Running, history
    <2>3. Returned' /\ Backward' /\ Committed' /\ Remains'
      BY <1>1, <2>1 DEF StageOk, Returned, Backward, Committed, Remains, Running, history
    <2>4. Forward'
      BY <1>1, <2>1, Entries DEF StageOk, Forward, Untouched, Running, history
    <2> QED BY <2>2, <2>3, <2>4
  <1>2. CASE Cancelled \/ \E r \in BOOLEAN : StageFail(r)
    <2>1. pc \in {"staging", "backup"} /\ pc' = "abort" /\ cur' = 1 /\ result' = "error"
      BY <1>2 DEF Cancelled, StageFail
    <2>2. UNCHANGED <<disk, gen, ents, fields, before, restoreFailed>>
      BY <1>2 DEF Cancelled, StageFail, history
    <2>3. Others' /\ Returned' /\ Forward'
      BY <2>1, <2>2 DEF Others, IsEntry, Returned, Forward, fields, Running
    <2>4. Backward' /\ Committed'
      BY <2>1, <2>2, Entries DEF Forward, Backward, Committed, Undone, Untouched, fields, Running
    <2>5. Remains'
      <3>1. litter' # {} => faulted'
        <4>1. CASE Cancelled
          BY <4>1 DEF Cancelled, Remains, history
        <4>2. ASSUME NEW r \in BOOLEAN, StageFail(r)
              PROVE  litter' # {} => faulted'
          BY <4>2 DEF StageFail, Remains
        <4> QED BY <1>2, <4>1, <4>2
      <3> QED BY <2>1, <3>1 DEF Remains, Running
    <2> QED BY <2>3, <2>4, <2>5
  <1> QED BY <1>1, <1>2

LEMMA BackupPhases ==
    ASSUME Inv, BackupOk \/ BackupFail
    PROVE  Phases'
  <1> USE DEF Inv, Phases
  <1>1. CASE BackupOk
    <2>0. Elsewhere /\ backup'[d0] = disk[d0] /\ (existed'[d0] <=> disk[d0] # 0)
      <3>1. d0 \in Dest /\ existed \in [Dest -> BOOLEAN] /\ backup \in [Dest -> Contents]
        BY <1>1, Entries DEF BackupOk, Running, Typed, TypeOK
      <3> QED BY <1>1, <3>1 DEF BackupOk, Elsewhere
    <2>1. pc' \in {"backup", "rename"} /\ (pc' = "rename" => cur' = 1 /\ cur = Len(ents))
      BY <1>1, Entries DEF BackupOk, Loop, Running
    <2>2. Others'
      BY <1>1, <2>0, OthersStay DEF BackupOk, Running, history
    <2>3. Returned' /\ Backward' /\ Committed' /\ Remains'
      BY <1>1, <2>1 DEF BackupOk, Returned, Backward, Committed, Remains, Running, history
    <2>4. ASSUME NEW k \in DOMAIN ents
          PROVE  Untouched(ents[k])' /\ (k <= cur => Saved(ents[k])')
      <3>1. ents[k] \in Dest /\ (k # cur => ents[k] # d0) /\ (k = cur => ents[k] = d0) /\ k \in Nat /\ cur \in Nat
        BY <1>1, Entries DEF BackupOk, Running, d0
      <3>2. Untouched(ents[k]) /\ (k < cur => Saved(ents[k])) /\ UNCHANGED <<disk, before, ents, replaced>>
        BY <1>1 DEF BackupOk, Forward, history
      <3>3. Untouched(ents[k])'
        BY <3>2 DEF Untouched
      <3>4. CASE k < cur
        BY <2>0, <3>1, <3>2, <3>3, <3>4 DEF Saved, Elsewhere
      <3>5. CASE k = cur
        BY <2>0, <3>1, <3>2, <3>3, <3>5 DEF Saved, Untouched
      <3> QED BY <3>1, <3>3, <3>4, <3>5
    <2>5. Forward'
      BY <1>1, <2>1, <2>4, Entries DEF BackupOk, Loop, Forward, Running
    <2> QED BY <2>2, <2>3, <2>5
  <1>2. CASE BackupFail
    <2>1. pc = "backup" /\ pc' = "rollback" /\ result' = "error"
      BY <1>2 DEF BackupFail, Fail
    <2>2. UNCHANGED <<disk, gen, ents, stage, backup, replaced, litter, history>>
      BY <1>2 DEF BackupFail
    <2>3. Others' /\ Returned' /\ Forward' /\ Remains'
      BY <2>1, <2>2 DEF Others, IsEntry, Returned, Forward, Remains, Running, history
    <2>4. Backward' /\ Committed'
      BY <2>1, <2>2 DEF Forward, Backward, Committed, Undone, Untouched, history
    <2> QED BY <2>3, <2>4
  <1> QED BY <1>1, <1>2

LEMMA RenamePhases ==
    ASSUME Inv, RenameOk \/ RenameFail
    PROVE  Phases'
  <1> USE DEF Inv, Phases
  <1>1. CASE RenameOk
    <2>0. Elsewhere /\ disk'[d0] = gen /\ replaced'[d0] /\ (existed'[d0] <=> existed[d0]) /\ backup'[d0] = backup[d0]
      <3>1. /\ d0 \in Dest /\ disk \in [Dest -> Contents]
            /\ stage \in [Dest -> BOOLEAN] /\ replaced \in [Dest -> BOOLEAN]
        BY <1>1, Entries DEF RenameOk, Running, Typed, TypeOK
      <3> QED BY <1>1, <3>1 DEF RenameOk, Elsewhere
    <2>1. pc' \in {"rename", "sync"} /\ (pc' = "sync" => cur' = 1 /\ cur = Len(ents))
      BY <1>1, Entries DEF RenameOk, Loop, Running
    <2>2. Others'
      BY <1>1, <2>0, OthersStay DEF RenameOk, Running, history
    <2>3. Returned' /\ Backward' /\ Committed' /\ Remains'
      BY <1>1, <2>1 DEF RenameOk, Returned, Backward, Committed, Remains, Running, history
    <2>4. ASSUME NEW k \in DOMAIN ents
          PROVE  Saved(ents[k])' /\ IF k <= cur THEN Done(ents[k])' ELSE Untouched(ents[k])'
      <3>1. ents[k] \in Dest /\ (k # cur => ents[k] # d0) /\ (k = cur => ents[k] = d0) /\ k \in Nat /\ cur \in Nat
        BY <1>1, Entries DEF RenameOk, Running, d0
      <3>2. /\ Saved(ents[k]) /\ IF k < cur THEN Done(ents[k]) ELSE Untouched(ents[k])
            /\ UNCHANGED <<gen, before, ents>>
        BY <1>1 DEF RenameOk, Forward, history
      <3>3. Saved(ents[k])'
        BY <2>0, <3>1, <3>2 DEF Saved, Elsewhere
      <3>4. CASE k # cur
        BY <2>0, <3>1, <3>2, <3>3, <3>4 DEF Done, Untouched, Elsewhere
      <3>5. CASE k = cur
        BY <2>0, <3>1, <3>2, <3>3, <3>5 DEF Done
      <3> QED BY <3>4, <3>5
    <2>5. Forward'
      BY <1>1, <2>1, <2>4, Entries DEF RenameOk, Loop, Forward, Running
    <2> QED BY <2>2, <2>3, <2>5
  <1>2. CASE RenameFail
    <2>1. pc = "rename" /\ pc' = "rollback" /\ cur' = Len(ents) /\ result' = "error"
      BY <1>2 DEF RenameFail, Fail
    <2>2. UNCHANGED <<disk, gen, ents, fields, litter, history>>
      BY <1>2 DEF RenameFail
    <2>3. Others' /\ Returned' /\ Forward' /\ Remains'
      BY <2>1, <2>2 DEF Others, IsEntry, Returned, Forward, Remains, Running, history, fields
    <2>4. \A k \in DOMAIN ents : Undone(ents[k])' /\ k <= Len(ents)
      BY <1>2, <2>1, <2>2, Entries DEF Forward, Undone, Untouched, Done, Saved, Running, history, fields
    <2>5. Backward' /\ Committed'
      BY <1>2, <2>1, <2>2, <2>4, Entries DEF Backward, Committed, Running
    <2> QED BY <2>3, <2>5
  <1> QED BY <1>1, <1>2

LEMMA SyncPhases ==
    ASSUME Inv, SyncOk \/ SyncFail
    PROVE  Phases'
  <1> USE DEF Inv, Phases
  <1>1. CASE SyncOk
    <2>1. pc = "sync" /\ pc' = "clean" /\ cur' = 1 /\ result' = "ok"
      BY <1>1 DEF SyncOk
    <2>2. UNCHANGED <<disk, gen, ents, fields, litter, history>>
      BY <1>1 DEF SyncOk
    <2>3. Others' /\ Returned' /\ Forward' /\ Remains' /\ Backward'
      BY <2>1, <2>2 DEF Others, IsEntry, Returned, Forward, Backward, Remains, Running, history, fields
    <2>4. Committed'
      BY <1>1, <2>1, <2>2, Entries DEF Forward, Committed, Done, Running, history, fields
    <2> QED BY <2>3, <2>4
  <1>2. CASE SyncFail
    <2>1. pc = "sync" /\ pc' = "rollback" /\ cur' = Len(ents) /\ result' = "error"
      BY <1>2 DEF SyncFail, Fail
    <2>2. UNCHANGED <<disk, gen, ents, fields, litter, history>>
      BY <1>2 DEF SyncFail
    <2>3. Others' /\ Returned' /\ Forward' /\ Remains'
      BY <2>1, <2>2 DEF Others, IsEntry, Returned, Forward, Remains, Running, history, fields
    <2>4. \A k \in DOMAIN ents : Undone(ents[k])' /\ k <= Len(ents)
      BY <1>2, <2>1, <2>2, Entries DEF Forward, Undone, Done, Saved, Running, history, fields
    <2>5. Backward' /\ Committed'
      BY <1>2, <2>1, <2>2, <2>4, Entries DEF Backward, Committed, Running
    <2> QED BY <2>3, <2>5
  <1> QED BY <1>1, <1>2

LEMMA CleanPhases ==
    ASSUME Inv, NEW r \in BOOLEAN, CleanBackup(r)
    PROVE  Phases'
  <1> USE DEF Inv, Phases
  <1>1. pc = "clean" /\ result = "ok" /\ UNCHANGED <<disk, gen, ents, stage, existed, replaced, litter, before, restoreFailed, result>>
    BY DEF CleanBackup, Returned
  <1>2. Elsewhere /\ (r => backup'[d0] = 0) /\ (~r => faulted') /\ (faulted => faulted')
    <2>1. backup \in [Dest -> Contents] /\ d0 \in Dest
      BY <1>1, Entries DEF Running, Typed, TypeOK
    <2>2. Elsewhere /\ (r => backup'[d0] = 0)
      BY <1>1, <2>1 DEF CleanBackup, Elsewhere
    <2> QED BY <2>2 DEF CleanBackup
  <1>3. pc' \in {"clean", "abort"} /\ cur' \in Nat /\ (pc' = "clean" => cur' = cur + 1)
        /\ (pc' = "abort" => cur' = 1 /\ cur = Len(ents))
    BY <1>1, Entries DEF CleanBackup, Loop, Running
  <1>4. Others'
    BY <1>1, <1>2, OthersStay DEF Running
  <1>5. Returned' /\ Forward' /\ Backward' /\ Remains'
    BY <1>1, <1>2, <1>3 DEF Returned, Forward, Backward, Remains, Running
  <1>6. Committed'
    <2> SUFFICES ASSUME NEW k \in DOMAIN ents
                 PROVE  /\ disk'[ents[k]] = gen' /\ replaced'[ents[k]]
                        /\ k <= cur /\ ~faulted' => backup'[ents[k]] = 0
      BY <1>1, <1>3, Entries DEF Committed, Running
    <2>1. ents[k] \in Dest /\ (k # cur => ents[k] # d0) /\ (k = cur => ents[k] = d0) /\ k \in Nat /\ cur \in Nat
      BY <1>1, Entries DEF Running, d0
    <2>2. disk'[ents[k]] = gen' /\ replaced'[ents[k]]
      BY <1>1 DEF Committed
    <2>3. CASE k < cur
      BY <1>1, <1>2, <2>1, <2>2, <2>3 DEF Committed, Elsewhere
    <2>4. CASE k >= cur
      BY <1>1, <1>2, <2>1, <2>2, <2>4
    <2> QED BY <2>1, <2>3, <2>4
  <1> QED BY <1>4, <1>5, <1>6

LEMMA RollbackPhases ==
    ASSUME Inv, RollbackSkip \/ RollbackOk \/ RollbackFail
    PROVE  Phases'
  <1> USE DEF Inv, Phases
  <1>1. pc = "rollback" /\ result = "error" /\ UNCHANGED <<gen, ents, stage, existed, litter, before, result>>
    BY DEF RollbackSkip, RollbackOk, RollbackFail, history, fields, Returned
  <1>2. pc' \in {"rollback", "cleanup"} /\ (pc' = "rollback" => cur' = cur - 1) /\ (pc' = "cleanup" => cur = 1 /\ cur' = 1)
    BY <1>1, Entries DEF RollbackSkip, RollbackOk, RollbackFail, NextRollback, Running
  <1>3. d0 \in Dest /\ disk \in [Dest -> Contents] /\ backup \in [Dest -> Contents] /\ replaced \in [Dest -> BOOLEAN]
        /\ cur \in DOMAIN ents /\ DOMAIN ents = 1..Len(ents)
    BY <1>1, Entries DEF Running, Typed, TypeOK
  <1>4. PICK e \in Dest : e = d0
    BY <1>3
  <1>5. Undone(e)
    BY <1>1, <1>3, <1>4 DEF Backward, d0
  <1>6. /\ Elsewhere /\ Undone(e)' /\ (replaced'[e] => restoreFailed')
        /\ restoreFailed => restoreFailed'
        /\ faulted => faulted'
        /\ restoreFailed' => restoreFailed \/ faulted'
    <2>1. CASE RollbackSkip
      <3>1. UNCHANGED <<disk, backup, replaced, restoreFailed, faulted>> /\ ~replaced[e]
        BY <1>4, <2>1 DEF RollbackSkip, fields, history
      <3>2. Undone(e)'
        BY <1>1, <1>5, <3>1 DEF Undone, Untouched, Done, Saved
      <3> QED BY <1>1, <3>1, <3>2 DEF Elsewhere
    <2>2. CASE RollbackOk
      <3>1. disk'[e] = (IF existed[e] THEN backup[e] ELSE 0) /\ ~replaced'[e]
        BY <1>3, <1>4, <2>2 DEF RollbackOk
      <3>2. Elsewhere /\ UNCHANGED <<before, restoreFailed, faulted>>
        BY <1>3, <2>2 DEF RollbackOk, Elsewhere, history
      <3>3. Saved(e)
        BY <1>4, <1>5, <2>2 DEF RollbackOk, Undone, Untouched
      <3>4. disk'[e] = before[e]
        BY <3>1, <3>3 DEF Saved
      <3>5. Undone(e)'
        BY <3>1, <3>2, <3>4 DEF Undone, Untouched
      <3> QED BY <3>1, <3>2, <3>5
    <2>3. CASE RollbackFail
      <3>1. UNCHANGED <<disk, backup, replaced>> /\ restoreFailed' /\ faulted'
        BY <2>3 DEF RollbackFail, fields
      <3>2. Undone(e)'
        BY <1>1, <1>5, <3>1 DEF Undone, Untouched, Done, Saved
      <3> QED BY <1>1, <3>1, <3>2 DEF Elsewhere
    <2> QED BY <2>1, <2>2, <2>3
  <1>7. Others'
    BY <1>1, <1>6, OthersStay DEF Running
  <1>8. Returned' /\ Forward' /\ Committed' /\ Remains'
    BY <1>1, <1>2, <1>6 DEF Returned, Forward, Committed, Remains, Running
  <1>9. Backward'
    <2> SUFFICES ASSUME NEW k \in DOMAIN ents
                 PROVE  Undone(ents[k])' /\ (k >= cur /\ replaced'[ents[k]] => restoreFailed')
      BY <1>1, <1>2, <1>3 DEF Backward
    <2>1. ents[k] \in Dest /\ (k # cur => ents[k] # d0) /\ (k = cur => ents[k] = e) /\ k \in Nat /\ cur \in Nat
      BY <1>1, <1>3, <1>4, Entries DEF Running, d0
    <2>2. CASE k = cur
      BY <1>1, <1>6, <2>1, <2>2 DEF Undone, Untouched, Done, Saved
    <2>3. CASE k # cur
      <3>1. Undone(ents[k]) /\ (k > cur /\ replaced[ents[k]] => restoreFailed)
        BY <1>1 DEF Backward
      <3>2. Undone(ents[k])'
        BY SMTT(60), <1>1, <1>6, <2>1, <2>3, <3>1 DEF Undone, Untouched, Done, Saved, Elsewhere
      <3> QED BY <1>1, <1>6, <2>1, <2>3, <3>1, <3>2 DEF Elsewhere
    <2> QED BY <2>2, <2>3
  <1> QED BY <1>7, <1>8, <1>9

LEMMA CleanupMoves ==
    ASSUME Typed, NEW sr \in BOOLEAN, NEW br \in BOOLEAN, Cleanup(sr, br)
    PROVE  /\ cur \in Nat /\ Len(ents) \in Nat /\ DOMAIN ents = 1..Len(ents) /\ cur <= Len(ents)
           /\ \A k \in DOMAIN ents : k \in Nat /\ (k <= cur => k < cur \/ k = cur)
           /\ \/ pc' = pc /\ cur' = cur + 1
              \/ pc = "cleanup" /\ pc' = "abort" /\ cur' = 1
              \/ pc = "abort" /\ pc' = "idle" /\ cur = Len(ents)
  <1>1. pc \in {"cleanup", "abort"}
    BY DEF Cleanup
  <1>2. cur \in 1..Len(ents) /\ DOMAIN ents = 1..Len(ents) /\ Len(ents) \in Nat
    BY <1>1, Entries DEF Running
  <1>3. IF pc = "cleanup" \/ cur < Len(ents) THEN Loop(pc, "abort") ELSE pc' = "idle" /\ cur' = 1
    BY DEF Cleanup
  <1>4. \A k \in DOMAIN ents : k \in Nat /\ (k <= cur => k < cur \/ k = cur)
    BY <1>2
  <1>5. CASE pc = "cleanup"
    BY <1>2, <1>3, <1>5 DEF Loop
  <1>6. CASE pc = "abort" /\ cur < Len(ents)
    BY <1>2, <1>3, <1>6 DEF Loop
  <1>7. CASE pc = "abort" /\ ~(cur < Len(ents))
    <2>1. ASSUME NEW n \in Nat, NEW i \in 1..n, ~(i < n)
          PROVE  i = n
      BY SMTT(60), <2>1
    <2>2. cur = Len(ents)
      BY <1>2, <1>7, <2>1
    <2> QED BY <1>3, <1>7, <2>2
  <1> QED BY <1>1, <1>2, <1>4, <1>5, <1>6, <1>7

LEMMA CleanupPhases ==
    ASSUME Inv, NEW sr \in BOOLEAN, NEW br \in BOOLEAN, Cleanup(sr, br)
    PROVE  Phases'
  <1> USE DEF Inv, Phases
  <1>1. /\ pc \in {"cleanup", "abort"} /\ (pc = "cleanup" => result = "error") /\ result \in {"ok", "error"}
        /\ UNCHANGED <<disk, gen, ents, existed, replaced, before, restoreFailed, result>>
    BY DEF Cleanup, Returned
  <1>2. PICK e \in Dest : e = d0
    BY <1>1, Entries DEF Running
  <1>3. /\ Elsewhere
        /\ sr => ~stage'[e]
        /\ backup'[e] = IF br /\ ~replaced[e] THEN 0 ELSE backup[e]
    <2>1. backup \in [Dest -> Contents] /\ stage \in [Dest -> BOOLEAN] /\ replaced \in [Dest -> BOOLEAN]
      BY DEF Typed, TypeOK
    <2>2. stage' = IF sr THEN [stage EXCEPT ![e] = FALSE] ELSE stage
      BY <1>2 DEF Cleanup
    <2>3. backup' = IF br /\ ~replaced[e] THEN [backup EXCEPT ![e] = 0] ELSE backup
      BY <1>2 DEF Cleanup
    <2>4. \A d \in Dest \ {e} : (stage'[d] <=> stage[d]) /\ backup'[d] = backup[d]
      BY <2>1, <2>2, <2>3
    <2>5. Elsewhere
      BY <1>1, <1>2, <2>4 DEF Elsewhere
    <2> QED BY <2>1, <2>2, <2>3, <2>5
  <1>4. /\ faulted => faulted'
        /\ pc = "abort" /\ ~faulted' => ~faulted /\ sr /\ br
    BY <1>1 DEF Cleanup
  <1>5. /\ cur \in Nat /\ cur <= Len(ents) /\ DOMAIN ents = 1..Len(ents) /\ Len(ents) \in Nat
        /\ \/ pc' = pc /\ cur' = cur + 1
           \/ pc = "cleanup" /\ pc' = "abort" /\ cur' = 1
           \/ pc = "abort" /\ pc' = "idle" /\ cur = Len(ents)
    BY CleanupMoves
  <1>0. litter' = IF pc' = "idle" THEN litter \cup Held(stage', backup') ELSE litter
    <2>1. CASE pc = "cleanup" \/ cur < Len(ents)
      BY <1>1, <2>1 DEF Cleanup, Loop
    <2>2. CASE ~(pc = "cleanup" \/ cur < Len(ents))
      BY <2>2 DEF Cleanup
    <2> QED BY <2>1, <2>2
  <1>6. ASSUME NEW k \in DOMAIN ents
        PROVE  ents[k] \in Dest /\ (k # cur => ents[k] # e) /\ (k = cur => ents[k] = e) /\ k \in Nat
    BY <1>1, <1>2, Entries DEF Running, d0
  \* What the pass has behind it is gone unless a fault has kept it.
  <1>7. ASSUME NEW k \in DOMAIN ents, pc = "abort", k <= cur, ~faulted'
        PROVE  ~stage'[ents[k]] /\ backup'[ents[k]] = 0
    <2>1. ~faulted /\ sr /\ br
      BY <1>4, <1>7
    <2>2. CASE k < cur
      BY <1>3, <1>2, <1>6, <1>7, <2>1, <2>2 DEF Committed, Elsewhere
    <2>3. CASE k = cur
      <3>1. ~stage'[e] /\ (~replaced[e] => backup'[e] = 0)
        BY <1>3, <2>1
      <3>2. replaced[e] => result = "ok"
        BY <1>1, <1>6, <1>7, <2>1, <2>3 DEF Backward, Returned
      <3>3. result = "ok" => backup[e] = 0
        BY <1>6, <1>7, <2>1, <2>3 DEF Committed
      <3> QED BY <1>3, <1>6, <2>3, <3>1, <3>2, <3>3
    <2>4. k < cur \/ k = cur
      BY <1>7, CleanupMoves
    <2> QED BY <2>2, <2>3, <2>4
  \* The last copy of a file that is still replaced is not touched.
  <1>8. ASSUME NEW k \in DOMAIN ents, result = "error"
        PROVE  /\ Undone(ents[k])' /\ (replaced'[ents[k]] => restoreFailed')
               /\ replaced[ents[k]] => Saved(ents[k])'
    <2>1. Undone(ents[k]) /\ (replaced[ents[k]] => restoreFailed)
      BY <1>1, <1>8 DEF Backward
    <2>2. replaced[ents[k]] => backup'[ents[k]] = backup[ents[k]]
      BY <1>2, <1>3, <1>6 DEF Elsewhere
    <2> QED BY <1>1, <2>1, <2>2 DEF Undone, Untouched, Done, Saved
  <1>9. Others'
    BY SMTT(60), <1>1, <1>3, OthersStay DEF Running
  <1>10. Returned' /\ Forward'
    BY ZenonT(60), <1>1, <1>4, <1>5 DEF Returned, Forward
  <1>11. Backward'
    BY ZenonT(60), <1>1, <1>5, <1>8 DEF Backward
  <1>12. Committed'
    <2> SUFFICES ASSUME NEW k \in DOMAIN ents
                 PROVE  /\ result = "ok" => disk[ents[k]] = gen
                        /\ pc' = "abort" /\ result = "ok" => replaced[ents[k]] /\ (~faulted' => backup'[ents[k]] = 0)
                        /\ pc' = "abort" /\ k < cur' /\ ~faulted' => ~stage'[ents[k]] /\ backup'[ents[k]] = 0
      BY <1>1, <1>5 DEF Committed
    <2>1. result = "ok" => disk[ents[k]] = gen
      BY DEF Committed
    <2>2. pc' = "abort" /\ result = "ok" => replaced[ents[k]] /\ (~faulted' => backup'[ents[k]] = 0)
      <3> SUFFICES ASSUME pc' = "abort", result = "ok"
                   PROVE  replaced[ents[k]] /\ (~faulted' => backup'[ents[k]] = 0)
        OBVIOUS
      <3>1. pc = "abort"
        BY <1>1, <1>5
      <3>2. replaced[ents[k]] /\ (~faulted => backup[ents[k]] = 0)
        BY <3>1 DEF Committed
      <3>3. backup'[ents[k]] = 0 \/ backup'[ents[k]] = backup[ents[k]]
        BY <1>2, <1>3, <1>6 DEF Elsewhere
      <3> QED BY <1>4, <3>2, <3>3
    <2>3. pc' = "abort" /\ k < cur' /\ ~faulted' => ~stage'[ents[k]] /\ backup'[ents[k]] = 0
      BY SMTT(60), <1>1, <1>5, <1>6, <1>7
    <2> QED BY SMTT(60), <2>1, <2>2, <2>3
  <1>13. Remains'
    <2>1. CASE pc' # "idle"
      BY <1>0, <1>1, <1>4, <1>5, <2>1 DEF Remains, Running
    <2>2. CASE pc' = "idle"
      <3>1. pc = "abort" /\ cur = Len(ents) /\ litter' = litter \cup Held(stage', backup')
        BY <1>0, <1>1, <1>5, <2>2
      <3>2. \A d \in Dest : IsEntry(d) \/ (disk[d] = before[d] /\ ~stage'[d] /\ backup'[d] = 0)
        <4>1. \A d \in Dest : ~IsEntry(d) => ~IsEntry(d)' /\ d # e
          BY <1>1, <1>2, Entries DEF IsEntry, d0, Running
        <4> QED BY <1>1, <1>2, <1>3, <4>1 DEF Others, Elsewhere, Running
      <3>3. ASSUME result # "ok", NEW d \in Dest
            PROVE  \/ disk'[d] = before'[d] \/ before'[d] = 0 \/ <<d, before'[d]>> \in litter'
        <4>1. CASE IsEntry(d)
          <5>1. PICK k \in DOMAIN ents : ents[k] = d
            BY <4>1 DEF IsEntry
          <5>2. disk'[d] = before'[d] \/ backup'[d] = before'[d]
            BY <1>1, <1>8, <3>3, <5>1 DEF Undone, Untouched, Saved
          <5>3. backup'[d] = before'[d] => before'[d] = 0 \/ <<d, before'[d]>> \in litter'
            BY <3>1 DEF Held
          <5> QED BY <5>2, <5>3
        <4>2. CASE ~IsEntry(d)
          BY <1>1, <3>2, <4>2
        <4> QED BY <4>1, <4>2
      <3>4. ASSUME ~faulted', NEW d \in Dest
            PROVE  ~stage'[d] /\ backup'[d] = 0 /\ (result # "ok" => disk'[d] = before'[d])
        <4>1. CASE IsEntry(d)
          <5>1. PICK k \in DOMAIN ents : ents[k] = d
            BY <4>1 DEF IsEntry
          <5>2. ~stage'[d] /\ backup'[d] = 0
            BY <1>5, <1>7, <3>1, <3>4, <5>1
          <5>3. ~restoreFailed'
            BY <1>1, <1>4, <3>4 DEF Returned
          <5>4. result # "ok" => disk'[d] = before'[d]
            BY <1>1, <1>8, <5>1, <5>3 DEF Undone, Untouched, Done
          <5> QED BY <5>2, <5>4
        <4>2. CASE ~IsEntry(d)
          BY <1>1, <3>2, <4>2
        <4> QED BY <4>1, <4>2
      <3>5. litter' # {} => faulted'
        <4> SUFFICES ASSUME ~faulted'
                     PROVE  litter' = {}
          OBVIOUS
        <4>1. litter = {}
          BY <1>4 DEF Remains
        <4>2. Held(stage', backup') = {}
          BY <3>4 DEF Held
        <4> QED BY <3>1, <4>1, <4>2
      <3>6. result # "ok" => LastGoodRecoverable'
        BY <1>1, <3>3 DEF LastGoodRecoverable
      <3> QED BY SMTT(60), <1>1, <2>2, <3>4, <3>5, <3>6 DEF Remains
    <2> QED BY SMTT(60), <2>1, <2>2
  <1> QED BY <1>9, <1>10, <1>11, <1>12, <1>13

\* A batch that has not committed has the last good copy of each of its files in
\* the file or in the backup beside it.
LEMMA RunningRecovers ==
    ASSUME Inv, Running, result # "ok", NEW d \in Dest
    PROVE  disk[d] = before[d] \/ backup[d] = before[d]
  <1> USE DEF Inv, Phases
  <1>1. CASE IsEntry(d)
    <2>1. PICK k \in DOMAIN ents : ents[k] = d
      BY <1>1 DEF IsEntry
    <2>2. pc \in {"staging", "backup", "rename", "sync", "clean", "rollback", "cleanup", "abort"}
      BY DEF Typed, TypeOK, Running
    <2>3. CASE pc \in {"staging", "backup", "rename", "sync"}
      BY <2>1, <2>3 DEF Forward, Untouched, Saved
    <2>4. CASE pc \in {"rollback", "cleanup", "abort"}
      BY <2>1, <2>4 DEF Returned, Backward, Undone, Untouched, Saved
    <2> QED BY <2>2, <2>3, <2>4 DEF Returned
  <1>2. CASE ~IsEntry(d)
    BY <1>2 DEF Others
  <1> QED BY <1>1, <1>2

LEMMA CrashPhases ==
    ASSUME Inv, Crash
    PROVE  Phases'
  <1> USE DEF Inv, Phases
  <1>1. Running /\ pc' = "down" /\ faulted' /\ UNCHANGED <<disk, gen, ents, before, restoreFailed, result>>
        /\ litter' = litter \cup Held(stage, backup)
    BY DEF Crash, Running
  <1>2. Others' /\ Returned' /\ Forward' /\ Backward' /\ Committed'
    BY <1>1 DEF Others, IsEntry, Returned, Forward, Backward, Committed, Running
  <1>3. ASSUME result # "ok", NEW d \in Dest
        PROVE  disk'[d] = before'[d] \/ before'[d] = 0 \/ <<d, before'[d]>> \in litter'
    <2>1. disk'[d] = before'[d] \/ backup[d] = before'[d]
      BY <1>1, <1>3, RunningRecovers
    <2>2. backup[d] # 0 => <<d, backup[d]>> \in litter'
      BY <1>1 DEF Held
    <2> QED BY <2>1, <2>2
  <1>4. Remains'
    BY <1>1, <1>3 DEF Remains, Running, LastGoodRecoverable
  <1> QED BY <1>2, <1>4

LEMMA InvStep == Inv /\ [Next]_vars => Inv'
  <1> SUFFICES ASSUME Inv, [Next]_vars
               PROVE  Phases'
    BY TypedStep DEF Inv
  <1>1. CASE Restart
    <2>1. pc = "down" /\ pc' = "idle"
      BY <1>1 DEF Restart
    <2>2. UNCHANGED <<disk, gen, ents, cur, fields, litter, history, result>>
      BY <1>1 DEF Restart
    <2>3. Others' /\ Returned' /\ Forward' /\ Backward' /\ Committed'
      BY <2>1, <2>2 DEF Inv, Phases, Others, IsEntry, Returned, Forward, Backward, Committed, Running,
                        fields, history
    <2>4. Remains'
      BY <2>1, <2>2 DEF Inv, Phases, Remains, Running, LastGoodRecoverable, fields, history
    <2> QED BY <2>3, <2>4 DEF Phases
  <1>2. CASE UNCHANGED vars
    <2>1. Others' /\ Returned' /\ Committed' /\ Remains'
      BY <1>2 DEF vars, fields, history, Inv, Phases, Others, IsEntry, Returned, Committed, Remains,
                  Running, LastGoodRecoverable
    <2>2. Forward' /\ Backward'
      BY <1>2 DEF vars, fields, history, Inv, Phases, Forward, Backward, Undone, Untouched, Saved, Done
    <2> QED BY <2>1, <2>2 DEF Phases
  <1> QED BY <1>1, <1>2, BeginPhases, StagePhases, BackupPhases, RenamePhases, SyncPhases, CleanPhases,
             RollbackPhases, CleanupPhases, CrashPhases DEF Next

LEMMA InvHolds == Spec => []Inv
  BY InitInv, InvStep, PTL DEF Spec

\* Whatever fails and wherever the process is killed, until a batch has committed the
\* last good content of every file is in the file or in a backup that nothing removes.
THEOREM LastGoodKept == Spec => []LastGoodRecoverable
  <1>1. Inv => LastGoodRecoverable
    <2> SUFFICES ASSUME Inv, result # "ok"
                 PROVE  LastGoodRecoverable
      BY DEF LastGoodRecoverable
    <2>1. CASE Running
      BY <2>1, RunningRecovers DEF LastGoodRecoverable
    <2>2. CASE ~Running
      BY <2>2 DEF Inv, Phases, Remains
    <2> QED BY <2>1, <2>2
  <1> QED BY <1>1, InvHolds, PTL

\* A committed batch has replaced its files and no others.
LEMMA CommittedIs ==
    ASSUME Inv, result = "ok"
    PROVE  disk = Replaced
  <1>1. disk \in [Dest -> Contents]
    BY DEF Inv, Typed, TypeOK
  <1>2. \A d \in Dest : disk[d] = IF d \in {ents[k] : k \in DOMAIN ents} THEN gen ELSE before[d]
    <2> SUFFICES ASSUME NEW d \in Dest
                 PROVE  disk[d] = IF d \in {ents[k] : k \in DOMAIN ents} THEN gen ELSE before[d]
      OBVIOUS
    <2>1. CASE IsEntry(d)
      BY <2>1 DEF Inv, Phases, Committed, IsEntry
    <2>2. CASE ~IsEntry(d)
      BY <2>2 DEF Inv, Phases, Others, IsEntry
    <2> QED BY <2>1, <2>2
  <1> QED BY <1>1, <1>2 DEF Replaced

\* An error leaves the directory as it was and success replaces exactly the batch's
\* files, without remains, unless a kill or a failed restore or removal cut it short.
THEOREM AllOrNothingHolds == Spec => []AllOrNothing
  <1>1. Inv => AllOrNothing
    <2> SUFFICES ASSUME Inv
                 PROVE  AllOrNothing
      OBVIOUS
    <2>1. litter # {} => faulted
      BY DEF Inv, Phases, Remains
    <2>2. ASSUME pc = "idle", ~faulted
          PROVE  disk = IF result = "ok" THEN Replaced ELSE before
      <3>1. CASE result = "ok"
        BY <3>1, CommittedIs
      <3>2. CASE result # "ok"
        <4>1. \A d \in Dest : disk[d] = before[d]
          BY <2>2, <3>2 DEF Inv, Phases, Remains, Running
        <4>2. disk \in [Dest -> Contents] /\ before \in [Dest -> Contents]
          BY DEF Inv, Typed, TypeOK
        <4> QED BY <3>2, <4>1, <4>2
      <3> QED BY <3>1, <3>2
    <2> QED BY <2>1, <2>2 DEF AllOrNothing
  <1> QED BY <1>1, InvHolds, PTL

---------------------------------------------------------------------------
(* Refinement of AtomicStore *)

LEMMA InitStore == Init => Store!Init
  BY DEF Init, Store!Init, StoreData, Torn

\* A step that leaves the mapping as it is.
LEMMA Stutters ==
    ASSUME UNCHANGED <<StoreData, Torn>>
    PROVE  [Store!Next]_<<StoreData, Torn>>
  OBVIOUS

\* An interrupted batch has replaced some of its files and left the others.
LEMMA InterruptedIs ==
    ASSUME Inv, Running, result # "ok"
    PROVE  \E done \in SUBSET Store!Entries(ents) :
              disk = [d \in Dest |-> IF d \in done THEN gen ELSE before[d]]
  <1> DEFINE done == {d \in Store!Entries(ents) : disk[d] = gen}
  <1>1. disk \in [Dest -> Contents]
    BY DEF Inv, Typed, TypeOK
  <1>2. ASSUME NEW d \in Dest
        PROVE  disk[d] = IF d \in done THEN gen ELSE before[d]
    <2>1. CASE IsEntry(d)
      <3>1. PICK k \in DOMAIN ents : ents[k] = d
        BY <2>1 DEF IsEntry
      <3>2. pc \in {"staging", "backup", "rename", "sync", "clean", "rollback", "cleanup", "abort"}
        BY DEF Inv, Typed, TypeOK, Running
      <3>3. CASE pc \in {"staging", "backup", "rename", "sync"}
        BY <3>1, <3>3 DEF Inv, Phases, Forward, Untouched, Done, Store!Entries
      <3>4. CASE pc \in {"rollback", "cleanup", "abort"}
        BY <3>1, <3>4 DEF Inv, Phases, Returned, Backward, Undone, Untouched, Done, Store!Entries
      <3> QED BY <3>2, <3>3, <3>4 DEF Inv, Phases, Returned
    <2>2. CASE ~IsEntry(d)
      BY <2>2 DEF Inv, Phases, Others, IsEntry, Store!Entries
    <2> QED BY <2>1, <2>2
  <1>3. disk = [d \in Dest |-> IF d \in done THEN gen ELSE before[d]]
    BY <1>1, <1>2
  <1> HIDE DEF done
  <1>4. done \in SUBSET Store!Entries(ents)
    BY DEF done
  <1> QED BY <1>3, <1>4

\* Steps within a batch do not show, but for the one that commits it.
LEMMA InnerStep ==
    ASSUME Inv, Running, Running', UNCHANGED before, result' = "ok" => result = "ok" /\ UNCHANGED disk,
           result = "ok" => result' = "ok"
    PROVE  UNCHANGED <<StoreData, Torn>>
  BY DEF StoreData, Torn, Running

LEMMA StoreStep == Inv /\ [Next]_vars => [Store!Next]_<<StoreData, Torn>>
  <1> SUFFICES ASSUME Inv, [Next]_vars
               PROVE  [Store!Next]_<<StoreData, Torn>>
    OBVIOUS
  <1>1. ASSUME NEW b \in Batches, NewBatch(b)
        PROVE  [Store!Next]_<<StoreData, Torn>>
    <2>1. StoreData' = StoreData /\ Torn' = FALSE
      BY <1>1 DEF NewBatch, StoreData, Torn
    <2>2. CASE Torn
      BY <2>1, <2>2 DEF Store!Next, Store!Resume
    <2>3. CASE Torn = FALSE
      BY <2>1, <2>3
    <2> QED BY <2>2, <2>3 DEF Torn
  <1>2. CASE SyncOk
    <2>1. Running /\ ents \in Batches /\ result = "none" /\ result' = "ok" /\ UNCHANGED <<disk, gen, ents, before>>
      BY <1>2 DEF SyncOk, Inv, Phases, Typed, Returned, Running, history
    <2>2. StoreData = before /\ StoreData' = disk /\ Torn = FALSE /\ Torn' = FALSE
      BY <1>2, <2>1 DEF SyncOk, StoreData, Torn, Running
    <2>3. disk = Replaced
      <3>1. Inv' /\ result' = "ok"
        BY <2>1, InvStep
      <3>2. \A d \in Dest : disk[d] = IF d \in {ents[k] : k \in DOMAIN ents} THEN gen ELSE before[d]
        BY <1>2 DEF SyncOk, Inv, Phases, Others, Forward, IsEntry, Done
      <3>3. disk \in [Dest -> Contents]
        BY DEF Inv, Typed, TypeOK
      <3> QED BY <3>2, <3>3 DEF Replaced
    <2>4. gen \in 1..MaxGen + 1
      BY DEF Inv, Typed, TypeOK
    <2>5. Store!Replace(ents, gen)
      BY <2>2, <2>3 DEF Store!Replace, Store!Entries, Replaced
    <2> QED BY <2>1, <2>4, <2>5 DEF Store!Next
  <1>3. ASSUME Running, pc' \in {"idle", "down"}, pc' = "idle" => pc = "abort",
               UNCHANGED <<disk, gen, ents, before, result, restoreFailed>>
        PROVE  [Store!Next]_<<StoreData, Torn>>
    <2>1. StoreData = (IF result = "ok" THEN disk ELSE before) /\ StoreData' = disk /\ Torn = FALSE
          /\ ents \in Batches /\ gen \in 1..MaxGen + 1
      BY <1>3 DEF StoreData, Torn, Running, Inv, Typed, TypeOK
    <2>2. CASE Torn'
      <3>1. \E done \in SUBSET Store!Entries(ents) :
                StoreData' = [d \in Dest |-> IF d \in done THEN gen ELSE StoreData[d]]
        <4>1. CASE result = "ok"
          <5>1. StoreData' = [d \in Dest |-> IF d \in {} THEN gen ELSE StoreData[d]]
            BY <2>1, <4>1 DEF Inv, Typed, TypeOK
          <5>2. {} \in SUBSET Store!Entries(ents)
            OBVIOUS
          <5> QED BY <5>1, <5>2
        <4>2. CASE result # "ok"
          BY <1>3, <2>1, <4>2, InterruptedIs
        <4> QED BY <4>1, <4>2
      <3>2. Torn' = TRUE
        BY <2>2 DEF Torn
      <3>3. Store!Interrupt(ents, gen)
        BY <2>1, <3>1, <3>2 DEF Store!Interrupt
      <3> QED BY <2>1, <3>3 DEF Store!Next
    <2>3. CASE ~Torn'
      <3>1. pc' = "idle" /\ ~restoreFailed
        BY <1>3, <2>3 DEF Torn
      <3>2. pc = "abort"
        BY <1>3, <3>1
      <3>3. CASE result = "ok"
        BY <2>1, <2>3, <3>3 DEF Torn
      <3>4. CASE result # "ok"
        <4>1. result = "error"
          BY <3>2, <3>4 DEF Inv, Phases, Returned
        <4>2. ASSUME NEW d \in Dest
              PROVE  disk[d] = before[d]
          <5>1. CASE IsEntry(d)
            <6>1. PICK k \in DOMAIN ents : ents[k] = d
              BY <5>1 DEF IsEntry
            <6>2. Undone(d) /\ (replaced[d] => restoreFailed)
              BY <3>2, <4>1, <6>1 DEF Inv, Phases, Backward
            <6> QED BY <1>3, <3>1, <6>2 DEF Undone, Untouched, Done
          <5>2. CASE ~IsEntry(d)
            BY <5>2 DEF Inv, Phases, Others
          <5> QED BY <5>1, <5>2
        <4>3. disk = before
          BY <4>2 DEF Inv, Typed, TypeOK
        <4> QED BY <2>1, <2>3, <3>4, <4>3 DEF Torn
      <3> QED BY <3>3, <3>4
    <2> QED BY <2>2, <2>3
  <1>4. CASE Crash
    <2>1. Running /\ pc' = "down" /\ UNCHANGED <<disk, gen, ents, before, result, restoreFailed>>
      BY <1>4 DEF Crash, Running
    <2> QED BY <2>1, <1>3
  <1>5. ASSUME NEW b \in BOOLEAN, NEW r \in BOOLEAN, Cleanup(b, r)
        PROVE  [Store!Next]_<<StoreData, Torn>>
    <2>1. Running /\ UNCHANGED <<disk, gen, ents, before, result, restoreFailed>>
      BY <1>5 DEF Cleanup, Running
    <2>2. CASE pc' = "idle"
      <3>1. pc = "abort"
        BY <1>5, <2>2 DEF Cleanup, Loop
      <3> QED BY <1>3, <2>1, <2>2, <3>1
    <2>3. CASE pc' # "idle"
      <3>1. Running'
        BY <1>5, <2>3 DEF Cleanup, Loop, Running
      <3> QED BY <2>1, <3>1, InnerStep, Stutters
    <2> QED BY <2>2, <2>3
  <1>6. CASE Restart
    <2>1. pc = "down" /\ pc' = "idle" /\ UNCHANGED <<disk, result, restoreFailed, before>>
      BY <1>6 DEF Restart, history
    <2>2. StoreData' = StoreData /\ Torn = TRUE
      BY <2>1 DEF StoreData, Torn
    <2>3. Torn' \in BOOLEAN
      BY <2>1 DEF Torn, Inv, Typed, TypeOK
    <2> QED BY <2>2, <2>3 DEF Store!Next, Store!Resume
  <1>7. CASE StageOk \/ BackupOk \/ RenameOk \/ RollbackSkip \/ RollbackOk \/ RollbackFail
    <2>1. Running /\ UNCHANGED <<before, result>>
      BY <1>7 DEF StageOk, BackupOk, RenameOk, RollbackSkip, RollbackOk, RollbackFail, Running, history
    <2>2. Running' /\ result # "ok"
      BY <1>7 DEF StageOk, BackupOk, RenameOk, RollbackSkip, RollbackOk, RollbackFail, Loop,
                  NextRollback, Running, Inv, Phases, Returned
    <2> QED BY <2>1, <2>2, InnerStep, Stutters
  <1>8. ASSUME NEW r \in BOOLEAN, StageFail(r) \/ CleanBackup(r)
        PROVE  [Store!Next]_<<StoreData, Torn>>
    <2>1. Running /\ Running' /\ UNCHANGED <<before, disk>>
      BY <1>8 DEF StageFail, CleanBackup, Loop, Running
    <2>2. (result' = "ok") <=> (result = "ok")
      BY <1>8 DEF StageFail, CleanBackup, Inv, Phases, Returned
    <2> QED BY <2>1, <2>2, InnerStep, Stutters
  <1>9. CASE Cancelled \/ BackupFail \/ RenameFail \/ SyncFail
    <2>1. Running /\ Running' /\ UNCHANGED <<before, disk>>
      BY <1>9 DEF Cancelled, BackupFail, RenameFail, SyncFail, Fail, Running, history
    <2>2. result # "ok" /\ result' # "ok"
      BY <1>9 DEF Cancelled, BackupFail, RenameFail, SyncFail, Fail, Inv, Phases, Returned
    <2> QED BY <2>1, <2>2, InnerStep, Stutters
  <1>10. CASE UNCHANGED vars
    BY <1>10 DEF vars, history, StoreData, Torn
  <1> QED BY <1>1, <1>2, <1>4, <1>5, <1>6, <1>7, <1>8, <1>9, <1>10 DEF Next

\* The transaction implements AtomicStore: seen from outside, a batch replaces all its
\* destinations in one step or none of them, unless a kill or a failing restore
\* interrupts it, and then each of them is the old or the new one (batch.go:112-114).
THEOREM Implements == Spec => ImplementsAtomicStore
  <1>1. Init => Store!Init
    BY InitStore
  <1>2. Inv /\ [Next]_vars => [Store!Next]_<<StoreData, Torn>>
    BY StoreStep
  <1> QED BY <1>1, <1>2, InvHolds, PTL DEF Spec, ImplementsAtomicStore, Store!Spec
====
