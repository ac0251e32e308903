---- MODULE CacheBatch ----
(***************************************************************************)
(* The cache transaction of the converter: cache.Batch with Stage, Commit, *)
(* Abort, rollback and cleanup, one file operation per step.  Every file   *)
(* operation may fail, and the process may be killed between two of them.  *)
(* The refresh manager lets one batch run at a time (module Refresh), so *)
(* this module runs one batch after another on the same directory.         *)
(*                                                                         *)
(* A file's content is the generation that wrote it; 0 means "no file".    *)
(* An entry's stage and backup fields are non-empty exactly while the      *)
(* temporary file exists, so each is modelled with its file.               *)
(***************************************************************************)
EXTENDS Naturals, Sequences

CONSTANTS Dest,        \* formal cache files (node file, one per template)
          Batches,     \* sequences of destinations a batch stages
          MaxGen,      \* bound: number of batches started
          Crashes,     \* BOOLEAN: the process may be killed between two steps
          RestoreFails \* BOOLEAN: a rename or a remove of the rollback may fail

Injective(b) == \A j, k \in DOMAIN b : b[j] = b[k] => j = k

ASSUME MaxGenAssumption == MaxGen \in Nat \ {0}
ASSUME FaultsAssumption == Crashes \in BOOLEAN /\ RestoreFails \in BOOLEAN
\* Stage refuses a destination the batch already holds.
ASSUME BatchesAssumption ==
    \A b \in Batches : b \in Seq(Dest) /\ b # <<>> /\ Injective(b)

VARIABLES
    disk,      \* formal destination -> content
    gen,       \* generation of the current (or last) batch
    ents,      \* Batch.entries, in staging order
    pc,        \* the phase the batch is in
    cur,       \* loop index of that phase
    stage,     \* entry.stage: the staging file exists
    backup,    \* entry.backup: content of the backup file, 0 for ""
    existed,   \* entry.existed
    replaced,  \* entry.replaced
    litter,    \* temporary files, with their contents, that no batch refers to
    before,    \* history: disk when the batch was created
    result,    \* what Commit returned
    restoreFailed, \* history: the rollback of this batch left a file replaced
    faulted        \* history: a kill, a failed restore or a failed last removal

fields == <<stage, backup, existed, replaced>>
history == <<before, restoreFailed, faulted>>
vars == <<disk, gen, ents, pc, cur, fields, litter, history, result>>

Contents == 0..MaxGen + 1

TypeOK ==
    /\ disk \in [Dest -> Contents]
    /\ gen \in 1..MaxGen + 1
    /\ ents \in Batches \cup {<<>>}
    /\ pc \in {"idle", "staging", "backup", "rename", "sync", "clean",
               "rollback", "cleanup", "abort", "down"}
    /\ cur \in 1..Len(ents) \cup {1}
    /\ stage \in [Dest -> BOOLEAN]
    /\ backup \in [Dest -> Contents]
    /\ existed \in [Dest -> BOOLEAN]
    /\ replaced \in [Dest -> BOOLEAN]
    /\ litter \in SUBSET (Dest \X Contents)
    /\ before \in [Dest -> Contents]
    /\ result \in {"none", "ok", "error"}
    /\ restoreFailed \in BOOLEAN
    /\ faulted \in BOOLEAN

None == [d \in Dest |-> FALSE]
NoBackup == [d \in Dest |-> 0]

\* Generation 1 is what an earlier run of the program left: any subset of the files.
Init ==
    /\ disk \in [Dest -> {0, 1}]
    /\ gen = 1
    /\ ents = <<>>
    /\ pc = "idle"
    /\ cur = 1
    /\ stage = None /\ backup = NoBackup /\ existed = None /\ replaced = None
    /\ litter = {}
    /\ before = disk
    /\ result = "none"
    /\ restoreFailed = FALSE /\ faulted = FALSE

d0 == ents[cur]     \* the entry the current loop iteration is about

\* Variant: the loop runs once too often.
LoopTooFar(p, q) ==
    IF cur <= Len(ents) THEN pc' = p /\ cur' = cur + 1 ELSE pc' = q /\ cur' = 1

\* Advance the loop of phase p, or enter phase q when it has visited every entry.
Loop(p, q) ==
    IF cur < Len(ents) THEN pc' = p /\ cur' = cur + 1 ELSE pc' = q /\ cur' = 1

\* Variant: fail() removes the temporary files without a rollback.
FailWithoutRollback == pc' = "cleanup" /\ cur' = 1 /\ result' = "error"

\* fail() starts its rollback at the last entry.
Fail == pc' = "rollback" /\ cur' = Len(ents) /\ result' = "error"

\* NewBatch for a refresh (node file and every enabled template) or for one template.
NewBatch(b) ==
    /\ pc = "idle" /\ gen <= MaxGen
    /\ gen' = gen + 1
    /\ ents' = b
    /\ pc' = "staging" /\ cur' = 1
    /\ stage' = None /\ backup' = NoBackup /\ existed' = None /\ replaced' = None
    /\ before' = disk
    /\ result' = "none"
    /\ restoreFailed' = FALSE
    /\ UNCHANGED <<disk, litter, faulted>>

\* Stage wrote, synced and validated the candidate beside its destination.
StageOk ==
    /\ pc = "staging"
    /\ stage' = [stage EXCEPT ![d0] = TRUE]
    /\ Loop("staging", "backup")
    /\ UNCHANGED <<disk, gen, ents, backup, existed, replaced, litter, history, result>>

\* Stage fails and removes its temporary file, best effort: the caller returns
\* and its deferred Abort runs.
StageFail(removed) ==
    /\ pc = "staging"
    /\ result' = "error"
    /\ pc' = "abort" /\ cur' = 1
    /\ litter' = IF removed THEN litter ELSE litter \cup {<<d0, gen>>}
    /\ faulted' = (faulted \/ ~removed)
    /\ UNCHANGED <<disk, gen, ents, fields, before, restoreFailed>>

\* The caller finds its context cancelled after the last Stage.
Cancelled ==
    /\ pc = "backup" /\ cur = 1
    /\ result' = "error"
    /\ pc' = "abort" /\ cur' = 1
    /\ UNCHANGED <<disk, gen, ents, fields, litter, history>>

\* First loop of Commit: inspect the destination and copy it to a synced backup.
BackupOk ==
    /\ pc = "backup"
    /\ existed' = [existed EXCEPT ![d0] = disk[d0] # 0]
    /\ backup' = [backup EXCEPT ![d0] = disk[d0]]
    /\ Loop("backup", "rename")
    /\ UNCHANGED <<disk, gen, ents, stage, replaced, litter, history, result>>

\* Lstat fails, the destination is not a regular file, or the copy fails (the
\* partial copy is removed); existed is already set in the last case.
BackupFail ==
    /\ pc = "backup"
    /\ existed' \in {existed, [existed EXCEPT ![d0] = disk[d0] # 0]}
    /\ Fail
    /\ UNCHANGED <<disk, gen, ents, stage, backup, replaced, litter, history>>

\* Second loop of Commit: rename the stage over the destination.
RenameOk ==
    /\ pc = "rename"
    /\ disk' = [disk EXCEPT ![d0] = gen]
    /\ stage' = [stage EXCEPT ![d0] = FALSE]
    /\ replaced' = [replaced EXCEPT ![d0] = TRUE]
    /\ Loop("rename", "sync")
    /\ UNCHANGED <<gen, ents, backup, existed, litter, history, result>>

RenameFail ==
    /\ pc = "rename"
    /\ Fail
    /\ UNCHANGED <<disk, gen, ents, fields, litter, history>>

\* syncDirectories after the renames: the transaction is committed, or fails.
SyncOk ==
    /\ pc = "sync"
    /\ pc' = "clean" /\ cur' = 1
    /\ result' = "ok"
    /\ UNCHANGED <<disk, gen, ents, fields, litter, history>>

SyncFail ==
    /\ pc = "sync"
    /\ Fail
    /\ UNCHANGED <<disk, gen, ents, fields, litter, history>>

\* Commit's best-effort removal of the backups; an error is ignored.
CleanBackup(removed) ==
    /\ pc = "clean"
    /\ removed \/ backup[d0] # 0
    /\ backup' = IF removed THEN [backup EXCEPT ![d0] = 0] ELSE backup
    /\ faulted' = (faulted \/ ~removed)
    /\ Loop("clean", "abort")
    /\ UNCHANGED <<disk, gen, ents, stage, existed, replaced, litter, before,
                   restoreFailed, result>>

\* One iteration of rollback(), from the last entry to the first.
NextRollback ==
    IF cur > 1 THEN pc' = "rollback" /\ cur' = cur - 1
               ELSE pc' = "cleanup" /\ cur' = 1

RollbackSkip ==
    /\ pc = "rollback" /\ ~replaced[d0]
    /\ NextRollback
    /\ UNCHANGED <<disk, gen, ents, fields, litter, history, result>>

\* Variant: a destination that did not exist before is left in place.
RollbackKeepsNew ==
    /\ pc = "rollback" /\ replaced[d0]
    /\ existed[d0] => backup[d0] # 0
    /\ disk' = [disk EXCEPT ![d0] = IF existed[d0] THEN backup[d0] ELSE @]
    /\ backup' = [backup EXCEPT ![d0] = IF existed[d0] THEN 0 ELSE @]
    /\ replaced' = [replaced EXCEPT ![d0] = FALSE]
    /\ NextRollback
    /\ UNCHANGED <<gen, ents, stage, existed, litter, history, result>>

\* Rename the backup over the destination, or remove a destination that is new.
RollbackOk ==
    /\ pc = "rollback" /\ replaced[d0]
    /\ existed[d0] => backup[d0] # 0
    /\ disk' = [disk EXCEPT ![d0] = IF existed[d0] THEN backup[d0] ELSE 0]
    /\ backup' = [backup EXCEPT ![d0] = IF existed[d0] THEN 0 ELSE @]
    /\ replaced' = [replaced EXCEPT ![d0] = FALSE]
    /\ NextRollback
    /\ UNCHANGED <<gen, ents, stage, existed, litter, history, result>>

\* No backup to restore, or the rename or the remove fails: replaced stays TRUE.
RollbackFail ==
    /\ pc = "rollback" /\ replaced[d0]
    /\ RestoreFails \/ (existed[d0] /\ backup[d0] = 0)
    /\ restoreFailed' = TRUE /\ faulted' = TRUE
    /\ NextRollback
    /\ UNCHANGED <<disk, gen, ents, fields, litter, before, result>>

\* The temporary files of a batch, orphaned when the batch is dropped.
Held(st, bk) == {<<d, gen>> : d \in {x \in Dest : st[x]}}
                \cup {<<d, bk[d]>> : d \in {x \in Dest : bk[x] # 0}}

\* Variant: backups are removed without regard to entry.replaced.
CleanupRemovesLast(stageRemoved, backupRemoved) ==
    /\ pc \in {"cleanup", "abort"}
    /\ stageRemoved \/ stage[d0]
    /\ backupRemoved \/ backup[d0] # 0
    /\ stage' = IF stageRemoved THEN [stage EXCEPT ![d0] = FALSE] ELSE stage
    /\ backup' = IF backupRemoved THEN [backup EXCEPT ![d0] = 0] ELSE backup
    /\ faulted' = (faulted \/ (pc = "abort" /\ ~(stageRemoved /\ backupRemoved)))
    /\ IF pc = "cleanup" \/ cur < Len(ents)
       THEN Loop(pc, "abort") /\ litter' = litter
       ELSE pc' = "idle" /\ cur' = 1 /\ litter' = litter \cup Held(stage', backup')
    /\ UNCHANGED <<disk, gen, ents, existed, replaced, before, restoreFailed, result>>

\* One iteration of cleanupTransactionFiles(), in fail() and in the deferred Abort.
\* A backup whose entry is still replaced is the last good copy: it stays.
Cleanup(stageRemoved, backupRemoved) ==
    /\ pc \in {"cleanup", "abort"}
    /\ stageRemoved \/ stage[d0]
    /\ backupRemoved \/ (backup[d0] # 0 /\ ~replaced[d0])
    /\ stage' = IF stageRemoved THEN [stage EXCEPT ![d0] = FALSE] ELSE stage
    /\ backup' = IF backupRemoved /\ ~replaced[d0]
                 THEN [backup EXCEPT ![d0] = 0] ELSE backup
    /\ faulted' = (faulted \/ (pc = "abort" /\ ~(stageRemoved /\ backupRemoved)))
    /\ IF pc = "cleanup" \/ cur < Len(ents)
       THEN Loop(pc, "abort") /\ litter' = litter
       ELSE pc' = "idle" /\ cur' = 1 /\ litter' = litter \cup Held(stage', backup')
    /\ UNCHANGED <<disk, gen, ents, existed, replaced, before, restoreFailed, result>>

\* The process is killed; there is no journal, so its files stay where they are.
Crash ==
    /\ Crashes /\ pc \notin {"idle", "down"}
    /\ pc' = "down" /\ cur' = 1
    /\ stage' = None /\ backup' = NoBackup /\ existed' = None /\ replaced' = None
    /\ litter' = litter \cup Held(stage, backup)
    /\ faulted' = TRUE
    /\ UNCHANGED <<disk, gen, ents, before, restoreFailed, result>>

Restart ==
    /\ pc = "down"
    /\ pc' = "idle"
    /\ UNCHANGED <<disk, gen, ents, cur, fields, litter, history, result>>

Next ==
    \/ \E b \in Batches : NewBatch(b)
    \/ StageOk \/ Cancelled
    \/ \E r \in BOOLEAN : StageFail(r)
    \/ BackupOk \/ BackupFail
    \/ RenameOk \/ RenameFail
    \/ SyncOk \/ SyncFail
    \/ \E r \in BOOLEAN : CleanBackup(r)
    \/ RollbackSkip \/ RollbackOk \/ RollbackFail
    \/ \E s, b \in BOOLEAN : Cleanup(s, b)
    \/ Crash \/ Restart

Spec == Init /\ [][Next]_vars
----
(* Correctness *)

\* The directory after a batch that replaced all its destinations.
Replaced == [d \in Dest |-> IF d \in {ents[k] : k \in DOMAIN ents} THEN gen ELSE before[d]]

\* Commit's contract (batch.go:112-114): unless a kill or a failing rollback cut it
\* short, an error means that the directory is what it was before the batch, and
\* success that every staged destination, and nothing else, changed; temporary files
\* outlive a batch only after a kill, a failed restore or a failed removal.
AllOrNothing ==
    /\ pc = "idle" /\ ~faulted => disk = IF result = "ok" THEN Replaced ELSE before
    /\ litter # {} => faulted

\* The last good content of every file can be recovered at every moment of a batch
\* that has not committed, whatever failed and wherever the process was killed: it
\* is in the file or in a backup that nothing removes (batch.go:226-228).
LastGoodRecoverable ==
    result # "ok" => \A d \in Dest :
        \/ disk[d] = before[d]
        \/ before[d] = 0
        \/ backup[d] = before[d]
        \/ <<d, before[d]>> \in litter

\* A batch is one step of AtomicStore, whatever fails in it; only a kill or a
\* failing restore interrupts it, and then every file is the old or the new one.
StoreData == IF pc \in {"idle", "down"} \/ result = "ok" THEN disk ELSE before
Torn == pc = "down" \/ (pc = "idle" /\ restoreFailed)
Store == INSTANCE AtomicStore WITH data <- StoreData, torn <- Torn,
                                   Gens <- 1..MaxGen + 1, Initial <- [Dest -> {0, 1}]
ImplementsAtomicStore == Store!Spec
====
