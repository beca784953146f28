--------------------------- MODULE PromotionProofs ----------------------------
(***************************************************************************)
(* Proofs about what replaces the files of a profile: the swap of the      *)
(* managed files (FileSwap), and the transaction of a promotion around it  *)
(* with its records and their recovery (Promotion).                        *)
(***************************************************************************)
EXTENDS FileSwap, Promotion, SequenceTheorems, TLAPS

----------------------------------------------------------------------------
(***************************************************************************)
(* Proofs about FileSwap for every set of managed files, every contents    *)
(* and every caller: the swap invariant, the two action properties, and    *)
(* that a swap nobody edits behind is atomic.                              *)
(***************************************************************************)

(* The shape of a record; a set of contents is its files' contents.        *)
LEMMA RecordShape ==
  ASSUME NEW s \in {"prepared", "committed", "rolled-back"},
         NEW b \in Files, NEW a \in Files
  PROVE  /\ [state |-> s, before |-> b, after |-> a] \in SwapRecord
         /\ [state |-> s, before |-> b, after |-> a] # NoRecord
BY NullsAssumption DEF SwapRecord

LEMMA SameContents ==
  ASSUME NEW g \in Files, NEW h \in Files, \A f \in File : g[f] = h[f]
  PROVE  g = h
BY DEF Files

(* What swap.ts relies on between any two file operations: a prepared      *)
(* record, complete backups, and files that are where the loops left them  *)
(* unless a user edited them (swap.ts:119-147, 168-203).                   *)
THEOREM SwapInvariant == SwapSpec => []SwapInv
<1> USE DEF Enter, SwapLeave, Forget, Visit, SwapLabels, Preparing, Recovering
<1>1. SwapInit => SwapInv
  BY ContentAssumption, FileAssumption
  DEF SwapInit, SwapInv, SwapTypeOK, MemIsRecord, BackedUp, Placed, Bookkeeping, Nothing,
      Files, Prepared
<1>2. SwapInv /\ [SwapNext]_swapVars => SwapInv'
  <2> SUFFICES ASSUME SwapInv, [SwapNext]_swapVars
               PROVE  SwapInv'
    OBVIOUS
  <2> USE DEF SwapInv, SwapTypeOK
  <2>a. Nothing \in Files
    BY ContentAssumption DEF Nothing, Files
  <2>b. rec # NoRecord => rec \in SwapRecord /\ rec.before \in Files /\ rec.after \in Files
    BY DEF SwapRecord
  <2>c. \A g \in Files, f \in File : g[f] \in Content
    BY DEF Files
  <2>d. \A g \in Files, f \in File, c \in Content : [g EXCEPT ![f] = c] \in Files
    BY DEF Files
  <2>1. ASSUME NEW target \in Targets, Replace(target)
        PROVE  SwapInv'
    <3>1. SwapTypeOK'
      BY <2>1, <2>a, <2>b, <2>c, <2>d, RecordShape, TargetsAssumption, ContentAssumption
      DEF Replace, BackedUp
    <3>2. MemIsRecord' /\ Bookkeeping'
      BY <2>1, <2>b, RecordShape, FileAssumption
      DEF Replace, MemIsRecord, Bookkeeping, Prepared
    <3>3. BackedUp' /\ Placed'
      BY <2>1, <3>1, <2>a, <2>b, RecordShape, NullsAssumption, SameContents
      DEF Replace, MemIsRecord, BackedUp, Placed, Bookkeeping, Prepared
    <3>4. QED
      BY <3>1, <3>2, <3>3
  <2>2. CASE MakeBackupDir
    <3>1. SwapTypeOK'
      BY <2>2, <2>a, <2>b, <2>c, <2>d, RecordShape, TargetsAssumption, ContentAssumption
      DEF MakeBackupDir, BackedUp
    <3>2. MemIsRecord' /\ Bookkeeping'
      BY <2>2, <2>b, RecordShape, FileAssumption
      DEF MakeBackupDir, MemIsRecord, Bookkeeping, Prepared
    <3>3. BackedUp' /\ Placed'
      BY <2>2, <3>1, <2>a, <2>b, RecordShape, NullsAssumption, SameContents
      DEF MakeBackupDir, MemIsRecord, BackedUp, Placed, Bookkeeping, Prepared
    <3>4. QED
      BY <3>1, <3>2, <3>3
  <2>3. CASE SavePrepared
    <3>1. SwapTypeOK'
      BY <2>3, <2>a, <2>b, <2>c, <2>d, RecordShape, TargetsAssumption, ContentAssumption
      DEF SavePrepared, BackedUp
    <3>2. MemIsRecord' /\ Bookkeeping'
      BY <2>3, <2>b, RecordShape, FileAssumption
      DEF SavePrepared, MemIsRecord, Bookkeeping, Prepared
    <3>3. BackedUp' /\ Placed'
      BY <2>3, <3>1, <2>a, <2>b, RecordShape, NullsAssumption, SameContents
      DEF SavePrepared, MemIsRecord, BackedUp, Placed, Bookkeeping, Prepared
    <3>4. QED
      BY <3>1, <3>2, <3>3
  <2>4. CASE SyncPrepared
    <3>1. SwapTypeOK'
      BY <2>4, <2>a, <2>b, <2>c, <2>d, RecordShape, TargetsAssumption, ContentAssumption
      DEF SyncPrepared, BackedUp
    <3>2. MemIsRecord' /\ Bookkeeping'
      BY <2>4, <2>b, RecordShape, FileAssumption
      DEF SyncPrepared, MemIsRecord, Bookkeeping, Prepared
    <3>3. BackedUp' /\ Placed'
      BY <2>4, <3>1, <2>a, <2>b, RecordShape, NullsAssumption, SameContents
      DEF SyncPrepared, MemIsRecord, BackedUp, Placed, Bookkeeping, Prepared
    <3>4. QED
      BY <3>1, <3>2, <3>3
  <2>5. CASE SaveCommitted
    <3>1. SwapTypeOK'
      BY <2>5, <2>a, <2>b, <2>c, <2>d, RecordShape, TargetsAssumption, ContentAssumption
      DEF SaveCommitted, BackedUp
    <3>2. MemIsRecord' /\ Bookkeeping'
      BY <2>5, <2>b, RecordShape, FileAssumption
      DEF SaveCommitted, MemIsRecord, Bookkeeping, Prepared
    <3>3. BackedUp' /\ Placed'
      BY <2>5, <3>1, <2>a, <2>b, RecordShape, NullsAssumption, SameContents
      DEF SaveCommitted, MemIsRecord, BackedUp, Placed, Bookkeeping, Prepared
    <3>4. QED
      BY <3>1, <3>2, <3>3
  <2>6. CASE RemoveRecord
    <3>1. SwapTypeOK'
      BY <2>6, <2>a, <2>b, <2>c, <2>d, RecordShape, TargetsAssumption, ContentAssumption
      DEF RemoveRecord, BackedUp
    <3>2. MemIsRecord' /\ Bookkeeping'
      BY <2>6, <2>b, RecordShape, FileAssumption
      DEF RemoveRecord, MemIsRecord, Bookkeeping, Prepared
    <3>3. BackedUp' /\ Placed'
      BY <2>6, <3>1, <2>a, <2>b, RecordShape, NullsAssumption, SameContents
      DEF RemoveRecord, MemIsRecord, BackedUp, Placed, Bookkeeping, Prepared
    <3>4. QED
      BY <3>1, <3>2, <3>3
  <2>7. CASE RemoveBackupDir
    <3>1. SwapTypeOK'
      BY <2>7, <2>a, <2>b, <2>c, <2>d, RecordShape, TargetsAssumption, ContentAssumption
      DEF RemoveBackupDir, BackedUp
    <3>2. MemIsRecord' /\ Bookkeeping'
      BY <2>7, <2>b, RecordShape, FileAssumption
      DEF RemoveBackupDir, MemIsRecord, Bookkeeping, Prepared
    <3>3. BackedUp' /\ Placed'
      BY <2>7, <3>1, <2>a, <2>b, RecordShape, NullsAssumption, SameContents
      DEF RemoveBackupDir, MemIsRecord, BackedUp, Placed, Bookkeeping, Prepared
    <3>4. QED
      BY <3>1, <3>2, <3>3
  <2>8. CASE RemoveStaging
    <3>1. SwapTypeOK'
      BY <2>8, <2>a, <2>b, <2>c, <2>d, RecordShape, TargetsAssumption, ContentAssumption
      DEF RemoveStaging, BackedUp
    <3>2. MemIsRecord' /\ Bookkeeping'
      BY <2>8, <2>b, RecordShape, FileAssumption
      DEF RemoveStaging, MemIsRecord, Bookkeeping, Prepared
    <3>3. BackedUp' /\ Placed'
      BY <2>8, <3>1, <2>a, <2>b, RecordShape, NullsAssumption, SameContents
      DEF RemoveStaging, MemIsRecord, BackedUp, Placed, Bookkeeping, Prepared
    <3>4. QED
      BY <3>1, <3>2, <3>3
  <2>9. CASE ReadRecord
    <3>1. CASE rec = NoRecord
      BY <2>9, <3>1, <2>a DEF ReadRecord, MemIsRecord, BackedUp, Placed, Bookkeeping, Prepared
    <3>2. CASE Prepared
      <4>1. rec \in SwapRecord /\ before' = rec.before /\ after' = rec.after /\ swapAt' = "validate"
            /\ todo' = File /\ fresh' = fresh
        BY <2>9, <3>2, <2>b DEF ReadRecord, Prepared
      <4>2. SwapTypeOK'
        BY <2>9, <4>1, <2>b, <3>2 DEF ReadRecord, Prepared
      <4>3. QED
        BY <2>9, <3>2, <4>1, <4>2, FileAssumption
        DEF ReadRecord, MemIsRecord, BackedUp, Placed, Bookkeeping, Prepared
    <3>3. CASE rec # NoRecord /\ ~Prepared
      BY <2>9, <3>3 DEF ReadRecord, MemIsRecord, BackedUp, Placed, Bookkeeping, Prepared
    <3>4. QED
      BY <3>1, <3>2, <3>3
  <2>10. CASE SaveRolledBack
    <3>1. SwapTypeOK'
      BY <2>10, <2>a, <2>b, <2>c, <2>d, RecordShape, TargetsAssumption, ContentAssumption
      DEF SaveRolledBack, BackedUp
    <3>2. MemIsRecord' /\ Bookkeeping'
      BY <2>10, <2>b, RecordShape, FileAssumption
      DEF SaveRolledBack, MemIsRecord, Bookkeeping, Prepared
    <3>3. BackedUp' /\ Placed'
      BY <2>10, <3>1, <2>a, <2>b, RecordShape, NullsAssumption, SameContents
      DEF SaveRolledBack, MemIsRecord, BackedUp, Placed, Bookkeeping, Prepared
    <3>4. QED
      BY <3>1, <3>2, <3>3
  <2>11. CASE Recover
    <3>1. SwapTypeOK'
      BY <2>11, <2>a, <2>b, <2>c, <2>d, RecordShape, TargetsAssumption, ContentAssumption
      DEF Recover, BackedUp
    <3>2. MemIsRecord' /\ Bookkeeping'
      BY <2>11, <2>b, RecordShape, FileAssumption
      DEF Recover, MemIsRecord, Bookkeeping, Prepared
    <3>3. BackedUp' /\ Placed'
      BY <2>11, <3>1, <2>a, <2>b, RecordShape, NullsAssumption, SameContents
      DEF Recover, MemIsRecord, BackedUp, Placed, Bookkeeping, Prepared
    <3>4. QED
      BY <3>1, <3>2, <3>3
  <2>12. CASE SwapFault
    <3>1. SwapTypeOK'
      BY <2>12, <2>a, <2>b, <2>c, <2>d, RecordShape, TargetsAssumption, ContentAssumption
      DEF SwapFault, BackedUp
    <3>2. MemIsRecord' /\ Bookkeeping'
      BY <2>12, <2>b, RecordShape, FileAssumption
      DEF SwapFault, MemIsRecord, Bookkeeping, Prepared
    <3>3. BackedUp' /\ Placed'
      BY <2>12, <3>1, <2>a, <2>b, RecordShape, NullsAssumption, SameContents
      DEF SwapFault, MemIsRecord, BackedUp, Placed, Bookkeeping, Prepared
    <3>4. QED
      BY <3>1, <3>2, <3>3
  <2>13. CASE SwapCrash
    <3>1. SwapTypeOK'
      BY <2>13, <2>a, <2>b, <2>c, <2>d, RecordShape, TargetsAssumption, ContentAssumption
      DEF SwapCrash, BackedUp
    <3>2. MemIsRecord' /\ Bookkeeping'
      BY <2>13, <2>b, RecordShape, FileAssumption
      DEF SwapCrash, MemIsRecord, Bookkeeping, Prepared
    <3>3. BackedUp' /\ Placed'
      BY <2>13, <3>1, <2>a, <2>b, RecordShape, NullsAssumption, SameContents
      DEF SwapCrash, MemIsRecord, BackedUp, Placed, Bookkeeping, Prepared
    <3>4. QED
      BY <3>1, <3>2, <3>3
  <2>14. CASE Takeover
    <3>1. SwapTypeOK'
      BY <2>14, <2>a, <2>b, <2>c, <2>d, RecordShape, TargetsAssumption, ContentAssumption
      DEF Takeover, BackedUp
    <3>2. MemIsRecord' /\ Bookkeeping'
      BY <2>14, <2>b, RecordShape, FileAssumption
      DEF Takeover, MemIsRecord, Bookkeeping, Prepared
    <3>3. BackedUp' /\ Placed'
      BY <2>14, <3>1, <2>a, <2>b, RecordShape, NullsAssumption, SameContents
      DEF Takeover, MemIsRecord, BackedUp, Placed, Bookkeeping, Prepared
    <3>4. QED
      BY <3>1, <3>2, <3>3
  <2>15. ASSUME NEW f \in File, PrepareSwap(f)
        PROVE  SwapInv'
    <3>0. swapAt = "prepare" /\ rec = NoRecord /\ backup \in Files /\ f \in todo
      BY <2>15 DEF PrepareSwap, Bookkeeping, BackedUp
    <3>1. SwapTypeOK'
      BY <2>15, <3>0, <2>c, <2>d DEF PrepareSwap
    <3>2. MemIsRecord' /\ Bookkeeping'
      BY <2>15, FileAssumption DEF PrepareSwap, MemIsRecord, Bookkeeping, Prepared
    <3>3. \A g \in File : /\ before'[g] = IF g = f THEN prof[f] ELSE before[g]
                         /\ backup'[g] = IF g = f THEN prof[f] ELSE backup[g]
      BY <2>15, <3>0 DEF PrepareSwap, Files
    <3>4. BackedUp'
      <4>0. prof[f] \in Content
        BY <2>c
      <4>1. backup' \in Files /\ backup' # NoDir
        <5>1. backup' = [backup EXCEPT ![f] = prof[f]]
          BY <2>15 DEF PrepareSwap
        <5>2. [backup EXCEPT ![f] = prof[f]] \in Files
          BY <3>0, <4>0 DEF Files
        <5>3. QED
          BY <5>1, <5>2, NullsAssumption
      <4>2. \A g \in File \ todo : backup[g] = before[g]
        BY <3>0 DEF BackedUp
      <4>3. swapAt' \in {"prepare", "saveRecord"}
            /\ \A g \in File : g \notin todo' \/ swapAt' = "saveRecord" => g = f \/ g \notin todo
        BY <2>15, <3>0 DEF PrepareSwap
      <4>4. QED
        BY <3>3, <4>1, <4>2, <4>3 DEF BackedUp
    <3>5. Placed'
      BY <2>15, <3>0, <3>3 DEF PrepareSwap, Placed, Prepared
    <3>6. QED
      BY <3>1, <3>2, <3>4, <3>5
  <2>16. ASSUME NEW f \in File, Recheck(f)
        PROVE  SwapInv'
    <3>1. SwapTypeOK'
      BY <2>16, <2>a, <2>b, <2>c, <2>d, RecordShape, TargetsAssumption, ContentAssumption
      DEF Recheck, BackedUp
    <3>2. MemIsRecord' /\ Bookkeeping'
      BY <2>16, <2>b, RecordShape, FileAssumption
      DEF Recheck, MemIsRecord, Bookkeeping, Prepared
    <3>3. BackedUp' /\ Placed'
      BY <2>16, <3>1, <2>a, <2>b, RecordShape, NullsAssumption, SameContents
      DEF Recheck, MemIsRecord, BackedUp, Placed, Bookkeeping, Prepared
    <3>4. QED
      BY <3>1, <3>2, <3>3
  <2>17. ASSUME NEW f \in File, ReplaceFile(f)
        PROVE  SwapInv'
    <3>1. SwapTypeOK'
      BY <2>17, <2>a, <2>b, <2>c, <2>d, RecordShape, TargetsAssumption, ContentAssumption
      DEF ReplaceFile, BackedUp
    <3>2. MemIsRecord' /\ Bookkeeping'
      BY <2>17, <2>b, RecordShape, FileAssumption
      DEF ReplaceFile, MemIsRecord, Bookkeeping, Prepared
    <3>3. BackedUp' /\ Placed'
      BY <2>17, <3>1, <2>a, <2>b, RecordShape, NullsAssumption, SameContents
      DEF ReplaceFile, MemIsRecord, BackedUp, Placed, Bookkeeping, Prepared, Files
    <3>4. QED
      BY <3>1, <3>2, <3>3
  <2>18. ASSUME NEW f \in File, RemoveBackup(f)
        PROVE  SwapInv'
    <3>1. SwapTypeOK'
      BY <2>18, <2>a, <2>b, <2>c, <2>d, RecordShape, TargetsAssumption, ContentAssumption
      DEF RemoveBackup, BackedUp
    <3>2. MemIsRecord' /\ Bookkeeping'
      BY <2>18, <2>b, RecordShape, FileAssumption
      DEF RemoveBackup, MemIsRecord, Bookkeeping, Prepared
    <3>3. BackedUp' /\ Placed'
      BY <2>18, <3>1, <2>a, <2>b, RecordShape, NullsAssumption, SameContents
      DEF RemoveBackup, MemIsRecord, BackedUp, Placed, Bookkeeping, Prepared, Files
    <3>4. QED
      BY <3>1, <3>2, <3>3
  <2>19. ASSUME NEW f \in File, Validate(f)
        PROVE  SwapInv'
    <3>1. SwapTypeOK'
      BY <2>19, <2>a, <2>b, <2>c, <2>d, RecordShape, TargetsAssumption, ContentAssumption
      DEF Validate, BackedUp
    <3>2. MemIsRecord' /\ Bookkeeping'
      BY <2>19, <2>b, RecordShape, FileAssumption
      DEF Validate, MemIsRecord, Bookkeeping, Prepared
    <3>3. BackedUp' /\ Placed'
      BY <2>19, <3>1, <2>a, <2>b, RecordShape, NullsAssumption, SameContents
      DEF Validate, MemIsRecord, BackedUp, Placed, Bookkeeping, Prepared
    <3>4. QED
      BY <3>1, <3>2, <3>3
  <2>20. ASSUME NEW f \in File, Restore(f)
        PROVE  SwapInv'
    <3>1. SwapTypeOK'
      BY <2>20, <2>a, <2>b, <2>c, <2>d, RecordShape, TargetsAssumption, ContentAssumption
      DEF Restore, BackedUp
    <3>2. MemIsRecord' /\ Bookkeeping'
      BY <2>20, <2>b, RecordShape, FileAssumption
      DEF Restore, MemIsRecord, Bookkeeping, Prepared
    <3>3. BackedUp' /\ Placed'
      BY <2>20, <3>1, <2>a, <2>b, RecordShape, NullsAssumption, SameContents
      DEF Restore, MemIsRecord, BackedUp, Placed, Bookkeeping, Prepared, Files
    <3>4. QED
      BY <3>1, <3>2, <3>3
  <2>21. ASSUME NEW f \in File, NEW c \in Content, EditFile(f, c)
        PROVE  SwapInv'
    <3>1. SwapTypeOK'
      BY <2>21, <2>a, <2>b, <2>c, <2>d, RecordShape, TargetsAssumption, ContentAssumption
      DEF EditFile, BackedUp
    <3>2. MemIsRecord' /\ Bookkeeping'
      BY <2>21, <2>b, RecordShape, FileAssumption
      DEF EditFile, MemIsRecord, Bookkeeping, Prepared
    <3>3. BackedUp' /\ Placed'
      BY <2>21, <3>1, <2>a, <2>b, RecordShape, NullsAssumption, SameContents
      DEF EditFile, MemIsRecord, BackedUp, Placed, Bookkeeping, Prepared, Files
    <3>4. QED
      BY <3>1, <3>2, <3>3
  <2>22. CASE UNCHANGED swapVars
    BY <2>22 DEF swapVars, MemIsRecord, BackedUp, Placed, Bookkeeping, Prepared
  <2>23. QED
    BY <2>1, <2>2, <2>3, <2>4, <2>5, <2>6, <2>7, <2>8, <2>9, <2>10, <2>11, <2>12, <2>13, <2>14, <2>15, <2>16, <2>17, <2>18, <2>19, <2>20, <2>21, <2>22 DEF SwapNext, SwapStep
<1>3. QED
  BY <1>1, <1>2, PTL DEF SwapSpec

-----------------------------------------------------------------------------
(* swap.ts:119, 128, 190: contents nobody judged are never written over.   *)
THEOREM EditsArePreserved == SwapSpec => EditsPreserved
<1> DEFINE Preserved ==
      \A f \in File :
        ProgramStep /\ prof'[f] # prof[f]
          => f \in fresh \/ prof[f] \in {before[f], after[f]}
<1>1. SwapInv /\ [SwapNext]_swapVars => [Preserved]_swapVars
  <2> SUFFICES ASSUME SwapInv, [SwapNext]_swapVars, NEW f \in File,
                      ProgramStep, prof'[f] # prof[f], f \notin fresh
               PROVE  prof[f] \in {before[f], after[f]}
    OBVIOUS
  <2>a. prof \in Files /\ Placed
    BY DEF SwapInv, SwapTypeOK
  <2>1. ASSUME NEW g \in File, ReplaceFile(g)
        PROVE  prof[f] \in {before[f], after[f]}
    BY <2>1, <2>a DEF ReplaceFile, Placed
  <2>2. ASSUME NEW g \in File, Restore(g)
        PROVE  prof[f] \in {before[f], after[f]}
    BY <2>2, <2>a DEF Restore, Placed
  <2>3. ASSUME NEW g \in File, NEW c \in Content, EditFile(g, c)
        PROVE  FALSE
    BY <2>3 DEF EditFile, ProgramStep
  <2>4. ASSUME NEW target \in Targets, Replace(target)
        PROVE  FALSE
    BY <2>4 DEF Replace
  <2>5. ASSUME NEW g \in File, PrepareSwap(g) \/ Recheck(g) \/ RemoveBackup(g) \/ Validate(g)
        PROVE  FALSE
    BY <2>5 DEF PrepareSwap, Recheck, RemoveBackup, Validate
  <2>6. CASE MakeBackupDir \/ SavePrepared \/ SyncPrepared \/ SaveCommitted
             \/ RemoveRecord \/ RemoveBackupDir \/ RemoveStaging
             \/ ReadRecord \/ SaveRolledBack \/ Recover \/ SwapFault \/ SwapCrash \/ Takeover
    BY <2>6 DEF MakeBackupDir, SavePrepared, SyncPrepared, SaveCommitted,
       RemoveRecord, RemoveBackupDir, RemoveStaging, ReadRecord, SaveRolledBack,
       Recover, SwapFault, SwapCrash, Takeover
  <2>7. CASE UNCHANGED swapVars
    BY <2>7 DEF swapVars
  <2>8. QED
    BY <2>1, <2>2, <2>3, <2>4, <2>5, <2>6, <2>7 DEF SwapNext, SwapStep
<1>2. QED
  BY <1>1, SwapInvariant, PTL DEF SwapSpec, EditsPreserved

(* swap.ts:114-118, 199-203: a decided record is only ever cleaned up.     *)
THEOREM DecisionHolds == SwapSpec => DecidedIsFinal
<1> DEFINE Final == rec # NoRecord /\ ~Prepared /\ ProgramStep => prof' = prof
<1>1. SwapInv /\ [SwapNext]_swapVars => [Final]_swapVars
  <2> SUFFICES ASSUME SwapInv, [SwapNext]_swapVars, rec # NoRecord, ~Prepared, ProgramStep
               PROVE  prof' = prof
    OBVIOUS
  <2>a. swapAt # "replace" /\ swapAt # "restore"
    BY DEF SwapInv, MemIsRecord, Recovering
  <2>1. QED
    BY <2>a DEF SwapNext, SwapStep, swapVars, Replace, Recover, MakeBackupDir, SavePrepared,
       SyncPrepared, SaveCommitted, RemoveRecord, RemoveBackupDir, RemoveStaging,
       ReadRecord, SaveRolledBack, PrepareSwap, Recheck, ReplaceFile, RemoveBackup,
       Validate, Restore, SwapFault, SwapCrash, Takeover, EditFile, ProgramStep
<1>2. QED
  BY <1>1, SwapInvariant, PTL DEF SwapSpec, DecidedIsFinal

-----------------------------------------------------------------------------
(* swap.ts:143-144: unless a file operation fails, a kill at any point     *)
(* leaves every prepared record with all its backups.                      *)
BackupsKept == swapAt # "abandon" /\ (Prepared => backup = rec.before)

THEOREM PreparedKeepsBackups ==
  ASSUME ~Faulty
  PROVE  SwapSpec => []PreparedHasBackups
<1>1. SwapInit => BackupsKept
  BY DEF SwapInit, BackupsKept, Prepared
<1>2. SwapInv /\ BackupsKept /\ [SwapNext]_swapVars => BackupsKept'
  <2> SUFFICES ASSUME SwapInv, BackupsKept, [SwapNext]_swapVars
               PROVE  BackupsKept'
    OBVIOUS
  <2> USE DEF BackupsKept, Prepared, Enter, SwapLeave, Visit
  <2>a. SwapTypeOK /\ MemIsRecord /\ BackedUp /\ Bookkeeping
    BY DEF SwapInv
  <2>b. \A s \in {"prepared", "committed", "rolled-back"} :
          [state |-> s, before |-> before, after |-> after] # NoRecord
    BY <2>a, RecordShape DEF SwapTypeOK
  <2>1. CASE SavePrepared
    <3>1. backup \in Files /\ before \in Files /\ \A f \in File : backup[f] = before[f]
      BY <2>1, <2>a DEF SavePrepared, BackedUp, SwapTypeOK
    <3>2. backup = before
      BY <3>1, SameContents
    <3>3. QED
      BY <2>1, <3>2 DEF SavePrepared
  <2>2. CASE SaveCommitted \/ SaveRolledBack
    BY <2>2, <2>b DEF SaveCommitted, SaveRolledBack
  <2>3. ASSUME NEW f \in File, PrepareSwap(f) \/ RemoveBackup(f)
        PROVE  BackupsKept'
    BY <2>3, <2>a DEF PrepareSwap, RemoveBackup, Bookkeeping, Preparing
  <2>4. CASE MakeBackupDir \/ RemoveBackupDir \/ RemoveRecord \/ RemoveStaging
    BY <2>4, <2>a DEF MakeBackupDir, RemoveBackupDir, RemoveRecord, RemoveStaging,
       Bookkeeping, Preparing
  <2>5. ASSUME NEW f \in File, Recheck(f) \/ ReplaceFile(f) \/ Validate(f) \/ Restore(f)
        PROVE  BackupsKept'
    BY <2>5 DEF Recheck, ReplaceFile, Validate, Restore
  <2>6. CASE SyncPrepared \/ ReadRecord \/ Recover \/ SwapFault \/ SwapCrash \/ Takeover
    BY <2>6 DEF SyncPrepared, ReadRecord, Recover, SwapFault, SwapCrash, Takeover
  <2>7. ASSUME NEW target \in Targets, Replace(target)
        PROVE  BackupsKept'
    BY <2>7 DEF Replace
  <2>8. ASSUME NEW f \in File, NEW c \in Content, EditFile(f, c)
        PROVE  BackupsKept'
    BY <2>8 DEF EditFile
  <2>9. CASE UNCHANGED swapVars
    BY <2>9 DEF swapVars
  <2>10. QED
    BY <2>1, <2>2, <2>3, <2>4, <2>5, <2>6, <2>7, <2>8, <2>9 DEF SwapNext, SwapStep
<1>3. BackupsKept => PreparedHasBackups
  BY DEF BackupsKept, PreparedHasBackups
<1>4. QED
  BY <1>1, <1>2, <1>3, SwapInvariant, PTL DEF SwapSpec

-----------------------------------------------------------------------------
(* swap.ts:150-203 with recoverFileSwap: whatever is killed or fails, the  *)
(* managed files nobody edits change all at once or not at all.            *)
THEOREM SwapIsAtomic ==
  ASSUME ~Editing
  PROVE  SwapSpec => ImplementsAtomicFiles
<1> DEFINE cont == IF Prepared THEN rec.before ELSE prof
           aim == IF Prepared THEN rec.after
                  ELSE IF swapAt \in Preparing THEN after ELSE NoGoal
<1>1. SwapInit => Whole!Init
  BY DEF SwapInit, Whole!Init, Prepared, Preparing, Files
<1>2. SwapInv /\ [SwapNext]_swapVars => [Whole!Next]_Whole!vars
  <2> SUFFICES ASSUME SwapInv, [SwapNext]_swapVars
               PROVE  Whole!Next \/ (cont' = cont /\ aim' = aim)
    BY DEF Whole!vars
  <2> USE DEF Enter, SwapLeave, Forget, Visit, Preparing
  <2>a. SwapTypeOK /\ MemIsRecord /\ BackedUp /\ Placed /\ Bookkeeping /\ fresh = {}
    BY DEF SwapInv, Bookkeeping
  <2>b. prof \in Files /\ before \in Files /\ after \in Files
        /\ (rec # NoRecord => rec \in SwapRecord)
    BY <2>a DEF SwapTypeOK
  <2>c. \A g \in Files : g # NoGoal
    BY NullsAssumption
  <2>d. \A s \in {"prepared", "committed", "rolled-back"} :
          [state |-> s, before |-> before, after |-> after] # NoRecord
    BY <2>b, RecordShape
  <2>e. Prepared => rec.before \in Files /\ rec.after \in Files
    BY <2>b DEF Prepared, SwapRecord
  <2>1. ASSUME NEW target \in Targets, Replace(target)
        PROVE  Whole!Request(target) /\ target \in Files
    <3>1. ~Prepared /\ ~Prepared' /\ swapAt = "idle" /\ swapAt' = "mkBackup" /\ after' = target /\ prof' = prof
      BY <2>1, <2>a DEF Replace, Bookkeeping, Prepared
    <3>2. QED
      BY <3>1, TargetsAssumption DEF Whole!Request
  <2>2. CASE SavePrepared
    <3>1. \A f \in File : prof[f] = before[f]
      BY <2>2, <2>a DEF SavePrepared, Placed
    <3>2. prof = before
      BY <2>b, <3>1, SameContents
    <3>3. ~Prepared /\ Prepared' /\ rec'.before = before /\ rec'.after = after
      BY <2>2, <2>a, <2>d DEF SavePrepared, Bookkeeping, Prepared
    <3>4. QED
      BY <2>2, <3>2, <3>3 DEF SavePrepared
  <2>3. CASE SaveCommitted
    <3>1. Prepared /\ rec.before = before /\ rec.after = after /\ \A f \in File : prof[f] = after[f]
      BY <2>3, <2>a DEF SaveCommitted, Placed, MemIsRecord
    <3>2. prof = after
      BY <2>b, <3>1, SameContents
    <3>3. ~Prepared' /\ prof' = prof /\ swapAt' = "clean"
      BY <2>3, <2>d DEF SaveCommitted, Prepared
    <3>4. Whole!Commit
      BY <2>b, <2>c, <3>1, <3>2, <3>3 DEF Whole!Commit
    <3>5. QED
      BY <3>4 DEF Whole!Next
  <2>4. CASE SaveRolledBack
    <3>1. Prepared /\ rec.before = before /\ rec.after = after /\ \A f \in File : prof[f] = before[f]
      BY <2>4, <2>a DEF SaveRolledBack, Placed, MemIsRecord, Recovering
    <3>2. prof = before
      BY <2>b, <3>1, SameContents
    <3>3. ~Prepared' /\ prof' = prof /\ swapAt' = "clean"
      BY <2>4, <2>d DEF SaveRolledBack, Prepared
    <3>4. Whole!GiveUp
      BY <2>b, <2>c, <3>1, <3>2, <3>3 DEF Whole!GiveUp
    <3>5. QED
      BY <3>4 DEF Whole!Next
  <2>5. CASE RemoveRecord
    <3>1. CASE Prepared
      <4>1. swapAt = "abandon" /\ \A f \in File : prof[f] = rec.before[f]
        BY <2>5, <2>a, <3>1 DEF RemoveRecord, Placed, Bookkeeping
      <4>2. prof = rec.before
        BY <2>b, <2>e, <3>1, <4>1, SameContents
      <4>3. ~Prepared' /\ prof' = prof /\ swapAt' = "abandon"
        BY <2>5, <4>1 DEF RemoveRecord, Prepared
      <4>4. Whole!GiveUp
        BY <2>c, <2>e, <3>1, <4>2, <4>3 DEF Whole!GiveUp
      <4>5. QED
        BY <4>4 DEF Whole!Next
    <3>2. CASE ~Prepared
      BY <2>5, <3>2 DEF RemoveRecord, Prepared
    <3>3. QED
      BY <3>1, <3>2
  <2>6. CASE SwapFault \/ SwapCrash
    <3>1. prof' = prof /\ rec' = rec /\ swapAt' \notin Preparing \cup {"recheck"} /\ Prepared' = Prepared
      BY <2>6 DEF SwapFault, SwapCrash, Prepared
    <3>2. CASE swapAt \in Preparing
      <4>1. ~Prepared
        BY <2>a, <3>2 DEF Bookkeeping, Prepared
      <4>2. Whole!GiveUp
        BY <2>b, <2>c, <3>1, <3>2, <4>1 DEF Whole!GiveUp
      <4>3. QED
        BY <4>2 DEF Whole!Next
    <3>3. CASE swapAt \notin Preparing
      BY <3>1, <3>3
    <3>4. QED
      BY <3>2, <3>3
  <2>7. ASSUME NEW f \in File, ReplaceFile(f) \/ Restore(f)
        PROVE  cont' = cont /\ aim' = aim
    <3>1. Prepared
      BY <2>7, <2>a DEF ReplaceFile, Restore, MemIsRecord, Recovering
    <3>2. rec' = rec
      BY <2>7 DEF ReplaceFile, Restore
    <3>3. QED
      BY <3>1, <3>2 DEF Prepared
  <2>8. ASSUME NEW f \in File, PrepareSwap(f) \/ Recheck(f) \/ Validate(f) \/ RemoveBackup(f)
        PROVE  cont' = cont /\ aim' = aim
    BY <2>8 DEF PrepareSwap, Recheck, Validate, RemoveBackup, Prepared
  <2>9. CASE MakeBackupDir \/ SyncPrepared \/ RemoveBackupDir \/ RemoveStaging
             \/ Recover \/ ReadRecord \/ Takeover
    BY <2>9 DEF MakeBackupDir, SyncPrepared, RemoveBackupDir, RemoveStaging, Recover,
       ReadRecord, Takeover, Prepared
  <2>10. ASSUME NEW f \in File, NEW c \in Content, EditFile(f, c)
         PROVE  FALSE
    BY <2>10 DEF EditFile
  <2>11. CASE UNCHANGED swapVars
    BY <2>11 DEF swapVars, Prepared
  <2>12. QED
    BY <2>1, <2>2, <2>3, <2>4, <2>5, <2>6, <2>7, <2>8, <2>9, <2>10, <2>11
    DEF SwapNext, SwapStep, Whole!Next, Files
<1>3. QED
  BY <1>1, <1>2, SwapInvariant, PTL DEF SwapSpec, ImplementsAtomicFiles, Whole!Spec

----------------------------------------------------------------------------
(***************************************************************************)
(* Proofs about Promotion: whatever is killed, fails, edits or runs next   *)
(* to it, the records of a profile agree with each other, and a decision   *)
(* on disk is final.                                                       *)
(*                                                                         *)
(* The invariant has two halves.  DiskInv is about what a kill leaves; it  *)
(* alone must be enough to go on from.  OpInv says what the process with   *)
(* the operation lock may rely on at each of its steps; it says nothing    *)
(* once that process is gone.                                              *)
(***************************************************************************)

(* What a transaction that is neither decided nor settled may have reached *)
Open == {"prepared", "swapping", "swapped", "installing", "verifying", "verified", "snapshotted"}

(* A record's outcome is that of its phase, and its snapshots exist.       *)
Consistent(r) ==
  /\ r.phase \in {"committing", "committed"} => r.outcome = "committed"
  /\ r.phase \in {"rolling-back", "rolled-back"} => r.outcome = "rolled-back"
  /\ r.pre <= Len(snap) /\ r.post <= Len(snap)

DiskTypes ==
  /\ files \in Version \cup {Mixed}
  /\ stage \in Staged \cup {None, Bare}
  /\ txn \in [Txn -> Record \cup {None, Bare}]
  /\ kept \in SUBSET Txn
  /\ snap \in Seq(Version \cup {Mixed})
  /\ head \in 0 .. Len(snap)
  /\ good \in 0 .. Len(snap)
  /\ journal \in SUBSET Entry
  /\ proved \in SUBSET Version

(* A decision to commit with a verified restart is about proved contents.  *)
GoodIsProved ==
  Edits = {} =>
    /\ KnownGoodWasProved
    /\ \A t \in Txn : IsRecord(t) /\ txn[t].phase = "committing" /\ txn[t].good
                        => txn[t].receiptAfter \in proved

DiskInv ==
  /\ DiskTypes
  /\ NoMixedSnapshot
  /\ MixtureIsPending
  /\ \A t \in Txn : IsRecord(t) => Consistent(txn[t])
  /\ JournalAgrees
  /\ OriginalsKept
  /\ GoodIsProved

OpTypes ==
  /\ child \in {"none", "installer", "runtime"}
  /\ writer \in {"free", "op", "user", "stale"}
  /\ vault \in {"free", "op", "user", "stale"}
  /\ pc \in Labels
  /\ kind \in {"none", "promote", "reconcile", "recover"}
  /\ cur \in Txn \cup {None}
  /\ mem \in Record \cup {None}
  /\ taking \in [{"op", "user"} -> {"off", "locked", "written"}]
  /\ failures \in 0 .. MaxFailures

(* Which operation may be where, and what it holds in memory.              *)
Control ==
  /\ pc = "idle" <=> kind = "none"
  /\ kind \in {"none", "recover"} => cur = None /\ mem = None
  /\ kind = "recover" => pc \in {"rbSwaps", "rbClean"}
  /\ kind \in {"promote", "reconcile"} => cur \in Txn
  /\ kind = "promote" => (mem = None <=> pc = "preSnapshot")
  /\ kind = "reconcile" => mem # None /\ pc \in (RollingBack \ {"report"}) \cup Swapping \cup Settling
  /\ taking["op"] # "off" => pc \in {"preSnapshot", "postSnapshot"}

(* The phase in memory at each step.                                       *)
PhaseFits ==
  mem # None =>
    /\ pc \in {"swapLock", "prepareDir", "prepare", "swapping"} => mem.phase = "prepared"
    /\ pc \in Swapping => \/ mem.phase = "rolling-back"
                          \/ kind = "promote" /\ mem.phase = "swapping"
    /\ pc = "swapped" => mem.phase = "swapping"
    /\ pc \in {"restart", "installing"} => mem.phase = "swapped"
    /\ pc \in {"install", "verifying"} => mem.phase = "installing"
    /\ pc \in {"launch", "probe"} => mem.phase = "verifying"
    /\ pc = "verified" => mem.phase \in {"swapped", "verifying"}
    /\ pc \in {"postSnapshot", "analyze", "snapshotted"} => mem.phase = "verified"
    /\ pc = "committing" => mem.phase = "snapshotted"
    /\ pc \in {"snapshotted", "committing"} => mem.outcome = "committed"
    /\ pc \in {"rbLock", "rbSwaps", "rbClean", "rbCheck"} => mem.phase \in Open \cup {"rolling-back"}
    /\ pc \in {"undone", "report"} => mem.phase = "rolling-back"
    /\ pc = "settle" => mem.phase \in {"committing", "rolling-back"} \cup Settled
    /\ pc \in {"state", "entry", "phase"} => mem.phase \in {"committing", "rolling-back"}
    /\ pc = "purge" => mem.phase \in Settled

(* What is saved of the transaction in memory; a promotion's is the only   *)
(* one that is not settled.                                                *)
Held ==
  /\ mem # None => Consistent(mem)
  /\ kind = "promote" => \A t \in Txn \ {cur} : txn[t] # Bare /\ ~Unsettled(t)
  /\ pc \in {"preSnapshot", "swapLock", "prepareDir"} => txn[cur] = None
  /\ pc = "prepare" => txn[cur] = Bare
  /\ kind \in {"promote", "reconcile"}
       /\ pc \notin {"preSnapshot", "swapLock", "prepareDir", "prepare"} =>
         IsRecord(cur) /\ txn[cur].phase = mem.phase
  /\ pc = "phase" => EntryOf(cur, mem) \in journal

(* Nothing is staged except within a swap and its recovery.                *)
Clear == {"preSnapshot", "swapLock", "prepareDir", "prepare", "swapping", "swapped", "restart",
          "installing", "install", "verifying", "launch", "probe", "verified", "postSnapshot",
          "analyze", "snapshotted", "committing", "mkStaging", "rbCheck", "undone", "report"}

SwapHeld ==
  /\ pc \in Clear => stage = None
  /\ pc = "recordSwap" => stage = Bare
  /\ pc \in {"replace", "replaceRest", "commitSwap"} => stage \notin {None, Bare} /\ ~stage.decided
  /\ pc \in {"replace", "commitSwap"} => files # Mixed
  /\ pc \in {"cleanSwap", "rbClean"} => stage = Bare \/ (stage # None /\ stage.decided)
  /\ kind = "recover" => stage # None

(* From its verification to its decision a promotion that was proved good  *)
(* has files nobody writes.                                                *)
GoodHeld ==
  Edits = {} /\ mem # None /\ mem.good =>
    /\ kind = "promote" => mem.phase \notin {"prepared", "swapping", "swapped", "installing"}
    /\ pc \notin {"launch", "probe"}
    /\ pc \in {"verified", "postSnapshot", "analyze"} => files \in proved /\ child = "none"
    /\ pc \in {"snapshotted", "committing"} \/ mem.phase = "committing" => mem.receiptAfter \in proved

OpInv == OpTypes /\ Control /\ PhaseFits /\ Held /\ SwapHeld /\ GoodHeld

IInv == DiskInv /\ OpInv

-----------------------------------------------------------------------------
(* Steps as seen from the disk. *)

LEMMA Constants ==
  ASSUME Assumptions
  PROVE  /\ First \in Version /\ Mixed \notin Version /\ None # Bare
         /\ \A t \in Txn : Source[t] \in Version /\ Candidate[t] \in Version
         /\ \A r \in Record : r # None /\ r # Bare
         /\ \A r \in Staged : r # None /\ r # Bare
BY DEF Assumptions, VersionAssumption, NullAssumption

LEMMA DiskStays ==
  ASSUME DiskInv, UNCHANGED disk, proved' = proved
  PROVE  DiskInv'
<1> USE DEF disk
<1>1. DiskTypes' /\ NoMixedSnapshot' /\ MixtureIsPending'
  BY DEF DiskInv, DiskTypes, NoMixedSnapshot, MixtureIsPending
<1>2. \A t \in Txn : IsRecord(t)' => Consistent(txn[t])'
  BY DEF DiskInv, IsRecord, Consistent
<1>3. JournalAgrees'
  BY DEF DiskInv, JournalAgrees, PhaseOf, IsRecord
<1>4. OriginalsKept'
  BY DEF DiskInv, OriginalsKept, Unsettled, IsRecord
<1>5. GoodIsProved'
  BY DEF DiskInv, GoodIsProved, KnownGoodWasProved, IsRecord
<1> QED
  BY <1>1, <1>2, <1>3, <1>4, <1>5 DEF DiskInv

(* Only the files or the staging directory change. *)
LEMMA SwapOnDisk ==
  ASSUME DiskInv, files' \in Version \cup {Mixed}, stage' \in Staged \cup {None, Bare},
         MixtureIsPending', UNCHANGED <<txn, kept, snap, head, good, journal, proved>>
  PROVE  DiskInv'
<1>1. DiskTypes' /\ NoMixedSnapshot'
  BY DEF DiskInv, DiskTypes, NoMixedSnapshot
<1>2. \A t \in Txn : IsRecord(t)' => Consistent(txn[t])'
  BY DEF DiskInv, IsRecord, Consistent
<1>3. JournalAgrees'
  BY DEF DiskInv, JournalAgrees, PhaseOf, IsRecord
<1>4. OriginalsKept'
  BY DEF DiskInv, OriginalsKept, Unsettled, IsRecord
<1>5. GoodIsProved'
  BY DEF DiskInv, GoodIsProved, KnownGoodWasProved, IsRecord
<1> QED
  BY <1>1, <1>2, <1>3, <1>4, <1>5 DEF DiskInv

(* A transaction that is neither decided nor settled is saved again, or    *)
(* one that is rolling back, as such.                                      *)
LEMMA SaveOnDisk ==
  ASSUME Assumptions, DiskInv, NEW u \in Txn, IsRecord(u),
         NEW r \in Record, Consistent(r), r.phase \notin Settled,
         txn[u].phase \in Open \/ (txn[u].phase = "rolling-back" /\ r.phase = "rolling-back"),
         Edits = {} /\ r.phase = "committing" /\ r.good => r.receiptAfter \in proved,
         txn' = [txn EXCEPT ![u] = r],
         UNCHANGED <<files, stage, kept, snap, head, good, journal, proved>>
  PROVE  DiskInv'
<1>1. /\ txn \in [Txn -> Record \cup {None, Bare}]
      /\ txn'[u] = r /\ \A t \in Txn \ {u} : txn'[t] = txn[t]
      /\ r # None /\ r # Bare
  BY Constants DEF DiskInv, DiskTypes
<1>2. DiskTypes' /\ NoMixedSnapshot' /\ MixtureIsPending'
  BY <1>1 DEF DiskInv, DiskTypes, NoMixedSnapshot, MixtureIsPending
<1>3. \A t \in Txn : IsRecord(t)' => Consistent(txn[t])'
  BY <1>1 DEF DiskInv, IsRecord, Consistent
<1>4. JournalAgrees'
  <2>1. PhaseOf(u) = txn[u].phase /\ PhaseOf(u)' = r.phase
    BY <1>1 DEF PhaseOf, IsRecord
  <2>2. \A t \in Txn \ {u} : PhaseOf(t)' = PhaseOf(t)
    BY <1>1 DEF PhaseOf, IsRecord
  <2>3. \A i \in journal : i.id \in Txn
    BY DEF DiskInv, DiskTypes, Entry
  <2>4. ASSUME NEW i \in journal
        PROVE  /\ PhaseOf(i.id)' \in {"committing", "committed", "rolling-back", "rolled-back"}
               /\ i.outcome = txn'[i.id].outcome
    <3>1. /\ PhaseOf(i.id) \in {"committing", "committed", "rolling-back", "rolled-back"}
          /\ i.outcome = txn[i.id].outcome
      BY <2>4 DEF DiskInv, JournalAgrees
    <3>2. CASE i.id = u
      <4>1. r.phase = "rolling-back" /\ r.outcome = "rolled-back"
        BY <2>1, <3>1, <3>2 DEF Open, Consistent
      <4>2. txn[u].outcome = "rolled-back"
        BY <2>1, <3>1, <3>2 DEF DiskInv, Open, Consistent
      <4> QED
        BY <1>1, <2>1, <3>1, <3>2, <4>1, <4>2
    <3>3. CASE i.id # u
      BY <1>1, <2>2, <2>3, <3>1, <3>3
    <3> QED
      BY <3>2, <3>3
  <2>5. ASSUME NEW t \in Txn, PhaseOf(t)' \in Settled
        PROVE  \E i \in journal : i.id = t /\ i.outcome = txn'[t].phase
    <3>1. t # u
      BY <2>1, <2>5
    <3> QED
      BY <1>1, <2>2, <2>5, <3>1 DEF DiskInv, JournalAgrees
  <2>6. \A i, j \in journal : i.id = j.id => i = j
    BY DEF DiskInv, JournalAgrees
  <2> QED
    BY <2>4, <2>5, <2>6 DEF JournalAgrees
<1>5. OriginalsKept'
  <2>1. Unsettled(u)
    BY DEF Unsettled, Open, Settled
  <2>2. \A t \in Txn : Unsettled(t)' => Unsettled(t)
    BY <1>1, <2>1 DEF Unsettled, IsRecord
  <2> QED
    BY <2>2 DEF DiskInv, OriginalsKept
<1>6. GoodIsProved'
  <2>1. KnownGoodWasProved <=> KnownGoodWasProved'
    BY DEF KnownGoodWasProved
  <2> QED
    BY <1>1, <2>1 DEF DiskInv, GoodIsProved, IsRecord
<1> QED
  BY <1>2, <1>3, <1>4, <1>5, <1>6 DEF DiskInv

-----------------------------------------------------------------------------
(* Steps as seen from the process with the operation lock. *)

(* A process that is gone relies on nothing. *)
LEMMA GoneOp ==
  ASSUME pc' = "idle", kind' = "none", cur' = None, mem' = None, taking'["op"] = "off", OpTypes'
  PROVE  OpInv'
BY DEF OpInv, Control, PhaseFits, Held, SwapHeld, GoodHeld, Clear, Swapping, RollingBack, Settling

LEMMA LeaveOp ==
  ASSUME OpInv, Leave, child' = child \/ child' = "none", failures' \in 0 .. MaxFailures
  PROVE  OpInv'
<1>1. taking'["op"] = "off" /\ OpTypes'
  BY DEF OpInv, OpTypes, Leave, Freed, Labels
<1> QED
  BY <1>1, GoneOp DEF Leave

(* A promotion that fails before its decision turns to its rollback. *)
LEMMA ThrowOp ==
  ASSUME OpInv, Throw, child' = child \/ child' = "none", failures' \in 0 .. MaxFailures,
         UNCHANGED <<snap, proved>>, pc # "prepare" => txn' = txn
  PROVE  OpInv'
<1>1. CASE Leave
  BY <1>1, LeaveOp
<1>2. CASE ~Leave
  <2>1. /\ kind = "promote" /\ mem.phase # "rolling-back" /\ pc' = "rbLock"
        /\ pc \notin {"preSnapshot", "swapLock", "prepareDir", "prepare", "committing"}
                        \cup RollingBack \cup Settling
        /\ writer' = Freed(writer, "op") /\ vault' = Freed(vault, "op")
        /\ taking' = [taking EXCEPT !["op"] = "off"]
        /\ UNCHANGED <<kind, cur, mem>>
    BY <1>2 DEF Throw
  <2>2. pc # "idle" /\ txn' = txn /\ cur \in Txn /\ mem # None
    BY <2>1 DEF OpInv, Control
  <2>3. mem.phase \in Open
    BY <2>1, <2>2 DEF OpInv, OpTypes, PhaseFits, Open, Labels, Swapping, RollingBack, Settling
  <2>4. OpTypes'
    BY <2>1 DEF OpInv, OpTypes, Freed, Labels, RollingBack
  <2>5. Control'
    BY <2>1, <2>2 DEF OpInv, OpTypes, Control, RollingBack
  <2>6. PhaseFits'
    BY <2>1, <2>3 DEF PhaseFits, Swapping
  <2>7. Held'
    BY <2>1, <2>2 DEF OpInv, Held, Consistent, IsRecord, Unsettled
  <2>8. SwapHeld' /\ GoodHeld'
    BY <2>1, <2>2, <2>3 DEF OpInv, SwapHeld, GoodHeld, Clear, Open
  <2> QED
    BY <2>4, <2>5, <2>6, <2>7, <2>8 DEF OpInv
<1> QED
  BY <1>1, <1>2

-----------------------------------------------------------------------------
(* The steps of a promotion that save the record of its transaction. *)

Early == {"preSnapshot", "swapLock", "prepareDir", "prepare"}

(* Where there is a record, memory and disk are records of one phase.      *)
LEMMA Saved ==
  ASSUME Assumptions, IInv, kind \in {"promote", "reconcile"}, pc \notin Early
  PROVE  /\ cur \in Txn /\ IsRecord(cur) /\ txn[cur] \in Record /\ mem \in Record
         /\ mem # None /\ Consistent(mem) /\ Consistent(txn[cur]) /\ txn[cur].phase = mem.phase
<1>1. cur \in Txn /\ mem # None /\ mem \in Record
  BY DEF IInv, OpInv, OpTypes, Control, Early
<1>2. IsRecord(cur) /\ txn[cur].phase = mem.phase /\ Consistent(mem)
  BY <1>1 DEF IInv, OpInv, Held, Early
<1>3. txn[cur] \in Record /\ Consistent(txn[cur])
  BY <1>1, <1>2 DEF IInv, DiskInv, DiskTypes, IsRecord
<1> QED
  BY <1>1, <1>2, <1>3

LEMMA SaveHeld ==
  ASSUME Assumptions, IInv, kind \in {"promote", "reconcile"}, pc \notin Early,
         NEW r \in Record, NEW saved \in Record, r.phase = saved.phase, Consistent(r),
         mem' = r, txn' = [txn EXCEPT ![cur] = saved], UNCHANGED <<kind, cur, snap>>,
         pc' \notin Early \cup {"phase"}
  PROVE  Held'
<1>1. /\ cur \in Txn /\ txn'[cur] = saved /\ \A t \in Txn \ {cur} : txn'[t] = txn[t]
      /\ r # None /\ saved # None /\ saved # Bare
  BY Saved, Constants DEF IInv, DiskInv, DiskTypes
<1>2. Consistent(mem)' /\ IsRecord(cur)'
  BY <1>1 DEF Consistent, IsRecord
<1>3. kind = "promote" => \A t \in Txn \ {cur} : txn'[t] # Bare /\ ~Unsettled(t)'
  BY <1>1 DEF IInv, OpInv, Held, Unsettled, IsRecord
<1> QED
  BY <1>1, <1>2, <1>3 DEF Held, Early

LEMMA CheckpointStep ==
  ASSUME Assumptions, IInv, NEW at, NEW phase, NEW next, Checkpoint(at, phase, next),
         <<at, phase, next>> \in {<<"swapping", "swapping", "mkStaging">>,
                                  <<"installing", "installing", "install">>,
                                  <<"verifying", "verifying", "launch">>,
                                  <<"snapshotted", "snapshotted", "committing">>,
                                  <<"committing", "committing", "settle">>}
  PROVE  IInv'
<1> DEFINE r == [mem EXCEPT !.phase = phase]
<1>1. /\ pc = at /\ pc' = next /\ mem' = r /\ txn' = [txn EXCEPT ![cur] = r]
      /\ UNCHANGED <<kind, cur, files, stage, kept, snap, head, good, journal, child, locks, taking, hist>>
  BY DEF Checkpoint, Save
<1>2. /\ pc \in {"swapping", "installing", "verifying", "snapshotted", "committing"}
      /\ phase \in Phases /\ pc \notin Early
      /\ phase \notin {"committed", "rolling-back", "rolled-back"}
  BY <1>1 DEF Phases, Early
<1>3. kind = "promote"
  BY <1>2 DEF IInv, OpInv, OpTypes, Control, RollingBack, Swapping, Settling
<1>4. cur \in Txn /\ IsRecord(cur) /\ mem \in Record /\ mem # None /\ Consistent(mem) /\ txn[cur].phase = mem.phase
  BY <1>2, <1>3, Saved
<1>5. r \in Record /\ r.phase = phase /\ r.outcome = mem.outcome /\ r.good = mem.good
      /\ r.receiptAfter = mem.receiptAfter /\ r.pre = mem.pre /\ r.post = mem.post
  BY <1>2, <1>4 DEF Record
<1>6. mem.phase \in Open /\ (phase = "committing" => mem.outcome = "committed")
  BY <1>1, <1>2, <1>4 DEF IInv, OpInv, PhaseFits, Open
<1>7. Consistent(r)
  BY <1>2, <1>4, <1>5, <1>6 DEF Consistent
<1>8. Edits = {} /\ mem.good /\ pc \in {"snapshotted", "committing"} => mem.receiptAfter \in proved
  BY <1>4 DEF IInv, OpInv, GoodHeld
<1> HIDE DEF r
<1>9. r # None
  BY <1>5, Constants
<1>10. DiskInv'
  BY <1>1, <1>2, <1>4, <1>5, <1>6, <1>7, <1>8, SaveOnDisk DEF IInv, hist, Settled
<1>11. Held'
  BY <1>1, <1>2, <1>3, <1>5, <1>7, SaveHeld DEF Early
<1>12. OpTypes' /\ Control'
  BY <1>1, <1>3, <1>5, <1>9 DEF IInv, OpInv, OpTypes, Control, Labels, Swapping, RollingBack, Settling, locks, hist
<1>13. PhaseFits'
  BY <1>1, <1>3, <1>5, <1>6, <1>4 DEF IInv, OpInv, PhaseFits, Swapping
<1>14. SwapHeld'
  BY <1>1, <1>3 DEF IInv, OpInv, SwapHeld, Clear
<1>15. GoodHeld'
  BY <1>1, <1>2, <1>3, <1>4, <1>5, <1>6, <1>8 DEF IInv, OpInv, PhaseFits, GoodHeld, hist
<1> QED
  BY <1>10, <1>11, <1>12, <1>13, <1>14, <1>15 DEF IInv, OpInv

LEMMA SwappedStep ==
  ASSUME Assumptions, IInv, Swapped
  PROVE  IInv'
<1> DEFINE r == [mem EXCEPT !.phase = "swapped"]
<1>1. /\ pc = "swapped" /\ pc' = "restart" /\ mem' = r /\ txn' = [txn EXCEPT ![cur] = r]
      /\ writer' = Freed(writer, "op")
      /\ UNCHANGED <<kind, cur, files, stage, kept, snap, head, good, journal, child, vault, taking, hist>>
  BY DEF Swapped, Save
<1>2. kind = "promote" /\ pc \notin Early
  BY <1>1 DEF IInv, OpInv, OpTypes, Control, RollingBack, Swapping, Settling, Early
<1>3. /\ cur \in Txn /\ IsRecord(cur) /\ mem \in Record /\ mem # None /\ Consistent(mem)
      /\ txn[cur].phase = mem.phase /\ mem.phase \in Open
  BY <1>1, <1>2, Saved DEF IInv, OpInv, PhaseFits, Open
<1>4. r \in Record /\ r.phase = "swapped" /\ r.pre = mem.pre /\ r.post = mem.post /\ r.good = mem.good
  BY <1>3 DEF Record, Phases
<1>5. Consistent(r)
  BY <1>3, <1>4 DEF Consistent
<1> HIDE DEF r
<1>6. r # None
  BY <1>4, Constants
<1>7. DiskInv'
  BY <1>1, <1>3, <1>4, <1>5, SaveOnDisk DEF IInv, hist, Settled
<1>8. Held'
  BY <1>1, <1>2, <1>4, <1>5, SaveHeld DEF Early
<1>9. OpTypes' /\ Control'
  BY <1>1, <1>2, <1>4, <1>6
     DEF IInv, OpInv, OpTypes, Control, Labels, Swapping, RollingBack, Settling, Freed, hist
<1>10. PhaseFits' /\ SwapHeld' /\ GoodHeld'
  BY <1>1, <1>2, <1>3, <1>4 DEF IInv, OpInv, PhaseFits, SwapHeld, GoodHeld, Clear, Swapping
<1> QED
  BY <1>7, <1>8, <1>9, <1>10 DEF IInv, OpInv

(* The mark waits in memory: the record on disk does not carry it yet.     *)
LEMMA VerifiedStep ==
  ASSUME Assumptions, IInv, Verified
  PROVE  IInv'
<1> DEFINE r == [mem EXCEPT !.phase = "verified"]
           saved == [r EXCEPT !.good = FALSE]
<1>1. /\ pc = "verified" /\ pc' = "postSnapshot" /\ mem' = r /\ txn' = [txn EXCEPT ![cur] = saved]
      /\ UNCHANGED <<kind, cur, files, stage, kept, snap, head, good, journal, child, locks, taking, hist>>
  BY DEF Verified
<1>2. kind = "promote" /\ pc \notin Early
  BY <1>1 DEF IInv, OpInv, OpTypes, Control, RollingBack, Swapping, Settling, Early
<1>3. /\ cur \in Txn /\ IsRecord(cur) /\ mem \in Record /\ mem # None /\ Consistent(mem)
      /\ txn[cur].phase = mem.phase /\ mem.phase \in Open
  BY <1>1, <1>2, Saved DEF IInv, OpInv, PhaseFits, Open
<1>4. r \in Record /\ r.phase = "verified" /\ r.pre = mem.pre /\ r.post = mem.post /\ r.good = mem.good
  BY <1>3 DEF Record, Phases
<1>5. saved \in Record /\ saved.phase = "verified" /\ saved.pre = mem.pre /\ saved.post = mem.post
  BY <1>4 DEF Record
<1>6. Consistent(r) /\ Consistent(saved)
  BY <1>3, <1>4, <1>5 DEF Consistent
<1> HIDE DEF r, saved
<1>7. r # None
  BY <1>4, Constants
<1>8. DiskInv'
  BY <1>1, <1>3, <1>5, <1>6, SaveOnDisk DEF IInv, hist, Settled
<1>9. Held'
  BY <1>1, <1>2, <1>4, <1>5, <1>6, SaveHeld DEF Early
<1>10. OpTypes' /\ Control'
  BY <1>1, <1>2, <1>4, <1>7
     DEF IInv, OpInv, OpTypes, Control, Labels, Swapping, RollingBack, Settling, locks, hist
<1>11. PhaseFits' /\ SwapHeld'
  BY <1>1, <1>2, <1>4 DEF IInv, OpInv, PhaseFits, SwapHeld, Clear, Swapping
<1>12. GoodHeld'
  BY <1>1, <1>3, <1>4 DEF IInv, OpInv, GoodHeld, hist
<1> QED
  BY <1>8, <1>9, <1>10, <1>11, <1>12 DEF IInv, OpInv

(* The first record of a transaction, and its backups. *)
LEMMA PrepareDirStep ==
  ASSUME Assumptions, IInv, PrepareDir
  PROVE  IInv'
<1>1. /\ pc = "prepareDir" /\ pc' = "prepare" /\ txn' = [txn EXCEPT ![cur] = Bare]
      /\ UNCHANGED <<kind, cur, mem, files, stage, kept, snap, head, good, journal, child, locks, taking, hist>>
  BY DEF PrepareDir, Goto
<1>2. kind = "promote" /\ cur \in Txn /\ mem # None /\ txn[cur] = None
  BY <1>1 DEF IInv, OpInv, OpTypes, Control, Held, RollingBack, Swapping, Settling
<1>3. /\ txn'[cur] = Bare /\ \A t \in Txn \ {cur} : txn'[t] = txn[t]
      /\ txn' \in [Txn -> Record \cup {None, Bare}]
  BY <1>1, <1>2 DEF IInv, DiskInv, DiskTypes
<1>4. \A t \in Txn : (IsRecord(t)' <=> IsRecord(t)) /\ PhaseOf(t)' = PhaseOf(t)
                     /\ (IsRecord(t) => txn'[t] = txn[t])
  BY <1>2, <1>3 DEF IsRecord, PhaseOf
<1>5. DiskInv'
  <2>1. DiskTypes' /\ NoMixedSnapshot' /\ MixtureIsPending'
    BY <1>1, <1>3 DEF IInv, DiskInv, DiskTypes, NoMixedSnapshot, MixtureIsPending, hist
  <2>2. \A t \in Txn : IsRecord(t)' => Consistent(txn[t])'
    BY <1>1, <1>4 DEF IInv, DiskInv, Consistent
  <2>3. JournalAgrees'
    <3>1. \A i \in journal : i.id \in Txn /\ IsRecord(i.id)
      BY DEF IInv, DiskInv, DiskTypes, Entry, JournalAgrees, PhaseOf
    <3>2. \A t \in Txn : PhaseOf(t) \in Settled => IsRecord(t)
      BY DEF PhaseOf, Settled
    <3> QED
      BY <1>1, <1>4, <3>1, <3>2 DEF IInv, DiskInv, JournalAgrees
  <2>4. OriginalsKept' /\ GoodIsProved'
    BY <1>1, <1>4 DEF IInv, DiskInv, OriginalsKept, Unsettled, GoodIsProved, KnownGoodWasProved, hist
  <2> QED
    BY <2>1, <2>2, <2>3, <2>4 DEF DiskInv
<1>6. Held'
  BY <1>1, <1>2, <1>3 DEF IInv, OpInv, Held, Consistent, Unsettled, IsRecord
<1>7. OpTypes' /\ Control'
  BY <1>1, <1>2 DEF IInv, OpInv, OpTypes, Control, Labels, locks, hist
<1>8. PhaseFits' /\ SwapHeld' /\ GoodHeld'
  BY <1>1, <1>2 DEF IInv, OpInv, PhaseFits, SwapHeld, GoodHeld, Clear, Swapping
<1> QED
  BY <1>5, <1>6, <1>7, <1>8 DEF IInv, OpInv

LEMMA PrepareStep ==
  ASSUME Assumptions, IInv, Prepare
  PROVE  IInv'
<1> DEFINE r == [mem EXCEPT !.before = files]
<1>1. /\ pc = "prepare" /\ pc' = "swapping" /\ mem' = r /\ txn' = [txn EXCEPT ![cur] = r]
      /\ kept' = kept \cup {cur}
      /\ UNCHANGED <<kind, cur, files, stage, snap, head, good, journal, child, locks, taking, hist>>
  BY DEF Prepare, Save
<1>2. /\ kind = "promote" /\ cur \in Txn /\ mem \in Record /\ mem # None /\ txn[cur] = Bare
      /\ Consistent(mem) /\ mem.phase = "prepared" /\ stage = None
      /\ \A t \in Txn \ {cur} : txn[t] # Bare /\ ~Unsettled(t)
  BY <1>1 DEF IInv, OpInv, OpTypes, Control, Held, PhaseFits, SwapHeld, Clear, RollingBack, Swapping, Settling
<1>3. files \in Version
  BY <1>2 DEF IInv, DiskInv, DiskTypes, MixtureIsPending
<1>4. /\ r \in Record /\ r.phase = "prepared" /\ r.pre = mem.pre /\ r.post = mem.post
      /\ r.good = mem.good /\ r # None /\ r # Bare
  <2>1. r \in Record
    BY <1>2, <1>3 DEF Record
  <2>2. r.phase = "prepared" /\ r.pre = mem.pre /\ r.post = mem.post /\ r.good = mem.good
    BY <1>2, <1>3 DEF Record
  <2> HIDE DEF r
  <2> QED
    BY <2>1, <2>2, Constants
<1>5. Consistent(r)
  BY <1>2, <1>4 DEF Consistent
<1> HIDE DEF r
<1>6. /\ txn'[cur] = r /\ \A t \in Txn \ {cur} : txn'[t] = txn[t]
      /\ txn' \in [Txn -> Record \cup {None, Bare}]
  BY <1>1, <1>2, <1>4 DEF IInv, DiskInv, DiskTypes
<1>7. /\ \A t \in Txn \ {cur} : (IsRecord(t)' <=> IsRecord(t)) /\ PhaseOf(t)' = PhaseOf(t)
      /\ PhaseOf(cur)' = "prepared" /\ PhaseOf(cur) = "none"
  BY <1>1, <1>2, <1>4, <1>6 DEF IsRecord, PhaseOf
<1>8. DiskInv'
  <2>1. DiskTypes' /\ NoMixedSnapshot' /\ MixtureIsPending'
    BY <1>1, <1>2, <1>6 DEF IInv, DiskInv, DiskTypes, NoMixedSnapshot, MixtureIsPending, hist
  <2>2. \A t \in Txn : IsRecord(t)' => Consistent(txn[t])'
    BY <1>1, <1>5, <1>6, <1>7 DEF IInv, DiskInv, Consistent
  <2>3. JournalAgrees'
    <3>1. \A i \in journal : i.id \in Txn \ {cur}
      BY <1>7 DEF IInv, DiskInv, DiskTypes, Entry, JournalAgrees
    <3>2. ASSUME NEW t \in Txn, PhaseOf(t)' \in Settled
          PROVE  \E i \in journal : i.id = t /\ i.outcome = txn'[t].phase
      <4>1. t # cur
        BY <1>1, <1>7, <3>2 DEF Settled
      <4> QED
        BY <1>6, <1>7, <3>2, <4>1 DEF IInv, DiskInv, JournalAgrees
    <3> QED
      BY <1>1, <1>6, <1>7, <3>1, <3>2 DEF IInv, DiskInv, JournalAgrees
  <2>4. OriginalsKept'
    <3>1. \A t \in Txn : Unsettled(t)' => t = cur
      BY <1>2, <1>6, <1>7 DEF Unsettled, IsRecord
    <3> QED
      BY <1>1, <1>2, <3>1 DEF OriginalsKept
  <2>5. GoodIsProved'
    BY <1>1, <1>4, <1>6, <1>7 DEF IInv, DiskInv, GoodIsProved, KnownGoodWasProved, IsRecord, hist
  <2> QED
    BY <2>1, <2>2, <2>3, <2>4, <2>5 DEF DiskInv
<1>9. Held'
  BY <1>1, <1>2, <1>4, <1>5, <1>6 DEF Held, Consistent, Unsettled, IsRecord
<1>10. OpTypes' /\ Control'
  BY <1>1, <1>2, <1>4 DEF IInv, OpInv, OpTypes, Control, Labels, locks, hist
<1>11. PhaseFits' /\ SwapHeld' /\ GoodHeld'
  BY <1>1, <1>2, <1>4 DEF IInv, OpInv, PhaseFits, SwapHeld, GoodHeld, Clear, Swapping
<1> QED
  BY <1>8, <1>9, <1>10, <1>11 DEF IInv, OpInv

-----------------------------------------------------------------------------
(* The steps of a promotion that save nothing. *)

LEMMA PromoteStep ==
  ASSUME Assumptions, IInv, NEW t \in Txn, Promote(t)
  PROVE  IInv'
<1>1. /\ pc = "idle" /\ NothingPending /\ txn[t] = None
      /\ pc' = "preSnapshot" /\ kind' = "promote" /\ cur' = t
      /\ UNCHANGED <<disk, child, locks, mem, taking, hist>>
  BY DEF Promote
<1>2. kind = "none" /\ mem = None /\ taking["op"] = "off"
  BY <1>1 DEF IInv, OpInv, OpTypes, Control
<1>3. DiskInv'
  BY <1>1, DiskStays DEF IInv, hist
<1>4. OpTypes' /\ Control'
  BY <1>1, <1>2 DEF IInv, OpInv, OpTypes, Control, Labels, locks, hist
<1>5. Held'
  BY <1>1, <1>2 DEF Held, disk, NothingPending, Unsettled, IsRecord
<1>6. PhaseFits' /\ SwapHeld' /\ GoodHeld'
  BY <1>1, <1>2 DEF PhaseFits, SwapHeld, GoodHeld, Clear, NothingPending, disk
<1> QED
  BY <1>3, <1>4, <1>5, <1>6 DEF IInv, OpInv

LEMMA SwapLockStep ==
  ASSUME Assumptions, IInv, SwapLock
  PROVE  IInv'
<1>1. pc = "swapLock" /\ UNCHANGED <<disk, child, hist>>
  BY DEF SwapLock
<1>2. DiskInv'
  BY <1>1, DiskStays DEF IInv, hist
<1>3. CASE Leave
  <2>1. failures' \in 0 .. MaxFailures
    BY <1>1 DEF IInv, OpInv, OpTypes, hist
  <2> QED
    BY <1>1, <1>2, <1>3, <2>1, LeaveOp DEF IInv
<1>4. CASE writer' = "op" /\ Goto("prepareDir") /\ UNCHANGED <<vault, taking>>
  <2>1. kind = "promote"
    BY <1>1 DEF IInv, OpInv, OpTypes, Control, RollingBack, Swapping, Settling
  <2>2. OpTypes' /\ Control'
    BY <1>1, <1>4, <2>1 DEF IInv, OpInv, OpTypes, Control, Labels, hist, Goto
  <2>3. Held'
    BY <1>1, <1>4, <2>1 DEF IInv, OpInv, Held, Goto, disk, Consistent, Unsettled, IsRecord
  <2>4. PhaseFits' /\ SwapHeld' /\ GoodHeld'
    BY <1>1, <1>4, <2>1 DEF IInv, OpInv, PhaseFits, SwapHeld, GoodHeld, Clear, Swapping, Goto, disk
  <2> QED
    BY <1>2, <2>2, <2>3, <2>4 DEF IInv, OpInv
<1> QED
  BY <1>1, <1>3, <1>4 DEF SwapLock

(* The restart of the profile: what the process started may outlive it.    *)
LEMMA RestartStep ==
  ASSUME Assumptions, IInv, ChooseRestart \/ RunInstaller \/ InstallerEnds \/ Launch
  PROVE  IInv'
<1>1. /\ pc \in {"restart", "install", "launch"} /\ pc \notin Early
      /\ child' \in {"none", "installer", "runtime"} /\ UNCHANGED <<disk, hist>>
  BY DEF ChooseRestart, RunInstaller, InstallerEnds, Launch, IInv, OpInv, OpTypes, Early
<1>2. DiskInv'
  BY <1>1, DiskStays DEF IInv, hist
<1>3. kind = "promote"
  BY <1>1 DEF IInv, OpInv, OpTypes, Control, RollingBack, Swapping, Settling
<1>4. failures' \in 0 .. MaxFailures
  BY <1>1 DEF IInv, OpInv, OpTypes, hist
<1>5. CASE Leave
  <2>1. taking'["op"] = "off" /\ OpTypes'
    BY <1>1, <1>4, <1>5 DEF IInv, OpInv, OpTypes, Leave, Freed, Labels
  <2> QED
    BY <1>2, <1>5, <2>1, GoneOp DEF IInv, Leave
<1>6. CASE Throw /\ (child' = child \/ child' = "none")
  BY <1>1, <1>2, <1>4, <1>6, ThrowOp DEF IInv, disk, hist
<1>7. CASE /\ UNCHANGED <<kind, cur, mem, locks, taking>>
           /\ \/ pc = "restart" /\ pc' \in {"installing", "verified"}
              \/ pc = "install" /\ pc' \in {"install", "verifying"}
              \/ pc = "launch" /\ pc' = "probe"
           /\ pc' = "verified" => child' = child
  <2>1. OpTypes' /\ Control'
    BY <1>1, <1>3, <1>4, <1>7 DEF IInv, OpInv, OpTypes, Control, Labels, locks, Swapping, RollingBack, Settling
  <2>2. Held'
    BY <1>1, <1>3, <1>7 DEF IInv, OpInv, Held, disk, Consistent, Unsettled, IsRecord, Early
  <2>3. PhaseFits' /\ SwapHeld'
    BY <1>1, <1>3, <1>7 DEF IInv, OpInv, PhaseFits, SwapHeld, Clear, Swapping, disk
  <2>4. GoodHeld'
    BY <1>1, <1>3, <1>7 DEF IInv, OpInv, PhaseFits, GoodHeld
  <2> QED
    BY <1>2, <2>1, <2>2, <2>3, <2>4 DEF IInv, OpInv
<1> QED
  BY <1>5, <1>6, <1>7 DEF ChooseRestart, RunInstaller, InstallerEnds, Launch, Goto, opVars

(* A probe that succeeds proves the files that are there. *)
LEMMA ProbeStep ==
  ASSUME Assumptions, IInv, Probe
  PROVE  IInv'
<1>1. pc = "probe" /\ child' = "none" /\ UNCHANGED <<disk, failures>>
  BY DEF Probe
<1>2. /\ kind = "promote" /\ cur \in Txn /\ mem \in Record /\ mem # None /\ stage = None
      /\ pc \notin Early
  BY <1>1 DEF IInv, OpInv, OpTypes, Control, SwapHeld, Clear, RollingBack, Swapping, Settling, Early
<1>3. failures' \in 0 .. MaxFailures
  BY <1>1 DEF IInv, OpInv, OpTypes
<1>4. files \in Version
  BY <1>2 DEF IInv, DiskInv, DiskTypes, MixtureIsPending
<1>5. CASE Throw /\ UNCHANGED proved
  <2>1. DiskInv'
    BY <1>1, <1>5, DiskStays DEF IInv
  <2> QED
    BY <1>1, <1>3, <1>5, <2>1, ThrowOp DEF IInv, disk
<1>6. CASE /\ pc' = "verified" /\ UNCHANGED <<kind, cur, locks, taking>>
           /\ \/ mem' = [mem EXCEPT !.good = TRUE] /\ proved' = proved \cup {files}
              \/ mem' = mem /\ proved' = proved
  <2>1. DiskInv'
    <3>1. DiskTypes' /\ NoMixedSnapshot' /\ MixtureIsPending'
      BY <1>1, <1>4, <1>6 DEF IInv, DiskInv, DiskTypes, NoMixedSnapshot, MixtureIsPending, disk
    <3>2. \A t \in Txn : IsRecord(t)' => Consistent(txn[t])'
      BY <1>1 DEF IInv, DiskInv, IsRecord, Consistent, disk
    <3>3. JournalAgrees'
      BY <1>1 DEF IInv, DiskInv, JournalAgrees, PhaseOf, IsRecord, disk
    <3>4. OriginalsKept' /\ GoodIsProved'
      BY <1>1, <1>6 DEF IInv, DiskInv, OriginalsKept, Unsettled, IsRecord, GoodIsProved, KnownGoodWasProved, disk
    <3> QED
      BY <3>1, <3>2, <3>3, <3>4 DEF DiskInv
  <2>2. /\ mem' \in Record /\ mem'.phase = mem.phase /\ mem'.outcome = mem.outcome
        /\ mem'.pre = mem.pre /\ mem'.post = mem.post /\ mem'.good \in BOOLEAN
        /\ mem'.good => mem.good \/ files \in proved'
    BY <1>2, <1>6 DEF Record
  <2>3. mem' # None
    BY <2>2, Constants
  <2>4. OpTypes' /\ Control'
    BY <1>1, <1>2, <1>3, <1>6, <2>2, <2>3 DEF IInv, OpInv, OpTypes, Control, Labels, locks
  <2>5. Held'
    BY <1>1, <1>2, <1>6, <2>2 DEF IInv, OpInv, Held, disk, Consistent, Unsettled, IsRecord, Early
  <2>6. PhaseFits' /\ SwapHeld'
    BY <1>1, <1>2, <1>6, <2>2 DEF IInv, OpInv, PhaseFits, SwapHeld, Clear, Swapping, disk
  <2>7. GoodHeld'
    BY <1>1, <1>2, <1>6, <2>2 DEF IInv, OpInv, PhaseFits, GoodHeld, disk
  <2> QED
    BY <2>1, <2>4, <2>5, <2>6, <2>7 DEF IInv, OpInv
<1> QED
  BY <1>1, <1>5, <1>6 DEF Probe, Goto, hist, locks

LEMMA AnalyzeStep ==
  ASSUME Assumptions, IInv, Analyze
  PROVE  IInv'
<1> DEFINE r == [mem EXCEPT !.receiptAfter = files, !.outcome = "committed"]
<1>1. /\ pc = "analyze" /\ pc' = "snapshotted" /\ mem' = r
      /\ UNCHANGED <<kind, cur, disk, child, locks, taking, hist>>
  BY DEF Analyze
<1>2. /\ kind = "promote" /\ cur \in Txn /\ mem \in Record /\ mem # None /\ stage = None
      /\ Consistent(mem) /\ mem.phase = "verified"
  BY <1>1 DEF IInv, OpInv, OpTypes, Control, Held, PhaseFits, SwapHeld, Clear, RollingBack, Swapping, Settling
<1>3. files \in Version
  BY <1>2 DEF IInv, DiskInv, DiskTypes, MixtureIsPending
<1>4. /\ r \in Record /\ r.phase = "verified" /\ r.pre = mem.pre /\ r.post = mem.post
      /\ r.good = mem.good /\ r.receiptAfter = files /\ r.outcome = "committed"
  BY <1>2, <1>3 DEF Record, Outcomes
<1> HIDE DEF r
<1>5. r # None /\ Consistent(r)
  BY <1>2, <1>4, Constants DEF Consistent
<1>6. DiskInv'
  BY <1>1, DiskStays DEF IInv, hist
<1>7. OpTypes' /\ Control'
  BY <1>1, <1>2, <1>4, <1>5 DEF IInv, OpInv, OpTypes, Control, Labels, locks, hist
<1>8. Held'
  BY <1>1, <1>2, <1>4, <1>5 DEF IInv, OpInv, Held, disk, Consistent, Unsettled, IsRecord
<1>9. PhaseFits' /\ SwapHeld'
  BY <1>1, <1>2, <1>4 DEF IInv, OpInv, PhaseFits, SwapHeld, Clear, Swapping, disk
<1>10. GoodHeld'
  BY <1>1, <1>2, <1>4 DEF IInv, OpInv, GoodHeld, disk, hist
<1> QED
  BY <1>6, <1>7, <1>8, <1>9, <1>10 DEF IInv, OpInv

-----------------------------------------------------------------------------
(* Snapshots, by a user or within a promotion. *)

LEMMA SnapshotLockStep ==
  ASSUME Assumptions, IInv, NEW p \in {"op", "user"}, SnapshotLock(p)
  PROVE  IInv'
<1>1. Wants(p) /\ UNCHANGED <<disk, child, hist>>
  BY DEF SnapshotLock
<1>2. DiskInv'
  BY <1>1, DiskStays DEF IInv, hist
<1>3. CASE vault' = p /\ writer' = p /\ taking' = [taking EXCEPT ![p] = "locked"] /\ UNCHANGED opVars
  <2>1. OpTypes'
    BY <1>1, <1>3 DEF IInv, OpInv, OpTypes, opVars, hist
  <2>2. Control'
    BY <1>1, <1>3 DEF IInv, OpInv, OpTypes, Control, Wants, opVars
  <2>3. Held'
    BY <1>1, <1>3 DEF IInv, OpInv, Held, disk, opVars, Consistent, Unsettled, IsRecord
  <2>4. PhaseFits' /\ SwapHeld' /\ GoodHeld'
    BY <1>1, <1>3 DEF IInv, OpInv, PhaseFits, SwapHeld, GoodHeld, disk, opVars, hist
  <2> QED
    BY <1>2, <2>1, <2>2, <2>3, <2>4 DEF IInv, OpInv
<1>4. CASE Throw
  <2>1. failures' \in 0 .. MaxFailures
    BY <1>1 DEF IInv, OpInv, OpTypes, hist
  <2> QED
    BY <1>1, <1>2, <1>4, <2>1, ThrowOp DEF IInv, disk, hist
<1> QED
  BY <1>3, <1>4 DEF SnapshotLock

(* Nothing is staged when a snapshot is taken, so the files are whole.     *)
LEMMA SnapshotCaptureStep ==
  ASSUME Assumptions, IInv, NEW p \in {"op", "user"}, SnapshotCapture(p)
  PROVE  IInv'
<1>1. taking[p] = "locked" /\ UNCHANGED <<files, stage, txn, kept, head, good, journal, child, hist>>
  BY DEF SnapshotCapture
<1>2. failures' \in 0 .. MaxFailures
  BY <1>1 DEF IInv, OpInv, OpTypes, hist
<1>3. CASE /\ MayCapture(p) /\ snap' = Append(snap, files)
           /\ taking' = [taking EXCEPT ![p] = "written"] /\ UNCHANGED <<locks, opVars>>
  <2>1. files \in Version
    BY <1>3 DEF MayCapture, IInv, DiskInv, DiskTypes, MixtureIsPending
  <2>2. /\ Len(snap) \in Nat /\ snap' \in Seq(Version \cup {Mixed}) /\ Len(snap') = Len(snap) + 1
        /\ \A i \in 1 .. Len(snap) : snap'[i] = snap[i]
        /\ snap'[Len(snap) + 1] = files
    BY <1>3, <2>1, AppendProperties, LenProperties DEF IInv, DiskInv, DiskTypes
  <2>3. DOMAIN snap' = 1 .. Len(snap') /\ DOMAIN snap = 1 .. Len(snap)
    BY <2>2, LenProperties DEF IInv, DiskInv, DiskTypes
  <2>4. DiskInv'
    <3>1. DiskTypes' /\ MixtureIsPending'
      BY <1>1, <2>2 DEF IInv, DiskInv, DiskTypes, MixtureIsPending, hist
    <3>2. NoMixedSnapshot'
      <4>1. \A i \in 1 .. Len(snap') : i \in 1 .. Len(snap) \/ i = Len(snap) + 1
        BY <2>2
      <4> QED
        BY <2>1, <2>2, <2>3, <4>1, Constants DEF IInv, DiskInv, NoMixedSnapshot
    <3>3. \A t \in Txn : IsRecord(t)' => Consistent(txn[t])'
      <4>1. ASSUME NEW t \in Txn, IsRecord(t) PROVE txn[t].pre \in Nat /\ txn[t].post \in Nat
        BY <4>1 DEF IInv, DiskInv, DiskTypes, IsRecord, Record
      <4> QED
        BY <1>1, <2>2, <4>1 DEF IInv, DiskInv, IsRecord, Consistent
    <3>4. JournalAgrees'
      BY <1>1 DEF IInv, DiskInv, JournalAgrees, PhaseOf, IsRecord
    <3>5. OriginalsKept'
      BY <1>1 DEF IInv, DiskInv, OriginalsKept, Unsettled, IsRecord
    <3>6. GoodIsProved'
      <4>1. good # 0 => good \in 1 .. Len(snap)
        BY <2>2 DEF IInv, DiskInv, DiskTypes
      <4> QED
        BY <1>1, <2>2, <4>1 DEF IInv, DiskInv, GoodIsProved, KnownGoodWasProved, IsRecord, hist
    <3> QED
      BY <3>1, <3>2, <3>3, <3>4, <3>5, <3>6 DEF DiskInv
  <2>5. OpTypes' /\ Control'
    BY <1>1, <1>3 DEF IInv, OpInv, OpTypes, Control, opVars, locks, hist
  <2>6. Held'
    <3>1. mem # None => mem.pre \in Nat /\ mem.post \in Nat
      BY DEF IInv, OpInv, OpTypes, Record
    <3> QED
      BY <1>1, <1>3, <2>2, <3>1 DEF IInv, OpInv, Held, opVars, Consistent, Unsettled, IsRecord
  <2>7. PhaseFits' /\ SwapHeld' /\ GoodHeld'
    BY <1>1, <1>3 DEF IInv, OpInv, PhaseFits, SwapHeld, GoodHeld, opVars, hist
  <2> QED
    BY <2>4, <2>5, <2>6, <2>7 DEF IInv, OpInv
<1>4. CASE UNCHANGED snap /\ Throw
  <2>1. DiskInv'
    BY <1>1, <1>4, DiskStays DEF IInv, disk, hist
  <2> QED
    BY <1>1, <1>2, <1>4, <2>1, ThrowOp DEF IInv, hist
<1>5. CASE /\ UNCHANGED <<snap, opVars>> /\ taking' = [taking EXCEPT ![p] = "off"]
           /\ writer' = Freed(writer, p) /\ vault' = Freed(vault, p)
  <2>1. DiskInv'
    BY <1>1, <1>5, DiskStays DEF IInv, disk, hist
  <2>2. OpTypes' /\ Control'
    BY <1>1, <1>5 DEF IInv, OpInv, OpTypes, Control, opVars, Freed, hist
  <2>3. Held'
    BY <1>1, <1>5 DEF IInv, OpInv, Held, opVars, Consistent, Unsettled, IsRecord
  <2>4. PhaseFits' /\ SwapHeld' /\ GoodHeld'
    BY <1>1, <1>5 DEF IInv, OpInv, PhaseFits, SwapHeld, GoodHeld, opVars, hist
  <2> QED
    BY <2>1, <2>2, <2>3, <2>4 DEF IInv, OpInv
<1> QED
  BY <1>3, <1>4, <1>5 DEF SnapshotCapture

LEMMA SnapshotNoteStep ==
  ASSUME Assumptions, IInv, NEW p \in {"op", "user"}, SnapshotNote(p)
  PROVE  IInv'
<1>1. /\ taking[p] = "written" /\ head' = Len(snap) /\ taking' = [taking EXCEPT ![p] = "off"]
      /\ writer' = "free" /\ vault' = "free"
      /\ UNCHANGED <<files, stage, txn, kept, snap, good, journal, child, hist>>
  BY DEF SnapshotNote
<1>2. Len(snap) \in Nat /\ Len(snap) \in 0 .. Len(snap)
  <2>1. Len(snap) \in Nat
    BY LenProperties DEF IInv, DiskInv, DiskTypes
  <2> QED
    BY <2>1
<1>3. DiskInv'
  <2>1. DiskTypes' /\ NoMixedSnapshot' /\ MixtureIsPending'
    BY <1>1, <1>2 DEF IInv, DiskInv, DiskTypes, NoMixedSnapshot, MixtureIsPending, hist
  <2>2. \A t \in Txn : IsRecord(t)' => Consistent(txn[t])'
    BY <1>1 DEF IInv, DiskInv, IsRecord, Consistent
  <2>3. JournalAgrees'
    BY <1>1 DEF IInv, DiskInv, JournalAgrees, PhaseOf, IsRecord
  <2>4. OriginalsKept' /\ GoodIsProved'
    BY <1>1 DEF IInv, DiskInv, OriginalsKept, Unsettled, IsRecord, GoodIsProved, KnownGoodWasProved, hist
  <2> QED
    BY <2>1, <2>2, <2>3, <2>4 DEF DiskInv
<1>4. CASE p = "user"
  <2>1. UNCHANGED opVars
    BY <1>4 DEF SnapshotNote
  <2>2. OpTypes' /\ Control'
    BY <1>1, <1>4, <2>1 DEF IInv, OpInv, OpTypes, Control, opVars, hist
  <2>3. Held'
    BY <1>1, <2>1 DEF IInv, OpInv, Held, opVars, Consistent, Unsettled, IsRecord
  <2>4. PhaseFits' /\ SwapHeld' /\ GoodHeld'
    BY <1>1, <2>1 DEF IInv, OpInv, PhaseFits, SwapHeld, GoodHeld, opVars, hist
  <2> QED
    BY <1>3, <2>2, <2>3, <2>4 DEF IInv, OpInv
<1>5. CASE p = "op"
  <2>1. /\ pc \in {"preSnapshot", "postSnapshot"} /\ kind = "promote" /\ cur \in Txn
        /\ UNCHANGED <<kind, cur>>
    BY <1>1, <1>5 DEF SnapshotNote, IInv, OpInv, OpTypes, Control, RollingBack, Swapping, Settling
  <2>2. CASE pc = "preSnapshot"
    <3> DEFINE r == [phase |-> "prepared", before |-> Source[cur], pre |-> Len(snap),
                     post |-> 0, outcome |-> "rolled-back", good |-> FALSE, receiptAfter |-> Source[cur]]
    <3>1. pc' = "swapLock" /\ mem' = r
      BY <1>5, <2>2 DEF SnapshotNote
    <3>2. Source[cur] \in Version
      BY <2>1, Constants
    <3>3. r \in Record /\ r.phase = "prepared" /\ ~r.good /\ Consistent(r)
      BY <1>2, <3>2 DEF Record, Phases, Outcomes, Consistent
    <3>4. stage = None /\ txn[cur] = None
      BY <2>2 DEF IInv, OpInv, Held, SwapHeld, Clear
    <3> HIDE DEF r
    <3>5. r # None
      BY <3>3, Constants
    <3>6. OpTypes' /\ Control'
      BY <1>1, <1>5, <2>1, <3>1, <3>3, <3>5 DEF IInv, OpInv, OpTypes, Control, Labels, hist
    <3>7. Held'
      BY <1>1, <2>1, <3>1, <3>3, <3>4 DEF IInv, OpInv, Held, Consistent, Unsettled, IsRecord
    <3>8. PhaseFits' /\ SwapHeld' /\ GoodHeld'
      BY <1>1, <2>1, <3>1, <3>3, <3>4 DEF PhaseFits, SwapHeld, GoodHeld, Clear, Swapping
    <3> QED
      BY <1>3, <3>6, <3>7, <3>8 DEF IInv, OpInv
  <2>3. CASE pc = "postSnapshot"
    <3> DEFINE r == [mem EXCEPT !.post = Len(snap)]
    <3>1. pc' = "analyze" /\ mem' = r
      BY <1>5, <2>3 DEF SnapshotNote
    <3>2. /\ mem \in Record /\ mem # None /\ mem.phase = "verified" /\ Consistent(mem)
          /\ IsRecord(cur) /\ txn[cur].phase = "verified" /\ stage = None
      BY <2>1, <2>3, Saved DEF IInv, OpInv, PhaseFits, SwapHeld, Clear, Early
    <3>3. r \in Record /\ r.phase = "verified" /\ r.good = mem.good /\ r.pre = mem.pre /\ r.post = Len(snap)
      BY <1>2, <3>2 DEF Record
    <3> HIDE DEF r
    <3>4. r # None /\ Consistent(r)
      BY <1>2, <3>2, <3>3, Constants DEF Consistent
    <3>5. OpTypes' /\ Control'
      BY <1>1, <1>5, <2>1, <3>1, <3>3, <3>4 DEF IInv, OpInv, OpTypes, Control, Labels, hist
    <3>6. Held'
      BY <1>1, <2>1, <3>1, <3>2, <3>3, <3>4 DEF IInv, OpInv, Held, Consistent, Unsettled, IsRecord
    <3>7. PhaseFits' /\ SwapHeld' /\ GoodHeld'
      BY <1>1, <2>1, <2>3, <3>1, <3>2, <3>3 DEF IInv, OpInv, PhaseFits, SwapHeld, GoodHeld, Clear, Swapping, hist
    <3> QED
      BY <1>3, <3>5, <3>6, <3>7 DEF IInv, OpInv
  <2> QED
    BY <2>1, <2>2, <2>3
<1> QED
  BY <1>4, <1>5

-----------------------------------------------------------------------------
(* The swap of the files, towards the candidate or back. *)

(* A step that keeps the record in memory and moves within the swap.       *)
LEMMA SwapMoves ==
  ASSUME Assumptions, IInv, pc \in Swapping,
         UNCHANGED <<kind, cur, mem, txn, snap, journal, proved, child, locks, taking, failures>>,
         \/ pc' \in Swapping
         \/ pc' = IF mem.phase = "rolling-back" THEN "undone" ELSE "swapped",
         DiskInv', SwapHeld'
  PROVE  IInv'
<1>1. /\ kind \in {"promote", "reconcile"} /\ pc \notin Early
      /\ pc \notin {"idle", "preSnapshot", "postSnapshot"}
  BY DEF IInv, OpInv, OpTypes, Control, Swapping, Early
<1>2. mem \in Record /\ mem # None /\ IsRecord(cur) /\ txn[cur].phase = mem.phase /\ cur \in Txn
  BY <1>1, Saved
<1>3. mem.phase = "rolling-back" \/ (kind = "promote" /\ mem.phase = "swapping")
  BY <1>2 DEF IInv, OpInv, PhaseFits
<1>4. pc' \in Swapping \cup {"undone", "swapped"} /\ (pc' = "swapped" => kind = "promote")
  BY <1>3 DEF Swapping
<1>5. OpTypes' /\ Control'
  BY <1>1, <1>2, <1>4
     DEF IInv, OpInv, OpTypes, Control, Labels, Swapping, RollingBack, Settling, locks
<1>6. Held'
  BY <1>1, <1>2, <1>4 DEF IInv, OpInv, Held, Consistent, Unsettled, IsRecord, Swapping
<1>7. PhaseFits' /\ GoodHeld'
  BY <1>2, <1>3, <1>4 DEF IInv, OpInv, PhaseFits, GoodHeld, Swapping
<1> QED
  BY <1>5, <1>6, <1>7 DEF IInv, OpInv

LEMMA SwapsStep ==
  ASSUME Assumptions, IInv,
         MakeStaging \/ RecordSwap \/ ReplaceSome \/ ReplaceRest \/ CommitSwap \/ CleanSwap
  PROVE  IInv'
<1>1. /\ pc \in Swapping /\ pc \notin Early
      /\ UNCHANGED <<txn, kept, snap, head, good, journal, child, proved, failures>>
  BY DEF MakeStaging, RecordSwap, ReplaceSome, ReplaceRest, CommitSwap, CleanSwap, Swapping, Early, hist
<1>2. kind \in {"promote", "reconcile"}
  BY <1>1 DEF IInv, OpInv, OpTypes, Control, Swapping
<1>3. mem \in Record /\ cur \in Txn
  BY <1>1, <1>2, Saved
<1>4. Target \in Version
  <2>1. mem.before \in Version
    BY <1>3 DEF Record
  <2> QED
    BY <1>3, <2>1, Constants DEF Target
<1>5. failures' \in 0 .. MaxFailures
  BY <1>1 DEF IInv, OpInv, OpTypes
<1>6. CASE UNCHANGED <<files, stage>> /\ Throw
  <2>1. DiskInv'
    BY <1>1, <1>6, DiskStays DEF IInv, disk
  <2> QED
    BY <1>1, <1>5, <1>6, <2>1, ThrowOp DEF IInv
<1>7. ASSUME ~Throw \/ files' # files \/ stage' # stage
      PROVE  /\ UNCHANGED <<kind, cur, mem, locks, taking>> /\ DiskInv' /\ SwapHeld'
             /\ \/ pc' \in Swapping
                \/ pc' = IF mem.phase = "rolling-back" THEN "undone" ELSE "swapped"
  <2>1. CASE MakeStaging
    <3>1. /\ stage = None /\ stage' = Bare /\ files' = files /\ pc' = "recordSwap"
          /\ UNCHANGED <<kind, cur, mem, locks, taking>>
      BY <1>7, <2>1 DEF MakeStaging, Goto
    <3>2. DiskInv'
      BY <1>1, <3>1, SwapOnDisk DEF IInv, DiskInv, DiskTypes, MixtureIsPending
    <3>3. SwapHeld'
      BY <1>2, <3>1, Constants DEF SwapHeld, Clear, Assumptions, NullAssumption
    <3> QED
      BY <3>1, <3>2, <3>3 DEF Swapping
  <2>2. CASE RecordSwap
    <3>1. /\ pc = "recordSwap" /\ stage' = [decided |-> FALSE, before |-> files, after |-> Target]
          /\ files' = files /\ pc' = "replace" /\ UNCHANGED <<kind, cur, mem, locks, taking>>
      BY <2>2 DEF RecordSwap, Goto
    <3>2. files \in Version
      BY <3>1 DEF IInv, OpInv, SwapHeld, DiskInv, DiskTypes, MixtureIsPending
    <3>3. stage' \in Staged /\ ~stage'.decided /\ stage' # None /\ stage' # Bare /\ files' # Mixed
      <4>1. stage' \in Staged /\ ~stage'.decided
        BY <1>4, <3>1, <3>2 DEF Staged
      <4> QED
        BY <3>1, <3>2, <4>1, Constants
    <3>4. DiskInv'
      BY <1>1, <3>1, <3>2, <3>3, SwapOnDisk DEF IInv, MixtureIsPending
    <3>5. SwapHeld'
      BY <1>2, <3>1, <3>3 DEF SwapHeld, Clear
    <3> QED
      BY <3>1, <3>4, <3>5 DEF Swapping
  <2>3. CASE ReplaceSome
    <3>1. /\ pc = "replace" /\ stage' = stage /\ files' \in {files, Mixed} /\ pc' = "replaceRest"
          /\ UNCHANGED <<kind, cur, mem, locks, taking>>
      BY <1>7, <2>3 DEF ReplaceSome, Goto
    <3>2. stage \notin {None, Bare} /\ ~stage.decided
      BY <3>1 DEF IInv, OpInv, SwapHeld
    <3>3. DiskInv'
      BY <1>1, <3>1, <3>2, SwapOnDisk DEF IInv, DiskInv, DiskTypes, MixtureIsPending
    <3>4. SwapHeld'
      BY <1>2, <3>1, <3>2 DEF SwapHeld, Clear
    <3> QED
      BY <3>1, <3>3, <3>4 DEF Swapping
  <2>4. CASE ReplaceRest
    <3>1. /\ pc = "replaceRest" /\ stage' = stage /\ files' = stage.after /\ pc' = "commitSwap"
          /\ UNCHANGED <<kind, cur, mem, locks, taking>>
      BY <2>4 DEF ReplaceRest, Goto
    <3>2. stage \notin {None, Bare} /\ ~stage.decided /\ stage \in Staged
      BY <3>1 DEF IInv, OpInv, SwapHeld, DiskInv, DiskTypes
    <3>3. files' \in Version /\ files' # Mixed
      <4>1. stage.after \in Version
        BY <3>2 DEF Staged
      <4> QED
        BY <3>1, <4>1, Constants
    <3>4. DiskInv'
      BY <1>1, <3>1, <3>2, <3>3, SwapOnDisk DEF IInv, MixtureIsPending
    <3>5. SwapHeld'
      BY <1>2, <3>1, <3>2, <3>3 DEF SwapHeld, Clear
    <3> QED
      BY <3>1, <3>4, <3>5 DEF Swapping
  <2>5. CASE CommitSwap
    <3>1. /\ pc = "commitSwap" /\ stage' = [stage EXCEPT !.decided = TRUE] /\ files' = files
          /\ pc' = "cleanSwap" /\ UNCHANGED <<kind, cur, mem, locks, taking>>
      BY <2>5 DEF CommitSwap, Goto
    <3>2. stage \in Staged /\ files # Mixed /\ files \in Version
      BY <3>1 DEF IInv, OpInv, SwapHeld, DiskInv, DiskTypes
    <3>3. stage' \in Staged /\ stage'.decided /\ stage' # None /\ stage' # Bare
      <4>1. stage' \in Staged /\ stage'.decided
        BY <3>1, <3>2 DEF Staged
      <4> QED
        BY <4>1, Constants
    <3>4. DiskInv'
      BY <1>1, <3>1, <3>2, <3>3, SwapOnDisk DEF IInv, MixtureIsPending
    <3>5. SwapHeld'
      BY <1>2, <3>1, <3>3 DEF SwapHeld, Clear
    <3> QED
      BY <3>1, <3>4, <3>5 DEF Swapping
  <2>6. CASE CleanSwap
    <3>1. /\ pc = "cleanSwap" /\ stage' = None /\ files' = files
          /\ pc' = (IF mem.phase = "rolling-back" THEN "undone" ELSE "swapped")
          /\ UNCHANGED <<kind, cur, mem, locks, taking>>
      BY <2>6 DEF CleanSwap, Goto
    <3>2. files # Mixed /\ files \in Version
      BY <3>1, Constants DEF IInv, OpInv, SwapHeld, DiskInv, DiskTypes, MixtureIsPending
    <3>3. DiskInv'
      BY <1>1, <3>1, <3>2, SwapOnDisk DEF IInv, MixtureIsPending
    <3>4. SwapHeld'
      BY <1>2, <3>1 DEF SwapHeld, Clear
    <3> QED
      BY <3>1, <3>3, <3>4
  <2> QED
    BY <2>1, <2>2, <2>3, <2>4, <2>5, <2>6
<1>8. CASE ~Throw \/ files' # files \/ stage' # stage
  BY <1>1, <1>7, <1>8, SwapMoves
<1> QED
  BY <1>6, <1>8

(* The record of a decided swap may go before its directory does.          *)
LEMMA CleanPartlyStep ==
  ASSUME Assumptions, IInv, CleanPartly
  PROVE  IInv'
<1>1. /\ pc \in {"cleanSwap", "rbClean"} /\ stage # Bare /\ stage' = Bare
      /\ UNCHANGED <<files, txn, kept, snap, head, good, journal, child, locks, opVars, taking, hist>>
  BY DEF CleanPartly
<1>2. files # Mixed
  BY <1>1 DEF IInv, OpInv, SwapHeld, DiskInv, MixtureIsPending
<1>3. DiskInv'
  BY <1>1, <1>2, SwapOnDisk DEF IInv, DiskInv, DiskTypes, MixtureIsPending, hist
<1>4. OpTypes' /\ Control'
  BY <1>1 DEF IInv, OpInv, OpTypes, Control, opVars, locks, hist
<1>5. Held'
  BY <1>1 DEF IInv, OpInv, Held, opVars, Consistent, Unsettled, IsRecord
<1>6. PhaseFits' /\ GoodHeld'
  BY <1>1 DEF IInv, OpInv, PhaseFits, GoodHeld, opVars, hist
<1>7. SwapHeld'
  BY <1>1, Constants DEF SwapHeld, Clear, opVars
<1> QED
  BY <1>3, <1>4, <1>5, <1>6, <1>7 DEF IInv, OpInv

-----------------------------------------------------------------------------
(* The rollback, of a promotion or a reconciliation, and the recovery of   *)
(* one swap.                                                               *)

LEMMA RollbackLockStep ==
  ASSUME Assumptions, IInv, RollbackLock
  PROVE  IInv'
<1>1. pc = "rbLock" /\ UNCHANGED <<disk, child, hist>>
  BY DEF RollbackLock
<1>2. DiskInv' /\ failures' \in 0 .. MaxFailures
  BY <1>1, DiskStays DEF IInv, OpInv, OpTypes, hist
<1>3. CASE Leave
  BY <1>1, <1>2, <1>3, LeaveOp DEF IInv
<1>4. CASE writer' = "op" /\ Goto("rbSwaps") /\ UNCHANGED <<vault, taking>>
  <2>1. kind \in {"promote", "reconcile"} /\ mem # None
    BY <1>1 DEF IInv, OpInv, OpTypes, Control
  <2>2. OpTypes' /\ Control'
    BY <1>1, <1>2, <1>4, <2>1 DEF IInv, OpInv, OpTypes, Control, Labels, RollingBack, Goto
  <2>3. Held'
    BY <1>1, <1>4, <2>1 DEF IInv, OpInv, Held, Goto, disk, Consistent, Unsettled, IsRecord
  <2>4. PhaseFits' /\ SwapHeld' /\ GoodHeld'
    BY <1>1, <1>4, <2>1 DEF IInv, OpInv, PhaseFits, SwapHeld, GoodHeld, Clear, Swapping, Goto, disk, hist
  <2> QED
    BY <1>2, <2>2, <2>3, <2>4 DEF IInv, OpInv
<1> QED
  BY <1>1, <1>3, <1>4 DEF RollbackLock

(* A step of the recovery of a swap keeps the records.                     *)
LEMMA RecoveryMoves ==
  ASSUME Assumptions, IInv, pc \in {"rbSwaps", "rbClean"}, pc' \in {"rbClean", "rbCheck"},
         UNCHANGED <<kind, cur, mem, txn, snap, journal, proved, child, locks, taking, failures>>,
         kind = "recover" => pc' = "rbClean", DiskInv', SwapHeld'
  PROVE  IInv'
<1>1. OpTypes' /\ Control'
  BY DEF IInv, OpInv, OpTypes, Control, Labels, RollingBack, Swapping, Settling, locks
<1>2. Held'
  BY DEF IInv, OpInv, OpTypes, Held, Consistent, Unsettled, IsRecord
<1>3. PhaseFits' /\ GoodHeld'
  BY DEF IInv, OpInv, PhaseFits, GoodHeld, Swapping
<1> QED
  BY <1>1, <1>2, <1>3 DEF IInv, OpInv

LEMMA RollbackSwapStep ==
  ASSUME Assumptions, IInv, RollbackSwap
  PROVE  IInv'
<1>1. pc = "rbSwaps" /\ UNCHANGED <<txn, kept, snap, head, good, journal, child, hist>>
  BY DEF RollbackSwap
<1>2. CASE UNCHANGED <<files, stage>> /\ Leave
  <2>1. DiskInv' /\ failures' \in 0 .. MaxFailures
    BY <1>1, <1>2, DiskStays DEF IInv, OpInv, OpTypes, disk, hist
  <2> QED
    BY <1>1, <1>2, <2>1, LeaveOp DEF IInv
<1>3. CASE stage = None /\ Goto("rbCheck") /\ UNCHANGED <<files, stage, locks, taking>>
  <2>1. DiskInv'
    BY <1>1, <1>3, DiskStays DEF IInv, disk, hist
  <2>2. kind # "recover" /\ SwapHeld'
    BY <1>1, <1>3 DEF IInv, OpInv, SwapHeld, Clear, Goto
  <2> QED
    BY <1>1, <1>3, <2>1, <2>2, RecoveryMoves DEF Goto, hist
<1>4. CASE /\ Recoverable
           /\ files' = (IF stage.decided THEN files ELSE stage.before)
           /\ stage' = [stage EXCEPT !.decided = TRUE]
           /\ Goto("rbClean") /\ UNCHANGED <<locks, taking>>
  <2>1. stage \in Staged
    BY <1>4 DEF Recoverable, IInv, DiskInv, DiskTypes
  <2>2. files' \in Version
    <3>1. CASE stage.decided
      BY <1>4, <2>1, <3>1, Constants DEF IInv, DiskInv, DiskTypes, MixtureIsPending
    <3>2. CASE ~stage.decided
      BY <1>4, <2>1, <3>2 DEF Staged
    <3> QED
      BY <3>1, <3>2
  <2>3. stage' \in Staged /\ stage'.decided
    BY <1>4, <2>1 DEF Staged
  <2>4. stage' # None /\ stage' # Bare /\ files' # Mixed
    BY <2>2, <2>3, Constants
  <2>5. DiskInv'
    BY <1>1, <2>2, <2>3, <2>4, SwapOnDisk DEF IInv, MixtureIsPending, hist
  <2>6. SwapHeld'
    BY <1>1, <1>4, <2>3, <2>4 DEF SwapHeld, Clear, Goto
  <2> QED
    BY <1>1, <1>4, <2>5, <2>6, RecoveryMoves DEF Goto, hist
<1> QED
  BY <1>2, <1>3, <1>4 DEF RollbackSwap

LEMMA RollbackCleanStep ==
  ASSUME Assumptions, IInv, RollbackClean
  PROVE  IInv'
<1>1. /\ pc = "rbClean" /\ stage' = None
      /\ UNCHANGED <<files, txn, kept, snap, head, good, journal, child, hist>>
  BY DEF RollbackClean
<1>2. files # Mixed /\ files \in Version
  BY <1>1 DEF IInv, OpInv, SwapHeld, DiskInv, DiskTypes, MixtureIsPending
<1>3. DiskInv' /\ failures' \in 0 .. MaxFailures
  BY <1>1, <1>2, SwapOnDisk DEF IInv, OpInv, OpTypes, MixtureIsPending, hist
<1>4. CASE kind = "recover"
  <2>1. Leave
    BY <1>4 DEF RollbackClean
  <2> QED
    BY <1>1, <1>3, <2>1, LeaveOp DEF IInv
<1>5. CASE kind # "recover"
  <2>1. Goto("rbCheck") /\ UNCHANGED <<locks, taking>>
    BY <1>5 DEF RollbackClean
  <2>2. SwapHeld'
    BY <1>1, <1>5, <2>1 DEF SwapHeld, Clear, Goto
  <2> QED
    BY <1>1, <1>3, <1>5, <2>1, <2>2, RecoveryMoves DEF Goto, hist
<1> QED
  BY <1>4, <1>5

LEMMA RollbackCheckStep ==
  ASSUME Assumptions, IInv, RollbackCheck
  PROVE  IInv'
<1>1. pc = "rbCheck" /\ UNCHANGED <<files, stage, kept, snap, head, good, journal, child, hist>>
  BY DEF RollbackCheck
<1>2. kind \in {"promote", "reconcile"} /\ pc \notin Early
  BY <1>1 DEF IInv, OpInv, OpTypes, Control, Early
<1>3. CASE UNCHANGED txn /\ Leave
  <2>1. DiskInv' /\ failures' \in 0 .. MaxFailures
    BY <1>1, <1>3, DiskStays DEF IInv, OpInv, OpTypes, disk, hist
  <2> QED
    BY <1>1, <1>3, <2>1, LeaveOp DEF IInv
<1>4. CASE ~(UNCHANGED txn /\ Leave)
  <2> DEFINE r == [mem EXCEPT !.phase = "rolling-back", !.outcome = "rolled-back",
                              !.good = FALSE, !.receiptAfter = Source[cur]]
  <2>1. /\ mem' = r /\ txn' = [txn EXCEPT ![cur] = r] /\ pc' = "mkStaging"
        /\ UNCHANGED <<kind, cur, locks, taking>>
    BY <1>4 DEF RollbackCheck, Save
  <2>2. /\ cur \in Txn /\ IsRecord(cur) /\ mem \in Record /\ mem # None /\ Consistent(mem)
        /\ txn[cur].phase = mem.phase /\ mem.phase \in Open \cup {"rolling-back"} /\ stage = None
    BY <1>1, <1>2, Saved DEF IInv, OpInv, PhaseFits, SwapHeld, Clear
  <2>3. r \in Record /\ r.phase = "rolling-back" /\ r.outcome = "rolled-back" /\ ~r.good
        /\ r.pre = mem.pre /\ r.post = mem.post
    <3>1. Source[cur] \in Version
      BY <2>2, Constants
    <3> QED
      BY <2>2, <3>1 DEF Record, Phases, Outcomes
  <2> HIDE DEF r
  <2>4. r # None /\ Consistent(r)
    BY <2>2, <2>3, Constants DEF Consistent
  <2>5. DiskInv'
    BY <1>1, <2>1, <2>2, <2>3, <2>4, SaveOnDisk DEF IInv, hist, Settled
  <2>6. Held'
    BY <1>1, <1>2, <2>1, <2>3, <2>4, SaveHeld DEF Early
  <2>7. OpTypes' /\ Control'
    BY <1>1, <1>2, <2>1, <2>3, <2>4
       DEF IInv, OpInv, OpTypes, Control, Labels, Swapping, RollingBack, Settling, locks, hist
  <2>8. PhaseFits' /\ SwapHeld' /\ GoodHeld'
    BY <1>1, <1>2, <2>1, <2>2, <2>3 DEF PhaseFits, SwapHeld, GoodHeld, Clear, Swapping
  <2> QED
    BY <2>5, <2>6, <2>7, <2>8 DEF IInv, OpInv
<1> QED
  BY <1>3, <1>4

LEMMA UndoneStep ==
  ASSUME Assumptions, IInv, Undone
  PROVE  IInv'
<1>1. /\ pc = "undone" /\ pc' = (IF kind = "promote" THEN "report" ELSE "settle")
      /\ writer' = Freed(writer, "op") /\ UNCHANGED <<kind, cur, mem, disk, child, vault, taking, hist>>
  BY DEF Undone, Goto
<1>2. kind \in {"promote", "reconcile"} /\ mem # None
  BY <1>1 DEF IInv, OpInv, OpTypes, Control
<1>3. DiskInv'
  BY <1>1, DiskStays DEF IInv, hist
<1>4. OpTypes' /\ Control'
  BY <1>1, <1>2 DEF IInv, OpInv, OpTypes, Control, Labels, RollingBack, Settling, Swapping, Freed, hist
<1>5. Held'
  BY <1>1, <1>2 DEF IInv, OpInv, Held, disk, Consistent, Unsettled, IsRecord
<1>6. PhaseFits' /\ SwapHeld' /\ GoodHeld'
  BY <1>1, <1>2 DEF IInv, OpInv, PhaseFits, SwapHeld, GoodHeld, Clear, Swapping, disk, hist
<1> QED
  BY <1>3, <1>4, <1>5, <1>6 DEF IInv, OpInv

LEMMA ReportStep ==
  ASSUME Assumptions, IInv, Report
  PROVE  IInv'
<1> DEFINE r == [mem EXCEPT !.receiptAfter = files]
<1>1. /\ pc = "report" /\ pc' = "settle" /\ mem' = r /\ txn' = [txn EXCEPT ![cur] = r]
      /\ UNCHANGED <<kind, cur, files, stage, kept, snap, head, good, journal, child, locks, taking, hist>>
  BY DEF Report, Save
<1>2. kind = "promote" /\ pc \notin Early
  BY <1>1 DEF IInv, OpInv, OpTypes, Control, RollingBack, Swapping, Settling, Early
<1>3. /\ cur \in Txn /\ IsRecord(cur) /\ mem \in Record /\ mem # None /\ Consistent(mem)
      /\ txn[cur].phase = mem.phase /\ mem.phase = "rolling-back" /\ stage = None
  BY <1>1, <1>2, Saved DEF IInv, OpInv, PhaseFits, SwapHeld, Clear
<1>4. files \in Version
  BY <1>3 DEF IInv, DiskInv, DiskTypes, MixtureIsPending
<1>5. r \in Record /\ r.phase = "rolling-back" /\ r.pre = mem.pre /\ r.post = mem.post
      /\ r.outcome = mem.outcome
  BY <1>3, <1>4 DEF Record
<1> HIDE DEF r
<1>6. r # None /\ Consistent(r)
  BY <1>3, <1>5, Constants DEF Consistent
<1>7. DiskInv'
  BY <1>1, <1>3, <1>5, <1>6, SaveOnDisk DEF IInv, hist, Settled
<1>8. Held'
  BY <1>1, <1>2, <1>5, <1>6, SaveHeld DEF Early
<1>9. OpTypes' /\ Control'
  BY <1>1, <1>2, <1>5, <1>6
     DEF IInv, OpInv, OpTypes, Control, Labels, Swapping, RollingBack, Settling, locks, hist
<1>10. PhaseFits' /\ SwapHeld' /\ GoodHeld'
  BY <1>1, <1>2, <1>5 DEF PhaseFits, SwapHeld, GoodHeld, Clear, Swapping
<1> QED
  BY <1>7, <1>8, <1>9, <1>10 DEF IInv, OpInv

-----------------------------------------------------------------------------
(* The settlement of a decision. *)

LEMMA SettleStep ==
  ASSUME Assumptions, IInv, Settle
  PROVE  IInv'
<1>1. pc = "settle" /\ UNCHANGED <<disk, child, hist>>
  BY DEF Settle
<1>2. DiskInv' /\ failures' \in 0 .. MaxFailures
  BY <1>1, DiskStays DEF IInv, OpInv, OpTypes, hist
<1>3. CASE Leave
  BY <1>1, <1>2, <1>3, LeaveOp DEF IInv
<1>4. CASE /\ vault' = "op" /\ UNCHANGED <<writer, taking>>
           /\ Goto(IF mem.phase \in Settled THEN "purge" ELSE "state")
  <2>1. kind \in {"promote", "reconcile"} /\ mem # None /\ pc' \in {"purge", "state"}
    BY <1>1, <1>4 DEF IInv, OpInv, OpTypes, Control, Goto
  <2>2. OpTypes' /\ Control'
    BY <1>1, <1>2, <1>4, <2>1 DEF IInv, OpInv, OpTypes, Control, Labels, Settling, Goto
  <2>3. Held'
    BY <1>1, <1>4, <2>1 DEF IInv, OpInv, Held, Goto, disk, Consistent, Unsettled, IsRecord
  <2>4. PhaseFits'
    BY <1>1, <1>4, <2>1 DEF IInv, OpInv, PhaseFits, Goto, Swapping
  <2>5. SwapHeld' /\ GoodHeld'
    BY <1>1, <1>4, <2>1 DEF IInv, OpInv, SwapHeld, GoodHeld, Clear, Goto, disk, hist
  <2> QED
    BY <1>2, <2>2, <2>3, <2>4, <2>5 DEF IInv, OpInv
<1> QED
  BY <1>1, <1>3, <1>4 DEF Settle

(* The snapshot a decision points at exists, and a mark follows a proof.   *)
LEMMA WriteStateStep ==
  ASSUME Assumptions, IInv, WriteState
  PROVE  IInv'
<1>1. pc = "state" /\ UNCHANGED <<files, stage, txn, kept, snap, journal, child, hist>>
  BY DEF WriteState
<1>2. kind \in {"promote", "reconcile"} /\ pc \notin Early
  BY <1>1 DEF IInv, OpInv, OpTypes, Control, Early
<1>3. mem \in Record /\ mem # None /\ Consistent(mem) /\ mem.phase \in {"committing", "rolling-back"}
  BY <1>1, <1>2, Saved DEF IInv, OpInv, PhaseFits
<1>4. failures' \in 0 .. MaxFailures
  BY <1>1 DEF IInv, OpInv, OpTypes, hist
<1>5. CASE UNCHANGED <<head, good>> /\ Leave
  <2>1. DiskInv'
    BY <1>1, <1>5, DiskStays DEF IInv, disk, hist
  <2> QED
    BY <1>1, <1>4, <1>5, <2>1, LeaveOp DEF IInv
<1>6. CASE /\ snap[SettledSnapshot] = IF Committing THEN mem.receiptAfter ELSE Source[cur]
           /\ head' = SettledSnapshot
           /\ good' = IF Committing /\ mem.good THEN SettledSnapshot ELSE good
           /\ Goto("entry") /\ UNCHANGED <<locks, taking>>
  <2>1. SettledSnapshot \in 0 .. Len(snap)
    <3>1. mem.pre \in Nat /\ mem.post \in Nat /\ Len(snap) \in Nat
      BY <1>3, LenProperties DEF Record, IInv, DiskInv, DiskTypes
    <3> QED
      BY <1>3, <3>1 DEF SettledSnapshot, Consistent
  <2>2. Edits = {} => KnownGoodWasProved'
    <3>1. CASE Committing /\ mem.good
      <4>1. Edits = {} => mem.receiptAfter \in proved
        BY <1>3, <3>1 DEF IInv, OpInv, GoodHeld, Committing
      <4>2. snap'[good'] = mem.receiptAfter /\ proved' = proved
        BY <1>1, <1>6, <3>1 DEF hist
      <4> QED
        BY <4>1, <4>2 DEF KnownGoodWasProved
    <3>2. CASE ~(Committing /\ mem.good)
      BY <1>1, <1>6, <3>2 DEF IInv, DiskInv, GoodIsProved, KnownGoodWasProved, hist
    <3> QED
      BY <3>1, <3>2
  <2>3. DiskInv'
    <3>1. DiskTypes' /\ NoMixedSnapshot' /\ MixtureIsPending'
      BY <1>1, <1>6, <2>1 DEF IInv, DiskInv, DiskTypes, NoMixedSnapshot, MixtureIsPending, hist
    <3>2. \A t \in Txn : IsRecord(t)' => Consistent(txn[t])'
      BY <1>1 DEF IInv, DiskInv, IsRecord, Consistent
    <3>3. JournalAgrees'
      BY <1>1 DEF IInv, DiskInv, JournalAgrees, PhaseOf, IsRecord
    <3>4. OriginalsKept' /\ GoodIsProved'
      BY <1>1, <2>2 DEF IInv, DiskInv, OriginalsKept, Unsettled, IsRecord, GoodIsProved, hist
    <3> QED
      BY <3>1, <3>2, <3>3, <3>4 DEF DiskInv
  <2>4. OpTypes' /\ Control'
    BY <1>1, <1>2, <1>4, <1>6 DEF IInv, OpInv, OpTypes, Control, Labels, Settling, Goto, locks
  <2>5. Held'
    BY <1>1, <1>2, <1>3, <1>6 DEF IInv, OpInv, Held, Goto, Consistent, Unsettled, IsRecord
  <2>6. PhaseFits' /\ SwapHeld' /\ GoodHeld'
    BY <1>1, <1>2, <1>3, <1>6 DEF IInv, OpInv, PhaseFits, SwapHeld, GoodHeld, Clear, Swapping, Goto, hist
  <2> QED
    BY <2>3, <2>4, <2>5, <2>6 DEF IInv, OpInv
<1> QED
  BY <1>5, <1>6 DEF WriteState

(* The entry of a decision says what its record says. *)
LEMMA AppendJournalStep ==
  ASSUME Assumptions, IInv, AppendJournal
  PROVE  IInv'
<1>1. pc = "entry" /\ UNCHANGED <<files, stage, txn, kept, snap, head, good, child, hist>>
  BY DEF AppendJournal
<1>2. kind \in {"promote", "reconcile"} /\ pc \notin Early
  BY <1>1 DEF IInv, OpInv, OpTypes, Control, Early
<1>3. /\ mem \in Record /\ mem # None /\ Consistent(mem) /\ mem.phase \in {"committing", "rolling-back"}
      /\ cur \in Txn /\ IsRecord(cur) /\ txn[cur].phase = mem.phase /\ txn[cur].outcome = mem.outcome
  BY <1>1, <1>2, Saved DEF IInv, OpInv, PhaseFits, Consistent
<1>4. failures' \in 0 .. MaxFailures
  BY <1>1 DEF IInv, OpInv, OpTypes, hist
<1>5. CASE UNCHANGED journal /\ Leave
  <2>1. DiskInv'
    BY <1>1, <1>5, DiskStays DEF IInv, disk, hist
  <2> QED
    BY <1>1, <1>4, <1>5, <2>1, LeaveOp DEF IInv
<1>6. CASE /\ \A i \in journal : i.id = cur => i = EntryOf(cur, mem)
           /\ journal' = journal \cup {EntryOf(cur, mem)}
           /\ Goto("phase") /\ UNCHANGED <<locks, taking>>
  <2> DEFINE e == EntryOf(cur, mem)
  <2>1. e \in Entry /\ e.id = cur /\ e.outcome = mem.outcome
    BY <1>3 DEF EntryOf, Entry, Record
  <2>2. journal' = journal \cup {e} /\ \A i \in journal : i.id = cur => i = e
    BY <1>6
  <2> HIDE DEF e
  <2>3. JournalAgrees'
    <3>1. \A t \in Txn : PhaseOf(t)' = PhaseOf(t)
      BY <1>1 DEF PhaseOf, IsRecord
    <3>2. \A i \in journal' : i.id \in Txn
      BY <1>3, <2>1, <2>2 DEF IInv, DiskInv, DiskTypes, Entry
    <3>3. PhaseOf(cur) \in {"committing", "rolling-back"} /\ e.outcome = txn[cur].outcome
      BY <1>3, <2>1 DEF PhaseOf
    <3>4. \A i, j \in journal' : i.id = j.id => i = j
      BY <2>1, <2>2 DEF IInv, DiskInv, JournalAgrees
    <3>5. \A t \in Txn : PhaseOf(t)' \in Settled => \E i \in journal' : i.id = t /\ i.outcome = txn'[t].phase
      BY <1>1, <2>2, <3>1 DEF IInv, DiskInv, JournalAgrees
    <3>6. \A i \in journal' :
            /\ PhaseOf(i.id)' \in {"committing", "committed", "rolling-back", "rolled-back"}
            /\ i.outcome = txn'[i.id].outcome
      BY <1>1, <2>1, <2>2, <3>1, <3>2, <3>3 DEF IInv, DiskInv, JournalAgrees
    <3> QED
      BY <3>4, <3>5, <3>6 DEF JournalAgrees
  <2>4. DiskInv'
    <3>1. DiskTypes' /\ NoMixedSnapshot' /\ MixtureIsPending'
      BY <1>1, <2>1, <2>2 DEF IInv, DiskInv, DiskTypes, NoMixedSnapshot, MixtureIsPending, hist
    <3>2. \A t \in Txn : IsRecord(t)' => Consistent(txn[t])'
      BY <1>1 DEF IInv, DiskInv, IsRecord, Consistent
    <3>3. OriginalsKept' /\ GoodIsProved'
      BY <1>1 DEF IInv, DiskInv, OriginalsKept, Unsettled, IsRecord, GoodIsProved, KnownGoodWasProved, hist
    <3> QED
      BY <2>3, <3>1, <3>2, <3>3 DEF DiskInv
  <2>5. OpTypes' /\ Control'
    BY <1>1, <1>2, <1>4, <1>6 DEF IInv, OpInv, OpTypes, Control, Labels, Settling, Goto, locks
  <2>6. Held'
    BY <1>1, <1>2, <1>3, <1>6 DEF IInv, OpInv, Held, Goto, EntryOf, Consistent, Unsettled, IsRecord
  <2>7. PhaseFits' /\ SwapHeld' /\ GoodHeld'
    BY <1>1, <1>2, <1>3, <1>6 DEF IInv, OpInv, PhaseFits, SwapHeld, GoodHeld, Clear, Swapping, Goto, hist
  <2> QED
    BY <2>4, <2>5, <2>6, <2>7 DEF IInv, OpInv
<1> QED
  BY <1>5, <1>6 DEF AppendJournal

LEMMA SettlePhaseStep ==
  ASSUME Assumptions, IInv, SettlePhase
  PROVE  IInv'
<1> DEFINE r == [mem EXCEPT !.phase = mem.outcome]
<1>1. /\ pc = "phase" /\ pc' = "purge" /\ mem' = r /\ txn' = [txn EXCEPT ![cur] = r]
      /\ UNCHANGED <<kind, cur, files, stage, kept, snap, head, good, journal, child, locks, taking, hist>>
  BY DEF SettlePhase, Save
<1>2. kind \in {"promote", "reconcile"} /\ pc \notin Early
  BY <1>1 DEF IInv, OpInv, OpTypes, Control, Early
<1>3. /\ mem \in Record /\ mem # None /\ Consistent(mem) /\ mem.phase \in {"committing", "rolling-back"}
      /\ cur \in Txn /\ IsRecord(cur) /\ txn[cur].phase = mem.phase /\ txn[cur].outcome = mem.outcome
      /\ EntryOf(cur, mem) \in journal
  BY <1>1, <1>2, Saved DEF IInv, OpInv, PhaseFits, Held, Consistent
<1>4. /\ r \in Record /\ r.phase = mem.outcome /\ r.outcome = mem.outcome /\ mem.outcome \in Settled
      /\ r.pre = mem.pre /\ r.post = mem.post /\ r.good = mem.good
  BY <1>3 DEF Record, Phases, Outcomes, Settled
<1> HIDE DEF r
<1>5. r # None /\ r # Bare /\ Consistent(r)
  BY <1>3, <1>4, Constants DEF Consistent, Settled
<1>6. /\ txn'[cur] = r /\ \A t \in Txn \ {cur} : txn'[t] = txn[t]
      /\ txn' \in [Txn -> Record \cup {None, Bare}]
  BY <1>1, <1>3, <1>4 DEF IInv, DiskInv, DiskTypes
<1>7. IsRecord(cur)' /\ PhaseOf(cur)' = mem.outcome
      /\ \A t \in Txn \ {cur} : (IsRecord(t)' <=> IsRecord(t)) /\ PhaseOf(t)' = PhaseOf(t)
  BY <1>1, <1>4, <1>5, <1>6 DEF IsRecord, PhaseOf
<1>8. JournalAgrees'
  <2>1. \A i \in journal : i.id \in Txn
    BY DEF IInv, DiskInv, DiskTypes, Entry
  <2>2. ASSUME NEW t \in Txn, PhaseOf(t)' \in Settled
        PROVE  \E i \in journal : i.id = t /\ i.outcome = txn'[t].phase
    <3>1. CASE t = cur
      <4>1. EntryOf(cur, mem).id = cur /\ EntryOf(cur, mem).outcome = mem.outcome
        BY DEF EntryOf
      <4> QED
        BY <1>3, <1>4, <1>6, <3>1, <4>1
    <3>2. CASE t # cur
      BY <1>6, <1>7, <2>2, <3>2 DEF IInv, DiskInv, JournalAgrees
    <3> QED
      BY <3>1, <3>2
  <2>3. ASSUME NEW i \in journal
        PROVE  /\ PhaseOf(i.id)' \in {"committing", "committed", "rolling-back", "rolled-back"}
               /\ i.outcome = txn'[i.id].outcome
    <3>1. CASE i.id = cur
      BY <1>1, <1>3, <1>4, <1>6, <1>7, <3>1 DEF IInv, DiskInv, JournalAgrees, Settled
    <3>2. CASE i.id # cur
      BY <1>6, <1>7, <2>1, <3>2 DEF IInv, DiskInv, JournalAgrees
    <3> QED
      BY <3>1, <3>2
  <2> QED
    BY <1>1, <2>2, <2>3 DEF IInv, DiskInv, JournalAgrees
<1>9. DiskInv'
  <2>1. DiskTypes' /\ NoMixedSnapshot' /\ MixtureIsPending'
    BY <1>1, <1>6 DEF IInv, DiskInv, DiskTypes, NoMixedSnapshot, MixtureIsPending, hist
  <2>2. \A t \in Txn : IsRecord(t)' => Consistent(txn[t])'
    BY <1>1, <1>5, <1>6, <1>7 DEF IInv, DiskInv, Consistent
  <2>3. OriginalsKept'
    <3>1. \A t \in Txn : Unsettled(t)' => Unsettled(t)
      BY <1>4, <1>6, <1>7 DEF Unsettled
    <3> QED
      BY <1>1, <3>1 DEF IInv, DiskInv, OriginalsKept
  <2>4. GoodIsProved'
    BY <1>1, <1>4, <1>6, <1>7 DEF IInv, DiskInv, GoodIsProved, KnownGoodWasProved, Settled, hist
  <2> QED
    BY <1>8, <2>1, <2>2, <2>3, <2>4 DEF DiskInv
<1>10. Held'
  BY <1>1, <1>2, <1>4, <1>5, SaveHeld DEF Early
<1>11. OpTypes' /\ Control'
  BY <1>1, <1>2, <1>4, <1>5 DEF IInv, OpInv, OpTypes, Control, Labels, Settling, locks, hist
<1>12. PhaseFits' /\ SwapHeld'
  BY <1>1, <1>2, <1>4 DEF IInv, OpInv, PhaseFits, SwapHeld, Clear, Swapping
<1>13. GoodHeld'
  BY <1>1, <1>4 DEF GoodHeld, Settled
<1> QED
  BY <1>9, <1>10, <1>11, <1>12, <1>13 DEF IInv, OpInv

LEMMA PurgeStep ==
  ASSUME Assumptions, IInv, Purge
  PROVE  IInv'
<1>1. /\ pc = "purge" /\ kept' = kept \ {cur} /\ Leave
      /\ UNCHANGED <<files, stage, txn, snap, head, good, journal, child, hist>>
  BY DEF Purge
<1>2. kind \in {"promote", "reconcile"} /\ pc \notin Early
  BY <1>1 DEF IInv, OpInv, OpTypes, Control, Early
<1>3. ~Unsettled(cur)
  BY <1>1, <1>2, Saved DEF IInv, OpInv, PhaseFits, Unsettled
<1>4. OriginalsKept'
  BY <1>1, <1>3 DEF IInv, DiskInv, OriginalsKept, Unsettled, IsRecord
<1>5. DiskInv'
  <2>1. DiskTypes' /\ NoMixedSnapshot' /\ MixtureIsPending'
    BY <1>1 DEF IInv, DiskInv, DiskTypes, NoMixedSnapshot, MixtureIsPending, hist
  <2>2. \A t \in Txn : IsRecord(t)' => Consistent(txn[t])'
    BY <1>1 DEF IInv, DiskInv, IsRecord, Consistent
  <2>3. JournalAgrees' /\ GoodIsProved'
    BY <1>1 DEF IInv, DiskInv, JournalAgrees, PhaseOf, IsRecord, GoodIsProved, KnownGoodWasProved, hist
  <2> QED
    BY <1>4, <2>1, <2>2, <2>3 DEF DiskInv
<1>6. failures' \in 0 .. MaxFailures
  BY <1>1 DEF IInv, OpInv, OpTypes, hist
<1> QED
  BY <1>1, <1>5, <1>6, LeaveOp DEF IInv

-----------------------------------------------------------------------------
(* Recovery begins, from what is on disk. *)

LEMMA ReconcileStep ==
  ASSUME Assumptions, IInv, NEW t \in Txn, Reconcile(t)
  PROVE  IInv'
<1>1. /\ pc = "idle" /\ IsRecord(t) /\ kind' = "reconcile" /\ cur' = t /\ mem' = txn[t]
      /\ pc' = (IF txn[t].phase \in Settled \cup {"committing"} THEN "settle" ELSE "rbLock")
      /\ UNCHANGED <<disk, child, locks, taking, hist>>
  BY DEF Reconcile
<1>2. txn[t] \in Record /\ txn[t] # None /\ Consistent(txn[t])
  BY <1>1 DEF IInv, DiskInv, DiskTypes, IsRecord
<1>3. DiskInv'
  BY <1>1, DiskStays DEF IInv, hist
<1>4. OpTypes' /\ Control'
  BY <1>1, <1>2 DEF IInv, OpInv, OpTypes, Control, Labels, RollingBack, Settling, locks, hist
<1>5. Held'
  BY <1>1, <1>2 DEF Held, disk, Consistent, IsRecord
<1>6. PhaseFits'
  BY <1>1, <1>2 DEF PhaseFits, Record, Phases, Open, Settled, Swapping
<1>7. SwapHeld'
  BY <1>1 DEF SwapHeld, Clear
<1>8. GoodHeld'
  BY <1>1, <1>2 DEF IInv, DiskInv, GoodIsProved, GoodHeld, hist
<1> QED
  BY <1>3, <1>4, <1>5, <1>6, <1>7, <1>8 DEF IInv, OpInv

LEMMA RecoverSwapStep ==
  ASSUME Assumptions, IInv, RecoverSwap
  PROVE  IInv'
<1>1. /\ pc = "idle" /\ stage # None /\ writer' = "op" /\ pc' = "rbSwaps" /\ kind' = "recover"
      /\ UNCHANGED <<disk, child, vault, cur, mem, taking, hist>>
  BY DEF RecoverSwap
<1>2. cur = None /\ mem = None
  BY <1>1 DEF IInv, OpInv, Control
<1>3. DiskInv'
  BY <1>1, DiskStays DEF IInv, hist
<1>4. OpTypes' /\ Control'
  BY <1>1, <1>2 DEF IInv, OpInv, OpTypes, Control, Labels, RollingBack, hist
<1>5. Held' /\ PhaseFits' /\ SwapHeld' /\ GoodHeld'
  BY <1>1, <1>2 DEF Held, PhaseFits, SwapHeld, GoodHeld, Clear, disk
<1> QED
  BY <1>3, <1>4, <1>5 DEF IInv, OpInv

-----------------------------------------------------------------------------
(* Failures, kills, and the rest of the world. *)

LEMMA FaultStep ==
  ASSUME Assumptions, IInv, Fault
  PROVE  IInv'
<1>1. /\ pc # "idle" /\ Throw /\ failures' = failures + 1 /\ failures < MaxFailures
      /\ stage' = (IF pc \in {"recordSwap", "replaceRest"} \/ (pc = "replace" /\ files = stage.before)
                   THEN None ELSE stage)
      /\ files' = (IF pc = "replaceRest" THEN stage.before ELSE files)
      /\ txn' = (IF pc = "prepare" THEN [txn EXCEPT ![cur] = None] ELSE txn)
      /\ UNCHANGED <<kept, snap, head, good, journal, child, proved>>
  BY DEF Fault, MayFail
<1>2. failures' \in 0 .. MaxFailures
  BY <1>1 DEF IInv, OpInv, OpTypes, Assumptions, BoundAssumption
<1>3. OpInv'
  BY <1>1, <1>2, ThrowOp DEF IInv
<1>4. CASE pc # "prepare"
  <2>1. CASE pc = "replaceRest"
    <3>1. stage \in Staged /\ stage.before \in Version
      BY <2>1 DEF IInv, OpInv, SwapHeld, DiskInv, DiskTypes, Staged
    <3>2. files' \in Version /\ files' # Mixed /\ stage' = None
      BY <1>1, <2>1, <3>1, Constants
    <3> QED
      BY <1>1, <1>3, <1>4, <3>2, SwapOnDisk DEF IInv, MixtureIsPending
  <2>2. CASE pc # "replaceRest"
    <3>1. files' = files /\ (stage' # stage => files # Mixed)
      BY <1>1, <2>2 DEF IInv, OpInv, SwapHeld, DiskInv, MixtureIsPending
    <3>2. stage' \in {stage, None}
      BY <1>1
    <3> QED
      BY <1>1, <1>3, <1>4, <3>1, <3>2, SwapOnDisk DEF IInv, DiskInv, DiskTypes, MixtureIsPending
  <2> QED
    BY <2>1, <2>2
<1>5. CASE pc = "prepare"
  <2>1. /\ kind = "promote" /\ cur \in Txn /\ txn[cur] = Bare /\ txn' = [txn EXCEPT ![cur] = None]
        /\ UNCHANGED <<files, stage>>
    BY <1>1, <1>5 DEF IInv, OpInv, OpTypes, Control, Held, RollingBack, Swapping, Settling
  <2>2. /\ txn'[cur] = None /\ \A t \in Txn \ {cur} : txn'[t] = txn[t]
        /\ txn' \in [Txn -> Record \cup {None, Bare}]
    BY <2>1 DEF IInv, DiskInv, DiskTypes
  <2>3. \A t \in Txn : (IsRecord(t)' <=> IsRecord(t)) /\ PhaseOf(t)' = PhaseOf(t)
                       /\ (IsRecord(t) => txn'[t] = txn[t])
    BY <2>1, <2>2 DEF IsRecord, PhaseOf
  <2>4. JournalAgrees'
    <3>1. \A i \in journal : i.id \in Txn /\ IsRecord(i.id)
      BY DEF IInv, DiskInv, DiskTypes, Entry, JournalAgrees, PhaseOf
    <3>2. \A t \in Txn : PhaseOf(t) \in Settled => IsRecord(t)
      BY DEF PhaseOf, Settled
    <3> QED
      BY <1>1, <2>3, <3>1, <3>2 DEF IInv, DiskInv, JournalAgrees
  <2>5. DiskTypes' /\ NoMixedSnapshot' /\ MixtureIsPending'
    BY <1>1, <2>1, <2>2 DEF IInv, DiskInv, DiskTypes, NoMixedSnapshot, MixtureIsPending
  <2>6. \A t \in Txn : IsRecord(t)' => Consistent(txn[t])'
    BY <1>1, <2>3 DEF IInv, DiskInv, Consistent
  <2>7. OriginalsKept' /\ GoodIsProved'
    BY <1>1, <2>3 DEF IInv, DiskInv, OriginalsKept, Unsettled, GoodIsProved, KnownGoodWasProved
  <2> QED
    BY <1>3, <2>4, <2>5, <2>6, <2>7 DEF IInv, DiskInv
<1> QED
  BY <1>4, <1>5

LEMMA CrashStep ==
  ASSUME Assumptions, IInv, Crash
  PROVE  IInv'
<1>1. /\ failures' = failures + 1 /\ failures < MaxFailures
      /\ pc' = "idle" /\ kind' = "none" /\ cur' = None /\ mem' = None
      /\ writer' = Left(writer, "op") /\ vault' = Left(vault, "op")
      /\ taking' = [taking EXCEPT !["op"] = "off"]
      /\ UNCHANGED <<disk, child, proved>>
  BY DEF Crash, MayFail
<1>2. DiskInv'
  BY <1>1, DiskStays DEF IInv
<1>3. taking'["op"] = "off" /\ OpTypes'
  BY <1>1 DEF IInv, OpInv, OpTypes, Left, Labels, Assumptions, BoundAssumption
<1> QED
  BY <1>1, <1>2, <1>3, GoneOp DEF IInv

LEMMA CrashUserStep ==
  ASSUME Assumptions, IInv, CrashUser
  PROVE  IInv'
<1>1. /\ failures' = failures + 1 /\ failures < MaxFailures
      /\ taking' = [taking EXCEPT !["user"] = "off"]
      /\ writer' = Left(writer, "user") /\ vault' = Left(vault, "user")
      /\ UNCHANGED <<disk, child, opVars, proved>>
  BY DEF CrashUser, MayFail
<1>2. DiskInv'
  BY <1>1, DiskStays DEF IInv
<1>3. OpTypes' /\ Control'
  BY <1>1 DEF IInv, OpInv, OpTypes, Control, Left, opVars, Assumptions, BoundAssumption
<1>4. Held'
  BY <1>1 DEF IInv, OpInv, Held, disk, opVars, Consistent, Unsettled, IsRecord
<1>5. PhaseFits' /\ SwapHeld' /\ GoodHeld'
  BY <1>1 DEF IInv, OpInv, PhaseFits, SwapHeld, GoodHeld, disk, opVars
<1> QED
  BY <1>2, <1>3, <1>4, <1>5 DEF IInv, OpInv

(* Whoever writes managed files does so one whole version at a time; once  *)
(* a promotion has been proved good only people could.                     *)
LEMMA WriteStep ==
  ASSUME Assumptions, IInv, NEW v \in Version,
         (v \in Edits /\ Edit(v)) \/ InstallerWrites(v)
  PROVE  IInv'
<1>1. /\ files # Mixed /\ files' = v
      /\ UNCHANGED <<stage, txn, kept, snap, head, good, journal, child, locks, opVars, taking, hist>>
      /\ Edits # {} \/ child = "installer"
  BY DEF Edit, InstallerWrites
<1>2. files' # Mixed
  BY <1>1, Constants
<1>3. DiskInv'
  BY <1>1, <1>2, SwapOnDisk DEF IInv, DiskInv, DiskTypes, MixtureIsPending, hist
<1>4. OpTypes' /\ Control'
  BY <1>1 DEF IInv, OpInv, OpTypes, Control, opVars, locks, hist
<1>5. Held'
  BY <1>1 DEF IInv, OpInv, Held, opVars, Consistent, Unsettled, IsRecord
<1>6. PhaseFits' /\ SwapHeld'
  BY <1>1, <1>2 DEF IInv, OpInv, PhaseFits, SwapHeld, opVars
<1>7. GoodHeld'
  BY <1>1 DEF IInv, OpInv, GoodHeld, opVars, hist
<1> QED
  BY <1>3, <1>4, <1>5, <1>6, <1>7 DEF IInv, OpInv

LEMMA ChildStopsStep ==
  ASSUME Assumptions, IInv, ChildStops
  PROVE  IInv'
<1>1. child' = "none" /\ UNCHANGED <<disk, locks, opVars, taking, hist>>
  BY DEF ChildStops
<1>2. DiskInv'
  BY <1>1, DiskStays DEF IInv, hist
<1>3. OpTypes' /\ Control'
  BY <1>1 DEF IInv, OpInv, OpTypes, Control, opVars, locks, hist
<1>4. Held'
  BY <1>1 DEF IInv, OpInv, Held, disk, opVars, Consistent, Unsettled, IsRecord
<1>5. PhaseFits' /\ SwapHeld' /\ GoodHeld'
  BY <1>1 DEF IInv, OpInv, PhaseFits, SwapHeld, GoodHeld, disk, opVars, hist
<1> QED
  BY <1>2, <1>3, <1>4, <1>5 DEF IInv, OpInv

-----------------------------------------------------------------------------
(* The invariant *)

LEMMA InitIInv == ASSUME Assumptions, Init PROVE IInv
<1>1. DiskTypes
  <2>1. files \in Version /\ txn \in [Txn -> Record \cup {None, Bare}]
    BY Constants DEF Init
  <2>2. snap \in Seq(Version \cup {Mixed}) /\ Len(snap) = 0
    BY DEF Init
  <2>3. head \in 0 .. Len(snap) /\ good \in 0 .. Len(snap)
    BY <2>2 DEF Init
  <2> QED
    BY <2>1, <2>2, <2>3 DEF Init, DiskTypes
<1>2. NoMixedSnapshot /\ MixtureIsPending
  BY Constants DEF Init, NoMixedSnapshot, MixtureIsPending
<1>3. \A t \in Txn : ~IsRecord(t) /\ PhaseOf(t) = "none"
  BY DEF Init, IsRecord, PhaseOf
<1>4. JournalAgrees /\ OriginalsKept /\ GoodIsProved
  BY <1>3 DEF Init, JournalAgrees, OriginalsKept, Unsettled, GoodIsProved, KnownGoodWasProved, Settled
<1>5. DiskInv
  BY <1>1, <1>2, <1>3, <1>4 DEF DiskInv
<1>6. OpTypes
  BY DEF Init, OpTypes, Labels, Assumptions, BoundAssumption
<1>7. Control /\ PhaseFits /\ Held /\ SwapHeld /\ GoodHeld
  BY DEF Init, Control, PhaseFits, Held, SwapHeld, GoodHeld, Clear, Swapping
<1> QED
  BY <1>5, <1>6, <1>7 DEF IInv, OpInv

LEMMA StutterStep ==
  ASSUME IInv, UNCHANGED vars
  PROVE  IInv'
<1> USE DEF vars, opVars, locks, hist
<1>1. DiskInv'
  BY DiskStays DEF IInv
<1>2. OpTypes' /\ Control'
  BY DEF IInv, OpInv, OpTypes, Control
<1>3. Held'
  BY DEF IInv, OpInv, Held, disk, Consistent, Unsettled, IsRecord
<1>4. PhaseFits' /\ SwapHeld' /\ GoodHeld'
  BY DEF IInv, OpInv, PhaseFits, SwapHeld, GoodHeld, disk
<1> QED
  BY <1>1, <1>2, <1>3, <1>4 DEF IInv, OpInv

LEMMA StepStep ==
  ASSUME Assumptions, IInv, Step
  PROVE  IInv'
<1>1. ASSUME SnapshotStep("op") PROVE IInv'
  BY <1>1, SnapshotLockStep, SnapshotCaptureStep, SnapshotNoteStep DEF SnapshotStep
<1>2. ASSUME SwapLock \/ PrepareDir \/ Prepare \/ Swapped \/ Verified \/ Analyze \/ Probe
      PROVE  IInv'
  BY <1>2, SwapLockStep, PrepareDirStep, PrepareStep, SwappedStep, VerifiedStep, AnalyzeStep, ProbeStep
<1>3. ASSUME StartSwap \/ StartInstall \/ StartVerify \/ Snapshotted \/ Decide PROVE IInv'
  BY <1>3, CheckpointStep DEF StartSwap, StartInstall, StartVerify, Snapshotted, Decide
<1>4. ASSUME ChooseRestart \/ RunInstaller \/ InstallerEnds \/ Launch PROVE IInv'
  BY <1>4, RestartStep
<1>5. ASSUME \/ MakeStaging \/ RecordSwap \/ ReplaceSome \/ ReplaceRest \/ CommitSwap
             \/ CleanPartly \/ CleanSwap
      PROVE  IInv'
  BY <1>5, SwapsStep, CleanPartlyStep
<1>6. ASSUME RollbackLock \/ RollbackSwap \/ RollbackClean \/ RollbackCheck \/ Undone \/ Report
      PROVE  IInv'
  BY <1>6, RollbackLockStep, RollbackSwapStep, RollbackCleanStep, RollbackCheckStep, UndoneStep, ReportStep
<1>7. ASSUME Settle \/ WriteState \/ AppendJournal \/ SettlePhase \/ Purge PROVE IInv'
  BY <1>7, SettleStep, WriteStateStep, AppendJournalStep, SettlePhaseStep, PurgeStep
<1> QED
  BY <1>1, <1>2, <1>3, <1>4, <1>5, <1>6, <1>7 DEF Step

LEMMA InvStep ==
  ASSUME Assumptions, IInv, [Next]_vars
  PROVE  IInv'
<1>1. CASE UNCHANGED vars
  BY <1>1, StutterStep
<1>2. ASSUME NEW t \in Txn, Promote(t) \/ Reconcile(t) PROVE IInv'
  BY <1>2, PromoteStep, ReconcileStep
<1>3. CASE RecoverSwap \/ Fault \/ Crash \/ CrashUser \/ ChildStops
  BY <1>3, RecoverSwapStep, FaultStep, CrashStep, CrashUserStep, ChildStopsStep
<1>4. CASE Step
  BY <1>4, StepStep
<1>5. CASE SnapshotStep("user")
  BY <1>5, SnapshotLockStep, SnapshotCaptureStep, SnapshotNoteStep DEF SnapshotStep
<1>6. ASSUME NEW v \in Edits, Edit(v) PROVE IInv'
  BY <1>6, WriteStep DEF Assumptions, VersionAssumption
<1>7. ASSUME NEW v \in Installed, InstallerWrites(v) PROVE IInv'
  BY <1>7, WriteStep DEF Assumptions, VersionAssumption
<1> QED
  BY <1>1, <1>2, <1>3, <1>4, <1>5, <1>6, <1>7 DEF Next

LEMMA InvImplies == ASSUME Assumptions, IInv PROVE RecordsAgree
<1>1. TypeOK
  BY DEF IInv, DiskInv, DiskTypes, OpInv, OpTypes, TypeOK
<1> QED
  BY <1>1 DEF IInv, DiskInv, GoodIsProved, RecordsAgree, ProfileInv

LEMMA Invariance == ASSUME Assumptions PROVE Spec => []IInv
<1>1. Init => IInv
  BY InitIInv
<1>2. IInv /\ [Next]_vars => IInv'
  BY InvStep
<1> QED
  BY <1>1, <1>2, PTL DEF Spec

(* The records of a profile agree after every step, kills included: a      *)
(* half-swapped profile is announced and never captured, a settled         *)
(* transaction has one entry of the journal, one that is not settled has   *)
(* its backups, and the last known good was verified unless people edit.   *)
THEOREM RecordsAlwaysAgree == ASSUME Assumptions PROVE Spec => []RecordsAgree
<1>1. IInv => RecordsAgree
  BY InvImplies
<1> QED
  BY <1>1, Invariance, PTL

-----------------------------------------------------------------------------
(* Which steps touch the record of a transaction: those of a promotion or  *)
(* a rollback before the decision, and the settlement of a decision.       *)
LEMMA Saving ==
  ASSUME [Next]_vars, txn' # txn
  PROVE  \/ PrepareDir \/ Prepare \/ (Fault /\ pc = "prepare")
         \/ StartSwap \/ StartInstall \/ StartVerify \/ Snapshotted \/ Decide
         \/ Swapped \/ Verified \/ RollbackCheck \/ Report \/ SettlePhase
<1>1. txn' = txn => FALSE
  OBVIOUS
<1>2. ~UNCHANGED vars /\ ~UNCHANGED disk
  BY DEF vars, disk
<1>3. Next
  BY <1>2
<1> QED
  BY <1>1, <1>3 DEF Next, Step, SnapshotStep, SnapshotLock, SnapshotCapture, SnapshotNote,
     Promote, Reconcile, RecoverSwap, SwapLock, ChooseRestart, RunInstaller, InstallerEnds,
     Launch, Probe, Analyze, MakeStaging, RecordSwap, ReplaceSome, ReplaceRest, CommitSwap,
     CleanPartly, CleanSwap, RollbackLock, RollbackSwap, RollbackClean, Undone, Settle,
     WriteState, AppendJournal, Purge, Fault, Crash, CrashUser, ChildStops, Edit,
     InstallerWrites, disk

LEMMA Saves ==
  ASSUME Assumptions, IInv, [Next]_vars, txn' # txn
  PROVE  /\ cur \in Txn /\ \A t \in Txn \ {cur} : txn'[t] = txn[t]
         /\ \/ PhaseOf(cur) \in Open \cup {"none", "rolling-back"}
            \/ /\ pc = "phase" /\ txn'[cur] = [mem EXCEPT !.phase = mem.outcome]
               /\ mem \in Record /\ Consistent(mem) /\ PhaseOf(cur) = mem.phase
               /\ mem.phase \in {"committing", "rolling-back"}
<1>1. \/ PrepareDir \/ Prepare \/ (Fault /\ pc = "prepare")
      \/ StartSwap \/ StartInstall \/ StartVerify \/ Snapshotted \/ Decide
      \/ Swapped \/ Verified \/ RollbackCheck \/ Report \/ SettlePhase
  BY Saving
<1>2. CASE pc \in {"prepareDir", "prepare"}
  <2>1. cur \in Txn /\ txn[cur] \in {None, Bare}
    BY <1>2 DEF IInv, OpInv, OpTypes, Control, Held, RollingBack, Swapping, Settling
  <2>2. \E r : txn' = [txn EXCEPT ![cur] = r]
    BY <1>1, <1>2 DEF PrepareDir, Prepare, Fault, Save, StartSwap, StartInstall, StartVerify,
       Snapshotted, Decide, Checkpoint, Swapped, Verified, RollbackCheck, Report, SettlePhase
  <2> QED
    BY <2>1, <2>2 DEF IInv, DiskInv, DiskTypes, PhaseOf, IsRecord
<1>3. CASE pc \notin {"prepareDir", "prepare"}
  <2>1. \/ StartSwap \/ StartInstall \/ StartVerify \/ Snapshotted \/ Decide
        \/ Swapped \/ Verified \/ RollbackCheck \/ Report \/ SettlePhase
    BY <1>1, <1>3 DEF PrepareDir, Prepare
  <2>2. /\ pc \in {"swapping", "installing", "verifying", "snapshotted", "committing",
                   "swapped", "verified", "rbCheck", "report", "phase"}
        /\ pc = "phase" => SettlePhase
    BY <2>1 DEF StartSwap, StartInstall, StartVerify, Snapshotted, Decide, Checkpoint,
       Swapped, Verified, RollbackCheck, Report, SettlePhase
  <2>3. kind \in {"promote", "reconcile"} /\ pc \notin Early
    BY <2>2 DEF IInv, OpInv, OpTypes, Control, Early
  <2>4. /\ cur \in Txn /\ IsRecord(cur) /\ mem \in Record /\ mem # None /\ Consistent(mem)
        /\ txn[cur].phase = mem.phase
    BY <2>3, Saved
  <2>5. \E r : txn' = [txn EXCEPT ![cur] = r]
    BY <2>1 DEF Save, StartSwap, StartInstall, StartVerify, Snapshotted, Decide, Checkpoint,
       Swapped, Verified, RollbackCheck, Report, SettlePhase
  <2>6. \A t \in Txn \ {cur} : txn'[t] = txn[t]
    BY <2>5 DEF IInv, DiskInv, DiskTypes
  <2>7. PhaseOf(cur) = mem.phase
    BY <2>4 DEF PhaseOf
  <2>8. CASE pc # "phase"
    BY <2>2, <2>4, <2>6, <2>7, <2>8 DEF IInv, OpInv, PhaseFits, Open
  <2>9. CASE pc = "phase"
    <3>1. txn' = [txn EXCEPT ![cur] = [mem EXCEPT !.phase = mem.outcome]]
      BY <2>2, <2>9 DEF SettlePhase, Save
    <3>2. txn'[cur] = [mem EXCEPT !.phase = mem.outcome]
      BY <2>4, <3>1 DEF IInv, DiskInv, DiskTypes
    <3>3. mem.phase \in {"committing", "rolling-back"}
      BY <2>4, <2>9 DEF IInv, OpInv, PhaseFits
    <3> QED
      BY <2>4, <2>6, <2>7, <2>9, <3>2, <3>3
  <2> QED
    BY <2>8, <2>9
<1> QED
  BY <1>2, <1>3

LEMMA DecisionStep ==
  ASSUME Assumptions, IInv, [Next]_vars
  PROVE  DecisionKept
<1>1. SUFFICES ASSUME NEW t \in Txn
               PROVE  /\ PhaseOf(t) = "committing" => PhaseOf(t)' \in {"committing", "committed"}
                      /\ PhaseOf(t) \in Settled => txn'[t] = txn[t]
  BY DEF DecisionKept
<1>2. CASE txn'[t] = txn[t]
  BY <1>2 DEF PhaseOf, IsRecord
<1>3. CASE txn'[t] # txn[t]
  <2>1. txn' # txn
    BY <1>3
  <2>2. /\ t = cur
        /\ \/ PhaseOf(t) \in Open \cup {"none", "rolling-back"}
           \/ /\ pc = "phase" /\ txn'[t] = [mem EXCEPT !.phase = mem.outcome]
              /\ mem \in Record /\ Consistent(mem) /\ PhaseOf(t) = mem.phase
              /\ mem.phase \in {"committing", "rolling-back"}
    BY <1>3, <2>1, Saves
  <2>3. CASE PhaseOf(t) \in Open \cup {"none", "rolling-back"}
    BY <2>3 DEF Open, Settled
  <2>4. CASE /\ txn'[t] = [mem EXCEPT !.phase = mem.outcome]
             /\ mem \in Record /\ Consistent(mem) /\ PhaseOf(t) = mem.phase
             /\ mem.phase \in {"committing", "rolling-back"}
    <3>1. txn'[t] \in Record /\ txn'[t].phase = mem.outcome
      BY <2>4 DEF Record, Phases, Outcomes
    <3>2. PhaseOf(t)' = mem.outcome
      BY <3>1, Constants DEF PhaseOf, IsRecord
    <3> QED
      BY <2>4, <3>2 DEF Consistent, Settled
  <2> QED
    BY <2>2, <2>3, <2>4
<1> QED
  BY <1>2, <1>3

(* A durable decision to commit is completed or stays, whatever is killed  *)
(* or retried, and what is settled stays as it is.                         *)
THEOREM DecisionsAreFinal == ASSUME Assumptions PROVE Spec => DecisionIsFinal
<1>1. IInv /\ [Next]_vars => [DecisionKept]_vars
  BY DecisionStep
<1> QED
  BY <1>1, Invariance, PTL DEF Spec, DecisionIsFinal

-----------------------------------------------------------------------------
(* When nobody edits.  Then the files are known at every step: an          *)
(* installer runs only while its transaction is `installing', what is      *)
(* staged belongs to the one transaction that swaps or rolls back, and the *)
(* vault lock keeps users' snapshots out of a settlement.                  *)

QuietDisk ==
  /\ child = "installer" =>
       \E t \in Txn : PhaseOf(t) = "installing" /\ (kind # "none" /\ cur = t => pc = "install")
  /\ stage # None =>
       \E t \in Txn : /\ PhaseOf(t) \in {"swapping", "rolling-back"}
                      /\ stage # Bare => stage.after \in {Candidate[t], txn[t].before}
  /\ \A t \in Txn : PhaseOf(t) = "committing" => files = txn[t].receiptAfter

QuietOp ==
  kind \in {"promote", "reconcile"} /\ pc \notin Early =>
    /\ mem.before = txn[cur].before
    /\ mem.phase = "committing" =>
         mem.receiptAfter = txn[cur].receiptAfter /\ mem.post = txn[cur].post
    /\ pc \in {"swapping", "mkStaging", "recordSwap", "replace"} =>
         files = mem.before \/ (mem.phase = "rolling-back" /\ files = Candidate[cur])
    /\ pc \in {"replace", "replaceRest", "commitSwap"} => stage.after = Target
    /\ pc = "replaceRest" => files = Mixed \/ (files = stage.before /\ files = stage.after)
    /\ pc \in {"commitSwap", "cleanSwap"} => files = Target
    /\ pc \in {"undone", "report"} => files = mem.before
    /\ pc \in {"settle", "state", "entry", "phase"} /\ mem.phase = "rolling-back" =>
         files = mem.before /\ stage = None
    /\ pc \in {"snapshotted", "committing"} => files = mem.receiptAfter
    /\ pc \in {"entry", "phase"} /\ mem.phase = "committing" =>
         snap[mem.post] = mem.receiptAfter /\ head = mem.post

VaultHeld ==
  /\ \A p \in {"op", "user"} : taking[p] # "off" => vault = p
  /\ pc \in {"state", "entry", "phase"} => vault = "op"

Quiet == QuietDisk /\ QuietOp /\ VaultHeld

LEMMA VaultMoves ==
  ASSUME IInv, VaultHeld,
         \/ /\ UNCHANGED <<vault, taking>>
            /\ pc' \in {"state", "entry", "phase"} => pc \in {"state", "entry", "phase"}
         \/ /\ vault' = Freed(vault, "op") /\ taking' = [taking EXCEPT !["op"] = "off"]
            /\ pc' \notin {"state", "entry", "phase"}
  PROVE  VaultHeld'
BY DEF IInv, OpInv, OpTypes, VaultHeld, Freed

LEMMA VaultThrows ==
  ASSUME IInv, VaultHeld, Throw \/ Leave
  PROVE  VaultHeld'
<1>1. /\ vault' = Freed(vault, "op") /\ taking' = [taking EXCEPT !["op"] = "off"]
      /\ pc' \notin {"state", "entry", "phase"}
  BY DEF Throw, Leave
<1> QED
  BY <1>1, VaultMoves

(* Between its lock and its note a snapshot excludes settlements, and a    *)
(* settlement excludes snapshots.                                          *)
LEMMA VaultSnapshot ==
  ASSUME IInv, VaultHeld, NEW p \in {"op", "user"}, SnapshotStep(p)
  PROVE  VaultHeld'
<1>1. taking \in [{"op", "user"} -> {"off", "locked", "written"}]
  BY DEF IInv, OpInv, OpTypes
<1>2. taking["op"] # "off" => pc \in {"preSnapshot", "postSnapshot"}
  BY DEF IInv, OpInv, Control
<1>3. CASE Throw
  BY <1>3, VaultThrows
<1>4. CASE SnapshotLock(p) /\ ~Throw
  <2>1. /\ CanTake(vault) /\ vault' = p /\ taking' = [taking EXCEPT ![p] = "locked"]
        /\ pc' = pc
    BY <1>4 DEF SnapshotLock, opVars
  <2> QED
    BY <1>1, <2>1 DEF VaultHeld, CanTake
<1>5. CASE SnapshotCapture(p) /\ ~Throw
  <2>1. taking[p] = "locked" /\ vault = p /\ pc \notin {"state", "entry", "phase"}
    BY <1>2, <1>5 DEF SnapshotCapture, VaultHeld
  <2>2. pc' = pc
    BY <1>5 DEF SnapshotCapture, opVars
  <2>3. \/ vault' = vault /\ taking' = [taking EXCEPT ![p] = "written"]
        \/ taking' = [taking EXCEPT ![p] = "off"]
    BY <1>5 DEF SnapshotCapture, locks
  <2>4. \A q \in {"op", "user"} \ {p} : taking[q] = "off"
    BY <1>1, <2>1 DEF VaultHeld
  <2> QED
    BY <1>1, <2>1, <2>2, <2>3, <2>4 DEF VaultHeld
<1>6. CASE SnapshotNote(p)
  <2>1. taking[p] = "written" /\ vault = p /\ taking' = [taking EXCEPT ![p] = "off"]
    BY <1>6 DEF SnapshotNote, VaultHeld
  <2>2. pc' \notin {"state", "entry", "phase"}
    BY <1>2, <1>6, <2>1 DEF SnapshotNote, VaultHeld, opVars
  <2>3. \A q \in {"op", "user"} \ {p} : taking[q] = "off"
    BY <1>1, <2>1 DEF VaultHeld
  <2> QED
    BY <1>1, <2>1, <2>2, <2>3 DEF VaultHeld
<1> QED
  BY <1>3, <1>4, <1>5, <1>6 DEF SnapshotStep

LEMMA VaultStep ==
  ASSUME IInv, VaultHeld, [Next]_vars
  PROVE  VaultHeld'
<1>1. CASE UNCHANGED vars
  BY <1>1, VaultMoves DEF vars, locks, opVars
<1>2. CASE SnapshotStep("op") \/ SnapshotStep("user")
  BY <1>2, VaultSnapshot
<1>3. CASE (\E t \in Txn : Promote(t) \/ Reconcile(t)) \/ RecoverSwap \/ ChildStops
           \/ (\E v \in Edits : Edit(v)) \/ (\E v \in Installed : InstallerWrites(v))
  BY <1>3, VaultMoves DEF Promote, Reconcile, RecoverSwap, ChildStops, Edit, InstallerWrites,
     locks, opVars
<1>4. CASE Fault
  BY <1>4, VaultThrows DEF Fault
<1>5. CASE Crash
  BY <1>5 DEF Crash, Left, VaultHeld, IInv, OpInv, OpTypes
<1>6. CASE CrashUser
  BY <1>6 DEF CrashUser, Left, VaultHeld, IInv, OpInv, OpTypes, opVars
<1>7. CASE \/ SwapLock \/ PrepareDir \/ Prepare \/ StartSwap \/ Swapped \/ ChooseRestart
           \/ StartInstall \/ RunInstaller \/ InstallerEnds \/ StartVerify \/ Launch \/ Probe
           \/ Verified \/ Analyze \/ Snapshotted \/ Decide
  <2>1. CASE Throw \/ Leave
    BY <2>1, VaultThrows
  <2>2. CASE ~(Throw \/ Leave)
    <3>1. UNCHANGED <<vault, taking>> /\ pc' \notin {"state", "entry", "phase"}
      BY <1>7, <2>2 DEF SwapLock, PrepareDir, Prepare, StartSwap, Swapped, ChooseRestart,
         StartInstall, RunInstaller, InstallerEnds, StartVerify, Launch, Probe, Verified, Analyze,
         Snapshotted, Decide, Checkpoint, Goto, locks, opVars
    <3> QED
      BY <3>1, VaultMoves
  <2> QED
    BY <2>1, <2>2
<1>8. CASE \/ MakeStaging \/ RecordSwap \/ ReplaceSome \/ ReplaceRest \/ CommitSwap
           \/ CleanPartly \/ CleanSwap
           \/ RollbackLock \/ RollbackSwap \/ RollbackClean \/ RollbackCheck \/ Undone \/ Report
  <2>1. CASE Throw \/ Leave
    BY <2>1, VaultThrows
  <2>2. CASE ~(Throw \/ Leave)
    <3>1. UNCHANGED <<vault, taking>> /\ pc' \notin {"state", "entry", "phase"}
      BY <1>8, <2>2 DEF MakeStaging, RecordSwap, ReplaceSome, ReplaceRest, CommitSwap,
         CleanPartly, CleanSwap, RollbackLock, RollbackSwap, RollbackClean, RollbackCheck,
         Undone, Report, Goto, locks, opVars
    <3> QED
      BY <3>1, VaultMoves
  <2> QED
    BY <2>1, <2>2
<1>9. CASE Settle \/ WriteState \/ AppendJournal \/ SettlePhase \/ Purge
  <2>1. CASE Throw \/ Leave
    BY <2>1, VaultThrows
  <2>2. CASE Settle /\ ~Leave
    <3>1. CanTake(vault) /\ vault' = "op" /\ taking' = taking
      BY <2>2 DEF Settle
    <3> QED
      BY <3>1 DEF VaultHeld, CanTake
  <2>3. CASE (WriteState \/ AppendJournal \/ SettlePhase) /\ ~Leave
    <3>1. pc \in {"state", "entry", "phase"} /\ UNCHANGED <<vault, taking>>
      BY <2>3 DEF WriteState, AppendJournal, SettlePhase, locks
    <3> QED
      BY <3>1, VaultMoves
  <2> QED
    BY <1>9, <2>1, <2>2, <2>3 DEF Purge
<1> QED
  BY <1>1, <1>2, <1>3, <1>4, <1>5, <1>6, <1>7, <1>8, <1>9 DEF Next, Step

(* Besides the transaction the operation holds, none is unsettled.         *)
LEMMA Alone ==
  ASSUME Assumptions, IInv, kind \in {"promote", "reconcile"}, pc \notin Early,
         mem.phase \notin Settled
  PROVE  /\ PhaseOf(cur) = mem.phase
         /\ \A t \in Txn : PhaseOf(t) \notin Settled \cup {"none"} => t = cur
<1>1. cur \in Txn /\ IsRecord(cur) /\ txn[cur].phase = mem.phase
  BY Saved
<1>2. Unsettled(cur) /\ PhaseOf(cur) = mem.phase
  BY <1>1 DEF Unsettled, PhaseOf
<1>3. \A t \in Txn : PhaseOf(t) \notin Settled \cup {"none"} => Unsettled(t)
  BY DEF PhaseOf, Unsettled
<1> QED
  BY <1>1, <1>2, <1>3 DEF IInv, DiskInv, OriginalsKept

(* A swap or its rollback under way is that of the transaction held, and   *)
(* no installer runs; what nobody holds is settled.                        *)
LEMMA SwapAlone ==
  ASSUME Assumptions, IInv, Quiet, pc \in Swapping
  PROVE  /\ kind \in {"promote", "reconcile"} /\ pc \notin Early /\ cur \in Txn
         /\ mem \in Record /\ mem.phase \in {"swapping", "rolling-back"}
         /\ PhaseOf(cur) = mem.phase /\ IsRecord(cur)
         /\ \A t \in Txn : PhaseOf(t) # "committing"
         /\ child # "installer"
<1>1. kind \in {"promote", "reconcile"} /\ pc \notin Early
  BY DEF IInv, OpInv, OpTypes, Control, Swapping, Early
<1>2. cur \in Txn /\ IsRecord(cur) /\ mem \in Record /\ mem # None
  BY <1>1, Saved
<1>3. mem.phase \in {"swapping", "rolling-back"}
  BY <1>2 DEF IInv, OpInv, PhaseFits
<1>4. /\ PhaseOf(cur) = mem.phase
      /\ \A t \in Txn : PhaseOf(t) \notin Settled \cup {"none"} => t = cur
  BY <1>1, <1>3, Alone DEF Settled
<1> QED
  BY <1>1, <1>2, <1>3, <1>4 DEF Quiet, QuietDisk, Settled

(* Pending work on disk belongs to a transaction that is not committing.   *)
LEMMA StagedAlone ==
  ASSUME IInv, Quiet, stage # None
  PROVE  /\ \A t \in Txn : PhaseOf(t) # "committing"
         /\ child # "installer"
<1>1. PICK t \in Txn : PhaseOf(t) \in {"swapping", "rolling-back"}
  BY DEF Quiet, QuietDisk
<1>2. \A u \in Txn : PhaseOf(u) \in {"installing", "committing"} => u = t
  BY <1>1 DEF PhaseOf, Unsettled, Settled, IInv, DiskInv, OriginalsKept
<1> QED
  BY <1>1, <1>2 DEF Quiet, QuietDisk

(* A step that saves nothing.  Files change only while something is staged *)
(* and then no decision to commit waits.                                   *)
LEMMA DiskQuiet ==
  ASSUME Assumptions, Quiet,
         \A t \in Txn : PhaseOf(t)' = PhaseOf(t) /\ (IsRecord(t) => txn'[t] = txn[t]),
         stage' \in {stage, None, Bare} \/ (stage \in Staged /\ stage'.after = stage.after),
         stage = None => stage' = None,
         files' = files \/ \A t \in Txn : PhaseOf(t) # "committing",
         child' = "installer" =>
           /\ child = "installer"
           /\ \A t \in Txn : kind' # "none" /\ cur' = t =>
                pc' = "install" \/ PhaseOf(t) # "installing"
  PROVE  QuietDisk'
<1>1. ASSUME NEW t \in Txn, PhaseOf(t) # "none" PROVE txn'[t] = txn[t]
  BY <1>1 DEF PhaseOf
<1>2. child' = "installer" =>
        \E t \in Txn : PhaseOf(t)' = "installing" /\ (kind' # "none" /\ cur' = t => pc' = "install")
  BY DEF Quiet, QuietDisk
<1>3. ASSUME stage' # None
      PROVE  \E t \in Txn : /\ PhaseOf(t)' \in {"swapping", "rolling-back"}
                            /\ stage' # Bare => stage'.after \in {Candidate[t], txn'[t].before}
  <2>1. PICK t \in Txn : /\ PhaseOf(t) \in {"swapping", "rolling-back"}
                         /\ stage # Bare => stage.after \in {Candidate[t], txn[t].before}
    BY <1>3 DEF Quiet, QuietDisk
  <2>2. txn'[t] = txn[t] /\ PhaseOf(t)' = PhaseOf(t)
    BY <1>1, <2>1
  <2>3. stage' # Bare => stage'.after \in {Candidate[t], txn[t].before}
    BY <1>3, <2>1, Constants
  <2> QED
    BY <2>1, <2>2, <2>3
<1>4. \A t \in Txn : PhaseOf(t)' = "committing" => files' = txn'[t].receiptAfter
  BY <1>1 DEF Quiet, QuietDisk
<1> QED
  BY <1>2, <1>3, <1>4 DEF QuietDisk

LEMMA SamePhases ==
  ASSUME txn' = txn
  PROVE  \A t \in Txn : PhaseOf(t)' = PhaseOf(t) /\ (IsRecord(t) => txn'[t] = txn[t])
BY DEF PhaseOf, IsRecord

(* The operation ends, or a promotion turns to its rollback.               *)
LEMMA QuietThrow ==
  ASSUME Assumptions, IInv, Quiet, Throw \/ Leave,
         \A t \in Txn : PhaseOf(t)' = PhaseOf(t) /\ (IsRecord(t) => txn'[t] = txn[t]),
         stage' \in {stage, None},
         files' = files \/ pc \in Swapping,
         child' \in {child, "none"},
         pc = "install" /\ kind' # "none" => child' = "none"
  PROVE  QuietDisk' /\ QuietOp'
<1>1. files' = files \/ \A t \in Txn : PhaseOf(t) # "committing"
  BY SwapAlone
<1>2. CASE Leave
  <2>1. kind' = "none"
    BY <1>2 DEF Leave
  <2>2. QuietDisk'
    BY <1>1, <2>1, DiskQuiet
  <2> QED
    BY <2>1, <2>2 DEF QuietOp
<1>3. CASE Throw /\ ~Leave
  <2>1. /\ kind = "promote" /\ pc' = "rbLock" /\ UNCHANGED <<kind, cur, mem>>
        /\ pc \notin {"preSnapshot", "swapLock", "prepareDir", "prepare"}
    BY <1>3 DEF Throw
  <2>2. cur \in Txn /\ IsRecord(cur) /\ pc \notin Early
    BY <2>1, Saved DEF Early
  <2>3. ASSUME child' = "installer", NEW t \in Txn, cur' = t, PhaseOf(t) = "installing"
        PROVE  FALSE
    <3>1. child = "installer" /\ pc # "install"
      BY <2>1, <2>3
    <3>2. PICK u \in Txn : PhaseOf(u) = "installing" /\ (kind # "none" /\ cur = u => pc = "install")
      BY <3>1 DEF Quiet, QuietDisk
    <3>3. Unsettled(t) /\ Unsettled(u)
      BY <2>3, <3>2 DEF PhaseOf, Unsettled, Settled
    <3> QED
      BY <2>1, <2>3, <3>1, <3>2, <3>3 DEF IInv, DiskInv, OriginalsKept
  <2>4. QuietDisk'
    <3>1. child' = "installer" => /\ child = "installer"
           /\ \A t \in Txn : kind' # "none" /\ cur' = t =>
                pc' = "install" \/ PhaseOf(t) # "installing"
      BY <2>3
    <3> QED
      BY <1>1, <3>1, DiskQuiet
  <2>5. txn'[cur] = txn[cur]
    BY <2>2
  <2> QED
    BY <2>1, <2>2, <2>4, <2>5 DEF QuietOp, Quiet, Swapping
<1> QED
  BY <1>2, <1>3

(* A step that saves the record of the transaction held. *)
LEMMA QuietSaves ==
  ASSUME Assumptions, IInv, Quiet, kind \in {"promote", "reconcile"}, pc \notin Early \cup {"install"},
         mem.phase \notin Settled, stage = None,
         NEW saved \in Record, txn' = [txn EXCEPT ![cur] = saved],
         saved.phase = "committing" => files = saved.receiptAfter,
         UNCHANGED <<files, stage, child>>
  PROVE  QuietDisk' /\ txn'[cur] = saved
<1>1. /\ PhaseOf(cur) = mem.phase
      /\ \A t \in Txn : PhaseOf(t) \notin Settled \cup {"none"} => t = cur
  BY Alone
<1>2. cur \in Txn /\ txn'[cur] = saved /\ \A t \in Txn \ {cur} : txn'[t] = txn[t]
  BY Saved DEF IInv, DiskInv, DiskTypes
<1>3. child # "installer"
  BY <1>1 DEF Quiet, QuietDisk, Settled
<1>4. \A t \in Txn : PhaseOf(t)' = "committing" => t = cur
  BY <1>1, <1>2 DEF PhaseOf, IsRecord, Settled
<1>6. saved # None /\ saved # Bare
  BY Constants
<1>7. \A t \in Txn : PhaseOf(t)' = "committing" => files' = txn'[t].receiptAfter
  BY <1>2, <1>4, <1>6 DEF PhaseOf, IsRecord
<1> QED
  BY <1>2, <1>3, <1>7 DEF QuietDisk

(* The operation goes on; where an installer waits, it waits for it.       *)
LEMMA Onward ==
  ASSUME Assumptions, IInv, Quiet, UNCHANGED <<kind, cur, child>>, pc # "install",
         \A t \in Txn : PhaseOf(t)' = PhaseOf(t) /\ (IsRecord(t) => txn'[t] = txn[t]),
         stage' \in {stage, None, Bare} \/ (stage \in Staged /\ stage'.after = stage.after),
         stage = None => stage' = None,
         files' = files \/ \A t \in Txn : PhaseOf(t) # "committing"
  PROVE  QuietDisk'
<1>1. ASSUME child = "installer", NEW t \in Txn, kind # "none", cur = t, PhaseOf(t) = "installing"
      PROVE  FALSE
  <2>1. PICK u \in Txn : PhaseOf(u) = "installing" /\ (kind # "none" /\ cur = u => pc = "install")
    BY <1>1 DEF Quiet, QuietDisk
  <2>2. Unsettled(t) /\ Unsettled(u)
    BY <1>1, <2>1 DEF PhaseOf, Unsettled, Settled
  <2> QED
    BY <1>1, <2>1, <2>2 DEF IInv, DiskInv, OriginalsKept
<1> QED
  BY <1>1, DiskQuiet

(* A promotion alone may be `installing' while it runs. *)
LEMMA NoInstaller ==
  ASSUME IInv, Quiet, kind = "promote", pc # "install"
  PROVE  child # "installer"
BY DEF IInv, OpInv, Held, Quiet, QuietDisk, PhaseOf, Unsettled, Settled

(* The first steps of a promotion, up to its record. *)
LEMMA QuietBegins ==
  ASSUME Assumptions, IInv, Quiet,
         SwapLock \/ PrepareDir \/ Prepare \/ \E t \in Txn : Promote(t)
  PROVE  QuietDisk' /\ QuietOp'
<1>1. CASE SwapLock
  <2>1. pc = "swapLock" /\ UNCHANGED <<disk, child, hist>>
    BY <1>1 DEF SwapLock
  <2>2. CASE Leave
    BY <2>1, <2>2, QuietThrow, SamePhases DEF disk
  <2>3. CASE Goto("prepareDir")
    BY <2>1, <2>3, Onward, SamePhases DEF Goto, disk, QuietOp, Early
  <2> QED
    BY <1>1, <2>2, <2>3 DEF SwapLock
<1>2. CASE PrepareDir
  <2>1. /\ pc = "prepareDir" /\ pc' = "prepare" /\ txn' = [txn EXCEPT ![cur] = Bare]
        /\ UNCHANGED <<kind, cur, mem, files, stage, child>>
    BY <1>2 DEF PrepareDir, Goto
  <2>2. kind = "promote" /\ cur \in Txn /\ mem # None /\ txn[cur] = None
    BY <2>1 DEF IInv, OpInv, OpTypes, Control, Held, RollingBack, Swapping, Settling
  <2>3. /\ txn'[cur] = Bare /\ \A t \in Txn \ {cur} : txn'[t] = txn[t]
    BY <2>1, <2>2 DEF IInv, DiskInv, DiskTypes
  <2>4. \A t \in Txn : PhaseOf(t)' = PhaseOf(t) /\ (IsRecord(t) => txn'[t] = txn[t])
    BY <2>2, <2>3 DEF IsRecord, PhaseOf
  <2> QED
    BY <2>1, <2>4, Onward DEF QuietOp, Early
<1>3. CASE Prepare
  <2> DEFINE r == [mem EXCEPT !.before = files]
  <2>1. /\ pc = "prepare" /\ pc' = "swapping" /\ mem' = r /\ txn' = [txn EXCEPT ![cur] = r]
        /\ UNCHANGED <<kind, cur, files, stage, child>>
    BY <1>3 DEF Prepare, Save
  <2>2. /\ kind = "promote" /\ cur \in Txn /\ mem \in Record /\ mem # None
        /\ mem.phase = "prepared" /\ stage = None
        /\ \A t \in Txn \ {cur} : txn[t] # Bare /\ ~Unsettled(t)
    BY <2>1 DEF IInv, OpInv, OpTypes, Control, Held, PhaseFits, SwapHeld, Clear, RollingBack, Swapping, Settling
  <2>3. r.phase = "prepared" /\ r.before = files
    BY <2>2 DEF Record
  <2> HIDE DEF r
  <2>4. txn'[cur] = r /\ \A t \in Txn \ {cur} : txn'[t] = txn[t]
    BY <2>1, <2>2 DEF IInv, DiskInv, DiskTypes
  <2>5. child # "installer"
    BY <2>1, <2>2, NoInstaller
  <2>6. \A t \in Txn : PhaseOf(t)' # "committing"
    BY <2>2, <2>3, <2>4 DEF PhaseOf, IsRecord, Unsettled, Settled
  <2>7. QuietDisk'
    BY <2>1, <2>2, <2>5, <2>6 DEF QuietDisk
  <2> QED
    BY <2>1, <2>2, <2>3, <2>4, <2>7 DEF QuietOp, Swapping
<1>4. ASSUME NEW t \in Txn, Promote(t) PROVE QuietDisk' /\ QuietOp'
  <2>1. /\ pc' = "preSnapshot" /\ NothingPending /\ UNCHANGED <<disk, child, mem>>
    BY <1>4 DEF Promote
  <2>2. \A u \in Txn : PhaseOf(u) \in Settled \cup {"none"}
    BY <2>1 DEF NothingPending, PhaseOf, Unsettled
  <2>3. child # "installer"
    BY <2>2 DEF Quiet, QuietDisk, Settled
  <2>4. QuietDisk'
    BY <2>1, <2>3, DiskQuiet, SamePhases DEF disk
  <2> QED
    BY <2>1, <2>4 DEF QuietOp, Early
<1> QED
  BY <1>1, <1>2, <1>3, <1>4

LEMMA QuietSave ==
  ASSUME Assumptions, IInv, Quiet, kind \in {"promote", "reconcile"}, pc \notin Early \cup {"install"},
         mem.phase \notin Settled, stage = None,
         NEW r \in Record, NEW saved \in Record, saved.phase = r.phase, saved.before = r.before,
         saved.receiptAfter = r.receiptAfter, saved.post = r.post,
         mem' = r, txn' = [txn EXCEPT ![cur] = saved],
         UNCHANGED <<files, stage, child, kind, cur>>,
         pc' \in {"mkStaging", "install", "launch", "restart", "postSnapshot", "committing", "settle", "purge"},
         pc' = "mkStaging" => files = r.before \/ (r.phase = "rolling-back" /\ files = Candidate[cur]),
         pc' = "committing" \/ r.phase = "committing" => files = r.receiptAfter,
         pc' = "settle" /\ r.phase = "rolling-back" => files = r.before
  PROVE  QuietDisk' /\ QuietOp'
<1>1. QuietDisk' /\ txn'[cur] = saved
  BY QuietSaves
<1> QED
  BY <1>1 DEF QuietOp, Early, Swapping

(* The steps of a promotion that save its phase. *)
LEMMA QuietCheckpoint ==
  ASSUME Assumptions, IInv, Quiet,
         StartSwap \/ StartInstall \/ StartVerify \/ Snapshotted \/ Decide \/ Swapped
  PROVE  QuietDisk' /\ QuietOp'
<1>1. PICK phase \in {"swapping", "installing", "verifying", "snapshotted", "committing", "swapped"} :
        /\ mem' = [mem EXCEPT !.phase = phase] /\ txn' = [txn EXCEPT ![cur] = [mem EXCEPT !.phase = phase]]
        /\ UNCHANGED <<kind, cur, files, stage, child>>
        /\ \/ pc = "swapping" /\ pc' = "mkStaging" /\ phase = "swapping"
           \/ pc = "snapshotted" /\ pc' = "committing" /\ phase = "snapshotted"
           \/ pc = "committing" /\ pc' = "settle" /\ phase = "committing"
           \/ /\ pc \in {"installing", "verifying", "swapped"}
              /\ pc' \in {"install", "launch", "restart"} /\ phase # "committing"
  <2>1. CASE StartSwap
    BY <2>1 DEF StartSwap, Checkpoint, Save
  <2>2. CASE StartInstall
    BY <2>2 DEF StartInstall, Checkpoint, Save
  <2>3. CASE StartVerify
    BY <2>3 DEF StartVerify, Checkpoint, Save
  <2>4. CASE Snapshotted
    BY <2>4 DEF Snapshotted, Checkpoint, Save
  <2>5. CASE Decide
    BY <2>5 DEF Decide, Checkpoint, Save
  <2>6. CASE Swapped
    BY <2>6 DEF Swapped, Save
  <2> QED
    BY <2>1, <2>2, <2>3, <2>4, <2>5, <2>6
<1> DEFINE r == [mem EXCEPT !.phase = phase]
<1>2. kind = "promote" /\ pc \notin Early \cup {"install"}
  BY <1>1 DEF IInv, OpInv, OpTypes, Control, RollingBack, Swapping, Settling, Early
<1>3. /\ cur \in Txn /\ mem \in Record /\ mem # None /\ mem.phase \in Open /\ stage = None
  BY <1>1, <1>2, Saved DEF IInv, OpInv, PhaseFits, SwapHeld, Clear, Open
<1>4. r \in Record /\ r.phase = phase /\ r.before = mem.before /\ r.receiptAfter = mem.receiptAfter
  BY <1>3 DEF Record, Phases
<1>5. pc = "swapping" => files = mem.before
  BY <1>2, <1>3 DEF Quiet, QuietOp, IInv, OpInv, PhaseFits
<1>6. pc \in {"snapshotted", "committing"} => files = mem.receiptAfter
  BY <1>2, <1>3 DEF Quiet, QuietOp
<1> HIDE DEF r
<1>7. mem' = r /\ txn' = [txn EXCEPT ![cur] = r]
  BY <1>1 DEF r
<1>8. mem.phase \notin Settled /\ (phase = "committing" => files = r.receiptAfter)
  BY <1>1, <1>3, <1>4, <1>6 DEF Open, Settled
<1> QED
  BY <1>1, <1>2, <1>3, <1>4, <1>5, <1>6, <1>7, <1>8, QuietSave

LEMMA QuietVerified ==
  ASSUME Assumptions, IInv, Quiet, Verified
  PROVE  QuietDisk' /\ QuietOp'
<1> DEFINE r == [mem EXCEPT !.phase = "verified"]
           saved == [r EXCEPT !.good = FALSE]
<1>1. /\ pc = "verified" /\ pc' = "postSnapshot" /\ mem' = r /\ txn' = [txn EXCEPT ![cur] = saved]
      /\ UNCHANGED <<kind, cur, files, stage, child>>
  BY DEF Verified
<1>2. kind = "promote" /\ pc \notin Early \cup {"install"}
  BY <1>1 DEF IInv, OpInv, OpTypes, Control, RollingBack, Swapping, Settling, Early
<1>3. mem \in Record /\ mem.phase \notin Settled /\ stage = None
  BY <1>1, <1>2, Saved DEF IInv, OpInv, PhaseFits, SwapHeld, Clear, Settled
<1>4. r \in Record /\ r.phase = "verified"
  BY <1>3 DEF Record, Phases
<1>5. /\ saved \in Record /\ saved.phase = "verified" /\ saved.before = r.before
      /\ saved.receiptAfter = r.receiptAfter /\ saved.post = r.post
  BY <1>4 DEF Record
<1> HIDE DEF r, saved
<1> QED
  BY <1>1, <1>2, <1>3, <1>4, <1>5, QuietSave

(* The restart of the profile. *)
LEMMA QuietRestart ==
  ASSUME Assumptions, IInv, Quiet,
         ChooseRestart \/ RunInstaller \/ InstallerEnds \/ Launch \/ Probe
  PROVE  QuietDisk' /\ QuietOp'
<1>1. /\ pc \in {"restart", "install", "launch", "probe"} /\ pc \notin Early
      /\ UNCHANGED disk
  BY DEF ChooseRestart, RunInstaller, InstallerEnds, Launch, Probe, Early
<1>2. kind = "promote"
  BY <1>1 DEF IInv, OpInv, OpTypes, Control, RollingBack, Swapping, Settling
<1>3. /\ cur \in Txn /\ mem \in Record /\ mem # None /\ txn[cur].phase = mem.phase /\ IsRecord(cur)
      /\ mem.phase \in Open
  BY <1>1, <1>2, Saved DEF IInv, OpInv, PhaseFits, Open
<1>4. pc # "install" => child # "installer"
  BY <1>2, NoInstaller
<1>5. \A t \in Txn : PhaseOf(t)' = PhaseOf(t) /\ (IsRecord(t) => txn'[t] = txn[t])
  BY <1>1, SamePhases DEF disk
<1>6. CASE Throw \/ Leave
  <2>1. \/ child' \in {child, "none"}
        \/ Leave /\ child' = "runtime"
    BY <1>6 DEF ChooseRestart, RunInstaller, InstallerEnds, Launch, Probe, Goto, Throw, Leave, opVars
  <2>2. pc = "install" /\ kind' # "none" => child' = "none"
    BY <1>6 DEF ChooseRestart, RunInstaller, InstallerEnds, Launch, Probe, Goto, Throw, Leave, opVars
  <2>3. CASE Leave /\ child' = "runtime"
    <3>1. QuietDisk'
      BY <1>1, <1>5, <2>3, DiskQuiet DEF disk
    <3> QED
      BY <2>3, <3>1 DEF Leave, QuietOp
  <2> QED
    BY <1>1, <1>5, <1>6, <2>1, <2>2, <2>3, QuietThrow DEF disk
<1>7. CASE ~(Throw \/ Leave)
  <2>1. /\ UNCHANGED <<kind, cur>>
        /\ mem' \in {mem, [mem EXCEPT !.good = TRUE]}
        /\ pc' \in {"installing", "verified", "install", "verifying", "probe"}
        /\ child' = "installer" => (pc' = "install" /\ pc = "install") \/ (child = "installer" /\ pc # "install")
    BY <1>1, <1>3, <1>7 DEF ChooseRestart, RunInstaller, InstallerEnds, Launch, Probe, Goto, opVars
  <2>2. mem'.before = mem.before /\ mem'.phase = mem.phase
    BY <1>3, <2>1 DEF Record
  <2>3. QuietDisk'
    <3>1. CASE child' = "installer"
      <4>1. pc' = "install" /\ PhaseOf(cur) = "installing"
        BY <1>2, <1>3, <1>4, <2>1, <3>1 DEF PhaseOf, IInv, OpInv, PhaseFits
      <4>2. PhaseOf(cur)' = "installing" /\ stage' = None
        BY <1>1, <1>2, <2>1, <4>1 DEF disk, PhaseOf, IsRecord, IInv, OpInv, SwapHeld, Clear
      <4>3. \A t \in Txn : PhaseOf(t)' = "committing" => files' = txn'[t].receiptAfter
        BY <1>1, <1>5 DEF disk, Quiet, QuietDisk, PhaseOf
      <4> QED
        BY <1>3, <2>1, <4>1, <4>2, <4>3 DEF QuietDisk
    <3>2. CASE child' # "installer"
      BY <1>1, <1>5, <3>2, DiskQuiet DEF disk
    <3> QED
      BY <3>1, <3>2
  <2>4. QuietOp'
    BY <1>1, <1>2, <1>3, <2>1, <2>2 DEF Quiet, QuietOp, Open, Swapping, disk
  <2> QED
    BY <2>3, <2>4
<1> QED
  BY <1>6, <1>7

(* Snapshots, and the comparison that follows the promotion's own. *)
LEMMA QuietSnapshot ==
  ASSUME Assumptions, IInv, Quiet, NEW p \in {"op", "user"}, SnapshotStep(p)
  PROVE  QuietDisk' /\ QuietOp'
<1>1. UNCHANGED <<files, stage, txn, child>>
  BY DEF SnapshotStep, SnapshotLock, SnapshotCapture, SnapshotNote, disk
<1>2. \A t \in Txn : PhaseOf(t)' = PhaseOf(t) /\ (IsRecord(t) => txn'[t] = txn[t])
  BY <1>1, SamePhases
<1>3. kind # "none" /\ taking["op"] # "off" => kind = "promote"
  BY DEF IInv, OpInv, OpTypes, Control, RollingBack, Swapping, Settling
<1>4. pc # "install" \/ UNCHANGED opVars
  BY DEF SnapshotStep, SnapshotLock, SnapshotCapture, SnapshotNote, Wants, IInv, OpInv, Control
<1>5. CASE Throw
  <2>1. pc # "install"
    BY <1>5 DEF SnapshotStep, SnapshotLock, SnapshotCapture, SnapshotNote, Wants, IInv, OpInv,
       Control, opVars, Throw, Leave
  <2> QED
    BY <1>1, <1>2, <1>5, <2>1, QuietThrow
<1>6. CASE UNCHANGED opVars
  <2>1. QuietDisk'
    BY <1>1, <1>6 DEF Quiet, QuietDisk, PhaseOf, IsRecord, opVars
  <2>2. pc \in {"entry", "phase"} /\ kind \in {"promote", "reconcile"} /\ mem.phase = "committing" =>
          UNCHANGED <<snap, head>>
    <3>1. pc \in {"entry", "phase"} => vault = "op" /\ taking["op"] = "off"
      BY DEF Quiet, VaultHeld, IInv, OpInv, Control
    <3>2. taking[p] # "off" => vault = p
      BY DEF Quiet, VaultHeld
    <3> QED
      BY <3>1, <3>2 DEF SnapshotStep, SnapshotLock, SnapshotCapture, SnapshotNote, disk
  <2>3. kind \in {"promote", "reconcile"} /\ pc \in {"entry", "phase"} /\ mem.phase = "committing" =>
          snap'[mem.post] = mem.receiptAfter /\ head' = mem.post
    BY <2>2 DEF Quiet, QuietOp, Early
  <2>4. QuietOp'
    BY <1>1, <1>6, <2>3 DEF Quiet, QuietOp, Target, opVars
  <2> QED
    BY <2>1, <2>4
<1>7. CASE ~Throw /\ ~UNCHANGED opVars
  <2>1. p = "op" /\ SnapshotNote(p) /\ taking["op"] = "written"
    BY <1>7 DEF SnapshotStep, SnapshotLock, SnapshotCapture, SnapshotNote
  <2>2. pc \in {"preSnapshot", "postSnapshot"} /\ kind = "promote" /\ UNCHANGED <<kind, cur>>
    BY <2>1 DEF SnapshotNote, IInv, OpInv, OpTypes, Control, RollingBack, Swapping, Settling
  <2>3. QuietDisk'
    BY <1>1, <1>2, <2>2, Onward
  <2>4. CASE pc = "preSnapshot"
    BY <2>1, <2>3, <2>4 DEF SnapshotNote, QuietOp, Early
  <2>5. CASE pc = "postSnapshot"
    <3>1. mem \in Record /\ mem.phase = "verified" /\ pc \notin Early
      BY <2>2, <2>5, Saved DEF Early, IInv, OpInv, PhaseFits
    <3>2. pc' = "analyze" /\ mem' = [mem EXCEPT !.post = Len(snap)]
      BY <2>1, <2>5 DEF SnapshotNote
    <3>3. mem'.before = mem.before /\ mem'.phase = "verified"
      BY <3>1, <3>2 DEF Record
    <3> QED
      BY <1>1, <2>2, <2>3, <3>1, <3>2, <3>3 DEF Quiet, QuietOp, Swapping
  <2> QED
    BY <2>2, <2>3, <2>4, <2>5
<1> QED
  BY <1>5, <1>6, <1>7

LEMMA QuietAnalyze ==
  ASSUME Assumptions, IInv, Quiet, Analyze
  PROVE  QuietDisk' /\ QuietOp'
<1>1. /\ pc = "analyze" /\ pc' = "snapshotted"
      /\ mem' = [mem EXCEPT !.receiptAfter = files, !.outcome = "committed"]
      /\ UNCHANGED <<kind, cur, disk, child>>
  BY DEF Analyze
<1>2. /\ kind = "promote" /\ pc \notin Early
  BY <1>1 DEF IInv, OpInv, OpTypes, Control, RollingBack, Swapping, Settling, Early
<1>3. mem \in Record /\ mem.phase = "verified"
  BY <1>1, <1>2, Saved DEF IInv, OpInv, PhaseFits
<1>4. mem'.before = mem.before /\ mem'.phase = "verified" /\ mem'.receiptAfter = files
  BY <1>1, <1>3 DEF Record
<1>5. QuietDisk'
  BY <1>1, Onward, SamePhases DEF disk
<1> QED
  BY <1>1, <1>2, <1>4, <1>5 DEF Quiet, QuietOp, Swapping, disk

(* The swap, towards the candidate or back.  What was recorded for it is   *)
(* what it leaves.                                                         *)
LEMMA QuietSwap ==
  ASSUME Assumptions, IInv, Quiet,
         \/ MakeStaging \/ RecordSwap \/ ReplaceSome \/ ReplaceRest \/ CommitSwap
         \/ CleanSwap \/ (CleanPartly /\ pc = "cleanSwap")
  PROVE  QuietDisk' /\ QuietOp'
<1>1. pc \in Swapping /\ pc # "install" /\ UNCHANGED <<txn, child>>
  BY DEF MakeStaging, RecordSwap, ReplaceSome, ReplaceRest, CommitSwap, CleanSwap, CleanPartly, Swapping
<1>2. /\ kind \in {"promote", "reconcile"} /\ pc \notin Early /\ cur \in Txn
      /\ mem \in Record /\ mem.phase \in {"swapping", "rolling-back"}
      /\ PhaseOf(cur) = mem.phase /\ IsRecord(cur)
      /\ \A t \in Txn : PhaseOf(t) # "committing"
      /\ child # "installer"
  BY <1>1, SwapAlone
<1>3. \A t \in Txn : PhaseOf(t)' = PhaseOf(t) /\ (IsRecord(t) => txn'[t] = txn[t])
  BY <1>1, SamePhases
<1>4. mem.before = txn[cur].before
  BY <1>2 DEF Quiet, QuietOp
<1>5. CASE Throw /\ UNCHANGED <<files, stage>>
  BY <1>1, <1>3, <1>5, QuietThrow
<1>6. ASSUME UNCHANGED <<kind, cur, mem>>, PhaseOf(cur)' = mem.phase,
             stage' = None \/ stage' = Bare \/ stage'.after \in {Candidate[cur], mem.before}
      PROVE  QuietDisk'
  <2>1. stage' # Bare /\ stage' # None => stage'.after \in {Candidate[cur], txn'[cur].before}
    BY <1>1, <1>4, <1>6
  <2>2. \A t \in Txn : PhaseOf(t)' # "committing"
    BY <1>2, <1>3
  <2> QED
    BY <1>1, <1>2, <1>6, <2>1, <2>2 DEF QuietDisk
<1>7. PhaseOf(cur)' = mem.phase \/ cur' # cur
  BY <1>1, <1>2 DEF PhaseOf, IsRecord
<1>8. Target \in {Candidate[cur], mem.before}
  BY DEF Target
<1>9. ASSUME UNCHANGED <<kind, cur, mem>>
      PROVE  Target' = Target /\ txn'[cur].before = mem.before
  BY <1>1, <1>4, <1>9 DEF Target
<1>10. CASE MakeStaging /\ ~(Throw /\ UNCHANGED <<files, stage>>)
  <2>1. /\ stage' = Bare /\ files' = files /\ pc = "mkStaging" /\ pc' = "recordSwap"
        /\ UNCHANGED <<kind, cur, mem>>
    BY <1>10 DEF MakeStaging, Goto
  <2> QED
    BY <1>2, <1>6, <1>7, <1>9, <2>1 DEF Quiet, QuietOp
<1>11. CASE RecordSwap
  <2>1. /\ pc = "recordSwap" /\ stage' = [decided |-> FALSE, before |-> files, after |-> Target]
        /\ files' = files /\ pc' = "replace" /\ UNCHANGED <<kind, cur, mem>>
    BY <1>11 DEF RecordSwap, Goto
  <2>2. stage'.after = Target
    BY <2>1
  <2> QED
    BY <1>2, <1>6, <1>7, <1>8, <1>9, <2>1, <2>2 DEF Quiet, QuietOp
<1>12. CASE ReplaceSome /\ ~(Throw /\ UNCHANGED <<files, stage>>)
  <2>1. /\ pc = "replace" /\ stage' = stage /\ pc' = "replaceRest" /\ UNCHANGED <<kind, cur, mem>>
        /\ files = stage.before /\ files' = (IF stage.after = files THEN files ELSE Mixed)
    BY <1>12 DEF ReplaceSome, Goto
  <2>2. stage.after = Target
    BY <1>2, <2>1 DEF Quiet, QuietOp
  <2> QED
    BY <1>2, <1>6, <1>7, <1>8, <1>9, <2>1, <2>2 DEF QuietOp
<1>13. CASE ReplaceRest
  <2>1. /\ pc = "replaceRest" /\ stage' = stage /\ files' = stage.after /\ pc' = "commitSwap"
        /\ UNCHANGED <<kind, cur, mem>>
    BY <1>13 DEF ReplaceRest, Goto
  <2>2. stage.after = Target
    BY <1>2, <2>1 DEF Quiet, QuietOp
  <2> QED
    BY <1>2, <1>6, <1>7, <1>8, <1>9, <2>1, <2>2 DEF QuietOp
<1>14. CASE CommitSwap
  <2>1. /\ pc = "commitSwap" /\ stage' = [stage EXCEPT !.decided = TRUE] /\ files' = files
        /\ pc' = "cleanSwap" /\ UNCHANGED <<kind, cur, mem>>
    BY <1>14 DEF CommitSwap, Goto
  <2>2. stage.after = Target /\ files = Target
    BY <1>2, <2>1 DEF Quiet, QuietOp
  <2>3. stage \in Staged
    BY <2>1 DEF IInv, OpInv, SwapHeld, DiskInv, DiskTypes
  <2>4. stage'.after = Target
    BY <2>1, <2>2, <2>3 DEF Staged
  <2> QED
    BY <1>2, <1>6, <1>7, <1>8, <1>9, <2>1, <2>2, <2>4 DEF QuietOp
<1>15. CASE CleanSwap \/ CleanPartly
  <2>1. /\ pc = "cleanSwap" /\ stage' \in {None, Bare} /\ files' = files /\ UNCHANGED <<kind, cur, mem>>
        /\ pc' \in {"cleanSwap", IF mem.phase = "rolling-back" THEN "undone" ELSE "swapped"}
    BY <1>1, <1>15 DEF CleanSwap, CleanPartly, Swapping, Goto, opVars
  <2>2. files = Target
    BY <1>2, <2>1 DEF Quiet, QuietOp
  <2>3. pc' = "undone" => files = mem.before
    BY <1>2, <2>1, <2>2 DEF Target
  <2> QED
    BY <1>2, <1>6, <1>7, <1>9, <2>1, <2>2, <2>3 DEF QuietOp
<1> QED
  BY <1>5, <1>10, <1>11, <1>12, <1>13, <1>14, <1>15

(* The rollback.  Its decision is saved over known files only. *)
LEMMA QuietRollback ==
  ASSUME Assumptions, IInv, Quiet,
         \/ RollbackLock \/ RollbackSwap \/ RollbackClean \/ (CleanPartly /\ pc = "rbClean")
  PROVE  QuietDisk' /\ QuietOp'
<1>1. pc \in {"rbLock", "rbSwaps", "rbClean"} /\ UNCHANGED <<txn, child>>
  BY DEF RollbackLock, RollbackSwap, RollbackClean, CleanPartly, disk
<1>2. \A t \in Txn : PhaseOf(t)' = PhaseOf(t) /\ (IsRecord(t) => txn'[t] = txn[t])
  BY <1>1, SamePhases
<1>3. CASE Leave /\ files' = files
  <2>1. stage' \in {stage, None}
    BY <1>3 DEF RollbackLock, RollbackSwap, RollbackClean, CleanPartly, disk, Goto, Leave, opVars
  <2> QED
    BY <1>1, <1>2, <1>3, <2>1, QuietThrow
<1>4. CASE ~(Leave /\ files' = files)
  <2>1. UNCHANGED <<kind, cur, mem>> /\ pc' \in {"rbSwaps", "rbClean", "rbCheck"}
    BY <1>1, <1>4 DEF RollbackLock, RollbackSwap, RollbackClean, CleanPartly, disk, Goto, opVars
  <2>2. /\ stage' \in {stage, None, Bare} \/ (stage \in Staged /\ stage'.after = stage.after)
        /\ stage = None => stage' = None
        /\ files' # files => stage # None
    <3>1. CASE RollbackSwap /\ Recoverable
      <4>1. stage \in Staged /\ stage # None
        BY <3>1 DEF Recoverable, IInv, DiskInv, DiskTypes
      <4>2. stage' = stage \/ stage' = [stage EXCEPT !.decided = TRUE]
        BY <3>1 DEF RollbackSwap
      <4> QED
        BY <4>1, <4>2 DEF Staged
    <3>2. CASE RollbackSwap /\ ~Recoverable
      BY <1>4, <3>2 DEF RollbackSwap
    <3>3. CASE RollbackLock \/ RollbackClean \/ (CleanPartly /\ pc = "rbClean")
      <4>1. pc = "rbClean" => stage # None
        BY Constants DEF Quiet, IInv, OpInv, SwapHeld, Assumptions, NullAssumption
      <4> QED
        BY <3>3, <4>1 DEF RollbackLock, RollbackClean, CleanPartly, disk
    <3> QED
      BY <3>1, <3>2, <3>3
  <2>3. QuietDisk'
    BY <1>1, <1>2, <2>1, <2>2, StagedAlone, Onward
  <2>4. kind \in {"promote", "reconcile"} => cur \in Txn /\ IsRecord(cur)
    BY <1>1, Saved DEF Early
  <2>5. QuietOp'
    BY <1>1, <1>2, <2>1, <2>4 DEF Quiet, QuietOp, Early, Swapping
  <2> QED
    BY <2>3, <2>5
<1> QED
  BY <1>3, <1>4

LEMMA QuietDecision ==
  ASSUME Assumptions, IInv, Quiet, RollbackCheck \/ Report
  PROVE  QuietDisk' /\ QuietOp'
<1>1. pc \in {"rbCheck", "report"} /\ UNCHANGED <<files, stage, child>>
  BY DEF RollbackCheck, Report
<1>2. kind \in {"promote", "reconcile"} /\ pc \notin Early \cup {"install"}
  BY <1>1 DEF IInv, OpInv, OpTypes, Control, Early
<1>3. /\ cur \in Txn /\ mem \in Record /\ mem # None /\ stage = None
      /\ mem.phase \in Open \cup {"rolling-back"}
  BY <1>1, <1>2, Saved DEF IInv, OpInv, PhaseFits, SwapHeld, Clear
<1>4. CASE RollbackCheck /\ UNCHANGED txn /\ Leave
  BY <1>1, <1>4, QuietThrow, SamePhases
<1>5. CASE RollbackCheck /\ ~(UNCHANGED txn /\ Leave)
  <2> DEFINE r == [mem EXCEPT !.phase = "rolling-back", !.outcome = "rolled-back",
                              !.good = FALSE, !.receiptAfter = Source[cur]]
  <2>1. /\ mem' = r /\ txn' = [txn EXCEPT ![cur] = r] /\ pc' = "mkStaging"
        /\ files \in {mem.before, Candidate[cur]} /\ UNCHANGED <<kind, cur>>
    BY <1>5 DEF RollbackCheck, Save
  <2>2. r \in Record /\ r.phase = "rolling-back" /\ r.before = mem.before
    <3>1. Source[cur] \in Version
      BY <1>3, Constants
    <3> QED
      BY <1>3, <3>1 DEF Record, Phases, Outcomes
  <2> HIDE DEF r
  <2>3. mem.phase \notin Settled
    BY <1>3 DEF Open, Settled
  <2> QED
    BY <1>1, <1>2, <1>3, <2>1, <2>2, <2>3, QuietSave
<1>6. CASE Report
  <2> DEFINE r == [mem EXCEPT !.receiptAfter = files]
  <2>1. /\ mem' = r /\ txn' = [txn EXCEPT ![cur] = r] /\ pc = "report" /\ pc' = "settle"
        /\ UNCHANGED <<kind, cur>>
    BY <1>6 DEF Report, Save
  <2>2. files \in Version
    BY <1>3 DEF IInv, DiskInv, DiskTypes, MixtureIsPending
  <2>3. r \in Record /\ r.phase = mem.phase /\ r.before = mem.before
    BY <1>3, <2>2 DEF Record
  <2> HIDE DEF r
  <2>4. mem.phase = "rolling-back" /\ files = mem.before
    BY <1>2, <1>3, <2>1 DEF IInv, OpInv, PhaseFits, Quiet, QuietOp
  <2> QED
    BY <1>1, <1>2, <1>3, <2>1, <2>3, <2>4, QuietSave DEF Settled
<1> QED
  BY <1>4, <1>5, <1>6

(* The settlement: what it points at is what was decided. *)
LEMMA QuietSettle ==
  ASSUME Assumptions, IInv, Quiet,
         Undone \/ Settle \/ WriteState \/ AppendJournal \/ SettlePhase \/ Purge
  PROVE  QuietDisk' /\ QuietOp'
<1>1. /\ pc \in {"undone", "settle", "state", "entry", "phase", "purge"}
      /\ UNCHANGED <<files, stage, child>>
  BY DEF Undone, Settle, WriteState, AppendJournal, SettlePhase, Purge, disk
<1>2. kind \in {"promote", "reconcile"} /\ pc \notin Early \cup {"install"}
  BY <1>1 DEF IInv, OpInv, OpTypes, Control, Early
<1>3. cur \in Txn /\ mem \in Record /\ mem # None /\ Consistent(mem) /\ IsRecord(cur)
  BY <1>2, Saved
<1>4. CASE Leave /\ UNCHANGED txn
  BY <1>1, <1>4, QuietThrow, SamePhases
<1>5. CASE ~Leave /\ ~SettlePhase
  <2>1. UNCHANGED <<kind, cur, mem, txn, snap>>
    BY <1>5 DEF Undone, Settle, WriteState, AppendJournal, Purge, Goto, disk
  <2>2. QuietDisk'
    BY <1>1, <1>2, <2>1, Onward, SamePhases
  <2>3. /\ mem.before = txn[cur].before
        /\ mem.phase = "committing" =>
             mem.receiptAfter = txn[cur].receiptAfter /\ mem.post = txn[cur].post
    BY <1>2 DEF Quiet, QuietOp
  <2>4. CASE Undone
    <3>1. pc = "undone" /\ pc' \in {"report", "settle"}
      BY <2>4 DEF Undone, Goto
    <3>2. files = mem.before /\ stage = None
      BY <1>2, <3>1 DEF Quiet, QuietOp, IInv, OpInv, SwapHeld, Clear
    <3> QED
      BY <1>1, <2>1, <2>2, <2>3, <3>1, <3>2 DEF QuietOp, Swapping
  <2>5. CASE Settle
    <3>1. pc = "settle" /\ pc' \in {"purge", "state"}
      BY <1>5, <2>5 DEF Settle, Goto
    <3>2. mem.phase = "rolling-back" => files = mem.before /\ stage = None
      BY <1>2, <3>1 DEF Quiet, QuietOp
    <3> QED
      BY <1>1, <2>1, <2>2, <2>3, <3>1, <3>2 DEF QuietOp, Swapping
  <2>6. CASE WriteState
    <3>1. /\ pc = "state" /\ pc' = "entry"
          /\ snap[SettledSnapshot] = IF Committing THEN mem.receiptAfter ELSE Source[cur]
          /\ head' = SettledSnapshot
      BY <1>5, <2>6 DEF WriteState, Goto
    <3>2. mem.phase = "rolling-back" => files = mem.before /\ stage = None
      BY <1>2, <3>1 DEF Quiet, QuietOp
    <3>3. mem.phase = "committing" => snap[mem.post] = mem.receiptAfter /\ head' = mem.post
      BY <1>3, <3>1 DEF Committing, SettledSnapshot, Consistent
    <3> QED
      BY <1>1, <2>1, <2>2, <2>3, <3>1, <3>2, <3>3 DEF QuietOp, Swapping
  <2>7. CASE AppendJournal
    <3>1. pc = "entry" /\ pc' = "phase" /\ head' = head
      BY <1>5, <2>7 DEF AppendJournal, Goto
    <3>2. /\ mem.phase = "rolling-back" => files = mem.before /\ stage = None
          /\ mem.phase = "committing" => snap[mem.post] = mem.receiptAfter /\ head = mem.post
      BY <1>2, <3>1 DEF Quiet, QuietOp
    <3> QED
      BY <1>1, <2>1, <2>2, <2>3, <3>1, <3>2 DEF QuietOp, Swapping
  <2> QED
    BY <1>5, <2>4, <2>5, <2>6, <2>7 DEF Purge
<1>6. CASE SettlePhase
  <2> DEFINE r == [mem EXCEPT !.phase = mem.outcome]
  <2>1. /\ mem' = r /\ txn' = [txn EXCEPT ![cur] = r] /\ pc = "phase" /\ pc' = "purge"
        /\ UNCHANGED <<kind, cur>>
    BY <1>6 DEF SettlePhase, Save
  <2>2. r \in Record /\ r.phase = mem.outcome /\ mem.outcome \in Settled
    BY <1>3 DEF Record, Phases, Outcomes, Settled
  <2> HIDE DEF r
  <2>3. mem.phase \in {"committing", "rolling-back"}
    BY <1>3, <2>1 DEF IInv, OpInv, PhaseFits
  <2>4. stage = None
    <3>1. CASE mem.phase = "rolling-back"
      BY <1>2, <2>1, <3>1 DEF Quiet, QuietOp
    <3>2. CASE mem.phase = "committing"
      <4>1. PhaseOf(cur) = "committing"
        BY <1>2, <3>2, Alone DEF Settled
      <4> QED
        BY <1>3, <4>1, StagedAlone
    <3> QED
      BY <2>3, <3>1, <3>2
  <2> QED
    BY <1>1, <1>2, <2>1, <2>2, <2>3, <2>4, QuietSave DEF Settled
<1>7. Leave => UNCHANGED txn \/ SettlePhase
  BY DEF Undone, Settle, WriteState, AppendJournal, Purge, disk
<1> QED
  BY <1>4, <1>5, <1>6, <1>7

(* What starts, fails or acts beside the operation. *)
LEMMA QuietRecovers ==
  ASSUME Assumptions, IInv, Quiet, RecoverSwap \/ \E t \in Txn : Reconcile(t)
  PROVE  QuietDisk' /\ QuietOp'
<1>1. CASE RecoverSwap
  <2>1. stage # None /\ pc = "idle" /\ kind' = "recover" /\ UNCHANGED <<disk, child>>
    BY <1>1 DEF RecoverSwap
  <2>2. child # "installer"
    BY <2>1, StagedAlone
  <2>3. QuietDisk'
    BY <2>1, <2>2, DiskQuiet, SamePhases DEF disk
  <2> QED
    BY <2>1, <2>3 DEF QuietOp
<1>2. ASSUME NEW t \in Txn, Reconcile(t) PROVE QuietDisk' /\ QuietOp'
  <2>1. /\ IsRecord(t) /\ (txn[t].phase \in {"installing", "verifying"} => child = "none")
        /\ kind' = "reconcile" /\ cur' = t /\ mem' = txn[t] /\ UNCHANGED <<disk, child>>
        /\ pc' = (IF txn[t].phase \in Settled \cup {"committing"} THEN "settle" ELSE "rbLock")
    BY <1>2 DEF Reconcile
  <2>2. child = "installer" => PhaseOf(t) # "installing"
    BY <2>1 DEF PhaseOf
  <2>3. QuietDisk'
    BY <2>1, <2>2, DiskQuiet, SamePhases DEF disk
  <2>4. QuietOp'
    BY <2>1 DEF QuietOp, Settled, Swapping, disk
  <2> QED
    BY <2>3, <2>4
<1> QED
  BY <1>1, <1>2

LEMMA QuietFaults ==
  ASSUME Assumptions, IInv, Quiet, Fault \/ Crash \/ CrashUser \/ ChildStops
  PROVE  QuietDisk' /\ QuietOp'
<1>1. CASE Fault
  <2>1. /\ Throw /\ pc # "install" /\ child' = child
        /\ stage' \in {stage, None} /\ (files' # files => pc = "replaceRest")
        /\ txn' = (IF pc = "prepare" THEN [txn EXCEPT ![cur] = None] ELSE txn)
    BY <1>1 DEF Fault
  <2>2. \A t \in Txn : PhaseOf(t)' = PhaseOf(t) /\ (IsRecord(t) => txn'[t] = txn[t])
    <3>1. CASE pc = "prepare"
      <4>1. cur \in Txn /\ txn[cur] = Bare /\ txn' = [txn EXCEPT ![cur] = None]
        BY <2>1, <3>1 DEF IInv, OpInv, OpTypes, Control, Held, RollingBack, Swapping, Settling
      <4>2. txn'[cur] = None /\ \A t \in Txn \ {cur} : txn'[t] = txn[t]
        BY <4>1 DEF IInv, DiskInv, DiskTypes
      <4> QED
        BY <4>1, <4>2 DEF PhaseOf, IsRecord
    <3>2. CASE pc # "prepare"
      BY <2>1, <3>2, SamePhases
    <3> QED
      BY <3>1, <3>2
  <2> QED
    BY <2>1, <2>2, QuietThrow DEF Swapping
<1>2. CASE Crash
  <2>1. kind' = "none" /\ UNCHANGED <<disk, child>>
    BY <1>2 DEF Crash
  <2> QED
    BY <2>1, DiskQuiet, SamePhases DEF disk, QuietOp
<1>3. CASE CrashUser \/ ChildStops
  <2>1. UNCHANGED <<disk, opVars>> /\ child' \in {child, "none"}
    BY <1>3 DEF CrashUser, ChildStops
  <2>2. QuietDisk'
    BY <2>1 DEF Quiet, QuietDisk, PhaseOf, IsRecord, disk, opVars
  <2>3. QuietOp'
    BY <2>1 DEF Quiet, QuietOp, Target, disk, opVars
  <2> QED
    BY <2>2, <2>3
<1> QED
  BY <1>1, <1>2, <1>3

(* An installer that runs on belongs to a transaction nothing else is      *)
(* known of.                                                               *)
LEMMA QuietInstaller ==
  ASSUME Assumptions, IInv, Quiet, NEW v \in Version, InstallerWrites(v)
  PROVE  QuietDisk' /\ QuietOp'
<1>1. child = "installer" /\ UNCHANGED <<stage, txn, snap, head, child, opVars>>
  BY DEF InstallerWrites
<1>2. PICK t \in Txn : PhaseOf(t) = "installing" /\ (kind # "none" /\ cur = t => pc = "install")
  BY <1>1 DEF Quiet, QuietDisk
<1>3. \A u \in Txn : PhaseOf(u) \notin Settled \cup {"none"} => u = t
  BY <1>2 DEF PhaseOf, Unsettled, Settled, IInv, DiskInv, OriginalsKept
<1>4. QuietDisk'
  <2>1. stage = None
    BY <1>1, StagedAlone
  <2>2. \A u \in Txn : PhaseOf(u)' = PhaseOf(u)
    BY <1>1 DEF PhaseOf, IsRecord
  <2>3. \A u \in Txn : PhaseOf(u) # "committing"
    BY <1>2, <1>3 DEF Settled
  <2> QED
    BY <1>1, <1>2, <2>1, <2>2, <2>3 DEF QuietDisk, opVars
<1>5. QuietOp'
  <2>1. SUFFICES ASSUME kind \in {"promote", "reconcile"}, pc \notin Early PROVE QuietOp'
    BY <1>1 DEF QuietOp, opVars
  <2>2. /\ mem # None /\ PhaseOf(cur) = mem.phase /\ cur \in Txn
    BY <2>1, Saved DEF PhaseOf
  <2>3. mem.phase \in Settled \/ pc = "install"
    BY <1>2, <1>3, <2>1, <2>2, Saved DEF Record, Phases, Settled
  <2>4. pc \notin Swapping \cup {"swapping", "undone", "report", "settle", "state", "entry", "phase",
                                 "snapshotted", "committing"}
          \/ (pc = "settle" /\ mem.phase \in Settled)
    BY <2>2, <2>3 DEF IInv, OpInv, PhaseFits, Settled, Swapping
  <2>5. mem.before = txn[cur].before /\ (mem.phase = "committing" =>
         mem.receiptAfter = txn[cur].receiptAfter /\ mem.post = txn[cur].post)
    BY <2>1 DEF Quiet, QuietOp
  <2> QED
    BY <1>1, <2>4, <2>5 DEF QuietOp, Swapping, Settled, opVars
<1> QED
  BY <1>4, <1>5

LEMMA InitQuiet == ASSUME Init PROVE Quiet
BY DEF Init, Quiet, QuietDisk, QuietOp, VaultHeld, PhaseOf, IsRecord

LEMMA QuietStep ==
  ASSUME Assumptions, IInv, Quiet, Edits = {}, [Next]_vars
  PROVE  Quiet'
<1>1. VaultHeld'
  BY VaultStep DEF Quiet
<1>2. QuietDisk' /\ QuietOp'
  <2>1. CASE UNCHANGED vars
    <3>1. QuietDisk'
      BY <2>1 DEF Quiet, QuietDisk, PhaseOf, IsRecord, vars, disk, opVars
    <3>2. QuietOp'
      BY <2>1 DEF Quiet, QuietOp, Target, vars, disk, opVars
    <3> QED
      BY <3>1, <3>2
  <2>2. CASE (\E t \in Txn : Promote(t) \/ Reconcile(t)) \/ RecoverSwap
    BY <2>2, QuietBegins, QuietRecovers
  <2>3. CASE SnapshotStep("op") \/ SnapshotStep("user")
    BY <2>3, QuietSnapshot
  <2>4. CASE Fault \/ Crash \/ CrashUser \/ ChildStops
    BY <2>4, QuietFaults
  <2>5. CASE (\E v \in Edits : Edit(v)) \/ (\E v \in Installed : InstallerWrites(v))
    BY <2>5, QuietInstaller DEF Assumptions, VersionAssumption
  <2>6. CASE \/ SwapLock \/ PrepareDir \/ Prepare \/ StartSwap \/ Swapped \/ ChooseRestart
             \/ StartInstall \/ RunInstaller \/ InstallerEnds \/ StartVerify \/ Launch \/ Probe
             \/ Verified \/ Analyze \/ Snapshotted \/ Decide
    BY <2>6, QuietBegins, QuietCheckpoint, QuietVerified, QuietRestart, QuietAnalyze
  <2>7. CASE \/ MakeStaging \/ RecordSwap \/ ReplaceSome \/ ReplaceRest \/ CommitSwap
             \/ CleanPartly \/ CleanSwap
    <3>1. CleanPartly => pc \in {"cleanSwap", "rbClean"}
      BY DEF CleanPartly
    <3> QED
      BY <2>7, <3>1, QuietSwap, QuietRollback
  <2>8. CASE \/ RollbackLock \/ RollbackSwap \/ RollbackClean \/ RollbackCheck \/ Undone \/ Report
             \/ Settle \/ WriteState \/ AppendJournal \/ SettlePhase \/ Purge
    BY <2>8, QuietRollback, QuietDecision, QuietSettle
  <2> QED
    BY <2>1, <2>2, <2>3, <2>4, <2>5, <2>6, <2>7, <2>8 DEF Next, Step
<1> QED
  BY <1>1, <1>2 DEF Quiet

(* Only the last step of a settlement writes a settled phase. *)
LEMMA SettlesLast ==
  ASSUME Assumptions, IInv, [Next]_vars, NEW t \in Txn,
         PhaseOf(t)' # PhaseOf(t), PhaseOf(t)' \in Settled
  PROVE  t = cur /\ SettlePhase
<1>1. txn'[t] # txn[t] /\ txn' # txn
  <2>1. txn'[t] = txn[t] => PhaseOf(t)' = PhaseOf(t)
    BY DEF PhaseOf, IsRecord
  <2> QED
    BY <2>1
<1>2. t = cur
  BY <1>1, Saves
<1>3. txn'[cur] \notin {None, Bare} /\ txn'[cur].phase \in Settled
  BY <1>2 DEF PhaseOf, IsRecord, Settled
<1>4. ASSUME NEW r, txn' = [txn EXCEPT ![cur] = r] PROVE r \notin {None, Bare} /\ r.phase \in Settled
  BY <1>2, <1>3, <1>4 DEF IInv, DiskInv, DiskTypes
<1>5. ~PrepareDir
  BY <1>4 DEF PrepareDir
<1>6. ~(Fault /\ pc = "prepare")
  BY <1>4 DEF Fault
<1>7. ASSUME Prepare \/ StartSwap \/ StartInstall \/ StartVerify \/ Snapshotted \/ Decide
             \/ Swapped \/ Verified \/ RollbackCheck \/ Report
      PROVE  FALSE
  <2>1. pc \in {"prepare", "swapping", "installing", "verifying", "snapshotted", "committing",
                "swapped", "verified", "rbCheck", "report"}
    BY <1>7 DEF Prepare, StartSwap, StartInstall, StartVerify, Snapshotted, Decide, Checkpoint,
       Swapped, Verified, RollbackCheck, Report
  <2>2. mem \in Record /\ mem # None
    BY <2>1 DEF IInv, OpInv, OpTypes, Control, RollingBack, Swapping, Settling
  <2>3. PICK r :
          /\ txn' = [txn EXCEPT ![cur] = r]
          /\ r.phase \in {"swapping", "swapped", "installing", "verifying", "verified",
                          "snapshotted", "committing", "rolling-back"}
               \/ (pc \in {"prepare", "report"} /\ r.phase = mem.phase)
    <3>1. CASE Prepare
      <4> DEFINE s == [mem EXCEPT !.before = files]
      <4>1. s.phase = mem.phase
        BY <2>2 DEF Record, Phases
      <4> HIDE DEF s
      <4>2. txn' = [txn EXCEPT ![cur] = s] /\ pc = "prepare"
        BY <3>1 DEF Prepare, Save, s
      <4> QED
        BY <4>1, <4>2
    <3>2. CASE StartSwap \/ StartInstall \/ StartVerify \/ Snapshotted \/ Decide
      BY <2>2, <3>2 DEF StartSwap, StartInstall, StartVerify, Snapshotted, Decide, Checkpoint, Save, Record
    <3>3. CASE Swapped
      <4> DEFINE s == [mem EXCEPT !.phase = "swapped"]
      <4>1. s.phase = "swapped"
        BY <2>2 DEF Record, Phases
      <4> HIDE DEF s
      <4>2. txn' = [txn EXCEPT ![cur] = s] /\ pc = "swapped"
        BY <3>3 DEF Swapped, Save, s
      <4> QED
        BY <4>1, <4>2
    <3>4. CASE Verified
      <4> DEFINE s == [[mem EXCEPT !.phase = "verified"] EXCEPT !.good = FALSE]
      <4>1. s.phase = "verified"
        BY <2>2 DEF Record, Phases
      <4> HIDE DEF s
      <4>2. txn' = [txn EXCEPT ![cur] = s] /\ pc = "verified"
        BY <3>4 DEF Verified, s
      <4> QED
        BY <4>1, <4>2
    <3>5. CASE RollbackCheck
      BY <1>1, <2>2, <3>5 DEF RollbackCheck, Save, Record
    <3>6. CASE Report
      <4> DEFINE s == [mem EXCEPT !.receiptAfter = files]
      <4>1. s.phase = mem.phase
        BY <2>2 DEF Record, Phases
      <4> HIDE DEF s
      <4>2. txn' = [txn EXCEPT ![cur] = s] /\ pc = "report"
        BY <3>6 DEF Report, Save, s
      <4> QED
        BY <4>1, <4>2
    <3> QED
      BY <1>7, <3>1, <3>2, <3>3, <3>4, <3>5, <3>6
  <2>4. pc \in {"prepare", "report"} => mem.phase \in {"prepared", "rolling-back"}
    BY <2>2 DEF IInv, OpInv, PhaseFits
  <2> QED
    BY <1>4, <2>3, <2>4 DEF Settled
<1> QED
  BY <1>1, <1>2, <1>5, <1>6, <1>7, Saving

LEMMA SettlesRightStep ==
  ASSUME Assumptions, IInv, Quiet, [Next]_vars
  PROVE  SettlesRight
<1>1. SUFFICES ASSUME NEW t \in Txn, PhaseOf(t)' # PhaseOf(t), PhaseOf(t)' \in Settled
               PROVE  /\ PhaseOf(t)' = "rolled-back" => files = txn[t].before
                      /\ PhaseOf(t)' = "committed" => files = snap[txn[t].post] /\ head = txn[t].post
  BY DEF SettlesRight, Settled
<1>2. t = cur /\ SettlePhase
  BY <1>1, SettlesLast
<1>3. pc = "phase" /\ kind \in {"promote", "reconcile"} /\ pc \notin Early
  BY <1>2 DEF SettlePhase, IInv, OpInv, OpTypes, Control, Early
<1>4. mem \in Record /\ mem # None /\ Consistent(mem) /\ cur \in Txn /\ IsRecord(cur)
  BY <1>3, Saved
<1>5. PhaseOf(t)' = mem.outcome /\ PhaseOf(t) = mem.phase
  <2>1. [mem EXCEPT !.phase = mem.outcome].phase = mem.outcome
    BY <1>4 DEF Record
  <2>2. txn'[cur].phase = mem.outcome
    BY <1>2, <1>4, <2>1 DEF SettlePhase, Save, IInv, DiskInv, DiskTypes
  <2>3. txn[cur].phase = mem.phase
    BY <1>3, Saved
  <2> QED
    BY <1>1, <1>2, <1>4, <2>2, <2>3 DEF PhaseOf, IsRecord, Settled
<1>6. mem.phase \in {"committing", "rolling-back"}
  BY <1>3, <1>4 DEF IInv, OpInv, PhaseFits
<1>7. CASE mem.phase = "rolling-back"
  BY <1>2, <1>3, <1>4, <1>5, <1>7 DEF Quiet, QuietOp, Consistent
<1>8. CASE mem.phase = "committing"
  <2>1. files = txn[cur].receiptAfter
    BY <1>2, <1>5, <1>8 DEF Quiet, QuietDisk
  <2>2. /\ mem.receiptAfter = txn[cur].receiptAfter /\ mem.post = txn[cur].post
        /\ snap[mem.post] = mem.receiptAfter /\ head = mem.post
    BY <1>3, <1>8 DEF Quiet, QuietOp
  <2> QED
    BY <1>2, <1>4, <1>5, <1>8, <2>1, <2>2 DEF Consistent
<1> QED
  BY <1>6, <1>7, <1>8

LEMMA ReplacesKnownStep ==
  ASSUME Assumptions, IInv, Quiet, Edits = {}, [Next]_vars
  PROVE  ReplacesKnown
<1>1. SUFFICES ASSUME files' # files, pc' # pc, kind \in {"promote", "reconcile"} PROVE files \in Known
  BY DEF ReplacesKnown
<1>2. ReplaceSome \/ ReplaceRest \/ RollbackSwap \/ (Fault /\ pc = "replaceRest")
  <2>1. files' = files => FALSE
    BY <1>1
  <2>2. pc' = pc => FALSE
    BY <1>1
  <2>3. ~UNCHANGED vars /\ ~UNCHANGED disk /\ ~UNCHANGED opVars
    BY <1>1 DEF vars, disk, opVars
  <2>4. Next
    BY <2>3
  <2> QED
    BY <2>1, <2>3, <2>4 DEF Next, Step, SnapshotStep, SnapshotLock, SnapshotCapture, SnapshotNote,
       Promote, Reconcile, RecoverSwap, SwapLock, PrepareDir, Prepare, StartSwap, StartInstall,
       StartVerify, Snapshotted, Decide, Checkpoint, Swapped, Verified,
       ChooseRestart, RunInstaller, InstallerEnds, Launch, Probe, Analyze, MakeStaging, RecordSwap,
       CommitSwap, CleanPartly, CleanSwap, RollbackLock, RollbackClean, RollbackCheck, Undone,
       Report, Settle, WriteState, AppendJournal, SettlePhase, Purge, Fault, Crash, CrashUser,
       ChildStops, InstallerWrites, disk
<1>3. pc \in {"replace", "replaceRest", "rbSwaps"} /\ pc \notin Early
  BY <1>2 DEF ReplaceSome, ReplaceRest, RollbackSwap, Early
<1>4. mem.before = txn[cur].before /\ mem \in Record /\ mem # None
  BY <1>1, <1>3, Saved DEF Quiet, QuietOp
<1>5. CASE pc = "replace"
  BY <1>1, <1>3, <1>5 DEF Quiet, QuietOp, Known
<1>6. CASE pc = "replaceRest"
  BY <1>1, <1>3, <1>6 DEF Quiet, QuietOp, Known, Target
<1>7. CASE pc = "rbSwaps"
  <2>1. /\ stage \notin {None, Bare} /\ files \in {stage.before, stage.after, Mixed}
        /\ files' = stage.before
    BY <1>1, <1>2, <1>7 DEF ReplaceSome, ReplaceRest, RollbackSwap, Recoverable
  <2>2. PICK t \in Txn : /\ PhaseOf(t) \in {"swapping", "rolling-back"}
                         /\ stage # Bare => stage.after \in {Candidate[t], txn[t].before}
    BY <2>1 DEF Quiet, QuietDisk
  <2>3. mem.phase \notin Settled
    BY <1>4, <1>7 DEF IInv, OpInv, PhaseFits, Open, Settled
  <2>4. t = cur
    BY <1>1, <1>3, <2>2, <2>3, Alone DEF Settled
  <2> QED
    BY <1>1, <1>4, <2>1, <2>2, <2>4 DEF Known
<1> QED
  BY <1>3, <1>5, <1>6, <1>7

(* When nobody edits, a promotion reported as rolled back left the         *)
(* original files, one that committed left the snapshot it points at, and  *)
(* nothing is written over files that are neither, whatever is killed,     *)
(* fails, is retried or was left running.                                  *)
THEOREM FilesAreSettled == ASSUME Assumptions PROVE Spec => SettledFiles
<1>1. Init => (Edits = {} => Quiet)
  BY InitQuiet
<1>2. IInv /\ (Edits = {} => Quiet) /\ [Next]_vars => (Edits = {} => Quiet)'
  BY QuietStep
<1>3. IInv /\ (Edits = {} => Quiet) /\ [Next]_vars
        => [Edits = {} => SettlesRight /\ ReplacesKnown]_vars
  BY SettlesRightStep, ReplacesKnownStep
<1> QED
  BY <1>1, <1>2, <1>3, Invariance, PTL DEF Spec, SettledFiles

===============================================================================
