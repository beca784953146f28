----------------------------- MODULE StoreProofs ------------------------------
(***************************************************************************)
(* Proofs about the writer lock of a profile (FileLock) and the vault that *)
(* is kept under it (Vault).                                               *)
(***************************************************************************)
EXTENDS FileLock, Vault, FiniteSetTheorems, TLAPS

----------------------------------------------------------------------------
(***************************************************************************)
(* Proofs about FileLock for every set of processes and every mix of call  *)
(* options: the types, and, on one host, the inductive invariant LockInv,  *)
(* mutual exclusion and the refinement of WriterLock.                      *)
(***************************************************************************)

(* Every variable keeps its type, on any number of hosts (lock.ts:107).    *)
THEOREM TypeCorrect == Spec => []TypeOK
<1> USE DEF TypeOK, LockFile, Gen, Labels, TakeoverOwn, AnyOptions
<1>1. Init => TypeOK
  BY GenerationsAssumption DEF Init
<1>2. TypeOK /\ [Next]_vars => TypeOK'
  <2> SUFFICES ASSUME TypeOK, [Next]_vars PROVE TypeOK'
    OBVIOUS
  <2>1. ASSUME NEW p \in Proc, NEW o \in CallOptions, Call(p, o)
        PROVE TypeOK'
    <3>1. (gen[p] + 1) % Generations \in 0 .. Generations - 1
      BY GenerationsAssumption
    <3>2. QED
      BY <2>1, <3>1, OptionsAssumption DEF Call, Goto
  <2>2. ASSUME NEW p \in Proc, ReadExisting(p) PROVE TypeOK'
    BY <2>2 DEF ReadExisting, Goto, Parsed
  <2>3. ASSUME NEW p \in Proc, Judge(p) PROVE TypeOK'
    BY <2>3 DEF Judge, Goto
  <2>4. ASSUME NEW p \in Proc, OpenGuard(p) PROVE TypeOK'
    BY <2>4 DEF OpenGuard, Goto
  <2>5. ASSUME NEW p \in Proc, Reread(p) PROVE TypeOK'
    BY <2>5 DEF Reread, Goto
  <2>6. ASSUME NEW p \in Proc, UnlinkStale(p) PROVE TypeOK'
    BY <2>6 DEF UnlinkStale, Goto
  <2>7. ASSUME NEW p \in Proc, CloseGuard(p) PROVE TypeOK'
    BY <2>7 DEF CloseGuard, Goto
  <2>8. ASSUME NEW p \in Proc, Create(p) PROVE TypeOK'
    <3>1. Mine(p, FALSE) \in LockFile
      BY DEF Mine
    <3>2. file' \in LockFile \cup {NoFile}
      BY <2>8, <3>1 DEF Create
    <3>3. QED
      BY <2>8, <3>2 DEF Create, Goto
  <2>9. ASSUME NEW p \in Proc, WriteRecord(p) PROVE TypeOK'
    BY <2>9 DEF WriteRecord, Goto, Mine
  <2>10. ASSUME NEW p \in Proc,
                WriteFails(p) \/ ReleaseRead(p) \/ ReleaseCall(p) \/ Crash(p)
         PROVE TypeOK'
    BY <2>10 DEF WriteFails, ReleaseRead, ReleaseCall, Crash, Goto
  <2>11. ASSUME NEW p \in Proc, ReleaseUnlink(p) PROVE TypeOK'
    BY <2>11 DEF ReleaseUnlink, Goto
  <2>12. CASE UNCHANGED vars
    BY <2>12 DEF vars
  <2>13. QED
    BY <2>1, <2>2, <2>3, <2>4, <2>5, <2>6, <2>7, <2>8, <2>9, <2>10, <2>11,
       <2>12 DEF Next, Step
<1>3. QED
  BY <1>1, <1>2, PTL DEF Spec

-----------------------------------------------------------------------------
(* An acquisition names the file it creates.                               *)
LEMMA MineIsLockFile ==
  ASSUME TypeOK, NEW p \in Proc, NEW w \in BOOLEAN
  PROVE  /\ Mine(p, w) \in LockFile
         /\ Mine(p, w) # NoFile
         /\ Mine(p, w).proc = p
         /\ Mine(p, w).written = w
BY NoFileAssumption DEF TypeOK, Mine, LockFile

(* On one host LockInv is inductive: nobody but the owner of the file at   *)
(* the path, or the one process that took the guard to clear a dead owner, *)
(* ever removes it (lock.ts:127-151, 163-184).                             *)
THEOREM LockInvariant ==
  ASSUME OneHost
  PROVE  Spec => []LockInv
<1>1. Init => LockInv
  <2> SUFFICES ASSUME Init PROVE LockInv
    OBVIOUS
  <2>1. TypeOK
    BY GenerationsAssumption
    DEF Init, TypeOK, LockFile, Gen, Labels, TakeoverOwn, AnyOptions
  <2>2. QED
    BY <2>1 DEF Init, LockInv, OwnsWhatItUses, JudgedDead, HoldsFile, TakeoverOwn
<1>2. LockInv /\ TypeOK' /\ [Next]_vars => LockInv'
  <2> SUFFICES ASSUME LockInv, TypeOK', [Next]_vars,
                      NEW q \in Proc
               PROVE  OwnsWhatItUses(q)' /\ JudgedDead(q)'
    BY DEF LockInv
  <2> USE DEF LockInv, OwnsWhatItUses, JudgedDead, HoldsFile, TakeoverOwn, Goto,
              Alive
  <2>a. TypeOK /\ pc \in [Proc -> Labels] /\ gen \in [Proc -> Gen]
        /\ opts \in [Proc -> AnyOptions] /\ seen \in [Proc -> LockFile \cup {NoFile}]
    BY DEF TypeOK
  <2>b. \A r \in Proc, w \in BOOLEAN : Mine(r, w) # NoFile /\ Mine(r, w).proc = r
                                       /\ Mine(r, w).written = w
    BY <2>a, MineIsLockFile
  <2>c. \A r \in Proc : seen[r] # NoFile => seen[r].proc \in Proc
    BY <2>a DEF LockFile
  <2>1. ASSUME NEW p \in Proc, NEW o \in CallOptions, Call(p, o)
        PROVE  OwnsWhatItUses(q)' /\ JudgedDead(q)'
    BY <2>1, <2>a, <2>c DEF Call, Mine
  <2>2. ASSUME NEW p \in Proc, ReadExisting(p)
        PROVE  OwnsWhatItUses(q)' /\ JudgedDead(q)'
    BY <2>2, <2>a, <2>c DEF ReadExisting, Mine, Parsed
  <2>3. ASSUME NEW p \in Proc, Judge(p)
        PROVE  OwnsWhatItUses(q)' /\ JudgedDead(q)'
    BY <2>3, <2>a, <2>c, OneHost DEF Judge, Mine, IsStale, OtherHost, OneHost
  <2>4. ASSUME NEW p \in Proc, OpenGuard(p)
        PROVE  OwnsWhatItUses(q)' /\ JudgedDead(q)'
    BY <2>4, <2>a, <2>c, ProcAssumption DEF OpenGuard, Mine
  <2>5. ASSUME NEW p \in Proc, Reread(p)
        PROVE  OwnsWhatItUses(q)' /\ JudgedDead(q)'
    BY <2>5, <2>a, <2>c DEF Reread, Mine, Parsed
  <2>6. ASSUME NEW p \in Proc, UnlinkStale(p)
        PROVE  OwnsWhatItUses(q)' /\ JudgedDead(q)'
    BY <2>6, <2>a, <2>b, <2>c DEF UnlinkStale, Mine
  <2>7. ASSUME NEW p \in Proc, CloseGuard(p)
        PROVE  OwnsWhatItUses(q)' /\ JudgedDead(q)'
    BY <2>7, <2>a, <2>c DEF CloseGuard, Mine
  <2>8. ASSUME NEW p \in Proc, Create(p)
        PROVE  OwnsWhatItUses(q)' /\ JudgedDead(q)'
    <3>1. gen' = gen /\ Mine(q, FALSE)' = Mine(q, FALSE) /\ Mine(q, TRUE)' = Mine(q, TRUE)
      BY <2>8 DEF Create, Mine
    <3>2. CASE file = NoFile
      <4>1. file' = Mine(p, FALSE) /\ pc' = [pc EXCEPT ![p] = "write"]
        BY <2>8, <3>2 DEF Create
      <4>2. CASE q = p
        BY <2>8, <2>a, <3>1, <4>1, <4>2 DEF Create
      <4>3. CASE q # p
        <5>1. pc'[q] = pc[q] /\ pc[q] # "write" /\ pc[q] \notin HoldsFile /\ pc[q] # "unlink"
          BY <2>a, <2>b, <3>2, <4>1, <4>3
        <5>2. QED
          BY <2>8, <2>a, <2>c, <4>1, <4>3, <5>1 DEF Create
      <4>4. QED
        BY <4>2, <4>3
    <3>3. CASE file # NoFile
      BY <2>8, <2>a, <2>c, <3>1, <3>3 DEF Create
    <3>4. QED
      BY <3>2, <3>3
  <2>9. ASSUME NEW p \in Proc, WriteRecord(p)
        PROVE  OwnsWhatItUses(q)' /\ JudgedDead(q)'
    <3>1. Mine(q, FALSE)' = Mine(q, FALSE) /\ Mine(q, TRUE)' = Mine(q, TRUE)
      BY <2>9 DEF WriteRecord, Mine
    <3>2. file = Mine(p, FALSE) /\ file' = Mine(p, TRUE) /\ pc' = [pc EXCEPT ![p] = "held"]
      BY <2>9 DEF WriteRecord
    <3>3. CASE q = p
      BY <2>9, <2>a, <3>1, <3>2, <3>3 DEF WriteRecord
    <3>4. CASE q # p
      <4>1. pc[q] # "write" /\ pc[q] \notin HoldsFile
        <5>1. Mine(q, FALSE).proc = q /\ Mine(q, TRUE).proc = q /\ Mine(p, FALSE).proc = p
          BY DEF Mine
        <5>2. Mine(q, FALSE) # Mine(p, FALSE) /\ Mine(q, TRUE) # Mine(p, FALSE)
          BY <5>1, <3>4
        <5>3. QED
          BY <3>2, <5>2, <2>a
      <4>2. pc[q] # "unlink"
        BY <2>b, <3>2
      <4>3. pc'[q] = pc[q]
        BY <2>a, <3>2, <3>4
      <4>4. QED
        BY <2>9, <2>a, <2>c, <3>4, <4>1, <4>2, <4>3 DEF WriteRecord
    <3>5. QED
      BY <3>3, <3>4
  <2>10. ASSUME NEW p \in Proc,
                WriteFails(p) \/ ReleaseRead(p) \/ ReleaseCall(p) \/ Crash(p)
         PROVE  OwnsWhatItUses(q)' /\ JudgedDead(q)'
    BY <2>10, <2>a, <2>c DEF WriteFails, ReleaseRead, ReleaseCall, Crash, Mine
  <2>11. ASSUME NEW p \in Proc, ReleaseUnlink(p)
         PROVE  OwnsWhatItUses(q)' /\ JudgedDead(q)'
    BY <2>11, <2>a, <2>b, <2>c DEF ReleaseUnlink, Mine
  <2>12. CASE UNCHANGED vars
    BY <2>12 DEF vars, Mine
  <2>13. QED
    BY <2>1, <2>2, <2>3, <2>4, <2>5, <2>6, <2>7, <2>8, <2>9, <2>10, <2>11,
       <2>12 DEF Next, Step
<1>3. QED
  BY <1>1, <1>2, TypeCorrect, PTL DEF Spec

(* At most one process is in the critical section (lock.ts:2-6).           *)
THEOREM MutualExclusionHolds ==
  ASSUME OneHost
  PROVE  Spec => []MutualExclusion
<1>1. LockInv => MutualExclusion
  <2> SUFFICES ASSUME LockInv, NEW p \in Proc, NEW q \in Proc,
                      pc[p] = "held", pc[q] = "held"
               PROVE  p = q
    BY DEF MutualExclusion
  <2>1. file = Mine(p, TRUE) /\ file = Mine(q, TRUE)
    BY DEF LockInv, OwnsWhatItUses, HoldsFile
  <2>2. QED
    BY <2>1 DEF Mine
<1>2. QED
  BY <1>1, LockInvariant, PTL

-----------------------------------------------------------------------------
(* The refinement mapping: the path names the owner, the living are up.    *)
LEMMA MappedOwner ==
  ASSUME TypeOK
  PROVE  file # NoFile => file.proc \in Proc /\ file.proc # NoProc
BY ProcAssumption DEF TypeOK, LockFile

(* lock.ts:1-16: the lock file implements the lock everything else relies  *)
(* on: O_EXCL creation acquires, release() releases, a takeover only ever  *)
(* breaks the lock of a dead owner, every other system call is a stutter.  *)
THEOREM LockImplementsWriterLock ==
  ASSUME OneHost
  PROVE  Spec => ImplementsWriterLock
<1> DEFINE own == IF file = NoFile THEN NoProc ELSE file.proc
           live == {p \in Proc : Alive(p)}
<1>1. Init => Lock!Init
  BY DEF Init, Lock!Init, Alive
<1>2. LockInv /\ [Next]_vars => [Lock!Next]_Lock!vars
  <2> SUFFICES ASSUME LockInv, [Next]_vars
               PROVE  Lock!Next \/ (own' = own /\ live' = live)
    BY DEF Lock!vars
  <2>a. TypeOK /\ pc \in [Proc -> Labels]
    BY DEF LockInv, TypeOK
  <2>b. \A p \in Proc : OwnsWhatItUses(p) /\ JudgedDead(p)
    BY DEF LockInv
  <2>c. \A r \in Proc, w \in BOOLEAN : Mine(r, w) # NoFile /\ Mine(r, w).proc = r
    BY <2>a, MineIsLockFile
  <2>d. file # NoFile => file.proc \in Proc /\ file.proc # NoProc
    BY <2>a, MappedOwner
  <2>1. ASSUME NEW p \in Proc, Create(p)
        PROVE  Lock!Next \/ (own' = own /\ live' = live)
    <3>1. CASE file = NoFile
      <4>1. own = NoProc /\ own' = p
        BY <2>1, <2>c, <3>1 DEF Create
      <4>2. p \in live /\ live' = live
        BY <2>1, <2>a, <3>1 DEF Create, Alive, Goto
      <4>3. Lock!Acquire(p)
        BY <4>1, <4>2 DEF Lock!Acquire
      <4>4. QED
        BY <4>3 DEF Lock!Next
    <3>2. CASE file # NoFile
      BY <2>1, <2>a, <3>2 DEF Create, Alive, Goto
    <3>3. QED
      BY <3>1, <3>2
  <2>2. ASSUME NEW p \in Proc, ReleaseUnlink(p)
        PROVE  Lock!Next \/ (own' = own /\ live' = live)
    <3>1. own = p /\ own' = NoProc
      BY <2>2, <2>b, <2>c DEF ReleaseUnlink, OwnsWhatItUses, HoldsFile
    <3>2. p \in live /\ live' = live
      BY <2>2, <2>a DEF ReleaseUnlink, Alive, Goto
    <3>3. Lock!Release(p)
      BY <3>1, <3>2 DEF Lock!Release
    <3>4. QED
      BY <3>3 DEF Lock!Next
  <2>3. ASSUME NEW p \in Proc, UnlinkStale(p)
        PROVE  Lock!Next \/ (own' = own /\ live' = live)
    <3>1. file = seen[p] /\ seen[p] # NoFile /\ ~Alive(seen[p].proc)
      BY <2>3, <2>b DEF UnlinkStale, JudgedDead
    <3>2. own \in Proc /\ own \notin live /\ own' = NoProc
      BY <2>3, <2>d, <3>1 DEF UnlinkStale
    <3>3. live' = live
      BY <2>3, <2>a DEF UnlinkStale, Alive, Goto
    <3>4. Lock!Break
      BY <3>2, <3>3 DEF Lock!Break
    <3>5. QED
      BY <3>4 DEF Lock!Next
  <2>4. ASSUME NEW p \in Proc, Crash(p)
        PROVE  Lock!Next \/ (own' = own /\ live' = live)
    <3>1. p \in live /\ own' = own /\ live' = live \ {p}
      BY <2>4, <2>a DEF Crash, Alive, Goto
    <3>2. Lock!Die(p)
      BY <3>1 DEF Lock!Die
    <3>3. QED
      BY <3>2 DEF Lock!Next
  <2>5. ASSUME NEW p \in Proc, WriteRecord(p)
        PROVE  Lock!Next \/ (own' = own /\ live' = live)
    <3>1. file = Mine(p, FALSE) /\ file' = Mine(p, TRUE)
      BY <2>5, <2>b DEF WriteRecord, OwnsWhatItUses
    <3>2. own' = own
      BY <2>c, <3>1
    <3>3. live' = live
      BY <2>5, <2>a DEF WriteRecord, Alive, Goto
    <3>4. QED
      BY <3>2, <3>3
  <2>6. ASSUME NEW p \in Proc,
               \/ \E o \in CallOptions : Call(p, o)
               \/ ReadExisting(p) \/ Judge(p) \/ OpenGuard(p) \/ Reread(p)
               \/ CloseGuard(p) \/ WriteFails(p) \/ ReleaseRead(p) \/ ReleaseCall(p)
        PROVE  own' = own /\ live' = live
    BY <2>6, <2>a DEF Call, ReadExisting, Judge, OpenGuard, Reread, CloseGuard,
       WriteFails, ReleaseRead, ReleaseCall, Alive, Goto
  <2>7. CASE UNCHANGED vars
    BY <2>7 DEF vars, Alive
  <2>8. QED
    BY <2>1, <2>2, <2>3, <2>4, <2>5, <2>6, <2>7 DEF Next, Step
<1>3. QED
  BY <1>1, <1>2, LockInvariant, PTL DEF Spec, ImplementsWriterLock, Lock!Spec

(* lock.ts:8-9: no step but the owner's own write and release changes the  *)
(* lock file of a process that lives.                                      *)
THEOREM LiveLockIsKept ==
  ASSUME OneHost
  PROVE  Spec => LiveLockKept
<1> DEFINE LiveKept == file # NoFile /\ Alive(file.proc) /\ file' # file
                     => /\ pc[file.proc] \in {"write", "releaseUnlink"}
                        /\ pc'[file.proc] # pc[file.proc]
<1>1. LockInv /\ [Next]_vars => [LiveKept]_vars
  <2> SUFFICES ASSUME LockInv, [Next]_vars,
                      file # NoFile, Alive(file.proc), file' # file
               PROVE  /\ pc[file.proc] \in {"write", "releaseUnlink"}
                      /\ pc'[file.proc] # pc[file.proc]
    OBVIOUS
  <2>a. TypeOK /\ pc \in [Proc -> Labels]
    BY DEF LockInv, TypeOK
  <2>b. \A p \in Proc : OwnsWhatItUses(p) /\ JudgedDead(p)
    BY DEF LockInv
  <2>c. \A r \in Proc, w \in BOOLEAN : Mine(r, w).proc = r
    BY <2>a, MineIsLockFile
  <2>1. ASSUME NEW p \in Proc, WriteRecord(p)
        PROVE  pc[file.proc] = "write" /\ pc'[file.proc] # "write"
    BY <2>1, <2>a, <2>b, <2>c DEF WriteRecord, Goto, OwnsWhatItUses
  <2>2. ASSUME NEW p \in Proc, ReleaseUnlink(p)
        PROVE  pc[file.proc] = "releaseUnlink" /\ pc'[file.proc] # "releaseUnlink"
    BY <2>2, <2>a, <2>b, <2>c DEF ReleaseUnlink, Goto, OwnsWhatItUses, HoldsFile
  <2>3. ASSUME NEW p \in Proc, UnlinkStale(p)
        PROVE  FALSE
    BY <2>3, <2>b DEF UnlinkStale, JudgedDead
  <2>4. ASSUME NEW p \in Proc, Create(p)
        PROVE  FALSE
    BY <2>4 DEF Create
  <2>5. ASSUME NEW p \in Proc,
               \/ \E o \in CallOptions : Call(p, o)
               \/ ReadExisting(p) \/ Judge(p) \/ OpenGuard(p) \/ Reread(p)
               \/ CloseGuard(p) \/ WriteFails(p) \/ ReleaseRead(p)
               \/ ReleaseCall(p) \/ Crash(p)
        PROVE  FALSE
    BY <2>5 DEF Call, ReadExisting, Judge, OpenGuard, Reread, CloseGuard,
       WriteFails, ReleaseRead, ReleaseCall, Crash
  <2>6. CASE UNCHANGED vars
    BY <2>6 DEF vars
  <2>7. QED
    BY <2>1, <2>2, <2>3, <2>4, <2>5, <2>6 DEF Next, Step
<1>2. QED
  BY <1>1, LockInvariant, PTL DEF Spec, LiveLockKept

----------------------------------------------------------------------------
(***************************************************************************)
(* The vault stays whole, for every number of snapshots, contents, days    *)
(* and quarantines and every retention policy.                             *)
(*                                                                         *)
(* VaultWhole is not inductive: a collection would move out an object that *)
(* a manifest refers to, a manifest would be written before its objects,   *)
(* and a prune would take the head.  VaultInv adds what each running job   *)
(* has seen to before: the files of a snapshot are stored or still to      *)
(* store, what a collection is about to move no manifest refers to, what a *)
(* prune is about to take is not a head; and that a branch reads files of  *)
(* a snapshot whose identifier is not given again.                         *)
(***************************************************************************)

JobInv ==
  /\ Running("snapshot") =>
       /\ next - 1 \notin Kept /\ next - 1 \in Nat \ {0}
       /\ job.todo \subseteq job.files /\ job.files \ job.todo \subseteq objects
  /\ Running("note") => next - 1 \in Kept
  /\ Running("prune") => job.todo \cap {last, good} \subseteq {None}
  /\ Running("collect") => job.todo \cap Referenced = {}
  /\ job.op \in {"collect", "restore"} =>
       job.gc \in DOMAIN quarantine /\ job.todo \subseteq Content

BranchInv ==
  branch # NoBranch =>
    /\ branch.of \in 1 .. next - 1
    /\ Running("snapshot") => branch.of # next - 1
    /\ branch.of \in Kept => branch.todo \subseteq snaps[branch.of].files

VaultInv == VaultTypeOK /\ VaultWhole /\ JobInv /\ BranchInv

-----------------------------------------------------------------------------
(* Recovery references and heads that have a manifest are protected.       *)
LEMMA PinnedAreProtected == Pinned \cap Kept \subseteq Protected
BY DEF Protected, Ancestry

(* The files of a manifest, and all that are referred to.                  *)
LEMMA FilesReferenced ==
  ASSUME NEW i \in Kept PROVE snaps[i].files \subseteq Referenced
BY DEF Referenced

LEMMA InitVault == VaultInit => VaultInv
<1> SUFFICES ASSUME VaultInit PROVE VaultInv
  OBVIOUS
<1>1. Kept = {} /\ DOMAIN quarantine = {}
  BY DEF VaultInit, Kept
<1>2. IsFiniteSet(DOMAIN quarantine) /\ Cardinality(DOMAIN quarantine) = 0
  BY <1>1, FS_EmptySet
<1>3. VaultTypeOK
  BY <1>1, <1>2 DEF VaultInit, VaultTypeOK, NoJob, NoBranch, Job, Kept
<1>4. VaultWhole
  BY <1>1 DEF VaultInit, VaultWhole, Referenced, NoBranch
<1> QED
  BY <1>1, <1>3, <1>4 DEF VaultInit, VaultInv, JobInv, BranchInv, Running, NoJob

(* A new or changed job keeps its shape.                                   *)
LEMMA Manifests ==
  ASSUME VaultInv, NEW i \in Kept
  PROVE  snaps[i] \in Manifest /\ snaps[i].files \subseteq Content /\ i \in Nat \ {0} /\ i < next
BY DEF VaultInv, VaultTypeOK, Manifest

-----------------------------------------------------------------------------
(* Taking a snapshot: what is on disk already stays as it is, until the    *)
(* manifest is written behind its objects.                                 *)
LEMMA TakesStep ==
  ASSUME VaultInv, NEW files \in SUBSET Content, TakeSnapshot(files) PROVE VaultInv'
<1>1. /\ job.op = "none" /\ next' = next + 1
      /\ job' = [op |-> "snapshot", todo |-> files, files |-> files, gc |-> 0]
      /\ UNCHANGED <<objects, snaps, day, last, good, quarantine, branch, pins>>
  BY DEF TakeSnapshot, Begin, NoJob
<1>2. VaultTypeOK'
  BY <1>1 DEF VaultInv, VaultTypeOK, Kept, Job
<1>3. VaultWhole'
  BY <1>1 DEF VaultInv, VaultWhole, Kept, Referenced
<1>4. JobInv'
  BY <1>1 DEF VaultInv, VaultTypeOK, JobInv, Running, Kept
<1>5. BranchInv'
  BY <1>1 DEF VaultInv, VaultTypeOK, BranchInv, Running, Kept, NoBranch
<1> QED
  BY <1>2, <1>3, <1>4, <1>5 DEF VaultInv

LEMMA PutsStep == ASSUME VaultInv, NEW c \in Content, PutObject(c) PROVE VaultInv'
<1>1. /\ job.op = "snapshot" /\ c \in job.todo /\ objects' = objects \cup {c}
      /\ job'.op = "snapshot" /\ job'.todo = job.todo \ {c} /\ job'.files = job.files
      /\ job' \in Job
      /\ UNCHANGED <<snaps, next, day, last, good, quarantine, branch, pins>>
  BY DEF PutObject, Running, VaultInv, VaultTypeOK, Job
<1>2. VaultTypeOK'
  BY <1>1 DEF VaultInv, VaultTypeOK, Kept
<1>3. VaultWhole'
  BY <1>1 DEF VaultInv, VaultWhole, Kept, Referenced
<1>4. JobInv'
  BY <1>1 DEF VaultInv, JobInv, Running, Kept
<1>5. BranchInv'
  BY <1>1 DEF VaultInv, BranchInv, Running, Kept, NoBranch
<1> QED
  BY <1>2, <1>3, <1>4, <1>5 DEF VaultInv

LEMMA WritesStep == ASSUME VaultInv, WriteManifest PROVE VaultInv'
<1> DEFINE m == [files |-> job.files, day |-> day, parent |-> Newest(Kept)]
<1>1. /\ job.op = "snapshot" /\ job.todo = {}
      /\ snaps' = With(snaps, next - 1, m)
      /\ job'.op = "note" /\ job' \in Job
      /\ UNCHANGED <<objects, next, day, last, good, quarantine, branch, pins>>
  BY DEF WriteManifest, Running, VaultInv, VaultTypeOK, Job
<1>2. Kept' = Kept \cup {next - 1} /\ next - 1 \notin Kept /\ next - 1 \in Nat \ {0}
  BY <1>1 DEF Kept, With, VaultInv, JobInv, Running
<1>3. snaps'[next - 1] = m /\ \A i \in Kept : snaps'[i] = snaps[i]
  BY <1>1, <1>2 DEF With, Kept
<1>4. m.files = job.files /\ m \in Manifest
  <2>1. Newest(Kept) \subseteq Kept /\ Kept \subseteq Nat
    BY Manifests DEF Newest
  <2>2. job.files \in SUBSET Content /\ day \in Nat
    BY DEF VaultInv, VaultTypeOK, Job
  <2> QED
    BY <2>1, <2>2 DEF Manifest
<1> HIDE DEF m
<1>5. VaultTypeOK'
  <2>1. snaps' = [i \in Kept' |-> snaps'[i]]
    BY <1>1, <1>2 DEF With, Kept
  <2>2. \A i \in Kept' : snaps'[i] \in Manifest
    BY <1>2, <1>3, <1>4, Manifests
  <2>3. snaps' \in [Kept' -> Manifest]
    BY <2>1, <2>2
  <2>4. Kept' \subseteq 1 .. next' - 1
    BY <1>1, <1>2 DEF VaultInv, VaultTypeOK
  <2> QED
    BY <1>1, <2>3, <2>4 DEF VaultInv, VaultTypeOK
<1>6. job.files \subseteq objects
  BY <1>1 DEF VaultInv, JobInv, Running
<1>7. VaultWhole'
  <2>1. Referenced' \subseteq objects'
    BY <1>1, <1>2, <1>3, <1>4, <1>6 DEF Referenced, VaultInv, VaultWhole
  <2> QED
    <3>1. branch.of \in Kept' => branch.todo \subseteq objects
      <4>1. CASE branch = NoBranch
        BY <4>1 DEF NoBranch
      <4>2. CASE branch # NoBranch
        BY <4>2, <1>1, <1>2 DEF VaultInv, BranchInv, VaultWhole, Running
      <4> QED
        BY <4>1, <4>2
    <3> QED
      BY <1>1, <1>2, <2>1, <3>1 DEF VaultInv, VaultWhole
<1>8. JobInv'
  BY <1>1, <1>2 DEF JobInv, Running
<1>9. BranchInv'
  BY <1>1, <1>2, <1>3 DEF VaultInv, BranchInv, Running, NoBranch
<1> QED
  BY <1>5, <1>7, <1>8, <1>9 DEF VaultInv

LEMMA NotesStep == ASSUME VaultInv, NoteSnapshot \/ NoteGood PROVE VaultInv'
<1>1. /\ job'.op = "none" /\ job' \in Job
      /\ UNCHANGED <<objects, snaps, next, day, quarantine, branch, pins>>
  BY DEF NoteSnapshot, NoteGood, Running, NoJob, Job, VaultInv, VaultTypeOK
<1>2. /\ last' \in Kept \cup {None} /\ good' \in Kept \cup {None}
      /\ last' \in Nat \cup {None} /\ good' \in Nat \cup {None}
  BY DEF NoteSnapshot, NoteGood, VaultInv, VaultTypeOK, VaultWhole, JobInv
<1>3. VaultTypeOK'
  BY <1>1, <1>2 DEF VaultInv, VaultTypeOK, Kept
<1>4. VaultWhole'
  BY <1>1, <1>2 DEF VaultInv, VaultWhole, Kept, Referenced
<1>5. JobInv'
  BY <1>1 DEF JobInv, Running
<1>6. BranchInv'
  BY <1>1 DEF VaultInv, BranchInv, Running, Kept, NoBranch
<1> QED
  BY <1>3, <1>4, <1>5, <1>6 DEF VaultInv

-----------------------------------------------------------------------------
(* Pruning and deleting: only manifests go, and no head.                   *)
LEMMA FewerManifests ==
  ASSUME VaultInv, NEW gone, snaps' = Without(snaps, gone),
         gone \cap {last, good} \subseteq {None},
         Running("snapshot") => job' = job,
         job'.op = job.op, job' \in Job, job'.todo \subseteq job.todo,
         job'.files = job.files, job'.gc = job.gc,
         job.op # "note",
         UNCHANGED <<objects, next, day, last, good, quarantine, branch, pins>>
  PROVE  VaultInv'
<1>1. Kept' = Kept \ gone /\ \A i \in Kept' : snaps'[i] = snaps[i]
  BY DEF Without, Kept
<1>2. VaultTypeOK'
  <2>1. snaps' = [i \in Kept' |-> snaps[i]]
    BY <1>1 DEF Without, Kept
  <2>2. snaps' \in [Kept' -> Manifest]
    BY <1>1, <2>1, Manifests
  <2>3. Kept' \subseteq 1 .. next' - 1
    BY <1>1 DEF VaultInv, VaultTypeOK
  <2> QED
    BY <2>2, <2>3 DEF VaultInv, VaultTypeOK
<1>3. Referenced' \subseteq Referenced
  BY <1>1 DEF Referenced
<1>4. VaultWhole'
  BY <1>1, <1>3 DEF VaultInv, VaultWhole
<1>5. JobInv'
  BY <1>1, <1>3 DEF VaultInv, JobInv, Running
<1>6. BranchInv'
  BY <1>1 DEF VaultInv, BranchInv, Running, NoBranch
<1> QED
  BY <1>2, <1>4, <1>5, <1>6 DEF VaultInv

LEMMA PrunesStep == ASSUME VaultInv, Prune PROVE VaultInv'
<1>1. /\ job' = [op |-> "prune", todo |-> Kept \ Protected, files |-> {}, gc |-> 0]
      /\ UNCHANGED <<objects, snaps, next, day, last, good, quarantine, branch, pins>>
  BY DEF Prune, Begin, NoJob
<1>2. (Kept \ Protected) \cap {last, good} \subseteq {None}
  BY PinnedAreProtected DEF Pinned
<1>3. VaultTypeOK'
  BY <1>1 DEF VaultInv, VaultTypeOK, Kept, Job
<1>4. VaultWhole'
  BY <1>1 DEF VaultInv, VaultWhole, Kept, Referenced
<1>5. JobInv'
  BY <1>1, <1>2 DEF JobInv, Running
<1>6. BranchInv'
  BY <1>1 DEF VaultInv, BranchInv, Running, Kept, NoBranch
<1> QED
  BY <1>3, <1>4, <1>5, <1>6 DEF VaultInv

LEMMA PruneOneStep == ASSUME VaultInv, NEW i \in Kept, PruneOne(i) PROVE VaultInv'
<1>1. /\ job.op = "prune" /\ i \in job.todo /\ snaps' = Without(snaps, {i})
      /\ job'.op = job.op /\ job'.todo = job.todo \ {i} /\ job'.files = job.files
      /\ job'.gc = job.gc /\ job' \in Job
      /\ UNCHANGED <<objects, next, day, last, good, quarantine, branch, pins>>
  BY DEF PruneOne, Running, VaultInv, VaultTypeOK, Job
<1>2. {i} \cap {last, good} \subseteq {None}
  BY <1>1 DEF VaultInv, JobInv, Running
<1> QED
  BY <1>1, <1>2, FewerManifests DEF Running

LEMMA DeletedStep == ASSUME VaultInv, NEW i \in Kept, Deleted(i) PROVE VaultInv'
<1>1. /\ job.op = "none" /\ i \notin Pinned /\ snaps' = Without(snaps, {i}) /\ job' = job
      /\ UNCHANGED <<objects, next, day, last, good, quarantine, branch, pins>>
  BY DEF Deleted, Running
<1>2. {i} \cap {last, good} \subseteq {None}
  BY <1>1 DEF Pinned
<1>3. job \in Job
  BY DEF VaultInv, VaultTypeOK
<1> QED
  BY <1>1, <1>2, <1>3, FewerManifests DEF Running

-----------------------------------------------------------------------------
(* A job that ends or is killed leaves everything else as it is.           *)
LEMMA EndsStep == ASSUME VaultInv, PruneEnds \/ MovesEnd \/ Kill PROVE VaultInv'
<1>1. /\ job' = [op |-> "none", todo |-> {}, files |-> {}, gc |-> 0]
      /\ UNCHANGED <<objects, snaps, next, day, last, good, quarantine, branch, pins>>
  BY DEF PruneEnds, MovesEnd, Kill, NoJob
<1>2. VaultTypeOK'
  BY <1>1 DEF VaultInv, VaultTypeOK, Kept, Job
<1>3. VaultWhole'
  BY <1>1 DEF VaultInv, VaultWhole, Kept, Referenced
<1>4. JobInv'
  BY <1>1 DEF JobInv, Running
<1>5. BranchInv'
  BY <1>1 DEF VaultInv, BranchInv, Running, Kept, NoBranch
<1> QED
  BY <1>2, <1>3, <1>4, <1>5 DEF VaultInv

-----------------------------------------------------------------------------
(* Collecting, restoring and purging                                       *)

(* The quarantine as a function of its records.                            *)
LEMMA Quarantine ==
  ASSUME VaultInv
  PROVE  /\ IsFiniteSet(DOMAIN quarantine) /\ Cardinality(DOMAIN quarantine) \in Nat
         /\ DOMAIN quarantine = 1 .. Cardinality(DOMAIN quarantine)
         /\ \A g \in DOMAIN quarantine :
              /\ quarantine[g] \in GcRecord /\ quarantine[g].held \subseteq Content
              /\ g \in Nat
<1>1. IsFiniteSet(DOMAIN quarantine)
      /\ quarantine \in [1 .. Cardinality(DOMAIN quarantine) -> GcRecord]
  BY DEF VaultInv, VaultTypeOK
<1>2. Cardinality(DOMAIN quarantine) \in Nat
  BY <1>1, FS_CardinalityType
<1> QED
  BY <1>1, <1>2 DEF GcRecord

(* Records are added at the end, and changed where they are.               *)
LEMMA QuarantineTypes ==
  ASSUME VaultInv,
         DOMAIN quarantine' = DOMAIN quarantine,
         quarantine' \in [DOMAIN quarantine -> GcRecord]
  PROVE  /\ IsFiniteSet(DOMAIN quarantine)'
         /\ quarantine' \in [1 .. Cardinality(DOMAIN quarantine') -> GcRecord]
BY Quarantine

LEMMA CollectsStep == ASSUME VaultInv, GcApply PROVE VaultInv'
<1> DEFINE g == Cardinality(DOMAIN quarantine) + 1
           r == [plan |-> objects \ Live, held |-> {}, day |-> day, there |-> TRUE]
<1>1. /\ job' = [op |-> "collect", todo |-> objects \ Live, files |-> {}, gc |-> g]
      /\ quarantine' = With(quarantine, g, r)
      /\ UNCHANGED <<objects, snaps, next, day, last, good, branch, pins>>
  BY DEF GcApply, Begin, NoJob
<1>2. g \in Nat /\ objects \subseteq Content /\ r \in GcRecord
  BY Quarantine DEF VaultInv, VaultTypeOK, GcRecord
<1> HIDE DEF r
<1>3. DOMAIN quarantine' = 1 .. g
  BY <1>1, <1>2, Quarantine DEF With
<1>4. IsFiniteSet(1 .. g) /\ Cardinality(1 .. g) = g
  BY <1>2, FS_Interval
<1>5. quarantine' \in [1 .. g -> GcRecord]
  <2>1. quarantine' = [x \in 1 .. g |-> IF x = g THEN r ELSE quarantine[x]]
    BY <1>1, <1>2, Quarantine DEF With
  <2>2. \A x \in 1 .. g : x # g => quarantine[x] \in GcRecord
    BY <1>2, Quarantine
  <2> QED
    BY <2>1, <2>2, <1>2
<1>6. VaultTypeOK'
  BY <1>1, <1>2, <1>3, <1>4, <1>5 DEF VaultInv, VaultTypeOK, Kept, Job
<1>7. VaultWhole'
  BY <1>1 DEF VaultInv, VaultWhole, Kept, Referenced
<1>8. JobInv'
  <2>1. g \in 1 .. g /\ Live = Referenced' /\ (objects \ Live) \subseteq Content
    BY <1>1, <1>2, Quarantine DEF Live, Referenced, Kept
  <2> QED
    BY <1>1, <1>3, <2>1 DEF JobInv, Running
<1>9. BranchInv'
  BY <1>1 DEF VaultInv, BranchInv, Running, Kept, NoBranch
<1> QED
  BY <1>6, <1>7, <1>8, <1>9 DEF VaultInv

LEMMA MovesOutStep == ASSUME VaultInv, NEW c \in Content, MoveOut(c) PROVE VaultInv'
<1>1. /\ job.op = "collect" /\ c \in job.todo /\ objects' = objects \ {c}
      /\ quarantine' = [quarantine EXCEPT ![job.gc].held = @ \cup {c}]
      /\ job'.op = "collect" /\ job'.todo = job.todo \ {c} /\ job'.gc = job.gc
      /\ job' \in Job
      /\ UNCHANGED <<snaps, next, day, last, good, branch, pins>>
  BY DEF MoveOut, Running, VaultInv, VaultTypeOK, Job
<1>2. job.gc \in DOMAIN quarantine /\ job.todo \subseteq Content /\ c \notin Referenced
  BY <1>1 DEF VaultInv, JobInv, Running
<1>3. DOMAIN quarantine' = DOMAIN quarantine /\ quarantine' \in [DOMAIN quarantine -> GcRecord]
  BY <1>1, <1>2, Quarantine DEF GcRecord
<1>4. VaultTypeOK'
  BY <1>1, <1>3, QuarantineTypes DEF VaultInv, VaultTypeOK, Kept
<1>5. VaultWhole'
  <2>1. Referenced' = Referenced /\ Kept' = Kept
    BY <1>1 DEF Referenced, Kept
  <2>2. branch.of \in Kept => c \notin branch.todo
    BY <1>2, FilesReferenced DEF VaultInv, BranchInv, NoBranch
  <2> QED
    BY <1>1, <1>2, <2>1, <2>2 DEF VaultInv, VaultWhole
<1>6. JobInv'
  BY <1>1, <1>2, <1>3 DEF VaultInv, JobInv, Running, Referenced, Kept
<1>7. BranchInv'
  BY <1>1 DEF VaultInv, BranchInv, Running, Kept, NoBranch
<1> QED
  BY <1>4, <1>5, <1>6, <1>7 DEF VaultInv

LEMMA RestoresStep ==
  ASSUME VaultInv, NEW g \in DOMAIN quarantine, GcRestore(g) PROVE VaultInv'
<1>1. /\ job' = [op |-> "restore", todo |-> quarantine[g].held, files |-> {}, gc |-> g]
      /\ UNCHANGED <<objects, snaps, next, day, last, good, quarantine, branch, pins>>
  BY DEF GcRestore, Begin, NoJob
<1>2. quarantine[g].held \subseteq Content /\ g \in Nat
  BY Quarantine
<1>3. VaultTypeOK'
  BY <1>1, <1>2 DEF VaultInv, VaultTypeOK, Kept, Job
<1>4. VaultWhole'
  BY <1>1 DEF VaultInv, VaultWhole, Kept, Referenced
<1>5. JobInv'
  BY <1>1, <1>2 DEF JobInv, Running
<1>6. BranchInv'
  BY <1>1 DEF VaultInv, BranchInv, Running, Kept, NoBranch
<1> QED
  BY <1>3, <1>4, <1>5, <1>6 DEF VaultInv

LEMMA MovesBackStep == ASSUME VaultInv, NEW c \in Content, MoveBack(c) PROVE VaultInv'
<1>1. /\ job.op = "restore" /\ objects' = objects \cup {c}
      /\ quarantine' = [quarantine EXCEPT ![job.gc].held = IF c \in objects THEN @ ELSE @ \ {c}]
      /\ job'.op = "restore" /\ job'.todo = job.todo \ {c} /\ job'.gc = job.gc
      /\ job' \in Job
      /\ UNCHANGED <<snaps, next, day, last, good, branch, pins>>
  BY DEF MoveBack, Running, VaultInv, VaultTypeOK, Job
<1>2. job.gc \in DOMAIN quarantine /\ job.todo \subseteq Content
  BY <1>1 DEF VaultInv, JobInv
<1>3. DOMAIN quarantine' = DOMAIN quarantine /\ quarantine' \in [DOMAIN quarantine -> GcRecord]
  BY <1>1, <1>2, Quarantine DEF GcRecord
<1>4. VaultTypeOK'
  BY <1>1, <1>3, QuarantineTypes DEF VaultInv, VaultTypeOK, Kept
<1>5. VaultWhole'
  BY <1>1 DEF VaultInv, VaultWhole, Referenced, Kept
<1>6. JobInv'
  BY <1>1, <1>2, <1>3 DEF JobInv, Running
<1>7. BranchInv'
  BY <1>1 DEF VaultInv, BranchInv, Running, Kept, NoBranch
<1> QED
  BY <1>4, <1>5, <1>6, <1>7 DEF VaultInv

LEMMA PurgesStep ==
  ASSUME VaultInv, NEW g \in DOMAIN quarantine, GcPurge(g) PROVE VaultInv'
<1>1. PICK rest \in SUBSET quarantine[g].held :
        quarantine' = [quarantine EXCEPT ![g].held = rest, ![g].there = FALSE]
  BY DEF GcPurge
<1>2. job.op = "none" /\ UNCHANGED <<objects, snaps, next, day, last, good, job, branch, pins>>
  BY DEF GcPurge, Running
<1>3. DOMAIN quarantine' = DOMAIN quarantine /\ quarantine' \in [DOMAIN quarantine -> GcRecord]
  BY <1>1, Quarantine DEF GcRecord
<1>4. VaultTypeOK'
  BY <1>2, <1>3, QuarantineTypes DEF VaultInv, VaultTypeOK, Kept
<1>5. VaultWhole' /\ JobInv'
  BY <1>2 DEF VaultInv, VaultWhole, Referenced, Kept, JobInv, Running
<1>6. BranchInv'
  BY <1>2 DEF VaultInv, BranchInv, Running, Kept, NoBranch
<1> QED
  BY <1>4, <1>5, <1>6 DEF VaultInv

-----------------------------------------------------------------------------
(* Branches, which read with no lock, and the environment                  *)
LEMMA BranchesStep == ASSUME VaultInv, NEW i \in Kept, Branch(i) PROVE VaultInv'
<1>1. /\ branch' = [of |-> i, todo |-> snaps[i].files]
      /\ UNCHANGED <<objects, snaps, next, day, last, good, quarantine, job, pins>>
  BY DEF Branch
<1>2. i \in 1 .. next - 1 /\ snaps[i].files \subseteq Content
  BY Manifests DEF VaultInv, VaultTypeOK
<1>3. VaultTypeOK'
  BY <1>1, <1>2 DEF VaultInv, VaultTypeOK, Kept
<1>4. VaultWhole'
  BY <1>1, FilesReferenced DEF VaultInv, VaultWhole, Kept, Referenced
<1>5. JobInv'
  BY <1>1 DEF VaultInv, JobInv, Running, Kept, Referenced
<1>6. BranchInv'
  BY <1>1, <1>2 DEF VaultInv, JobInv, BranchInv, Running, Kept
<1> QED
  BY <1>3, <1>4, <1>5, <1>6 DEF VaultInv

LEMMA ReadsStep ==
  ASSUME VaultInv, (\E c \in Content : ReadObject(c)) \/ BranchFails PROVE VaultInv'
<1>1. /\ \/ branch' = NoBranch
         \/ /\ branch # NoBranch
            /\ branch'.of = branch.of /\ branch'.todo \subseteq branch.todo
      /\ branch' \in [of : Nat \cup {None}, todo : SUBSET Content]
      /\ UNCHANGED <<objects, snaps, next, day, last, good, quarantine, job, pins>>
  BY DEF ReadObject, BranchFails, NoBranch, VaultInv, VaultTypeOK
<1>2. VaultTypeOK'
  BY <1>1 DEF VaultInv, VaultTypeOK, Kept
<1>3. VaultWhole'
  BY <1>1 DEF VaultInv, VaultWhole, Kept, Referenced, NoBranch
<1>4. JobInv'
  BY <1>1 DEF VaultInv, JobInv, Running, Kept, Referenced
<1>5. BranchInv'
  BY <1>1 DEF VaultInv, BranchInv, Running, Kept
<1> QED
  BY <1>2, <1>3, <1>4, <1>5 DEF VaultInv

LEMMA OthersStep ==
  ASSUME VaultInv, Branched \/ Tomorrow \/ \E i \in pins : LabRemoved(i) PROVE VaultInv'
<1>1. /\ branch' = NoBranch \/ branch' = branch
      /\ pins' \subseteq Nat /\ day' \in Nat
      /\ UNCHANGED <<objects, snaps, next, last, good, quarantine, job>>
  <2>1. pins \subseteq Nat /\ day \in Nat /\ (branch # NoBranch => branch.of \in Nat)
    BY DEF VaultInv, VaultTypeOK, BranchInv
  <2>2. CASE Branched
    BY <2>1, <2>2 DEF Branched
  <2>3. CASE Tomorrow
    BY <2>1, <2>3 DEF Tomorrow
  <2>4. ASSUME NEW i \in pins, LabRemoved(i)
        PROVE  /\ branch' = branch /\ pins' \subseteq Nat /\ day' \in Nat
               /\ UNCHANGED <<objects, snaps, next, last, good, quarantine, job>>
    BY <2>1, <2>4 DEF LabRemoved
  <2> QED
    BY <2>2, <2>3, <2>4
<1>2. VaultTypeOK'
  BY <1>1 DEF VaultInv, VaultTypeOK, Kept, NoBranch
<1>3. VaultWhole'
  BY <1>1 DEF VaultInv, VaultWhole, Kept, Referenced, NoBranch
<1>4. JobInv'
  BY <1>1 DEF VaultInv, JobInv, Running, Kept, Referenced
<1>5. BranchInv'
  BY <1>1 DEF VaultInv, BranchInv, Running, Kept, NoBranch
<1> QED
  BY <1>2, <1>3, <1>4, <1>5 DEF VaultInv

-----------------------------------------------------------------------------
LEMMA VaultStep == VaultInv /\ [VaultNext]_vaultVars => VaultInv'
<1> SUFFICES ASSUME VaultInv, [VaultNext]_vaultVars PROVE VaultInv'
  OBVIOUS
<1>1. CASE UNCHANGED vaultVars
  BY <1>1 DEF vaultVars, VaultInv, VaultTypeOK, VaultWhole, JobInv, BranchInv, Kept, Running,
              Referenced, NoBranch
<1>2. CASE VaultNext
  BY <1>2, TakesStep, PutsStep, WritesStep, NotesStep, PrunesStep, PruneOneStep, DeletedStep,
     EndsStep, CollectsStep, MovesOutStep, RestoresStep, MovesBackStep, PurgesStep,
     BranchesStep, ReadsStep, OthersStep DEF VaultNext
<1> QED
  BY <1>1, <1>2

(* maintenance.ts, retention.ts: whatever is captured, pruned, collected,  *)
(* restored, purged or killed half-way, every manifest finds its objects,  *)
(* the heads in state.json their manifests, and a branch made with no lock *)
(* the objects of a snapshot that has not been pruned meanwhile.           *)
THEOREM VaultStaysWhole == VaultSpec => []VaultWhole
<1>1. VaultInit => VaultInv
  BY InitVault
<1>2. VaultInv /\ [VaultNext]_vaultVars => VaultInv'
  BY VaultStep
<1>3. VaultInv => VaultWhole
  BY DEF VaultInv
<1> QED
  BY <1>1, <1>2, <1>3, PTL DEF VaultSpec

===============================================================================
