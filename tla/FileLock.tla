------------------------------ MODULE FileLock ------------------------------
(***************************************************************************)
(* The exclusive writer lock of packages/world-line/src/fs/lock.ts: a file *)
(* created with O_EXCL whose contents name the owner.  Every system call   *)
(* of acquireLock and of the handle's release() is a step of its own, so   *)
(* that any number of processes interleave between two calls and a process *)
(* may die between them.                                                   *)
(*                                                                         *)
(* The lock file is identified with the acquisition that created it (a     *)
(* process and the generation of its call): that is what the random token  *)
(* in the file stands for.  A file that was created but not yet written,   *)
(* or whose writer died or failed before writing, does not parse: readLock *)
(* answers null for it exactly as for a missing file.                      *)
(***************************************************************************)
EXTENDS Naturals, FiniteSets

CONSTANTS
  Proc,         (* processes that ever call acquireLock; a dead one stays dead *)
  HostOf,       (* the machine a process runs on                               *)
  CallOptions,  (* the option records callers pass                             *)
  Generations,  (* tokens of one process repeat after this many calls (bound)  *)
  NoFile,       (* no lock file at the path                                    *)
  NoProc        (* no process                                                  *)

AnyOptions == [breakStale : BOOLEAN, recoverDeadLocal : BOOLEAN]

Gen == 0 .. Generations - 1

LockFile == [proc : Proc, gen : Gen, written : BOOLEAN]

ASSUME ProcAssumption == NoProc \notin Proc
ASSUME OptionsAssumption == CallOptions \subseteq AnyOptions
ASSUME GenerationsAssumption == Generations \in Nat \ {0}
ASSUME NoFileAssumption == NoFile \notin LockFile

VARIABLES
  file,   (* the lock file at lockPath, or NoFile                        *)
  guard,  (* who created lockPath.recovery, or NoProc when it is absent  *)
  pc,     (* where each process is in acquireLock / release              *)
  gen,    (* the generation of each process's current call               *)
  opts,   (* the options of each process's current call                  *)
  seen    (* `existing`: the lock file as the call first read it         *)

vars == <<file, guard, pc, gen, opts, seen>>

(* Control points.  "held" is the critical section; "dead" is a process    *)
(* that was killed.                                                        *)
TakeoverOwn == {"reread", "unlink", "closeGuard", "abortGuard"}
Labels == {"idle", "read", "judge", "openGuard", "create", "write", "held",
           "releaseRead", "releaseUnlink", "dead"} \cup TakeoverOwn

Alive(p) == pc[p] # "dead"

TypeOK ==
  /\ file \in LockFile \cup {NoFile}
  /\ guard \in Proc \cup {NoProc}
  /\ pc \in [Proc -> Labels]
  /\ gen \in [Proc -> Gen]
  /\ opts \in [Proc -> AnyOptions]
  /\ seen \in [Proc -> LockFile \cup {NoFile}]

-----------------------------------------------------------------------------
(* Helpers *)

(* readLock: a missing, empty or unparsable file is `null`.                *)
Parsed(f) == IF f # NoFile /\ f.written THEN f ELSE NoFile

Mine(p, written) == [proc |-> p, gen |-> gen[p], written |-> written]

OtherHost(p, f) == HostOf[f.proc] # HostOf[p]

(* Mutant: any lock that parses counts as stale.                           *)
IsStaleAlways(p, f) == OtherHost(p, f) \/ f.written

(* isStaleLock as evaluated by p: another host, or a dead local pid.       *)
IsStale(p, f) == OtherHost(p, f) \/ ~Alive(f.proc)

(* Mutant: operation locks lose their opt-in recovery.                     *)
RecoverLocalNever(p, f) == OtherHost(p, f) /\ ~OtherHost(p, f)

(* recoverLocal: an operation lock of a provably dead owner on this host.  *)
RecoverLocal(p, f) ==
  opts[p].recoverDeadLocal /\ ~OtherHost(p, f) /\ ~Alive(f.proc)

Goto(p, label) == pc' = [pc EXCEPT ![p] = label]

-----------------------------------------------------------------------------
(* acquireLock *)

Init ==
  /\ file = NoFile
  /\ guard = NoProc
  /\ pc = [p \in Proc |-> "idle"]
  /\ gen = [p \in Proc |-> 0]
  /\ opts = [p \in Proc |-> [breakStale |-> FALSE, recoverDeadLocal |-> FALSE]]
  /\ seen = [p \in Proc |-> NoFile]

Call(p, o) ==
  /\ pc[p] = "idle"
  /\ Goto(p, "read")
  /\ gen' = [gen EXCEPT ![p] = (@ + 1) % Generations]
  /\ opts' = [opts EXCEPT ![p] = o]
  /\ UNCHANGED <<file, guard, seen>>

(* `existing = await readLock(lockPath)` *)
ReadExisting(p) ==
  /\ pc[p] = "read"
  /\ seen' = [seen EXCEPT ![p] = Parsed(file)]
  /\ Goto(p, IF Parsed(file) = NoFile THEN "create" ELSE "judge")
  /\ UNCHANGED <<file, guard, gen, opts>>

(* A live lock, or a stale one nobody confirmed, is refused (LockedError). *)
Judge(p) ==
  /\ pc[p] = "judge"
  /\ Goto(p, IF /\ IsStale(p, seen[p])
                /\ opts[p].breakStale \/ RecoverLocal(p, seen[p])
             THEN "openGuard" ELSE "idle")
  /\ UNCHANGED <<file, guard, gen, opts, seen>>

(* O_EXCL creation of the recovery guard; whoever loses refuses.           *)
OpenGuard(p) ==
  /\ pc[p] = "openGuard"
  /\ IF guard = NoProc
     THEN guard' = p /\ Goto(p, "reread")
     ELSE guard' = guard /\ Goto(p, "idle")
  /\ UNCHANGED <<file, gen, opts, seen>>

(* `current?.token !== existing.token` under the guard                     *)
Reread(p) ==
  /\ pc[p] = "reread"
  /\ Goto(p, IF Parsed(file) = seen[p] THEN "unlink" ELSE "abortGuard")
  /\ UNCHANGED <<file, guard, gen, opts, seen>>

(* `rm(lockPath)` without force: a file that is gone by now is an error.   *)
UnlinkStale(p) ==
  /\ pc[p] = "unlink"
  /\ file' = NoFile
  /\ Goto(p, IF file = NoFile THEN "abortGuard" ELSE "closeGuard")
  /\ UNCHANGED <<guard, gen, opts, seen>>

(* The finally block removes the guard by path, then creation goes on or   *)
(* the error is thrown.                                                    *)
CloseGuard(p) ==
  /\ pc[p] \in {"closeGuard", "abortGuard"}
  /\ guard' = NoProc
  /\ Goto(p, IF pc[p] = "closeGuard" THEN "create" ELSE "idle")
  /\ UNCHANGED <<file, gen, opts, seen>>

(* Mutant: the file is opened with 'w', an existing one is truncated.      *)
CreateTruncating(p) ==
  /\ pc[p] = "create"
  /\ file' = Mine(p, FALSE) /\ Goto(p, "write")
  /\ UNCHANGED <<guard, gen, opts, seen>>

(* `open(lockPath, 'wx')`: EEXIST is a refusal, whatever the file holds.   *)
Create(p) ==
  /\ pc[p] = "create"
  /\ IF file = NoFile
     THEN file' = Mine(p, FALSE) /\ Goto(p, "write")
     ELSE file' = file /\ Goto(p, "idle")
  /\ UNCHANGED <<guard, gen, opts, seen>>

(* The record goes to the open handle: it reaches the path only while the  *)
(* path still names the file this call created.                            *)
WriteRecord(p) ==
  /\ pc[p] = "write"
  /\ file' = IF file = Mine(p, FALSE) THEN Mine(p, TRUE) ELSE file
  /\ Goto(p, "held")
  /\ UNCHANGED <<guard, gen, opts, seen>>

(* A failed write (no space, I/O error) is rethrown; the file stays.       *)
WriteFails(p) ==
  /\ pc[p] = "write"
  /\ Goto(p, "idle")
  /\ UNCHANGED <<file, guard, gen, opts, seen>>

-----------------------------------------------------------------------------
(* release() *)

ReleaseCall(p) ==
  /\ pc[p] = "held"
  /\ Goto(p, "releaseRead")
  /\ UNCHANGED <<file, guard, gen, opts, seen>>

(* Compare the token at the path with this acquisition's token ...         *)
ReleaseRead(p) ==
  /\ pc[p] = "releaseRead"
  /\ Goto(p, IF file = Mine(p, TRUE) THEN "releaseUnlink" ELSE "idle")
  /\ UNCHANGED <<file, guard, gen, opts, seen>>

(* ... then remove whatever the path names by then.                        *)
ReleaseUnlink(p) ==
  /\ pc[p] = "releaseUnlink"
  /\ file' = NoFile
  /\ Goto(p, "idle")
  /\ UNCHANGED <<guard, gen, opts, seen>>

(* SIGKILL, or the machine of the process going away.                      *)
Crash(p) ==
  /\ Alive(p)
  /\ Goto(p, "dead")
  /\ UNCHANGED <<file, guard, gen, opts, seen>>

-----------------------------------------------------------------------------
Step(p) ==
  \/ ReadExisting(p) \/ Judge(p) \/ OpenGuard(p) \/ Reread(p)
  \/ UnlinkStale(p) \/ CloseGuard(p) \/ Create(p)
  \/ WriteRecord(p) \/ WriteFails(p)
  \/ ReleaseRead(p) \/ ReleaseUnlink(p)

Next ==
  \E p \in Proc :
     \/ \E o \in CallOptions : Call(p, o)
     \/ Step(p)
     \/ ReleaseCall(p)
     \/ Crash(p)

Spec == Init /\ [][Next]_vars

(* Every call that has started keeps running until its process dies, and   *)
(* somebody keeps asking for an operation lock: a user or a scheduler that *)
(* retries.                                                                *)
Retry == \E p \in Proc, o \in {c \in CallOptions : c.recoverDeadLocal} : Call(p, o)

FairSpec ==
  /\ Spec
  /\ \A p \in Proc : WF_vars(Step(p)) /\ WF_vars(ReleaseCall(p))
  /\ SF_vars(Retry)

-----------------------------------------------------------------------------
(* Properties *)

(* Why O_EXCL, tokens and the guard suffice on one host: a process between *)
(* creation and the end of release() owns the file at the path, the guard  *)
(* belongs to whoever is taking over, and what a takeover is about to      *)
(* unlink is still the lock of the dead owner it judged (lock.ts:127-151). *)
HoldsFile == {"held", "releaseRead", "releaseUnlink"}

OwnsWhatItUses(p) ==
  /\ pc[p] = "write" => file = Mine(p, FALSE)
  /\ pc[p] \in HoldsFile => file = Mine(p, TRUE)
  /\ pc[p] \in TakeoverOwn => guard = p

JudgedDead(p) ==
  /\ pc[p] = "judge" => seen[p] # NoFile /\ seen[p].written
  /\ pc[p] \in {"openGuard", "reread", "unlink"} =>
        seen[p] # NoFile /\ seen[p].written /\ ~Alive(seen[p].proc)
  /\ pc[p] = "unlink" => file = seen[p]

LockInv ==
  /\ TypeOK
  /\ \A p \in Proc : OwnsWhatItUses(p) /\ JudgedDead(p)

OneHost == \A p, q \in Proc : HostOf[p] = HostOf[q]

(* lock.ts:2-6: O_EXCL lets no two processes into the critical section,    *)
(* whatever takeovers and deaths happen in between.                        *)
MutualExclusion ==
  \A p, q \in Proc : pc[p] = "held" /\ pc[q] = "held" => p = q

(* lock.ts:9-10: "a live lock is never overridden".  While the process that *)
(* created the lock file lives, only its own release() removes the file.   *)
LiveLockKept ==
  [][file # NoFile /\ Alive(file.proc) /\ file' # file
       => pc[file.proc] \in {"write", "releaseUnlink"} /\ pc'[file.proc] # pc[file.proc]]_vars

(* The processes left to retry.                                            *)
SomeoneAlive == \E p \in Proc : Alive(p)

(* lock.ts:13-14: a complete lock of a dead local owner is recovered as    *)
(* long as somebody retries, unless a process died while it held the       *)
(* recovery guard: nothing ever removes that one.                          *)
DeadOwnerRecovered ==
  (file # NoFile /\ file.written /\ ~Alive(file.proc))
    ~> \/ file = NoFile
       \/ ~SomeoneAlive
       \/ guard # NoProc /\ ~Alive(guard)

(* docs/threat-model.md T10: a corrupt lock file does not brick the store, *)
(* --break-stale-lock is the escape.                                       *)
CorruptLockEscape ==
  (file # NoFile /\ ~file.written /\ ~Alive(file.proc))
    ~> \/ file = NoFile
       \/ ~SomeoneAlive

(* On one host the file implements the lock the other modules rely on.     *)
Lock == INSTANCE WriterLock WITH
          owner <- IF file = NoFile THEN NoProc ELSE file.proc,
          up    <- {p \in Proc : Alive(p)}

ImplementsWriterLock == Lock!Spec

=============================================================================
