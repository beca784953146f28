-------------------------------- MODULE Vault ---------------------------------
(***************************************************************************)
(* The snapshots of one profile and the content objects they share: taking *)
(* a snapshot (commands/snapshot.ts, vault/objects.ts), pruning the        *)
(* timeline (commands/timeline.ts, vault/retention.ts), collecting         *)
(* unreferenced objects into a quarantine and restoring or purging them    *)
(* (vault/maintenance.ts), and branches that read a snapshot with no lock  *)
(* (lab/create.ts, lab/snapshot-source.ts).                                *)
(*                                                                         *)
(* All writers hold the vault's operation lock, so at most one job runs;   *)
(* it may be killed between any two of its writes.                         *)
(***************************************************************************)
EXTENDS FiniteSets, Naturals

CONSTANTS
  Content,      (* the bytes of a managed file, named by their hash        *)
  MaxSnaps,     (* snapshots taken, and started                            *)
  MaxGcs,       (* quarantine directories                                  *)
  MaxDay,       (* days that pass                                          *)
  Recent, Daily,  (* RetentionPolicy                                       *)
  None

VARIABLES
  objects,      (* vault/objects                                           *)
  snaps,        (* the manifests in vault/snapshots                        *)
  next,         (* the next snapshot identifier: they grow with time       *)
  day,          (* today                                                   *)
  last, good,   (* state.json: lastSnapshots, lastKnownGood                *)
  quarantine,   (* each gc record: its plan and the objects it holds       *)
  job,          (* the writer that holds the operation lock                *)
  branch,       (* a lab being made from a snapshot                        *)
  pins          (* snapshots named by lab manifests                        *)

vaultVars == <<objects, snaps, next, day, last, good, quarantine, job, branch, pins>>

Manifest == [files : SUBSET Content, day : Nat, parent : SUBSET Nat]
GcRecord == [plan : SUBSET Content, held : SUBSET Content, day : Nat, there : BOOLEAN]
Job == [op : {"none", "snapshot", "note", "prune", "collect", "restore"},
        todo : SUBSET (Content \cup Nat), files : SUBSET Content, gc : Nat]

NoJob == [op |-> "none", todo |-> {}, files |-> {}, gc |-> 0]
NoBranch == [of |-> None, todo |-> {}]

VaultInit ==
  /\ objects = {} /\ snaps = <<>> /\ next = 1 /\ day = 1
  /\ last = None /\ good = None
  /\ quarantine = <<>> /\ job = NoJob /\ branch = NoBranch /\ pins = {}

Kept == DOMAIN snaps
Without(f, s) == [x \in DOMAIN f \ s |-> f[x]]
With(f, x, v) == [y \in DOMAIN f \union {x} |-> IF y = x THEN v ELSE f[y]]
Newest(ids) == {i \in ids : \A j \in ids : j <= i}
Referenced == UNION {snaps[i].files : i \in Kept}
(* recoveryReferences, with the heads of state.json *)
Pinned == (pins \union {last, good}) \ {None}

VaultTypeOK ==
  /\ objects \subseteq Content
  /\ next \in Nat \ {0} /\ day \in Nat
  /\ Kept \subseteq 1 .. next - 1 /\ snaps \in [Kept -> Manifest]
  /\ last \in Nat \cup {None} /\ good \in Nat \cup {None}
  /\ IsFiniteSet(DOMAIN quarantine)
  /\ quarantine \in [1 .. Cardinality(DOMAIN quarantine) -> GcRecord]
  /\ job \in Job
  /\ branch \in [of : Nat \cup {None}, todo : SUBSET Content]
  /\ pins \subseteq Nat

Running(op) == job.op = op
Begin(op, j) == job.op = "none" /\ job' = [j EXCEPT !.op = op]

----------------------------------------------------------------------------
(* Taking a snapshot *)

(* analyzeProfile hands every file to putObject, one after the other *)
TakeSnapshot(files) ==
  /\ next <= MaxSnaps /\ files # {}
  /\ Begin("snapshot", [NoJob EXCEPT !.files = files, !.todo = files])
  /\ next' = next + 1
  /\ UNCHANGED <<objects, snaps, day, last, good, quarantine, branch, pins>>

(* putObject: present content is not written again *)
PutObject(c) ==
  /\ Running("snapshot") /\ c \in job.todo
  /\ objects' = objects \union {c} /\ job' = [job EXCEPT !.todo = @ \ {c}]
  /\ UNCHANGED <<snaps, next, day, last, good, quarantine, branch, pins>>

(* latestSnapshotFor(profile) is the parent *)
WriteManifest ==
  /\ Running("snapshot") /\ job.todo = {}
  /\ snaps' = With(snaps, next - 1,
               [files |-> job.files, day |-> day, parent |-> Newest(Kept)])
  /\ job' = [job EXCEPT !.op = "note"]
  /\ UNCHANGED <<objects, next, day, last, good, quarantine, branch, pins>>

NoteSnapshot ==
  /\ Running("note") /\ last' = next - 1 /\ job' = NoJob
  /\ UNCHANGED <<objects, snaps, next, day, good, quarantine, branch, pins>>

(* noteLastKnownGood: a promotion proved the snapshot it has just taken *)
NoteGood ==
  /\ Running("none") /\ last # None /\ good # last /\ good' = last
  /\ UNCHANGED <<objects, snaps, next, day, last, quarantine, job, branch, pins>>

----------------------------------------------------------------------------
(* Pruning the timeline *)

(* What the policy keeps; the weekly bucket is the daily one with a        *)
(* coarser key, here the parity of the day.                                *)
Youngest(ids, n) == {i \in ids : Cardinality({j \in ids : j > i}) < n}
Anchors(key) == {i \in Kept : \A j \in Kept : key[j] = key[i] => j <= i}
ByDay == Anchors([i \in Kept |-> snaps[i].day])
ByWeek == Anchors([i \in Kept |-> snaps[i].day % 2])
ByPolicy == Youngest(Kept, Recent) \union Youngest(ByDay, Daily) \union Youngest(ByWeek, Daily)

(* protect: the smallest set with the given snapshots and, as far as they  *)
(* exist, the parents of its members.                                      *)
HoldsParents(s) == (UNION {snaps[i].parent : i \in s}) \cap Kept \subseteq s
Ancestry(ids) == {i \in Kept : \A s \in SUBSET Kept : ids \subseteq s /\ HoldsParents(s) => i \in s}

(* planRetention(protectedIds = recovery references) *)
Protected == Ancestry(ByPolicy \union (Pinned \cap Kept))

Prune ==
  /\ Kept # {}
  /\ Begin("prune", [NoJob EXCEPT !.todo = Kept \ Protected])
  /\ UNCHANGED <<objects, snaps, next, day, last, good, quarantine, branch, pins>>
PruneOne(i) ==
  /\ Running("prune") /\ i \in job.todo
  /\ snaps' = Without(snaps, {i}) /\ job' = [job EXCEPT !.todo = @ \ {i}]
  /\ UNCHANGED <<objects, next, day, last, good, quarantine, branch, pins>>
PruneEnds ==
  /\ Running("prune") /\ job.todo = {} /\ job' = NoJob
  /\ UNCHANGED <<objects, snaps, next, day, last, good, quarantine, branch, pins>>

----------------------------------------------------------------------------
(* Collecting objects *)

(* Mutant: what the newest snapshot refers to *)
LiveOfNewest == UNION {snaps[i].files : i \in Newest(Kept)}

(* planUnlocked: what any manifest refers to *)
Live == UNION {snaps[i].files : i \in Kept}

(* planUnlocked refuses a vault that is not whole *)
Collectable == Pinned \subseteq Kept /\ Referenced \subseteq objects

GcApply ==
  LET g == Cardinality(DOMAIN quarantine) + 1 IN
  /\ Collectable /\ g <= MaxGcs
  /\ Begin("collect", [NoJob EXCEPT !.todo = objects \ Live, !.gc = g])
  /\ quarantine' = With(quarantine, g, [plan |-> objects \ Live, held |-> {}, day |-> day, there |-> TRUE])
  /\ UNCHANGED <<objects, snaps, next, day, last, good, branch, pins>>
MoveOut(c) ==
  /\ Running("collect") /\ c \in job.todo
  /\ objects' = objects \ {c}
  /\ quarantine' = [quarantine EXCEPT ![job.gc].held = @ \union {c}]
  /\ job' = [job EXCEPT !.todo = @ \ {c}]
  /\ UNCHANGED <<snaps, next, day, last, good, branch, pins>>

(* gcRestore: what is in the vault again stays in the quarantine, too *)
GcRestore(g) ==
  /\ quarantine[g].there /\ quarantine[g].held # {}
  /\ Begin("restore", [NoJob EXCEPT !.todo = quarantine[g].held, !.gc = g])
  /\ UNCHANGED <<objects, snaps, next, day, last, good, quarantine, branch, pins>>
MoveBack(c) ==
  /\ Running("restore") /\ c \in job.todo
  /\ objects' = objects \union {c}
  /\ quarantine' = [quarantine EXCEPT ![job.gc].held = IF c \in objects THEN @ ELSE @ \ {c}]
  /\ job' = [job EXCEPT !.todo = @ \ {c}]
  /\ UNCHANGED <<snaps, next, day, last, good, branch, pins>>
MovesEnd ==
  /\ job.op \in {"collect", "restore"} /\ job.todo = {} /\ job' = NoJob
  /\ UNCHANGED <<objects, snaps, next, day, last, good, quarantine, branch, pins>>

(* gcPurge: old enough, and no manifest refers to its plan; rm may be cut  *)
(* short.                                                                  *)
GcPurge(g) ==
  /\ Running("none") /\ quarantine[g].there
  /\ quarantine[g].day < day /\ quarantine[g].plan \cap Referenced = {}
  /\ \E rest \in SUBSET quarantine[g].held :
       quarantine' = [quarantine EXCEPT ![g].held = rest, ![g].there = FALSE]
  /\ UNCHANGED <<objects, snaps, next, day, last, good, job, branch, pins>>

----------------------------------------------------------------------------
(* Branches, and the environment *)

(* snapshotSource reads the manifest, createLab the objects and at last    *)
(* writes the lab's manifest, which names the snapshot.                    *)
Branch(i) ==
  /\ branch = NoBranch /\ branch' = [of |-> i, todo |-> snaps[i].files]
  /\ UNCHANGED <<objects, snaps, next, day, last, good, quarantine, job, pins>>
ReadObject(c) ==
  /\ c \in branch.todo /\ c \in objects
  /\ branch' = [branch EXCEPT !.todo = @ \ {c}]
  /\ UNCHANGED <<objects, snaps, next, day, last, good, quarantine, job, pins>>
BranchFails ==
  /\ \E c \in branch.todo : c \notin objects
  /\ branch' = NoBranch
  /\ UNCHANGED <<objects, snaps, next, day, last, good, quarantine, job, pins>>
Branched ==
  /\ branch # NoBranch /\ branch.todo = {}
  /\ branch' = NoBranch /\ pins' = pins \union {branch.of}
  /\ UNCHANGED <<objects, snaps, next, day, last, good, quarantine, job>>
LabRemoved(i) ==
  /\ pins' = pins \ {i}
  /\ UNCHANGED <<objects, snaps, next, day, last, good, quarantine, job, branch>>

(* A person deletes a manifest that nothing refers to, a damaged one say:  *)
(* the only way a chain of parents is ever cut.                            *)
Deleted(i) ==
  /\ Running("none") /\ i \notin Pinned /\ branch = NoBranch
  /\ snaps' = Without(snaps, {i})
  /\ UNCHANGED <<objects, next, day, last, good, quarantine, job, branch, pins>>

Kill ==
  /\ ~Running("none") /\ job' = NoJob
  /\ UNCHANGED <<objects, snaps, next, day, last, good, quarantine, branch, pins>>
Tomorrow ==
  /\ day < MaxDay /\ day' = day + 1
  /\ UNCHANGED <<objects, snaps, next, last, good, quarantine, job, branch, pins>>

VaultNext ==
  \/ \E files \in SUBSET Content : TakeSnapshot(files)
  \/ \E c \in Content : PutObject(c) \/ MoveOut(c) \/ MoveBack(c) \/ ReadObject(c)
  \/ WriteManifest \/ NoteSnapshot \/ NoteGood \/ Prune \/ PruneEnds \/ GcApply \/ MovesEnd
  \/ \E i \in Kept : PruneOne(i) \/ Branch(i) \/ Deleted(i)
  \/ \E g \in DOMAIN quarantine : GcRestore(g) \/ GcPurge(g)
  \/ Branched \/ BranchFails \/ Kill \/ Tomorrow
  \/ \E i \in pins : LabRemoved(i)

VaultSpec == VaultInit /\ [][VaultNext]_vaultVars

----------------------------------------------------------------------------
(* Properties *)

(* maintenance.ts, retention.ts: whatever is pruned, collected, restored,  *)
(* purged or killed half-way, every manifest finds its objects, the heads  *)
(* in state.json their manifests, and a branch made with no lock still     *)
(* finds the objects of a snapshot that has not been pruned meanwhile.     *)
VaultWhole ==
  /\ Referenced \subseteq objects
  /\ {last, good} \ {None} \subseteq Kept
  /\ branch.of \in Kept => branch.todo \subseteq objects

(* prune.test.ts:149 "Pinned snap-chain-2 (LKG) plus its parent chain (1)  *)
(* survive; the rest of the same day is pruned down to the daily newest."  *)
(* A prune leaves what the policy or lastKnownGood asks for.               *)
PruneKeepsPolicy ==
  [][PruneEnds => Kept \subseteq ByPolicy \union Ancestry({good} \cap Kept) \union pins]_vaultVars

=============================================================================
