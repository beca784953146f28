-------------------------------- MODULE Secrets -------------------------------
(***************************************************************************)
(* The encrypted part of the vault and the commands that use it: the key   *)
(* in the keychain (vault/crypto.ts), the bundle a snapshot writes before  *)
(* its manifest (vault/secrets.ts, commands/snapshot.ts), and the labs     *)
(* made from a snapshot by `restore` (commands/restore.ts) and by a branch *)
(* (lab/snapshot-source.ts).                                               *)
(*                                                                         *)
(* A profile is three pieces: package.json and the patch of the profile,   *)
(* and the patch of the home. The content of a piece is the number of the  *)
(* edit it comes from. Objects are addressed by their content.             *)
(***************************************************************************)
EXTENDS Naturals, FiniteSets

CONSTANTS
  Cmds,         (* commands at work at a time                              *)
  Snaps,        (* bound: snapshots                                        *)
  MaxEdits,     (* bound: edits of the profile by its owner                *)
  MaxKeys,      (* bound: keys written to the keychain                     *)
  MaxLosses,    (* bound: files of the vault lost or changed on disk       *)
  None

VARIABLES
  secret,       (* the pieces with secret-shaped content                   *)
  profile,      (* content of each piece                                   *)
  item,         (* the keychain's item: None, Corrupt or the number of a key *)
  keys,         (* keys written so far                                     *)
  objects,      (* the object store: <<piece, content>>                    *)
  bundle,       (* secrets/<id>.bin: the key, the content it seals         *)
  manifest,     (* snapshots/<id>.json                                     *)
  lock,         (* the profile's writer lock                               *)
  cmd,          (* what each command knows                                 *)
  lab,          (* the lab each command made                               *)
  edits, losses,
  taken         (* history: the profile each snapshot captured             *)

vaultVars == <<objects, bundle, manifest>>
keyVars == <<item, keys>>
ownerVars == <<secret, profile, edits, losses>>
secretsVars == <<vaultVars, keyVars, ownerVars, lock, cmd, lab, taken>>

Pieces == {"package", "patch", "home"}
Corrupt == 0
Profiles == [Pieces -> Nat]
Bundles == [key : Nat, whole : BOOLEAN, holds : SUBSET (Pieces \X Nat)]

(* What is absent is no snapshot, no profile and no bundle.                *)
ASSUME SecretsAssumption == None \notin Snaps /\ None \notin Profiles /\ None \notin Bundles

Idle == [op |-> "none", at |-> "idle", snap |-> None, asked |-> FALSE, key |-> None,
         seen |-> None, opened |-> {}]

SecretsInit ==
  /\ secret \in SUBSET {"patch", "home"}
  /\ profile = [p \in Pieces |-> 0]
  /\ item \in {None, Corrupt} /\ keys = 0
  /\ objects = {}
  /\ bundle = [s \in Snaps |-> None]
  /\ manifest = [s \in Snaps |-> None]
  /\ lock = None
  /\ cmd = [c \in Cmds |-> Idle]
  /\ lab = [c \in Cmds |-> None]
  /\ edits = 0 /\ losses = 0
  /\ taken = [s \in Snaps |-> None]

At(c, step) == cmd[c].at = step
Goes(c, step) == cmd' = [cmd EXCEPT ![c].at = step]
Unlock(c) == lock' = IF lock = c THEN None ELSE lock

----------------------------------------------------------------------------
(* The key: looked up, and written anew when the lookup gave nothing. Every *)
(* failure of the lookup (no item, a locked keychain, ten seconds without  *)
(* an answer) counts as nothing.                                           *)
KeyWritten(c, lost) == [cmd EXCEPT ![c].key = lost, ![c].at = "keyed"]

FindKey(c) ==
  /\ At(c, "key")
  /\ \/ /\ item \notin {None, Corrupt}
        /\ cmd' = KeyWritten(c, item)
     \/ /\ item = Corrupt
        /\ cmd' = KeyWritten(c, None)
     \/ Goes(c, "no key")
  /\ UNCHANGED <<vaultVars, keyVars, ownerVars, lock, lab, taken>>

AddKey(c) ==
  /\ At(c, "no key")
  /\ \/ /\ keys < MaxKeys
        /\ keys' = keys + 1 /\ item' = keys + 1
        /\ cmd' = KeyWritten(c, keys + 1)
     \/ cmd' = KeyWritten(c, None) /\ UNCHANGED keyVars
  /\ UNCHANGED <<vaultVars, ownerVars, lock, lab, taken>>

----------------------------------------------------------------------------
(* A snapshot, under the writer lock: the pieces with secrets go to the    *)
(* bundle when there is a key, else only their hashes are kept.            *)
Sealed(c) == IF cmd[c].key = None THEN {} ELSE secret

Snapshot(c, s) ==
  /\ cmd[c] = Idle /\ lock = None
  /\ manifest[s] = None /\ taken[s] = None
  /\ \A d \in Cmds : cmd[d].snap # s
  /\ lock' = c
  /\ cmd' = [cmd EXCEPT ![c] = [Idle EXCEPT !.op = "snapshot", !.at = "key", !.snap = s]]
  /\ UNCHANGED <<vaultVars, keyVars, ownerVars, lab, taken>>

Capture(c) ==
  /\ cmd[c].op = "snapshot" /\ At(c, "keyed")
  /\ objects' = objects \cup {<<p, profile[p]>> : p \in Pieces \ secret}
  /\ cmd' = [cmd EXCEPT ![c].at = "bundle", ![c].seen = profile]
  /\ taken' = [taken EXCEPT ![cmd[c].snap] = profile]
  /\ UNCHANGED <<bundle, manifest, keyVars, ownerVars, lock, lab>>

WriteBundle(c) ==
  /\ At(c, "bundle")
  /\ bundle' = IF Sealed(c) = {} THEN bundle
               ELSE [bundle EXCEPT ![cmd[c].snap] =
                       [key |-> cmd[c].key, whole |-> TRUE,
                        holds |-> {<<p, cmd[c].seen[p]>> : p \in Sealed(c)}]]
  /\ Goes(c, "manifest")
  /\ UNCHANGED <<objects, manifest, keyVars, ownerVars, lock, lab, taken>>

WriteManifest(c) ==
  /\ At(c, "manifest")
  /\ manifest' = [manifest EXCEPT ![cmd[c].snap] =
       [hash |-> cmd[c].seen,
        sealed |-> Sealed(c) # {},
        kept |-> [p \in Pieces |-> IF p \notin secret THEN "object"
                                   ELSE IF p \in Sealed(c) THEN "sealed" ELSE "skipped"]]]
  /\ lock' = None
  /\ cmd' = [cmd EXCEPT ![c] = Idle]
  /\ UNCHANGED <<objects, bundle, keyVars, ownerVars, lab, taken>>

----------------------------------------------------------------------------
(* A lab from a snapshot. `restore` asks for the key in any case, a branch *)
(* when the snapshot has a bundle; neither holds a lock while it does.     *)
FromSnapshot(c, s, op, asked) ==
  /\ cmd[c] = Idle /\ lab[c] = None
  /\ manifest[s] # None
  /\ op = "branch" => ~asked
  /\ cmd' = [cmd EXCEPT ![c] =
       [Idle EXCEPT !.op = op, !.snap = s, !.asked = asked, !.seen = manifest[s],
                    !.at = IF op = "restore" \/ manifest[s].sealed THEN "key" ELSE "opened"]]
  /\ UNCHANGED <<vaultVars, keyVars, ownerVars, lock, lab, taken>>

Refuse(c) == cmd' = [cmd EXCEPT ![c] = Idle]

(* secretMapFor looks at the files of the profile only: of a snapshot      *)
(* whose one secret piece is the patch of the home, `restore` opens nothing. *)
Needed(c) ==
  IF cmd[c].op = "branch" THEN TRUE
  ELSE cmd[c].seen.sealed /\ \E p \in Pieces \ {"home"} : cmd[c].seen.kept[p] # "object"

(* decryptSecretBundle: the digest, every tag and the lengths must agree.  *)
Opens(b, k) == b # None /\ b.whole /\ b.key = k

OpenBundle(c) ==
  /\ cmd[c].op \in {"restore", "branch"} /\ At(c, "keyed")
  /\ \/ ~Needed(c) /\ Goes(c, "opened")
     \/ /\ Needed(c) /\ cmd[c].key # None /\ Opens(bundle[cmd[c].snap], cmd[c].key)
        /\ cmd' = [cmd EXCEPT ![c].opened = bundle[cmd[c].snap].holds, ![c].at = "opened"]
     \/ /\ Needed(c) /\ (cmd[c].key = None \/ ~Opens(bundle[cmd[c].snap], cmd[c].key))
        /\ Refuse(c)
  /\ UNCHANGED <<vaultVars, keyVars, ownerVars, lock, lab, taken>>

(* The bytes of a piece: a whole object, or what the bundle held.          *)
Stored(c) == {<<p, cmd[c].seen.hash[p]>> :
                p \in {q \in Pieces : /\ cmd[c].seen.kept[q] = "object"
                                      /\ <<q, cmd[c].seen.hash[q]>> \in objects}}
Bytes(c) == Stored(c) \cup cmd[c].opened

(* Mutant: the patch of the home is not looked for.                        *)
CompleteFiles(c) == \A p \in Pieces \ {"home"} : \E b \in Bytes(c) : b[1] = p

Complete(c) == \A p \in Pieces : \E b \in Bytes(c) : b[1] = p

(* createLab, under the writer lock: it reads every piece before it makes  *)
(* the directory of the lab, and notes what the profile is now.            *)
CreateLab(c) ==
  /\ At(c, "opened") /\ lock = None
  /\ \/ /\ Complete(c)
        /\ lab' = [lab EXCEPT ![c] =
             [snap |-> cmd[c].snap, receipt |-> profile, state |-> "created", holds |-> Bytes(c)]]
        /\ IF cmd[c].op = "restore" THEN Goes(c, "run") ELSE Refuse(c)
     \/ ~Complete(c) /\ Refuse(c) /\ UNCHANGED lab
  /\ UNCHANGED <<vaultVars, keyVars, ownerVars, lock, taken>>

(* The candidate run of the lab (Lab): verified or not.                    *)
RunLab(c) ==
  /\ At(c, "run")
  /\ \E ok \in BOOLEAN :
       /\ lab' = [lab EXCEPT ![c].state = IF ok THEN "verified" ELSE "failed"]
       /\ IF ok /\ cmd[c].asked THEN Goes(c, "promote") ELSE Refuse(c)
  /\ UNCHANGED <<vaultVars, keyVars, ownerVars, lock, taken>>

(* The promotion (Promotion): the files of the profile become the lab's,   *)
(* unless the profile changed since the lab was made; then rmLab, unless   *)
(* the lab is kept. The patch of the home is not promoted.                 *)
Promoted(c) ==
  [p \in Pieces |-> IF p = "home" THEN profile[p]
                    ELSE (CHOOSE b \in lab[c].holds : b[1] = p)[2]]

Promote(c) ==
  /\ At(c, "promote") /\ lock = None
  /\ \/ /\ \A p \in Pieces \ {"home"} : lab[c].receipt[p] = profile[p]
        /\ profile' = Promoted(c)
        /\ \E keep \in BOOLEAN : lab' = IF keep THEN lab ELSE [lab EXCEPT ![c] = None]
     \/ UNCHANGED <<profile, lab>>
  /\ Refuse(c)
  /\ UNCHANGED <<vaultVars, keyVars, secret, edits, losses, lock, taken>>

----------------------------------------------------------------------------
(* The owner and the machine.                                              *)
Edit ==
  /\ edits < MaxEdits /\ edits' = edits + 1
  /\ \E p \in Pieces : profile' = [profile EXCEPT ![p] = edits + 1]
  /\ UNCHANGED <<vaultVars, keyVars, secret, losses, lock, cmd, lab, taken>>

(* `timeline prune` under the writer lock: the manifest, then the bundle.  *)
Prune(s) ==
  /\ lock = None /\ manifest[s] # None
  /\ manifest' = [manifest EXCEPT ![s] = None]
  /\ bundle' = [bundle EXCEPT ![s] = None]
  /\ UNCHANGED <<objects, keyVars, ownerVars, lock, cmd, lab, taken>>

Lose(s) ==
  /\ losses < MaxLosses /\ losses' = losses + 1
  /\ \/ \E o \in objects : objects' = objects \ {o} /\ UNCHANGED bundle
     \/ /\ bundle[s] # None
        /\ \/ bundle' = [bundle EXCEPT ![s].whole = FALSE]
           \/ bundle' = [bundle EXCEPT ![s] = None]
        /\ UNCHANGED objects
  /\ UNCHANGED <<manifest, keyVars, secret, profile, edits, lock, cmd, lab, taken>>

(* A command dies: its lock is stale and the next one takes it over.       *)
Kill(c) ==
  /\ cmd[c] # Idle
  /\ Refuse(c) /\ Unlock(c)
  /\ UNCHANGED <<vaultVars, keyVars, ownerVars, lab, taken>>

SecretsNext ==
  \/ \E c \in Cmds :
       \/ FindKey(c) \/ AddKey(c)
       \/ Capture(c) \/ WriteBundle(c) \/ WriteManifest(c)
       \/ OpenBundle(c) \/ CreateLab(c) \/ RunLab(c) \/ Promote(c)
       \/ Kill(c)
       \/ \E s \in Snaps :
            \/ Snapshot(c, s)
            \/ \E op \in {"restore", "branch"}, asked \in BOOLEAN : FromSnapshot(c, s, op, asked)
  \/ Edit
  \/ \E s \in Snaps : Prune(s) \/ Lose(s)

SecretsSpec == SecretsInit /\ [][SecretsNext]_secretsVars

----------------------------------------------------------------------------
(* A lab made from a snapshot holds exactly what the snapshot captured,    *)
(* each piece once, whatever was pruned, lost, tampered with or re-keyed   *)
(* before: else the command refuses and there is no lab.                   *)
RestoredIsCaptured ==
  \A c \in Cmds : lab[c] # None =>
    lab[c].holds = {<<p, taken[lab[c].snap][p]>> : p \in Pieces}

(* A manifest that counts on a bundle was written after it: unless the     *)
(* bundle was lost since, it is there and holds every sealed piece.        *)
ManifestAfterBundle ==
  losses = 0 => \A s \in Snaps :
    manifest[s] # None /\ manifest[s].sealed =>
      /\ bundle[s] # None
      /\ bundle[s].holds =
           {<<p, manifest[s].hash[p]>> : p \in {q \in Pieces : manifest[s].kept[q] = "sealed"}}

SecretsSound == RestoredIsCaptured /\ ManifestAfterBundle

(* The design of the key (docs/phase4-design.md:306-309, crypto.ts:167):   *)
(* any failure of the keychain is answered with no key, and the key under  *)
(* bundles already written is not rotated.                                 *)
KeyIsKept == \A s \in Snaps : bundle[s] # None /\ bundle[s].whole => bundle[s].key = item

=============================================================================
