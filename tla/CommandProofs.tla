---------------------------- MODULE CommandProofs -----------------------------
(***************************************************************************)
(* Proofs about the commands around the vault and the labs: snapshots with *)
(* sealed secrets and the labs made from them (Secrets), the temporary dsh *)
(* that a rescue starts (Rescue), the planned checks for upgrades          *)
(* (Upgrades), and the runs that verify an experiment (Verification).      *)
(***************************************************************************)
EXTENDS Secrets, Rescue, Upgrades, Verification, WellFoundedInduction, TLAPS

----------------------------------------------------------------------------
(***************************************************************************)
(* Proofs about Secrets: for any commands, snapshots and bounds, a lab     *)
(* made from a snapshot holds what the snapshot captured, and a manifest   *)
(* counts on no bundle that was not written.  A command goes on with a     *)
(* manifest and with opened bytes it read before, and neither is there any *)
(* more, perhaps; the invariant says what they tell of.                    *)
(***************************************************************************)

ManifestRecord ==
  [hash : Profiles, sealed : BOOLEAN, kept : [Pieces -> {"object", "sealed", "skipped"}]]

CommandRecord ==
  [op : {"none", "snapshot", "restore", "branch"},
   at : {"idle", "key", "no key", "keyed", "bundle", "manifest", "opened", "run", "promote"},
   snap : Snaps \cup {None}, asked : BOOLEAN, key : Nat \cup {None},
   seen : Profiles \cup ManifestRecord \cup {None}, opened : SUBSET (Pieces \X Nat)]

LabRecord ==
  [snap : Snaps, receipt : Profiles, state : {"created", "verified", "failed"},
   holds : SUBSET (Pieces \X Nat)]

SecretTypes ==
  /\ secret \subseteq Pieces /\ profile \in Profiles
  /\ item \in Nat \cup {None} /\ keys \in Nat /\ losses \in Nat /\ edits \in Nat
  /\ bundle \in [Snaps -> Bundles \cup {None}]
  /\ manifest \in [Snaps -> ManifestRecord \cup {None}]
  /\ taken \in [Snaps -> Profiles \cup {None}]
  /\ cmd \in [Cmds -> CommandRecord]
  /\ lab \in [Cmds -> LabRecord \cup {None}]

Captured(s, ps) == {<<p, taken[s][p]>> : p \in ps}

(* A manifest tells of what was captured, and whether it counts on a       *)
(* bundle: on all that is secret, or on nothing.                           *)
Tells(m, s) ==
  /\ taken[s] \in Profiles /\ m \in ManifestRecord /\ m.hash = taken[s]
  /\ m.kept = [p \in Pieces |-> IF p \notin secret THEN "object"
                                ELSE IF m.sealed THEN "sealed" ELSE "skipped"]

ManifestTells == \A s \in Snaps : manifest[s] # None => Tells(manifest[s], s)

BundleTells ==
  \A s \in Snaps : bundle[s] # None => taken[s] # None /\ bundle[s].holds = Captured(s, secret)

(* A manifest that counts on a bundle finds one, unless it was lost.       *)
Counts ==
  losses = 0 => \A s \in Snaps : manifest[s] # None /\ manifest[s].sealed => bundle[s] # None

(* A snapshot has nothing written under its name but, before the manifest, *)
(* the bundle.                                                             *)
Snapshots(r) ==
  r.op = "snapshot" =>
    /\ r.at \in {"key", "no key", "keyed", "bundle", "manifest"} /\ r.snap \in Snaps
    /\ manifest[r.snap] = None
    /\ r.at \in {"key", "no key", "keyed"} => taken[r.snap] = None
    /\ r.at \in {"bundle", "manifest"} => r.seen \in Profiles /\ taken[r.snap] = r.seen
    /\ r.at = "manifest" /\ losses = 0 /\ r.key # None /\ secret # {} => bundle[r.snap] # None

(* RestoredIsCaptured, of one lab.                                         *)
Whole(l) ==
  l \in LabRecord /\ taken[l.snap] \in Profiles /\ l.holds = Captured(l.snap, Pieces)

(* A lab is made from a manifest read before, and from a bundle opened     *)
(* before: both may be gone by then, and still tell of what was captured.  *)
Restores(r, l) ==
  r.op \in {"restore", "branch"} =>
    /\ r.at \in {"key", "no key", "keyed", "opened", "run", "promote"}
    /\ r.snap \in Snaps
    /\ Tells(r.seen, r.snap)
    /\ r.opened \in {{}, Captured(r.snap, secret)}
    /\ r.at \in {"run", "promote"} => Whole(l)

Rests(r) == r.op = "none" => r.at = "idle" /\ r.snap = None

Fits(r, l) == Snapshots(r) /\ Restores(r, l) /\ Rests(r)

(* A snapshot at work has its name to itself.                              *)
Alone ==
  \A k, d \in Cmds : cmd[k].op = "snapshot" /\ d # k => cmd[d].snap # cmd[k].snap

Labelled(l) == l # None => Whole(l)

SecretsInv ==
  /\ SecretTypes /\ ManifestTells /\ BundleTells /\ Counts /\ Alone
  /\ \A k \in Cmds : Fits(cmd[k], lab[k]) /\ Labelled(lab[k])

LEMMA Idles ==
  ASSUME SecretsInv
  PROVE  Idle \in CommandRecord /\ \A l : Fits(Idle, l)
BY DEF Idle, CommandRecord, Fits, Snapshots, Restores, Rests

LEMMA CommandFields ==
  ASSUME SecretsInv, NEW k \in Cmds
  PROVE  /\ cmd[k] \in CommandRecord /\ Fits(cmd[k], lab[k]) /\ Labelled(lab[k])
         /\ lab[k] \in LabRecord \cup {None}
BY DEF SecretsInv, SecretTypes

(* A command that goes on keeps its snapshot, or puts it away.             *)
LEMMA StillAlone ==
  ASSUME SecretsInv, NEW k \in Cmds, NEW r \in CommandRecord,
         (r.op = cmd[k].op /\ r.snap = cmd[k].snap) \/ r = Idle,
         cmd' = [cmd EXCEPT ![k] = r]
  PROVE  Alone'
<1>1. \A d \in Cmds : cmd'[d] = IF d = k THEN r ELSE cmd[d]
  BY DEF SecretsInv, SecretTypes
<1>2. \A d \in Cmds : cmd[d].op = "snapshot" => cmd[d].snap # None
  BY SecretsAssumption DEF SecretsInv, Fits, Snapshots
<1>3. Idle.op = "none" /\ Idle.snap = None
  BY DEF Idle
<1>. QED
  BY <1>1, <1>2, <1>3 DEF SecretsInv, Alone

(* One command goes on, perhaps with its lab, and the vault stays.         *)
LEMMA LabGoes ==
  ASSUME SecretsInv, NEW k \in Cmds, NEW r \in CommandRecord,
         NEW l \in LabRecord \cup {None}, Fits(r, l), Labelled(l),
         cmd' = [cmd EXCEPT ![k] = r], lab' = [lab EXCEPT ![k] = l], Alone',
         UNCHANGED <<bundle, manifest, taken, secret, losses, edits>>,
         profile' \in Profiles, item' \in Nat \cup {None}, keys' \in Nat
  PROVE  SecretsInv'
<1>1. \A d \in Cmds : /\ cmd'[d] = (IF d = k THEN r ELSE cmd[d])
                      /\ lab'[d] = (IF d = k THEN l ELSE lab[d])
  BY DEF SecretsInv, SecretTypes
<1>2. SecretTypes'
  BY <1>1 DEF SecretsInv, SecretTypes
<1>3. ManifestTells' /\ BundleTells' /\ Counts'
  BY DEF SecretsInv, ManifestTells, BundleTells, Counts, Tells, Captured
<1>4. ASSUME NEW d \in Cmds PROVE Fits(cmd[d], lab[d])' /\ Labelled(lab[d])'
  <2> DEFINE q == IF d = k THEN r ELSE cmd[d]
             m == IF d = k THEN l ELSE lab[d]
  <2>1. Fits(q, m) /\ Labelled(m) /\ cmd'[d] = q /\ lab'[d] = m
    BY <1>1 DEF SecretsInv
  <2> HIDE DEF q, m
  <2>2. Snapshots(cmd[d])'
    BY <2>1 DEF Fits, Snapshots
  <2>3. Restores(cmd[d], lab[d])'
    <3>1. Restores(q, m)
      BY <2>1 DEF Fits
    <3>2. Tells(q.seen, q.snap) => Tells(cmd[d].seen, cmd[d].snap)'
      BY <2>1 DEF Tells
    <3>3. Captured(cmd[d].snap, secret)' = Captured(q.snap, secret)
      BY <2>1 DEF Captured
    <3>4. Whole(m) => Whole(lab[d])'
      BY <2>1 DEF Whole, Captured
    <3>. QED
      BY <2>1, <3>1, <3>2, <3>3, <3>4 DEF Restores
  <2>4. Rests(cmd[d])' /\ Labelled(lab[d])'
    BY <2>1 DEF Fits, Rests, Labelled, Whole, Captured
  <2>. QED
    BY <2>2, <2>3, <2>4 DEF Fits
<1>. QED
  BY <1>2, <1>3, <1>4 DEF SecretsInv

LEMMA CommandGoes ==
  ASSUME SecretsInv, NEW k \in Cmds, NEW r \in CommandRecord, Fits(r, lab[k]),
         cmd' = [cmd EXCEPT ![k] = r], Alone',
         UNCHANGED <<bundle, manifest, taken, secret, profile, losses, edits, lab>>,
         item' \in Nat \cup {None}, keys' \in Nat
  PROVE  SecretsInv'
<1>1. lab' = [lab EXCEPT ![k] = lab[k]] /\ lab[k] \in LabRecord \cup {None} /\ Labelled(lab[k])
  BY DEF SecretsInv, SecretTypes
<1>2. profile' \in Profiles
  BY DEF SecretsInv, SecretTypes
<1>. QED
  BY <1>1, <1>2, LabGoes

LEMMA RefuseStep ==
  ASSUME SecretsInv, NEW k \in Cmds, Refuse(k),
         UNCHANGED <<vaultVars, keyVars, ownerVars, lab, taken>>
  PROVE  SecretsInv'
<1>1. cmd' = [cmd EXCEPT ![k] = Idle]
  BY DEF Refuse
<1>2. item' \in Nat \cup {None} /\ keys' \in Nat
  BY DEF keyVars, SecretsInv, SecretTypes
<1>. QED
  BY <1>1, <1>2, Idles, StillAlone, CommandGoes DEF vaultVars, ownerVars

(* The key is looked up before anything is written or opened.              *)
LEMMA KeySteps ==
  ASSUME SecretsInv, NEW k \in Cmds, FindKey(k) \/ AddKey(k)
  PROVE  SecretsInv'
<1>1. item' \in Nat \cup {None} /\ keys' \in Nat
      /\ UNCHANGED <<bundle, manifest, taken, secret, profile, losses, edits, lab>>
  <2>1. item \in Nat \cup {None} /\ keys \in Nat
    BY DEF SecretsInv, SecretTypes
  <2>2. CASE FindKey(k)
    BY <2>1, <2>2 DEF FindKey, vaultVars, keyVars, ownerVars
  <2>3. CASE AddKey(k)
    <3>1. (item' = item /\ keys' = keys) \/ (item' = keys + 1 /\ keys' = keys + 1)
      BY <2>3 DEF AddKey, keyVars
    <3>2. item' \in Nat \cup {None} /\ keys' \in Nat
      BY <2>1, <3>1
    <3>. QED
      BY <2>3, <3>2 DEF AddKey, vaultVars, ownerVars
  <2>. QED
    BY <2>2, <2>3
<1>2. cmd[k].at \in {"key", "no key"}
  BY DEF FindKey, AddKey, At
<1>3. \E t \in {"no key", "keyed"}, q \in Nat \cup {None} :
        cmd' = [cmd EXCEPT ![k] = [cmd[k] EXCEPT !.key = q, !.at = t]]
  <2>1. cmd[k] = [cmd[k] EXCEPT !.key = cmd[k].key] /\ cmd[k].key \in Nat \cup {None}
    BY CommandFields DEF CommandRecord
  <2>2. Goes(k, "no key") =>
          cmd' = [cmd EXCEPT ![k] = [cmd[k] EXCEPT !.key = cmd[k].key, !.at = "no key"]]
    BY CommandFields DEF Goes, CommandRecord, SecretsInv, SecretTypes
  <2>3. \A q : KeyWritten(k, q) = [cmd EXCEPT ![k] = [cmd[k] EXCEPT !.key = q, !.at = "keyed"]]
    BY DEF KeyWritten, SecretsInv, SecretTypes
  <2>4. CASE FindKey(k)
    BY <2>1, <2>2, <2>3, <2>4 DEF FindKey, SecretsInv, SecretTypes
  <2>5. CASE AddKey(k)
    <3>1. keys + 1 \in Nat \cup {None} /\ None \in Nat \cup {None}
      BY DEF SecretsInv, SecretTypes
    <3>. QED
      BY <2>3, <2>5, <3>1 DEF AddKey
  <2>. QED
    BY <2>4, <2>5
<1>4. PICK t \in {"no key", "keyed"}, q \in Nat \cup {None} :
        cmd' = [cmd EXCEPT ![k] = [cmd[k] EXCEPT !.key = q, !.at = t]]
  BY <1>3
<1> DEFINE r == [cmd[k] EXCEPT !.key = q, !.at = t]
<1>5. r \in CommandRecord /\ r.op = cmd[k].op /\ r.snap = cmd[k].snap
  BY CommandFields DEF CommandRecord
<1>6. Fits(r, lab[k])
  BY <1>2, CommandFields DEF CommandRecord, Fits, Snapshots, Restores, Rests
<1> HIDE DEF r
<1>7. Alone'
  BY <1>4, <1>5, StillAlone DEF r
<1>. QED
  BY <1>1, <1>4, <1>5, <1>6, <1>7, CommandGoes DEF r

LEMMA SnapshotStep ==
  ASSUME SecretsInv, NEW k \in Cmds, NEW s \in Snaps, Snapshot(k, s)
  PROVE  SecretsInv'
<1> DEFINE r == [Idle EXCEPT !.op = "snapshot", !.at = "key", !.snap = s]
<1>1. /\ UNCHANGED <<bundle, manifest, taken, secret, profile, losses, edits, lab>>
      /\ item' \in Nat \cup {None} /\ keys' \in Nat /\ cmd' = [cmd EXCEPT ![k] = r]
  BY DEF Snapshot, vaultVars, keyVars, ownerVars, SecretsInv, SecretTypes
<1>2. r \in CommandRecord /\ Fits(r, lab[k]) /\ r.snap = s
  BY DEF Snapshot, Idle, CommandRecord, Fits, Snapshots, Restores, Rests
<1> HIDE DEF r
<1>3. Alone'
  BY <1>1, <1>2 DEF Snapshot, Alone, SecretsInv, SecretTypes
<1>. QED
  BY <1>1, <1>2, <1>3, CommandGoes

LEMMA FromSnapshotStep ==
  ASSUME SecretsInv, NEW k \in Cmds, NEW s \in Snaps, NEW op \in {"restore", "branch"},
         NEW asked \in BOOLEAN, FromSnapshot(k, s, op, asked)
  PROVE  SecretsInv'
<1> DEFINE r == [Idle EXCEPT !.op = op, !.snap = s, !.asked = asked, !.seen = manifest[s],
                   !.at = IF op = "restore" \/ manifest[s].sealed THEN "key" ELSE "opened"]
<1>1. /\ UNCHANGED <<bundle, manifest, taken, secret, profile, losses, edits, lab>>
      /\ item' \in Nat \cup {None} /\ keys' \in Nat /\ cmd' = [cmd EXCEPT ![k] = r]
  BY DEF FromSnapshot, vaultVars, keyVars, ownerVars, SecretsInv, SecretTypes
<1>2. manifest[s] # None /\ manifest[s] \in ManifestRecord /\ Tells(manifest[s], s)
  BY DEF FromSnapshot, SecretsInv, SecretTypes, ManifestTells
<1>3. r \in CommandRecord /\ Fits(r, lab[k]) /\ r.snap = s /\ r.op = op
  BY <1>2 DEF Idle, CommandRecord, Fits, Snapshots, Restores, Rests
<1> HIDE DEF r
<1>4. \A d \in Cmds : cmd[d].op = "snapshot" => cmd[d].snap # s
  BY <1>2, CommandFields DEF Fits, Snapshots
<1>5. Alone'
  BY <1>1, <1>3, <1>4 DEF Alone, SecretsInv, SecretTypes
<1>. QED
  BY <1>1, <1>3, <1>5, CommandGoes

(* What a bundle gives when it opens is what was captured of the secrets.  *)
LEMMA OpenStep ==
  ASSUME SecretsInv, NEW k \in Cmds, OpenBundle(k)
  PROVE  SecretsInv'
<1>1. /\ UNCHANGED <<bundle, manifest, taken, secret, profile, losses, edits, lab>>
      /\ item' \in Nat \cup {None} /\ keys' \in Nat
  BY DEF OpenBundle, vaultVars, keyVars, ownerVars, SecretsInv, SecretTypes
<1>2. CASE Refuse(k)
  BY <1>2, RefuseStep DEF OpenBundle
<1>3. ASSUME NEW o \in {cmd[k].opened, Captured(cmd[k].snap, secret)}, o \in SUBSET (Pieces \X Nat),
             cmd' = [cmd EXCEPT ![k] = [cmd[k] EXCEPT !.opened = o, !.at = "opened"]]
      PROVE  SecretsInv'
  <2> DEFINE r == [cmd[k] EXCEPT !.opened = o, !.at = "opened"]
  <2>1. r \in CommandRecord /\ r.op = cmd[k].op /\ r.snap = cmd[k].snap
    BY <1>3, CommandFields DEF CommandRecord
  <2>2. Fits(r, lab[k])
    BY <1>3, CommandFields DEF OpenBundle, CommandRecord, Fits, Snapshots, Restores, Rests
  <2>3. cmd' = [cmd EXCEPT ![k] = r]
    BY <1>3
  <2> HIDE DEF r
  <2>. QED
    BY <1>1, <2>1, <2>2, <2>3, StillAlone, CommandGoes
<1>4. CASE Goes(k, "opened")
  <2>1. cmd[k].opened \in SUBSET (Pieces \X Nat)
    BY CommandFields DEF CommandRecord
  <2>2. cmd' = [cmd EXCEPT ![k] = [cmd[k] EXCEPT !.opened = cmd[k].opened, !.at = "opened"]]
    BY <1>4, CommandFields DEF Goes, CommandRecord, SecretsInv, SecretTypes
  <2>. QED
    BY <1>3, <2>1, <2>2
<1>5. CASE /\ Opens(bundle[cmd[k].snap], cmd[k].key)
           /\ cmd' = [cmd EXCEPT ![k].opened = bundle[cmd[k].snap].holds, ![k].at = "opened"]
  <2>1. cmd[k].snap \in Snaps
    BY CommandFields DEF OpenBundle, Fits, Restores
  <2>2. bundle[cmd[k].snap] \in Bundles /\ bundle[cmd[k].snap].holds = Captured(cmd[k].snap, secret)
    BY <1>5, <2>1 DEF Opens, SecretsInv, SecretTypes, BundleTells
  <2>3. bundle[cmd[k].snap].holds \in SUBSET (Pieces \X Nat)
    BY <2>2 DEF Bundles
  <2>4. cmd' = [cmd EXCEPT ![k] =
                  [cmd[k] EXCEPT !.opened = bundle[cmd[k].snap].holds, !.at = "opened"]]
    BY <1>5 DEF SecretsInv, SecretTypes
  <2>. QED
    BY <1>3, <2>2, <2>3, <2>4
<1>. QED
  BY <1>2, <1>4, <1>5 DEF OpenBundle

(* What createLab finds for every piece is what was captured of it: the    *)
(* objects and the bundle hold nothing else.                               *)
LEMMA CompleteIsCaptured ==
  ASSUME SecretsInv, NEW k \in Cmds, Complete(k), Tells(cmd[k].seen, cmd[k].snap),
         cmd[k].opened \in {{}, Captured(cmd[k].snap, secret)}
  PROVE  Bytes(k) = Captured(cmd[k].snap, Pieces)
<1>1. Stored(k) \subseteq Captured(cmd[k].snap, Pieces)
  BY DEF Stored, Tells, Captured
<1>2. cmd[k].opened \subseteq Captured(cmd[k].snap, Pieces)
  BY DEF Captured, SecretsInv, SecretTypes
<1>3. \A p \in Pieces : <<p, taken[cmd[k].snap][p]>> \in Bytes(k)
  <2> SUFFICES ASSUME NEW p \in Pieces PROVE <<p, taken[cmd[k].snap][p]>> \in Bytes(k)
    OBVIOUS
  <2>1. PICK x \in Bytes(k) : x[1] = p
    BY DEF Complete
  <2>2. x \in Captured(cmd[k].snap, Pieces)
    BY <1>1, <1>2 DEF Bytes
  <2>3. x = <<p, taken[cmd[k].snap][p]>>
    BY <2>1, <2>2 DEF Captured
  <2>. QED
    BY <2>3
<1>. QED
  BY <1>1, <1>2, <1>3 DEF Bytes, Captured

LEMMA LabSteps ==
  ASSUME SecretsInv, NEW k \in Cmds, CreateLab(k) \/ RunLab(k) \/ Promote(k)
  PROVE  SecretsInv'
<1>1. /\ UNCHANGED <<bundle, manifest, taken, secret, losses, edits>>
      /\ item' \in Nat \cup {None} /\ keys' \in Nat
  BY DEF CreateLab, RunLab, Promote, vaultVars, keyVars, ownerVars, SecretsInv, SecretTypes
<1>2. cmd[k].at \in {"opened", "run", "promote"} /\ cmd[k].op \in {"restore", "branch"}
  <2>1. cmd[k].at \in {"opened", "run", "promote"}
    BY DEF CreateLab, RunLab, Promote, At
  <2>. QED
    BY <2>1, CommandFields DEF CommandRecord, Fits, Snapshots, Rests
<1>3. /\ cmd[k].snap \in Snaps /\ Tells(cmd[k].seen, cmd[k].snap)
      /\ cmd[k].opened \in {{}, Captured(cmd[k].snap, secret)}
      /\ cmd[k].at \in {"run", "promote"} => Whole(lab[k])
  BY <1>2, CommandFields DEF Fits, Restores
<1> DEFINE Later(t) == [cmd[k] EXCEPT !.at = t]
<1>4. ASSUME NEW t \in {"run", "promote"}, NEW l \in LabRecord, Whole(l),
             cmd' = [cmd EXCEPT ![k] = Later(t)], lab' = [lab EXCEPT ![k] = l],
             profile' = profile
      PROVE  SecretsInv'
  <2>1. Later(t) \in CommandRecord /\ Later(t).op = cmd[k].op /\ Later(t).snap = cmd[k].snap
    BY CommandFields DEF CommandRecord
  <2>2. Fits(Later(t), l)
    BY <1>2, <1>4, CommandFields DEF CommandRecord, Fits, Snapshots, Restores, Rests
  <2>3. Labelled(l) /\ profile' \in Profiles
    BY <1>4 DEF Labelled, SecretsInv, SecretTypes
  <2> HIDE DEF Later
  <2>4. Alone'
    BY <1>4, <2>1, StillAlone
  <2>. QED
    BY <1>1, <1>4, <2>1, <2>2, <2>3, <2>4, LabGoes
<1>5. ASSUME NEW l \in LabRecord \cup {None}, Labelled(l), Refuse(k),
             lab' = [lab EXCEPT ![k] = l], profile' \in Profiles
      PROVE  SecretsInv'
  <2>1. cmd' = [cmd EXCEPT ![k] = Idle]
    BY <1>5 DEF Refuse
  <2>2. Alone' /\ Idle \in CommandRecord /\ Fits(Idle, l)
    BY <2>1, Idles, StillAlone
  <2>. QED
    BY <1>1, <1>5, <2>1, <2>2, LabGoes
<1>6. /\ profile \in Profiles /\ lab[k] \in LabRecord \cup {None} /\ Labelled(lab[k])
      /\ lab = [lab EXCEPT ![k] = lab[k]] /\ Labelled(None)
  BY CommandFields DEF Labelled, SecretsInv, SecretTypes
<1>7. CASE CreateLab(k)
  <2> DEFINE l == [snap |-> cmd[k].snap, receipt |-> profile, state |-> "created",
                   holds |-> Bytes(k)]
  <2>1. profile' = profile
    BY <1>7 DEF CreateLab, ownerVars
  <2>2. CASE Refuse(k) /\ UNCHANGED lab
    BY <1>5, <1>6, <2>1, <2>2
  <2>3. CASE Complete(k) /\ lab' = [lab EXCEPT ![k] = l] /\ (Goes(k, "run") \/ Refuse(k))
    <3>1. Bytes(k) = Captured(cmd[k].snap, Pieces)
      BY <1>3, <2>3, CompleteIsCaptured
    <3>2. Bytes(k) \in SUBSET (Pieces \X Nat)
      BY <1>3, <3>1 DEF Captured, Tells, Profiles
    <3>3. l \in LabRecord /\ Whole(l)
      BY <1>3, <1>6, <3>1, <3>2 DEF LabRecord, Whole, Tells
    <3> HIDE DEF l
    <3>4. Goes(k, "run") => cmd' = [cmd EXCEPT ![k] = Later("run")]
      BY DEF Goes, SecretsInv, SecretTypes
    <3>. QED
      BY <1>4, <1>5, <1>6, <2>1, <2>3, <3>3, <3>4 DEF Labelled
  <2>. QED
    BY <1>7, <2>2, <2>3 DEF CreateLab
<1>8. CASE RunLab(k)
  <2>1. PICK ok \in BOOLEAN :
          /\ lab' = [lab EXCEPT ![k].state = IF ok THEN "verified" ELSE "failed"]
          /\ Goes(k, "promote") \/ Refuse(k)
    BY <1>8 DEF RunLab
  <2> DEFINE l == [lab[k] EXCEPT !.state = IF ok THEN "verified" ELSE "failed"]
  <2>2. Whole(lab[k]) /\ profile' = profile
    BY <1>3, <1>8 DEF RunLab, At, ownerVars
  <2>3. l \in LabRecord /\ Whole(l)
    BY <2>2 DEF LabRecord, Whole
  <2>4. lab' = [lab EXCEPT ![k] = l]
    BY <2>1 DEF SecretsInv, SecretTypes
  <2> HIDE DEF l
  <2>5. Goes(k, "promote") => cmd' = [cmd EXCEPT ![k] = Later("promote")]
    BY DEF Goes, SecretsInv, SecretTypes
  <2>. QED
    BY <1>4, <1>5, <1>6, <2>1, <2>2, <2>3, <2>4, <2>5 DEF Labelled
<1>9. CASE Promote(k)
  <2>1. Whole(lab[k])
    BY <1>3, <1>9 DEF Promote, At
  <2>2. Promoted(k) \in Profiles
    <3>1. ASSUME NEW p \in Pieces PROVE (CHOOSE x \in lab[k].holds : x[1] = p)[2] \in Nat
      <4>1. <<p, taken[lab[k].snap][p]>> \in lab[k].holds /\ lab[k].holds \subseteq Pieces \X Nat
        BY <2>1 DEF Whole, Captured, LabRecord
      <4>2. \E x \in lab[k].holds : x[1] = p
        BY <4>1
      <4>3. (CHOOSE x \in lab[k].holds : x[1] = p) \in lab[k].holds
        BY <4>2
      <4>. QED
        BY <4>1, <4>3
    <3>. QED
      BY <1>6, <3>1 DEF Promoted, Profiles
  <2>3. Refuse(k) /\ profile' \in Profiles
    BY <1>6, <1>9, <2>2 DEF Promote
  <2>4. lab' = lab \/ lab' = [lab EXCEPT ![k] = None]
    BY <1>9 DEF Promote
  <2>. QED
    BY <1>5, <1>6, <2>3, <2>4
<1>. QED
  BY <1>7, <1>8, <1>9

----------------------------------------------------------------------------
(* The steps of a snapshot: what it writes is under a name that nobody     *)
(* else uses.                                                              *)
LEMMA SnapshotFields ==
  ASSUME SecretsInv, NEW k \in Cmds, cmd[k].op = "snapshot"
  PROVE  /\ cmd[k].snap \in Snaps /\ manifest[cmd[k].snap] = None
         /\ Snapshots(cmd[k])
         /\ \A d \in Cmds \ {k} : cmd[d].snap # cmd[k].snap
BY CommandFields DEF SecretsInv, Alone, Fits, Snapshots

(* A command that works on another name does not see what is written under *)
(* this one, and what was captured is captured once.                       *)
LEMMA LabsStay ==
  ASSUME SecretsInv, NEW s \in Snaps, NEW d \in Cmds, lab' = lab,
         taken[s] = None \/ taken'[s] = taken[s],
         \A z \in Snaps \ {s} : taken'[z] = taken[z]
  PROVE  (Whole(lab[d]) => Whole(lab[d])') /\ Labelled(lab[d])'
<1>1. Whole(lab[d]) => taken'[lab[d].snap] = taken[lab[d].snap]
  BY SecretsAssumption DEF Whole, LabRecord
<1>2. Whole(lab[d]) => Whole(lab[d])'
  BY <1>1 DEF Whole, Captured
<1>. QED
  BY <1>2 DEF Labelled, SecretsInv

LEMMA OthersStay ==
  ASSUME SecretsInv, NEW s \in Snaps, NEW d \in Cmds, cmd'[d] = cmd[d], lab' = lab,
         cmd[d].snap # s, UNCHANGED <<secret, losses>>,
         taken[s] = None \/ taken'[s] = taken[s],
         \A z \in Snaps \ {s} :
           taken'[z] = taken[z] /\ manifest'[z] = manifest[z] /\ bundle'[z] = bundle[z]
  PROVE  Fits(cmd[d], lab[d])'
<1>1. Fits(cmd[d], lab[d])
  BY DEF SecretsInv
<1>2. Snapshots(cmd[d])'
  BY <1>1 DEF Fits, Snapshots
<1>3. Restores(cmd[d], lab[d])'
  <2>1. Tells(cmd[d].seen, cmd[d].snap) /\ cmd[d].snap \in Snaps =>
          Tells(cmd[d].seen, cmd[d].snap)'
    BY DEF Tells
  <2>2. cmd[d].snap \in Snaps => Captured(cmd[d].snap, secret)' = Captured(cmd[d].snap, secret)
    BY DEF Captured
  <2>3. Whole(lab[d]) => Whole(lab[d])'
    BY LabsStay
  <2>. QED
    BY <1>1, <2>1, <2>2, <2>3 DEF Fits, Restores
<1>. QED
  BY <1>1, <1>2, <1>3 DEF Fits, Rests

LEMMA CaptureStep ==
  ASSUME SecretsInv, NEW k \in Cmds, Capture(k)
  PROVE  SecretsInv'
<1> DEFINE s == cmd[k].snap
           r == [cmd[k] EXCEPT !.at = "bundle", !.seen = profile]
<1>1. /\ s \in Snaps /\ manifest[s] = None /\ taken[s] = None
      /\ \A d \in Cmds \ {k} : cmd[d].snap # s
  BY SnapshotFields DEF Capture, At, Snapshots
<1>2. /\ UNCHANGED <<secret, profile, edits, losses, bundle, manifest, lab, item, keys>>
      /\ cmd' = [cmd EXCEPT ![k] = r] /\ taken' = [taken EXCEPT ![s] = profile]
  BY DEF Capture, ownerVars, keyVars, SecretsInv, SecretTypes
<1>3. /\ r \in CommandRecord /\ r.op = "snapshot" /\ r.snap = s /\ r.at = "bundle"
      /\ r.seen = profile /\ profile \in Profiles
  BY CommandFields DEF Capture, CommandRecord, SecretsInv, SecretTypes
<1>4. r.op = cmd[k].op /\ r.snap = cmd[k].snap
  BY <1>3 DEF Capture
<1> HIDE DEF r
<1>5. Alone'
  BY <1>2, <1>3, <1>4, StillAlone
<1> HIDE DEF s
<1>6. /\ taken'[s] = profile /\ \A z \in Snaps \ {s} : taken'[z] = taken[z]
      /\ cmd'[k] = r /\ \A d \in Cmds \ {k} : cmd'[d] = cmd[d]
  BY <1>1, <1>2 DEF SecretsInv, SecretTypes
<1>7. SecretTypes'
  BY <1>1, <1>2, <1>3 DEF SecretsInv, SecretTypes
<1>8. bundle[s] = None
  BY <1>1 DEF SecretsInv, BundleTells
<1>9. ManifestTells' /\ BundleTells' /\ Counts'
  <2>1. ASSUME NEW z \in Snaps, manifest[z] # None PROVE Tells(manifest[z], z)'
    BY <1>1, <1>2, <1>6, <2>1 DEF SecretsInv, ManifestTells, Tells
  <2>2. ASSUME NEW z \in Snaps, bundle[z] # None
        PROVE  taken'[z] # None /\ bundle[z].holds = Captured(z, secret)'
    BY <1>2, <1>6, <1>8, <2>2 DEF SecretsInv, BundleTells, Captured
  <2>. QED
    BY <1>2, <2>1, <2>2 DEF ManifestTells, BundleTells, Counts, SecretsInv
<1>10. ASSUME NEW d \in Cmds PROVE Fits(cmd[d], lab[d])' /\ Labelled(lab[d])'
  <2>1. Labelled(lab[d])'
    BY <1>1, <1>2, <1>6, LabsStay
  <2>2. CASE d = k
    BY <1>1, <1>2, <1>3, <1>6, <2>1, <2>2 DEF Fits, Snapshots, Restores, Rests
  <2>3. CASE d # k
    BY <1>1, <1>2, <1>6, <2>1, <2>3, OthersStay
  <2>. QED
    BY <2>2, <2>3
<1>. QED
  BY <1>5, <1>7, <1>9, <1>10 DEF SecretsInv

(* Of a snapshot with secrets and a key, the bundle is there when the      *)
(* manifest is written: nothing but a loss removes it in between.          *)
LEMMA WriteBundleStep ==
  ASSUME SecretsInv, NEW k \in Cmds, WriteBundle(k)
  PROVE  SecretsInv'
<1> DEFINE s == cmd[k].snap
           r == [cmd[k] EXCEPT !.at = "manifest"]
           b == [key |-> cmd[k].key, whole |-> TRUE,
                 holds |-> {<<p, cmd[k].seen[p]>> : p \in Sealed(k)}]
<1>1. cmd[k].op = "snapshot"
  BY CommandFields DEF WriteBundle, At, Fits, Snapshots, Restores, Rests, CommandRecord
<1>2. /\ s \in Snaps /\ manifest[s] = None /\ taken[s] = cmd[k].seen /\ cmd[k].seen \in Profiles
      /\ \A d \in Cmds \ {k} : cmd[d].snap # s
  BY <1>1, SnapshotFields DEF WriteBundle, At, Snapshots
<1>3. /\ UNCHANGED <<secret, profile, edits, losses, taken, manifest, lab, item, keys>>
      /\ cmd' = [cmd EXCEPT ![k] = r]
      /\ bundle' = IF Sealed(k) = {} THEN bundle ELSE [bundle EXCEPT ![s] = b]
  BY DEF WriteBundle, Goes, ownerVars, keyVars, SecretsInv, SecretTypes
<1>4. /\ r \in CommandRecord /\ r.op = "snapshot" /\ r.snap = s /\ r.at = "manifest"
      /\ r.seen = cmd[k].seen /\ r.key = cmd[k].key
  BY <1>1, CommandFields DEF CommandRecord
<1>5. Sealed(k) # {} =>
        b \in Bundles /\ Sealed(k) = secret /\ b.holds = Captured(s, secret) /\ cmd[k].key \in Nat
  <2> SUFFICES ASSUME Sealed(k) # {}
               PROVE  /\ b \in Bundles /\ Sealed(k) = secret
                      /\ b.holds = Captured(s, secret) /\ cmd[k].key \in Nat
    OBVIOUS
  <2>1. Sealed(k) = secret /\ cmd[k].key \in Nat
    BY CommandFields DEF Sealed, CommandRecord
  <2>2. {<<p, cmd[k].seen[p]>> : p \in Sealed(k)} = Captured(s, secret)
    BY <1>2, <2>1 DEF Captured
  <2>3. Captured(s, secret) \subseteq Pieces \X Nat
    BY <1>2 DEF Captured, Profiles, SecretsInv, SecretTypes
  <2>. QED
    BY <2>1, <2>2, <2>3 DEF Bundles
<1> HIDE DEF b, r
<1>6. Alone'
  BY <1>1, <1>3, <1>4, StillAlone
<1> HIDE DEF s
<1>7. /\ \A z \in Snaps \ {s} : bundle'[z] = bundle[z]
      /\ bundle'[s] = IF Sealed(k) = {} THEN bundle[s] ELSE b
      /\ cmd'[k] = r /\ \A d \in Cmds \ {k} : cmd'[d] = cmd[d]
  BY <1>2, <1>3 DEF SecretsInv, SecretTypes
<1>8. SecretTypes'
  BY <1>2, <1>3, <1>4, <1>5 DEF SecretsInv, SecretTypes
<1>9. ManifestTells' /\ BundleTells' /\ Counts'
  <2>1. ManifestTells'
    BY <1>3 DEF SecretsInv, ManifestTells, Tells
  <2>2. ASSUME NEW z \in Snaps, bundle'[z] # None
        PROVE  taken[z] # None /\ bundle'[z].holds = Captured(z, secret)
    BY <1>2, <1>5, <1>7, <2>2, SecretsAssumption DEF SecretsInv, BundleTells
  <2>3. BundleTells'
    BY <1>3, <2>2 DEF BundleTells, Captured
  <2>4. Counts'
    BY <1>2, <1>3, <1>7 DEF SecretsInv, Counts
  <2>. QED
    BY <2>1, <2>3, <2>4
<1>10. ASSUME NEW d \in Cmds PROVE Fits(cmd[d], lab[d])' /\ Labelled(lab[d])'
  <2>1. Labelled(lab[d])'
    BY <1>2, <1>3, LabsStay
  <2>2. CASE d = k
    <3>1. cmd[k].key # None /\ secret # {} => bundle'[s] # None
      BY <1>5, <1>7, SecretsAssumption DEF Sealed
    <3>. QED
      BY <1>2, <1>3, <1>4, <1>7, <2>1, <2>2, <3>1 DEF Fits, Snapshots, Restores, Rests
  <2>3. CASE d # k
    BY <1>2, <1>3, <1>7, <2>1, <2>3, OthersStay
  <2>. QED
    BY <2>2, <2>3
<1>. QED
  BY <1>6, <1>8, <1>9, <1>10 DEF SecretsInv

LEMMA WriteManifestStep ==
  ASSUME SecretsInv, NEW k \in Cmds, WriteManifest(k)
  PROVE  SecretsInv'
<1> DEFINE s == cmd[k].snap
           m == [hash |-> cmd[k].seen, sealed |-> Sealed(k) # {},
                 kept |-> [p \in Pieces |-> IF p \notin secret THEN "object"
                                            ELSE IF p \in Sealed(k) THEN "sealed"
                                            ELSE "skipped"]]
<1>1. cmd[k].op = "snapshot"
  BY CommandFields DEF WriteManifest, At, Fits, Snapshots, Restores, Rests, CommandRecord
<1>2. /\ s \in Snaps /\ manifest[s] = None /\ taken[s] = cmd[k].seen /\ cmd[k].seen \in Profiles
      /\ \A d \in Cmds \ {k} : cmd[d].snap # s
      /\ losses = 0 /\ cmd[k].key # None /\ secret # {} => bundle[s] # None
  BY <1>1, SnapshotFields DEF WriteManifest, At, Snapshots
<1>3. /\ UNCHANGED <<secret, profile, edits, losses, taken, bundle, lab, item, keys>>
      /\ cmd' = [cmd EXCEPT ![k] = Idle] /\ manifest' = [manifest EXCEPT ![s] = m]
  BY DEF WriteManifest, ownerVars, keyVars
<1>4. /\ m \in ManifestRecord /\ m.hash = cmd[k].seen
      /\ m.sealed => cmd[k].key # None /\ secret # {}
      /\ m.kept = [p \in Pieces |-> IF p \notin secret THEN "object"
                                    ELSE IF m.sealed THEN "sealed" ELSE "skipped"]
  BY <1>2 DEF ManifestRecord, Sealed
<1> HIDE DEF m
<1>5. Tells(m, s)
  BY <1>2, <1>4 DEF Tells
<1>6. Alone'
  BY <1>3, Idles, StillAlone
<1> HIDE DEF s
<1>7. /\ manifest'[s] = m /\ \A z \in Snaps \ {s} : manifest'[z] = manifest[z]
      /\ cmd'[k] = Idle /\ \A d \in Cmds \ {k} : cmd'[d] = cmd[d]
  BY <1>2, <1>3 DEF SecretsInv, SecretTypes
<1>8. SecretTypes'
  BY <1>2, <1>3, <1>4, Idles DEF SecretsInv, SecretTypes
<1>9. ManifestTells' /\ BundleTells' /\ Counts'
  <2>1. ASSUME NEW z \in Snaps, manifest'[z] # None
        PROVE  Tells(manifest'[z], z)
    BY <1>5, <1>7, <2>1 DEF SecretsInv, ManifestTells
  <2>2. ManifestTells'
    BY <1>3, <2>1 DEF ManifestTells, Tells
  <2>3. BundleTells'
    BY <1>3 DEF SecretsInv, BundleTells, Captured
  <2>4. Counts'
    BY <1>2, <1>3, <1>4, <1>7 DEF SecretsInv, Counts
  <2>. QED
    BY <2>2, <2>3, <2>4
<1>10. ASSUME NEW d \in Cmds PROVE Fits(cmd[d], lab[d])' /\ Labelled(lab[d])'
  <2>1. Labelled(lab[d])'
    BY <1>2, <1>3, LabsStay
  <2>2. CASE d = k
    <3>1. cmd'[d].op = "none" /\ cmd'[d].at = "idle" /\ cmd'[d].snap = None
      BY <1>7, <2>2 DEF Idle
    <3>2. Snapshots(cmd[d])'
      BY <3>1 DEF Snapshots
    <3>3. Restores(cmd[d], lab[d])'
      BY <3>1 DEF Restores
    <3>4. Rests(cmd[d])'
      BY <3>1 DEF Rests
    <3>. QED
      BY <2>1, <3>2, <3>3, <3>4 DEF Fits
  <2>3. CASE d # k
    BY <1>2, <1>3, <1>7, <2>1, <2>3, OthersStay
  <2>. QED
    BY <2>2, <2>3
<1>. QED
  BY <1>6, <1>8, <1>9, <1>10 DEF SecretsInv

----------------------------------------------------------------------------
(* Edits, losses and the removal of snapshots.                             *)
LEMMA OutsideSteps ==
  ASSUME SecretsInv, Edit \/ \E s \in Snaps : Prune(s) \/ Lose(s)
  PROVE  SecretsInv'
<1>1. UNCHANGED <<secret, taken, cmd, lab, item, keys>>
  BY DEF Edit, Prune, Lose, vaultVars, keyVars, ownerVars
<1>2. /\ profile' \in Profiles /\ losses' \in Nat /\ edits' \in Nat
      /\ losses' = 0 => losses = 0
  <2>1. profile \in Profiles /\ losses \in Nat /\ edits \in Nat
    BY DEF SecretsInv, SecretTypes
  <2>2. CASE Edit
    BY <2>1, <2>2 DEF Edit, Profiles
  <2>3. CASE \E s \in Snaps : Prune(s)
    BY <2>1, <2>3 DEF Prune, ownerVars
  <2>4. CASE \E s \in Snaps : Lose(s)
    BY <2>1, <2>4 DEF Lose
  <2>. QED
    BY <2>2, <2>3, <2>4
(* Whatever bundle or manifest is left tells of the same as before.        *)
<1>3. /\ bundle' \in [Snaps -> Bundles \cup {None}]
      /\ \A z \in Snaps : bundle'[z] # None => bundle[z] # None /\ bundle'[z].holds = bundle[z].holds
  <2>1. bundle \in [Snaps -> Bundles \cup {None}]
    BY DEF SecretsInv, SecretTypes
  <2>2. CASE Edit
    BY <2>1, <2>2 DEF Edit, vaultVars
  <2>3. CASE \E s \in Snaps : Prune(s)
    BY <2>1, <2>3 DEF Prune
  <2>4. ASSUME NEW s \in Snaps, Lose(s)
        PROVE  /\ bundle' \in [Snaps -> Bundles \cup {None}]
               /\ \A z \in Snaps :
                    bundle'[z] # None => bundle[z] # None /\ bundle'[z].holds = bundle[z].holds
    <3> DEFINE b == [bundle[s] EXCEPT !.whole = FALSE]
    <3>1. bundle[s] # None => b \in Bundles /\ b.holds = bundle[s].holds
      BY <2>1 DEF Bundles
    <3>2. bundle' = bundle \/ (bundle[s] # None /\ bundle' = [bundle EXCEPT ![s] = b])
            \/ bundle' = [bundle EXCEPT ![s] = None]
      BY <2>1, <2>4 DEF Lose
    <3> HIDE DEF b
    <3>. QED
      BY <2>1, <3>1, <3>2
  <2>. QED
    BY <2>2, <2>3, <2>4
<1>4. /\ manifest' \in [Snaps -> ManifestRecord \cup {None}]
      /\ \A z \in Snaps : manifest'[z] \in {manifest[z], None}
  BY DEF Edit, Prune, Lose, vaultVars, SecretsInv, SecretTypes
<1>5. SecretTypes'
  BY <1>1, <1>2, <1>3, <1>4 DEF SecretsInv, SecretTypes
<1>6. ManifestTells' /\ BundleTells' /\ Alone'
  <2>1. ManifestTells'
    BY <1>1, <1>4 DEF SecretsInv, ManifestTells, Tells
  <2>2. BundleTells'
    BY <1>1, <1>3 DEF SecretsInv, BundleTells, Captured
  <2>. QED
    BY <1>1, <2>1, <2>2 DEF SecretsInv, Alone
(* A bundle that goes while none was lost goes with its manifest.          *)
<1>7. losses' = 0 => \A z \in Snaps : bundle[z] # None => bundle'[z] # None \/ manifest[z] # None
  <2>1. CASE Edit
    BY <2>1 DEF Edit, vaultVars
  <2>2. CASE \E s \in Snaps : Prune(s)
    BY <2>2 DEF Prune, SecretsInv, SecretTypes
  <2>3. CASE \E s \in Snaps : Lose(s)
    BY <2>3 DEF Lose, SecretsInv, SecretTypes
  <2>. QED
    BY <2>1, <2>2, <2>3
<1>8. losses' = 0 => \A z \in Snaps : manifest'[z] # None /\ bundle[z] # None => bundle'[z] # None
  <2>1. CASE Edit
    BY <2>1 DEF Edit, vaultVars
  <2>2. CASE \E s \in Snaps : Prune(s)
    BY <2>2 DEF Prune, SecretsInv, SecretTypes
  <2>3. CASE \E s \in Snaps : Lose(s)
    BY <2>3 DEF Lose, SecretsInv, SecretTypes
  <2>. QED
    BY <2>1, <2>2, <2>3
<1>9. Counts'
  BY <1>2, <1>4, <1>8 DEF SecretsInv, Counts
<1>10. ASSUME NEW d \in Cmds PROVE Fits(cmd[d], lab[d])' /\ Labelled(lab[d])'
  <2>1. Fits(cmd[d], lab[d]) /\ Labelled(lab[d])
    BY DEF SecretsInv
  <2>2. Snapshots(cmd[d])'
    BY <1>1, <1>2, <1>4, <1>7, <2>1 DEF Fits, Snapshots
  <2>3. Restores(cmd[d], lab[d])' /\ Rests(cmd[d])' /\ Labelled(lab[d])'
    BY <1>1, <2>1 DEF Fits, Restores, Rests, Tells, Captured, Whole, Labelled
  <2>. QED
    BY <2>2, <2>3 DEF Fits
<1>. QED
  BY <1>5, <1>6, <1>9, <1>10 DEF SecretsInv

LEMMA SecretsStep == SecretsInv /\ [SecretsNext]_secretsVars => SecretsInv'
<1> SUFFICES ASSUME SecretsInv, [SecretsNext]_secretsVars PROVE SecretsInv'
  OBVIOUS
<1>1. CASE UNCHANGED secretsVars
  <2>1. UNCHANGED <<secret, profile, item, keys, bundle, manifest, cmd, lab, edits, losses, taken>>
    BY <1>1 DEF secretsVars, vaultVars, keyVars, ownerVars
  <2>2. SecretTypes' /\ ManifestTells' /\ BundleTells' /\ Counts' /\ Alone'
    BY <2>1 DEF SecretsInv, SecretTypes, ManifestTells, BundleTells, Counts, Alone, Tells, Captured
  <2>3. ASSUME NEW d \in Cmds PROVE Fits(cmd[d], lab[d])' /\ Labelled(lab[d])'
    <3>1. Fits(cmd[d], lab[d]) /\ Labelled(lab[d])
      BY DEF SecretsInv
    <3>2. Snapshots(cmd[d])'
      BY <2>1, <3>1 DEF Fits, Snapshots
    <3>3. Restores(cmd[d], lab[d])' /\ Rests(cmd[d])' /\ Labelled(lab[d])'
      BY <2>1, <3>1 DEF Fits, Restores, Rests, Tells, Captured, Whole, Labelled
    <3>. QED
      BY <3>2, <3>3 DEF Fits
  <2>. QED
    BY <2>2, <2>3 DEF SecretsInv
<1>2. ASSUME NEW k \in Cmds, Kill(k) PROVE SecretsInv'
  BY <1>2, RefuseStep DEF Kill
<1>. QED
  BY <1>1, <1>2, KeySteps, CaptureStep, WriteBundleStep, WriteManifestStep, OpenStep, LabSteps,
     SnapshotStep, FromSnapshotStep, OutsideSteps DEF SecretsNext

(* vault/secrets.ts, commands/restore.ts: a lab made from a snapshot holds *)
(* what the snapshot captured, and a manifest counts on no bundle that was *)
(* not written, for any commands, snapshots and bounds.                    *)
THEOREM SecretsAreSound == SecretsSpec => []SecretsSound
<1>1. SecretsInit => SecretsInv
  <2> SUFFICES ASSUME SecretsInit PROVE SecretsInv
    OBVIOUS
  <2>1. Idle \in CommandRecord
    BY DEF Idle, CommandRecord
  <2>2. SecretTypes
    BY <2>1 DEF SecretsInit, SecretTypes, Pieces, Profiles, Corrupt
  <2>3. ManifestTells /\ BundleTells /\ Counts /\ Alone
    BY DEF SecretsInit, ManifestTells, BundleTells, Counts, Alone, Idle
  <2>. QED
    BY <2>2, <2>3
    DEF SecretsInit, SecretsInv, Idle, Fits, Snapshots, Restores, Rests, Labelled
<1>2. SecretsInv => SecretsSound
  <2> SUFFICES ASSUME SecretsInv PROVE SecretsSound
    OBVIOUS
  <2>1. RestoredIsCaptured
    BY DEF SecretsInv, Labelled, Whole, Captured, RestoredIsCaptured
  <2>2. ManifestAfterBundle
    <3> SUFFICES ASSUME losses = 0, NEW s \in Snaps, manifest[s] # None /\ manifest[s].sealed
                 PROVE  /\ bundle[s] # None
                        /\ bundle[s].holds = {<<p, manifest[s].hash[p]>> :
                             p \in {q \in Pieces : manifest[s].kept[q] = "sealed"}}
      BY DEF ManifestAfterBundle
    <3>1. bundle[s] # None /\ bundle[s].holds = Captured(s, secret) /\ Tells(manifest[s], s)
      BY DEF SecretsInv, Counts, BundleTells, ManifestTells
    <3>2. {q \in Pieces : manifest[s].kept[q] = "sealed"} = secret
      BY <3>1 DEF Tells, SecretsInv, SecretTypes
    <3>3. manifest[s].hash = taken[s]
      BY <3>1 DEF Tells
    <3>. QED
      BY <3>1, <3>2, <3>3 DEF Captured
  <2>. QED
    BY <2>1, <2>2 DEF SecretsSound
<1>. QED
  BY <1>1, <1>2, SecretsStep, PTL DEF SecretsSpec

----------------------------------------------------------------------------
(***************************************************************************)
(* Proofs about Rescue: for any rescues, rows and bounds, what list shows  *)
(* alive can be entered, no group runs unseen unless its start was killed  *)
(* or gave up, and a rescue loads the rows that were named.                *)
(***************************************************************************)

Steps == {"none", "install", "launch", "boot", "probe", "entry", "record", "started", "failed"}
Groups == {"none", "starting", "up", "asked", "dead"}
StopRecord == [n : Nat, rescue : Rescues, at : {"term", "remove"}]

RescueTypes ==
  /\ step \in [Rescues -> Steps] /\ group \in [Rescues -> Groups]
  /\ entry \in [Rescues -> Rescues \cup {Absent}]
  /\ record \in [Rescues -> Rescues \cup {Absent}]
  /\ home = [r \in Rescues |-> home[r]] /\ source = [r \in Rescues |-> source[r]]
  /\ allow = [r \in Rescues |-> allow[r]]
  /\ stops \subseteq StopRecord

(* The record is written last, after the entry, and a group that lives is  *)
(* recorded, on its way there, or excused.                                 *)
Records ==
  \A r \in Rescues :
    /\ record[r] # Absent => step[r] = "started" /\ record[r] = r /\ entry[r] = r
    /\ step[r] = "record" => entry[r] = r

Groupless ==
  \A r \in Rescues :
    /\ step[r] \in {"none", "install", "launch", "failed"} /\ Alive(r) => r \in excused
    /\ step[r] = "started" /\ record[r] = Absent => ~Alive(r)

(* What is removed by a stop was started, and its group is gone by then:   *)
(* a second stop finds nothing to ask.                                     *)
StopsFollow ==
  \A s \in stops : step[s.rescue] = "started" /\ (s.at = "remove" => ~Alive(s.rescue))

Loads ==
  /\ \A r \in Rescues : step[r] = "none" => home[r] = Absent
  /\ LoadsWhatWasAllowed

RescueInv == RescueTypes /\ Records /\ Groupless /\ StopsFollow /\ Loads

(* What a removal, or nothing, does to the files of a rescue.              *)
FilesOnlyGo ==
  /\ UNCHANGED <<allow, source>>
  /\ home' = [r \in Rescues |-> home'[r]]
  /\ \A r \in Rescues : home'[r] \in {home[r], Absent}

LEMMA RemovedGoes ==
  ASSUME RescueInv, NEW r \in Rescues, Removed(r) \/ UNCHANGED fileVars, UNCHANGED <<allow, source>>
  PROVE  FilesOnlyGo
BY DEF Removed, fileVars, FilesOnlyGo, RescueInv, RescueTypes

LEMMA LoadsStay ==
  ASSUME RescueInv, FilesOnlyGo, \A r \in Rescues : step'[r] = "none" => step[r] = "none"
  PROVE  Loads'
<1>1. ASSUME NEW r \in Rescues, step'[r] = "none" PROVE home'[r] = Absent
  BY <1>1 DEF FilesOnlyGo, RescueInv, Loads
<1>2. LoadsWhatWasAllowed'
  <2> SUFFICES ASSUME NEW r \in Rescues, home'[r] # Absent
               PROVE  /\ \A i \in DOMAIN home'[r] :
                           /\ \E j \in DOMAIN source'[r].patch : source'[r].patch[j] = home'[r][i]
                           /\ \/ home'[r][i].id \in allow'[r]
                              \/ Bundle \in allow'[r] /\ home'[r][i].id \in source'[r].installed
                      /\ \A n \in allow'[r] \cap Rows : \E i \in DOMAIN home'[r] : home'[r][i].id = n
    BY DEF LoadsWhatWasAllowed
  <2>1. home'[r] = home[r] /\ allow'[r] = allow[r] /\ source'[r] = source[r]
    BY DEF FilesOnlyGo
  <2>. QED
    BY <2>1 DEF RescueInv, Loads, LoadsWhatWasAllowed
<1>. QED
  BY <1>1, <1>2 DEF Loads

(* The rows of the patch that are kept are those that were asked for.      *)
LEMMA StartLoads ==
  ASSUME RescueInv, NEW r \in Rescues, NEW names \in SUBSET (Rows \cup {Bundle}), NEW who,
         Start(r, who, names)
  PROVE  Loads'
<1>1. /\ allow' = [allow EXCEPT ![r] = names] /\ step'[r] # "none"
      /\ \A q \in Rescues \ {r} : step'[q] = step[q]
  BY DEF Start, StepsTo, RescueInv, RescueTypes
<1>2. allow'[r] = names /\ \A q \in Rescues \ {r} : allow'[q] = allow[q]
  BY <1>1 DEF RescueInv, RescueTypes
<1>3. CASE UNCHANGED <<home, source>>
  <2>1. home[r] = Absent
    BY DEF Start, RescueInv, Loads
  <2>2. ASSUME NEW q \in Rescues, home[q] # Absent PROVE allow'[q] = allow[q]
    BY <1>2, <2>1, <2>2
  <2>. QED
    BY <1>1, <1>3, <2>2 DEF RescueInv, Loads, LoadsWhatWasAllowed
<1>4. CASE /\ Unknown(names) = {}
           /\ home' = [home EXCEPT ![r] = Filter(patch, Wanted(names))]
           /\ source' = [source EXCEPT ![r] = [patch |-> patch, installed |-> installed]]
  <2> DEFINE f == Filter(patch, Wanted(names))
  <2>1. /\ home'[r] = f /\ source'[r] = [patch |-> patch, installed |-> installed]
        /\ \A q \in Rescues \ {r} : home'[q] = home[q] /\ source'[q] = source[q]
    BY <1>4 DEF RescueInv, RescueTypes
  <2>2. DOMAIN f = {i \in DOMAIN patch : patch[i].id \in Wanted(names)}
        /\ \A i \in DOMAIN f : f[i] = patch[i]
    BY DEF Filter, Restrict
  <2> HIDE DEF f
  <2>3. \A i \in DOMAIN f :
          /\ \E j \in DOMAIN patch : patch[j] = f[i]
          /\ f[i].id \in names \/ (Bundle \in names /\ f[i].id \in installed)
    BY <2>2 DEF Wanted
  <2>4. \A n \in names \cap Rows : \E i \in DOMAIN f : f[i].id = n
    BY <1>4, <2>2 DEF Unknown, Wanted
  <2>5. LoadsWhatWasAllowed'
    <3> SUFFICES ASSUME NEW q \in Rescues, home'[q] # Absent
                 PROVE  /\ \A i \in DOMAIN home'[q] :
                             /\ \E j \in DOMAIN source'[q].patch : source'[q].patch[j] = home'[q][i]
                             /\ \/ home'[q][i].id \in allow'[q]
                                \/ Bundle \in allow'[q] /\ home'[q][i].id \in source'[q].installed
                        /\ \A n \in allow'[q] \cap Rows : \E i \in DOMAIN home'[q] : home'[q][i].id = n
      BY DEF LoadsWhatWasAllowed
    <3>1. CASE q = r
      BY <1>2, <2>1, <2>3, <2>4, <3>1
    <3>2. CASE q # r
      <4>1. home'[q] = home[q] /\ source'[q] = source[q] /\ allow'[q] = allow[q]
        BY <1>2, <2>1, <3>2
      <4>. QED
        BY <4>1 DEF RescueInv, Loads, LoadsWhatWasAllowed
    <3>. QED
      BY <3>1, <3>2
  <2>. QED
    BY <1>1, <2>1, <2>5 DEF RescueInv, Loads
<1>. QED
  BY <1>3, <1>4 DEF Start

LEMMA StartStep ==
  ASSUME RescueInv, NEW r \in Rescues, NEW names \in SUBSET (Rows \cup {Bundle}), NEW who,
         Start(r, who, names)
  PROVE  RescueInv'
<1>1. /\ step[r] = "none" /\ \E t \in {"install", "launch", "failed"} : step' = [step EXCEPT ![r] = t]
      /\ UNCHANGED <<entry, record, group, stops, excused>>
      /\ allow' = [allow EXCEPT ![r] = names]
  BY DEF Start, StepsTo, groupVars
<1>2. RescueTypes'
  <2>1. /\ home' = home \/ \E f : home' = [home EXCEPT ![r] = f]
        /\ source' = source \/ \E f : source' = [source EXCEPT ![r] = f]
    BY DEF Start
  <2>2. home' = [q \in Rescues |-> home'[q]] /\ source' = [q \in Rescues |-> source'[q]]
    BY <2>1 DEF RescueInv, RescueTypes
  <2>. QED
    BY <1>1, <2>2 DEF RescueInv, RescueTypes, Steps
<1>3. Records' /\ Groupless' /\ StopsFollow'
  BY <1>1 DEF RescueInv, RescueTypes, Records, Groupless, StopsFollow, StopRecord, Alive
<1>. QED
  BY <1>2, <1>3, StartLoads DEF RescueInv

(* The steps of a start, from the installation to the probe.               *)
LEMMA BootSteps ==
  ASSUME RescueInv, NEW r \in Rescues,
         Install(r) \/ Spawn(r) \/ Boot(r) \/ BootFails(r) \/ BootTimeout(r)
  PROVE  RescueInv'
<1>1. \E t \in Steps \ {"none"}, g \in Groups :
        /\ step' = [step EXCEPT ![r] = t] /\ group' = [group EXCEPT ![r] = g]
        /\ t \in {"launch", "boot", "probe", "failed"}
        /\ t \in {"launch", "failed"} /\ g \in {"starting", "up", "asked"} => r \in excused'
  <2>1. group = [group EXCEPT ![r] = group[r]] /\ group[r] \in Groups
    BY DEF RescueInv, RescueTypes
  <2>2. CASE Install(r)
    <3>1. group' = group /\ excused' = excused /\ step[r] = "install"
          /\ \E t \in {"launch", "failed"} : step' = [step EXCEPT ![r] = t]
      BY <2>2 DEF Install, StepsTo, groupVars
    <3>2. Alive(r) => r \in excused
      BY <3>1 DEF RescueInv, Groupless
    <3>. QED
      BY <2>1, <3>1, <3>2 DEF Alive, Steps
  <2>3. CASE Spawn(r) \/ Boot(r)
    BY <2>3 DEF Spawn, Boot, StepsTo, Steps, Groups
  <2>4. CASE BootFails(r)
    BY <2>1, <2>4 DEF BootFails, StepsTo, Steps, groupVars
  <2>5. CASE BootTimeout(r)
    BY <2>5 DEF BootTimeout, StepsTo, Steps, Groups
  <2>. QED
    BY <2>2, <2>3, <2>4, <2>5
<1>2. /\ step[r] \in {"install", "launch", "boot"}
      /\ Removed(r) \/ UNCHANGED fileVars
      /\ UNCHANGED <<allow, source, stops>> /\ excused \subseteq excused'
  BY DEF Install, Spawn, Boot, BootFails, BootTimeout
<1>3. FilesOnlyGo
  BY <1>2, RemovedGoes
<1>4. /\ \A q \in Rescues : entry'[q] \in {entry[q], Absent} /\ record'[q] \in {record[q], Absent}
      /\ \A q \in Rescues \ {r} : entry'[q] = entry[q] /\ record'[q] = record[q]
      /\ entry' \in [Rescues -> Rescues \cup {Absent}]
      /\ record' \in [Rescues -> Rescues \cup {Absent}]
  BY <1>2 DEF Removed, fileVars, RescueInv, RescueTypes
<1>5. record[r] = Absent /\ record'[r] = Absent
  BY <1>2, <1>4 DEF RescueInv, Records
<1>6. PICK t \in Steps \ {"none"}, g \in Groups :
        /\ step' = [step EXCEPT ![r] = t] /\ group' = [group EXCEPT ![r] = g]
        /\ t \in {"launch", "boot", "probe", "failed"}
        /\ t \in {"launch", "failed"} /\ g \in {"starting", "up", "asked"} => r \in excused'
  BY <1>1
<1>7. /\ step'[r] = t /\ group'[r] = g
      /\ \A q \in Rescues \ {r} : step'[q] = step[q] /\ group'[q] = group[q]
  BY <1>6 DEF RescueInv, RescueTypes
<1>8. RescueTypes'
  BY <1>2, <1>3, <1>4, <1>6 DEF RescueInv, RescueTypes, FilesOnlyGo
<1>9. Records'
  BY <1>4, <1>5, <1>6, <1>7 DEF RescueInv, Records
<1>10. Groupless'
  BY <1>2, <1>4, <1>6, <1>7 DEF RescueInv, Groupless, Alive
<1>11. StopsFollow'
  BY <1>2, <1>6, <1>7 DEF RescueInv, RescueTypes, StopRecord, StopsFollow, Alive
<1>12. Loads'
  BY <1>3, <1>6, <1>7, LoadsStay
<1>. QED
  BY <1>8, <1>9, <1>10, <1>11, <1>12 DEF RescueInv

LEMMA WriteSteps ==
  ASSUME RescueInv, NEW r \in Rescues,
         WriteProbes(r) \/ WriteEntry(r) \/ WriteRecord(r) \/ KillStarter(r)
  PROVE  RescueInv'
<1>1. /\ UNCHANGED <<home, allow, source, stops, group>>
      /\ \E t \in {"entry", "record", "started", "failed"} : step' = [step EXCEPT ![r] = t]
      /\ step[r] \notin {"none", "started"}
      /\ excused \subseteq excused'
  BY DEF WriteProbes, WriteEntry, WriteRecord, KillStarter, StepsTo, fileVars, groupVars
<1>2. RescueTypes'
  BY <1>1 DEF WriteProbes, WriteEntry, WriteRecord, KillStarter, fileVars, RescueInv, RescueTypes, Steps
<1>3. Records'
  <2>1. CASE WriteProbes(r)
    BY <2>1 DEF WriteProbes, StepsTo, RescueInv, RescueTypes, Records
  <2>2. CASE WriteEntry(r)
    BY <2>2 DEF WriteEntry, StepsTo, RescueInv, RescueTypes, Records
  <2>3. CASE WriteRecord(r)
    BY <2>3 DEF WriteRecord, StepsTo, RescueInv, RescueTypes, Records
  <2>4. CASE KillStarter(r)
    BY <1>1, <2>4 DEF KillStarter, StepsTo, fileVars, RescueInv, RescueTypes, Records
  <2>. QED
    BY <2>1, <2>2, <2>3, <2>4
<1>4. Groupless'
  <2>1. CASE WriteProbes(r) \/ WriteEntry(r)
    BY <1>1, <2>1 DEF WriteProbes, WriteEntry, StepsTo, RescueInv, RescueTypes, Groupless, Alive
  <2>2. CASE WriteRecord(r)
    BY <1>1, <2>2, RescueAssumption
    DEF WriteRecord, StepsTo, RescueInv, RescueTypes, Groupless, Alive
  <2>3. CASE KillStarter(r)
    BY <1>1, <2>3 DEF KillStarter, StepsTo, fileVars, RescueInv, RescueTypes, Groupless, Alive
  <2>. QED
    BY <2>1, <2>2, <2>3
<1>5. StopsFollow'
  BY <1>1 DEF RescueInv, RescueTypes, StopRecord, StopsFollow, Alive
<1>6. FilesOnlyGo
  BY <1>1 DEF FilesOnlyGo, RescueInv, RescueTypes
<1>7. \A q \in Rescues : step'[q] = "none" => step[q] = "none"
  BY <1>1 DEF RescueInv, RescueTypes
<1>8. Loads'
  BY <1>6, <1>7, LoadsStay
<1>. QED
  BY <1>2, <1>3, <1>4, <1>5, <1>8 DEF RescueInv

(* A group ends, or is asked to: none comes alive.                         *)
LEMMA GroupSteps ==
  ASSUME RescueInv, NEW r \in Rescues,
         KillerFires(r) \/ Exit(r) \/ Stop(r) \/ \E s \in stops : StopKills(s) \/ StopKilled(s)
  PROVE  RescueInv'
<1>1. UNCHANGED <<step, home, entry, record, allow, source, excused>>
  BY DEF KillerFires, Exit, Stop, StopKills, StopKilled, fileVars
<1>2. group' \in [Rescues -> Groups] /\ \A q \in Rescues : Alive(q)' => Alive(q)
  BY DEF KillerFires, Exit, Stop, StopKills, StopKilled, groupVars, Alive, Groups, RescueInv,
         RescueTypes, StopRecord
<1>3. stops' \subseteq StopRecord /\ StopsFollow'
  <2>1. CASE KillerFires(r) \/ Exit(r)
    BY <1>1, <1>2, <2>1 DEF KillerFires, Exit, RescueInv, RescueTypes, StopsFollow, StopRecord
  <2>2. CASE Stop(r)
    <3>1. PICK n \in 1..MaxStops : stops' = stops \cup {[n |-> n, rescue |-> r, at |-> "term"]}
      BY <2>2 DEF Stop
    <3>2. [n |-> n, rescue |-> r, at |-> "term"] \in StopRecord /\ step[r] = "started"
      BY <2>2 DEF Stop, StopRecord, RescueInv, Records
    <3>. QED
      BY <1>1, <1>2, <3>1, <3>2 DEF RescueInv, RescueTypes, StopsFollow, StopRecord
  <2>3. ASSUME NEW s \in stops, StopKilled(s)
        PROVE  stops' \subseteq StopRecord /\ StopsFollow'
    BY <1>1, <1>2, <2>3 DEF StopKilled, RescueInv, RescueTypes, StopsFollow, StopRecord
  <2>4. ASSUME NEW s \in stops, StopKills(s)
        PROVE  stops' \subseteq StopRecord /\ StopsFollow'
    <3> DEFINE z == [s EXCEPT !.at = "remove"]
    <3>1. z \in StopRecord /\ z.rescue = s.rescue /\ stops' = (stops \ {s}) \cup {z}
      BY <2>4 DEF StopKills, RescueInv, RescueTypes, StopRecord
    <3>2. ~Alive(s.rescue)' /\ step[s.rescue] = "started"
      BY <2>4 DEF StopKills, Alive, RescueInv, RescueTypes, StopRecord, StopsFollow
    <3> HIDE DEF z
    <3>3. stops' \subseteq StopRecord
      BY <3>1 DEF RescueInv, RescueTypes
    <3>4. ASSUME NEW y \in stops'
          PROVE  step'[y.rescue] = "started" /\ (y.at = "remove" => ~Alive(y.rescue)')
      BY <1>1, <1>2, <3>1, <3>2, <3>4 DEF RescueInv, RescueTypes, StopsFollow, StopRecord
    <3>. QED
      BY <3>3, <3>4 DEF StopsFollow
  <2>. QED
    BY <2>1, <2>2, <2>3, <2>4
<1>4. RescueTypes' /\ Records' /\ Groupless'
  BY <1>1, <1>2, <1>3 DEF RescueInv, RescueTypes, Records, Groupless
<1>5. FilesOnlyGo
  BY <1>1 DEF FilesOnlyGo, RescueInv, RescueTypes
<1>6. Loads'
  BY <1>1, <1>5, LoadsStay
<1>. QED
  BY <1>3, <1>4, <1>6 DEF RescueInv

LEMMA StopRemovesStep ==
  ASSUME RescueInv, NEW s \in stops, StopRemoves(s)
  PROVE  RescueInv'
<1> DEFINE r == s.rescue
<1>1. r \in Rescues /\ step[r] = "started" /\ ~Alive(r)
  BY DEF StopRemoves, RescueInv, RescueTypes, StopRecord, StopsFollow
<1>2. Removed(r) /\ stops' = stops \ {s} /\ UNCHANGED <<step, allow, source, excused, group>>
  BY DEF StopRemoves, groupVars
<1> HIDE DEF r
<1>3. FilesOnlyGo
  BY <1>1, <1>2, RemovedGoes
<1>4. Loads'
  BY <1>2, <1>3, LoadsStay
<1>5. RescueTypes' /\ Records'
  BY <1>1, <1>2, <1>3 DEF Removed, RescueInv, RescueTypes, Records, FilesOnlyGo
<1>6. Groupless'
  BY <1>1, <1>2 DEF Removed, RescueInv, RescueTypes, Groupless, Alive
<1>7. StopsFollow'
  BY <1>2 DEF RescueInv, StopsFollow, Alive
<1>. QED
  BY <1>4, <1>5, <1>6, <1>7 DEF RescueInv

LEMMA RescueStep == RescueInv /\ [RescueNext]_rescueVars => RescueInv'
<1> SUFFICES ASSUME RescueInv, [RescueNext]_rescueVars PROVE RescueInv'
  OBVIOUS
<1>1. CASE EditPatch \/ UNCHANGED rescueVars
  <2>1. UNCHANGED <<step, home, entry, record, allow, source, excused, group, stops>>
    BY <1>1 DEF EditPatch, rescueVars, fileVars, groupVars
  <2>2. FilesOnlyGo
    BY <2>1 DEF FilesOnlyGo, RescueInv, RescueTypes
  <2>3. Loads'
    BY <2>1, <2>2, LoadsStay
  <2>. QED
    BY <2>1, <2>3 DEF RescueInv, RescueTypes, Records, Groupless, StopsFollow, Alive
<1>2. ASSUME NEW s \in stops, StopKills(s) \/ StopKilled(s) PROVE RescueInv'
  <2>1. s.rescue \in Rescues
    BY DEF RescueInv, RescueTypes, StopRecord
  <2>. QED
    BY <1>2, <2>1, GroupSteps
<1>. QED
  BY <1>1, <1>2, StartStep, BootSteps, WriteSteps, GroupSteps, StopRemovesStep DEF RescueNext

(* commands/rescue.ts: what list shows alive can be entered, no group runs *)
(* unseen unless its start was killed or gave up, and a rescue loads the   *)
(* rows that were named, for any rescues, rows and bounds.                 *)
THEOREM RescueIsHonest == RescueSpec => []RescueHonest
<1>1. RescueInit => RescueInv
  BY DEF RescueInit, RescueInv, RescueTypes, Records, Groupless, StopsFollow, Loads,
         LoadsWhatWasAllowed, Steps, Groups, Alive
<1>2. RescueInv => RescueHonest
  <2> SUFFICES ASSUME RescueInv PROVE RescueHonest
    OBVIOUS
  <2>1. AliveIsEntered
    BY DEF RescueInv, Records, AliveIsEntered, Entered, ListedAlive, Listed
  <2>2. NoStrayGroup
    BY DEF RescueInv, RescueTypes, Steps, Groupless, NoStrayGroup, Listed
  <2>. QED
    BY <2>1, <2>2 DEF RescueInv, Loads, RescueHonest
<1>. QED
  BY <1>1, <1>2, RescueStep, PTL DEF RescueSpec

----------------------------------------------------------------------------
(***************************************************************************)
(* Proofs about Upgrades: for any servers, intervals and edits, the checks *)
(* that are started are apart, results speak of the stable point, and of   *)
(* two versions of a plugin exactly one is newer.                          *)
(***************************************************************************)

(* A set of numbers that is not empty has a least one.                     *)
LEMMA LeastExists ==
  ASSUME NEW T \in SUBSET Nat, T # {}
  PROVE  \E m \in T : \A k \in T : m <= k
<1> DEFINE R == {ss \in Nat \X Nat : ss[1] < ss[2]}
<1>1. IsWellFoundedOn(R, Nat)
  BY NatLessThanWellFounded DEF OpToRel
<1>2. \E m \in T : \A k \in T : ~(<<k, m>> \in R)
  <2> HIDE DEF R
  <2>. QED
   BY <1>1, WFMin
<1>3. ASSUME NEW m \in T, NEW k \in T, k < m PROVE <<k, m>> \in R
  BY <1>3
<1> HIDE DEF R
<1>4. PICK m \in T : \A k \in T : ~(<<k, m>> \in R)
  BY <1>2
<1>5. ASSUME NEW k \in T PROVE m <= k
  <2>1. ~(k < m)
    BY <1>3, <1>4
  <2>. QED
    BY <2>1
<1>. QED
  BY <1>5

LEMMA ShortestIsLeast == Shortest \in Hours /\ \A h \in Hours : Shortest <= h
<1>1. \E h \in Hours : \A g \in Hours : h <= g
  BY LeastExists, UpgradesAssumption
<1>. QED
  BY <1>1 DEF Shortest

----------------------------------------------------------------------------
(* Versions, of any length and with any numbers.                         *)
Identifiers == {"number", "word"} \X Nat

LEMMA IdentifiersOrdered ==
  ASSUME NEW x \in Identifiers, NEW y \in Identifiers, x # y
  PROVE  NewerId(x, y) <=> ~NewerId(y, x)
BY DEF Identifiers, NewerId

LEMMA FirstDifferenceFound ==
  ASSUME NEW x \in Seq(Identifiers), NEW y \in Seq(Identifiers), x # y
  PROVE  \E i \in Nat \ {0} :
           /\ FirstDifference(x, y) = i /\ FirstDifference(y, x) = i
           /\ i <= Len(x) \/ i <= Len(y)
           /\ i <= Len(x) /\ i <= Len(y) => x[i] # y[i]
<1> DEFINE Differ(u, v) ==
             {i \in 1..(IF Len(u) > Len(v) THEN Len(u) ELSE Len(v)) :
                i > Len(u) \/ i > Len(v) \/ (i <= Len(u) /\ i <= Len(v) /\ u[i] # v[i])}
           First(D) == IF D = {} THEN 0 ELSE CHOOSE i \in D : \A j \in D : i <= j
<1>1. FirstDifference(x, y) = First(Differ(x, y)) /\ FirstDifference(y, x) = First(Differ(y, x))
  BY DEF FirstDifference
<1>2. Len(x) \in Nat /\ Len(y) \in Nat
  OBVIOUS
<1>3. Differ(x, y) = Differ(y, x)
  BY <1>2
<1>4. Differ(x, y) # {}
  <2>1. CASE Len(x) # Len(y)
    <3>1. (IF Len(x) > Len(y) THEN Len(x) ELSE Len(y)) \in Differ(x, y)
      BY <1>2, <2>1
    <3>. QED
      BY <3>1
  <2>2. CASE Len(x) = Len(y)
    <3>1. PICK i \in 1..Len(x) : x[i] # y[i]
      BY <2>2
    <3>2. i \in Differ(x, y)
      BY <1>2, <2>2, <3>1
    <3>. QED
      BY <3>2
  <2>. QED
    BY <2>1, <2>2
<1>5. Differ(x, y) \subseteq Nat
  BY <1>2
<1>6. First(Differ(x, y)) \in Differ(x, y)
  <2> HIDE DEF Differ
  <2>1. \E i \in Differ(x, y) : \A j \in Differ(x, y) : i <= j
    BY <1>4, <1>5, LeastExists
  <2>. QED
    BY <1>4, <2>1
<1>7. ASSUME NEW i \in Differ(x, y)
      PROVE  /\ i \in Nat \ {0} /\ (i <= Len(x) \/ i <= Len(y))
             /\ i <= Len(x) /\ i <= Len(y) => x[i] # y[i]
  BY <1>2
<1> HIDE DEF Differ, First
<1>. QED
  BY <1>1, <1>3, <1>6, <1>7

LEMMA PreReleasesOrdered ==
  ASSUME NEW x \in Seq(Identifiers), NEW y \in Seq(Identifiers)
  PROVE  IF x = y THEN ~NewerPre(x, y) ELSE NewerPre(x, y) <=> ~NewerPre(y, x)
<1>1. CASE x = <<>> \/ y = <<>>
  <2>1. NewerPre(x, y) = (x = <<>> /\ y # <<>>) /\ NewerPre(y, x) = (y = <<>> /\ x # <<>>)
    BY <1>1 DEF NewerPre
  <2>. QED
    BY <1>1, <2>1
<1>2. CASE x = y /\ x # <<>>
  BY <1>2 DEF NewerPre, FirstDifference
<1>3. CASE x # y /\ x # <<>> /\ y # <<>>
  <2>1. PICK i \in Nat \ {0} :
          /\ FirstDifference(x, y) = i /\ FirstDifference(y, x) = i
          /\ i <= Len(x) \/ i <= Len(y)
          /\ i <= Len(x) /\ i <= Len(y) => x[i] # y[i]
    BY <1>3, FirstDifferenceFound
  <2>2. CASE i <= Len(x) /\ i <= Len(y)
    <3>1. x[i] \in Identifiers /\ y[i] \in Identifiers /\ x[i] # y[i]
      BY <2>1, <2>2
    <3>2. (NewerPre(x, y) <=> NewerId(x[i], y[i])) /\ (NewerPre(y, x) <=> NewerId(y[i], x[i]))
      BY <1>3, <2>1, <2>2 DEF NewerPre
    <3>. QED
      BY <1>3, <3>1, <3>2, IdentifiersOrdered
  <2>3. CASE ~(i <= Len(x) /\ i <= Len(y))
    <3>1. (NewerPre(x, y) <=> i > Len(y)) /\ (NewerPre(y, x) <=> i > Len(x))
      BY <1>3, <2>1, <2>3 DEF NewerPre
    <3>2. i > Len(y) <=> ~(i > Len(x))
      BY <2>1, <2>3
    <3>. QED
      BY <1>3, <3>1, <3>2
  <2>. QED
    BY <2>2, <2>3
<1>. QED
  BY <1>1, <1>2, <1>3

LEMMA VersionsOrdered ==
  ASSUME NEW a \in Versions, NEW b \in Versions
  PROVE  /\ ~(IsNewer(a, b) /\ IsNewer(b, a))
         /\ a # b => IsNewer(a, b) \/ IsNewer(b, a)
<1>1. /\ a.core \in Nat /\ b.core \in Nat /\ a.pre \in Seq(Identifiers) /\ b.pre \in Seq(Identifiers)
      /\ a = [core |-> a.core, pre |-> a.pre] /\ b = [core |-> b.core, pre |-> b.pre]
  <2>1. Numbers \cup Words \subseteq Identifiers
    BY DEF Numbers, Words, Identifiers
  <2>2. ASSUME NEW x \in PreReleases PROVE x \in Seq(Identifiers)
    <3>1. PICK n \in 0..2 : x \in [1..n -> Numbers \cup Words]
      BY DEF PreReleases
    <3>. QED
      BY <2>1, <3>1
  <2>. QED
    BY <2>2 DEF Versions
<1>2. a # Unset /\ b # Unset
  BY UpgradesAssumption
<1>. QED
  BY <1>1, <1>2, PreReleasesOrdered DEF IsNewer

----------------------------------------------------------------------------
(* The ticks.                                                            *)
PolicyRecord == [enabled : BOOLEAN, hours : Nat, nextAt : Nat]

TickTypes ==
  /\ clock \in Nat /\ policy \in PolicyRecord
  /\ tick \in [Servers -> [at : {"idle", "save", "start"}, policy : PolicyRecord]]
  /\ lastStart \in Nat \cup {Unset}

(* The time of the next check is an interval behind the last one, wherever *)
(* a server may have died; a tick under way holds the lock and its copy is *)
(* the policy on disk, which it has moved on from a time that has come.    *)
TickInv ==
  /\ TickTypes
  /\ policy.enabled => policy.hours \in Hours
  /\ lastStart # Unset => lastStart <= clock /\ lastStart + Shortest <= policy.nextAt
  /\ \A s \in Servers : tick[s].at # "idle" =>
       /\ guard = s /\ tick[s].policy = policy /\ policy.enabled
       /\ tick[s].at = "save" => policy.nextAt <= clock
       /\ tick[s].at = "start" =>
            /\ Counted(policy) \in Nat /\ Counted(policy) <= clock
            /\ lastStart # Unset => Counted(policy) - lastStart >= Shortest

(* The checks and their results.                                         *)
CheckRecord ==
  [at : Servers \cup {Unset}, profile : Nat \cup {Unset}, lab : (Nat \X Nat) \cup {Unset},
   row : {"none", "query", "failed", "skipped", "try", "trying", "verified", "saved"}]

(* A check that goes on found the stable point; a lab is of what was there *)
(* or of what is no longer the stable point, which never comes back.       *)
CheckHonest(x, p, l) ==
  /\ x.row # "none" => x.profile = 0
  /\ x.row \in {"trying", "verified"} =>
       /\ x.lab \in Nat \X Nat
       /\ p = 0 => x.lab[1] = 0
       /\ l = 0 => x.lab[2] = 0

ResultsInv ==
  /\ official \in Nat /\ local \in Nat /\ sourceEdits \in Nat
  /\ checks \in Seq(CheckRecord)
  /\ \A n \in DOMAIN checks : CheckHonest(checks[n], official, local)
  /\ current \in Versions \cup {Unset} /\ latest \in Versions
  /\ ResultsAreOfTheBaseline

TrialInv ==
  /\ trial \in [at : {"none", "installed", "created", "marked", "ended", "failed"},
                marked : BOOLEAN, verified : BOOLEAN]
  /\ trial.at = "marked" => trial.marked
  /\ TrialsAreMarked

UpgradesInv == TickInv /\ ResultsInv /\ TrialInv

----------------------------------------------------------------------------
(* The actions.                                                          *)
LEMMA SetPolicyStep ==
  ASSUME TickInv, NEW on \in BOOLEAN, NEW h \in Hours, SetPolicy(on, h)
  PROVE  TickInv'
<1>1. /\ guard = Unset /\ policy' = [enabled |-> on, hours |-> h, nextAt |-> clock + h]
      /\ UNCHANGED <<clock, guard, tick, lastStart>>
  BY DEF SetPolicy
<1>2. h \in Nat /\ Shortest \in Nat /\ Shortest <= h
  BY ShortestIsLeast, UpgradesAssumption
<1>3. policy' \in PolicyRecord /\ policy'.hours = h /\ policy'.nextAt = clock + h
  BY <1>1, <1>2 DEF TickInv, TickTypes, PolicyRecord
<1>4. \A s \in Servers : tick[s].at = "idle"
  BY <1>1, UpgradesAssumption DEF TickInv
<1>5. lastStart # Unset => lastStart \in Nat /\ lastStart <= clock /\ lastStart + Shortest <= policy'.nextAt
  BY <1>2, <1>3 DEF TickInv, TickTypes
<1>. QED
  BY <1>1, <1>3, <1>4, <1>5 DEF TickInv, TickTypes

LEMMA TickReadsStep ==
  ASSUME TickInv, NEW s \in Servers, TickReads(s) PROVE TickInv'
<1>1. /\ guard = Unset /\ guard' = s /\ policy.enabled /\ policy.nextAt <= clock
      /\ tick' = [tick EXCEPT ![s] = [at |-> "save", policy |-> policy]]
      /\ UNCHANGED <<clock, policy, lastStart>>
  BY DEF TickReads, Due
<1>2. \A x \in Servers : tick[x].at = "idle"
  BY <1>1, UpgradesAssumption DEF TickInv
<1>3. TickTypes'
  BY <1>1 DEF TickInv, TickTypes
<1>. QED
  BY <1>1, <1>2, <1>3 DEF TickInv, TickTypes

LEMMA TickSavesStep ==
  ASSUME TickInv, NEW s \in Servers, TickSaves(s) PROVE TickInv'
<1> DEFINE p == [tick[s].policy EXCEPT !.nextAt = clock + tick[s].policy.hours]
<1>1. /\ tick[s].at = "save" /\ policy' = p
      /\ tick' = [tick EXCEPT ![s] = [at |-> "start", policy |-> p]]
      /\ UNCHANGED <<clock, guard, lastStart>>
  BY DEF TickSaves
<1>2. /\ guard = s /\ tick[s].policy = policy /\ policy.enabled /\ policy.nextAt <= clock
      /\ policy \in PolicyRecord /\ policy.hours \in Hours /\ clock \in Nat
  BY <1>1 DEF TickInv, TickTypes
<1>3. policy.hours \in Nat /\ Shortest \in Nat /\ Shortest <= policy.hours
  BY <1>2, ShortestIsLeast, UpgradesAssumption
<1>4. /\ p \in PolicyRecord /\ p.enabled /\ p.hours = policy.hours
      /\ p.nextAt = clock + policy.hours /\ p.nextAt - p.hours = clock
  BY <1>2, <1>3 DEF PolicyRecord
<1> HIDE DEF p
<1>5. lastStart # Unset =>
        /\ lastStart \in Nat /\ lastStart <= clock
        /\ lastStart + Shortest <= p.nextAt /\ clock - lastStart >= Shortest
  BY <1>2, <1>3, <1>4 DEF TickInv, TickTypes, PolicyRecord
<1>6. TickTypes'
  BY <1>1, <1>4 DEF TickInv, TickTypes
<1>7. \A x \in Servers : tick'[x].at # "idle" => x = s
  BY <1>1, <1>2 DEF TickInv, TickTypes
<1>8. tick'[s] = [at |-> "start", policy |-> p]
  BY <1>1 DEF TickInv, TickTypes
<1>9. Counted(policy') = clock
  BY <1>1, <1>4 DEF Counted
<1>. QED
  BY <1>1, <1>2, <1>4, <1>5, <1>6, <1>7, <1>8, <1>9 DEF TickInv

LEMMA TickStartsStep ==
  ASSUME TickInv, NEW s \in Servers, TickStarts(s) PROVE TickInv' /\ CheckMayStart
<1>1. /\ tick[s].at = "start" /\ tick' = [tick EXCEPT ![s].at = "idle"]
      /\ policy' = tick[s].policy /\ lastStart' \in {lastStart, Counted(tick[s].policy)}
      /\ UNCHANGED clock
  BY DEF TickStarts
<1>2. /\ guard = s /\ tick[s].policy = policy /\ policy.enabled
      /\ Counted(policy) \in Nat /\ Counted(policy) <= clock
      /\ lastStart # Unset => Counted(policy) - lastStart >= Shortest
      /\ policy \in PolicyRecord /\ policy.hours \in Hours /\ clock \in Nat
  BY <1>1 DEF TickInv, TickTypes
<1>3. policy.hours \in Nat /\ policy.nextAt \in Nat /\ Shortest \in Nat /\ Shortest <= policy.hours
  BY <1>2, ShortestIsLeast, UpgradesAssumption DEF PolicyRecord
<1>4. lastStart' # Unset => lastStart' <= clock /\ lastStart' + Shortest <= policy.nextAt
  <2>1. Counted(policy) + Shortest <= policy.nextAt
    BY <1>2, <1>3 DEF Counted
  <2>. QED
    BY <1>1, <1>2, <2>1 DEF TickInv
<1>5. \A x \in Servers : tick'[x].at = "idle"
  BY <1>1, <1>2 DEF TickInv, TickTypes
<1>6. TickTypes'
  BY <1>1, <1>2 DEF TickInv, TickTypes
<1>. QED
  BY <1>1, <1>2, <1>4, <1>5, <1>6 DEF TickInv, CheckMayStart

LEMMA ServerDiesStep ==
  ASSUME TickInv, NEW s \in Servers, ServerDies(s) PROVE TickInv'
<1>1. /\ tick' = [tick EXCEPT ![s].at = "idle"] /\ guard' = IF guard = s THEN Unset ELSE guard
      /\ UNCHANGED <<clock, policy, lastStart>>
  BY DEF ServerDies
<1>2. TickTypes'
  BY <1>1 DEF TickInv, TickTypes
<1>3. ASSUME NEW x \in Servers, tick'[x].at # "idle"
      PROVE  x # s /\ tick'[x] = tick[x] /\ guard' = x
  BY <1>1, <1>3 DEF TickInv, TickTypes
<1>. QED
  BY <1>1, <1>2, <1>3 DEF TickInv, Counted

(* What the clock, the edits and the checks do is nothing to the ticks.    *)
LEMMA TickStands ==
  ASSUME TickInv, clock' \in Nat, clock <= clock', UNCHANGED tickVars PROVE TickInv'
<1>1. UNCHANGED <<policy, guard, tick, lastStart>> /\ TickTypes'
  BY DEF TickInv, TickTypes, tickVars
<1>2. clock \in Nat /\ policy.nextAt \in Nat /\ (lastStart # Unset => lastStart \in Nat)
  BY DEF TickInv, TickTypes, PolicyRecord
<1>3. lastStart' # Unset => lastStart' <= clock' /\ lastStart' + Shortest <= policy'.nextAt
  BY <1>1, <1>2 DEF TickInv
<1>4. ASSUME NEW s \in Servers, tick'[s].at # "idle"
      PROVE  /\ guard' = s /\ tick'[s].policy = policy' /\ policy'.enabled
             /\ tick'[s].at = "save" => policy'.nextAt <= clock'
             /\ tick'[s].at = "start" =>
                  /\ Counted(policy') \in Nat /\ Counted(policy') <= clock'
                  /\ lastStart' # Unset => Counted(policy') - lastStart' >= Shortest
  <2>1. tick[s].at # "idle" /\ Counted(policy') = Counted(policy)
    BY <1>1, <1>4 DEF Counted
  <2>2. tick[s].at = "start" => Counted(policy) \in Nat /\ Counted(policy) <= clock
    BY <2>1 DEF TickInv
  <2>3. tick[s].at = "save" => policy.nextAt <= clock
    BY <2>1 DEF TickInv
  <2>. QED
    BY <1>1, <1>2, <2>1, <2>2, <2>3 DEF TickInv
<1>. QED
  BY <1>1, <1>3, <1>4 DEF TickInv

LEMMA TickStep ==
  ASSUME TickInv, [UpgradesNext]_upgradesVars PROVE TickInv'
<1>1. CASE \/ \E n \in DOMAIN checks :
                Analyse(n) \/ Query(n) \/ TryCreates(n) \/ TryEnds(n) \/ SaveResult(n)
           \/ TrialStep \/ EditSource \/ UNCHANGED upgradesVars
  <2>1. UNCHANGED <<clock, tickVars>>
    BY <1>1 DEF Analyse, Query, TryCreates, TryEnds, SaveResult, checkUnchanged, TrialStep, EditSource,
                upgradesVars
  <2>. QED
    BY <2>1, TickStands DEF TickInv, TickTypes
<1>2. CASE Hour
  BY <1>2, TickStands DEF Hour, TickInv, TickTypes
<1>. QED
  BY <1>1, <1>2, SetPolicyStep, TickReadsStep, TickSavesStep, TickStartsStep, ServerDiesStep
  DEF UpgradesNext

(* One check moves on by itself.                                           *)
LEMMA CheckMoves ==
  ASSUME ResultsInv, NEW n \in DOMAIN checks, NEW x \in CheckRecord, checks' = [checks EXCEPT ![n] = x],
         CheckHonest(x, official, local), UNCHANGED <<official, local, sourceEdits, current, latest>>,
         ResultsAreOfTheBaseline'
  PROVE  ResultsInv' /\ Len(checks') = Len(checks)
<1>1. checks' \in Seq(CheckRecord) /\ Len(checks') = Len(checks) /\ DOMAIN checks' = DOMAIN checks
  BY DEF ResultsInv
<1>2. \A m \in DOMAIN checks' : CheckHonest(checks'[m], official, local)
  BY <1>1 DEF ResultsInv
<1>. QED
  BY <1>1, <1>2 DEF ResultsInv, CheckHonest

LEMMA CheckStep ==
  ASSUME ResultsInv, NEW n \in DOMAIN checks,
         Analyse(n) \/ Query(n) \/ TryCreates(n) \/ TryEnds(n) \/ SaveResult(n)
  PROVE  ResultsInv' /\ Len(checks') = Len(checks)
<1>0. /\ checks[n] \in CheckRecord /\ CheckHonest(checks[n], official, local)
      /\ official \in Nat /\ local \in Nat
      /\ UNCHANGED <<official, local, sourceEdits, current, latest>>
  BY DEF ResultsInv, Analyse, Query, TryCreates, TryEnds, SaveResult, checkUnchanged, sourceVars
<1> DEFINE Moves(x) == checks' = [checks EXCEPT ![n] = x]
<1>1. CASE Analyse(n)
  <2> DEFINE x == [checks[n] EXCEPT !.row = "query", !.profile = official]
             y == [checks[n] EXCEPT !.at = Unset]
  <2>1. (official = 0 /\ Moves(x)) \/ Moves(y)
    BY <1>1 DEF Analyse, Stops
  <2>2. UNCHANGED results
    BY <1>1 DEF Analyse
  <2>3. x \in CheckRecord /\ y \in CheckRecord /\ CheckHonest(y, official, local)
    BY <1>0 DEF CheckRecord, CheckHonest
  <2>4. official = 0 => CheckHonest(x, official, local)
    BY <1>0 DEF CheckRecord, CheckHonest
  <2> HIDE DEF x, y
  <2>5. ResultsAreOfTheBaseline'
    BY <2>2 DEF ResultsInv, ResultsAreOfTheBaseline
  <2>. QED
    BY <1>0, <2>1, <2>3, <2>4, <2>5, CheckMoves
<1>2. CASE Query(n) \/ TryEnds(n)
  <2> DEFINE x(r) == [checks[n] EXCEPT !.row = r]
  <2>1. PICK r \in {"failed", "skipped", "try", "verified"} :
          Moves(x(r)) /\ (r = "verified" => checks[n].row = "trying") /\ checks[n].row # "none"
    BY <1>2 DEF Query, TryEnds, Row
  <2>2. UNCHANGED results
    BY <1>2 DEF Query, TryEnds
  <2>3. x(r) \in CheckRecord /\ CheckHonest(x(r), official, local)
    BY <1>0, <2>1 DEF CheckRecord, CheckHonest
  <2>4. ResultsAreOfTheBaseline'
    BY <2>2 DEF ResultsInv, ResultsAreOfTheBaseline
  <2> HIDE DEF x
  <2>. QED
    BY <1>0, <2>1, <2>3, <2>4, CheckMoves
<1>3. CASE TryCreates(n)
  <2> DEFINE x == [checks[n] EXCEPT !.row = "trying", !.lab = <<official, local>>]
  <2>1. Moves(x) /\ UNCHANGED results /\ checks[n].row = "try"
    BY <1>3 DEF TryCreates
  <2>2. x \in CheckRecord /\ CheckHonest(x, official, local)
    BY <1>0, <2>1 DEF CheckRecord, CheckHonest
  <2>3. ResultsAreOfTheBaseline'
    BY <2>1 DEF ResultsInv, ResultsAreOfTheBaseline
  <2> HIDE DEF x
  <2>. QED
    BY <1>0, <2>1, <2>2, <2>3, CheckMoves
<1>4. CASE SaveResult(n)
  <2> DEFINE x == [checks[n] EXCEPT !.row = "saved"]
             y == [checks[n] EXCEPT !.at = Unset]
             kept == [row |-> checks[n].row, lab |-> checks[n].lab]
  <2>1. \/ /\ official = checks[n].profile /\ local = 0
           /\ results' = results \cup {kept} /\ Moves(x)
        \/ Moves(y) /\ UNCHANGED results
    BY <1>4 DEF SaveResult, Row, Stops
  <2>2. checks[n].row \in {"failed", "skipped", "verified"}
    BY <1>4 DEF SaveResult, Settled
  <2>3. /\ x \in CheckRecord /\ y \in CheckRecord
        /\ CheckHonest(x, official, local) /\ CheckHonest(y, official, local)
    BY <1>0, <2>2 DEF CheckRecord, CheckHonest
  <2>4. official = checks[n].profile /\ local = 0 /\ kept.row = "verified" => kept.lab = <<0, 0>>
    BY <1>0, <2>2 DEF CheckRecord, CheckHonest
  <2>5. ResultsAreOfTheBaseline'
    BY <2>1, <2>4 DEF ResultsInv, ResultsAreOfTheBaseline
  <2> HIDE DEF x, y, kept
  <2>. QED
    BY <1>0, <2>1, <2>3, <2>5, CheckMoves
<1>. QED
  BY <1>1, <1>2, <1>3, <1>4

(* Of the ticks, a start appends a check that has not begun; a server that *)
(* dies takes its checks with it.                                          *)
LEMMA ChecksChange ==
  ASSUME ResultsInv, NEW s \in Servers, TickStarts(s) \/ ServerDies(s)
  PROVE  ResultsInv' /\ (ServerDies(s) => Len(checks') = Len(checks))
<1>0. checks \in Seq(CheckRecord) /\ UNCHANGED <<official, local, sourceEdits, current, latest, results>>
  BY DEF ResultsInv, TickStarts, ServerDies, sourceVars
<1>1. ASSUME UNCHANGED checks PROVE ResultsInv'
  BY <1>0, <1>1 DEF ResultsInv, ResultsAreOfTheBaseline
<1>2. ASSUME checks' = Append(checks, [Check EXCEPT !.at = s]) PROVE ResultsInv'
  <2> DEFINE new == [Check EXCEPT !.at = s]
  <2>1. new \in CheckRecord /\ CheckHonest(new, official, local)
    BY DEF Check, CheckRecord, CheckHonest
  <2> HIDE DEF new
  <2>2. checks' = Append(checks, new)
    BY <1>2 DEF new
  <2>3. checks' \in Seq(CheckRecord) /\ DOMAIN checks = 1..Len(checks) /\ Len(checks) \in Nat
    BY <1>0, <2>1, <2>2
  <2>4. DOMAIN checks' = 1..(Len(checks) + 1)
    BY <1>0, <2>2
  <2>5. ASSUME NEW n \in DOMAIN checks'
        PROVE  checks'[n] = new \/ (n \in DOMAIN checks /\ checks'[n] = checks[n])
    BY <1>0, <2>2, <2>3, <2>4
  <2>6. \A n \in DOMAIN checks' : CheckHonest(checks'[n], official, local)
    BY <2>1, <2>5 DEF ResultsInv
  <2>. QED
    BY <1>0, <2>3, <2>6 DEF ResultsInv, ResultsAreOfTheBaseline, CheckHonest
<1>3. CASE ServerDies(s)
  <2>1. checks' = [n \in DOMAIN checks |->
                     IF checks[n].row = "saved" \/ checks[n].at # s THEN checks[n]
                     ELSE [checks[n] EXCEPT !.at = Unset]]
    BY <1>3 DEF ServerDies
  <2>2. DOMAIN checks' = DOMAIN checks
    BY <2>1
  <2>3. ASSUME NEW n \in DOMAIN checks
        PROVE  checks'[n] \in CheckRecord /\ CheckHonest(checks'[n], official, local)
    <3> DEFINE x == [checks[n] EXCEPT !.at = Unset]
    <3>1. checks[n] \in CheckRecord /\ CheckHonest(checks[n], official, local)
      BY <1>0 DEF ResultsInv
    <3>2. x \in CheckRecord /\ CheckHonest(x, official, local)
      BY <3>1 DEF CheckRecord, CheckHonest
    <3>3. checks'[n] \in {checks[n], x}
      BY <2>1
    <3> HIDE DEF x
    <3>. QED
      BY <3>1, <3>2, <3>3
  <2>4. checks' \in Seq(CheckRecord) /\ Len(checks') = Len(checks)
    <3>1. DOMAIN checks = 1..Len(checks) /\ Len(checks) \in Nat
      BY <1>0
    <3>2. checks' \in [1..Len(checks) -> CheckRecord]
      BY <2>1, <2>3, <3>1
    <3>. QED
      BY <3>1, <3>2
  <2>. QED
    BY <1>0, <2>2, <2>3, <2>4 DEF ResultsInv, ResultsAreOfTheBaseline, CheckHonest
<1>. QED
  BY <1>1, <1>2, <1>3 DEF TickStarts

LEMMA ResultsStep == ASSUME ResultsInv, [UpgradesNext]_upgradesVars PROVE ResultsInv'
<1>1. CASE \/ \E on \in BOOLEAN, h \in Hours : SetPolicy(on, h)
           \/ \E s \in Servers : TickReads(s) \/ TickSaves(s)
           \/ TrialStep \/ Hour \/ UNCHANGED upgradesVars
  <2>1. UNCHANGED <<checks, official, local, sourceEdits, current, latest, results>>
    BY <1>1 DEF SetPolicy, TickReads, TickSaves, TrialStep, Hour, upgradesVars, sourceVars
  <2>. QED
    BY <2>1 DEF ResultsInv, ResultsAreOfTheBaseline, CheckHonest
<1>2. CASE EditSource
  <2>1. /\ \/ official' = sourceEdits + 1 /\ local' = local
           \/ local' = sourceEdits + 1 /\ official' = official
        /\ sourceEdits' = sourceEdits + 1 /\ UNCHANGED <<checks, current, latest, results>>
    BY <1>2 DEF EditSource
  <2>2. /\ official' \in Nat /\ local' \in Nat /\ sourceEdits' \in Nat
        /\ official' = 0 => official = 0
        /\ local' = 0 => local = 0
    BY <2>1 DEF ResultsInv
  <2>3. \A n \in DOMAIN checks : CheckHonest(checks[n], official', local')
    BY <2>2 DEF ResultsInv, CheckHonest
  <2>. QED
    BY <2>1, <2>2, <2>3 DEF ResultsInv, ResultsAreOfTheBaseline
<1>. QED
  BY <1>1, <1>2, CheckStep, ChecksChange DEF UpgradesNext

LEMMA TrialsStep == ASSUME TrialInv, [UpgradesNext]_upgradesVars PROVE TrialInv'
<1>1. CASE TrialStep
  BY <1>1 DEF TrialStep, TrialInv, TrialsAreMarked
<1>2. CASE UNCHANGED trial
  BY <1>2 DEF TrialInv, TrialsAreMarked
<1>. QED
  BY <1>1, <1>2 DEF UpgradesNext, upgradesVars, SetPolicy, TickReads, TickSaves, TickStarts, ServerDies,
                    Analyse, Query, TryCreates, TryEnds, SaveResult, checkUnchanged, Hour, EditSource

LEMMA UpgradesStart == ASSUME UpgradesInit PROVE TickInv /\ ResultsInv /\ TrialInv
<1>1. TickInv
  BY DEF UpgradesInit, Off, TickInv, TickTypes, PolicyRecord
<1>2. ResultsInv
  BY DEF UpgradesInit, ResultsInv, ResultsAreOfTheBaseline
<1>3. TrialInv
  BY DEF UpgradesInit, NoTrial, TrialInv, TrialsAreMarked
<1>. QED
  BY <1>1, <1>2, <1>3

LEMMA StartsAreCounted ==
  ASSUME TickInv, ResultsInv, [UpgradesNext]_upgradesVars PROVE CheckMayStart
<1>1. CASE \E s \in Servers : TickStarts(s)
  BY <1>1, TickStartsStep
<1>2. CASE UNCHANGED checks
  BY <1>2 DEF CheckMayStart, ResultsInv
<1>3. CASE Len(checks') = Len(checks)
  BY <1>3 DEF CheckMayStart, ResultsInv
<1>. QED
  BY <1>1, <1>2, <1>3, CheckStep, ChecksChange
  DEF UpgradesNext, upgradesVars, SetPolicy, TickReads, TickSaves, TrialStep, Hour, EditSource

(* workflows/upgrades.ts: for any number of servers and any intervals, two *)
(* checks are counted from times at least the shortest interval apart, and *)
(* none starts while the policy on disk is off.                            *)
THEOREM ChecksStayApart == UpgradesSpec => ChecksApart
<1>1. TickInv /\ ResultsInv /\ [UpgradesNext]_upgradesVars => [CheckMayStart]_upgradesVars
  BY StartsAreCounted
<1>2. UpgradesInit => TickInv /\ ResultsInv
  BY UpgradesStart
<1>3. TickInv /\ ResultsInv /\ [UpgradesNext]_upgradesVars => (TickInv /\ ResultsInv)'
  BY TickStep, ResultsStep
<1>. QED
  BY <1>1, <1>2, <1>3, PTL DEF UpgradesSpec, ChecksApart

(* workflows/upgrades.ts, compatibility.ts: what a result says was proved  *)
(* of a lab of the stable point, an upgrade is never offered there and     *)
(* back, and a lab that ran with another host is marked.                   *)
THEOREM UpgradesAreSound == UpgradesSpec => []UpgradesSound
<1>1. UpgradesInit => ResultsInv /\ TrialInv
  BY UpgradesStart
<1>2. ResultsInv /\ TrialInv /\ [UpgradesNext]_upgradesVars => (ResultsInv /\ TrialInv)'
  BY ResultsStep, TrialsStep
<1>3. ResultsInv /\ TrialInv => UpgradesSound
  <2> SUFFICES ASSUME ResultsInv, TrialInv PROVE UpgradesAreUp
    BY DEF ResultsInv, TrialInv, UpgradesSound
  <2>1. CASE current = Unset
    BY <2>1 DEF UpgradesAreUp, IsNewer
  <2>2. CASE current # Unset
    BY <2>2, VersionsOrdered DEF ResultsInv, UpgradesAreUp
  <2>. QED
    BY <2>1, <2>2
<1>. QED
  BY <1>1, <1>2, <1>3, PTL DEF UpgradesSpec

----------------------------------------------------------------------------
(***************************************************************************)
(* Proofs about Verification: for any number of runs, edits and kills and  *)
(* any limits, what passes the gate of a promotion was seen to work by a   *)
(* run, on this host; records and captures agree with the runs.  The       *)
(* invariant follows one run through its stages: what it has recorded      *)
(* there, and what of it has been saved.                                   *)
(***************************************************************************)

Statuses == {"none", "pass", "fail", "inconclusive", "skip", "warn"}
(* An observation is at most a warning.                                    *)
Results == {r \in [Checks -> Statuses] : \A c \in Optional : r[c] # "fail"}
Looking == {"look", "settle", "close"}
Launched == Looking \cup {"launch"}
Ended == {"stop", "judged", "saved"}
RunStages == {"none", "install", "compose", "boot"} \cup Launched \cup Ended

RunRecord ==
  [at : RunStages, verify : BOOLEAN, client : BOOLEAN, watched : BOOLEAN, keep : BOOLEAN,
   results : Results, stayed : Nat, ready : BOOLEAN, on : Nat]
RunManifest == [state : {"created", "applying", "passed", "failed"}, runs : Nat]
RunEvidence == [run : Nat, receipt : Nat, on : Nat, results : Results]
CaptureRecord == [run : Nat, old : BOOLEAN]

VerificationTypes ==
  /\ candidate \in Nat /\ version \in Nat
  /\ labManifest \in RunManifest \cup {Missing} /\ evidence \in RunEvidence \cup {Missing}
  /\ run \in RunRecord
  /\ windows \in Seq(Nat) /\ captures \in Seq(CaptureRecord)
  /\ partial \in Nat /\ kills \in Nat

(* A run that comes to an end has failed, or has gone through all stages.  *)
Installs(r) == plan = "plugin" => r["install"] = "pass"
Booted(r) == r["compose"] # "none" /\ r["host-boot"] = "pass" /\ r["http-ready"] = "pass"
ThroughStages(at, r) ==
  /\ at = "install" => r = Nothing
  /\ at \in {"compose", "boot"} \cup Launched => Installs(r)
  /\ at = "boot" => r["compose"] # "none"
  /\ at \in Launched => Booted(r)
  /\ at \in Ended => Failed(r) \/ (Installs(r) /\ Booted(r))
  /\ at \notin {"close"} \cup Ended => r["browser-boot"] = "none"

SeenOn(c, v) == [content |-> c, on |-> v] \in proved

RunFits ==
  /\ run.at # "none" => labManifest \in RunManifest /\ run.on <= version
  /\ ThroughStages(run.at, run.results)
  /\ run.ready <=> run.results["browser-boot"] = "pass"
  /\ run.ready /\ Ok(run.results) /\ run.on = version => SeenOn(candidate, version)
  /\ run.at = "saved" =>
       labManifest.state = (IF Ok(run.results) THEN "passed" ELSE "failed")

EvidenceFits ==
  evidence # Missing =>
    /\ labManifest \in RunManifest /\ evidence.run <= labManifest.runs
    /\ run.at # "none" => evidence.run < labManifest.runs
    /\ evidence.on <= version
    /\ Gate(evidence.results) = "pass" /\ evidence.on = version =>
         SeenOn(evidence.receipt, version)
    /\ evidence.run = labManifest.runs =>
         /\ labManifest.state = (IF Ok(evidence.results) THEN "passed" ELSE "failed")
         /\ Failed(evidence.results) \/ (Installs(evidence.results) /\ Booted(evidence.results))

LeftBehind ==
  /\ run.at \notin Launched \cup {"stop"} => host = "down" \/ kills > 0
  /\ run.at \notin Looking => browser = "none"
  /\ Len(windows) <= Windows
  /\ IF run.at \in Looking THEN partial >= 1 /\ partial <= kills + 1 ELSE partial <= kills

CapturesFit ==
  /\ Len(captures) <= Kept
  /\ \A i, j \in DOMAIN captures : i < j => captures[i].run > captures[j].run
  /\ labManifest \in RunManifest => \A i \in DOMAIN captures : captures[i].run <= labManifest.runs
  /\ run.at \notin {"none"} \cup Ended => \A i \in DOMAIN captures : captures[i].run < labManifest.runs
  /\ run.at = "stop" /\ run.results["browser-boot"] = "fail" =>
       captures # <<>> /\ captures[1].run = labManifest.runs

VerificationInv ==
  /\ VerificationTypes /\ RunFits /\ EvidenceFits /\ LeftBehind /\ CapturesFit /\ PromotesProved

(* What the actions write.                                               *)
LEMMA NothingIsResults ==
  /\ Nothing \in Results /\ NoRun \in RunRecord
  /\ NoRun.at = "none" /\ NoRun.results = Nothing /\ NoRun.ready = FALSE /\ NoRun.on = 0
  /\ \A c \in Checks : Nothing[c] = "none"
BY DEF Nothing, NoRun, Results, RunRecord, RunStages, Statuses, Checks, Optional

LEMMA RunFields ==
  ASSUME VerificationInv
  PROVE  /\ run \in RunRecord /\ run.at \in RunStages /\ run.results \in Results /\ run.on \in Nat
         /\ run.ready \in BOOLEAN /\ run.keep \in BOOLEAN /\ run.stayed \in Nat
         /\ \A at \in RunStages, r \in Results :
              LET next == [run EXCEPT !.at = at, !.results = r] IN
              /\ next \in RunRecord /\ next.at = at /\ next.results = r
              /\ next.on = run.on /\ next.ready = run.ready
BY DEF VerificationInv, VerificationTypes, RunRecord

LEMMA RecordedFields ==
  ASSUME NEW r \in Results, NEW c \in Checks, NEW status \in Statuses,
         c \notin Optional \/ status # "fail"
  PROVE  /\ [r EXCEPT ![c] = status] \in Results
         /\ [r EXCEPT ![c] = status][c] = status
         /\ \A d \in Checks \ {c} : [r EXCEPT ![c] = status][d] = r[d]
<1> DEFINE next == [r EXCEPT ![c] = status]
<1>1. r \in [Checks -> Statuses] /\ \A d \in Optional : r[d] # "fail"
  BY DEF Results
<1>2. /\ next \in [Checks -> Statuses] /\ next[c] = status
      /\ \A d \in Checks \ {c} : next[d] = r[d]
  BY <1>1
<1> HIDE DEF next
<1>3. \A d \in Optional : next[d] # "fail"
  <2>1. Optional \subseteq Checks
    BY DEF Optional, Checks
  <2>. QED
    BY <1>1, <1>2, <2>1
<1>. QED
  BY <1>2, <1>3 DEF Results, next

LEMMA RecordGives ==
  ASSUME VerificationInv, NEW c \in Checks, NEW status \in Statuses,
         c \notin Optional \/ status # "fail"
  PROVE  /\ Recorded(c, status) \in Results
         /\ Recorded(c, status)[c] = status
         /\ \A d \in Checks \ {c} : Recorded(c, status)[d] = run.results[d]
<1>1. run.results \in Results
  BY RunFields
<1>. QED
  BY <1>1, RecordedFields DEF Recorded

(* A run that goes on without saving or capturing anything.              *)
LEMMA RunGoesOn ==
  ASSUME VerificationInv, run.at # "none",
         NEW r \in RunRecord, run' = r, r.on = run.on, r.at \notin {"none", "saved"},
         UNCHANGED <<version, plan, labManifest, evidence, windows, captures, kills, promoted>>,
         candidate' \in Nat, partial' \in Nat, proved \subseteq proved',
         ThroughStages(r.at, r.results),
         r.ready <=> r.results["browser-boot"] = "pass",
         r.ready /\ Ok(r.results) /\ r.on = version =>
           [content |-> candidate', on |-> version] \in proved',
         LeftBehind',
         run.at \notin Ended \/ r.at \in {"judged", "saved"},
         r.at = "stop" => r.results["browser-boot"] # "fail"
  PROVE  VerificationInv'
<1>1. VerificationTypes'
  BY DEF VerificationInv, VerificationTypes
<1>2. RunFits'
  BY DEF VerificationInv, RunFits, ThroughStages, SeenOn, Ok, Installs
<1>3. EvidenceFits'
  BY DEF VerificationInv, EvidenceFits, SeenOn, Installs
<1>4. CapturesFit'
  <2>1. run.at \notin {"none"} \cup Ended \/ r.at \in Ended
    BY DEF Ended
  <2>. QED
    BY <2>1 DEF VerificationInv, CapturesFit
<1>5. PromotesProved'
  BY DEF VerificationInv, PromotesProved
<1>. QED
  BY <1>1, <1>2, <1>3, <1>4, <1>5 DEF VerificationInv

(* A run that ends without a verdict, and is no more.                    *)
LEMMA RunEnds ==
  ASSUME VerificationInv, run.at # "none", run' = NoRun,
         UNCHANGED <<candidate, version, plan, labManifest, evidence, captures, promoted, proved>>,
         windows' \in Seq(Nat), kills' \in Nat, partial' \in Nat, LeftBehind'
  PROVE  VerificationInv'
<1>1. VerificationTypes'
  BY NothingIsResults DEF VerificationInv, VerificationTypes
<1>2. RunFits'
  <2>1. "browser-boot" \in Checks
    BY DEF Checks
  <2>. QED
    BY <2>1, NothingIsResults DEF RunFits, ThroughStages, Ended, Launched, Looking
<1>3. EvidenceFits'
  BY NothingIsResults DEF VerificationInv, EvidenceFits, SeenOn, Installs
<1>4. CapturesFit'
  BY NothingIsResults DEF VerificationInv, CapturesFit, Ended
<1>5. PromotesProved'
  BY DEF VerificationInv, PromotesProved
<1>. QED
  BY <1>1, <1>2, <1>3, <1>4, <1>5 DEF VerificationInv

LEMMA RunInstalls ==
  ASSUME VerificationInv, InstallPlan
  PROVE  VerificationInv'
<1>1. run.at = "install" /\ run.results = Nothing /\ ~run.ready
  BY NothingIsResults DEF InstallPlan, RunAt, VerificationInv, RunFits, ThroughStages, Checks
<1>2. PICK status \in {"pass", "fail"} :
        Follow("compose", IF plan = "config" THEN run.results ELSE Recorded("install", status))
  BY DEF InstallPlan
<1> DEFINE marked == [Nothing EXCEPT !["install"] = status]
           res == IF plan = "config" THEN Nothing ELSE marked
           at == IF Failed(res) THEN "stop" ELSE "compose"
           r == [run EXCEPT !.at = at, !.results = res]
<1>0. "install" \in Checks \ Optional /\ status \in Statuses
  BY DEF Checks, Statuses, Optional
<1>10. marked \in Results /\ marked["install"] = status
  BY <1>0, NothingIsResults, RecordedFields
<1>11. \A c \in Checks \ {"install"} : marked[c] = "none"
  BY <1>0, NothingIsResults, RecordedFields
<1> HIDE DEF marked
<1>3. res \in Results /\ \A c \in Checks \ {"install"} : res[c] = "none"
  BY <1>10, <1>11, NothingIsResults
<1>4. plan # "config" => res["install"] = status
  BY <1>10
<1>5. run' = r
  BY <1>1, <1>2 DEF Follow, Stage, Recorded, marked
<1> HIDE DEF res
<1>6. /\ r \in RunRecord /\ r.at = at /\ r.results = res /\ r.on = run.on /\ r.ready = run.ready
  <2>1. at \in RunStages
    BY DEF RunStages, Ended
  <2>. QED
    BY <1>3, <2>1, RunFields
<1> HIDE DEF r
<1>7. ThroughStages(r.at, r.results)
  <2>1. CASE Failed(res)
    BY <1>3, <1>6, <2>1 DEF ThroughStages, Launched, Looking, Ended, Checks
  <2>2. CASE ~Failed(res)
    BY <1>3, <1>4, <1>6, <2>2 DEF ThroughStages, Launched, Looking, Ended, Installs, Failed, Checks
  <2>. QED
    BY <2>1, <2>2
<1>8. /\ candidate' \in Nat
      /\ UNCHANGED <<version, plan, labManifest, evidence, windows, captures, kills, promoted,
                     partial, proved, host, browser>>
  BY DEF InstallPlan, content, records, traces, ghosts, VerificationInv, VerificationTypes
<1>9. LeftBehind'
  BY <1>1, <1>5, <1>6, <1>8 DEF VerificationInv, LeftBehind, Launched, Looking, RunStages, Ended
<1>12. r.results["browser-boot"] = "none" /\ partial' \in Nat
  BY <1>3, <1>6, <1>8 DEF Checks, VerificationInv, VerificationTypes
<1>. QED
  BY <1>1, <1>5, <1>6, <1>7, <1>8, <1>9, <1>12, RunGoesOn DEF Ended

LEMMA RunComposes ==
  ASSUME VerificationInv, Compose
  PROVE  VerificationInv'
<1>1. /\ run.at = "compose" /\ Installs(run.results) /\ ~run.ready
      /\ run.results["browser-boot"] = "none"
  BY DEF Compose, RunAt, VerificationInv, RunFits, ThroughStages, Ended, Launched, Looking
<1>2. PICK status \in {"pass", "fail", "inconclusive"} : Follow("boot", Recorded("compose", status))
  BY DEF Compose
<1> DEFINE res == Recorded("compose", status)
           at == IF Failed(res) THEN "stop" ELSE "boot"
           r == [run EXCEPT !.at = at, !.results = res]
<1>3. /\ res \in Results /\ res["compose"] = status
      /\ \A c \in Checks \ {"compose"} : res[c] = run.results[c]
  <2>1. "compose" \in Checks \ Optional /\ status \in Statuses
    BY DEF Checks, Statuses, Optional
  <2>. QED
    BY <2>1, RecordGives
<1>4. run' = r
  BY <1>2 DEF Follow, Stage
<1> HIDE DEF res
<1>5. /\ r \in RunRecord /\ r.at = at /\ r.results = res /\ r.on = run.on /\ r.ready = run.ready
  <2>1. at \in RunStages
    BY DEF RunStages, Ended
  <2>. QED
    BY <1>3, <2>1, RunFields
<1> HIDE DEF r
<1>6. res["browser-boot"] = "none" /\ Installs(res)
  BY <1>1, <1>3 DEF Installs, Checks
<1>7. ThroughStages(r.at, r.results)
  BY <1>3, <1>5, <1>6 DEF ThroughStages, Launched, Looking, Ended
<1>8. /\ candidate' \in Nat
      /\ UNCHANGED <<version, plan, labManifest, evidence, windows, captures, kills, promoted,
                     partial, proved, host, browser>>
  BY DEF Compose, content, records, traces, ghosts, VerificationInv, VerificationTypes
<1>9. LeftBehind' /\ partial' \in Nat
  BY <1>1, <1>4, <1>5, <1>8
  DEF VerificationInv, VerificationTypes, LeftBehind, Launched, Looking, RunStages, Ended
<1>. QED
  BY <1>1, <1>4, <1>5, <1>6, <1>7, <1>8, <1>9, RunGoesOn DEF Ended

LEMMA RunThrows ==
  ASSUME VerificationInv, Throw
  PROVE  VerificationInv'
<1>1. /\ run.at \in {"compose", "install"} /\ run' = NoRun
      /\ UNCHANGED <<candidate, version, plan, labManifest, evidence, windows, captures, kills,
                     promoted, partial, proved, host, browser>>
  BY DEF Throw, RunAt, content, records, traces, ghosts
<1>2. LeftBehind' /\ windows' \in Seq(Nat) /\ kills' \in Nat /\ partial' \in Nat
  BY <1>1, NothingIsResults
  DEF VerificationInv, VerificationTypes, LeftBehind, Launched, Looking
<1>. QED
  BY <1>1, <1>2, RunEnds

LEMMA HostBoots ==
  ASSUME VerificationInv, BootHost
  PROVE  VerificationInv'
<1>1. /\ run.at = "boot" /\ Installs(run.results) /\ ~run.ready
      /\ run.results["compose"] # "none" /\ run.results["browser-boot"] = "none"
  BY DEF BootHost, RunAt, VerificationInv, RunFits, ThroughStages, Ended, Launched, Looking
<1>2. PICK res \in Results, at \in {"launch", "stop"} :
        /\ run' = [run EXCEPT !.at = at, !.results = res]
        /\ res["browser-boot"] = "none" /\ Installs(res)
        /\ IF at = "launch" THEN Booted(res) ELSE Failed(res) \/ Booted(res)
  <2>1. CASE Stage("stop", Recorded("host-boot", "fail"))
    <3> DEFINE res == Recorded("host-boot", "fail")
    <3>1. "host-boot" \in Checks \ Optional /\ "fail" \in Statuses
      BY DEF Checks, Statuses, Optional
    <3>2. /\ res \in Results /\ res["host-boot"] = "fail"
          /\ \A c \in Checks \ {"host-boot"} : res[c] = run.results[c]
      BY <3>1, RecordGives
    <3>3. run' = [run EXCEPT !.at = "stop", !.results = res]
      BY <2>1 DEF Stage
    <3> HIDE DEF res
    <3>4. Failed(res) /\ res["browser-boot"] = "none" /\ Installs(res)
      BY <1>1, <3>1, <3>2 DEF Failed, Installs, Checks
    <3>. QED
      BY <3>2, <3>3, <3>4
  <2>2. ASSUME NEW status \in {"pass", "fail"},
               LET rs == [Recorded("http-ready", status) EXCEPT !["host-boot"] = "pass"]
               IN Stage(IF run.client /\ ~Failed(rs) THEN "launch" ELSE "stop", rs)
        PROVE  \E res \in Results, at \in {"launch", "stop"} :
                 /\ run' = [run EXCEPT !.at = at, !.results = res]
                 /\ res["browser-boot"] = "none" /\ Installs(res)
                 /\ IF at = "launch" THEN Booted(res) ELSE Failed(res) \/ Booted(res)
    <3> DEFINE ready == Recorded("http-ready", status)
               both == [ready EXCEPT !["host-boot"] = "pass"]
               next == IF run.client /\ ~Failed(both) THEN "launch" ELSE "stop"
    <3>1. {"http-ready", "host-boot"} \subseteq Checks \ Optional /\ {status, "pass"} \subseteq Statuses
      BY DEF Checks, Statuses, Optional
    <3>2. /\ ready \in Results /\ ready["http-ready"] = status
          /\ \A c \in Checks \ {"http-ready"} : ready[c] = run.results[c]
      BY <3>1, RecordGives
    <3>3. run' = [run EXCEPT !.at = next, !.results = both]
      BY <2>2 DEF Stage
    <3> HIDE DEF ready
    <3>4. /\ both \in Results /\ both["host-boot"] = "pass"
          /\ \A c \in Checks \ {"host-boot"} : both[c] = ready[c]
      BY <3>1, <3>2, RecordedFields
    <3> HIDE DEF both
    <3>5. Failed(both) \/ Booted(both)
      BY <1>1, <3>2, <3>4 DEF Failed, Booted, Checks
    <3>6. both["browser-boot"] = "none" /\ Installs(both)
      BY <1>1, <3>2, <3>4 DEF Installs, Checks
    <3>. QED
      BY <3>3, <3>4, <3>5, <3>6
  <2>. QED
    BY <2>1, <2>2 DEF BootHost
<1> DEFINE r == [run EXCEPT !.at = at, !.results = res]
<1>3. /\ r \in RunRecord /\ r.at = at /\ r.results = res /\ r.on = run.on /\ r.ready = run.ready
  <2>1. at \in RunStages
    BY DEF RunStages, Ended, Launched
  <2>. QED
    BY <2>1, RunFields
<1>4. run' = r
  BY <1>2
<1> HIDE DEF r
<1>5. ThroughStages(r.at, r.results)
  BY <1>2, <1>3 DEF ThroughStages, Launched, Looking, Ended
<1>6. /\ candidate' \in Nat
      /\ UNCHANGED <<version, plan, labManifest, evidence, windows, captures, kills, promoted,
                     partial, proved, browser>>
  BY DEF BootHost, content, records, traces, ghosts, VerificationInv, VerificationTypes
<1>7. LeftBehind' /\ partial' \in Nat
  BY <1>1, <1>2, <1>3, <1>4, <1>6
  DEF VerificationInv, VerificationTypes, LeftBehind, Launched, Looking, RunStages, Ended
<1>. QED
  BY <1>1, <1>2, <1>3, <1>4, <1>5, <1>6, <1>7, RunGoesOn DEF Ended

(* The classification of what the browser shows.                         *)
LEMMA VerdictFields ==
  ASSUME VerificationInv, NEW status \in {"pass", "fail", "inconclusive"}
  PROVE  /\ Verdicts(status) \in Results
         /\ Verdicts(status)["browser-boot"] = status
         /\ \A c \in Checks \ ({"browser-boot"} \cup Optional) : Verdicts(status)[c] = run.results[c]
<1> DEFINE v1 == Recorded("browser-boot", status)
           v2 == [v1 EXCEPT !["plugin-function"] = "skip"]
           v3 == [v2 EXCEPT !["client-observations"] = "warn"]
<1>1. /\ {"browser-boot", "plugin-function", "client-observations"} \subseteq Checks
      /\ {status, "skip", "warn"} \subseteq Statuses
      /\ "browser-boot" \notin Optional
  BY DEF Checks, Statuses, Optional
<1>2. /\ v1 \in Results /\ v1["browser-boot"] = status
      /\ \A c \in Checks \ {"browser-boot"} : v1[c] = run.results[c]
  BY <1>1, RecordGives
<1> HIDE DEF v1
<1>3. /\ v2 \in Results /\ \A c \in Checks \ {"plugin-function"} : v2[c] = v1[c]
  BY <1>1, <1>2, RecordedFields
<1> HIDE DEF v2
<1>4. /\ v3 \in Results /\ \A c \in Checks \ {"client-observations"} : v3[c] = v2[c]
  BY <1>1, <1>3, RecordedFields
<1>5. Verdicts(status) = v3
  BY DEF Verdicts, v1, v2
<1> HIDE DEF v3
<1>. QED
  BY <1>1, <1>2, <1>3, <1>4, <1>5 DEF Optional

(* What a run knows while the browser is used.                           *)
LEMMA WhileLaunched ==
  ASSUME VerificationInv, run.at \in {"launch", "look", "settle"}
  PROVE  /\ Installs(run.results) /\ Booted(run.results) /\ ~run.ready
         /\ labManifest \in RunManifest
BY DEF VerificationInv, RunFits, ThroughStages, Ended, Launched, Looking

LEMMA VerdictsFit ==
  ASSUME VerificationInv, run.at \in {"launch", "look", "settle"},
         NEW status \in {"pass", "fail", "inconclusive"}
  PROVE  Installs(Verdicts(status)) /\ Booted(Verdicts(status))
<1>1. {"install", "compose", "host-boot", "http-ready"} \subseteq Checks \ ({"browser-boot"} \cup Optional)
  BY DEF Checks, Optional
<1>. QED
  BY <1>1, WhileLaunched, VerdictFields DEF Installs, Booted

LEMMA BrowserLaunches ==
  ASSUME VerificationInv, Launch
  PROVE  VerificationInv'
<1>1. /\ run.at = "launch"
      /\ UNCHANGED <<candidate, version, plan, labManifest, evidence, windows, captures, kills,
                     promoted, proved, host>>
      /\ candidate' \in Nat
  BY DEF Launch, RunAt, content, records, ghosts, VerificationInv, VerificationTypes
<1>2. Installs(run.results) /\ Booted(run.results) /\ ~run.ready
  BY <1>1, WhileLaunched
<1>3. CASE Stage("stop", Verdicts("inconclusive")) /\ UNCHANGED <<browser, partial>>
  <2> DEFINE r == [run EXCEPT !.at = "stop", !.results = Verdicts("inconclusive")]
  <2>1. run' = r
    BY <1>3 DEF Stage
  <2>2. /\ r \in RunRecord /\ r.at = "stop" /\ r.results = Verdicts("inconclusive")
        /\ r.on = run.on /\ r.ready = run.ready
    <3>1. "stop" \in RunStages /\ Verdicts("inconclusive") \in Results
      BY VerdictFields DEF RunStages, Ended
    <3>. QED
      BY <3>1, RunFields
  <2> HIDE DEF r
  <2>3. ThroughStages(r.at, r.results)
    BY <1>1, <2>2, VerdictsFit DEF ThroughStages, Launched, Looking, Ended
  <2>4. LeftBehind' /\ partial' \in Nat
    BY <1>1, <1>3, <2>1, <2>2
    DEF VerificationInv, VerificationTypes, LeftBehind, Launched, Looking
  <2>. QED
    BY <1>1, <1>2, <2>1, <2>2, <2>3, <2>4, VerdictFields, RunGoesOn DEF Ended
<1>4. CASE Stage("look", run.results) /\ browser' = "open" /\ partial' = partial + 1
  <2> DEFINE r == [run EXCEPT !.at = "look", !.results = run.results]
  <2>1. run' = r
    BY <1>4 DEF Stage
  <2>2. /\ r \in RunRecord /\ r.at = "look" /\ r.results = run.results
        /\ r.on = run.on /\ r.ready = run.ready
    BY RunFields DEF RunStages, Launched, Looking
  <2> HIDE DEF r
  <2>3. run.results["browser-boot"] = "none"
    BY <1>1 DEF VerificationInv, RunFits, ThroughStages, Ended
  <2>4. ThroughStages(r.at, r.results)
    BY <1>2, <2>2, <2>3 DEF ThroughStages, Launched, Looking, Ended
  <2>5. LeftBehind' /\ partial' \in Nat
    BY <1>1, <1>4, <2>1, <2>2
    DEF VerificationInv, VerificationTypes, LeftBehind, Launched, Looking
  <2>. QED
    BY <1>1, <1>2, <2>1, <2>2, <2>3, <2>4, <2>5, RunGoesOn DEF Ended
<1>. QED
  BY <1>3, <1>4 DEF Launch

(* The browser has been seen, and nothing is asked of it any more.       *)
LEMMA ClassifyStep ==
  ASSUME VerificationInv, run.at \in {"look", "settle"}, NEW status \in {"fail", "inconclusive"},
         Classify(status)
  PROVE  VerificationInv'
<1> DEFINE r == [run EXCEPT !.at = "close", !.results = Verdicts(status)]
<1>1. /\ run' = r
      /\ UNCHANGED <<candidate, version, plan, labManifest, evidence, windows, captures, kills,
                     promoted, proved, host, browser, partial>>
      /\ candidate' \in Nat /\ partial' \in Nat
  BY DEF Classify, Stage, content, records, traces, ghosts, VerificationInv, VerificationTypes
<1>2. /\ r \in RunRecord /\ r.at = "close" /\ r.results = Verdicts(status)
      /\ r.on = run.on /\ r.ready = run.ready
  <2>1. "close" \in RunStages /\ Verdicts(status) \in Results
    BY VerdictFields DEF RunStages, Launched, Looking
  <2>. QED
    BY <2>1, RunFields
<1> HIDE DEF r
<1>3. Installs(r.results) /\ Booted(r.results) /\ ~r.ready /\ r.results["browser-boot"] = status
  BY <1>2, VerdictsFit, VerdictFields, WhileLaunched
<1>4. ThroughStages(r.at, r.results)
  BY <1>2, <1>3 DEF ThroughStages, Launched, Looking, Ended
<1>5. LeftBehind'
  BY <1>1, <1>2 DEF VerificationInv, LeftBehind, Launched, Looking
<1>. QED
  BY <1>1, <1>2, <1>3, <1>4, <1>5, RunGoesOn DEF Ended

LEMMA BrowserLooks ==
  ASSUME VerificationInv, Look \/ GiveUp
  PROVE  VerificationInv'
<1>1. CASE \E status \in {"fail", "inconclusive"} :
             run.at \in {"look", "settle"} /\ Classify(status)
  BY <1>1, ClassifyStep
<1>2. CASE /\ run.at = "look" /\ run' = [run EXCEPT !.at = "settle"]
           /\ UNCHANGED <<content, records, browser, host, windows, traces, ghosts>>
  <2> DEFINE r == [run EXCEPT !.at = "settle"]
  <2>1. /\ run' = r
        /\ UNCHANGED <<candidate, version, plan, labManifest, evidence, windows, captures, kills,
                       promoted, proved, host, browser, partial>>
        /\ candidate' \in Nat /\ partial' \in Nat
    BY <1>2 DEF content, records, traces, ghosts, VerificationInv, VerificationTypes
  <2>2. /\ r \in RunRecord /\ r.at = "settle" /\ r.results = run.results
        /\ r.on = run.on /\ r.ready = run.ready
    BY RunFields DEF RunRecord, RunStages, Launched, Looking
  <2> HIDE DEF r
  <2>3. run.results["browser-boot"] = "none"
    BY <1>2 DEF VerificationInv, RunFits, ThroughStages, Ended
  <2>4. Installs(run.results) /\ Booted(run.results) /\ ~run.ready
    BY <1>2, WhileLaunched
  <2>5. ThroughStages(r.at, r.results)
    BY <2>2, <2>3, <2>4 DEF ThroughStages, Launched, Looking, Ended
  <2>6. LeftBehind'
    BY <1>2, <2>1, <2>2 DEF VerificationInv, LeftBehind, Launched, Looking
  <2>. QED
    BY <1>2, <2>1, <2>2, <2>3, <2>4, <2>5, <2>6, RunGoesOn DEF Ended
<1>. QED
  BY <1>1, <1>2 DEF Look, GiveUp, RunAt

LEMMA ShellSettles ==
  ASSUME VerificationInv, Settle
  PROVE  VerificationInv'
<1>1. run.at = "settle"
  BY DEF Settle, RunAt
<1>2. CASE \E status \in {"fail", "inconclusive"} : Classify(status)
  BY <1>1, <1>2, ClassifyStep
<1>3. CASE /\ run' = [run EXCEPT !.stayed = @ + 1]
           /\ UNCHANGED <<content, records, browser, host, windows, traces, promoted, changes,
                          kills>>
           /\ proved' = proved
  <2> DEFINE r == [run EXCEPT !.stayed = @ + 1]
  <2>1. /\ run' = r
        /\ UNCHANGED <<candidate, version, plan, labManifest, evidence, windows, captures, kills,
                       promoted, proved, host, browser, partial>>
        /\ candidate' \in Nat /\ partial' \in Nat
    BY <1>3 DEF content, records, traces, VerificationInv, VerificationTypes
  <2>2. /\ r \in RunRecord /\ r.at = "settle" /\ r.results = run.results
        /\ r.on = run.on /\ r.ready = run.ready
    <3>1. run \in RunRecord /\ run.stayed + 1 \in Nat
      BY DEF VerificationInv, VerificationTypes, RunRecord
    <3>. QED
      BY <1>1, <3>1 DEF RunRecord
  <2> HIDE DEF r
  <2>3. run.results["browser-boot"] = "none"
    BY <1>1 DEF VerificationInv, RunFits, ThroughStages, Ended
  <2>4. Installs(run.results) /\ Booted(run.results) /\ ~run.ready
    BY <1>1, WhileLaunched
  <2>5. ThroughStages(r.at, r.results)
    BY <2>2, <2>3, <2>4 DEF ThroughStages, Launched, Looking, Ended
  <2>6. LeftBehind'
    BY <1>1, <2>1, <2>2 DEF VerificationInv, LeftBehind, Launched, Looking
  <2>. QED
    BY <1>1, <2>1, <2>2, <2>3, <2>4, <2>5, <2>6, RunGoesOn DEF Ended
<1>4. CASE /\ run' = [run EXCEPT !.at = "close", !.results = Verdicts("pass"), !.ready = TRUE]
           /\ proved' = IF Ok(Verdicts("pass"))
                          THEN proved \union {[content |-> candidate, on |-> version]} ELSE proved
           /\ UNCHANGED <<content, records, browser, host, windows, traces, promoted, changes,
                          kills>>
  <2> DEFINE r == [run EXCEPT !.at = "close", !.results = Verdicts("pass"), !.ready = TRUE]
  <2>1. /\ run' = r
        /\ UNCHANGED <<candidate, version, plan, labManifest, evidence, windows, captures, kills,
                       promoted, host, browser, partial>>
        /\ candidate' \in Nat /\ partial' \in Nat
    BY <1>4 DEF content, records, traces, VerificationInv, VerificationTypes
  <2>2. /\ r \in RunRecord /\ r.at = "close" /\ r.results = Verdicts("pass")
        /\ r.on = run.on /\ r.ready = TRUE
    <3>1. "close" \in RunStages /\ Verdicts("pass") \in Results
      BY VerdictFields DEF RunStages, Launched, Looking
    <3>. QED
      BY <3>1, RunFields DEF RunRecord
  <2> HIDE DEF r
  <2>3. Installs(r.results) /\ Booted(r.results) /\ r.results["browser-boot"] = "pass"
    BY <1>1, <2>2, VerdictsFit, VerdictFields
  <2>4. ThroughStages(r.at, r.results)
    BY <2>2, <2>3 DEF ThroughStages, Launched, Looking, Ended
  <2>5. LeftBehind'
    BY <1>1, <2>1, <2>2 DEF VerificationInv, LeftBehind, Launched, Looking
  <2>6. Ok(r.results) => [content |-> candidate', on |-> version] \in proved'
    BY <1>4, <2>1, <2>2
  <2>7. proved \subseteq proved'
    BY <1>4
  <2>. QED
    BY <1>1, <2>1, <2>2, <2>3, <2>4, <2>5, <2>6, <2>7, RunGoesOn DEF Ended
<1>. QED
  BY <1>2, <1>3, <1>4 DEF Settle, ghosts

LEMMA HostStops ==
  ASSUME VerificationInv, StopHost
  PROVE  VerificationInv'
<1> DEFINE r == [run EXCEPT !.at = "judged", !.results = run.results]
<1>1. /\ run.at = "stop" /\ run' = r /\ host' = "down"
      /\ UNCHANGED <<candidate, version, plan, labManifest, evidence, windows, captures, kills,
                     promoted, proved, browser, partial>>
      /\ candidate' \in Nat /\ partial' \in Nat
  BY DEF StopHost, RunAt, Stage, content, records, traces, ghosts, VerificationInv, VerificationTypes
<1>2. /\ r \in RunRecord /\ r.at = "judged" /\ r.results = run.results
      /\ r.on = run.on /\ r.ready = run.ready
  <2>1. "judged" \in RunStages /\ run.results \in Results
    BY RunFields DEF RunStages, Ended
  <2>. QED
    BY <2>1, RunFields
<1> HIDE DEF r
<1>3. ThroughStages(r.at, r.results)
  BY <1>1, <1>2 DEF VerificationInv, RunFits, ThroughStages, Launched, Looking, Ended
<1>4. LeftBehind'
  BY <1>1, <1>2 DEF VerificationInv, LeftBehind, Launched, Looking
<1>5. /\ r.ready <=> r.results["browser-boot"] = "pass"
      /\ r.ready /\ Ok(r.results) /\ r.on = version =>
           [content |-> candidate', on |-> version] \in proved'
  BY <1>1, <1>2 DEF VerificationInv, RunFits, SeenOn
<1>. QED
  BY <1>1, <1>2, <1>3, <1>4, <1>5, RunGoesOn DEF Ended

(***************************************************************************)
(* What a cleanup leaves of the captures, by induction over their number:  *)
(* the least number of captures for which it failed is none.               *)
(***************************************************************************)

Descending(rows) == \A i, j \in DOMAIN rows : i < j => rows[i].run > rows[j].run

(* F is the function that Tidied defines, up to m.                       *)
Tidies(F, rows, m) ==
  F = [n \in 0..m |->
         IF n = 0 THEN <<>>
         ELSE IF Stays(rows, n) THEN Append(F[n - 1], rows[n]) ELSE F[n - 1]]

LEMMA TidiesExists ==
  ASSUME NEW rows, NEW m \in Nat
  PROVE  \E F : Tidies(F, rows, m)
<1> DEFINE Bad == {n \in Nat : ~\E F : Tidies(F, rows, n)}
<1> SUFFICES ASSUME Bad # {} PROVE FALSE
  OBVIOUS
<1>1. PICK n \in Bad : \A k \in Bad : n <= k
  <2>1. Bad \in SUBSET Nat
    OBVIOUS
  <2> HIDE DEF Bad
  <2>. QED
    BY <2>1, LeastExists
<1>2. CASE n = 0
  <2> DEFINE F == [i \in 0..0 |-> <<>>]
  <2>1. Tidies(F, rows, 0)
    BY DEF Tidies
  <2>. QED
    BY <1>2, <2>1
<1>3. CASE n # 0
  <2>1. n - 1 \in Nat /\ n - 1 \notin Bad
    BY <1>1, <1>3
  <2>2. PICK F : Tidies(F, rows, n - 1)
    BY <2>1
  <2> DEFINE final == IF Stays(rows, n) THEN Append(F[n - 1], rows[n]) ELSE F[n - 1]
             G == [i \in 0..n |-> IF i = n THEN final ELSE F[i]]
  <2>3. \A i \in 0..n - 1 : G[i] = F[i]
    BY <2>1
  <2>4. ASSUME NEW i \in 0..n
        PROVE  G[i] = IF i = 0 THEN <<>>
                      ELSE IF Stays(rows, i) THEN Append(G[i - 1], rows[i]) ELSE G[i - 1]
    <3>1. CASE i = n
      <4>1. G[i] = final /\ G[i - 1] = F[n - 1]
        BY <1>3, <2>1, <2>3, <3>1
      <4> HIDE DEF G
      <4>. QED
        BY <1>3, <3>1, <4>1
    <3>2. CASE i # n
      <4>1. i \in 0..n - 1 /\ G[i] = F[i] /\ (i # 0 => G[i - 1] = F[i - 1])
        BY <2>1, <2>3, <3>2
      <4>2. F[i] = IF i = 0 THEN <<>>
                   ELSE IF Stays(rows, i) THEN Append(F[i - 1], rows[i]) ELSE F[i - 1]
        <5> HIDE DEF G, final
        <5>. QED
          BY <2>2, <4>1 DEF Tidies
      <4> HIDE DEF G, final
      <4>. QED
        BY <4>1, <4>2
    <3>. QED
      BY <3>1, <3>2
  <2>5. G = [i \in 0..n |-> G[i]]
    OBVIOUS
  <2> HIDE DEF G
  <2>6. Tidies(G, rows, n)
    BY <2>4, <2>5 DEF Tidies
  <2>. QED
    BY <2>6
<1>. QED
  BY <1>2, <1>3

LEMMA CaptureFields ==
  ASSUME NEW s \in Seq(CaptureRecord), NEW i \in DOMAIN s
  PROVE  s[i] \in CaptureRecord /\ s[i].run \in Nat /\ i \in 1..Len(s)
<1>1. s[i] \in CaptureRecord /\ i \in 1..Len(s)
  OBVIOUS
<1>. QED
  BY <1>1 DEF CaptureRecord

(* One more capture, older than those that are there.                    *)
LEMMA OneMore ==
  ASSUME NEW s \in Seq(CaptureRecord), NEW c \in CaptureRecord, Descending(s),
         \A i \in DOMAIN s : s[i].run > c.run
  PROVE  /\ Append(s, c) \in Seq(CaptureRecord) /\ Descending(Append(s, c))
         /\ Len(Append(s, c)) = Len(s) + 1
         /\ \A i \in DOMAIN Append(s, c) : Append(s, c)[i].run >= c.run
         /\ s # <<>> => Append(s, c)[1] = s[1]
         /\ s = <<>> => Append(s, c)[1] = c
<1>1. /\ Append(s, c) \in Seq(CaptureRecord) /\ Len(Append(s, c)) = Len(s) + 1
      /\ Append(s, c)[Len(s) + 1] = c
      /\ \A i \in 1..Len(s) : Append(s, c)[i] = s[i] /\ s[i].run \in Nat
      /\ DOMAIN s = 1..Len(s) /\ DOMAIN Append(s, c) = 1..Len(s) + 1
      /\ Len(s) \in Nat /\ c.run \in Nat
  <2>1. /\ Append(s, c) \in Seq(CaptureRecord) /\ Len(Append(s, c)) = Len(s) + 1
        /\ Append(s, c)[Len(s) + 1] = c
        /\ \A i \in 1..Len(s) : Append(s, c)[i] = s[i]
        /\ DOMAIN s = 1..Len(s) /\ DOMAIN Append(s, c) = 1..Len(s) + 1
        /\ Len(s) \in Nat
    OBVIOUS
  <2>2. c.run \in Nat
    BY DEF CaptureRecord
  <2>. QED
    BY <2>1, <2>2, CaptureFields
<1> DEFINE t == Append(s, c)
<1> HIDE DEF t
<1>2. ASSUME NEW i \in 1..Len(s) + 1, NEW j \in 1..Len(s) + 1, i < j
      PROVE  t[i].run > t[j].run
  <2>1. i \in 1..Len(s)
    BY <1>1, <1>2
  <2>2. CASE j = Len(s) + 1
    BY <1>1, <2>1, <2>2 DEF t
  <2>3. CASE j # Len(s) + 1
    <3>1. j \in 1..Len(s)
      BY <1>1, <2>3
    <3>. QED
      BY <1>1, <1>2, <2>1, <3>1 DEF t, Descending
  <2>. QED
    BY <2>2, <2>3
<1>3. ASSUME NEW i \in 1..Len(s) + 1 PROVE t[i].run >= c.run
  <2>1. CASE i = Len(s) + 1
    BY <1>1, <2>1 DEF t
  <2>2. CASE i # Len(s) + 1
    <3>1. i \in 1..Len(s)
      BY <1>1, <2>2
    <3>. QED
      BY <1>1, <3>1 DEF t
  <2>. QED
    BY <2>1, <2>2
<1>4. s # <<>> => 1 \in 1..Len(s)
  BY <1>1
<1>. QED
  BY <1>1, <1>2, <1>3, <1>4 DEF t, Descending

(* The newest stays, and no more than the limit; their order is theirs.    *)
LEMMA TidiedLeft ==
  ASSUME NEW rows \in Seq(CaptureRecord), Descending(rows)
  PROVE  LET t == Tidied(rows) IN
         /\ t \in Seq(CaptureRecord) /\ Descending(t) /\ Len(t) <= Kept
         /\ rows # <<>> => t # <<>> /\ t[1] = rows[1]
         /\ \A i \in DOMAIN t : \E j \in DOMAIN rows : t[i].run = rows[j].run
<1> DEFINE F == CHOOSE f : Tidies(f, rows, Len(rows))
<1>1. Tidied(rows) = F[Len(rows)]
  BY Zenon DEF Tidied, Tidies
<1>2. Tidies(F, rows, Len(rows))
  <2>1. \E f : Tidies(f, rows, Len(rows))
    <3>1. Len(rows) \in Nat
      OBVIOUS
    <3>. QED
      BY <3>1, TidiesExists
  <2>. QED
    BY Zenon, <2>1
<1> HIDE DEF F
<1>3. \A n \in 0..Len(rows) :
        F[n] = IF n = 0 THEN <<>>
               ELSE IF Stays(rows, n) THEN Append(F[n - 1], rows[n]) ELSE F[n - 1]
  BY <1>2 DEF Tidies
<1> DEFINE Good(n) ==
      /\ F[n] \in Seq(CaptureRecord) /\ Descending(F[n])
      /\ Len(F[n]) <= n /\ Len(F[n]) <= Kept
      /\ n # 0 => F[n] # <<>> /\ F[n][1] = rows[1]
      /\ \A i \in DOMAIN F[n] : n # 0 /\ F[n][i].run >= rows[n].run
      /\ \A i \in DOMAIN F[n] : \E j \in 1..n : F[n][i].run = rows[j].run
<1>4. Good(0)
  <2>1. F[0] = <<>>
    <3>1. 0 \in 0..Len(rows)
      OBVIOUS
    <3>. QED
      BY <1>3, <3>1
  <2>2. F[0] \in Seq(CaptureRecord) /\ DOMAIN F[0] = {} /\ Len(F[0]) = 0
    BY <2>1
  <2>. QED
    BY <2>1, <2>2, VerificationAssumption DEF Descending
<1>5. ASSUME NEW n \in 1..Len(rows), Good(n - 1) PROVE Good(n)
  <2>1. /\ n \in Nat /\ n - 1 \in Nat /\ rows[n] \in CaptureRecord /\ rows[n].run \in Nat
        /\ n \in DOMAIN rows /\ Len(rows) \in Nat
    <3>1. n \in Nat /\ n - 1 \in Nat /\ n \in DOMAIN rows /\ Len(rows) \in Nat
      OBVIOUS
    <3>. QED
      BY <3>1, CaptureFields
  <2>2. F[n] = IF Stays(rows, n) THEN Append(F[n - 1], rows[n]) ELSE F[n - 1]
    BY <1>3, <2>1
  <2>3. \A i \in DOMAIN F[n - 1] : F[n - 1][i].run > rows[n].run
    <3> TAKE i \in DOMAIN F[n - 1]
    <3>1. n - 1 # 0 /\ F[n - 1][i].run >= rows[n - 1].run /\ F[n - 1][i].run \in Nat
      BY <1>5, CaptureFields
    <3>2. n - 1 \in DOMAIN rows /\ rows[n - 1].run \in Nat
      <4>1. n - 1 \in DOMAIN rows
        BY <2>1, <3>1
      <4>. QED
        BY <4>1, CaptureFields
    <3>3. rows[n - 1].run > rows[n].run
      BY <2>1, <3>2 DEF Descending
    <3>. QED
      BY <2>1, <3>1, <3>2, <3>3
  <2>4. CASE Stays(rows, n)
    <3> DEFINE s == F[n - 1]
    <3>1. /\ s \in Seq(CaptureRecord) /\ Descending(s) /\ Len(s) <= n - 1 /\ Len(s) \in Nat
          /\ \A i \in DOMAIN s : s[i].run > rows[n].run
          /\ n - 1 # 0 => s # <<>> /\ s[1] = rows[1]
          /\ \A i \in DOMAIN s : \E j \in 1..n - 1 : s[i].run = rows[j].run
          /\ n - 1 = 0 => s = <<>>
      BY <1>5, <2>3
    <3>2. n <= Kept
      BY <2>1, <2>4, VerificationAssumption DEF Stays
    <3> HIDE DEF s
    <3>3. F[n] = Append(s, rows[n])
      BY <2>2, <2>4 DEF s
    <3>4. /\ F[n] \in Seq(CaptureRecord) /\ Descending(F[n]) /\ Len(F[n]) = Len(s) + 1
          /\ \A i \in DOMAIN F[n] : F[n][i].run >= rows[n].run
          /\ s # <<>> => F[n][1] = s[1]
          /\ s = <<>> => F[n][1] = rows[n]
      BY <2>1, <3>1, <3>3, OneMore
    <3>5. F[n] # <<>> /\ F[n][1] = rows[1] /\ Len(F[n]) <= n
      BY <2>1, <3>1, <3>4
    <3>6. ASSUME NEW i \in DOMAIN F[n] PROVE \E j \in 1..n : F[n][i].run = rows[j].run
      <4>1. CASE i = Len(s) + 1
        BY <2>1, <3>1, <3>3, <4>1
      <4>2. CASE i # Len(s) + 1
        <5>1. i \in DOMAIN s /\ F[n][i] = s[i]
          BY <2>1, <3>1, <3>3, <3>4, <4>2
        <5>2. PICK j \in 1..n - 1 : s[i].run = rows[j].run
          BY <3>1, <5>1
        <5>3. j \in 1..n
          BY <2>1
        <5>. QED
          BY <5>1, <5>2, <5>3
      <4>. QED
        BY <4>1, <4>2
    <3>7. Len(F[n]) <= Kept
      <4>1. Len(F[n]) \in Nat
        BY <3>4
      <4>. QED
        BY <2>1, <3>2, <3>5, <4>1, VerificationAssumption
    <3>. QED
      BY <2>1, <3>4, <3>5, <3>6, <3>7
  <2>5. CASE ~Stays(rows, n)
    <3>1. F[n] = F[n - 1] /\ n # 1
      BY <2>2, <2>5 DEF Stays
    <3>2. n - 1 # 0 /\ Len(F[n - 1]) \in Nat
      BY <1>5, <2>1, <3>1
    <3>3. \A i \in DOMAIN F[n - 1] : \E j \in 1..n : F[n - 1][i].run = rows[j].run
      <4> TAKE i \in DOMAIN F[n - 1]
      <4>1. PICK j \in 1..n - 1 : F[n - 1][i].run = rows[j].run
        BY <1>5
      <4>2. j \in 1..n
        BY <2>1
      <4>. QED
        BY <4>1, <4>2
    <3>4. \A i \in DOMAIN F[n - 1] : F[n - 1][i].run \in Nat
      BY <1>5, CaptureFields
    <3>. QED
      BY <1>5, <2>1, <2>3, <3>1, <3>2, <3>3, <3>4
  <2>. QED
    BY <2>4, <2>5
<1>6. Good(Len(rows))
  <2> DEFINE Bad == {n \in 0..Len(rows) : ~Good(n)}
  <2>1. ASSUME Bad # {} PROVE FALSE
    <3>1. Bad \in SUBSET Nat
      OBVIOUS
    <3> HIDE DEF Good
    <3>2. PICK n \in Bad : \A k \in Bad : n <= k
      <4> HIDE DEF Bad
      <4>. QED
        BY <2>1, <3>1, LeastExists
    <3>3. n # 0 /\ n \in 1..Len(rows)
      BY <1>4, <3>2
    <3>4. n - 1 \in 0..Len(rows) /\ n - 1 \notin Bad
      BY <3>2, <3>3
    <3>. QED
      BY <1>5, <3>2, <3>3, <3>4
  <2>2. Len(rows) \in 0..Len(rows)
    OBVIOUS
  <2> HIDE DEF Good
  <2>. QED
    BY <2>1, <2>2
<1>7. rows # <<>> => Len(rows) # 0
  OBVIOUS
<1>8. DOMAIN rows = 1..Len(rows)
  OBVIOUS
<1>. QED
  BY <1>1, <1>6, <1>7, <1>8

(* The steps that save what a run was.                                     *)
LEMMA BrowserCloses ==
  ASSUME VerificationInv, Close
  PROVE  VerificationInv'
<1> DEFINE r == [run EXCEPT !.at = "stop", !.results = run.results]
           rows == IF run.ready THEN captures
                   ELSE <<[run |-> labManifest.runs, old |-> FALSE]>> \o captures
<1>1. /\ run.at = "close" /\ run' = r /\ partial' = partial - 1 /\ browser' = "none"
      /\ captures' = Tidied(rows)
      /\ UNCHANGED <<candidate, version, plan, labManifest, evidence, kills, promoted, proved, host>>
  BY DEF Close, RunAt, Stage, content, records, ghosts
<1>2. /\ r \in RunRecord /\ r.at = "stop" /\ r.results = run.results
      /\ r.on = run.on /\ r.ready = run.ready
  <2>1. "stop" \in RunStages /\ run.results \in Results
    BY RunFields DEF RunStages, Ended
  <2>. QED
    BY <2>1, RunFields
<1>3. windows' \in Seq(Nat) /\ Len(windows') <= Windows
  <2>1. windows \in Seq(Nat) /\ Len(windows) <= Windows /\ labManifest.runs \in Nat
    BY <1>1 DEF VerificationInv, VerificationTypes, LeftBehind, RunFits, RunManifest
  <2>2. CASE UNCHANGED windows
    BY <2>1, <2>2
  <2>3. CASE Len(windows) < Windows /\ windows' = Append(windows, labManifest.runs)
    BY <2>1, <2>3, VerificationAssumption
  <2>4. CASE ~(Len(windows) < Windows) /\ windows' = Append(Tail(windows), labManifest.runs)
    <3>1. windows # <<>>
      BY <2>1, <2>4, VerificationAssumption
    <3>2. Tail(windows) \in Seq(Nat) /\ Len(Tail(windows)) = Len(windows) - 1
      BY <2>1, <3>1
    <3> DEFINE rest == Tail(windows)
    <3> HIDE DEF rest
    <3>3. Append(rest, labManifest.runs) \in Seq(Nat)
          /\ Len(Append(rest, labManifest.runs)) = Len(rest) + 1
      BY <2>1, <3>2 DEF rest
    <3>. QED
      BY <2>1, <2>4, <3>2, <3>3, VerificationAssumption DEF rest
  <2>. QED
    BY <2>2, <2>3, <2>4 DEF Close
<1>4. /\ rows \in Seq(CaptureRecord) /\ Descending(rows)
      /\ \A i \in DOMAIN rows : rows[i].run <= labManifest.runs
      /\ ~run.ready => rows # <<>> /\ rows[1].run = labManifest.runs
  <2> DEFINE n == labManifest.runs
             new == [run |-> n, old |-> FALSE]
  <2>1. /\ captures \in Seq(CaptureRecord) /\ Descending(captures)
        /\ n \in Nat /\ new \in CaptureRecord /\ new.run = n
        /\ \A i \in DOMAIN captures : captures[i].run < n
    BY <1>1
    DEF VerificationInv, VerificationTypes, CapturesFit, RunFits, RunManifest, CaptureRecord,
        Descending, Ended
  <2>2. CASE run.ready
    <3>1. \A i \in DOMAIN captures : captures[i].run \in Nat
      BY <2>1, CaptureFields
    <3>. QED
      BY <2>1, <2>2, <3>1
  <2>3. CASE ~run.ready
    <3> HIDE DEF n, new
    <3>1. /\ rows = <<new>> \o captures
          /\ rows \in Seq(CaptureRecord) /\ Len(rows) = Len(captures) + 1 /\ Len(captures) \in Nat
          /\ rows[1] = new
          /\ \A i \in 2..Len(captures) + 1 : rows[i] = captures[i - 1]
          /\ DOMAIN rows = 1..Len(captures) + 1
          /\ DOMAIN captures = 1..Len(captures)
      BY <2>1, <2>3 DEF n, new
    <3> HIDE DEF rows
    <3>2. ASSUME NEW j \in 2..Len(captures) + 1
          PROVE  /\ j - 1 \in DOMAIN captures /\ rows[j] = captures[j - 1]
                 /\ rows[j].run \in Nat /\ rows[j].run < n
      <4>1. j - 1 \in DOMAIN captures /\ rows[j] = captures[j - 1]
        BY <3>1
      <4>2. captures[j - 1] \in CaptureRecord
        BY <2>1, <4>1
      <4>. QED
        BY <2>1, <4>1, <4>2 DEF CaptureRecord
    <3>3. Descending(rows)
      <4> SUFFICES ASSUME NEW i \in 1..Len(captures) + 1, NEW j \in 1..Len(captures) + 1, i < j
                   PROVE  rows[i].run > rows[j].run
        BY <3>1 DEF Descending
      <4>1. j \in 2..Len(captures) + 1
        BY <3>1
      <4>2. CASE i = 1
        BY <2>1, <3>1, <3>2, <4>1, <4>2
      <4>3. CASE i # 1
        <5>1. i \in 2..Len(captures) + 1
          BY <3>1, <4>3
        <5>2. i - 1 < j - 1
          BY <3>1
        <5>. QED
          BY <2>1, <3>2, <4>1, <5>1, <5>2 DEF Descending
      <4>. QED
        BY <4>2, <4>3
    <3>4. \A i \in DOMAIN rows : rows[i].run <= n
      <4> TAKE i \in DOMAIN rows
      <4>1. CASE i = 1
        BY <2>1, <3>1, <4>1
      <4>2. CASE i # 1
        <5>1. i \in 2..Len(captures) + 1
          BY <3>1, <4>2
        <5>. QED
          BY <2>1, <3>2, <5>1
      <4>. QED
        BY <4>1, <4>2
    <3>5. rows # <<>> /\ rows[1].run = n
      BY <2>1, <3>1
    <3>. QED
      BY <3>1, <3>3, <3>4, <3>5 DEF n
  <2>. QED
    BY <2>2, <2>3
<1> HIDE DEF r, rows
<1>5. /\ captures' \in Seq(CaptureRecord) /\ Descending(captures') /\ Len(captures') <= Kept
      /\ rows # <<>> => captures' # <<>> /\ captures'[1] = rows[1]
      /\ \A i \in DOMAIN captures' : \E j \in DOMAIN rows : captures'[i].run = rows[j].run
  BY <1>1, <1>4, TidiedLeft
<1>6. VerificationTypes' /\ LeftBehind'
  BY <1>1, <1>2, <1>3, <1>5
  DEF VerificationInv, VerificationTypes, LeftBehind, Launched, Looking
<1>7. RunFits'
  <2>1. ThroughStages("stop", run.results)
    BY <1>1 DEF VerificationInv, RunFits, ThroughStages, Launched, Looking, Ended
  <2>. QED
    BY <1>1, <1>2, <2>1 DEF VerificationInv, RunFits, ThroughStages, SeenOn, Installs
<1>8. EvidenceFits' /\ PromotesProved'
  BY <1>1, <1>2 DEF VerificationInv, EvidenceFits, PromotesProved, SeenOn, Installs
<1>9. CapturesFit'
  <2>1. \A i \in DOMAIN captures' : captures'[i].run <= labManifest.runs
    BY <1>4, <1>5
  <2>2. run.results["browser-boot"] = "fail" =>
          captures' # <<>> /\ captures'[1].run = labManifest.runs
    BY <1>4, <1>5 DEF VerificationInv, RunFits
  <2>. QED
    BY <1>1, <1>2, <1>5, <2>1, <2>2 DEF CapturesFit, Descending, Ended
<1>. QED
  BY <1>6, <1>7, <1>8, <1>9 DEF VerificationInv

LEMMA ManifestSaved ==
  ASSUME VerificationInv, SaveManifest
  PROVE  VerificationInv'
<1> DEFINE r == [run EXCEPT !.at = "saved", !.results = run.results]
           state == IF Ok(run.results) THEN "passed" ELSE "failed"
<1>1. /\ run.at = "judged" /\ run' = r /\ labManifest' = [labManifest EXCEPT !.state = state]
      /\ UNCHANGED <<candidate, version, plan, evidence, windows, captures, kills, promoted,
                     proved, browser, host, partial>>
  BY DEF SaveManifest, RunAt, Stage, content, traces, ghosts
<1>2. /\ r \in RunRecord /\ r.at = "saved" /\ r.results = run.results
      /\ r.on = run.on /\ r.ready = run.ready
  <2>1. "saved" \in RunStages /\ run.results \in Results
    BY RunFields DEF RunStages, Ended
  <2>. QED
    BY <2>1, RunFields
<1>3. /\ labManifest \in RunManifest /\ labManifest' \in RunManifest
      /\ labManifest'.runs = labManifest.runs /\ labManifest'.state = state
  BY <1>1 DEF VerificationInv, RunFits, RunManifest
<1> HIDE DEF r
<1>4. VerificationTypes' /\ LeftBehind'
  BY <1>1, <1>2, <1>3 DEF VerificationInv, VerificationTypes, LeftBehind, Launched, Looking
<1>5. RunFits'
  <2>1. ThroughStages("saved", run.results)
    BY <1>1 DEF VerificationInv, RunFits, ThroughStages, Launched, Looking, Ended
  <2>. QED
    BY <1>1, <1>2, <1>3, <2>1 DEF VerificationInv, RunFits, ThroughStages, SeenOn, Installs
<1>6. EvidenceFits'
  <2>1. evidence # Missing => evidence.run < labManifest.runs /\ evidence.run \in Nat
    BY <1>1 DEF VerificationInv, VerificationTypes, EvidenceFits, RunEvidence
  <2>2. labManifest.runs \in Nat
    BY <1>3 DEF RunManifest
  <2>. QED
    BY <1>1, <1>2, <1>3, <2>1, <2>2 DEF VerificationInv, EvidenceFits, SeenOn, Installs
<1>7. CapturesFit' /\ PromotesProved'
  BY <1>1, <1>2, <1>3 DEF VerificationInv, CapturesFit, PromotesProved, Ended
<1>. QED
  BY <1>4, <1>5, <1>6, <1>7 DEF VerificationInv

LEMMA EvidenceSaved ==
  ASSUME VerificationInv, SaveEvidence
  PROVE  VerificationInv'
<1>1. /\ run.at = "saved" /\ run' = NoRun
      /\ evidence' = [run |-> labManifest.runs, receipt |-> candidate, on |-> run.on,
                      results |-> run.results]
      /\ UNCHANGED <<candidate, version, plan, labManifest, windows, captures, kills, promoted,
                     proved, browser, host, partial>>
  BY DEF SaveEvidence, RunAt, content, traces, ghosts
<1>2. labManifest \in RunManifest /\ labManifest.runs \in Nat /\ candidate \in Nat
  BY <1>1 DEF VerificationInv, VerificationTypes, RunFits, RunManifest
<1>3. /\ evidence' \in RunEvidence /\ evidence'.run = labManifest.runs
      /\ evidence'.receipt = candidate /\ evidence'.on = run.on /\ evidence'.results = run.results
  BY <1>1, <1>2, RunFields DEF RunEvidence
<1>4. VerificationTypes' /\ LeftBehind'
  BY <1>1, <1>2, <1>3, NothingIsResults
  DEF VerificationInv, VerificationTypes, LeftBehind, Launched, Looking
<1>5. RunFits'
  <2>1. "browser-boot" \in Checks
    BY DEF Checks
  <2>. QED
    BY <1>1, <2>1, NothingIsResults DEF RunFits, ThroughStages, Ended, Launched, Looking
<1>6. EvidenceFits'
  <2>1. Gate(run.results) = "pass" => run.ready /\ Ok(run.results)
    <3>1. "browser-boot" \in Checks \ Optional
      BY DEF Checks, Optional
    <3>. QED
      BY <3>1 DEF Gate, Ok, VerificationInv, RunFits
  <2>2. Failed(run.results) \/ (Installs(run.results) /\ Booted(run.results))
    BY <1>1 DEF VerificationInv, RunFits, ThroughStages, Ended
  <2>3. run.on <= version /\ (run.ready /\ Ok(run.results) /\ run.on = version => SeenOn(candidate, version))
    BY <1>1 DEF VerificationInv, RunFits
  <2>4. labManifest.state = (IF Ok(run.results) THEN "passed" ELSE "failed")
    BY <1>1 DEF VerificationInv, RunFits
  <2>. QED
    BY <1>1, <1>2, <1>3, <2>1, <2>2, <2>3, <2>4, NothingIsResults DEF EvidenceFits, SeenOn, Installs
<1>7. CapturesFit' /\ PromotesProved'
  BY <1>1, <1>2, NothingIsResults DEF VerificationInv, CapturesFit, PromotesProved, Ended
<1>. QED
  BY <1>4, <1>5, <1>6, <1>7 DEF VerificationInv

LEMMA PassedRemoved ==
  ASSUME VerificationInv, RemovePassed
  PROVE  VerificationInv'
<1>1. /\ run.at = "judged" /\ run' = NoRun /\ labManifest' = Missing /\ evidence' = Missing
      /\ captures' = <<>> /\ partial' = 0
      /\ UNCHANGED <<candidate, version, plan, windows, kills, promoted, proved, browser, host>>
  BY DEF RemovePassed, RunAt, content, ghosts
<1>2. VerificationTypes' /\ LeftBehind'
  BY <1>1, NothingIsResults DEF VerificationInv, VerificationTypes, LeftBehind, Launched, Looking
<1>3. RunFits'
  <2>1. "browser-boot" \in Checks
    BY DEF Checks
  <2>. QED
    BY <1>1, <2>1, NothingIsResults DEF RunFits, ThroughStages, Ended, Launched, Looking
<1>4. EvidenceFits'
  BY <1>1 DEF EvidenceFits
<1>5. CapturesFit'
  <2>1. Len(captures') = 0 /\ DOMAIN captures' = {}
    BY <1>1
  <2>. QED
    BY <1>1, <2>1, NothingIsResults, VerificationAssumption DEF CapturesFit, Ended
<1>6. PromotesProved'
  BY <1>1 DEF VerificationInv, PromotesProved
<1>. QED
  BY <1>2, <1>3, <1>4, <1>5, <1>6 DEF VerificationInv

LEMMA RunKilled ==
  ASSUME VerificationInv, KillRun
  PROVE  VerificationInv'
<1>1. /\ run.at # "none" /\ run' = NoRun /\ browser' = "none" /\ windows' = <<>>
      /\ kills' = kills + 1
      /\ UNCHANGED <<candidate, version, plan, labManifest, evidence, captures, partial, promoted,
                     proved, host>>
  BY DEF KillRun, RunAt, content, records, traces
<1>2. kills' \in Nat /\ partial' \in Nat /\ windows' \in Seq(Nat) /\ Len(windows') = 0
  BY <1>1 DEF VerificationInv, VerificationTypes
<1>3. LeftBehind'
  BY <1>1, <1>2, NothingIsResults, VerificationAssumption
  DEF VerificationInv, VerificationTypes, LeftBehind, Launched, Looking
<1>. QED
  BY <1>1, <1>2, <1>3, RunEnds

(* What happens around a run.                                            *)
LEMMA WindowsEnd ==
  ASSUME VerificationInv, WindowEnds \/ WindowsClose
  PROVE  VerificationInv'
<1>1. UNCHANGED <<candidate, version, plan, labManifest, evidence, run, captures, partial, kills,
                  promoted, proved, browser, host>>
  BY DEF WindowEnds, WindowsClose, content, records, traces, ghosts
<1>2. windows \in Seq(Nat) /\ Len(windows) <= Windows
  BY DEF VerificationInv, VerificationTypes, LeftBehind
<1>3. windows' \in Seq(Nat) /\ Len(windows') <= Windows
  <2>1. CASE WindowsClose
    BY <2>1, VerificationAssumption DEF WindowsClose
  <2>2. CASE WindowEnds
    <3>1. PICK i \in DOMAIN windows :
            windows' = [k \in 1..Len(windows) - 1 |-> IF k < i THEN windows[k] ELSE windows[k + 1]]
      BY <2>2 DEF WindowEnds
    <3>2. Len(windows) \in Nat /\ Len(windows) - 1 \in Nat
      BY <1>2, <3>1
    <3>3. \A k \in 1..Len(windows) - 1 : windows'[k] \in Nat
      BY <1>2, <3>1
    <3>4. windows' \in [1..Len(windows) - 1 -> Nat]
      BY <3>1, <3>3
    <3>5. windows' \in Seq(Nat) /\ Len(windows') = Len(windows) - 1
      BY <3>2, <3>4
    <3>. QED
      BY <1>2, <3>2, <3>5, VerificationAssumption
  <2>. QED
    BY <2>1, <2>2
<1>4. VerificationTypes' /\ RunFits' /\ EvidenceFits'
  BY <1>1, <1>3
  DEF VerificationInv, VerificationTypes, RunFits, EvidenceFits, SeenOn, Installs, ThroughStages
<1>5. LeftBehind' /\ CapturesFit' /\ PromotesProved'
  BY <1>1, <1>3 DEF VerificationInv, LeftBehind, CapturesFit, PromotesProved
<1>. QED
  BY <1>4, <1>5 DEF VerificationInv

LEMMA OthersChange ==
  ASSUME VerificationInv, Changes
  PROVE  VerificationInv'
<1>1. /\ UNCHANGED <<plan, labManifest, evidence, run, windows, partial, kills, promoted, proved,
                     browser, host>>
      /\ \/ run.at = "none" /\ candidate' = candidate + 1 /\ UNCHANGED <<version, captures>>
         \/ UNCHANGED <<candidate, version, captures>>
         \/ version' = version + 1 /\ UNCHANGED <<candidate, captures>>
         \/ /\ captures # <<>> /\ UNCHANGED <<candidate, version>>
            /\ captures' = [i \in DOMAIN captures |-> [captures[i] EXCEPT !.old = TRUE]]
  BY DEF Changes, RunAt, records
<1>2. /\ candidate \in Nat /\ version \in Nat /\ captures \in Seq(CaptureRecord)
      /\ run.on \in Nat /\ Len(captures) \in Nat
      /\ evidence # Missing => evidence.on \in Nat
      /\ run.at = "none" => ~run.ready
  <2>1. run.at = "none" => ~run.ready
    BY DEF VerificationInv, RunFits, ThroughStages, Ended
  <2>2. evidence # Missing => evidence.on \in Nat
    BY DEF VerificationInv, VerificationTypes, RunEvidence
  <2>3. candidate \in Nat /\ version \in Nat /\ captures \in Seq(CaptureRecord)
    BY DEF VerificationInv, VerificationTypes
  <2>4. Len(captures) \in Nat
    BY <2>3
  <2>. QED
    BY <2>1, <2>2, <2>3, <2>4, RunFields
<1>3. /\ captures' \in Seq(CaptureRecord) /\ Len(captures') = Len(captures)
      /\ DOMAIN captures' = DOMAIN captures
      /\ \A i \in DOMAIN captures : captures'[i].run = captures[i].run
      /\ captures # <<>> => captures' # <<>> /\ 1 \in DOMAIN captures
  <2>1. CASE UNCHANGED captures
    BY <1>2, <2>1
  <2>2. CASE captures' = [i \in DOMAIN captures |-> [captures[i] EXCEPT !.old = TRUE]]
    <3>1. \A i \in DOMAIN captures : captures'[i] \in CaptureRecord /\ captures'[i].run = captures[i].run
      <4> TAKE i \in DOMAIN captures
      <4>1. captures[i] \in CaptureRecord /\ captures'[i] = [captures[i] EXCEPT !.old = TRUE]
        BY <1>2, <2>2, CaptureFields
      <4>. QED
        BY <4>1 DEF CaptureRecord
    <3>2. DOMAIN captures = 1..Len(captures)
      BY <1>2
    <3>3. captures' \in [1..Len(captures) -> CaptureRecord]
      BY <2>2, <3>1, <3>2
    <3>4. captures' \in Seq(CaptureRecord) /\ Len(captures') = Len(captures)
      BY <1>2, <3>3
    <3>. QED
      BY <1>2, <3>1, <3>2, <3>3, <3>4
  <2>. QED
    BY <1>1, <2>1, <2>2
<1>4. candidate' \in Nat /\ version' \in Nat /\ version <= version'
  BY <1>1, <1>2
<1>5. VerificationTypes' /\ LeftBehind'
  BY <1>1, <1>3, <1>4 DEF VerificationInv, VerificationTypes, LeftBehind
<1>6. RunFits'
  <2>1. ThroughStages(run.at, run.results)'
    BY <1>1 DEF VerificationInv, RunFits, ThroughStages, Installs
  <2>2. run.at # "none" => run.on <= version'
    BY <1>2, <1>4 DEF VerificationInv, RunFits
  <2>3. run.ready /\ Ok(run.results) /\ run.on = version' => SeenOn(candidate, version)'
    <3> SUFFICES ASSUME run.ready, Ok(run.results), run.on = version' PROVE SeenOn(candidate, version)'
      OBVIOUS
    <3>1. run.at # "none" /\ run.on <= version /\ candidate' = candidate /\ version' = version
      <4>1. run.at # "none" /\ run.on <= version
        BY <1>2 DEF VerificationInv, RunFits
      <4>2. version' = version
        BY <1>2, <1>4, <4>1
      <4>. QED
        BY <1>1, <4>1, <4>2
    <3>. QED
      BY <1>1, <3>1 DEF VerificationInv, RunFits, SeenOn
  <2>. QED
    BY <1>1, <2>1, <2>2, <2>3 DEF VerificationInv, RunFits
<1>7. EvidenceFits'
  <2> SUFFICES ASSUME evidence # Missing PROVE EvidenceFits'
    BY <1>1 DEF EvidenceFits
  <2>1. evidence.on <= version'
    BY <1>2, <1>4 DEF VerificationInv, EvidenceFits
  <2>2. Gate(evidence.results) = "pass" /\ evidence.on = version' => SeenOn(evidence.receipt, version)'
    <3>1. evidence.on <= version /\ (evidence.on = version' => version' = version)
      BY <1>2, <1>4 DEF VerificationInv, EvidenceFits
    <3>. QED
      BY <1>1, <3>1 DEF VerificationInv, EvidenceFits, SeenOn
  <2>. QED
    BY <1>1, <2>1, <2>2 DEF VerificationInv, EvidenceFits, Installs
<1>8. CapturesFit'
  BY <1>1, <1>3 DEF VerificationInv, CapturesFit
<1>9. PromotesProved'
  BY <1>1 DEF VerificationInv, PromotesProved
<1>. QED
  BY <1>5, <1>6, <1>7, <1>8, <1>9 DEF VerificationInv

LEMMA GatePassed ==
  ASSUME VerificationInv, PassGate
  PROVE  VerificationInv'
<1>1. /\ evidence # Missing /\ evidence.receipt = candidate /\ evidence.on = version
      /\ Gate(evidence.results) = "pass"
      /\ promoted' = [content |-> candidate, on |-> version, run |-> evidence.run]
      /\ UNCHANGED <<candidate, version, plan, labManifest, evidence, run, windows, captures,
                     partial, kills, proved, browser, host>>
  BY DEF PassGate, Agrees, content, records, traces
<1>2. SeenOn(candidate, version)
  BY <1>1 DEF VerificationInv, EvidenceFits
<1>3. PromotesProved'
  BY <1>1, <1>2 DEF PromotesProved, SeenOn
<1>4. VerificationTypes' /\ RunFits' /\ EvidenceFits'
  BY <1>1
  DEF VerificationInv, VerificationTypes, RunFits, EvidenceFits, SeenOn, Installs, ThroughStages
<1>5. LeftBehind' /\ CapturesFit'
  BY <1>1 DEF VerificationInv, LeftBehind, CapturesFit
<1>. QED
  BY <1>3, <1>4, <1>5 DEF VerificationInv

LEMMA RunBegins ==
  ASSUME VerificationInv, Begin
  PROVE  VerificationInv'
<1>1. PICK verify \in BOOLEAN, client \in BOOLEAN, watched \in BOOLEAN, keep \in BOOLEAN :
        run' = Started(verify, client, watched, keep)
  BY DEF Begin
<1>2. /\ run.at = "none" /\ labManifest # Missing
      /\ labManifest' = [state |-> "applying", runs |-> labManifest.runs + 1]
      /\ UNCHANGED <<candidate, version, plan, evidence, windows, captures, partial, kills,
                     promoted, proved, browser, host>>
  BY DEF Begin, RunAt, content, traces, ghosts
<1> DEFINE status == IF verify /\ plan = "plugin" THEN "pass" ELSE "none"
           res == [Nothing EXCEPT !["install"] = status]
           at == IF verify THEN "compose" ELSE "install"
<1>3. /\ res \in Results /\ res["install"] = status
      /\ \A c \in Checks \ {"install"} : res[c] = "none"
  <2>1. "install" \in Checks \ Optional /\ status \in Statuses
    BY DEF Checks, Statuses, Optional
  <2>. QED
    BY <2>1, NothingIsResults, RecordedFields
<1>4. ~verify => res = Nothing
  <2>1. Nothing = [c \in Checks |-> "none"]
    BY DEF Nothing
  <2>. QED
    BY <2>1
<1>5. /\ run' \in RunRecord /\ run'.at = at /\ run'.results = res /\ run'.on = version
      /\ ~run'.ready
  <2>2. version \in Nat /\ at \in RunStages /\ res \in Results
    BY <1>3 DEF VerificationInv, VerificationTypes, RunStages
  <2>1. run' = [at |-> at, verify |-> verify, client |-> client, watched |-> watched,
                keep |-> keep, results |-> res, stayed |-> 0, ready |-> FALSE, on |-> version]
    BY <1>1 DEF Started, NoRun
  <2> HIDE DEF res, at
  <2>. QED
    BY <2>1, <2>2 DEF RunRecord
<1>6. /\ labManifest \in RunManifest /\ labManifest.runs \in Nat /\ labManifest' \in RunManifest
      /\ labManifest'.runs = labManifest.runs + 1
  BY <1>2 DEF VerificationInv, VerificationTypes, RunManifest
<1> HIDE DEF res, status
<1>7. ThroughStages(at, res) /\ res["browser-boot"] = "none"
  <2>1. verify /\ plan = "plugin" => res["install"] = "pass"
    BY <1>3 DEF status
  <2>2. res["browser-boot"] = "none"
    BY <1>3 DEF Checks
  <2>. QED
    BY <1>4, <2>1, <2>2 DEF ThroughStages, Installs, Launched, Looking, Ended
<1>8. VerificationTypes' /\ LeftBehind'
  BY <1>2, <1>5, <1>6
  DEF VerificationInv, VerificationTypes, LeftBehind, Launched, Looking
<1>9. RunFits'
  <2>1. version \in Nat
    BY DEF VerificationInv, VerificationTypes
  <2>2. ThroughStages(run.at, run.results)'
    BY <1>2, <1>5, <1>7 DEF ThroughStages, Installs
  <2>. QED
    BY <1>2, <1>5, <1>6, <1>7, <2>1, <2>2 DEF RunFits
<1>10. EvidenceFits'
  <2>1. evidence # Missing => evidence.run \in Nat /\ evidence.run <= labManifest.runs
    BY DEF VerificationInv, VerificationTypes, EvidenceFits, RunEvidence
  <2>2. evidence # Missing => evidence.run < labManifest.runs + 1
    BY <1>6, <2>1
  <2>. QED
    BY <1>2, <1>6, <2>1, <2>2 DEF VerificationInv, EvidenceFits, SeenOn, Installs
<1>11. CapturesFit'
  <2>1. \A i \in DOMAIN captures : captures[i].run \in Nat /\ captures[i].run <= labManifest.runs
    <3>1. captures \in Seq(CaptureRecord)
      BY DEF VerificationInv, VerificationTypes
    <3>. QED
      BY <1>6, <3>1, CaptureFields DEF VerificationInv, CapturesFit
  <2>2. \A i \in DOMAIN captures : captures[i].run < labManifest.runs + 1
                                   /\ captures[i].run <= labManifest.runs + 1
    BY <1>6, <2>1
  <2>. QED
    BY <1>2, <1>5, <1>6, <2>2 DEF VerificationInv, CapturesFit, Ended
<1>12. PromotesProved'
  BY <1>2 DEF VerificationInv, PromotesProved
<1>. QED
  BY <1>8, <1>9, <1>10, <1>11, <1>12 DEF VerificationInv

LEMMA VerificationStep == VerificationInv /\ [VerificationNext]_verificationVars => VerificationInv'
<1> SUFFICES ASSUME VerificationInv, [VerificationNext]_verificationVars PROVE VerificationInv'
  OBVIOUS
<1>1. CASE UNCHANGED verificationVars
  <2>1. VerificationTypes' /\ RunFits' /\ EvidenceFits'
    BY <1>1
    DEF verificationVars, VerificationInv, VerificationTypes, RunFits, EvidenceFits, SeenOn,
        Installs, ThroughStages
  <2>2. LeftBehind' /\ CapturesFit' /\ PromotesProved'
    BY <1>1 DEF verificationVars, VerificationInv, LeftBehind, CapturesFit, PromotesProved
  <2>. QED
    BY <2>1, <2>2 DEF VerificationInv
<1>2. CASE RunStep
  BY <1>2, RunInstalls, RunComposes, RunThrows, HostBoots, BrowserLaunches, BrowserLooks,
     ShellSettles, BrowserCloses, HostStops, ManifestSaved, EvidenceSaved, PassedRemoved
  DEF RunStep
<1>3. CASE Begin \/ KillRun \/ WindowEnds \/ WindowsClose \/ Changes \/ PassGate
  BY <1>3, RunBegins, RunKilled, WindowsEnd, OthersChange, GatePassed
<1>. QED
  BY <1>1, <1>2, <1>3 DEF VerificationNext

(* verification-standard: what passes the gate of a promotion was seen to  *)
(* work by a run of this content on this host, the records agree with the  *)
(* run, and no run leaves anything behind, for any limits.                 *)
THEOREM VerificationIsSound == VerificationSpec => []VerificationSound
<1>1. VerificationInit => VerificationInv
  <2> SUFFICES ASSUME VerificationInit PROVE VerificationInv
    OBVIOUS
  <2>1. /\ candidate = 0 /\ version = 0 /\ labManifest = [state |-> "created", runs |-> 0]
        /\ evidence = Missing /\ run = NoRun /\ browser = "none" /\ host = "down"
        /\ windows = <<>> /\ captures = <<>> /\ partial = 0 /\ promoted = Missing /\ kills = 0
    BY DEF VerificationInit
  <2>2. "browser-boot" \in Checks
    BY DEF Checks
  <2>3. VerificationTypes
    BY <2>1, NothingIsResults DEF VerificationTypes, RunManifest
  <2>4. RunFits /\ EvidenceFits
    BY <2>1, <2>2, NothingIsResults
    DEF RunFits, EvidenceFits, ThroughStages, Ended, Launched, Looking
  <2>5. LeftBehind /\ CapturesFit /\ PromotesProved
    BY <2>1, NothingIsResults, VerificationAssumption
    DEF LeftBehind, CapturesFit, PromotesProved, Launched, Looking, Ended
  <2>. QED
    BY <2>3, <2>4, <2>5 DEF VerificationInv
<1>2. VerificationInv => VerificationSound
  <2> SUFFICES ASSUME VerificationInv PROVE VerificationSound
    OBVIOUS
  <2>1. RecordsAgree
    <3> SUFFICES ASSUME labManifest # Missing, evidence # Missing,
                        evidence.run = labManifest.runs, RunAt("none")
                 PROVE  /\ labManifest.state = (IF Ok(evidence.results) THEN "passed" ELSE "failed")
                        /\ Ok(evidence.results) =>
                             /\ {"compose", "host-boot", "http-ready"} \subseteq
                                  {c \in Checks : evidence.results[c] = "pass"}
                             /\ plan = "plugin" => evidence.results["install"] = "pass"
      BY DEF RecordsAgree
    <3>1. /\ labManifest.state = (IF Ok(evidence.results) THEN "passed" ELSE "failed")
          /\ Failed(evidence.results) \/ (Installs(evidence.results) /\ Booted(evidence.results))
          /\ evidence.results \in Results
      BY DEF VerificationInv, VerificationTypes, EvidenceFits, RunEvidence
    <3>2. Ok(evidence.results) => ~Failed(evidence.results)
      BY <3>1 DEF Ok, Failed, Results
    <3>. QED
      BY <3>1, <3>2 DEF Ok, Failed, Installs, Booted, Checks, Optional
  <2>2. NothingLeft
    BY DEF VerificationInv, LeftBehind, NothingLeft, RunAt, Launched, Looking
  <2>3. CapturesKept
    <3>1. partial \in Nat /\ kills \in Nat
      BY DEF VerificationInv, VerificationTypes
    <3>. QED
      BY <3>1 DEF VerificationInv, LeftBehind, CapturesFit, CapturesKept, RunAt, Looking, RunFits
  <2>. QED
    BY <2>1, <2>2, <2>3 DEF VerificationInv, VerificationSound
<1>. QED
  BY <1>1, <1>2, VerificationStep, PTL DEF VerificationSpec

=============================================================================
