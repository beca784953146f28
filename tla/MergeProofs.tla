----------------------------- MODULE MergeProofs -----------------------------
(***************************************************************************)
(* A merge is done or undone, for every number of candidates and edits.    *)
(*                                                                         *)
(* None of the three parts of MergeWhole is inductive.  MergeInv adds what *)
(* the operation relies on at each of its steps: what it has moved and     *)
(* where that is now (Placed), that nobody but people changed a line since *)
(* it was looked at, and what they did counts up (Seen), and, as long as   *)
(* nothing went wrong for good, whose files and modules the target has     *)
(* (Halfway).                                                              *)
(***************************************************************************)
EXTENDS Merge, TLAPS

Files == [base : Nat, edits : Nat]
Candidate == [saved : BOOLEAN, verdict : {Nothing, "ok", "review", "fail"}, committed : BOOLEAN,
              target : Files, source : Nat, frozen : Nat \cup {Nothing},
              pre : Files \cup {Nothing}, dir : BOOLEAN, changed : BOOLEAN]
Moved == [had : BOOLEAN, modules : BOOLEAN, files : BOOLEAN,
          originals : Files \cup {Nothing}, pre : Files \cup {Nothing}]
Tree == Candidates \cup {0}

Preparing == {"freezing", "verifying"}
Checked == {"setting aside", "moving in", "swapping", "recording"}
Undoing == {"undo files", "undo move", "undo aside"}
Steps == {"idle", "saving", "checking"} \cup Preparing \cup Checked \cup Undoing

Made(k) == cand[k] # NoCandidate

MergeTypes ==
  /\ files \in Files
  /\ modules \in Tree \cup {Nothing}
  /\ staging \in BOOLEAN
  /\ source \in Nat
  /\ cand \in [Candidates -> Candidate \cup {NoCandidate}]
  /\ backup \in [Candidates -> Tree \cup {Nothing}]
  /\ at \in Steps
  /\ moved \in Moved
  /\ fault \in {"none", "swap", "undo", "killed"}
  /\ IF at = "idle" THEN cur = Nothing ELSE cur \in Candidates /\ Made(cur)

(* Where a tree is: a candidate's in its lab, in the target or set aside.  *)
Places(k) ==
  /\ cand[k].dir => modules # k /\ \A j \in Candidates : backup[j] # k
  /\ ~cand[k].dir => modules = k \/ \E j \in Candidates : backup[j] = k

(* Every tree is in one place, and of a candidate that exists.             *)
TreesPlaced ==
  /\ modules \in Candidates => Made(modules)
  /\ \A j \in Candidates : backup[j] \in Candidates => Made(backup[j])
  /\ modules # Nothing => \A j \in Candidates : backup[j] # modules
  /\ \A i, j \in Candidates : i # j /\ backup[i] # Nothing => backup[i] # backup[j]
  /\ \A k \in Candidates : Made(k) => Places(k)

(* What the operation has moved, and where that is.                        *)
Placed ==
  /\ at \in {"idle", "saving"} \cup Preparing => moved = NothingMoved
  /\ at \in Preparing => cand[cur].dir
  /\ at \in {"checking", "setting aside"} => ~moved.had
  /\ at \in {"checking", "setting aside", "moving in"} => ~moved.modules
  /\ at \notin {"recording"} \cup Undoing => ~moved.files
  /\ at \in {"swapping", "recording"} => moved.modules
  /\ at = "moving in" => modules = Nothing
  /\ at \in {"swapping", "recording", "undo files", "undo move"} /\ moved.modules => modules = cur
  /\ at = "recording" => moved.files
  /\ at \in Checked \/ moved.files => moved.originals # Nothing

(* What was looked at is what it was, or was edited and counts more edits. *)
Older(f, g) == f.base = g.base /\ f.edits <= g.edits

Seen ==
  /\ \A k \in Candidates : Made(k) =>
       /\ cand[k].source <= source
       /\ cand[k].frozen # Nothing => cand[k].source <= cand[k].frozen /\ cand[k].frozen <= source
       /\ cand[k].saved => cand[k].frozen # Nothing
  /\ at \in Preparing => ~cand[cur].saved /\ ~cand[cur].committed
  /\ at = "verifying" => cand[cur].frozen # Nothing
  /\ at \in {"saving", "checking"} \cup Checked => cand[cur].saved
  /\ at = "saving" => Older(cand[cur].target, files)
  /\ at = "checking" =>
       moved.pre # Nothing /\ Older(cand[cur].target, moved.pre) /\ Older(moved.pre, files)
  /\ at \in Checked => cand[cur].frozen = cand[cur].source /\ moved.pre = cand[cur].target

(* The tree that belongs to the files before the commit.                   *)
Original == IF moved.had THEN backup[cur] ELSE 0

(* Files and modules while the modules move there or back.                 *)
Reversible ==
  IF moved.had \/ moved.modules
  THEN files.base = Original /\ modules = IF moved.modules THEN cur ELSE Nothing
  ELSE Whole

Halfway ==
  fault = "none" =>
    /\ at \notin {"moving in", "swapping", "recording"} \cup Undoing => Whole
    /\ at \in {"moving in", "swapping"} =>
         files.base = Original /\ modules = IF moved.modules THEN cur ELSE Nothing
    /\ at = "setting aside" => moved.originals.base = files.base
    /\ at \in {"moving in", "swapping", "recording"} => moved.originals.base = Original
    /\ at = "recording" => files.base = cur
    /\ at = "undo files" =>
         IF moved.files THEN moved.modules /\ moved.originals.base = Original ELSE Reversible
    /\ at = "undo move" => Reversible
    /\ at = "undo aside" =>
         IF moved.had THEN files.base = backup[cur] /\ modules = Nothing ELSE Whole
    /\ moved.had => backup[cur] # Nothing

MergeInv ==
  /\ MergeTypes /\ TreesPlaced /\ Placed /\ Seen /\ Halfway
  /\ \A k \in Candidates : CommittedAsVerified(k)

-----------------------------------------------------------------------------
(* Candidates                                                              *)
LEMMA NoneMade == NoCandidate \notin Candidate /\ NoCandidate.saved = FALSE
BY DEF NoCandidate, Candidate

LEMMA Nowhere == /\ Candidates \subseteq Nat \ {0} /\ Nothing \notin Tree
                 /\ Nothing \notin Nat /\ Nothing \notin Files
<1>1. Candidates \subseteq Nat \ {0}
  BY MergeAssumption DEF Candidates
<1>2. Nothing \notin Nat /\ 0 \in Nat
  BY MergeAssumption
<1>3. Nothing \notin Tree
  BY <1>1, <1>2 DEF Tree
<1> QED
  BY <1>1, <1>2, <1>3, MergeAssumption DEF Files

LEMMA Fields ==
  ASSUME MergeTypes, NEW k \in Candidates, Made(k)
  PROVE  /\ cand[k] \in Candidate
         /\ cand[k].saved \in BOOLEAN /\ cand[k].committed \in BOOLEAN
         /\ cand[k].dir \in BOOLEAN /\ cand[k].changed \in BOOLEAN
         /\ cand[k].target \in Files /\ cand[k].source \in Nat
         /\ cand[k].verdict \in {Nothing, "ok", "review", "fail"}
         /\ cand[k].frozen \in Nat \cup {Nothing} /\ cand[k].pre \in Files \cup {Nothing}
<1>1. cand[k] \in Candidate
  BY DEF MergeTypes, Made
<1> QED
  BY <1>1 DEF Candidate

LEMMA SavedIsMade ==
  ASSUME MergeTypes, NEW k \in Candidates, cand[k].saved PROVE Made(k)
BY NoneMade DEF Made

LEMMA Moves ==
  ASSUME MergeTypes
  PROVE  /\ moved.had \in BOOLEAN /\ moved.modules \in BOOLEAN /\ moved.files \in BOOLEAN
         /\ moved.originals \in Files \cup {Nothing} /\ moved.pre \in Files \cup {Nothing}
BY DEF MergeTypes, Moved

LEMMA Ends == NothingMoved \in Moved /\ ~NothingMoved.had /\ ~NothingMoved.modules
              /\ ~NothingMoved.files
BY DEF NothingMoved, Moved

LEMMA Numbers ==
  ASSUME NEW f \in Files
  PROVE  f.base \in Nat /\ f.edits \in Nat /\ f = [base |-> f.base, edits |-> f.edits]
BY DEF Files

LEMMA OlderBothWays ==
  ASSUME NEW f \in Files, NEW g \in Files, Older(f, g), Older(g, f) PROVE f = g
BY Numbers DEF Older

LEMMA OlderStill ==
  ASSUME NEW f \in Files, NEW g \in Files, NEW h \in Files, Older(f, g), Older(g, h)
  PROVE  Older(f, h)
BY Numbers DEF Older

(* Where trees are is a matter of directories.                             *)
LEMMA TreesStay ==
  ASSUME TreesPlaced, UNCHANGED <<modules, backup>>,
         \A k \in Candidates : (Made(k)' <=> Made(k)) /\ (Made(k) => cand'[k].dir = cand[k].dir)
  PROVE  TreesPlaced'
BY DEF TreesPlaced, Places

(* A change of one candidate's record.                                     *)
LEMMA OneChanges ==
  ASSUME MergeTypes, NEW k \in Candidates, NEW r \in Candidate,
         cand' = [cand EXCEPT ![k] = r]
  PROVE  /\ cand'[k] = r /\ Made(k)'
         /\ \A j \in Candidates : j # k => cand'[j] = cand[j] /\ (Made(j)' <=> Made(j))
         /\ cand' \in [Candidates -> Candidate \cup {NoCandidate}]
<1>1. cand'[k] = r /\ \A j \in Candidates : j # k => cand'[j] = cand[j]
  BY DEF MergeTypes
<1>2. cand' \in [Candidates -> Candidate \cup {NoCandidate}]
  BY DEF MergeTypes
<1> QED
  BY <1>1, <1>2, NoneMade DEF Made

LEMMA InitMerge == MergeInit => MergeInv
<1> SUFFICES ASSUME MergeInit PROVE MergeInv
  OBVIOUS
<1>1. \A k \in Candidates : ~Made(k) /\ ~cand[k].saved
  BY DEF MergeInit, Made, NoCandidate
<1>2. MergeTypes
  <2>1. files \in Files /\ moved \in Moved
    BY Ends DEF MergeInit, Files
  <2> QED
    BY <2>1 DEF MergeInit, MergeTypes, Tree, Steps
<1>3. TreesPlaced
  BY <1>1, Nowhere DEF MergeInit, TreesPlaced
<1>4. Placed /\ Seen
  BY <1>1 DEF MergeInit, Placed, Seen, NothingMoved, Preparing, Checked, Undoing
<1>5. Halfway
  BY DEF MergeInit, Halfway, NothingMoved, Whole, Undoing
<1> QED
  BY <1>1, <1>2, <1>3, <1>4, <1>5 DEF MergeInv, CommittedAsVerified

-----------------------------------------------------------------------------
(* prepareMerge                                                            *)
LEMMA FreezesStep == ASSUME MergeInv, Freeze PROVE MergeInv'
<1> USE DEF MergeInv
<1> DEFINE r == [cand[cur] EXCEPT !.frozen = source]
<1>1. /\ at = "freezing" /\ at' = "verifying" /\ cur \in Candidates /\ Made(cur)
      /\ source \in Nat /\ cand' = [cand EXCEPT ![cur] = r]
      /\ UNCHANGED <<files, modules, staging, source, backup, cur, moved, fault>>
  BY DEF Freeze, At, Go, MergeTypes
<1>2. /\ r \in Candidate /\ r.frozen = source /\ r.saved = cand[cur].saved
      /\ r.committed = cand[cur].committed /\ r.dir = cand[cur].dir
      /\ r.source = cand[cur].source /\ r.target = cand[cur].target /\ r.pre = cand[cur].pre
  BY <1>1, Fields DEF Candidate
<1> HIDE DEF r
<1>3. /\ cand' \in [Candidates -> Candidate \cup {NoCandidate}] /\ cand'[cur] = r
      /\ \A k \in Candidates : (Made(k)' <=> Made(k)) /\ (k # cur => cand'[k] = cand[k])
  BY <1>1, <1>2, OneChanges
<1>4. MergeTypes'
  BY <1>1, <1>3 DEF MergeTypes, Steps, Preparing, Made
<1>5. TreesPlaced'
  BY <1>1, <1>2, <1>3, TreesStay
<1>6. Placed'
  BY <1>1, <1>2, <1>3 DEF Placed, NothingMoved, Preparing, Checked, Undoing
<1>7. Seen'
  <2>1. \A k \in Candidates : Made(k) => cand'[k].source = cand[k].source
    BY <1>2, <1>3
  <2>2. cand[cur].source <= source /\ source <= source /\ source # Nothing
    BY <1>1, Nowhere DEF Seen
  <2> QED
    BY <1>1, <1>2, <1>3, <2>1, <2>2 DEF Seen, Preparing, Checked, Undoing
<1>8. Halfway'
  BY <1>1, <1>2, <1>3 DEF Halfway, Original, Reversible, Whole, Checked, Undoing
<1>9. \A k \in Candidates : CommittedAsVerified(k)'
  BY <1>1, <1>2, <1>3 DEF CommittedAsVerified, Seen, Preparing
<1> QED
  BY <1>4, <1>5, <1>6, <1>7, <1>8, <1>9

LEMMA VerifiedStep ==
  ASSUME MergeInv, NEW verdict \in {"ok", "review", "fail"}, Verified(verdict)
  PROVE  MergeInv'
<1> USE DEF MergeInv
<1> DEFINE r == [cand[cur] EXCEPT !.saved = TRUE, !.verdict = verdict]
<1>1. /\ at = "verifying" /\ at' = "idle" /\ cur' = Nothing /\ moved' = NothingMoved
      /\ cur \in Candidates /\ Made(cur)
      /\ cand' = [cand EXCEPT ![cur] = r]
      /\ UNCHANGED <<files, modules, staging, source, backup, fault>>
  BY DEF Verified, At, Leave, MergeTypes
<1>2. /\ r \in Candidate /\ r.saved = TRUE /\ r.verdict = verdict
      /\ r.committed = cand[cur].committed /\ r.target = cand[cur].target
      /\ r.source = cand[cur].source /\ r.frozen = cand[cur].frozen /\ r.pre = cand[cur].pre
      /\ r.dir = cand[cur].dir
  BY <1>1, Fields, Moves DEF Candidate
<1> HIDE DEF r
<1>3. /\ cand' \in [Candidates -> Candidate \cup {NoCandidate}] /\ cand'[cur] = r
      /\ \A k \in Candidates : (Made(k)' <=> Made(k)) /\ (k # cur => cand'[k] = cand[k])
  BY <1>1, <1>2, OneChanges
<1>4. MergeTypes'
  BY <1>1, <1>2, <1>3, Ends DEF MergeTypes, Steps, Preparing, Checked, Undoing
<1>5. TreesPlaced'
  BY <1>1, <1>2, <1>3, TreesStay
<1>6. Placed'
  BY <1>1, <1>2, <1>3 DEF Placed, Preparing, Checked, Undoing, NothingMoved
<1>7. Seen'
  BY <1>1, <1>2, <1>3, Nowhere DEF Seen, Older, Preparing, Checked, Undoing
<1>8. Halfway'
  BY <1>1, <1>2, <1>3, Ends DEF Halfway, Whole, Checked, Undoing
<1>9. \A k \in Candidates : CommittedAsVerified(k)'
  BY <1>1, <1>2, <1>3 DEF CommittedAsVerified, Seen, Preparing
<1> QED
  BY <1>4, <1>5, <1>6, <1>7, <1>8, <1>9

LEMMA NotPreparedStep == ASSUME MergeInv, NotPrepared PROVE MergeInv'
<1> USE DEF MergeInv
<1>1. /\ at \in Preparing /\ cur \in Candidates /\ Made(cur)
      /\ at' = "idle" /\ cur' = Nothing /\ moved' = NothingMoved
      /\ cand' = [cand EXCEPT ![cur] = NoCandidate]
      /\ UNCHANGED <<files, modules, staging, source, backup, fault>>
  BY DEF NotPrepared, Leave, MergeTypes, Preparing
<1>2. /\ cand' \in [Candidates -> Candidate \cup {NoCandidate}] /\ cand'[cur] = NoCandidate
      /\ cand'[cur].saved = FALSE
      /\ \A k \in Candidates : k # cur => cand'[k] = cand[k] /\ (Made(k)' <=> Made(k))
  <2>1. /\ cand'[cur] = NoCandidate /\ cand' \in [Candidates -> Candidate \cup {NoCandidate}]
        /\ \A k \in Candidates : k # cur => cand'[k] = cand[k]
    BY <1>1 DEF MergeTypes
  <2> QED
    BY <1>1, <2>1, NoneMade DEF Made
<1>3. modules # cur /\ \A j \in Candidates : backup[j] # cur
  BY <1>1 DEF TreesPlaced, Places, Placed, Preparing
<1>4. MergeTypes'
  BY <1>1, <1>2, Ends DEF MergeTypes, Steps
<1>5. TreesPlaced'
  <2>1. modules' \in Candidates => Made(modules)'
    BY <1>1, <1>2, <1>3 DEF TreesPlaced, Made
  <2>2. \A j \in Candidates : backup'[j] \in Candidates => Made(backup[j])'
    BY <1>1, <1>2, <1>3 DEF TreesPlaced, Made
  <2>3. modules' # Nothing => \A j \in Candidates : backup'[j] # modules'
    BY <1>1, <1>2, <1>3 DEF TreesPlaced, Places, Made
  <2>4. \A i, j \in Candidates : i # j /\ backup'[i] # Nothing => backup'[i] # backup'[j]
    BY <1>1, <1>2, <1>3 DEF TreesPlaced
  <2>5. ASSUME NEW k \in Candidates, Made(k)' PROVE Places(k)'
    <3>1. Made(k) /\ Places(k)
      BY <2>5, <1>1, <1>2, <1>3 DEF TreesPlaced, Made
    <3>2. k # cur
      BY <2>5, <1>2 DEF Made
    <3> QED
      BY <3>1, <3>2, <1>1, <1>2, <1>3 DEF Places
  <2> QED
    BY <2>1, <2>2, <2>3, <2>4, <2>5 DEF TreesPlaced
<1>6. Placed' /\ Halfway'
  BY <1>1, Ends DEF Placed, Halfway, Whole, Preparing, Checked, Undoing
<1>7. Seen'
  BY <1>1, <1>2 DEF Seen, Preparing, Checked, Made
<1>8. \A k \in Candidates : CommittedAsVerified(k)'
  BY <1>1, <1>2 DEF CommittedAsVerified
<1> QED
  BY <1>4, <1>5, <1>6, <1>7, <1>8

LEMMA PrepareStep == ASSUME MergeInv, NEW c \in Candidates, Prepare(c) PROVE MergeInv'
<1> USE DEF MergeInv
<1> DEFINE r == [saved |-> FALSE, verdict |-> Nothing, committed |-> FALSE,
                 target |-> files, source |-> source, frozen |-> Nothing, pre |-> Nothing,
                 dir |-> TRUE, changed |-> FALSE]
<1>1. /\ at = "idle" /\ ~Made(c) /\ at' = "freezing" /\ cur' = c
      /\ cand' = [cand EXCEPT ![c] = r]
      /\ UNCHANGED <<files, modules, staging, source, backup, moved, fault>>
  BY DEF Prepare, Idle, Go, Made
<1>2. /\ r \in Candidate /\ r.saved = FALSE /\ r.committed = FALSE
      /\ r.target = files /\ r.source = source /\ r.frozen = Nothing /\ r.dir = TRUE
  BY DEF Candidate, MergeTypes
<1> HIDE DEF r
<1>3. /\ cand' \in [Candidates -> Candidate \cup {NoCandidate}] /\ cand'[c] = r /\ Made(c)'
      /\ \A k \in Candidates : k # c => cand'[k] = cand[k] /\ (Made(k)' <=> Made(k))
  BY <1>1, <1>2, OneChanges
<1>4. modules # c /\ \A j \in Candidates : backup[j] # c
  BY <1>1 DEF TreesPlaced
<1>5. MergeTypes'
  BY <1>1, <1>3 DEF MergeTypes, Steps, Preparing
<1>6. TreesPlaced'
  BY <1>1, <1>2, <1>3, <1>4 DEF TreesPlaced, Places
<1>7. Placed' /\ Halfway'
  <2>1. moved = NothingMoved
    BY <1>1 DEF Placed
  <2> QED
    BY <1>1, <1>2, <1>3, <2>1, Ends DEF Placed, Halfway, Whole, Preparing, Checked, Undoing
<1>8. Seen'
  <2>1. source <= source
    BY DEF MergeTypes
  <2> QED
    BY <1>1, <1>2, <1>3, <2>1 DEF Seen, Preparing, Checked
<1>9. \A k \in Candidates : CommittedAsVerified(k)'
  BY <1>1, <1>2, <1>3 DEF CommittedAsVerified
<1> QED
  BY <1>5, <1>6, <1>7, <1>8, <1>9

-----------------------------------------------------------------------------
(* commitMerge                                                             *)
LEMMA CommitStep == ASSUME MergeInv, NEW c \in Candidates, Commit(c) PROVE MergeInv'
<1> USE DEF MergeInv
<1>1. /\ at = "idle" /\ at' = "saving" /\ cur' = c
      /\ cand[c].saved /\ Made(c) /\ files = cand[c].target
      /\ UNCHANGED <<files, modules, staging, source, cand, backup, moved, fault>>
  BY SavedIsMade DEF Commit, Idle, Go, Unchanged
<1>2. moved = NothingMoved
  BY <1>1 DEF Placed
<1>3. MergeTypes'
  BY <1>1, <1>2 DEF MergeTypes, Steps, Preparing, Checked, Undoing, Made
<1>4. TreesPlaced'
  BY <1>1, <1>2, TreesStay DEF Made
<1>5. Placed'
  BY <1>1, <1>2, Ends DEF Placed, Preparing, Checked, Undoing, NothingMoved
<1>6. Seen'
  BY <1>1, <1>2, Numbers DEF Seen, Older, Preparing, Checked, Undoing, Made, MergeTypes
<1>7. Halfway'
  BY <1>1, <1>2, Ends DEF Halfway, Whole, Checked, Undoing
<1>8. \A k \in Candidates : CommittedAsVerified(k)'
  BY <1>1, <1>2 DEF CommittedAsVerified
<1> QED
  BY <1>3, <1>4, <1>5, <1>6, <1>7, <1>8

LEMMA SaveTargetStep == ASSUME MergeInv, SaveTarget PROVE MergeInv'
<1> USE DEF MergeInv
<1>1. /\ at = "saving" /\ cur \in Candidates /\ Made(cur) /\ moved = NothingMoved
      /\ UNCHANGED <<files, modules, staging, source, cand, backup, fault>>
  BY DEF SaveTarget, At, MergeTypes, Placed
<1>2. \/ moved' = [moved EXCEPT !.pre = files] /\ at' = "checking" /\ cur' = cur
      \/ at' = "idle" /\ cur' = Nothing /\ moved' = NothingMoved
  BY DEF SaveTarget, Go, Leave
<1>3. /\ moved' \in Moved /\ ~moved'.had /\ ~moved'.modules /\ ~moved'.files
      /\ at' = "checking" => moved'.pre = files
  BY <1>1, <1>2, Ends DEF Moved, MergeTypes, NothingMoved
<1>4. MergeTypes'
  BY <1>1, <1>2, <1>3 DEF MergeTypes, Steps, Made
<1>5. TreesPlaced'
  BY <1>1, TreesStay DEF Made
<1>6. Placed' /\ Halfway'
  BY <1>1, <1>2, <1>3 DEF Placed, Halfway, Whole, Preparing, Checked, Undoing
<1>7. Seen'
  <2>1. files # Nothing /\ Older(files, files)
    BY Nowhere, Numbers DEF MergeTypes, Older
  <2> QED
    BY <1>1, <1>2, <1>3, <2>1 DEF Seen, Preparing, Checked, Made
<1>8. \A k \in Candidates : CommittedAsVerified(k)'
  BY <1>1 DEF CommittedAsVerified
<1> QED
  BY <1>4, <1>5, <1>6, <1>7, <1>8

LEMMA CheckAgainStep == ASSUME MergeInv, CheckAgain PROVE MergeInv'
<1> USE DEF MergeInv
<1>1. /\ at = "checking" /\ cur \in Candidates /\ Made(cur)
      /\ ~moved.had /\ ~moved.modules /\ ~moved.files
      /\ UNCHANGED <<files, modules, staging, source, cand, backup, fault>>
  BY DEF CheckAgain, At, MergeTypes, Placed, Undoing
<1>2. \/ /\ at' = "setting aside" /\ moved' = [moved EXCEPT !.originals = files] /\ cur' = cur
         /\ files = cand[cur].target /\ source = cand[cur].source
      \/ at' = "idle" /\ cur' = Nothing /\ moved' = NothingMoved
  BY DEF CheckAgain, Go, Leave, Unchanged
<1>3. /\ moved' \in Moved /\ ~moved'.had /\ ~moved'.modules /\ ~moved'.files
      /\ at' = "setting aside" => moved'.originals = files /\ moved'.pre = moved.pre
  BY <1>1, <1>2, Ends DEF Moved, MergeTypes
<1>4. files # Nothing
  BY Nowhere DEF MergeTypes
<1>5. MergeTypes'
  BY <1>1, <1>2, <1>3 DEF MergeTypes, Steps, Checked, Made
<1>6. TreesPlaced'
  BY <1>1, TreesStay DEF Made
<1>7. Placed' /\ Halfway'
  <2>1. at' = "idle" => moved' = NothingMoved
    BY <1>2
  <2> QED
    BY <1>1, <1>2, <1>3, <1>4, <2>1 DEF Placed, Halfway, Whole, Preparing, Checked, Undoing
<1>8. Seen'
  <2>1. ASSUME at' = "setting aside"
        PROVE  cand[cur].frozen = cand[cur].source /\ moved.pre = cand[cur].target
    <3>1. /\ files = cand[cur].target /\ source = cand[cur].source
          /\ cand[cur].saved /\ cand[cur].frozen # Nothing
          /\ cand[cur].source <= cand[cur].frozen /\ cand[cur].frozen <= source
          /\ moved.pre # Nothing /\ Older(files, moved.pre) /\ Older(moved.pre, files)
      BY <1>1, <1>2, <2>1 DEF Seen
    <3>2. /\ source \in Nat /\ cand[cur].frozen \in Nat /\ moved.pre \in Files /\ files \in Files
      BY <1>1, <3>1, Fields, Moves DEF MergeTypes
    <3> QED
      BY <3>1, <3>2, OlderBothWays
  <2> QED
    BY <1>1, <1>2, <1>3, <2>1 DEF Seen, Preparing, Checked, Made
<1>9. \A k \in Candidates : CommittedAsVerified(k)'
  BY <1>1 DEF CommittedAsVerified
<1> QED
  BY <1>5, <1>6, <1>7, <1>8, <1>9

LEMMA SetAsideStep == ASSUME MergeInv, SetAside PROVE MergeInv'
<1> USE DEF MergeInv
<1>1. /\ at = "setting aside" /\ at' = "moving in" /\ cur \in Candidates /\ Made(cur)
      /\ modules # Nothing => backup[cur] = Nothing
      /\ backup' = IF modules = Nothing THEN backup ELSE [backup EXCEPT ![cur] = modules]
      /\ modules' = Nothing /\ moved' = [moved EXCEPT !.had = modules # Nothing]
      /\ UNCHANGED <<files, staging, source, cand, cur, fault>>
  BY DEF SetAside, At, Go, MergeTypes
<1>2. /\ moved' \in Moved /\ (moved'.had <=> modules # Nothing)
      /\ moved'.modules = moved.modules /\ moved'.files = moved.files
      /\ moved'.originals = moved.originals /\ moved'.pre = moved.pre
      /\ ~moved.modules /\ ~moved.files
  BY <1>1 DEF Moved, MergeTypes, Placed, Undoing
<1>3. /\ backup' \in [Candidates -> Tree \cup {Nothing}] /\ Nothing \notin Candidates
      /\ modules # Nothing => backup'[cur] = modules
      /\ \A j \in Candidates : j # cur => backup'[j] = backup[j]
      /\ modules = Nothing => backup' = backup
  BY <1>1, Nowhere DEF MergeTypes, Tree
<1>4. MergeTypes'
  BY <1>1, <1>2, <1>3 DEF MergeTypes, Steps, Preparing, Checked, Undoing, Made
<1>5. TreesPlaced'
  <2>1. modules' \in Candidates => Made(modules)'
    BY <1>1, <1>2, <1>3 DEF TreesPlaced, Made
  <2>2. \A j \in Candidates : backup'[j] \in Candidates => Made(backup[j])'
    BY <1>1, <1>2, <1>3 DEF TreesPlaced, Made
  <2>3. modules' # Nothing => \A j \in Candidates : backup'[j] # modules'
    BY <1>1, <1>2, <1>3 DEF TreesPlaced, Places, Made
  <2>4. \A i, j \in Candidates : i # j /\ backup'[i] # Nothing => backup'[i] # backup'[j]
    BY <1>1, <1>2, <1>3 DEF TreesPlaced
  <2>5. ASSUME NEW k \in Candidates, Made(k)' PROVE Places(k)'
    <3>1. Made(k) /\ Places(k)
      BY <2>5, <1>1, <1>2, <1>3 DEF TreesPlaced, Made
    <3>2. CASE k = cur
      BY <3>1, <3>2, <1>1, <1>2, <1>3 DEF Places
    <3>3. CASE k # cur
      BY <3>1, <3>3, <1>1, <1>2, <1>3 DEF Places
    <3> QED
      BY <3>2, <3>3
  <2> QED
    BY <2>1, <2>2, <2>3, <2>4, <2>5 DEF TreesPlaced
<1>6. Placed'
  BY <1>1, <1>2, <1>3 DEF Placed, Preparing, Checked, Undoing, NothingMoved
<1>7. Seen'
  BY <1>1, <1>2, <1>3 DEF Seen, Older, Preparing, Checked, Undoing, Made
<1>8. Halfway'
  BY <1>1, <1>2, <1>3 DEF Halfway, Whole, Checked, Undoing, Original
<1>9. \A k \in Candidates : CommittedAsVerified(k)'
  BY <1>1, <1>2, <1>3 DEF CommittedAsVerified
<1> QED
  BY <1>4, <1>5, <1>6, <1>7, <1>8, <1>9

LEMMA MoveInStep == ASSUME MergeInv, MoveIn PROVE MergeInv'
<1> USE DEF MergeInv
<1> DEFINE r == [cand[cur] EXCEPT !.dir = FALSE]
<1>1. /\ at = "moving in" /\ at' = "swapping" /\ cand[cur].dir
      /\ modules' = cur /\ moved' = [moved EXCEPT !.modules = TRUE]
      /\ cur \in Candidates /\ Made(cur)
      /\ cand' = [cand EXCEPT ![cur] = r]
      /\ UNCHANGED <<files, staging, source, backup, cur, fault>>
  BY DEF MoveIn, At, Go, MergeTypes
<1>2. /\ r \in Candidate /\ r.dir = FALSE
      /\ r.saved = cand[cur].saved /\ r.committed = cand[cur].committed
      /\ r.target = cand[cur].target /\ r.source = cand[cur].source
      /\ r.frozen = cand[cur].frozen /\ r.pre = cand[cur].pre
  BY <1>1, Fields, Moves DEF Candidate
<1> HIDE DEF r
<1>3. /\ cand' \in [Candidates -> Candidate \cup {NoCandidate}] /\ cand'[cur] = r
      /\ \A k \in Candidates : (Made(k)' <=> Made(k)) /\ (k # cur => cand'[k] = cand[k])
  BY <1>1, <1>2, OneChanges
<1>4. /\ moved' \in Moved /\ moved'.modules /\ moved'.had = moved.had
      /\ moved'.files = moved.files /\ moved'.originals = moved.originals
      /\ moved'.pre = moved.pre /\ ~moved.files
  BY <1>1 DEF Moved, MergeTypes, Placed, Undoing
<1>5. modules = Nothing /\ Nothing \notin Candidates
  BY <1>1, Nowhere DEF Placed, Tree
<1>6. MergeTypes'
  BY <1>1, <1>2, <1>3, <1>4, <1>5 DEF MergeTypes, Steps, Preparing, Checked, Undoing, Tree
<1>7. TreesPlaced'
  <2>1. modules' \in Candidates => Made(modules)'
    BY <1>1, <1>2, <1>3, <1>4, <1>5 DEF TreesPlaced, Made
  <2>2. \A j \in Candidates : backup'[j] \in Candidates => Made(backup[j])'
    BY <1>1, <1>2, <1>3, <1>4, <1>5 DEF TreesPlaced, Made
  <2>3. modules' # Nothing => \A j \in Candidates : backup'[j] # modules'
    BY <1>1, <1>2, <1>3, <1>4, <1>5 DEF TreesPlaced, Places, Made
  <2>4. \A i, j \in Candidates : i # j /\ backup'[i] # Nothing => backup'[i] # backup'[j]
    BY <1>1, <1>2, <1>3, <1>4, <1>5 DEF TreesPlaced
  <2>5. ASSUME NEW k \in Candidates, Made(k)' PROVE Places(k)'
    <3>1. Made(k) /\ Places(k)
      BY <2>5, <1>1, <1>2, <1>3, <1>4, <1>5 DEF TreesPlaced, Made
    <3>2. CASE k = cur
      BY <3>1, <3>2, <1>1, <1>2, <1>3, <1>4, <1>5 DEF Places
    <3>3. CASE k # cur
      BY <3>1, <3>3, <1>1, <1>2, <1>3, <1>4, <1>5 DEF Places
    <3> QED
      BY <3>2, <3>3
  <2> QED
    BY <2>1, <2>2, <2>3, <2>4, <2>5 DEF TreesPlaced
<1>8. Placed'
  BY <1>1, <1>2, <1>3, <1>4, <1>5 DEF Placed, Preparing, Checked, Undoing, NothingMoved
<1>9. Seen'
  BY <1>1, <1>2, <1>3, <1>4, <1>5 DEF Seen, Older, Preparing, Checked, Undoing
<1>10. Halfway'
  BY <1>1, <1>2, <1>3, <1>4, <1>5 DEF Halfway, Whole, Checked, Undoing, Original, Placed
<1>11. \A k \in Candidates : CommittedAsVerified(k)'
  BY <1>1, <1>2, <1>3, <1>4, <1>5 DEF CommittedAsVerified
<1> QED
  BY <1>6, <1>7, <1>8, <1>9, <1>10, <1>11

LEMMA SwapStep == ASSUME MergeInv, Swap PROVE MergeInv'
<1> USE DEF MergeInv
<1>1. /\ at = "swapping" /\ at' = "recording" /\ cur \in Candidates /\ Made(cur)
      /\ files' = [base |-> cur, edits |-> 0] /\ moved' = [moved EXCEPT !.files = TRUE]
      /\ UNCHANGED <<modules, staging, source, cand, backup, cur, fault>>
  BY DEF Swap, At, Go, MergeTypes
<1>2. /\ moved' \in Moved /\ moved'.files /\ moved'.had = moved.had
      /\ moved'.modules = moved.modules /\ moved'.originals = moved.originals
      /\ moved'.pre = moved.pre
  BY <1>1 DEF Moved, MergeTypes
<1>3. files' \in Files /\ files'.base = cur
  BY <1>1, Nowhere DEF Files
<1>4. MergeTypes'
  BY <1>1, <1>2, <1>3 DEF MergeTypes, Steps, Preparing, Checked, Undoing, Made
<1>5. TreesPlaced'
  BY <1>1, <1>2, <1>3, TreesStay DEF Made
<1>6. Placed'
  BY <1>1, <1>2, <1>3 DEF Placed, Preparing, Checked, Undoing, NothingMoved
<1>7. Seen'
  BY <1>1, <1>2, <1>3 DEF Seen, Older, Preparing, Checked, Undoing, Made
<1>8. Halfway'
  BY <1>1, <1>2, <1>3 DEF Halfway, Whole, Checked, Undoing, Original, Placed
<1>9. \A k \in Candidates : CommittedAsVerified(k)'
  BY <1>1, <1>2, <1>3 DEF CommittedAsVerified
<1> QED
  BY <1>4, <1>5, <1>6, <1>7, <1>8, <1>9

LEMMA RecordStep == ASSUME MergeInv, Record PROVE MergeInv'
<1> USE DEF MergeInv
<1> DEFINE r == [cand[cur] EXCEPT !.committed = TRUE, !.pre = moved.pre]
<1>1. /\ at = "recording" /\ at' = "idle" /\ cur' = Nothing /\ moved' = NothingMoved
      /\ cur \in Candidates /\ Made(cur)
      /\ cand' = [cand EXCEPT ![cur] = r]
      /\ UNCHANGED <<files, modules, staging, source, backup, fault>>
  BY DEF Record, At, Leave, MergeTypes
<1>2. /\ r \in Candidate /\ r.committed = TRUE /\ r.pre = moved.pre
      /\ r.saved = cand[cur].saved /\ r.target = cand[cur].target
      /\ r.source = cand[cur].source /\ r.frozen = cand[cur].frozen /\ r.dir = cand[cur].dir
  BY <1>1, Fields, Moves DEF Candidate
<1> HIDE DEF r
<1>3. /\ cand' \in [Candidates -> Candidate \cup {NoCandidate}] /\ cand'[cur] = r
      /\ \A k \in Candidates : (Made(k)' <=> Made(k)) /\ (k # cur => cand'[k] = cand[k])
  BY <1>1, <1>2, OneChanges
<1>4. modules = cur /\ cur # Nothing
  BY <1>1, Nowhere DEF Placed, Tree
<1>5. MergeTypes'
  BY <1>1, <1>2, <1>3, <1>4, Ends DEF MergeTypes, Steps, Preparing, Checked, Undoing
<1>6. TreesPlaced'
  BY <1>1, <1>2, <1>3, <1>4, TreesStay
<1>7. Placed'
  BY <1>1, <1>2, <1>3, <1>4 DEF Placed, Preparing, Checked, Undoing, NothingMoved
<1>8. Seen'
  BY <1>1, <1>2, <1>3, <1>4 DEF Seen, Older, Preparing, Checked, Undoing
<1>9. Halfway'
  BY <1>1, <1>2, <1>3, <1>4, Ends DEF Halfway, Whole, Checked, Undoing
<1>10. \A k \in Candidates : CommittedAsVerified(k)'
  BY <1>1, <1>2, <1>3, <1>4 DEF CommittedAsVerified, Seen, Checked
<1> QED
  BY <1>5, <1>6, <1>7, <1>8, <1>9, <1>10

LEMMA ThrowsStep == ASSUME MergeInv, Throws PROVE MergeInv'
<1> USE DEF MergeInv
<1>1. /\ at \in Checked /\ at' = "undo files" /\ cur \in Candidates /\ Made(cur)
      /\ UNCHANGED <<files, modules, staging, source, cand, backup, cur, moved, fault>>
  BY DEF Throws, Go, MergeTypes, Checked
<1>2. MergeTypes'
  BY <1>1 DEF MergeTypes, Steps, Preparing, Checked, Undoing, Made
<1>3. TreesPlaced'
  BY <1>1, TreesStay DEF Made
<1>4. Placed'
  BY <1>1 DEF Placed, Preparing, Checked, Undoing, NothingMoved
<1>5. Seen'
  BY <1>1 DEF Seen, Older, Preparing, Checked, Undoing, Made
<1>6. Halfway'
  BY <1>1 DEF Halfway, Whole, Checked, Undoing, Reversible, Original, Placed
<1>7. \A k \in Candidates : CommittedAsVerified(k)'
  BY <1>1 DEF CommittedAsVerified
<1> QED
  BY <1>2, <1>3, <1>4, <1>5, <1>6, <1>7

LEMMA SwapUncertainStep == ASSUME MergeInv, SwapUncertain PROVE MergeInv'
<1> USE DEF MergeInv
<1>1. /\ at = "swapping" /\ at' = "undo files" /\ cur \in Candidates /\ Made(cur)
      /\ files' = [base |-> cur, edits |-> 0] /\ staging' = TRUE /\ fault' = "swap"
      /\ UNCHANGED <<modules, source, cand, backup, cur, moved>>
  BY DEF SwapUncertain, At, Go, MergeTypes
<1>2. files' \in Files
  BY <1>1, Nowhere DEF Files
<1>3. MergeTypes'
  BY <1>1, <1>2 DEF MergeTypes, Steps, Preparing, Checked, Undoing, Made
<1>4. TreesPlaced'
  BY <1>1, <1>2, TreesStay DEF Made
<1>5. Placed'
  BY <1>1, <1>2 DEF Placed, Preparing, Checked, Undoing, NothingMoved
<1>6. Seen'
  BY <1>1, <1>2 DEF Seen, Older, Preparing, Checked, Undoing, Made
<1>7. Halfway'
  BY <1>1, <1>2 DEF Halfway, Whole, Checked, Undoing
<1>8. \A k \in Candidates : CommittedAsVerified(k)'
  BY <1>1, <1>2 DEF CommittedAsVerified
<1> QED
  BY <1>3, <1>4, <1>5, <1>6, <1>7, <1>8

-----------------------------------------------------------------------------
(* The catch of commitMerge                                                *)
LEMMA UndoFilesStep == ASSUME MergeInv, UndoFiles PROVE MergeInv'
<1> USE DEF MergeInv
<1>1. /\ at = "undo files" /\ at' = "undo move" /\ cur \in Candidates /\ Made(cur)
      /\ files' = IF moved.files THEN moved.originals ELSE files
      /\ UNCHANGED <<modules, staging, source, cand, backup, cur, moved, fault>>
  BY DEF UndoFiles, At, Go, MergeTypes
<1>2. files' \in Files
  BY <1>1, Moves DEF Placed, MergeTypes
<1>3. MergeTypes'
  BY <1>1, <1>2 DEF MergeTypes, Steps, Preparing, Checked, Undoing, Made
<1>4. TreesPlaced'
  BY <1>1, <1>2, TreesStay DEF Made
<1>5. Placed'
  BY <1>1, <1>2 DEF Placed, Preparing, Checked, Undoing, NothingMoved
<1>6. Seen'
  BY <1>1, <1>2 DEF Seen, Older, Preparing, Checked, Undoing, Made
<1>7. Halfway'
  BY <1>1, <1>2 DEF Halfway, Whole, Checked, Undoing, Reversible, Original, Placed
<1>8. \A k \in Candidates : CommittedAsVerified(k)'
  BY <1>1, <1>2 DEF CommittedAsVerified
<1> QED
  BY <1>3, <1>4, <1>5, <1>6, <1>7, <1>8

LEMMA UndoMoveStep == ASSUME MergeInv, UndoMove PROVE MergeInv'
<1> USE DEF MergeInv
<1>1. /\ at = "undo move" /\ at' = "undo aside" /\ cur \in Candidates /\ Made(cur)
      /\ UNCHANGED <<files, staging, source, backup, cur, moved, fault>>
  BY DEF UndoMove, At, Go, MergeTypes
<1>2. CASE ~moved.modules
  <2>1. UNCHANGED <<modules, cand>>
    BY <1>2 DEF UndoMove
  <2>2. MergeTypes' /\ TreesPlaced'
    BY <1>1, <2>1, TreesStay DEF MergeTypes, Steps, Undoing, Made
  <2>3. Placed' /\ Seen'
    BY <1>1, <2>1 DEF Placed, Seen, Preparing, Checked, Undoing, Made
  <2>4. Halfway'
    BY <1>1, <1>2, <2>1 DEF Halfway, Reversible, Original, Whole, Checked, Undoing
  <2>5. \A k \in Candidates : CommittedAsVerified(k)'
    BY <2>1 DEF CommittedAsVerified
  <2> QED
    BY <2>2, <2>3, <2>4, <2>5
<1>3. CASE moved.modules
  <2> DEFINE r == [cand[cur] EXCEPT !.dir = TRUE]
  <2>1. modules' = Nothing /\ cand' = [cand EXCEPT ![cur] = r] /\ modules = cur
    BY <1>1, <1>3 DEF UndoMove, Placed
  <2>2. /\ r \in Candidate /\ r.dir = TRUE /\ r.saved = cand[cur].saved
        /\ r.committed = cand[cur].committed /\ r.target = cand[cur].target
        /\ r.source = cand[cur].source /\ r.frozen = cand[cur].frozen
        /\ r.pre = cand[cur].pre
    BY <1>1, Fields DEF Candidate
  <2> HIDE DEF r
  <2>3. /\ cand' \in [Candidates -> Candidate \cup {NoCandidate}] /\ cand'[cur] = r
        /\ \A k \in Candidates : (Made(k)' <=> Made(k)) /\ (k # cur => cand'[k] = cand[k])
    BY <1>1, <2>1, <2>2, OneChanges
  <2>4. MergeTypes'
    BY <1>1, <2>1, <2>3 DEF MergeTypes, Steps, Undoing
  <2>5. TreesPlaced'
    BY <1>1, <2>1, <2>2, <2>3, Nowhere DEF TreesPlaced, Places, Tree
  <2>6. Placed'
    BY <1>1, <2>1 DEF Placed, Preparing, Checked, Undoing
  <2>7. Seen'
    BY <1>1, <2>2, <2>3 DEF Seen, Preparing, Checked
  <2>8. Halfway'
    BY <1>1, <1>3, <2>1 DEF Halfway, Reversible, Original, Whole, Checked, Undoing
  <2>9. \A k \in Candidates : CommittedAsVerified(k)'
    BY <2>2, <2>3 DEF CommittedAsVerified
  <2> QED
    BY <2>4, <2>5, <2>6, <2>7, <2>8, <2>9
<1> QED
  BY <1>2, <1>3, Moves

LEMMA UndoAsideStep == ASSUME MergeInv, UndoAside PROVE MergeInv'
<1> USE DEF MergeInv
<1>1. /\ at = "undo aside" /\ cur \in Candidates /\ Made(cur)
      /\ at' = "idle" /\ cur' = Nothing /\ moved' = NothingMoved
      /\ IF moved.had THEN modules = Nothing /\ modules' = backup[cur]
                       /\ backup' = [backup EXCEPT ![cur] = Nothing]
         ELSE UNCHANGED <<modules, backup>>
      /\ UNCHANGED <<files, staging, source, cand, fault>>
  BY DEF UndoAside, At, Leave, MergeTypes
<1>2. /\ modules' \in Tree \cup {Nothing} /\ backup' \in [Candidates -> Tree \cup {Nothing}]
      /\ moved.had => /\ backup'[cur] = Nothing /\ Nothing \notin Candidates
                      /\ \A j \in Candidates : j # cur => backup'[j] = backup[j]
      /\ moved.had \in BOOLEAN
  BY <1>1, Moves, Nowhere DEF MergeTypes, Tree
<1>3. MergeTypes'
  BY <1>1, <1>2, Ends DEF MergeTypes, Steps, Preparing, Checked, Undoing, Made
<1>4. TreesPlaced'
  <2>1. CASE moved.had
    <3>1. modules' \in Candidates => Made(modules)'
      BY <1>1, <1>2, <2>1 DEF TreesPlaced, Made
    <3>2. \A j \in Candidates : backup'[j] \in Candidates => Made(backup[j])'
      BY <1>1, <1>2, <2>1 DEF TreesPlaced, Made
    <3>3. modules' # Nothing => \A j \in Candidates : backup'[j] # modules'
      <4>1. /\ backup'[cur] = Nothing /\ modules' = backup[cur]
            /\ \A j \in Candidates : j # cur => backup'[j] = backup[j]
        BY <1>1, <1>2, <2>1
      <4>2. \A j \in Candidates : j # cur /\ backup[cur] # Nothing => backup[j] # backup[cur]
        BY <1>1 DEF TreesPlaced
      <4> QED
        BY <4>1, <4>2
    <3>4. \A i, j \in Candidates : i # j /\ backup'[i] # Nothing => backup'[i] # backup'[j]
      BY <1>1, <1>2, <2>1 DEF TreesPlaced
    <3>5. ASSUME NEW k \in Candidates, Made(k)' PROVE Places(k)'
      <4>1. Made(k) /\ Places(k)
        BY <3>5, <1>1, <1>2, <2>1 DEF TreesPlaced, Made
      <4>2. CASE k = cur
        BY <4>1, <4>2, <1>1, <1>2, <2>1 DEF Places
      <4>3. CASE k # cur
        BY <4>1, <4>3, <1>1, <1>2, <2>1 DEF Places
      <4> QED
        BY <4>2, <4>3
    <3> QED
      BY <3>1, <3>2, <3>3, <3>4, <3>5 DEF TreesPlaced
  <2>2. CASE ~moved.had
    BY <1>1, <2>2, TreesStay DEF Made
  <2> QED
    BY <1>2, <2>1, <2>2
<1>5. Placed'
  BY <1>1, <1>2, Ends DEF Placed, Preparing, Checked, Undoing, NothingMoved
<1>6. Seen'
  BY <1>1, <1>2 DEF Seen, Older, Preparing, Checked, Undoing, Made
<1>7. Halfway'
  BY <1>1, <1>2, Ends, Moves DEF Halfway, Whole, Checked, Undoing
<1>8. \A k \in Candidates : CommittedAsVerified(k)'
  BY <1>1, <1>2 DEF CommittedAsVerified
<1> QED
  BY <1>3, <1>4, <1>5, <1>6, <1>7, <1>8

LEMMA UndoThrowsStep == ASSUME MergeInv, UndoThrows PROVE MergeInv'
<1> USE DEF MergeInv
<1>1. /\ at \in Undoing
      /\ at' = "idle" /\ cur' = Nothing /\ moved' = NothingMoved
      /\ fault' = "undo"
      /\ UNCHANGED <<files, modules, staging, source, cand, backup>>
  BY DEF UndoThrows, At, Leave, Undoing
<1>2. MergeTypes'
  BY <1>1, Ends DEF MergeTypes, Steps, Preparing, Checked, Undoing, Made
<1>3. TreesPlaced'
  BY <1>1, TreesStay DEF Made
<1>4. Placed'
  BY <1>1, Ends DEF Placed, Preparing, Checked, Undoing, NothingMoved
<1>5. Seen'
  BY <1>1 DEF Seen, Older, Preparing, Checked, Undoing, Made
<1>6. Halfway'
  BY <1>1, Ends DEF Halfway, Whole, Checked, Undoing
<1>7. \A k \in Candidates : CommittedAsVerified(k)'
  BY <1>1 DEF CommittedAsVerified
<1> QED
  BY <1>2, <1>3, <1>4, <1>5, <1>6, <1>7

-----------------------------------------------------------------------------
(* What others do                                                          *)
LEMMA KillStep == ASSUME MergeInv, KillMerge PROVE MergeInv'
<1> USE DEF MergeInv
<1>1. /\ at \in {"saving", "checking"} \cup Checked \cup Undoing
      /\ cur \in Candidates /\ Made(cur)
      /\ at' = "idle" /\ cur' = Nothing /\ moved' = NothingMoved
      /\ fault' = IF modules # cur /\ ~moved.had /\ ~moved.files THEN fault ELSE "killed"
      /\ UNCHANGED <<files, modules, staging, source, cand, backup>>
  BY DEF KillMerge, Leave, MergeTypes, Steps, Preparing, Checked, Undoing
<1>2. MergeTypes'
  BY <1>1, Ends DEF MergeTypes, Steps, Preparing, Checked, Undoing, Made
<1>3. TreesPlaced'
  BY <1>1, TreesStay DEF Made
<1>4. Placed'
  BY <1>1, Ends DEF Placed, Preparing, Checked, Undoing, NothingMoved
<1>5. Seen'
  BY <1>1 DEF Seen, Older, Preparing, Checked, Undoing, Made
<1>6. Halfway'
  BY <1>1, Ends DEF Halfway, Whole, Checked, Undoing, Placed, Reversible, Original
<1>7. \A k \in Candidates : CommittedAsVerified(k)'
  BY <1>1 DEF CommittedAsVerified
<1> QED
  BY <1>2, <1>3, <1>4, <1>5, <1>6, <1>7

LEMMA EditTargetStep == ASSUME MergeInv, EditTarget PROVE MergeInv'
<1> USE DEF MergeInv
<1>1. /\ files' = [files EXCEPT !.edits = @ + 1]
      /\ UNCHANGED <<modules, staging, source, cand, backup, at, cur, moved, fault>>
  BY DEF EditTarget
<1>2. files' \in Files /\ files'.base = files.base /\ Older(files, files')
  BY <1>1, Numbers DEF MergeTypes, Files, Older
<1>3. \A f \in Files : Older(f, files) => Older(f, files')
  BY <1>2, OlderStill DEF MergeTypes
<1>4. MergeTypes'
  BY <1>1, <1>2, <1>3 DEF MergeTypes, Steps, Preparing, Checked, Undoing, Made
<1>5. TreesPlaced'
  BY <1>1, <1>2, <1>3, TreesStay DEF Made
<1>6. Placed'
  BY <1>1, <1>2, <1>3 DEF Placed, Preparing, Checked, Undoing, NothingMoved
<1>7. Seen'
  <2>1. at = "saving" => cand[cur].target \in Files
    BY Fields DEF MergeTypes
  <2>2. at = "checking" => moved.pre \in Files
    BY Moves DEF Seen
  <2> QED
    BY <1>1, <1>3, <2>1, <2>2 DEF Seen, Preparing, Checked, Made
<1>8. Halfway'
  BY <1>1, <1>2, <1>3 DEF Halfway, Whole, Checked, Undoing, Original, Reversible
<1>9. \A k \in Candidates : CommittedAsVerified(k)'
  BY <1>1, <1>2, <1>3 DEF CommittedAsVerified
<1> QED
  BY <1>4, <1>5, <1>6, <1>7, <1>8, <1>9

LEMMA EditSourceStep == ASSUME MergeInv, EditSource PROVE MergeInv'
<1> USE DEF MergeInv
<1>1. /\ source' = source + 1
      /\ UNCHANGED <<files, modules, staging, cand, backup, at, cur, moved, fault>>
  BY DEF EditSource
<1>2. source' \in Nat
  BY <1>1 DEF MergeTypes
<1>3. MergeTypes'
  BY <1>1, <1>2 DEF MergeTypes, Steps, Preparing, Checked, Undoing, Made
<1>4. TreesPlaced'
  BY <1>1, <1>2, TreesStay DEF Made
<1>5. Placed'
  BY <1>1, <1>2 DEF Placed, Preparing, Checked, Undoing, NothingMoved
<1>6. Seen'
  <2>1. \A k \in Candidates : Made(k) =>
          /\ cand[k].source \in Nat /\ cand[k].frozen \in Nat \cup {Nothing}
          /\ cand[k].source <= source /\ (cand[k].frozen # Nothing => cand[k].frozen <= source)
    BY Fields DEF Seen
  <2>2. \A k \in Candidates : Made(k) =>
          cand[k].source <= source' /\ (cand[k].frozen # Nothing => cand[k].frozen <= source')
    BY <1>1, <2>1 DEF MergeTypes
  <2> QED
    BY <1>1, <2>2 DEF Seen, Preparing, Checked, Made
<1>7. Halfway'
  BY <1>1, <1>2 DEF Halfway, Whole, Checked, Undoing, Original, Reversible
<1>8. \A k \in Candidates : CommittedAsVerified(k)'
  BY <1>1, <1>2 DEF CommittedAsVerified
<1> QED
  BY <1>3, <1>4, <1>5, <1>6, <1>7, <1>8

LEMMA UseCandidateStep ==
  ASSUME MergeInv, NEW c \in Candidates, UseCandidate(c) PROVE MergeInv'
<1> USE DEF MergeInv
<1> DEFINE r == [cand[c] EXCEPT !.changed = TRUE]
<1>1. /\ c \in Candidates /\ Made(c)
      /\ cand' = [cand EXCEPT ![c] = r]
      /\ UNCHANGED <<files, modules, staging, source, backup, at, cur, moved, fault>>
  BY SavedIsMade DEF UseCandidate
<1>2. /\ r \in Candidate /\ r.changed = TRUE
      /\ r.saved = cand[c].saved /\ r.committed = cand[c].committed
      /\ r.target = cand[c].target /\ r.source = cand[c].source /\ r.frozen = cand[c].frozen
      /\ r.pre = cand[c].pre /\ r.dir = cand[c].dir
  BY <1>1, Fields, Moves DEF Candidate
<1> HIDE DEF r
<1>3. /\ cand' \in [Candidates -> Candidate \cup {NoCandidate}] /\ cand'[c] = r
      /\ \A k \in Candidates : (Made(k)' <=> Made(k)) /\ (k # c => cand'[k] = cand[k])
  BY <1>1, <1>2, OneChanges
<1>4. at # "idle" => /\ cand'[cur].dir = cand[cur].dir /\ cand'[cur].saved = cand[cur].saved
                      /\ cand'[cur].committed = cand[cur].committed
                      /\ cand'[cur].frozen = cand[cur].frozen
                      /\ cand'[cur].source = cand[cur].source
                      /\ cand'[cur].target = cand[cur].target
  BY <1>1, <1>2, <1>3 DEF MergeTypes
<1>5. MergeTypes'
  BY <1>1, <1>2, <1>3, <1>4 DEF MergeTypes, Steps, Preparing, Checked, Undoing
<1>6. TreesPlaced'
  BY <1>1, <1>2, <1>3, <1>4, TreesStay
<1>7. Placed'
  BY <1>1, <1>2, <1>3, <1>4 DEF Placed, Preparing, Checked, Undoing, NothingMoved
<1>8. Seen'
  BY <1>1, <1>2, <1>3, <1>4 DEF Seen, Older, Preparing, Checked, Undoing
<1>9. Halfway'
  BY <1>1, <1>2, <1>3, <1>4 DEF Halfway, Whole, Checked, Undoing, Original, Reversible
<1>10. \A k \in Candidates : CommittedAsVerified(k)'
  BY <1>1, <1>2, <1>3, <1>4 DEF CommittedAsVerified
<1> QED
  BY <1>5, <1>6, <1>7, <1>8, <1>9, <1>10

LEMMA RecoverStep == ASSUME MergeInv, Recover PROVE MergeInv'
<1> USE DEF MergeInv
<1>1. /\ staging' = FALSE
      /\ UNCHANGED <<files, modules, source, cand, backup, at, cur, moved, fault>>
  BY DEF Recover, Idle
<1>2. MergeTypes'
  BY <1>1 DEF MergeTypes, Steps, Preparing, Checked, Undoing, Made
<1>3. TreesPlaced'
  BY <1>1, TreesStay DEF Made
<1>4. Placed'
  BY <1>1 DEF Placed, Preparing, Checked, Undoing, NothingMoved
<1>5. Seen'
  BY <1>1 DEF Seen, Older, Preparing, Checked, Undoing, Made
<1>6. Halfway'
  BY <1>1 DEF Halfway, Whole, Checked, Undoing, Original, Reversible
<1>7. \A k \in Candidates : CommittedAsVerified(k)'
  BY <1>1 DEF CommittedAsVerified
<1> QED
  BY <1>2, <1>3, <1>4, <1>5, <1>6, <1>7

-----------------------------------------------------------------------------
LEMMA MergeStep == MergeInv /\ [MergeNext]_mergeVars => MergeInv'
<1> SUFFICES ASSUME MergeInv, [MergeNext]_mergeVars PROVE MergeInv'
  OBVIOUS
<1>1. CASE UNCHANGED mergeVars
  <2>1. MergeTypes' /\ TreesPlaced'
    BY <1>1, TreesStay DEF mergeVars, MergeInv, MergeTypes, Made
  <2>2. Placed' /\ Halfway'
    BY <1>1 DEF mergeVars, MergeInv, Placed, Halfway, Reversible, Original, Whole
  <2>4. Seen'
    BY <1>1 DEF mergeVars, MergeInv, Seen, Made, Older
  <2>3. \A k \in Candidates : CommittedAsVerified(k)'
    BY <1>1 DEF mergeVars, MergeInv, CommittedAsVerified
  <2> QED
    BY <2>1, <2>2, <2>3, <2>4 DEF MergeInv
<1>2. CASE Freeze \/ NotPrepared
  BY <1>2, FreezesStep, NotPreparedStep
<1>3. CASE \E k \in Candidates : Prepare(k) \/ Commit(k) \/ UseCandidate(k)
  BY <1>3, PrepareStep, CommitStep, UseCandidateStep
<1>4. CASE \E verdict \in {"ok", "review", "fail"} : Verified(verdict)
  BY <1>4, VerifiedStep
<1>5. CASE SaveTarget \/ CheckAgain \/ SetAside \/ MoveIn \/ Swap \/ Record
  BY <1>5, SaveTargetStep, CheckAgainStep, SetAsideStep, MoveInStep, SwapStep, RecordStep
<1>6. CASE Throws \/ SwapUncertain
  BY <1>6, ThrowsStep, SwapUncertainStep
<1>7. CASE UndoFiles \/ UndoMove \/ UndoAside \/ UndoThrows
  BY <1>7, UndoFilesStep, UndoMoveStep, UndoAsideStep, UndoThrowsStep
<1>8. CASE KillMerge \/ EditTarget \/ EditSource \/ Recover
  BY <1>8, KillStep, EditTargetStep, EditSourceStep, RecoverStep
<1> QED
  BY <1>1, <1>2, <1>3, <1>4, <1>5, <1>6, <1>7, <1>8 DEF MergeNext

(* One of three places is exactly one of them                              *)
LEMMA PlacedOnce == ASSUME MergeTypes, TreesPlaced PROVE TreesKept
<1>1. ASSUME NEW k \in Candidates, Made(k)
      PROVE  (IF modules = k THEN 1 ELSE 0) + (IF cand[k].dir THEN 1 ELSE 0) +
             (IF \E j \in Candidates : backup[j] = k THEN 1 ELSE 0) = 1
  <2>1. cand[k].dir \in BOOLEAN /\ k # Nothing
    BY <1>1, Fields, Nowhere DEF Tree
  <2>2. CASE cand[k].dir
    BY <1>1, <2>2 DEF TreesPlaced, Places
  <2>3. CASE ~cand[k].dir
    BY <1>1, <2>1, <2>3 DEF TreesPlaced, Places
  <2> QED
    BY <2>1, <2>2, <2>3
<1> QED
  BY <1>1 DEF TreesKept, TreesPlaced, Made

(* web/merge.ts commitMerge: for every number of candidates and of edits,  *)
(* a merge that is over has been done or undone, files and modules         *)
(* together, unless it was killed, its undo failed or its swap could not   *)
(* say how it ended; what was committed is what was verified, and no tree  *)
(* is ever lost.                                                           *)
THEOREM MergesAreWhole == MergeSpec => []MergeWhole
<1>1. MergeInv => MergeWhole
  BY PlacedOnce DEF MergeInv, MergeWhole, Halfway, Idle, Undoing
<1> QED
  BY <1>1, InitMerge, MergeStep, PTL DEF MergeSpec

=============================================================================
