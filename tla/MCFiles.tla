------------------------------- MODULE MCFiles -------------------------------
(***************************************************************************)
(* Small instances of FileSwap and Promotion for TLC, one of which acts:   *)
(* `part` is chosen in the initial state, the others keep their initial    *)
(* state.  The state graph is the disjoint union of the parts' graphs.     *)
(*                                                                         *)
(*   "swap"         FileSwap with kills, failures and edits                *)
(*   "whole swap"   FileSwap with kills alone                              *)
(*   "promotions"   Promotion twice in a row, nobody edits                 *)
(***************************************************************************)
EXTENDS FileSwap, Promotion

CONSTANTS f1, f2, old, new, t1, t2, A, B, C, X

VARIABLE part

runVars == <<part, swapVars, vars>>

----------------------------------------------------------------------------
Pair == {f1, f2}
Bytes == {old, new, Absent}

(* Callers replace, create and delete: the three shapes of a swapped file. *)
Requests == {[f \in Pair |-> new], [f \in Pair |-> IF f = f1 THEN new ELSE Absent]}

L == INSTANCE FileSwap WITH Editing <- FALSE, Faulty <- FALSE

(* The second promotion is built on the outcome of the first, or replaces  *)
(* it; an installer may leave what nobody knows, X.                        *)
Attempts == {t1, t2}
Versions == {A, B, C, X}
Sources == [t \in Attempts |-> IF t = t1 THEN A ELSE B]
Candidates == [t \in Attempts |-> IF t = t1 THEN B ELSE C]
Strange == {X}

ASSUME Assumptions

Swaps == part = "swap"
SwapsWhole == part = "whole swap"
Promotes == part = "promotions"

FilesInit ==
  /\ part \in {"swap", "whole swap", "promotions"}
  /\ SwapInit /\ (Promotes => prof = [f \in Pair |-> Absent])
  /\ Init

FilesNext ==
  \/ Swaps /\ SwapNext /\ UNCHANGED <<part, vars>>
  \/ SwapsWhole /\ L!SwapNext /\ UNCHANGED <<part, vars>>
  \/ Promotes /\ Next /\ UNCHANGED <<part, swapVars>>

(* The fairness of L!SwapFairSpec and of FairSpec. *)
FilesSpec ==
  /\ FilesInit /\ [][FilesNext]_runVars
  /\ WF_swapVars(SwapsWhole /\ L!SwapStep)
  /\ WF_swapVars(SwapsWhole /\ L!Takeover)
  /\ WF_swapVars(SwapsWhole /\ L!Recover)
  /\ WF_vars(Promotes /\ Step)
  /\ WF_vars(Promotes /\ SnapshotStep("user"))
  /\ WF_vars(Promotes /\ ChildStops)
  /\ SF_vars(Promotes /\ LocksFree /\ RollbackLock)
  /\ SF_vars(Promotes /\ LocksFree /\ Settle)
  /\ \A t \in Attempts : SF_vars(Promotes /\ LocksFree /\ Unsettled(t) /\ Reconcile(t))

----------------------------------------------------------------------------
(* The properties of the parts.  Those of Promotion, SwapInv and           *)
(* EditsPreserved are checked as they stand: a part that does not act      *)
(* changes nothing.                                                        *)

(* FileSwap.PreparedIsSettled: with kills alone, retrying settles a swap.  *)
SwapSettles == L!CrashesStop => (SwapsWhole /\ Prepared ~> ~Prepared)

(* FileSwap.ImplementsAtomicFiles: the whole set changes at once, or not.  *)
Atomic == INSTANCE AtomicFiles WITH
            content <- IF Swaps THEN [f \in Pair |-> old]
                       ELSE IF Prepared THEN rec.before ELSE prof,
            goal    <- IF Swaps THEN NoGoal
                       ELSE IF Prepared THEN rec.after
                       ELSE IF swapAt \in Preparing THEN after ELSE NoGoal
SwapIsWhole == Atomic!Spec

(* promote.ts:457-469, Promotion.Blocked: a decision on disk completes,    *)
(* and retries settle a transaction unless a known obstacle stops them.    *)
UnsettledOrBlocked ==
  \A t \in Attempts :
    /\ PhaseOf(t) = "committing" ~> PhaseOf(t) = "committed"
    /\ Unsettled(t) ~> ~Unsettled(t) \/ Blocked(t)

=============================================================================
