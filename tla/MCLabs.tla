-------------------------------- MODULE MCLabs --------------------------------
(***************************************************************************)
(* Small instances of FileLock, Lab, Vault, Investigation and Merge for    *)
(* TLC, one of which acts: `part` is chosen in the initial state, the      *)
(* others keep their initial state.  The state graph is the disjoint union *)
(* of the parts' graphs.                                                   *)
(*                                                                         *)
(*   "lock"             FileLock, three processes of one host              *)
(*   "labs"             Lab, two processes, a lab and a kill               *)
(*   "three snapshots"  Vault within one day                               *)
(*   "two days"         Vault over two days, with two snapshots            *)
(*   "bisect"           Investigation                                      *)
(*   "merges"           Merge                                              *)
(***************************************************************************)
EXTENDS FileLock, Lab, Vault, Merge, Investigation

CONSTANTS p1, p2, p3, here, l1, x, y

VARIABLE part

runVars == <<part, vars, labVars, vaultVars, investigationVars, mergeVars>>

----------------------------------------------------------------------------
Local == {p1, p2, p3}
Two == {p1, p2}
OneLab == {l1}
Together == [p \in Proc |-> here]

(* A CLI call, one with --break-stale-lock, and an operation lock.         *)
AllOptions == {[breakStale |-> FALSE, recoverDeadLocal |-> FALSE],
               [breakStale |-> TRUE, recoverDeadLocal |-> FALSE],
               [breakStale |-> FALSE, recoverDeadLocal |-> TRUE]}
(* The call that clears every lock it can.                                 *)
EscapeOptions == {[breakStale |-> TRUE, recoverDeadLocal |-> TRUE]}

Bytes == {x, y}

Locking == part = "lock"
Verifying == part = "labs"
Storing == part \in {"three snapshots", "two days"}
Searching == part = "bisect"
Merging == part = "merges"

LabsInit ==
  /\ part \in {"lock", "labs", "three snapshots", "two days", "bisect", "merges"}
  /\ Init /\ LabInit /\ VaultInit
  /\ InvestigationInit /\ (~Searching => kind = "time" /\ size = 2)
  /\ MergeInit /\ (~Merging => modules = Nothing)

LabsNext ==
  \/ /\ Locking /\ Next
     /\ UNCHANGED <<part, labVars, vaultVars, investigationVars, mergeVars>>
  \/ /\ Verifying /\ LabNext
     /\ UNCHANGED <<part, vars, vaultVars, investigationVars, mergeVars>>
  \/ /\ Storing /\ VaultNext
     /\ IF part = "two days" THEN next' <= 3 ELSE UNCHANGED day
     /\ UNCHANGED <<part, vars, labVars, investigationVars, mergeVars>>
  \/ /\ Searching /\ InvestigationNext
     /\ UNCHANGED <<part, vars, labVars, vaultVars, mergeVars>>
  \/ /\ Merging /\ MergeNext
     /\ UNCHANGED <<part, vars, labVars, vaultVars, investigationVars>>

(* The fairness of FileLock.FairSpec and of Lab.LabFairSpec.               *)
LabsSpec ==
  /\ LabsInit /\ [][LabsNext]_runVars
  /\ \A p \in Proc : WF_vars(Locking /\ Step(p)) /\ WF_vars(Locking /\ ReleaseCall(p))
  /\ SF_vars(Locking /\ Retry)
  /\ \A p \in Runner : WF_labVars(Verifying /\ Proceed(p))

----------------------------------------------------------------------------
(* The properties of the five are checked as they stand: a part that does  *)
(* not act changes nothing.                                                *)

(* Lab.MirrorSettles: a mirror that starts is not left "applying".         *)
StartSettles == Verifying => MirrorSettles

=============================================================================
