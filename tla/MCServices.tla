----------------------------- MODULE MCServices -----------------------------
(***************************************************************************)
(* Small instances of Idempotency, Jobs and Deployment for TLC, one of     *)
(* which acts: `part` is chosen in the initial state, the others keep      *)
(* their initial state.                                                    *)
(***************************************************************************)
EXTENDS Idempotency, Deployment, Jobs

CONSTANTS s1, s2, s3, r1, b1, b2, origin, d1, d2, d3, u1

VARIABLE part

runVars == <<part, vars, jobVars, deployVars>>

----------------------------------------------------------------------------
Servers == {s1, s2, s3}
TwoServers == {s1, s2}
OneSource == {origin}
OneRequest == {r1}
TwoBodies == {b1, b2}
Either == BOOLEAN
Slots == {d1, d2, d3}
Alone == {u1}
Last == {d3}
Twice == {2}

ASSUME Assumptions

Requesting == part = "requests"
Queueing == part = "jobs"
Deploying == part = "deployments"

ServicesInit ==
  /\ part \in {"requests", "jobs", "deployments"}
  /\ Init /\ JobsInit /\ DeployInit

ServicesNext ==
  \/ Requesting /\ Next /\ UNCHANGED <<part, jobVars, deployVars>>
  \/ Queueing /\ JobsNext /\ UNCHANGED <<part, vars, deployVars>>
  \/ Deploying /\ DeployNext /\ UNCHANGED <<part, vars, jobVars>>

(* The fairness of JobsFairSpec and of DeployFairSpec. *)
ServicesSpec ==
  /\ ServicesInit /\ [][ServicesNext]_runVars
  /\ \A j \in Job : WF_jobVars(Queueing /\ Goes(j))
  /\ <>[](\A src \in Source : sourceLock[src] # Cli)
  /\ WF_deployVars(Deploying /\ UserStep(u1))
  /\ WF_deployVars(Deploying /\ DogStep)

----------------------------------------------------------------------------
(* The properties are those of the modules, checked as they stand: a part  *)
(* that does not act changes nothing.                                      *)

=============================================================================
