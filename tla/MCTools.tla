-------------------------------- MODULE MCTools --------------------------------
(***************************************************************************)
(* Small instances of the modules of the commands and of the routes behind *)
(* the page, for TLC. One of them acts: `part` is chosen in the initial    *)
(* state.                                                                  *)
(*                                                                         *)
(*   "secrets", "rescue", "verification", "container", "compose",          *)
(*   "portable", "management", "world view"                                *)
(*   "promotion"    Promotion, one attempt while people edit                *)
(*   "upgrades"     Upgrades, one plugin with a newer version              *)
(*   "versions"     Upgrades, every pair of versions, nothing happens      *)
(*   "host trial"   Upgrades, only the trial of another host               *)
(*                                                                         *)
(* Secrets, Rescue, Upgrades and Verification have their own variables.    *)
(* Those of the other parts are shared: t1, t2, ... stand for those of the part  *)
(* that acts, in the order in which its module declares them, and the ones *)
(* it does not need are None.                                              *)
(***************************************************************************)
EXTENDS Secrets, Rescue, Upgrades, Verification

CONSTANTS c1, c2, n1, x1, x2, d1, d2, d3, a, b, c, core, extra,
          Child, Clean, Secret, Given

VARIABLES part, t1, t2, t3, t4, t5, t6, t7, t8, t9, t10, t11, t12, t13, t14, t15, t16,
          t17, t18

rest16 == <<t16, t17, t18>>
rest14 == <<t14, t15, rest16>>
rest13 == <<t13, rest14>>
rest12 == <<t12, rest13>>
rest8 == <<t8, t9, t10, t11, rest12>>
rest7 == <<t7, rest8>>
sharedVars == <<t1, t2, t3, t4, t5, t6, rest7>>
ownVars == <<secretsVars, rescueVars, upgradesVars, verificationVars>>
runVars == <<part, ownVars, sharedVars>>

----------------------------------------------------------------------------
D == INSTANCE Container WITH
       Svcs <- {d1, d2, d3}, Order <- <<d1, d2, d3>>, MaxCalls <- 2, MaxDepth <- 8,
       kind <- t1, needs <- t2, touches <- t3, lenient <- t4, inChild <- t5,
       cache <- t6, behind <- t7, owned <- t8, live <- t9, trail <- t10,
       stack <- t11, calls <- t12, outcome <- t13, blamed <- t14, ended <- t15

K == INSTANCE Compose WITH
       Ids <- {a, b, c}, Packages <- {"p"}, Core <- core, Extra <- extra,
       rows <- t1, baseline <- t2, links <- t3, overlay <- t4, installed <- t5,
       host <- t6, at <- t7, stack <- t8, inStack <- t9, done <- t10,
       problems <- t11, probes <- t12

P == INSTANCE Portable WITH
       MaxEdits <- 1,
       kept <- t1, vendor <- t2, source <- t3, at <- t4, walked <- t5, bundle <- t6,
       altered <- t7, step <- t8, added <- t9, lab <- t10, official <- t11

Q == INSTANCE Promotion WITH
       Txn <- {n1}, Version <- {a, b, c}, First <- a,
       Source <- [t \in {n1} |-> a], Candidate <- [t \in {n1} |-> b],
       Installed <- {c}, Edits <- {a, c},
       UserSnapshots <- 1, MaxSnapshots <- 2, MaxFailures <- 1,
       Mixed <- core, Bare <- extra,
       files <- t1, stage <- t2, txn <- t3, kept <- t4, snap <- t5, head <- t6,
       good <- t7, journal <- t8, child <- t9, writer <- t10, vault <- t11, pc <- t12,
       kind <- t13, cur <- t14, mem <- t15, taking <- t16, proved <- t17, failures <- t18

ASSUME Q!Assumptions

M == INSTANCE Management WITH
       Requests <- {c1, c2}, MaxLabs <- 3, Names <- {"x"}, Served <- 1,
       lab <- t1, next <- t2, default <- t3, svc <- t4, op <- t5, req <- t6

V == INSTANCE WorldView WITH
       Labs <- {x1}, MaxTxns <- 1, MaxPruned <- 0,
       lab <- t1, child <- t2, snaps <- t3, journal <- t4, merge <- t5, pruned <- t6,
       view <- t7

----------------------------------------------------------------------------
(* The variables from the given one on are not needed.                     *)
No16 == t16 = None /\ t17 = None /\ t18 = None
No14 == t14 = None /\ t15 = None /\ No16
No13 == t13 = None /\ No14
No12 == t12 = None /\ No13
No8 == t8 = None /\ t9 = None /\ t10 = None /\ t11 = None /\ No12
No7 == t7 = None /\ No8
NoShared == t1 = None /\ t2 = None /\ t3 = None /\ t4 = None /\ t5 = None /\ t6 = None /\ No7

NoSecrets == SecretsInit /\ secret = {} /\ item = None
NoRescue == RescueInit /\ patch = <<>> /\ installed = {}
NoVerification == VerificationInit /\ plan = "none"

Older == [core |-> 0, pre |-> <<>>]
Newer == [core |-> 1, pre |-> <<>>]
OneUpgrade == UpgradesInit /\ current = Older /\ latest = Newer

(* Management: the second lab is an experiment or a line of another        *)
(* profile.                                                                *)
SharedInit ==
  \/ part = "container" /\ D!Init /\ No16
  \/ part = "compose" /\ K!Init /\ No13
  \/ part = "portable" /\ P!Init /\ No12
  \/ part = "promotion" /\ Q!Init
  \/ part = "management" /\ M!Init /\ (t1[2].mirror => ~t1[2].mine) /\ No7
  \/ part = "world view" /\ V!Init /\ No8

ToolsInit ==
  \/ /\ \/ part = "secrets" /\ SecretsInit /\ NoRescue /\ OneUpgrade
        \/ part = "rescue" /\ NoSecrets /\ RescueInit /\ OneUpgrade
        \/ part \in {"upgrades", "host trial"} /\ NoSecrets /\ NoRescue /\ OneUpgrade
        \/ part = "versions" /\ NoSecrets /\ NoRescue /\ UpgradesInit
     /\ NoVerification /\ NoShared
  \/ /\ part = "verification" /\ VerificationInit
     /\ NoSecrets /\ NoRescue /\ OneUpgrade /\ NoShared
  \/ SharedInit /\ NoSecrets /\ NoRescue /\ OneUpgrade /\ NoVerification

(* Management: the requests are interchangeable, so the second of them is  *)
(* not made before the first one is.                                       *)
FirstAsks == t6[c1].at = "none" => (t6'[c2] = t6[c2] \/ t6[c2].at # "none")

SharedNext ==
  \/ part = "container" /\ D!Next /\ UNCHANGED <<part, rest16>>
  \/ part = "compose" /\ K!Next /\ UNCHANGED <<part, rest13>>
  \/ part = "portable" /\ P!Next /\ UNCHANGED <<part, rest12>>
  \/ part = "promotion" /\ Q!Next /\ UNCHANGED part
  \/ part = "management" /\ M!Next /\ FirstAsks /\ UNCHANGED <<part, rest7>>
  \/ part = "world view" /\ V!Next /\ UNCHANGED <<part, rest8>>

ToolsNext ==
  \/ /\ part = "secrets" /\ SecretsNext
     /\ UNCHANGED <<part, rescueVars, upgradesVars, verificationVars, sharedVars>>
  \/ /\ part = "rescue" /\ RescueNext
     /\ UNCHANGED <<part, secretsVars, upgradesVars, verificationVars, sharedVars>>
  \/ /\ part = "upgrades" /\ UpgradesNext
     /\ UNCHANGED <<part, trial, secretsVars, rescueVars, verificationVars, sharedVars>>
  \/ /\ part = "host trial" /\ UpgradesNext
     /\ UNCHANGED <<part, clock, policy, sourceEdits, secretsVars, rescueVars,
                    verificationVars, sharedVars>>
  \/ /\ part = "verification" /\ VerificationNext
     /\ UNCHANGED <<part, secretsVars, rescueVars, upgradesVars, sharedVars>>
  \/ SharedNext /\ UNCHANGED ownVars

ToolsSpec == ToolsInit /\ [][ToolsNext]_runVars

----------------------------------------------------------------------------
(* SecretsSound and KeyIsKept are Secrets's, RescueHonest is Rescue's,     *)
(* UpgradesSound and ChecksApart are of Upgrades: results speak of the     *)
(* stable point, and the checks that ticks start are an interval apart.    *)
(* VerificationSound is Verification's: what is promoted was proved by a   *)
(* run of just this content.                                               *)

(* Container.ContainerSound: a service is built once, a cycle reported is  *)
(* one, and disposal takes the reverse of the construction.                *)
(* Compose.ComposeSound: the loops reported are loops, and a composition   *)
(* that passes has the core rows of the template.                          *)
(* Portable.PortableSound: a bundle carries no secret, and the lab made    *)
(* from it is the snapshot. Promotion.RecordsAgree, also while people      *)
(* edit: the files, the swap record, the transactions and the journal fit  *)
(* together after every step. Management.ManagementSound: the changes of   *)
(* lines, names, services and the default keep together what belongs       *)
(* together. WorldView.WorldSound: the time line read from the records     *)
(* tells of each operation once, on its own line.                          *)
ToolsHonest ==
  /\ part = "container" => D!ContainerSound
  /\ part = "compose" => K!ComposeSound
  /\ part = "portable" => P!PortableSound
  /\ part = "promotion" => Q!RecordsAgree
  /\ part = "management" => M!ManagementSound
  /\ part = "world view" => V!WorldSound

=============================================================================
