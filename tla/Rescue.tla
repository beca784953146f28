-------------------------------- MODULE Rescue --------------------------------
(***************************************************************************)
(* Rescues: a temporary dsh started from the core bundles and the patch    *)
(* rows its user names (commands/rescue.ts, rescue-bundles.ts), its        *)
(* process group (lab/launcher.ts), its files and what list, enter and     *)
(* stop make of them.                                                      *)
(*                                                                         *)
(* A starter is a command, which ends with its answer, or the server,      *)
(* which lives on. The pid of a group is the rescue's own name: no reuse.  *)
(***************************************************************************)
EXTENDS Naturals, Sequences, SequencesExt, FiniteSets

CONSTANTS
  Rescues,
  Rows,         (* ids of patch rows                                       *)
  Bundle,       (* the one bundle that is not core                         *)
  MaxStops,     (* bound: stops at work at a time                          *)
  MaxPatchEdits, (* bound: edits of the official patch                     *)
  Absent

VARIABLES
  patch,        (* the official patch: rows in order, some disabled        *)
  installed,    (* the bundle: its row ids, Absent when broken             *)
  patchEdits,
  step,         (* how far the start of each rescue is                     *)
  by,           (* who starts it: "command" or "server"                    *)
  allow,        (* what the user named                                     *)
  home,         (* rescues/<id>: the rows of its patch                     *)
  group,        (* the process group                                       *)
  killer,       (* launchDsh's timer that sends SIGKILL                    *)
  probed, entry, record,
  stops,        (* stops at work: the rescue, what was sent                *)
  source,       (* history: the patch and the bundle the start read        *)
  excused       (* history: starts that were killed or timed out           *)

officialVars == <<patch, installed, patchEdits>>
fileVars == <<home, probed, entry, record>>
groupVars == <<group, killer>>
rescueVars == <<officialVars, step, by, allow, fileVars, groupVars, stops, source, excused>>

(* No rescue has the name of the absent one.                               *)
ASSUME RescueAssumption == Absent \notin Rescues

Disabled == [r \in Rows |-> [id |-> r, disabled |-> TRUE]]
Enabled == [r \in Rows |-> [id |-> r, disabled |-> FALSE]]
Patches == UNION {[1..n -> {Enabled[r] : r \in Rows} \cup {Disabled[r] : r \in Rows}] : n \in 0..2}
Alive(r) == group[r] \in {"starting", "up", "asked"}

RescueInit ==
  /\ patch \in Patches
  /\ installed \in {{r} : r \in Rows} \cup {{}, Absent}
  /\ patchEdits = 0
  /\ step = [r \in Rescues |-> "none"]
  /\ by = [r \in Rescues |-> "nobody"]
  /\ allow = [r \in Rescues |-> {}]
  /\ home = [r \in Rescues |-> Absent]
  /\ group = [r \in Rescues |-> "none"]
  /\ killer = [r \in Rescues |-> FALSE]
  /\ probed = [r \in Rescues |-> FALSE]
  /\ entry = [r \in Rescues |-> Absent]
  /\ record = [r \in Rescues |-> Absent]
  /\ stops = {}
  /\ source = [r \in Rescues |-> Absent]
  /\ excused = {}

Removed(r) ==
  /\ home' = [home EXCEPT ![r] = Absent]
  /\ probed' = [probed EXCEPT ![r] = FALSE]
  /\ entry' = [entry EXCEPT ![r] = Absent]
  /\ record' = [record EXCEPT ![r] = Absent]
StepsTo(r, s) == step' = [step EXCEPT ![r] = s]

----------------------------------------------------------------------------
(* filterPatchBlocks with keepDisabled: the blocks that were asked for, at *)
(* their places in the patch. A bundle that is named adds the rows it      *)
(* declares; it is read only then, and a broken one refuses the start.     *)
Filter(rows, wanted) == Restrict(rows, {i \in DOMAIN rows : rows[i].id \in wanted})
Wanted(names) == (names \cap Rows) \cup (IF Bundle \in names THEN installed ELSE {})
Unknown(names) == {r \in names \cap Rows : \A i \in DOMAIN patch : patch[i].id # r}

(* The composition is read and the rescue's home written under the         *)
(* profile's writer lock; a refusal removes what was made.                 *)
Start(r, who, names) ==
  /\ step[r] = "none"
  /\ by' = [by EXCEPT ![r] = who]
  /\ allow' = [allow EXCEPT ![r] = names]
  /\ \/ /\ Bundle \in names => installed # Absent
        /\ Unknown(names) = {}
        /\ home' = [home EXCEPT ![r] = Filter(patch, Wanted(names))]
        /\ source' = [source EXCEPT ![r] = [patch |-> patch, installed |-> installed]]
        /\ StepsTo(r, IF Bundle \in names THEN "install" ELSE "launch")
     \/ /\ (Bundle \in names /\ installed = Absent) \/ Unknown(names) # {}
        /\ StepsTo(r, "failed") /\ UNCHANGED <<home, source>>
  /\ UNCHANGED <<officialVars, probed, entry, record, groupVars, stops, excused>>

Install(r) ==
  /\ step[r] = "install"
  /\ \/ StepsTo(r, "launch") /\ UNCHANGED fileVars
     \/ StepsTo(r, "failed") /\ Removed(r)
  /\ UNCHANGED <<officialVars, by, allow, groupVars, stops, source, excused>>

(* launchDsh: a group of its own that says it is ready, exits before, or   *)
(* is ended after two minutes: SIGTERM, and SIGKILL by a timer that does   *)
(* not keep its process alive.                                             *)
Spawn(r) ==
  /\ step[r] = "launch"
  /\ StepsTo(r, "boot") /\ group' = [group EXCEPT ![r] = "starting"]
  /\ UNCHANGED <<officialVars, by, allow, fileVars, killer, stops, source, excused>>

Boot(r) ==
  /\ step[r] = "boot" /\ group[r] = "starting"
  /\ StepsTo(r, "probe") /\ group' = [group EXCEPT ![r] = "up"]
  /\ UNCHANGED <<officialVars, by, allow, fileVars, killer, stops, source, excused>>

BootFails(r) ==
  /\ step[r] = "boot" /\ group[r] = "dead"
  /\ StepsTo(r, "failed") /\ Removed(r)
  /\ UNCHANGED <<officialVars, by, allow, groupVars, stops, source, excused>>

BootTimeout(r) ==
  /\ step[r] = "boot" /\ group[r] = "starting"
  /\ StepsTo(r, "failed") /\ Removed(r)
  /\ group' = [group EXCEPT ![r] = "asked"]
  /\ killer' = [killer EXCEPT ![r] = by[r] = "server"]
  /\ excused' = excused \cup {r}
  /\ UNCHANGED <<officialVars, by, allow, stops, source>>

KillerFires(r) ==
  /\ killer[r]
  /\ killer' = [killer EXCEPT ![r] = FALSE]
  /\ group' = [group EXCEPT ![r] = "dead"]
  /\ UNCHANGED <<officialVars, step, by, allow, fileVars, stops, source, excused>>

(* probe.json, then entry.json, then rescue.json: what list and stop look  *)
(* for comes last.                                                         *)
WriteProbes(r) ==
  /\ step[r] = "probe"
  /\ probed' = [probed EXCEPT ![r] = TRUE] /\ StepsTo(r, "entry")
  /\ UNCHANGED <<officialVars, by, allow, home, entry, record, groupVars, stops, source, excused>>

WriteEntry(r) ==
  /\ step[r] = "entry"
  /\ entry' = [entry EXCEPT ![r] = r] /\ StepsTo(r, "record")
  /\ UNCHANGED <<officialVars, by, allow, home, probed, record, groupVars, stops, source, excused>>

WriteRecord(r) ==
  /\ step[r] = "record"
  /\ record' = [record EXCEPT ![r] = r] /\ StepsTo(r, "started")
  /\ UNCHANGED <<officialVars, by, allow, home, probed, entry, groupVars, stops, source, excused>>

(* The starter dies: nothing of what it made goes with it.                 *)
KillStarter(r) ==
  /\ step[r] \notin {"none", "failed", "started"}
  /\ StepsTo(r, "failed")
  /\ killer' = [killer EXCEPT ![r] = FALSE]
  /\ excused' = excused \cup {r}
  /\ UNCHANGED <<officialVars, by, allow, fileVars, group, stops, source>>

----------------------------------------------------------------------------
(* `rescue stop`: SIGTERM to the group of the record, SIGKILL 1.6 s later, *)
(* then the directory. Nothing keeps two of them apart.                    *)
Stop(r) ==
  /\ record[r] # Absent
  /\ Cardinality(stops) < MaxStops
  /\ \E n \in 1..MaxStops :
       /\ \A s \in stops : s.n # n
       /\ stops' = stops \cup {[n |-> n, rescue |-> r, at |-> "term"]}
  /\ group' = [group EXCEPT ![r] = IF Alive(r) THEN "asked" ELSE "dead"]
  /\ UNCHANGED <<officialVars, step, by, allow, fileVars, killer, source, excused>>

(* Mutant: the SIGTERM is thought to be enough.                            *)
StopAsks(s) ==
  /\ s.at = "term"
  /\ stops' = (stops \ {s}) \cup {[s EXCEPT !.at = "remove"]}
  /\ UNCHANGED <<officialVars, step, by, allow, fileVars, groupVars, source, excused>>

StopKills(s) ==
  /\ s.at = "term"
  /\ group' = [group EXCEPT ![s.rescue] = "dead"]
  /\ stops' = (stops \ {s}) \cup {[s EXCEPT !.at = "remove"]}
  /\ UNCHANGED <<officialVars, step, by, allow, fileVars, killer, source, excused>>

StopRemoves(s) ==
  /\ s.at = "remove"
  /\ Removed(s.rescue)
  /\ stops' = stops \ {s}
  /\ UNCHANGED <<officialVars, step, by, allow, groupVars, source, excused>>

StopKilled(s) ==
  /\ stops' = stops \ {s}
  /\ UNCHANGED <<officialVars, step, by, allow, fileVars, groupVars, source, excused>>

(* A group ends by itself, at the latest when it heeds a SIGTERM.          *)
Exit(r) ==
  /\ Alive(r)
  /\ group' = [group EXCEPT ![r] = "dead"]
  /\ UNCHANGED <<officialVars, step, by, allow, fileVars, killer, stops, source, excused>>

EditPatch ==
  /\ patchEdits < MaxPatchEdits /\ patchEdits' = patchEdits + 1
  /\ \E i \in DOMAIN patch : patch' = RemoveAt(patch, i)
  /\ UNCHANGED <<installed, step, by, allow, fileVars, groupVars, stops, source, excused>>

RescueNext ==
  \/ \E r \in Rescues :
       \/ \E who \in {"command", "server"}, names \in SUBSET (Rows \cup {Bundle}) :
            Start(r, who, names)
       \/ Install(r) \/ Spawn(r) \/ Boot(r) \/ BootFails(r) \/ BootTimeout(r) \/ KillerFires(r)
       \/ WriteProbes(r) \/ WriteEntry(r) \/ WriteRecord(r) \/ KillStarter(r)
       \/ Stop(r) \/ Exit(r)
  \/ \E s \in stops : StopKills(s) \/ StopRemoves(s) \/ StopKilled(s)
  \/ EditPatch

RescueSpec == RescueInit /\ [][RescueNext]_rescueVars

----------------------------------------------------------------------------
(* What list shows as alive, and what enter takes for valid.               *)
Listed(r) == record[r] # Absent
ListedAlive(r) == Listed(r) /\ Alive(record[r])
Entered(r) == ListedAlive(r) /\ entry[r] = record[r]

(* Whatever list shows alive can be entered.                               *)
AliveIsEntered == \A r \in Rescues : ListedAlive(r) => Entered(r)

(* No group runs that list does not show, but one whose start is under     *)
(* way, was killed, or gave up waiting for it.                             *)
NoStrayGroup ==
  \A r \in Rescues :
    Alive(r) => Listed(r) \/ step[r] \in {"boot", "probe", "entry", "record"} \/ r \in excused

(* A rescue loads the rows that were named and those of a named bundle, as *)
(* they stood in the patch, and no other.                                  *)
LoadsWhatWasAllowed ==
  \A r \in Rescues : home[r] # Absent =>
    /\ \A i \in DOMAIN home[r] :
         /\ \E j \in DOMAIN source[r].patch : source[r].patch[j] = home[r][i]
         /\ \/ home[r][i].id \in allow[r]
            \/ Bundle \in allow[r] /\ home[r][i].id \in source[r].installed
    /\ \A n \in allow[r] \cap Rows : \E i \in DOMAIN home[r] : home[r][i].id = n

RescueHonest == AliveIsEntered /\ NoStrayGroup /\ LoadsWhatWasAllowed

=============================================================================
