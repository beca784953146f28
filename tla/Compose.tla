-------------------------------- MODULE Compose -------------------------------
(***************************************************************************)
(* The check of a lab's composed configuration (lab/compose.ts): the host  *)
(* dumps its loader rows, and the probe looks for ids emitted twice, patch *)
(* rows without a target, packages that are not installed, chains of       *)
(* external injections that loop, and core rows that changed.              *)
(*                                                                         *)
(* A row has an id; `links` are the row ids its external injections name.  *)
(***************************************************************************)
EXTENDS Naturals, Sequences, SequencesExt, FiniteSets

CONSTANTS
  Ids,
  Packages,
  Core,         (* the bundle that is core                                 *)
  Extra,        (* a bundle that is not                                    *)
  None

VARIABLES
  rows,         (* the candidate's rows: id, name, bundle, disabled        *)
  baseline,     (* the rows of the pristine template                       *)
  links,        (* per id, the targets of its last row in order            *)
  overlay,      (* the lab's patch: entries with an id and inserted names  *)
  installed,
  host,         (* "accepts", "complains", "no spawn", "unreadable"        *)
  at,           (* "dump", "walk", "verdict"                               *)
  stack, inStack, done,
  problems,     (* what findCompositionProblems reports                    *)
  probes        (* the results: "pass" or "fail"                           *)

treeVars == <<rows, baseline, links, overlay, installed, host>>
walkVars == <<stack, inStack, done>>
composeVars == <<treeVars, at, walkVars, problems, probes>>

Row == [id : Ids, name : {"n1", None}, bundle : {Core, Extra, None}, disabled : BOOLEAN]
Plain(i) == [id |-> i, name |-> "n1", bundle |-> Core, disabled |-> FALSE]
Entry == [id : Ids \cup {None}, insert : SUBSET Packages]
AnId == CHOOSE i \in Ids : TRUE

(* One part of the input varies at a time.                                 *)
Init ==
  /\ \/ /\ rows \in UNION {[1..n -> Row] : n \in 0..2}
        /\ links = [i \in Ids |-> <<>>]
        /\ baseline \in {<<Plain(AnId)>>} \cup {<<Plain(AnId), r>> : r \in Row}
        /\ overlay = <<>> /\ installed = {} /\ host = "accepts"
     \/ /\ rows \in {[n \in 1..Cardinality(S) |-> Plain(SetToSeq(S)[n])] : S \in SUBSET Ids}
        /\ links = [i \in Ids |-> <<>>]
        /\ baseline = <<>>
        /\ overlay \in UNION {[1..n -> Entry] : n \in 0..1}
        /\ installed \in SUBSET Packages
        /\ host \in {"accepts", "complains", "no spawn", "unreadable"}
     \/ /\ rows = [n \in 1..Cardinality(Ids) |-> Plain(SetToSeq(Ids)[n])]
        /\ links \in [Ids -> {SetToSeq(S) : S \in SUBSET Ids}]
        /\ baseline = <<>> /\ overlay = <<>> /\ installed = {} /\ host = "accepts"
  /\ at = "dump"
  /\ stack = <<>> /\ inStack = {} /\ done = {}
  /\ problems = {} /\ probes = <<>>

IdsOf(rs) == {rs[n].id : n \in DOMAIN rs}
Known == IdsOf(rows)
(* injectExternalTargets: only ids of the tree are edges.                  *)
Targets(i) == SelectSeq(links[i], LAMBDA t : t \in Known)
RawById(rs, i) == rs[CHOOSE n \in DOMAIN rs : rs[n].id = i /\ \A m \in DOMAIN rs : m > n => rs[m].id # i]
Named(i) == {n \in DOMAIN rows : rows[n].id = i /\ rows[n].name # None}

Duplicates == {[code |-> "duplicate-id", entries |-> <<i>>] : i \in {j \in Known : Cardinality(Named(j)) >= 2}}
InvalidRows ==
  {[code |-> "invalid-patch-row", entries |-> <<overlay[n].id>>] : n \in
     {m \in DOMAIN overlay : overlay[m].insert = {} /\ overlay[m].id \notin Known \cup {None}}}
MissingPackages ==
  UNION {{[code |-> "missing-package", entries |-> <<p>>] : p \in overlay[n].insert \ installed}
           : n \in DOMAIN overlay}

(* assertCoreRows, against the template the host itself emits.             *)
CoreBundles == {Core}
Expected == SelectSeq(baseline, LAMBDA r : r.bundle \in CoreBundles /\ ~RawById(baseline, r.id).disabled)
Trusted == Expected # <<>> /\ \A n \in DOMAIN baseline : baseline[n].bundle # None
Found(i) == SelectSeq(rows, LAMBDA r : r.id = i)

(* Mutant: the first row with the id is compared.                          *)
CoreFirst ==
  /\ Trusted
  /\ \A n \in DOMAIN Expected :
       LET want == Expected[n]  got == Found(want.id)
       IN /\ got # <<>>
          /\ got[1].bundle = want.bundle /\ got[1].name = want.name
          /\ ~RawById(rows, want.id).disabled

CoreIntact ==
  /\ Trusted
  /\ \A n \in DOMAIN Expected :
       LET want == Expected[n]  got == Found(want.id)
       IN /\ Len(got) = 1
          /\ got[1].bundle = want.bundle /\ got[1].name = want.name
          /\ ~RawById(rows, want.id).disabled

----------------------------------------------------------------------------
Dump ==
  /\ at = "dump"
  /\ IF host = "accepts"
     THEN /\ probes' = <<"pass">> \o (IF baseline = <<>> THEN <<>>
                                      ELSE IF CoreIntact THEN <<"pass">> ELSE <<"fail">>)
          /\ problems' = Duplicates \cup InvalidRows \cup MissingPackages
          /\ at' = "walk"
     ELSE /\ probes' = (IF host = "unreadable" THEN <<"pass">> ELSE <<>>) \o <<"fail">>
          /\ at' = "verdict" /\ UNCHANGED problems
  /\ UNCHANGED <<treeVars, walkVars>>

(* The depth-first walk, without recursion: a row is entered ...           *)
Enter ==
  /\ at = "walk" /\ stack = <<>>
  /\ \E i \in Known \ done :
       stack' = <<i>> /\ inStack' = {i}
  /\ UNCHANGED <<treeVars, at, done, problems, probes>>

(* ... and its targets are looked at in order up to the first that is new: *)
(* those on the stack close a loop. It is left when no target is new.      *)
Current == Last(stack)
NewAt == {n \in DOMAIN Targets(Current) : Targets(Current)[n] \notin inStack \cup done}
Seen == IF NewAt = {} THEN DOMAIN Targets(Current)
        ELSE 1..((CHOOSE n \in NewAt : \A m \in NewAt : n <= m) - 1)
Loop(t) == SubSeq(stack, CHOOSE n \in DOMAIN stack : stack[n] = t, Len(stack)) \o <<t>>
Loops == {[code |-> "inject-external-cycle", entries |-> Loop(t)] :
            t \in {Targets(Current)[n] : n \in Seen} \cap inStack}

Advance ==
  /\ at = "walk" /\ stack # <<>> /\ NewAt # {}
  /\ LET t == Targets(Current)[CHOOSE n \in NewAt : \A m \in NewAt : n <= m]
     IN stack' = Append(stack, t) /\ inStack' = inStack \cup {t}
  /\ problems' = problems \cup Loops
  /\ UNCHANGED <<treeVars, at, done, probes>>

Leave ==
  /\ at = "walk" /\ stack # <<>> /\ NewAt = {}
  /\ problems' = problems \cup Loops
  /\ stack' = Front(stack)
  /\ inStack' = inStack \ {Current}
  /\ done' = done \cup {Current}
  /\ UNCHANGED <<treeVars, at, probes>>

Report ==
  /\ at = "walk" /\ stack = <<>> /\ Known \subseteq done
  /\ probes' = probes \o (IF problems = {} THEN <<"pass">>
                          ELSE [n \in 1..Cardinality(problems) |-> "fail"])
  /\ at' = "verdict"
  /\ UNCHANGED <<treeVars, walkVars, problems>>

Next == Dump \/ Enter \/ Advance \/ Leave \/ Report

Spec == Init /\ [][Next]_composeVars

----------------------------------------------------------------------------
Step(i) == {Targets(i)[n] : n \in DOMAIN Targets(i)}
Reach[n \in 0..Cardinality(Ids), i \in Ids] ==
  IF n = 0 THEN Step(i)
  ELSE Reach[n - 1, i] \cup UNION {Step(j) : j \in Reach[n - 1, i] \cap Known}
Looping == {i \in Known : i \in Reach[Cardinality(Ids), i]}
CyclesReported == {p \in problems : p.code = "inject-external-cycle"}

(* Every loop reported is one, and when a chain loops some loop is         *)
(* reported: two chains that meet are not a loop.                          *)
LoopsAreReal ==
  /\ \A p \in CyclesReported :
       /\ Head(p.entries) = Last(p.entries) /\ Len(p.entries) > 1
       /\ \A n \in 1..(Len(p.entries) - 1) : p.entries[n + 1] \in Step(p.entries[n])
  /\ at = "verdict" /\ host = "accepts" => (CyclesReported # {}) = (Looping # {})

(* A composition that passes has the core rows of the template, each once, *)
(* enabled and from its own bundle.                                        *)
Passes == at = "verdict" /\ \A n \in DOMAIN probes : probes[n] = "pass"
PassKeepsCore ==
  Passes /\ baseline # <<>> =>
    \A n \in DOMAIN baseline :
      baseline[n].bundle = Core /\ ~baseline[n].disabled
        /\ (\A m \in DOMAIN baseline : m # n => baseline[m].id # baseline[n].id)
      => Found(baseline[n].id) = <<baseline[n]>>

ComposeSound == LoopsAreReal /\ PassKeepsCore

=============================================================================
