-------------------------------- MODULE Portable ------------------------------
(***************************************************************************)
(* An environment taken from one machine to another                        *)
(* (workflows/portable.ts): the bundle made from a snapshot, without what  *)
(* looks like a secret, and the lab made from a bundle and the files its   *)
(* user adds.                                                              *)
(*                                                                         *)
(* A file is its content and the home its paths point into. The profile    *)
(* has one plugin from a local directory, whose source is one number.      *)
(***************************************************************************)
EXTENDS Naturals, FiniteSets

CONSTANTS
  Clean,        (* content without secrets                                 *)
  Secret,       (* content that looks like a secret                        *)
  Given,        (* what the user adds for a file that is missing           *)
  MaxEdits,     (* bound: edits of the local source                        *)
  None

VARIABLES
  kept,         (* per file of the snapshot, the bytes in its object or None *)
  vendor,       (* the local plugin in the snapshot: its hash, and what it is *)
  source,       (* its directory now: the number of the last edit          *)
  at,           (* "read", "walk", "bundle", "exported", "refused"         *)
  walked,       (* the source the export has read                          *)
  bundle,
  altered,      (* the bundle was changed on its way                       *)
  step,         (* of the import                                           *)
  added,        (* the files the user adds                                 *)
  lab,          (* the files and the plugin of the lab                     *)
  official      (* the profile on the target: only labs change             *)

snapVars == <<kept, vendor>>
exportVars == <<at, walked, bundle>>
importVars == <<step, added, lab, official>>
portableVars == <<snapVars, source, exportVars, altered, importVars>>

Files == {"package.json", "pnpm-lock.yaml", "cordis.patch.yml", "home/cordis.patch.yml"}
Patches == {"cordis.patch.yml", "home/cordis.patch.yml"}
File(content, home) == [content |-> content, home |-> home]
Plugins == {"none", "plain", "inner", "outer", "secret", "link", "unhashed"}

Init ==
  /\ kept \in [Files -> {Clean, Secret, None}]
  /\ vendor \in [is : Plugins, hash : {0}]
  /\ source = 0
  /\ at = "read" /\ walked = None
  /\ bundle = None /\ altered = FALSE
  /\ step = "idle" /\ added = {} /\ lab = None
  /\ official = "as it was"

HasVendor == vendor.is # "none"

----------------------------------------------------------------------------
(* exportEnvironment: a file whose bytes are sealed, skipped or look like  *)
(* a secret is only named as required.                                     *)
(* Mutant: whatever is stored is carried.                                  *)
CarriedUnscanned == {f \in Files : kept[f] # None}

Carried == {f \in Files : kept[f] = Clean}

Required == Files \ Carried

ReadSource ==
  /\ at = "read"
  /\ IF vendor.is = "unhashed" \/ (HasVendor /\ source # vendor.hash)
     THEN at' = "refused" ELSE at' = "walk"
  /\ UNCHANGED <<snapVars, source, walked, bundle, altered, importVars>>

Walk ==
  /\ at = "walk"
  /\ IF vendor.is \in {"secret", "link"} THEN at' = "refused" /\ UNCHANGED walked
     ELSE at' = "bundle" /\ walked' = source
  /\ UNCHANGED <<snapVars, source, bundle, altered, importVars>>

(* The source is hashed once more; the local dependency and the lockfile   *)
(* then point into the bundle, the patches to no home in particular; and   *)
(* the bundle must pass the parser of the import.                          *)
Bundled(f) == File(Clean, IF f \in Patches THEN "any" ELSE "bundle")
Parses(b) ==
  /\ ~b.broken
  /\ b.plugin # None => b.inside
  /\ \A f \in DOMAIN b.files : b.files[f].home # "source"

Made == [files |-> [f \in Carried |-> Bundled(f)], required |-> Required,
         plugin |-> IF HasVendor THEN walked ELSE None,
         inside |-> vendor.is # "outer", broken |-> FALSE]

MakeBundle ==
  /\ at = "bundle"
  /\ IF HasVendor => source = vendor.hash /\ "package.json" \in Carried
     THEN IF Parses(Made) THEN at' = "exported" /\ bundle' = Made
          ELSE at' = "refused" /\ UNCHANGED bundle
     ELSE at' = "refused" /\ UNCHANGED bundle
  /\ UNCHANGED <<snapVars, source, walked, altered, importVars>>

----------------------------------------------------------------------------
(* importEnvironment. Its refusals come before any lab: a hash that does   *)
(* not agree, a required file that is not added, one that was not asked for. *)
ParseBundle(names) ==
  /\ at = "exported" /\ step = "idle"
  /\ added' = names
  /\ step' = IF Parses(bundle) /\ names = bundle.required THEN "create" ELSE "refused"
  /\ UNCHANGED <<snapVars, source, exportVars, altered, lab, official>>

(* The lab starts as a clone of the profile on this machine, and is        *)
(* emptied before the files are written.                                   *)
CreateLab ==
  /\ step = "create"
  /\ lab' = [files |-> [f \in Files |-> File(official, "source")], plugin |-> None,
             state |-> "created"]
  /\ step' = "write"
  /\ UNCHANGED <<snapVars, source, exportVars, altered, added, official>>

Rebased(f, file) == IF f \in Patches THEN [file EXCEPT !.home = "lab"] ELSE file
Written(f) ==
  IF f \in bundle.required THEN Rebased(f, File(Given, "bundle"))
  ELSE Rebased(f, bundle.files[f])

WriteFiles ==
  /\ step = "write"
  /\ lab' = [lab EXCEPT !.files = [f \in DOMAIN bundle.files \cup bundle.required |-> Written(f)]]
  /\ step' = "vendor"
  /\ UNCHANGED <<snapVars, source, exportVars, altered, added, official>>

(* The plugin's files go beside the labs; package.json and the lockfile    *)
(* then name them there.                                                   *)
WriteVendors ==
  /\ step = "vendor"
  /\ lab' = IF bundle.plugin = None THEN lab
            ELSE [lab EXCEPT !.plugin = bundle.plugin,
                             !.files = [f \in DOMAIN @ |-> IF f \in Patches THEN @[f]
                                                           ELSE [@[f] EXCEPT !.home = "lab"]]]
  /\ step' = "install"
  /\ UNCHANGED <<snapVars, source, exportVars, altered, added, official>>

Install ==
  /\ step = "install"
  /\ step' \in {"run", "failed"}
  /\ UNCHANGED <<snapVars, source, exportVars, altered, added, lab, official>>

Verify ==
  /\ step = "run"
  /\ \E ok \in BOOLEAN : lab' = [lab EXCEPT !.state = IF ok THEN "verified" ELSE "failed"]
  /\ step' = "done"
  /\ UNCHANGED <<snapVars, source, exportVars, altered, added, official>>

Killed ==
  /\ step \in {"create", "write", "vendor", "install", "run"}
  /\ step' = "failed"
  /\ UNCHANGED <<snapVars, source, exportVars, altered, added, lab, official>>

----------------------------------------------------------------------------
EditSource ==
  /\ source < MaxEdits /\ source' = source + 1
  /\ UNCHANGED <<snapVars, exportVars, altered, importVars>>

Alter ==
  /\ at = "exported" /\ step = "idle" /\ ~altered
  /\ altered' = TRUE /\ bundle' = [bundle EXCEPT !.broken = TRUE]
  /\ UNCHANGED <<snapVars, source, at, walked, importVars>>

Next ==
  \/ ReadSource \/ Walk \/ MakeBundle
  \/ \E names \in SUBSET Files : ParseBundle(names)
  \/ CreateLab \/ WriteFiles \/ WriteVendors \/ Install \/ Verify \/ Killed
  \/ EditSource \/ Alter

Spec == Init /\ [][Next]_portableVars

----------------------------------------------------------------------------
(* A bundle carries nothing that looks like a secret, and the source of    *)
(* the plugin that the snapshot vouches for.                               *)
BundleIsPublic ==
  bundle # None =>
    /\ \A f \in DOMAIN bundle.files : kept[f] = Clean
    /\ HasVendor => bundle.plugin = vendor.hash /\ vendor.is # "secret"

(* An imported lab that was verified is the snapshot with the files its    *)
(* user added: nothing of the clone it started as, no path into the home   *)
(* it came from, and the plugin of the snapshot.                           *)
ImportedIsExported ==
  lab # None /\ lab.state = "verified" =>
    /\ ~altered
    /\ DOMAIN lab.files = Files
    /\ \A f \in Files :
         /\ lab.files[f].content = IF f \in Required THEN Given ELSE Clean
         /\ lab.files[f].home = IF f \in Patches \/ HasVendor THEN "lab" ELSE "bundle"
    /\ HasVendor => lab.plugin = vendor.hash

(* A bundle as it was exported is not refused for its content.             *)
ExportIsImported == step = "refused" => altered \/ added # Required

PortableSound == BundleIsPublic /\ ImportedIsExported /\ ExportIsImported

=============================================================================
