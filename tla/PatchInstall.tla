---------------------------- MODULE PatchInstall ----------------------------
(***************************************************************************)
(* Running and re-running a patch installer on one installed package.  The *)
(* steps of each script are data (PatchScripts); this module runs them     *)
(* against the files on disk, over an image whose text may lack an anchor  *)
(* or may not take an edit, with copies that fail and a kill at any        *)
(* moment: a file is opened for writing (and emptied) before its new text  *)
(* is there.                                                               *)
(***************************************************************************)
EXTENDS Naturals, FiniteSets, PatchScripts

CONSTANTS Layouts, \* "repository": no script finds the kernels beside it;
                   \* "complete": they are where each script looks
          MaxOdd,  \* edits that may not fit the image
          MaxRuns  \* runs of the script

ASSUME InstallConstants == /\ Layouts \subseteq {"repository", "complete"}
                           /\ MaxOdd \in Nat /\ MaxRuns \in Nat

VARIABLES script, layout,
          image,   \* edit -> whether its anchor is there and its text parses
          carries, \* whether the copied backend file already has the edits
          disk,    \* file -> its state, its origin and the edits it has
          runs, doing,
          at, k,   \* the step, and the edit within it
          mem,     \* the text a step has read and is editing
          unbacked \* a backup's copy has failed or was cut short (history)

installVars == <<script, layout, image, carries, disk, runs, doing, at, k, mem, unbacked>>

Steps       == StepsOf(script)
Step        == Steps[at]
StepSet(s)  == {StepsOf(s)[i] : i \in DOMAIN StepsOf(s)}
Edits(step) == {step.edits[i] : i \in DOMAIN step.edits}
Editing(s)  == {step \in StepSet(s) : step.op \in {"patch", "replace"}}
Copying(s)  == {step \in StepSet(s) : step.op \in {"install", "copyover", "backup"}}
Files(s)    == {step.file : step \in Editing(s) \cup Copying(s)}
EditsIn(s, f) == UNION {Edits(step) : step \in {p \in Editing(s) : p.file = f}}
Names(s, f)   == {e.name : e \in EditsIn(s, f)}

File(state, from, has)   == [state |-> state, from |-> from, has |-> has]
Uniform(s, f, count)     == [e \in Names(s, f) |-> count]
Emptied(text)            == [text EXCEPT !.state = "empty",
                                         !.has = [e \in DOMAIN text.has |-> 0]]

\* The package as the image ships it: the edited files are there; the file
\* copied over is there if the sparse-MLA mod was installed before.
InstallInit ==
  /\ script \in Scripts
  /\ layout \in Layouts
  /\ \E odd \in {o \in SUBSET UNION {Names(script, f) : f \in Files(script)} :
                   Cardinality(o) <= MaxOdd} :
       \E kind \in [odd -> {"lacks", "breaks"}] :
         image = [e \in UNION {Names(script, f) : f \in Files(script)} |->
                    IF e \in odd THEN kind[e] ELSE "fits"]
  /\ carries \in IF script = "nvfp4" /\ layout = "complete" THEN BOOLEAN
                ELSE {FALSE}
  /\ carries => \A e \in Names(script, "flashmla_sparse") : image[e] = "fits"
  /\ \E there \in BOOLEAN :
       disk = [f \in Files(script) |->
                 IF Names(script, f) # {} \/ (script = "nvfp4" /\ there)
                   THEN File("whole", "image", Uniform(script, f, 0))
                   ELSE File("absent", "image", Uniform(script, f, 0))]
  /\ runs = 0 /\ doing = "idle"
  /\ at = 1 /\ k = 1
  /\ mem = File("absent", "image", << >>)
  /\ unbacked = FALSE
-----------------------------------------------------------------------------
AtRest == doing \in {"idle", "done", "failed"}

Begin == /\ AtRest /\ runs < MaxRuns
         /\ runs' = runs + 1
         /\ doing' = "step" /\ at' = 1
         /\ UNCHANGED <<script, layout, image, carries, unbacked, disk, k, mem>>

AtStep(ops) == doing = "step" /\ at <= Len(Steps) /\ Step.op \in ops

NextStep == /\ at' = at + 1
            /\ doing' = "step"

Fail == /\ doing' = "failed"
        /\ at' = at

Finish == /\ doing = "step" /\ at > Len(Steps)
          /\ doing' = "done"
          /\ UNCHANGED <<script, layout, image, carries, unbacked, disk, runs, at, k, mem>>
-----------------------------------------------------------------------------
(* Copies *)

Shipped == layout = "complete"

\* install fails without its source; cp is not even tried when the source
\* or the target is missing; cp -n leaves a backup that is already there.
Copies == \/ Step.op = "install" /\ Shipped
          \/ Step.op = "copyover" /\ Shipped /\ disk[Step.file].state # "absent"
          \/ Step.op = "backup" /\ disk[Step.file].state = "absent"

NoCopy == /\ AtStep({"install", "copyover", "backup"})
          /\ ~Copies
          /\ IF Step.op = "install" THEN Fail ELSE NextStep
          /\ UNCHANGED <<script, layout, image, carries, unbacked, disk, runs, k, mem>>

StartCopy == /\ AtStep({"install", "copyover", "backup"})
             /\ Copies
             /\ disk' = [disk EXCEPT ![Step.file] = Emptied(@)]
             /\ doing' = "copy"
             /\ UNCHANGED <<script, layout, image, carries, unbacked, runs, at, k, mem>>

\* A copy that is tried fails, before or after it has opened its target.  The
\* scripts run under set -e, but a backup's failure is ignored (|| true).
CopyFails ==
  /\ \/ AtStep({"install", "copyover", "backup"}) /\ Copies
     \/ doing = "copy"
  /\ IF Step.op = "backup" THEN NextStep ELSE Fail
  /\ unbacked' = (unbacked \/ Step.op = "backup")
  /\ UNCHANGED <<script, layout, image, carries, disk, runs, k, mem>>

EndCopy ==
  /\ doing = "copy"
  /\ disk' = [disk EXCEPT ![Step.file] =
                IF Step.op = "backup" THEN disk[Step.of]
                ELSE File("whole", "repo",
                          Uniform(script, Step.file, IF carries THEN 1 ELSE 0))]
  /\ NextStep
  /\ UNCHANGED <<script, layout, image, carries, unbacked, runs, k, mem>>
-----------------------------------------------------------------------------
(* Edits *)

MarksIn(text) == UNION {e.marks : e \in {d \in EditsIn(script, Step.file) :
                                           text.has[d.name] > 0}}
Parses(text)  == \A e \in DOMAIN text.has : text.has[e] > 0 => image[e] # "breaks"

\* Mutant of Read: the marker is not looked for.
ReadUnmarked == /\ AtStep({"patch", "replace"})
                /\ mem' = disk[Step.file]
                /\ k' = 1
                /\ doing' = "edit"
                /\ UNCHANGED <<script, layout, image, carries, unbacked, disk, runs, at>>

\* The file is read; a strict script leaves one that has the marker alone.
Read == /\ AtStep({"patch", "replace"})
        /\ IF Step.op = "patch" /\ Step.marker \in MarksIn(disk[Step.file])
             THEN NextStep /\ UNCHANGED <<k, mem>>
             ELSE /\ mem' = disk[Step.file]
                  /\ k' = 1
                  /\ doing' = "edit"
                  /\ at' = at
        /\ UNCHANGED <<script, layout, image, carries, unbacked, disk, runs>>

Edit == Step.edits[k]
Skipped == /\ Step.op = "replace"
           /\ Edit.name \in Step.guarded
           /\ Step.marker \in MarksIn(mem)
Found == /\ mem.state = "whole"
         /\ image[Edit.name] # "lacks"
         /\ Edit.keeps \/ mem.has[Edit.name] < Edit.copies

\* Mutant of MakeEdit: an anchor that is not found is passed over.
MakeEditLenient ==
  /\ doing = "edit" /\ k <= Len(Step.edits)
  /\ IF Skipped \/ ~Found
       THEN UNCHANGED mem
       ELSE mem' = [mem EXCEPT !.has[Edit.name] = @ + 1]
  /\ k' = k + 1
  /\ UNCHANGED <<script, layout, image, carries, unbacked, disk, runs, doing, at>>

\* The next edit is made in memory; a strict script asserts its anchor.
MakeEdit ==
  /\ doing = "edit" /\ k <= Len(Step.edits)
  /\ CASE Skipped -> k' = k + 1 /\ UNCHANGED <<mem, doing, at>>
       [] ~Skipped /\ Found -> /\ mem' = [mem EXCEPT !.has[Edit.name] = @ + 1]
                               /\ k' = k + 1
                               /\ UNCHANGED <<doing, at>>
       [] ~Skipped /\ ~Found -> IF Step.op = "patch"
                                  THEN Fail /\ UNCHANGED <<k, mem>>
                                  ELSE k' = k + 1 /\ UNCHANGED <<mem, doing, at>>
  /\ UNCHANGED <<script, layout, image, carries, unbacked, disk, runs>>

\* All edits are made: the text is parsed, where the script does so before
\* writing, and the file is opened, which empties it.
Open == /\ doing = "edit" /\ k > Len(Step.edits)
        /\ IF Step.op = "patch" /\ Step.parseFirst /\ ~Parses(mem)
             THEN Fail /\ UNCHANGED disk
             ELSE /\ disk' = [disk EXCEPT ![Step.file] = Emptied(@)]
                  /\ doing' = "write"
                  /\ at' = at
        /\ UNCHANGED <<script, layout, image, carries, unbacked, runs, k, mem>>

Write == /\ doing = "write"
         /\ disk' = [disk EXCEPT ![Step.file] = mem]
         /\ NextStep
         /\ UNCHANGED <<script, layout, image, carries, unbacked, runs, k, mem>>

\* The closing syntax and import checks.
FinalCheck == /\ AtStep({"check"})
              /\ IF \A f \in Step.files : Parses(disk[f]) THEN NextStep ELSE Fail
              /\ UNCHANGED <<script, layout, image, carries, unbacked, disk, runs, k, mem>>

\* The script is killed; the files stay as they are.
Crash == /\ ~AtRest
         /\ doing' = "idle"
         /\ unbacked' = (unbacked \/ (doing = "copy" /\ Step.op = "backup"))
         /\ UNCHANGED <<script, layout, image, carries, disk, runs, at, k, mem>>

InstallNext == \/ Begin \/ Finish \/ NoCopy \/ StartCopy \/ CopyFails \/ EndCopy
               \/ Read \/ MakeEdit \/ Open \/ Write \/ FinalCheck \/ Crash

InstallSpec == InstallInit /\ [][InstallNext]_installVars
-----------------------------------------------------------------------------
(* Properties *)

Strict == script # "sglang"
Patched(f)  == disk[f].state = "whole" /\ \A e \in DOMAIN disk[f].has : disk[f].has[e] = 1
EditedFiles == {step.file : step \in Editing(script)}

TypeOK == /\ script \in Scripts /\ layout \in Layouts
          /\ runs \in 0 .. MaxRuns
          /\ doing \in {"idle", "step", "copy", "edit", "write", "done", "failed"}
          /\ at \in 1 .. Len(Steps) + 1
          /\ k \in Nat \ {0} /\ unbacked \in BOOLEAN
          /\ \A f \in Files(script) :
               /\ disk[f].state \in {"absent", "empty", "whole"}
               /\ \A e \in DOMAIN disk[f].has : disk[f].has[e] \in 0 .. 1

\* A strict installer that reports success has made every one of its edits,
\* whatever earlier runs did or left half done, and left text that parses;
\* the kernels it must install are there.
DoneMeansPatched ==
  Strict /\ doing = "done" =>
    /\ \A f \in EditedFiles : Patched(f) /\ Parses(disk[f])
    /\ \A step \in StepSet(script) :
         step.op = "install" =>
           disk[step.file].state = "whole" /\ disk[step.file].from = "repo"

\* No run and no kill leaves a file with a part of a patch call's edits:
\* anchors are all checked before the file is opened.
WholePatches ==
  Strict => \A step \in Editing(script) :
              disk[step.file].state = "whole" =>
                \/ \A e \in Edits(step) : disk[step.file].has[e.name] = 0
                \/ \A e \in Edits(step) : disk[step.file].has[e.name] = 1

\* A run fails only for a cause outside the script: an image the edits do
\* not fit, a copy that fails or has no source, a file left empty by a kill
\* or by such a copy.  What an earlier run completed is never such a cause.
FailsForCause ==
  doing = "failed" =>
    \/ \E e \in DOMAIN image : image[e] # "fits"
    \/ at <= Len(Steps) /\ Step.op \in {"install", "copyover"}
    \/ \E f \in EditedFiles : disk[f].state = "empty"

\* "Idempotent: re-running is a no-op": once a strict script has made all its
\* edits, no later run touches an edited file, not even to empty it for a
\* moment.  Files that are copied over again are exempt.
CopiedFiles == {step.file : step \in Copying(script)}
RerunIsNoOp ==
  [][Strict /\ (\A f \in EditedFiles : Patched(f))
       => \A f \in EditedFiles \ CopiedFiles : disk'[f] = disk[f]]_installVars

\* As long as no backup's copy has failed or was cut short, the original of
\* the Marlin file is whole on disk, in its place or beside it, through kills
\* and re-runs, and a whole backup is the original.  One such copy voids both:
\* a partial backup is never made again and the file is edited all the same,
\* and where none was begun the next run backs up the edited file.
OriginalIsKept ==
  script = "asym" /\ ~unbacked =>
    LET AsShipped(f) == /\ disk[f].state = "whole"
                        /\ \A e \in Names(script, "ct_moe") : disk[f].has[e] = 0
    IN  /\ AsShipped("ct_moe") \/ AsShipped("ct_moe.orig")
        /\ disk["ct_moe.orig"].state = "whole" => AsShipped("ct_moe.orig")

\* nvfp4-mla-kv/README.md: run.sh "copies the kernels + patches the gate
\* sites".  What the patched store dispatch imports is then in the package.
KernelsAreCopied ==
  script = "nvfp4" /\ doing = "done" => disk["sm12x_sparse_mla_attn"].from = "repo"

\* recipe/BUILD.md runs sm12x-deepgemm-bypass/run.sh while it builds the
\* image: on an image that every edit fits, the first run does not fail.
RecipeBuilds ==
  script = "sm12x" /\ runs = 1 /\ (\A e \in DOMAIN image : image[e] = "fits")
    => doing # "failed"
=============================================================================
