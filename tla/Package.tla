------------------------------- MODULE Package -------------------------------
(***************************************************************************)
(* scripts/package_8gen5.sh: the three model folders are made one after    *)
(* the other from the build and the artifacts of the day, under            *)
(* "set -euo pipefail": a source that is missing, a copy, a write or a     *)
(* removal that fails, or an interruption ends the script where it is.     *)
(* Only PROMPTS_ROOT may be missing.  A file that was cut off counts as    *)
(* one that is not there, and so do the libraries when one of them is not. *)
(***************************************************************************)
EXTENDS Integers, Sequences, FiniteSets

CONSTANTS
    Models,         \* in the order they are packaged
    Unlinks(_),     \* files rm may remove next, of those that are left
    MaxRuns         \* bound: runs of the script

ASSUME PackageAssumption == Models \in Seq(STRING) \ {<< >>} /\ MaxRuns \in Nat

\* What a package is made of, in order; at first the old folder is removed.
Steps == << "clear", "dflash-runtime", "libQnn.so", "embedding.fp16.bin", "tokenizer.json", "prompts",
            "target", "draft", "run_single.sh", "run_dataset.sh" >>

\* What run_single.sh names, and the scripts themselves.
Required == {Steps[i] : i \in DOMAIN Steps} \ {"clear", "prompts"}

VARIABLES
    deploy,     \* DST_ROOT: files of each model's folder with the run they are of
    torn,       \* folders a run has begun to remove and not made again
    run,        \* runs of the script so far
    prompts,    \* PROMPTS_ROOT is there
    at,         \* model and step of the run under way
    exit        \* "running", or how the last run ended

package == <<deploy, torn, run, prompts, at, exit>>

PackageInit ==
    /\ deploy = [m \in DOMAIN Models |-> {}] /\ torn = {}
    /\ run = 0 /\ prompts = FALSE /\ at = <<1, 1>> /\ exit = "done"

\* The binary and SRC_ROOT are looked for before anything is touched.
PackageStart ==
    /\ exit # "running" /\ run < MaxRuns
    /\ run' = run + 1 /\ at' = <<1, 1>>
    /\ prompts' \in BOOLEAN
    /\ exit' \in {"running", "failed"}
    /\ UNCHANGED <<deploy, torn>>

Files(m) == {c.file : c \in deploy[m]}

\* rm -rf takes the folder file by file, in the order of the file system.
PackageRemove ==
    LET m == at[1] IN
    /\ exit = "running" /\ m \in DOMAIN Models /\ Steps[at[2]] = "clear"
    /\ \E c \in deploy[m] :
            /\ c.file \in Unlinks(Files(m))
            /\ deploy' = [deploy EXCEPT ![m] = @ \ {c}]
    /\ torn' = torn \cup {m}
    /\ UNCHANGED <<run, prompts, at, exit>>

\* Mutant: the folder is made over what is left of it.
MadeOver(m) == TRUE

Removed(m) == deploy[m] = {}

\* A file of the same name is replaced.
WithFile(m, file) == {c \in deploy[m] : c.file # file} \cup {[file |-> file, of |-> run]}

\* Mutant: a step behind the last one.
StepPast ==
    IF at[2] <= Len(Steps) THEN <<at[1], at[2] + 1>> ELSE <<at[1] + 1, 1>>

NextStep ==
    IF at[2] < Len(Steps) THEN <<at[1], at[2] + 1>> ELSE <<at[1] + 1, 1>>

PackageStep ==
    LET m    == at[1]
        step == Steps[at[2]]
    IN /\ exit = "running" /\ m \in DOMAIN Models
       /\ step = "clear" => Removed(m)
       /\ deploy' = IF step = "clear" \/ (step = "prompts" /\ ~prompts) THEN deploy
                    ELSE [deploy EXCEPT ![m] = WithFile(m, step)]
       /\ torn' = IF step = "clear" THEN torn \ {m} ELSE torn
       /\ at' = NextStep
       /\ UNCHANGED <<run, prompts, exit>>

PackageFails ==
    /\ exit = "running" /\ at[1] \in DOMAIN Models
    /\ Steps[at[2]] = "prompts" => prompts
    /\ exit' = "failed"
    /\ UNCHANGED <<deploy, torn, run, prompts, at>>

PackageDone ==
    /\ exit = "running" /\ at[1] \notin DOMAIN Models
    /\ exit' = "done"
    /\ UNCHANGED <<deploy, torn, run, prompts, at>>

PackageNext == PackageStart \/ PackageRemove \/ PackageStep \/ PackageFails \/ PackageDone
-----------------------------------------------------------------------------
Ages(m) == {c.of : c \in deploy[m]}

(***************************************************************************)
(* Wherever runs of the script were interrupted or failed, also in the     *)
(* middle of a removal, what a folder holds is of one run, and one that    *)
(* can run a dataset is complete, unless a run has begun to remove it: in  *)
(* what rm leaves of it run_dataset.sh may outlive the rest.  The folders  *)
(* of later models are never newer than those of earlier ones, and when    *)
(* the script ends with success all of them are complete and of that run,  *)
(* whatever the runs before have left behind.                              *)
(***************************************************************************)
PackagesWhole ==
    /\ \A m \in DOMAIN Models :
            /\ Cardinality(Ages(m)) <= 1
            /\ "run_dataset.sh" \in Files(m) /\ m \notin torn => Required \subseteq Files(m)
    /\ \A m, n \in DOMAIN Models : m < n => \A a \in Ages(m), b \in Ages(n) : a >= b
    /\ exit = "done" /\ run > 0 =>
            /\ torn = {}
            /\ \A m \in DOMAIN Models : "run_dataset.sh" \in Files(m) /\ Ages(m) = {run}
=============================================================================
