------------------------------- MODULE Deploy -------------------------------
(***************************************************************************)
(* A package on its way to the device, and what runs there: run_single.sh  *)
(* by hand, or run_dataset.sh (scripts/package_8gen5.sh, lines 60-138),    *)
(* which starts a process for one prompt after the other and pipes what it *)
(* prints into a log.                                                      *)
(*                                                                         *)
(* Pushing a folder is not in the repository; whichever state the packages *)
(* are in, one of the folders is pushed and the host is left behind.       *)
(***************************************************************************)
EXTENDS Package, Process

CONSTANTS
    HandOptions,    \* commands given by hand
    HandFiles,      \* files pushed besides a package
    Environments,   \* options of run_single.sh, but for the prompt
    Datasets,       \* base names of a dataset's prompts, by extension, sorted by path
    Limits          \* LIMIT; 0 is also "all"

\* run_single.sh asks for a decode, with options that may be refused.
ASSUME DeployAssumption ==
    /\ HandOptions \subseteq Options
    /\ \A e \in Environments : e \in Options /\ e.arguments # "help"
    /\ Datasets \subseteq [txt : Seq(STRING), ids : Seq(STRING)]
    /\ Limits \subseteq Nat

VARIABLES
    script,     \* what the shell does
    samples,    \* PROMPTS
    limit,      \* LIMIT
    given,      \* options every sample gets
    count,      \* COUNT
    logs,       \* by base name
    answer      \* exit status of run_dataset.sh

dataset == <<script, samples, limit, given, count, logs, answer>>

vars == <<package, folder, process, dataset>>

Init ==
    /\ PackageInit /\ ProcessInit
    /\ folder = {} /\ script = "host"
    /\ samples = << >> /\ limit = 0 /\ given = NoOptions /\ count = 0
    /\ logs = << >> /\ answer = 0

OnHost ==
    /\ script = "host"
    /\ PackageNext
    /\ UNCHANGED <<folder, process, dataset>>

Push(m, more) ==
    /\ script = "host" /\ exit # "running" /\ deploy[m] # {}
    /\ folder' = Files(m) \cup more
    /\ script' = "idle"
    /\ deploy' = [n \in DOMAIN Models |-> {}] /\ torn' = {} /\ run' = 0 /\ prompts' = FALSE
    /\ at' = <<1, 1>> /\ exit' = "pushed"
    /\ UNCHANGED <<process, samples, limit, given, count, logs, answer>>

RunByHand(with) ==
    /\ script = "idle" /\ "dflash-runtime" \in folder
    /\ Start(with)
    /\ script' = "hand"
    /\ UNCHANGED <<package, folder, samples, limit, given, count, logs, answer>>

HandEnd ==
    /\ script = "hand"
    /\ Gone
    /\ script' = "idle"
    /\ UNCHANGED <<package, folder, samples, limit, given, count, logs, answer>>

Running ==
    /\ script \in {"hand", "sample"}
    /\ ProcessNext
    /\ UNCHANGED <<package, folder, dataset>>

\* Text prompts, or those of token ids when there are none.
Found(prompt) ==
    LET ext == IF prompt.txt # << >> THEN "txt" ELSE "ids" IN
    [k \in DOMAIN prompt[ext] |-> [base |-> prompt[ext][k], ext |-> ext]]

DatasetStart(prompt, most, environment) ==
    /\ script = "idle" /\ "run_dataset.sh" \in folder
    /\ \/ /\ "prompts" \in folder /\ Found(prompt) # << >>
          /\ samples' = Found(prompt) /\ limit' = most /\ given' = environment
          /\ script' = "loop"
          /\ UNCHANGED answer
       \/ /\ "prompts" \notin folder \/ Found(prompt) = << >>
          /\ script' = "done" /\ answer' = 2
          /\ UNCHANGED <<samples, limit, given>>
    /\ UNCHANGED <<package, folder, process, count, logs>>

\* Mutant: a sample too many.
OnePast(n) == limit # 0 /\ n > limit

Reached(n) == limit # 0 /\ n >= limit

More == count < Len(samples) /\ ~Reached(count)

\* run_single.sh replaces itself by the runtime.
Startable == {"run_single.sh", "dflash-runtime"} \subseteq folder

SampleStart ==
    /\ script = "loop" /\ More /\ Startable
    /\ Start([given EXCEPT !.prompt = samples[count + 1].ext])
    /\ count' = count + 1
    /\ script' = "sample"
    /\ UNCHANGED <<package, folder, samples, limit, given, logs, answer>>

\* In what is left of a folder one of the two may be gone: the shell says so,
\* into the log, and goes on.
SampleLost ==
    LET log == [sample |-> count + 1, lines |-> {"not found"}, status |-> 127] IN
    /\ script = "loop" /\ More /\ ~Startable
    /\ logs' = With(logs, samples[count + 1].base, log)
    /\ count' = count + 1
    /\ UNCHANGED <<package, folder, process, script, samples, limit, given, answer>>

\* The log takes what was printed; the pipe has the status of tee, and the
\* status kept here is for the properties alone.
SampleEnd ==
    LET log == [sample |-> count, lines |-> printed, status |-> status] IN
    /\ script = "sample"
    /\ Gone
    /\ logs' = With(logs, samples[count].base, log)
    /\ script' = "loop"
    /\ UNCHANGED <<package, folder, samples, limit, given, count, answer>>

DatasetEnd ==
    /\ script = "loop" /\ ~More
    /\ script' = "done" /\ answer' = 0
    /\ UNCHANGED <<package, folder, process, samples, limit, given, count, logs>>

\* When the dataset has ended, nobody packages again, or nothing that was
\* pushed can be run.
Terminating ==
    /\ \/ script = "done"
       \/ script = "host" /\ exit # "running"
       \/ script = "idle" /\ {"dflash-runtime", "run_dataset.sh"} \cap folder = {}
    /\ UNCHANGED vars

Next ==
    \/ OnHost
    \/ \E m \in DOMAIN Models, more \in {{}, HandFiles} : Push(m, more)
    \/ \E with \in HandOptions : RunByHand(with)
    \/ HandEnd \/ Running
    \/ \E prompt \in Datasets, most \in Limits, environment \in Environments :
            DatasetStart(prompt, most, environment)
    \/ SampleStart \/ SampleLost \/ SampleEnd \/ DatasetEnd
    \/ Terminating

Spec == Init /\ [][Next]_vars
-----------------------------------------------------------------------------
TypeOK ==
    /\ ProcessTypeOK
    /\ script \in {"host", "idle", "hand", "loop", "sample", "done"}
    /\ stage = "none" <=> script \notin {"hand", "sample"}
    /\ count \in 0 .. Len(samples)
    /\ at[1] \in 1 .. Len(Models) + 1 /\ at[2] \in DOMAIN Steps
    /\ DOMAIN logs \subseteq {samples[k].base : k \in 1 .. count}
    /\ answer \in {0, 2}

Taken == IF limit = 0 \/ limit > Len(samples) THEN Len(samples) ELSE limit

\* What was printed says how the process ended, without its status.
Tells(log) ==
    LET txt == samples[log.sample].ext = "txt" IN
    /\ log.status = 0 <=> "summary" \in log.lines
    /\ log.status = 2 <=> "fatal" \in log.lines
    /\ log.status = 127 <=> "not found" \in log.lines
    /\ log.status = 0 /\ txt /\ given.text => "text" \in log.lines
    /\ log.status # 0 /\ "tokens" \in log.lines => txt /\ given.text /\ "fatal" \in log.lines

(***************************************************************************)
(* run_dataset.sh ends with success although samples failed; what README   *)
(* promises of it is "per-sample logs under bench_logs/".  They bear it:   *)
(* when it has ended, there is a log for every base name among the first   *)
(* LIMIT prompts and no other, each of the last prompt of that name, and   *)
(* its lines alone tell how that sample ended, also when the tokenizer     *)
(* fails only after the tokens are printed, or when the package that was   *)
(* pushed is what an interrupted removal has left.                         *)
(***************************************************************************)
LogsTellOutcome ==
    script = "done" /\ answer = 0 =>
        /\ count = Taken
        /\ DOMAIN logs = {samples[k].base : k \in 1 .. Taken}
        /\ \A base \in DOMAIN logs :
                /\ logs[base].sample \in {k \in 1 .. Taken : samples[k].base = base}
                /\ \A k \in 1 .. Taken : samples[k].base = base => k <= logs[base].sample
                /\ Tells(logs[base])
=============================================================================
