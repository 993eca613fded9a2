----------------------------- MODULE DeployProofs -----------------------------
(***************************************************************************)
(* For every list of models, any number of runs of the script, every       *)
(* target, draft, dataset and command: packages are whole, every layer is  *)
(* fed with its own cache, and the logs of a dataset tell how each sample  *)
(* ended.  Four arguments: the folder being packaged is the steps made so  *)
(* far, the process prints in the order of its stages, a slot of the cache *)
(* serves the same layer in both graphs, and a log is kept of every sample *)
(* that has ended.                                                         *)
(***************************************************************************)
EXTENDS Deploy, FiniteSetTheorems, TLAPS

(***************************************************************************)
(* Packages.                                                               *)
(***************************************************************************)
Last == Len(Models) + 1

StepNames == {Steps[i] : i \in DOMAIN Steps}

PackageTypeOK ==
    /\ deploy \in [DOMAIN Models -> SUBSET [file : StepNames, of : Nat]]
    /\ torn \in SUBSET DOMAIN Models
    /\ run \in Nat /\ prompts \in BOOLEAN
    /\ at \in (1 .. Last) \X (1 .. 10)
    /\ exit \in {"running", "failed", "done", "pushed"}

OfOneRun(m) == \A c, d \in deploy[m] : c.of = d.of

Complete(m) == "run_dataset.sh" \in Files(m) /\ Required \subseteq Files(m)

OfThisRun(m) == \A c \in deploy[m] : c.of = run

\* The folder under way holds what the steps made so far have put there.
UnderWay(m, made) ==
    /\ OfThisRun(m) /\ m \notin torn
    /\ "run_dataset.sh" \notin Files(m)
    /\ \A i \in 2 .. 10 : i < made /\ Steps[i] # "prompts" => Steps[i] \in Files(m)

PackageInv ==
    /\ PackageTypeOK
    /\ \A m \in DOMAIN Models :
          /\ OfOneRun(m)
          /\ "run_dataset.sh" \in Files(m) /\ m \notin torn => Complete(m)
          /\ \A c \in deploy[m] : c.of <= run
    /\ \A m, n \in DOMAIN Models : m < n => \A c \in deploy[m], d \in deploy[n] : c.of >= d.of
    /\ exit = "running" =>
          /\ \A m \in DOMAIN Models : m < at[1] => Complete(m) /\ OfThisRun(m) /\ m \notin torn
          /\ at[1] \in DOMAIN Models /\ at[2] > 1 => UnderWay(at[1], at[2])
          /\ at[1] = Last => at[2] = 1
    /\ exit = "done" /\ run > 0 =>
          \A m \in DOMAIN Models : Complete(m) /\ OfThisRun(m) /\ m \notin torn

LEMMA StepsInOrder ==
    /\ DOMAIN Steps = 1 .. 10 /\ Len(Steps) = 10
    /\ \A i \in 1 .. 10 : Steps[i] \in StepNames
    /\ \A i \in 1 .. 10 : Steps[i] = "clear" => i = 1
    /\ \A i \in 1 .. 10 : Steps[i] = "run_dataset.sh" => i = 10
    /\ Steps[1] = "clear" /\ Steps[6] = "prompts" /\ Steps[10] = "run_dataset.sh"
    /\ \A f \in Required : \E i \in 2 .. 10 : f = Steps[i] /\ f # "prompts"
    /\ "run_dataset.sh" \in Required
<1> USE DEF Steps
<1>1. DOMAIN Steps = 1 .. 10 /\ Len(Steps) = 10  OBVIOUS
<1>2. \A i \in 1 .. 10 : Steps[i] \in StepNames  BY <1>1 DEF StepNames
<1>3. \A i \in 1 .. 10 : (Steps[i] = "clear" => i = 1) /\ (Steps[i] = "run_dataset.sh" => i = 10)
  OBVIOUS
<1>4. Steps[1] = "clear" /\ Steps[6] = "prompts" /\ Steps[10] = "run_dataset.sh"  OBVIOUS
<1> HIDE DEF Steps
<1>5. \A f \in Required : \E i \in 2 .. 10 : f = Steps[i] /\ f # "prompts"
  <2> SUFFICES ASSUME NEW i \in 1 .. 10, Steps[i] \notin {"clear", "prompts"}
               PROVE  i \in 2 .. 10
    BY <1>1 DEF Required
  <2> QED  BY <1>4
<1>6. "run_dataset.sh" \in Required  BY <1>1, <1>4 DEF Required
<1> QED  BY <1>1, <1>2, <1>3, <1>4, <1>5, <1>6

LEMMA ModelPlaces ==
    /\ Len(Models) \in Nat /\ DOMAIN Models = 1 .. Len(Models)
    /\ DOMAIN Models # {} /\ Last \notin DOMAIN Models
BY PackageAssumption DEF Last

LEMMA PackageInitHolds == PackageInit => PackageInv
<1> SUFFICES ASSUME PackageInit PROVE PackageInv
  OBVIOUS
<1> USE DEF PackageInit
<1>1. PackageTypeOK
  <2>1. at \in (1 .. Last) \X (1 .. 10)  BY ModelPlaces DEF Last
  <2> QED  BY <2>1 DEF PackageTypeOK
<1>2. \A m \in DOMAIN Models : deploy[m] = {}  OBVIOUS
<1> QED  BY <1>1, <1>2 DEF PackageInv, OfOneRun, Files

LEMMA PackageStartKeeps == PackageInv /\ PackageStart => PackageInv'
<1> SUFFICES ASSUME PackageInv, PackageStart PROVE PackageInv'
  OBVIOUS
<1> USE DEF PackageStart
<1>1. PackageTypeOK'  BY ModelPlaces DEF PackageInv, PackageTypeOK, Last
<1>2. \A m \in DOMAIN Models : Files(m)' = Files(m) /\ deploy'[m] = deploy[m]  BY DEF Files
<1>3. \A m \in DOMAIN Models : \A c \in deploy[m] : c.of <= run + 1
  BY DEF PackageInv, PackageTypeOK
<1>4. at'[1] = 1 /\ at'[2] = 1 /\ 1 # Last /\ \A m \in DOMAIN Models : ~(m < 1)
  BY ModelPlaces DEF Last
<1> QED  BY <1>1, <1>2, <1>3, <1>4 DEF PackageInv, OfOneRun, Complete

LEMMA PackageEndKeeps == PackageInv /\ (PackageFails \/ PackageDone) => PackageInv'
<1> SUFFICES ASSUME PackageInv, PackageFails \/ PackageDone PROVE PackageInv'
  OBVIOUS
<1> USE DEF PackageFails, PackageDone
<1>1. PackageTypeOK'  BY DEF PackageInv, PackageTypeOK
<1>2. \A m \in DOMAIN Models : Files(m)' = Files(m) /\ deploy'[m] = deploy[m]  BY DEF Files
<1>3. PackageDone => \A m \in DOMAIN Models : m < at[1]
  BY ModelPlaces DEF PackageInv, PackageTypeOK, Last
<1> QED  BY <1>1, <1>2, <1>3 DEF PackageInv, OfOneRun, Complete, OfThisRun

\* What is left of a folder being removed is still of one run.
LEMMA PackageRemoveKeeps ==
    ASSUME PackageInv, PackageRemove, NEW m0, m0 = at[1]
    PROVE  PackageInv'
<1>0. m0 \in DOMAIN Models /\ at[2] = 1 /\ exit = "running"
  BY StepsInOrder DEF PackageRemove, PackageInv, PackageTypeOK
<1>1. /\ UNCHANGED <<run, prompts, at, exit>> /\ torn' = torn \cup {m0}
      /\ DOMAIN deploy' = DOMAIN Models /\ deploy'[m0] \subseteq deploy[m0]
      /\ \A m \in DOMAIN Models \ {m0} : deploy'[m] = deploy[m]
  BY <1>0 DEF PackageRemove, PackageInv, PackageTypeOK
<1>2. \A m \in DOMAIN Models : deploy'[m] \subseteq deploy[m]
  BY <1>1
<1>3. deploy' \in [DOMAIN Models -> SUBSET [file : StepNames, of : Nat]]
  <2>1. deploy' = [m \in DOMAIN Models |-> deploy'[m]]
    BY <1>0 DEF PackageRemove, PackageInv, PackageTypeOK
  <2>2. \A m \in DOMAIN Models : deploy'[m] \in SUBSET [file : StepNames, of : Nat]
    BY <1>2 DEF PackageInv, PackageTypeOK
  <2> QED  BY <2>1, <2>2
<1>4. PackageTypeOK'  BY <1>0, <1>1, <1>3 DEF PackageInv, PackageTypeOK
<1>5. ASSUME NEW m \in DOMAIN Models, m # m0
      PROVE  /\ Files(m)' = Files(m) /\ (m \in torn' <=> m \in torn)
             /\ (Complete(m)' <=> Complete(m)) /\ (OfThisRun(m)' <=> OfThisRun(m))
  BY <1>1, <1>5 DEF Files, Complete, OfThisRun
<1>6. ASSUME NEW m \in DOMAIN Models
      PROVE  /\ OfOneRun(m)'
             /\ ("run_dataset.sh" \in Files(m) /\ m \notin torn => Complete(m))'
             /\ \A c \in deploy'[m] : c.of <= run
  <2>1. OfOneRun(m)' /\ \A c \in deploy'[m] : c.of <= run
    BY <1>2 DEF PackageInv, OfOneRun
  <2>2. CASE m = m0  BY <1>1, <2>1, <2>2
  <2>3. CASE m # m0  BY <1>5, <2>1, <2>3 DEF PackageInv
  <2> QED  BY <2>2, <2>3
<1>7. \A m, n \in DOMAIN Models : m < n => \A c \in deploy'[m], d \in deploy'[n] : c.of >= d.of
  BY <1>2 DEF PackageInv
<1>8. ASSUME NEW m \in DOMAIN Models, m < at[1]
      PROVE  Complete(m)' /\ OfThisRun(m)' /\ m \notin torn'
  <2>1. m # m0  BY <1>0, <1>8, ModelPlaces
  <2> QED  BY <1>0, <1>5, <1>8, <2>1 DEF PackageInv
<1>9. at'[2] = 1 /\ exit' = "running" /\ at' = at /\ run' = run  BY <1>0, <1>1
<1> QED  BY <1>4, <1>6, <1>7, <1>8, <1>9 DEF PackageInv

LEMMA PackageStepKeeps ==
    ASSUME PackageInv, PackageStep, NEW m0, m0 = at[1], NEW i0, i0 = at[2]
    PROVE  PackageInv'
<1>0. m0 \in DOMAIN Models /\ i0 \in 1 .. 10 /\ run \in Nat /\ exit = "running"
  BY DEF PackageStep, PackageInv, PackageTypeOK
<1>1. /\ UNCHANGED <<run, prompts, exit>>
      /\ \A m \in DOMAIN Models \ {m0} :
            deploy'[m] = deploy[m] /\ Files(m)' = Files(m) /\ (m \in torn' <=> m \in torn)
      /\ m0 \notin torn'
  <2>1. /\ UNCHANGED <<run, prompts, exit>>
        /\ \A m \in DOMAIN Models \ {m0} : deploy'[m] = deploy[m] /\ Files(m)' = Files(m)
    BY DEF PackageStep, PackageInv, PackageTypeOK, Files
  <2>2. torn' = IF i0 = 1 THEN torn \ {m0} ELSE torn
    BY <1>0, StepsInOrder DEF PackageStep
  <2>3. i0 # 1 => m0 \notin torn  BY <1>0 DEF PackageInv, UnderWay
  <2> QED  BY <2>1, <2>2, <2>3
<1>2. deploy'[m0] = IF i0 = 1 THEN {}
                    ELSE IF Steps[i0] = "prompts" /\ ~prompts THEN deploy[m0]
                    ELSE WithFile(m0, Steps[i0])
  <2>1. Steps[i0] = "clear" <=> i0 = 1  BY <1>0, StepsInOrder
  <2>2. deploy' = IF Steps[i0] = "clear" \/ (Steps[i0] = "prompts" /\ ~prompts) THEN deploy
                  ELSE [deploy EXCEPT ![m0] = WithFile(m0, Steps[i0])]
    BY DEF PackageStep
  <2>3. i0 = 1 => deploy[m0] = {}  BY <2>1 DEF PackageStep, Removed
  <2>4. DOMAIN deploy = DOMAIN Models  BY DEF PackageInv, PackageTypeOK
  <2> QED  BY <1>0, <2>1, <2>2, <2>3, <2>4
<1>3. i0 > 1 => UnderWay(m0, i0)  BY <1>0 DEF PackageInv
<1>4. \A c \in deploy'[m0] : c \in [file : StepNames, of : Nat] /\ c.of = run
  BY <1>0, <1>2, <1>3, StepsInOrder DEF WithFile, UnderWay, OfThisRun, PackageInv, PackageTypeOK
<1>5. \A i \in 2 .. 10 : i <= i0 /\ Steps[i] # "prompts" => Steps[i] \in Files(m0)'
  <2> SUFFICES ASSUME NEW i \in 2 .. 10, i <= i0, Steps[i] # "prompts"
               PROVE  \E c \in deploy'[m0] : c.file = Steps[i]
    BY DEF Files
  <2>1. CASE i = i0
    <3>1. [file |-> Steps[i], of |-> run] \in deploy'[m0]  BY <1>2, <2>1 DEF WithFile
    <3> QED  BY <3>1
  <2>2. CASE i < i0
    <3>1. PICK c \in deploy[m0] : c.file = Steps[i]  BY <1>0, <1>3, <2>2 DEF UnderWay, Files
    <3>2. CASE c \in deploy'[m0]  BY <3>1, <3>2
    <3>3. CASE c \notin deploy'[m0]
      <4>1. Steps[i0] = Steps[i] /\ [file |-> Steps[i0], of |-> run] \in deploy'[m0]
        BY <1>2, <2>2, <3>1, <3>3 DEF WithFile
      <4> QED  BY <4>1
    <3> QED  BY <3>2, <3>3
  <2> QED  BY <1>0, <2>1, <2>2
<1>6. i0 < 10 => "run_dataset.sh" \notin Files(m0)'
  BY <1>0, <1>2, <1>3, StepsInOrder DEF WithFile, UnderWay, Files
<1>7. "run_dataset.sh" \in Files(m0)' => Complete(m0)'
  <2> SUFFICES ASSUME i0 = 10, NEW f \in Required PROVE f \in Files(m0)'
    BY <1>0, <1>6 DEF Complete
  <2> QED  BY <1>5, StepsInOrder
<1>8. i0 = 10 => Complete(m0)'  BY <1>5, <1>7, StepsInOrder
<1>9. at' = IF i0 < 10 THEN <<m0, i0 + 1>> ELSE <<m0 + 1, 1>>
  BY StepsInOrder DEF PackageStep, NextStep
<1>10. PackageTypeOK'
  <2>1. at' \in (1 .. Last) \X (1 .. 10)
    <3>1. m0 \in 1 .. Last /\ m0 + 1 \in 1 .. Last  BY <1>0, ModelPlaces DEF Last
    <3>2. i0 < 10 => i0 + 1 \in 1 .. 10  BY <1>0
    <3> QED  BY <1>0, <1>9, <3>1, <3>2
  <2>2. deploy' \in [DOMAIN Models -> SUBSET [file : StepNames, of : Nat]]
    <3>1. deploy'[m0] \in SUBSET [file : StepNames, of : Nat]  BY <1>4
    <3>2. DOMAIN deploy' = DOMAIN Models /\ deploy' = [deploy EXCEPT ![m0] = deploy'[m0]]
      <4>1. deploy \in [DOMAIN Models -> SUBSET [file : StepNames, of : Nat]]
        BY DEF PackageInv, PackageTypeOK
      <4>2. deploy' = deploy \/ deploy' = [deploy EXCEPT ![m0] = WithFile(m0, Steps[i0])]
        BY DEF PackageStep
      <4> QED  BY <1>0, <4>1, <4>2
    <3> QED  BY <1>0, <3>1, <3>2 DEF PackageInv, PackageTypeOK
  <2>3. torn' \in SUBSET DOMAIN Models  BY DEF PackageStep, PackageInv, PackageTypeOK
  <2> QED  BY <1>1, <2>1, <2>2, <2>3 DEF PackageInv, PackageTypeOK
<1>11. ASSUME NEW m \in DOMAIN Models
       PROVE  /\ OfOneRun(m)'
              /\ ("run_dataset.sh" \in Files(m) /\ m \notin torn => Complete(m))'
              /\ \A c \in deploy'[m] : c.of <= run
  <2>1. CASE m = m0  BY <1>0, <1>4, <1>7, <2>1 DEF OfOneRun
  <2>2. CASE m # m0  BY <1>1, <2>2 DEF PackageInv, OfOneRun, Complete
  <2> QED  BY <2>1, <2>2
<1>12. ASSUME NEW m \in DOMAIN Models, NEW n \in DOMAIN Models, m < n,
              NEW c \in deploy'[m], NEW d \in deploy'[n]
       PROVE  c.of >= d.of
  <2>1. d.of <= run /\ d.of \in Nat  BY <1>10, <1>11 DEF PackageTypeOK
  <2>2. CASE n = m0
    <3>1. m < m0 /\ m # m0  BY <1>0, <2>2, ModelPlaces, <1>12
    <3>2. c.of = run  BY <1>0, <1>1, <1>12, <3>1 DEF PackageInv, OfThisRun
    <3> QED  BY <2>1, <3>2, <1>0
  <2>3. CASE m = m0  BY <1>0, <1>4, <1>12, <2>1, <2>3
  <2>4. CASE m # m0 /\ n # m0  BY <1>1, <1>12, <2>4 DEF PackageInv
  <2> QED  BY <2>2, <2>3, <2>4
<1>13. ASSUME NEW m \in DOMAIN Models, m < at'[1]
       PROVE  Complete(m)' /\ OfThisRun(m)' /\ m \notin torn'
  <2>1. CASE m = m0
    <3>1. i0 = 10  BY <1>0, <1>9, <1>13, <2>1, ModelPlaces
    <3> QED  BY <1>1, <1>4, <1>8, <2>1, <3>1 DEF OfThisRun
  <2>2. CASE m # m0
    <3>1. m < m0  BY <1>0, <1>9, <1>13, <2>2, ModelPlaces
    <3> QED  BY <1>0, <1>1, <2>2, <3>1 DEF PackageInv, Complete, OfThisRun
  <2> QED  BY <2>1, <2>2
<1>14. at'[1] \in DOMAIN Models /\ at'[2] > 1 => UnderWay(at[1], at[2])'
  <2> SUFFICES ASSUME i0 < 10 PROVE UnderWay(m0, i0 + 1)' /\ at'[1] = m0 /\ at'[2] = i0 + 1
    BY <1>0, <1>9 DEF UnderWay, OfThisRun, Files
  <2>1. \A i \in 2 .. 10 : i < i0 + 1 => i <= i0  BY <1>0
  <2> QED  BY <1>1, <1>4, <1>5, <1>6, <1>9, <2>1 DEF UnderWay, OfThisRun
<1>15. at'[1] = Last => at'[2] = 1  BY <1>0, <1>9, ModelPlaces DEF Last
<1>16. exit' = "running"  BY <1>0, <1>1
<1> QED  BY <1>10, <1>11, <1>12, <1>13, <1>14, <1>15, <1>16, <1>1 DEF PackageInv

LEMMA PackageNextKeeps == PackageInv /\ PackageNext => PackageInv'
BY PackageStartKeeps, PackageRemoveKeeps, PackageStepKeeps, PackageEndKeeps DEF PackageNext

\* A folder is pushed: packaging begins anew.
LEMMA PushedInv ==
    ASSUME deploy' = [n \in DOMAIN Models |-> {}], torn' = {}, run' = 0, prompts' = FALSE,
           at' = <<1, 1>>, exit' = "pushed"
    PROVE  PackageInv'
<1>1. PackageTypeOK'
  <2>1. at' \in (1 .. Last) \X (1 .. 10)  BY ModelPlaces DEF Last
  <2> QED  BY <2>1 DEF PackageTypeOK
<1>2. \A m \in DOMAIN Models : deploy'[m] = {}  OBVIOUS
<1> QED  BY <1>1, <1>2 DEF PackageInv, OfOneRun, Files

(***************************************************************************)
(* One process.                                                            *)
(***************************************************************************)
\* By the stage, what cannot be printed yet.
Unprinted ==
    IF stage = "none" THEN {"tokens", "text", "summary", "fatal"}
    ELSE IF stage = "text" THEN {"text", "summary", "fatal"}
    ELSE IF stage = "summary" THEN {"summary", "fatal"}
    ELSE IF stage = "ended" THEN {}
    ELSE {"tokens", "text", "summary", "fatal"}

PassLeft == {"prefill run", "prefill read", "verify", "verify run", "verify read"}

\* What was printed says how the process ended.
EndTold ==
    /\ status = 2 <=> "fatal" \in printed
    /\ options.arguments # "help" => (status = 0 <=> "summary" \in printed)
    /\ status = 0 /\ options.arguments # "help" /\ PrintsText => "text" \in printed
    /\ status # 0 /\ "tokens" \in printed => PrintsText /\ "fatal" \in printed

ProcessInv ==
    /\ ProcessTypeOK
    /\ stage # "ended" => status = 0
    /\ printed \cap Unprinted = {}
    /\ stage \in PassLeft => left > 0
    /\ stage = "summary" /\ PrintsText => "text" \in printed
    /\ stage \notin {"none", "parse", "ended"} => options.arguments = "complete"
    /\ stage = "ended" => EndTold

LEMMA ProcessInitHolds == ProcessInit => ProcessInv
<1> SUFFICES ASSUME ProcessInit PROVE ProcessInv
  OBVIOUS
<1>1. ProcessTypeOK
  BY ProcessAssumption
  DEF ProcessInit, ProcessTypeOK, BindsInit, Options, NoOptions, Stages
<1> QED  BY <1>1 DEF ProcessInit, ProcessInv, Unprinted, PassLeft

LEMMA StartKeeps ==
    ASSUME ProcessInv, NEW with \in Options, Start(with)
    PROVE  ProcessInv'
<1> USE DEF Start, binds
<1>1. ProcessTypeOK'  BY DEF ProcessInv, ProcessTypeOK, Stages
<1> QED  BY <1>1 DEF ProcessInv, Unprinted, PassLeft

LEMMA GoneKeeps == ProcessInv /\ Gone => ProcessInv'
<1> SUFFICES ASSUME Gone PROVE ProcessInv'
  OBVIOUS
<1> USE DEF Gone, BindsReset
<1>1. ProcessTypeOK'
  BY ProcessAssumption DEF ProcessTypeOK, Options, NoOptions, Stages
<1> QED  BY <1>1 DEF ProcessInv, Unprinted, PassLeft

\* Stages before the tokens are printed; a failure has nothing to hide then.
Unheard == Stages \ {"none", "text", "summary", "ended"}

LEMMA ReturnKeeps ==
    ASSUME ProcessInv, stage \in Unheard, NEW code, Return(code),
           code = 1 \/ (code = 0 /\ options.arguments = "help")
    PROVE  ProcessInv'
<1> USE DEF Return, binds, Unheard
<1>1. ProcessTypeOK'  BY DEF ProcessInv, ProcessTypeOK, Stages
<1>2. printed \cap {"tokens", "text", "summary", "fatal"} = {}
  BY DEF ProcessInv, Unprinted
<1>3. EndTold'  BY <1>2 DEF EndTold
<1> QED  BY <1>1, <1>3 DEF ProcessInv, Unprinted, PassLeft

LEMMA ThrowKeeps ==
    ASSUME ProcessInv, Throw, stage \in Unheard \/ (stage = "text" /\ PrintsText)
    PROVE  ProcessInv'
<1> USE DEF Throw, binds, Unheard
<1>1. ProcessTypeOK'  BY DEF ProcessInv, ProcessTypeOK, Stages
<1>2. "summary" \notin printed /\ ("tokens" \in printed => PrintsText)
  BY DEF ProcessInv, Unprinted
<1>3. EndTold'  BY <1>2 DEF EndTold, PrintsText
<1> QED  BY <1>1, <1>3 DEF ProcessInv, Unprinted, PassLeft

\* A stage that is followed by another, before the tokens are printed.
LEMMA ContinueKeeps ==
    ASSUME ProcessInv, stage \in Unheard, NEW next \in Unheard \ {"parse"},
           NEW lines \in SUBSET {"tokenized", "loaded"}, Continue(next, lines),
           options.arguments = "complete",
           left' \in 0 .. (MaxChunks + MaxRounds), next \in PassLeft => left' > 0,
           DOMAIN graphs' = DOMAIN binding'
    PROVE  ProcessInv'
<1> USE DEF Continue, Unheard
<1>1. ProcessTypeOK'  BY DEF ProcessInv, ProcessTypeOK
<1>2. printed' \cap {"tokens", "text", "summary", "fatal"} = {}
  BY DEF ProcessInv, Unprinted
<1> QED  BY <1>1, <1>2 DEF ProcessInv, Unprinted

LEMMA ReadsKeep ==
    ASSUME ProcessInv, Parse \/ ReadPrompt \/ LoadRuntime \/ LoadEmbedding \/ CheckDtype
    PROVE  ProcessInv'
<1>1. stage \in Unheard /\ (stage # "parse" => options.arguments = "complete")
  BY DEF ProcessInv, Unheard, Stages, Parse, ReadPrompt, LoadRuntime, LoadEmbedding, CheckDtype
<1>2. left \in 0 .. (MaxChunks + MaxRounds) /\ DOMAIN graphs = DOMAIN binding
  BY DEF ProcessInv, ProcessTypeOK
<1>3. {"prompt", "load", "embedding", "dtype", "sessions"} \subseteq Unheard \ ({"parse"} \cup PassLeft)
  BY DEF Unheard, Stages, PassLeft
<1> USE DEF binds
<1>4. CASE Parse
  <2>1. CASE options.arguments = "help" /\ Return(0)  BY <1>1, <2>1, ReturnKeeps
  <2>2. CASE Throw  BY <1>1, <2>2, ThrowKeeps
  <2>3. CASE options.arguments = "complete" /\ Continue("prompt", {})
             /\ UNCHANGED <<loads, target, left, binds, drafts>>
    BY <1>1, <1>2, <1>3, <2>3, ContinueKeeps
  <2> QED  BY <1>4, <2>1, <2>2, <2>3 DEF Parse
<1>5. CASE ReadPrompt
  <2>1. CASE Throw  BY <1>1, <2>1, ThrowKeeps
  <2>2. CASE ~Throw
    <3> DEFINE lines == IF options.prompt = "txt" THEN {"tokenized"} ELSE {}
    <3>1. Continue("load", lines) /\ UNCHANGED <<left, binds, drafts>>
      BY <1>5, <2>2 DEF ReadPrompt
    <3>2. lines \in SUBSET {"tokenized", "loaded"}  OBVIOUS
    <3> HIDE DEF lines
    <3> QED  BY <1>1, <1>2, <1>3, <1>5, <3>1, <3>2, ContinueKeeps DEF ReadPrompt
  <2> QED  BY <2>1, <2>2
<1>6. CASE LoadRuntime
  <2>1. CASE Return(1)  BY <1>1, <2>1, ReturnKeeps
  <2>2. CASE Throw  BY <1>1, <2>2, ThrowKeeps
  <2>3. CASE ~Return(1) /\ ~Throw
    <3>1. PICK next \in {"load", "embedding"} :
             Continue(next, {}) /\ UNCHANGED <<target, left, binds, drafts>>
      BY <1>6, <2>3 DEF LoadRuntime
    <3> QED  BY <1>1, <1>2, <1>3, <1>6, <3>1, ContinueKeeps DEF LoadRuntime
  <2> QED  BY <2>1, <2>2, <2>3
<1>7. CASE LoadEmbedding \/ CheckDtype
  <2>1. CASE Throw  BY <1>1, <2>1, ThrowKeeps
  <2>2. CASE ~Throw
    <3>1. \E next \in {"dtype", "sessions"}, lines \in {{}, {"loaded"}} :
             Continue(next, lines) /\ UNCHANGED <<loads, target, left, binds, drafts>>
      BY <1>7, <2>2 DEF LoadEmbedding, CheckDtype
    <3>2. {{}, {"loaded"}} \subseteq SUBSET {"tokenized", "loaded"}  OBVIOUS
    <3> QED
      BY <1>1, <1>2, <1>3, <1>7, <3>1, <3>2, ContinueKeeps DEF LoadEmbedding, CheckDtype
  <2> QED  BY <2>1, <2>2
<1> QED  BY <1>4, <1>5, <1>6, <1>7

LEMMA PassesKeep ==
    ASSUME ProcessInv,
           \/ \E side \in {"prefill", "verify"} : OpenTarget(side)
           \/ OpenDraft \/ PrefillFill \/ PrefillRun \/ PrefillRead \/ BindVerify
           \/ Draft \/ VerifyFill \/ VerifyRun \/ VerifyRead \/ Decoded
    PROVE  ProcessInv'
<1>1. stage \in Unheard /\ options.arguments = "complete" /\ stage # "parse"
  BY DEF ProcessInv, Unheard, Stages, OpenTarget, OpenDraft, PrefillFill, PrefillRun,
         PrefillRead, BindVerify, Draft, VerifyFill, VerifyRun, VerifyRead, Decoded
<1>2. left \in 0 .. (MaxChunks + MaxRounds) /\ DOMAIN graphs = DOMAIN binding
      /\ (stage \in PassLeft => left > 0)
      /\ MaxChunks \in Nat \ {0} /\ MaxRounds \in Nat
  BY ProcessAssumption DEF ProcessInv, ProcessTypeOK
<1>3. /\ {"sessions", "prefill", "draft"} \subseteq Unheard \ ({"parse"} \cup PassLeft)
      /\ PassLeft \subseteq Unheard \ {"parse"}
      /\ {} \in SUBSET {"tokenized", "loaded"}
  BY DEF Unheard, Stages, PassLeft
<1> USE DEF binds
<1>4. CASE Return(1)  BY <1>1, <1>4, ReturnKeeps
<1>5. CASE Throw  BY <1>1, <1>5, ThrowKeeps
<1>6. ASSUME NEW side, OpenTarget(side), ~Return(1), ~Throw PROVE ProcessInv'
  <2>1. SessionInit(side, target[side]) /\ Continue("sessions", {}) /\ UNCHANGED left
    BY <1>6 DEF OpenTarget
  <2>2. DOMAIN graphs' = DOMAIN binding'  BY <1>2, <2>1 DEF SessionInit, With
  <2> QED  BY <1>1, <1>2, <1>3, <2>1, <2>2, ContinueKeeps
<1>7. CASE OpenDraft /\ ~Return(1) /\ ~Throw
  <2>1. left' \in 1 .. MaxChunks /\ Continue("prefill", {}) /\ UNCHANGED binds
    BY <1>7 DEF OpenDraft
  <2> QED  BY <1>1, <1>2, <1>3, <2>1, ContinueKeeps
<1>8. CASE PrefillFill \/ VerifyFill
  <2>1. \E next \in PassLeft : Continue(next, {}) /\ UNCHANGED <<graphs, binding, left>> /\ left > 0
    BY <1>2, <1>8 DEF PrefillFill, VerifyFill, FillInputs, PassLeft
  <2> QED  BY <1>1, <1>2, <1>3, <2>1, ContinueKeeps
<1>9. CASE (PrefillRun \/ VerifyRun) /\ ~Return(1)
  <2>1. \E next \in PassLeft : Continue(next, {}) /\ UNCHANGED <<graphs, binding, left>> /\ left > 0
    BY <1>2, <1>9 DEF PrefillRun, VerifyRun, Execute, PassLeft
  <2> QED  BY <1>1, <1>2, <1>3, <2>1, ContinueKeeps
<1>10. CASE PrefillRead \/ VerifyRead
  <2>1. \E next \in {"prefill", "draft"} :
           Continue(next, {}) /\ UNCHANGED <<graphs, binding>> /\ left' = left - 1 /\ left > 0
    <3>1. \A side : ReadOutputs(side) => UNCHANGED <<graphs, binding>>  BY DEF ReadOutputs
    <3> HIDE DEF binds
    <3> QED  BY <1>2, <1>10, <3>1 DEF PrefillRead, VerifyRead, PassLeft
  <2> QED  BY <1>1, <1>2, <1>3, <2>1, ContinueKeeps
<1>11. CASE BindVerify
  <2>1. Continue("draft", {}) /\ UNCHANGED <<graphs, binding>> /\ left' \in 0 .. MaxRounds
    BY <1>11 DEF BindVerify, Bind
  <2> QED  BY <1>1, <1>2, <1>3, <2>1, ContinueKeeps
<1>12. CASE Draft /\ ~Return(1) /\ ~Throw
  <2>1. Continue("verify", {}) /\ UNCHANGED <<graphs, binding, left>> /\ left > 0 /\ "verify" \in PassLeft
    BY <1>12 DEF Draft, PassLeft
  <2> QED  BY <1>1, <1>2, <1>3, <2>1, ContinueKeeps
<1>13. CASE Decoded
  <2>1. Continue("tokens", {}) /\ UNCHANGED <<graphs, binding, left>>
        /\ "tokens" \in Unheard \ ({"parse"} \cup PassLeft)
    BY <1>13 DEF Decoded, Unheard, Stages, PassLeft
  <2> QED  BY <1>1, <1>2, <1>3, <2>1, ContinueKeeps
<1> QED  BY <1>4, <1>5, <1>6, <1>7, <1>8, <1>9, <1>10, <1>11, <1>12, <1>13

\* The tokens are printed before the text, and the text before the summary.
LEMMA PrintsKeep ==
    ASSUME ProcessInv, PrintTokens \/ PrintText \/ PrintSummary
    PROVE  ProcessInv'
<1> USE DEF binds
<1>1. CASE PrintTokens
  <2>1. ProcessTypeOK'
    BY <1>1 DEF PrintTokens, Continue, ProcessInv, ProcessTypeOK, Stages
  <2>2. printed' \cap {"text", "summary", "fatal"} = {}
    BY <1>1 DEF PrintTokens, Continue, ProcessInv, Unprinted
  <2> QED  BY <1>1, <2>1, <2>2 DEF PrintTokens, Continue, ProcessInv, Unprinted, PassLeft
<1>2. CASE PrintText /\ Throw
  <2>1. CASE PrintsText  BY <1>2, <2>1, ThrowKeeps DEF PrintText
  <2>2. CASE ~PrintsText
    BY <1>2, <2>2 DEF PrintText, Throw, Continue
  <2> QED  BY <2>1, <2>2
<1>3. CASE PrintText /\ ~Throw
  <2>1. ProcessTypeOK'
    BY <1>3 DEF PrintText, Continue, ProcessInv, ProcessTypeOK, Stages
  <2>2. printed' \cap {"summary", "fatal"} = {} /\ (PrintsText => "text" \in printed')
    BY <1>3 DEF PrintText, Continue, ProcessInv, Unprinted
  <2> QED
    BY <1>3, <2>1, <2>2 DEF PrintText, PrintsText, Continue, ProcessInv, Unprinted, PassLeft
<1>4. CASE PrintSummary
  <2>1. ProcessTypeOK'
    BY <1>4 DEF PrintSummary, ProcessInv, ProcessTypeOK, Stages
  <2>2. EndTold'
    BY <1>4 DEF PrintSummary, ProcessInv, Unprinted, EndTold, PrintsText
  <2> QED  BY <1>4, <2>1, <2>2 DEF PrintSummary, ProcessInv, Unprinted, PassLeft
<1> QED  BY <1>1, <1>2, <1>3, <1>4

LEMMA ProcessNextKeeps == ProcessInv /\ ProcessNext => ProcessInv'
BY ReadsKeep, PassesKeep, PrintsKeep DEF ProcessNext

(***************************************************************************)
(* The target's tensors.                                                   *)
(***************************************************************************)
\* The layer a slot serves: found by name, layer 0 is behind the others.
ByName == [s \in Slots |-> IF s = Layers THEN 0 ELSE s]

ByPlace == [s \in Slots |-> s - 1]

\* A cache of every kind and slot stands where c says, of the layer at says.
Finds(tensors, c, at1) ==
    \A kind \in Kinds :
        /\ c[kind] \in [Slots -> DOMAIN tensors] /\ Len(c[kind]) = Layers
        /\ \A s \in Slots : tensors[c[kind][s]].part = kind /\ tensors[c[kind][s]].layer = at1[s]

NamedKind(tensors, kind) == \A i \in DOMAIN tensors : tensors[i].part = kind => tensors[i].named

LEMMA LayersPositive == Layers \in Nat \ {0} /\ Slots = 1 .. Layers
BY LayersAssumption DEF Slots

LEMMA EqualSize ==
    ASSUME NEW S, NEW n \in Nat, NEW f \in [1 .. n -> S],
           \A i, j \in 1 .. n : f[i] = f[j] => i = j,
           \A x \in S : \E i \in 1 .. n : f[i] = x
    PROVE  IsFiniteSet(S) /\ Cardinality(S) = n
<1>1. f \in Bijection(1 .. n, S)  BY DEF Bijection, Injection, Surjection, IsInjective
<1>2. ExistsBijection(1 .. n, S)  BY <1>1 DEF ExistsBijection
<1>3. IsFiniteSet(1 .. n) /\ Cardinality(1 .. n) = n  BY FS_Interval
<1> QED  BY <1>2, <1>3, FS_Bijection

LEMMA LayerInRange ==
    ASSUME NEW tensors \in Tensors, NEW kind \in Kinds, CacheOnce(tensors),
           NEW i \in Named(tensors, kind)
    PROVE  tensors[i].layer \in 0 .. Layers - 1 /\ i \in DOMAIN tensors /\ tensors[i].part = kind
<1>1. i \in DOMAIN tensors /\ tensors[i].part = kind  BY DEF Named
<1> DEFINE Tensor == [part : STRING, layer : Nat, named : BOOLEAN]
<1>2. tensors[i] \in Tensor
  <2>1. tensors \in Seq(Tensor)  BY DEF Tensors
  <2> HIDE DEF Tensor
  <2> QED  BY <1>1, <2>1
<1>3. tensors[i].layer \in Nat  BY <1>2
<1>4. tensors[i].layer < Layers  BY <1>1 DEF CacheOnce
<1> QED  BY <1>1, <1>3, <1>4, LayersPositive

LEMMA TensorOfLayer ==
    ASSUME NEW tensors \in Tensors, NEW kind \in Kinds, CacheOnce(tensors), NamedKind(tensors, kind)
    PROVE  \E f \in [Slots -> Named(tensors, kind)] :
              /\ \A s \in Slots : tensors[f[s]].layer = ByName[s]
              /\ \A s, t \in Slots : f[s] = f[t] => s = t
              /\ \A i \in Named(tensors, kind) : \E s \in Slots : f[s] = i /\ tensors[i].layer = ByName[s]
<1> DEFINE Is(i, s) == i \in Named(tensors, kind) /\ tensors[i].layer = ByName[s]
           f == [s \in Slots |-> CHOOSE i : Is(i, s)]
<1> USE LayersPositive
<1>1. \A s \in Slots : ByName[s] \in 0 .. Layers - 1  BY DEF ByName
<1>2. \A s, t \in Slots : ByName[s] = ByName[t] => s = t  BY DEF ByName
<1>3. \A l \in 0 .. Layers - 1 : \E s \in Slots : ByName[s] = l
  <2> SUFFICES ASSUME NEW l \in 0 .. Layers - 1 PROVE \E s \in Slots : ByName[s] = l
    OBVIOUS
  <2>1. CASE l = 0  BY <2>1 DEF ByName
  <2>2. CASE l # 0  BY <2>2 DEF ByName
  <2> QED  BY <2>1, <2>2
<1>4. ASSUME NEW s \in Slots PROVE Is(f[s], s)
  <2>1. PICK i \in DOMAIN tensors : tensors[i].part = kind /\ tensors[i].layer = ByName[s]
    BY <1>1 DEF CacheOnce
  <2>2. Is(i, s)  BY <2>1 DEF Named, NamedKind
  <2> QED  BY <2>2
<1>5. ASSUME NEW i \in Named(tensors, kind), NEW j \in Named(tensors, kind),
             tensors[i].layer = tensors[j].layer
      PROVE  i = j
  <2>1. tensors[i].layer \in 0 .. Layers - 1  BY LayerInRange
  <2>2. /\ i \in DOMAIN tensors /\ tensors[i].part = kind
        /\ j \in DOMAIN tensors /\ tensors[j].part = kind
    BY DEF Named
  <2> QED  BY <1>5, <2>1, <2>2 DEF CacheOnce
<1>6. ASSUME NEW i \in Named(tensors, kind)
      PROVE  \E s \in Slots : f[s] = i /\ tensors[i].layer = ByName[s]
  <2>1. tensors[i].layer \in 0 .. Layers - 1  BY LayerInRange
  <2>2. PICK s \in Slots : ByName[s] = tensors[i].layer  BY <1>3, <2>1
  <2>3. Is(f[s], s)  BY <1>4
  <2>4. f[s] = i  BY <1>5, <2>2, <2>3
  <2> QED  BY <2>2, <2>4
<1>7. f \in [Slots -> Named(tensors, kind)]  BY <1>4
<1> HIDE DEF f
<1>8. \A s, t \in Slots : f[s] = f[t] => s = t  BY <1>2, <1>4
<1> QED  BY <1>4, <1>6, <1>7, <1>8

LEMMA CollectsLayers ==
    ASSUME NEW tensors \in Tensors, NEW kind \in Kinds, CacheOnce(tensors), NamedKind(tensors, kind)
    PROVE  LET c == CollectByPrefix(tensors, kind) IN
           /\ c \in [Slots -> DOMAIN tensors] /\ Len(c) = Layers
           /\ \A s \in Slots : tensors[c[s]].part = kind /\ tensors[c[s]].layer = ByName[s]
<1> USE LayersPositive
<1> DEFINE found == Named(tensors, kind)
           Before(i) == {j \in found : Earlier(tensors, j, i)}
<1>1. PICK f \in [Slots -> found] :
              /\ \A s \in Slots : tensors[f[s]].layer = ByName[s]
              /\ \A s, t \in Slots : f[s] = f[t] => s = t
              /\ \A i \in found : \E s \in Slots : f[s] = i /\ tensors[i].layer = ByName[s]
  BY TensorOfLayer
<1>2. Cardinality(found) = Layers
  <2>1. \A i \in found : \E s \in 1 .. Layers : f[s] = i  BY <1>1
  <2>2. f \in [1 .. Layers -> found] /\ \A s, t \in 1 .. Layers : f[s] = f[t] => s = t  BY <1>1
  <2> HIDE DEF found
  <2>3. Layers \in Nat  OBVIOUS
  <2> QED  BY <2>1, <2>2, <2>3, EqualSize
<1>3. ASSUME NEW s \in Slots, NEW t \in Slots PROVE Earlier(tensors, f[t], f[s]) <=> t < s
  <2>1. f[s] = f[t] <=> s = t  BY <1>1
  <2>2. TrailingIndex(tensors[f[s]]) = ByName[s] - 1 /\ TrailingIndex(tensors[f[t]]) = ByName[t] - 1
    BY <1>1 DEF TrailingIndex
  <2>3. f[s] \in Int /\ f[t] \in Int  BY <1>1 DEF Named, Tensors
  <2> QED  BY <2>1, <2>2, <2>3 DEF Earlier, ByName
<1>4. ASSUME NEW s \in Slots PROVE Cardinality(Before(f[s])) = s - 1
  <2> DEFINE g == [t \in 1 .. s - 1 |-> f[t]]
  <2>1. g \in [1 .. s - 1 -> Before(f[s])]  BY <1>1, <1>3
  <2>2. \A t, u \in 1 .. s - 1 : g[t] = g[u] => t = u  BY <1>1
  <2>3. \A i \in Before(f[s]) : \E t \in 1 .. s - 1 : g[t] = i
    <3> SUFFICES ASSUME NEW i \in Before(f[s]) PROVE \E t \in 1 .. s - 1 : g[t] = i
      OBVIOUS
    <3>1. PICK t \in Slots : f[t] = i  BY <1>1
    <3>2. t < s  BY <1>3, <3>1
    <3> QED  BY <3>1, <3>2
  <2> HIDE DEF g, Before
  <2>4. s - 1 \in Nat  OBVIOUS
  <2> QED  BY <2>1, <2>2, <2>3, <2>4, EqualSize
<1> HIDE DEF Before
<1>5. ASSUME NEW s \in Slots PROVE (CHOOSE i \in found : Cardinality(Before(i)) = s - 1) = f[s]
  <2>1. \A i \in found : Cardinality(Before(i)) = s - 1 => i = f[s]
    <3> SUFFICES ASSUME NEW i \in found, Cardinality(Before(i)) = s - 1 PROVE i = f[s]
      OBVIOUS
    <3>1. PICK t \in Slots : f[t] = i  BY <1>1
    <3>2. t - 1 = s - 1  BY <1>4, <3>1
    <3> QED  BY <3>1, <3>2
  <2>2. f[s] \in found /\ Cardinality(Before(f[s])) = s - 1  BY <1>1, <1>4
  <2> QED  BY <2>1, <2>2
<1>6. CollectByPrefix(tensors, kind)
        = [k \in Slots |-> CHOOSE i \in found : Cardinality(Before(i)) = k - 1]
  BY <1>2 DEF CollectByPrefix, Before
<1>7. CollectByPrefix(tensors, kind) = f
  <2>1. CollectByPrefix(tensors, kind) = [k \in Slots |-> f[k]]  BY <1>5, <1>6
  <2> QED  BY <1>1, <2>1
<1>8. \A s \in Slots : f[s] \in DOMAIN tensors /\ tensors[f[s]].part = kind  BY <1>1 DEF Named
<1> QED  BY <1>1, <1>7, <1>8

NoNames(tensors) == \A i \in DOMAIN tensors : ~tensors[i].named

LEMMA CachesByName ==
    ASSUME NEW tensors \in Tensors, CacheOnce(tensors),
           \A kind \in Kinds : NamedKind(tensors, kind), NEW first
    PROVE  Finds(tensors, CacheTensors(tensors, first), ByName)
<1> DEFINE c == [key |-> CollectByPrefix(tensors, "key"), value |-> CollectByPrefix(tensors, "value")]
<1>1. Finds(tensors, c, ByName)
  <2> SUFFICES ASSUME NEW kind \in Kinds
               PROVE  /\ c[kind] \in [Slots -> DOMAIN tensors] /\ Len(c[kind]) = Layers
                      /\ \A s \in Slots : /\ tensors[c[kind][s]].part = kind
                                          /\ tensors[c[kind][s]].layer = ByName[s]
    BY DEF Finds
  <2>1. c[kind] = CollectByPrefix(tensors, kind)  BY DEF Kinds
  <2> QED  BY <2>1, CollectsLayers
<1>2. CollectByPrefix(tensors, "key") # << >>
  <2>1. Len(CollectByPrefix(tensors, "key")) = Layers  BY <1>1 DEF Finds, Kinds
  <2> QED  BY <2>1, LayersPositive
<1>3. CacheTensors(tensors, first) = c  BY <1>2 DEF CacheTensors
<1> QED  BY <1>1, <1>3

LEMMA CachesByPlace ==
    ASSUME NEW tensors \in Tensors, NoNames(tensors), NEW first \in Nat, InPlace(tensors, first)
    PROVE  Finds(tensors, CacheTensors(tensors, first), ByPlace)
<1> USE LayersPositive
<1> DEFINE keys   == [k \in Slots |-> first + k]
           values == [k \in Slots |-> first + Layers + k]
<1>1. \A part : CollectByPrefix(tensors, part) = << >>
  <2> SUFFICES ASSUME NEW part PROVE CollectByPrefix(tensors, part) = << >>
    OBVIOUS
  <2>1. Named(tensors, part) = {}  BY DEF Named, NoNames
  <2>2. Cardinality(Named(tensors, part)) = 0  BY <2>1, FS_EmptySet
  <2> QED  BY <2>2 DEF CollectByPrefix
<1>2. Len(tensors) \in Nat /\ DOMAIN tensors = 1 .. Len(tensors)  BY DEF Tensors
<1>3. values \in Seq(Nat) /\ Len(values) = Layers  OBVIOUS
<1>4. << >> \o values = values  BY <1>3
<1>5. CacheTensors(tensors, first) = [key |-> keys, value |-> values]
  <2>1. Len(tensors) >= first + 2 * Layers  BY DEF InPlace
  <2> HIDE DEF values
  <2>2. << >> \o [k \in Slots |-> first + Layers + k] = values  BY <1>4 DEF values
  <2>3. CollectByPrefix(tensors, "key") = << >> /\ CollectByPrefix(tensors, "value") = << >>  BY <1>1
  <2>4. CacheTensors(tensors, first)
          = [key   |-> [k \in Slots |-> first + k],
             value |-> << >> \o [k \in Slots |-> first + Layers + k]]
    BY <2>1, <2>3 DEF CacheTensors
  <2> QED  BY <2>2, <2>4
<1>6. keys \in [Slots -> DOMAIN tensors] /\ Len(keys) = Layers
  BY <1>2 DEF InPlace
<1>7. values \in [Slots -> DOMAIN tensors]
  BY <1>2 DEF InPlace
<1>8. \A s \in Slots : /\ tensors[keys[s]].part = "key" /\ tensors[keys[s]].layer = ByPlace[s]
                       /\ tensors[values[s]].part = "value" /\ tensors[values[s]].layer = ByPlace[s]
  BY DEF InPlace, ByPlace
<1> HIDE DEF keys, values
<1> DEFINE c == CacheTensors(tensors, first)
<1>9. c["key"] = keys /\ c["value"] = values  BY <1>5
<1> HIDE DEF c
<1>10. /\ c["key"] \in [Slots -> DOMAIN tensors] /\ Len(c["key"]) = Layers
       /\ \A s \in Slots : tensors[c["key"][s]].part = "key" /\ tensors[c["key"][s]].layer = ByPlace[s]
  BY <1>6, <1>8, <1>9
<1>11. /\ c["value"] \in [Slots -> DOMAIN tensors] /\ Len(c["value"]) = Layers
       /\ \A s \in Slots :
             tensors[c["value"][s]].part = "value" /\ tensors[c["value"][s]].layer = ByPlace[s]
  BY <1>3, <1>7, <1>8, <1>9
<1>12. Finds(tensors, c, ByPlace)
  <2> SUFFICES ASSUME NEW kind \in Kinds
               PROVE  /\ c[kind] \in [Slots -> DOMAIN tensors] /\ Len(c[kind]) = Layers
                      /\ \A s \in Slots :
                            tensors[c[kind][s]].part = kind /\ tensors[c[kind][s]].layer = ByPlace[s]
    BY DEF Finds
  <2>1. CASE kind = "key"  BY <1>10, <2>1
  <2>2. CASE kind = "value"  BY <1>11, <2>2
  <2> QED  BY <2>1, <2>2 DEF Kinds
<1> QED  BY <1>12 DEF c

\* Everything in a graph is found, and its caches at the layers at says.
BindingRight(graph, b, at1) ==
    /\ Finds(graph.inputs, b.past, at1) /\ Finds(graph.outputs, b.present, at1)
    /\ \A part \in BlockParts : b[part] \in DOMAIN graph.inputs /\ graph.inputs[b[part]].part = part
    /\ b.extra = [k \in 1 .. Len(graph.outputs) - 1 - 2 * Layers |-> 1 + 2 * Layers + k]

LEMMA ExtraOutputs ==
    ASSUME NEW graph \in TargetGraph, NEW at1,
           Finds(graph.outputs, BuildTargetTensorBinding(graph).present, at1)
    PROVE  BuildTargetTensorBinding(graph).extra
             = [k \in 1 .. Len(graph.outputs) - 1 - 2 * Layers |-> 1 + 2 * Layers + k]
<1> USE LayersPositive
<1> DEFINE present == CacheTensors(graph.outputs, 1)
           cached == Len(present.key) + Len(present.value)
<1>1. cached = 2 * Layers
  <2>1. BuildTargetTensorBinding(graph).present = present  BY DEF BuildTargetTensorBinding
  <2>2. Len(present["key"]) = Layers /\ Len(present["value"]) = Layers  BY <2>1 DEF Finds, Kinds
  <2>3. cached = Layers + Layers  BY <2>2
  <2>4. Layers + Layers = 2 * Layers  OBVIOUS
  <2> HIDE DEF cached
  <2> QED  BY <2>3, <2>4
<1>2. BuildTargetTensorBinding(graph).extra
        = [k \in 1 .. Len(graph.outputs) - 1 - cached |-> 1 + cached + k]
  BY DEF BuildTargetTensorBinding
<1>3. Len(graph.outputs) \in Nat  BY DEF TargetGraph, Tensors
<1> HIDE DEF cached
<1> QED  BY <1>1, <1>2, <1>3

LEMMA BindsByName ==
    ASSUME NEW graph \in TargetGraph, OfModel(graph), CacheThenTaps(graph.outputs), AllNamed(graph)
    PROVE  BindingRight(graph, BuildTargetTensorBinding(graph), ByName)
<1> DEFINE b == BuildTargetTensorBinding(graph)
<1> USE LayersPositive
<1>0. graph.inputs \in Tensors /\ graph.outputs \in Tensors  BY DEF TargetGraph
<1>1. Finds(graph.inputs, b.past, ByName)
  <2>1. \A kind \in Kinds : NamedKind(graph.inputs, kind)  BY DEF NamedKind, AllNamed
  <2> QED  BY <1>0, <2>1, CachesByName DEF OfModel, BuildTargetTensorBinding
<1>2. Finds(graph.outputs, b.present, ByName)
  <2>1. ASSUME NEW kind \in Kinds, NEW i \in DOMAIN graph.outputs, graph.outputs[i].part = kind
        PROVE  graph.outputs[i].named
    <3>1. i # 1 /\ ~(i > 1 + 2 * Layers) /\ i \in Nat \ {0}
      BY <1>0, <2>1 DEF OfModel, CacheThenTaps, Kinds, Tensors
    <3> QED  BY <3>1 DEF AllNamed
  <2>2. \A kind \in Kinds : NamedKind(graph.outputs, kind)  BY <2>1 DEF NamedKind
  <2> QED  BY <1>0, <2>2, CachesByName DEF OfModel, BuildTargetTensorBinding
<1>3. ASSUME NEW part \in BlockParts, NEW place
      PROVE  LET i == OrPlace(FindExact(graph.inputs, part), graph.inputs, place) IN
             i \in DOMAIN graph.inputs /\ graph.inputs[i].part = part
  <2>1. PICK i \in DOMAIN graph.inputs :
           \A j \in DOMAIN graph.inputs : graph.inputs[j].part = part <=> j = i
    BY DEF OfModel
  <2>2. Named(graph.inputs, part) = {i}  BY <2>1 DEF Named, AllNamed
  <2>3. i \in Nat \ {0}  BY <1>0 DEF Tensors
  <2>4. FindExact(graph.inputs, part) = i  BY <2>2, <2>3 DEF FindExact
  <2>5. OrPlace(FindExact(graph.inputs, part), graph.inputs, place) = i
    BY <2>3, <2>4 DEF OrPlace, NoTensor
  <2> QED  BY <2>1, <2>5
<1>4. \A part \in BlockParts : b[part] \in DOMAIN graph.inputs /\ graph.inputs[b[part]].part = part
  <2>1. \A part \in BlockParts : \E place :
           b[part] = OrPlace(FindExact(graph.inputs, part), graph.inputs, place)
    <3>1. /\ b["input_ids"] = OrPlace(FindExact(graph.inputs, "input_ids"), graph.inputs, 1)
          /\ b["position_ids"] = OrPlace(FindExact(graph.inputs, "position_ids"), graph.inputs, 2)
          /\ b["attention_mask"] = OrPlace(FindExact(graph.inputs, "attention_mask"), graph.inputs, 3)
      BY DEF BuildTargetTensorBinding
    <3> HIDE DEF b
    <3> QED  BY <3>1 DEF BlockParts
  <2> QED  BY <1>3, <2>1
<1> QED  BY <1>1, <1>2, <1>4, ExtraOutputs DEF BindingRight

LEMMA BindsByPlace ==
    ASSUME NEW graph \in TargetGraph, Unnamed(graph)
    PROVE  BindingRight(graph, BuildTargetTensorBinding(graph), ByPlace)
<1> DEFINE b == BuildTargetTensorBinding(graph)
<1> USE LayersPositive
<1>0. graph.inputs \in Tensors /\ graph.outputs \in Tensors  BY DEF TargetGraph
<1>1. Finds(graph.inputs, b.past, ByPlace)
  BY <1>0, CachesByPlace DEF Unnamed, NoNames, BuildTargetTensorBinding
<1>2. Finds(graph.outputs, b.present, ByPlace)
  BY <1>0, CachesByPlace DEF Unnamed, NoNames, BuildTargetTensorBinding
<1>3. Len(graph.inputs) >= 3 /\ Len(graph.inputs) \in Nat /\ DOMAIN graph.inputs = 1 .. Len(graph.inputs)
  <2>1. Len(graph.inputs) >= 3 + 2 * Layers  BY DEF Unnamed, InPlace
  <2>2. Len(graph.inputs) \in Nat /\ DOMAIN graph.inputs = 1 .. Len(graph.inputs)  BY <1>0 DEF Tensors
  <2> QED  BY <2>1, <2>2
<1>4. \A part : FindExact(graph.inputs, part) = NoTensor
  BY DEF FindExact, Named, Unnamed
<1>5. b.input_ids = 1 /\ b.position_ids = 2 /\ b.attention_mask = 3
  BY <1>3, <1>4 DEF BuildTargetTensorBinding, OrPlace
<1>6. \A part \in BlockParts : b[part] \in DOMAIN graph.inputs /\ graph.inputs[b[part]].part = part
  <2> HIDE DEF b
  <2> QED  BY <1>3, <1>5 DEF Unnamed, BlockParts
<1> QED  BY <1>1, <1>2, <1>6, ExtraOutputs DEF BindingRight

(***************************************************************************)
(* The way of the cache.                                                   *)
(***************************************************************************)
Sides == {"prefill", "verify"}

\* Every slot serves a layer of its own, and every layer is served.
ServesLayers(at1) ==
    /\ \A s, t \in Slots : at1[s] = at1[t] => s = t
    /\ \A l \in 0 .. Layers - 1 : \E s \in Slots : at1[s] = l

LEMMA SlotsServe == ServesLayers(ByName) /\ ServesLayers(ByPlace)
<1> USE LayersPositive
<1>1. ServesLayers(ByName)
  <2>1. \A s, t \in Slots : ByName[s] = ByName[t] => s = t  BY DEF ByName
  <2>2. ASSUME NEW l \in 0 .. Layers - 1 PROVE \E s \in Slots : ByName[s] = l
    <3>1. l = 0 => ByName[Layers] = l /\ Layers \in Slots  BY DEF ByName
    <3>2. l # 0 => ByName[l] = l /\ l \in Slots  BY DEF ByName
    <3> QED  BY <3>1, <3>2
  <2> QED  BY <2>1, <2>2 DEF ServesLayers
<1>2. ServesLayers(ByPlace)
  <2>1. \A s, t \in Slots : ByPlace[s] = ByPlace[t] => s = t  BY DEF ByPlace
  <2>2. ASSUME NEW l \in 0 .. Layers - 1 PROVE \E s \in Slots : ByPlace[s] = l
    <3>1. ByPlace[l + 1] = l /\ l + 1 \in Slots  BY DEF ByPlace
    <3> QED  BY <3>1
  <2> QED  BY <2>1, <2>2 DEF ServesLayers
<1> QED  BY <1>1, <1>2

LEMMA WrittenThere ==
    ASSUME NEW W, NEW a, NEW v, <<a, v>> \in W, \A w \in W : w[1] = a => w[2] = v
    PROVE  a \in DOMAIN Written(W) /\ Written(W)[a] = v
<1>1. \E w \in W : w[1] = a  OBVIOUS
<1>2. (CHOOSE w \in W : w[1] = a)[2] = v  BY <1>1
<1>3. a \in {w[1] : w \in W}  OBVIOUS
<1> QED  BY <1>1, <1>2, <1>3 DEF Written

LEMMA WrittenElsewhere ==
    ASSUME NEW W, NEW a \in DOMAIN mem, \A w \in W : w[1] # a
    PROVE  a \in DOMAIN Written(W) /\ Written(W)[a] = mem[a]
BY DEF Written

Made(kind, layer) ==
    IF pass = 0 THEN Nothing ELSE [part |-> kind, layer |-> layer, pass |-> pass]

\* The cache holds, in every slot, what its layer made in the last pass.
CacheHolds(at1) ==
    \A s \in Slots, k \in Kinds :
        pastAt[s][k] \in DOMAIN mem /\ mem[pastAt[s][k]] = Made(k, at1[s])

InOwnStorage == pastAt = Owned("past") /\ newAt = Owned("new")

InVerifyBuffers ==
    LET b == binding["verify"] IN
    /\ pastAt = [s \in Slots |-> [k \in Kinds |-> <<"verify", "in", b.past[k][s]>>]]
    /\ newAt  = [s \in Slots |-> [k \in Kinds |-> <<"verify", "out", b.present[k][s]>>]]

Apart ==
    \A s, t \in Slots, k, j \in Kinds :
        /\ pastAt[s][k] = pastAt[t][j] => s = t /\ k = j
        /\ newAt[s][k] = newAt[t][j] => s = t /\ k = j
        /\ pastAt[s][k] # newAt[t][j]

OutputsMade(side) ==
    \A i \in DOMAIN graphs[side].outputs :
        mem[<<side, "out", i>>] = Value(graphs[side].outputs[i], pass)

LEMMA CachesApart ==
    ASSUME NEW tensors, NEW c, NEW at1, ServesLayers(at1), Finds(tensors, c, at1),
           NEW s \in Slots, NEW t \in Slots, NEW k \in Kinds, NEW j \in Kinds, c[k][s] = c[j][t]
    PROVE  s = t /\ k = j
<1>1. k = j /\ at1[s] = at1[t]  BY DEF Finds
<1> QED  BY <1>1 DEF ServesLayers

LEMMA StoragesApart ==
    ASSUME NEW at1, ServesLayers(at1),
           \/ InOwnStorage
           \/ InVerifyBuffers /\ BindingRight(graphs["verify"], binding["verify"], at1)
    PROVE  Apart
<1> SUFFICES ASSUME NEW s \in Slots, NEW t \in Slots, NEW k \in Kinds, NEW j \in Kinds
             PROVE  /\ pastAt[s][k] = pastAt[t][j] => s = t /\ k = j
                    /\ newAt[s][k] = newAt[t][j] => s = t /\ k = j
                    /\ pastAt[s][k] # newAt[t][j]
  BY DEF Apart
<1>1. CASE InOwnStorage
  <2>1. /\ pastAt[s][k] = <<"past", k, s>> /\ pastAt[t][j] = <<"past", j, t>>
        /\ newAt[s][k] = <<"new", k, s>> /\ newAt[t][j] = <<"new", j, t>>
    BY <1>1 DEF InOwnStorage, Owned
  <2> QED  BY <2>1
<1>2. CASE InVerifyBuffers /\ BindingRight(graphs["verify"], binding["verify"], at1)
  <2> DEFINE b == binding["verify"]
  <2>1. /\ pastAt[s][k] = <<"verify", "in", b.past[k][s]>>
        /\ pastAt[t][j] = <<"verify", "in", b.past[j][t]>>
        /\ newAt[s][k] = <<"verify", "out", b.present[k][s]>>
        /\ newAt[t][j] = <<"verify", "out", b.present[j][t]>>
    BY <1>2 DEF InVerifyBuffers
  <2>2. b.past[k][s] = b.past[j][t] => s = t /\ k = j  BY <1>2, CachesApart DEF BindingRight
  <2>3. b.present[k][s] = b.present[j][t] => s = t /\ k = j  BY <1>2, CachesApart DEF BindingRight
  <2> QED  BY <2>1, <2>2, <2>3
<1> QED  BY <1>1, <1>2

\* A transfer takes every slot or, between the graph and its own buffers, none.
LEMMA CopiedSlots ==
    ASSUME NEW tensors, NEW c, NEW at1, Finds(tensors, c, at1), NEW where, NEW side, NEW direction
    PROVE  /\ Transferred(c) = Slots
           /\ (\A s \in Slots : where[s]["key"][1] # side)
                => Copied(c, where, side, direction) = Slots \X Kinds
           /\ (\A s \in Slots : where[s]["key"] = <<side, direction, c["key"][s]>>)
                => Copied(c, where, side, direction) = {}
<1> USE LayersPositive
<1>1. Len(c.key) = Layers /\ Len(c.value) = Layers  BY DEF Finds, Kinds
<1>2. Transferred(c) = Slots  BY <1>1 DEF Transferred
<1>3. ASSUME \A s \in Slots : where[s]["key"][1] # side
      PROVE  Copied(c, where, side, direction) = Slots \X Kinds
  BY <1>2, <1>3 DEF Copied
<1>4. ASSUME \A s \in Slots : where[s]["key"] = <<side, direction, c["key"][s]>>
      PROVE  Copied(c, where, side, direction) = {}
  BY <1>2, <1>4 DEF Copied
<1> QED  BY <1>2, <1>3, <1>4

\* The slot of a cache tensor.
LEMMA SlotOf ==
    ASSUME NEW tensors \in Tensors, CacheOnce(tensors), NEW c, NEW at1, ServesLayers(at1),
           Finds(tensors, c, at1), NEW i \in DOMAIN tensors, tensors[i].part \in Kinds
    PROVE  \E s \in Slots : at1[s] = tensors[i].layer /\ c[tensors[i].part][s] = i
<1> DEFINE k == tensors[i].part
           Tensor == [part : STRING, layer : Nat, named : BOOLEAN]
<1>1. tensors[i] \in Tensor
  <2>1. tensors \in Seq(Tensor)  BY DEF Tensors
  <2> HIDE DEF Tensor
  <2> QED  BY <2>1
<1>2. tensors[i].layer \in 0 .. Layers - 1  BY <1>1, LayersPositive DEF CacheOnce
<1>3. PICK s \in Slots : at1[s] = tensors[i].layer  BY <1>2 DEF ServesLayers
<1>4. c[k][s] \in DOMAIN tensors /\ tensors[c[k][s]].part = k /\ tensors[c[k][s]].layer = tensors[i].layer
  BY <1>3 DEF Finds
<1>5. c[k][s] = i  BY <1>2, <1>4 DEF CacheOnce
<1> QED  BY <1>3, <1>5

\* A graph of the model that the binding of its session fits.
SessionRight(side, at1) ==
    /\ graphs[side] \in TargetGraph /\ OfModel(graphs[side])
    /\ BindingRight(graphs[side], binding[side], at1)

LEMMA FillFeeds ==
    ASSUME NEW side \in Sides, NEW at1, ServesLayers(at1), SessionRight(side, at1),
           CacheHolds(at1), FillInputs(side),
           InOwnStorage \/ (InVerifyBuffers /\ side = "verify")
    PROVE  Fed(side)'
<1> DEFINE g == graphs[side]
           b == binding[side]
           Given(part) == [Nothing EXCEPT !.part = part, !.pass = pass]
           Block(part) == <<<<side, "in", b[part]>>, Given(part)>>
           Copy(p) == <<<<side, "in", b.past[p[2]][p[1]]>>, mem[pastAt[p[1]][p[2]]]>>
           copied == Copied(b.past, pastAt, side, "in")
           W == {Copy(p) : p \in copied} \cup {Block(part) : part \in BlockParts}
<1>0. /\ g.inputs \in Tensors /\ CacheOnce(g.inputs) /\ Finds(g.inputs, b.past, at1)
      /\ \A part \in BlockParts : b[part] \in DOMAIN g.inputs /\ g.inputs[b[part]].part = part
      /\ \A i \in DOMAIN g.inputs : g.inputs[i].part \in Kinds \cup BlockParts
  BY DEF SessionRight, BindingRight, OfModel, TargetGraph
<1>1. mem' = Written(W) /\ UNCHANGED <<graphs, binding, pastAt, newAt, pass>>
  <2>1. {Block(part) : part \in BlockParts}
          = {Block("input_ids"), Block("position_ids"), Block("attention_mask")}
    BY DEF BlockParts
  <2>2. /\ Block("input_ids") = <<<<side, "in", b.input_ids>>, Given("input_ids")>>
        /\ Block("position_ids") = <<<<side, "in", b.position_ids>>, Given("position_ids")>>
        /\ Block("attention_mask") = <<<<side, "in", b.attention_mask>>, Given("attention_mask")>>
    OBVIOUS
  <2> QED  BY <2>1, <2>2 DEF FillInputs
<1>2. copied = Slots \X Kinds \/ copied = {}
  <2>1. CASE InOwnStorage
    <3>1. \A s \in Slots : pastAt[s]["key"][1] # side
      BY <2>1 DEF InOwnStorage, Owned, Kinds, Sides
    <3> QED  BY <1>0, <3>1, CopiedSlots
  <2>2. CASE InVerifyBuffers /\ side = "verify"
    <3>1. \A s \in Slots : pastAt[s]["key"] = <<side, "in", b.past["key"][s]>>
      BY <2>2 DEF InVerifyBuffers, Kinds
    <3> QED  BY <1>0, <3>1, CopiedSlots
  <2> QED  BY <2>1, <2>2
<1>3. copied = {} => \A s \in Slots, k \in Kinds : pastAt[s][k] = <<side, "in", b.past[k][s]>>
  <2>1. CASE InOwnStorage
    <3>1. \A s \in Slots : pastAt[s]["key"][1] # side
      BY <2>1 DEF InOwnStorage, Owned, Kinds, Sides
    <3>2. copied = Slots \X Kinds  BY <1>0, <3>1, CopiedSlots
    <3>3. <<1, "key">> \in Slots \X Kinds  BY LayersPositive DEF Kinds
    <3> QED  BY <3>2, <3>3
  <2>2. CASE InVerifyBuffers /\ side = "verify"
    BY <2>2 DEF InVerifyBuffers
  <2> QED  BY <2>1, <2>2
<1> HIDE DEF copied
<1>4. \A w \in W : \/ \E p \in copied : w = Copy(p)
                   \/ \E part \in BlockParts : w = Block(part)
  OBVIOUS
<1>5. \A p \in copied : p[1] \in Slots /\ p[2] \in Kinds /\ p = <<p[1], p[2]>>
  BY <1>2
<1>6. \A p \in copied : LET i == b.past[p[2]][p[1]] IN
         Copy(p)[1] = <<side, "in", i>> /\ g.inputs[i].part = p[2] /\ g.inputs[i].layer = at1[p[1]]
  <2> SUFFICES ASSUME NEW p \in copied
               PROVE  /\ g.inputs[b.past[p[2]][p[1]]].part = p[2]
                      /\ g.inputs[b.past[p[2]][p[1]]].layer = at1[p[1]]
    OBVIOUS
  <2>1. p[1] \in Slots /\ p[2] \in Kinds  BY <1>5
  <2> HIDE DEF b, g
  <2> QED  BY <1>0, <2>1 DEF Finds
<1>7. \A part \in BlockParts :
         Block(part)[1] = <<side, "in", b[part]>> /\ g.inputs[b[part]].part = part /\ part \notin Kinds
  BY <1>0 DEF BlockParts, Kinds
<1>8. ASSUME NEW i \in DOMAIN g.inputs
      PROVE  mem'[<<side, "in", i>>] = Needed(g.inputs[i])
  <2> DEFINE part == g.inputs[i].part
             a == <<side, "in", i>>
  <2>1. CASE part \in Kinds
    <3>1. PICK s \in Slots : at1[s] = g.inputs[i].layer /\ b.past[part][s] = i
      BY <1>0, <2>1, SlotOf
    <3>2. mem[pastAt[s][part]] = Needed(g.inputs[i]) /\ pastAt[s][part] \in DOMAIN mem
      BY <2>1, <3>1 DEF CacheHolds, Made, Needed, Value
    <3>3. \A w \in W : w[1] = a => w = Copy(<<s, part>>)
      <4> SUFFICES ASSUME NEW w \in W, w[1] = a PROVE w = Copy(<<s, part>>)
        OBVIOUS
      <4>1. PICK p \in copied : w = Copy(p)
        <5>1. \A q \in BlockParts : Block(q)[1] # a  BY <1>7, <2>1
        <5> QED  BY <1>4, <5>1
      <4>2. b.past[p[2]][p[1]] = i  BY <1>6, <4>1
      <4>3. p[2] = part /\ at1[p[1]] = at1[s]  BY <1>6, <3>1, <4>2
      <4>4. p[1] = s  BY <1>5, <4>3 DEF ServesLayers
      <4>5. p = <<s, part>>  BY <1>5, <4>3, <4>4
      <4> QED  BY <4>1, <4>5
    <3>4. CASE copied = Slots \X Kinds
      <4>1. <<s, part>> \in copied  BY <2>1, <3>4
      <4>2. Copy(<<s, part>>) = <<a, mem[pastAt[s][part]]>>  BY <3>1
      <4>3. <<a, mem[pastAt[s][part]]>> \in W  BY <4>1, <4>2
      <4> DEFINE v == mem[pastAt[s][part]]
      <4>4. \A w \in W : w[1] = a => w[2] = v
        <5>1. \A w \in W : w[1] = a => w = <<a, v>>  BY <3>3, <4>2
        <5> HIDE DEF W, a, v
        <5> QED  BY <5>1
      <4>5. <<a, v>> \in W  BY <4>3
      <4> HIDE DEF W, a, v
      <4>6. Written(W)[a] = v  BY <4>4, <4>5, WrittenThere
      <4> QED  BY <1>1, <3>2, <4>6 DEF a, v
    <3>5. CASE copied = {}
      <4>1. pastAt[s][part] = a  BY <1>3, <2>1, <3>1, <3>5
      <4>2. \A w \in W : w[1] # a
        <5> SUFFICES ASSUME NEW w \in W, w[1] = a PROVE FALSE
          OBVIOUS
        <5>1. PICK q \in BlockParts : w = Block(q)  BY <1>4, <3>5
        <5> QED  BY <1>7, <2>1, <5>1
      <4> HIDE DEF W, a
      <4>3. Written(W)[a] = mem[a]  BY <3>2, <4>1, <4>2, WrittenElsewhere
      <4> QED  BY <1>1, <3>2, <4>1, <4>3 DEF a
    <3> QED  BY <1>2, <3>4, <3>5
  <2>2. CASE part \in BlockParts
    <3>1. b[part] = i
      <4>1. PICK j \in DOMAIN g.inputs : \A n \in DOMAIN g.inputs : g.inputs[n].part = part <=> n = j
        BY <2>2 DEF SessionRight, OfModel
      <4> QED  BY <1>0, <2>2, <4>1
    <3>2. \A w \in W : w[1] = a => w = Block(part)
      <4> SUFFICES ASSUME NEW w \in W, w[1] = a PROVE w = Block(part)
        OBVIOUS
      <4>1. part \notin Kinds  BY <1>7, <2>2
      <4>2. PICK q \in BlockParts : w = Block(q)
        <5>1. \A p \in copied : Copy(p)[1] # a  BY <1>5, <1>6, <4>1
        <5> QED  BY <1>4, <5>1
      <4>3. b[q] = i  BY <1>7, <4>2
      <4>4. q = part  BY <1>7, <4>3
      <4> QED  BY <4>2, <4>4
    <3>3. Block(part) = <<a, Needed(g.inputs[i])>>
      BY <1>7, <2>2, <3>1 DEF Needed, Nothing
    <3>4. Block(part) \in W  BY <2>2
    <3> DEFINE v == Needed(g.inputs[i])
    <3>5. \A w \in W : w[1] = a => w[2] = v
      <4>1. \A w \in W : w[1] = a => w = <<a, v>>  BY <3>2, <3>3
      <4> HIDE DEF W, a, v
      <4> QED  BY <4>1
    <3>6. <<a, Needed(g.inputs[i])>> \in W  BY <3>3, <3>4
    <3> HIDE DEF W, a
    <3> QED  BY <1>1, <3>5, <3>6, WrittenThere DEF a
  <2> QED  BY <1>0, <2>1, <2>2
<1> QED  BY <1>1, <1>8 DEF Fed, Needed, Value

LEMMA ExecuteMakes ==
    ASSUME NEW side, Execute(side), pass \in Nat
    PROVE  /\ OutputsMade(side)' /\ pass' \in Nat \ {0}
           /\ UNCHANGED <<graphs, binding, pastAt, newAt, hidden>>
<1> DEFINE made == graphs[side].outputs
           W == {<<<<side, "out", i>>, Value(made[i], pass + 1)>> : i \in DOMAIN made}
<1>1. mem' = Written(W) /\ pass' = pass + 1 /\ UNCHANGED <<graphs, binding, pastAt, newAt, hidden>>
  BY DEF Execute
<1>2. ASSUME NEW i \in DOMAIN made PROVE mem'[<<side, "out", i>>] = Value(made[i], pass + 1)
  <2>1. <<<<side, "out", i>>, Value(made[i], pass + 1)>> \in W  OBVIOUS
  <2>2. \A w \in W : w[1] = <<side, "out", i>> => w[2] = Value(made[i], pass + 1)  OBVIOUS
  <2> HIDE DEF W
  <2> QED  BY <1>1, <2>1, <2>2, WrittenThere
<1>3. OutputsMade(side)'  BY <1>1, <1>2 DEF OutputsMade, Value
<1> QED  BY <1>1, <1>3

LEMMA ReadKeepsLayers ==
    ASSUME NEW side \in Sides, NEW at1, ServesLayers(at1), SessionRight(side, at1),
           OutputsMade(side), pass \in Nat \ {0}, ReadOutputs(side),
           InOwnStorage \/ (InVerifyBuffers /\ side = "verify")
    PROVE  /\ CacheHolds(at1)' /\ HiddenFromTaps(side)'
           /\ UNCHANGED <<graphs, binding, pastAt, newAt, pass>>
<1> DEFINE g == graphs[side]
           b == binding[side]
           Read(s, k) == IF <<s, k>> \in Copied(b.present, newAt, side, "out")
                         THEN mem[<<side, "out", b.present[k][s]>>] ELSE mem[newAt[s][k]]
           Both(s, k) == {<<newAt[s][k], Read(s, k)>>, <<pastAt[s][k], Read(s, k)>>}
           W == UNION {Both(s, k) : s \in Slots, k \in Kinds}
<1>0. /\ mem' = Written(W) /\ UNCHANGED <<graphs, binding, pastAt, newAt, pass>>
      /\ hidden' = [k \in DOMAIN b.extra |-> mem[<<side, "out", b.extra[k]>>]]
  BY DEF ReadOutputs
<1>1. /\ g.outputs \in Tensors /\ Finds(g.outputs, b.present, at1)
      /\ b.extra = [k \in 1 .. Len(g.outputs) - 1 - 2 * Layers |-> 1 + 2 * Layers + k]
  BY DEF SessionRight, BindingRight, TargetGraph
<1>2. Apart  BY StoragesApart DEF SessionRight
<1>3. ASSUME NEW s \in Slots, NEW k \in Kinds PROVE Read(s, k) = Made(k, at1[s])
  <2>1. /\ b.present[k][s] \in DOMAIN g.outputs /\ g.outputs[b.present[k][s]].part = k
        /\ g.outputs[b.present[k][s]].layer = at1[s]
    BY <1>1 DEF Finds
  <2>2. mem[<<side, "out", b.present[k][s]>>] = Made(k, at1[s])
    BY <2>1 DEF OutputsMade, Value, Made
  <2>3. Read(s, k) = mem[<<side, "out", b.present[k][s]>>]
    <3>1. CASE InOwnStorage
      <4>1. \A t \in Slots : newAt[t]["key"][1] # side
        BY <3>1 DEF InOwnStorage, Owned, Kinds, Sides
      <4>2. Copied(b.present, newAt, side, "out") = Slots \X Kinds  BY <1>1, <4>1, CopiedSlots
      <4> QED  BY <4>2
    <3>2. CASE InVerifyBuffers /\ side = "verify"
      <4>1. newAt[s][k] = <<side, "out", b.present[k][s]>>  BY <3>2 DEF InVerifyBuffers
      <4> QED  BY <4>1
    <3> QED  BY <3>1, <3>2
  <2> QED  BY <2>2, <2>3
<1>4. ASSUME NEW s \in Slots, NEW k \in Kinds
      PROVE  pastAt[s][k] \in DOMAIN Written(W) /\ Written(W)[pastAt[s][k]] = Made(k, at1[s])
  <2> DEFINE a == pastAt[s][k]
             v == Made(k, at1[s])
  <2>1. <<a, v>> \in W
    <3>1. <<a, Read(s, k)>> \in Both(s, k)  OBVIOUS
    <3>2. <<a, Read(s, k)>> \in W
      <4> HIDE DEF a, Read, Both
      <4> QED  BY <3>1
    <3> HIDE DEF W, a, v, Read
    <3>3. Read(s, k) = v  BY <1>3 DEF v
    <3> QED  BY <3>2, <3>3
  <2>2. ASSUME NEW w \in W, w[1] = a PROVE w[2] = v
    <3>1. PICK t \in Slots, j \in Kinds : w \in Both(t, j)
      OBVIOUS
    <3>2. w[1] \in {newAt[t][j], pastAt[t][j]} /\ w[2] = Read(t, j)  BY <3>1
    <3>3. t = s /\ j = k  BY <1>2, <2>2, <3>2 DEF Apart
    <3> HIDE DEF Read, v
    <3> QED  BY <1>3, <3>2, <3>3 DEF v
  <2> HIDE DEF W, a, v
  <2>3. a \in DOMAIN Written(W) /\ Written(W)[a] = v  BY <2>1, <2>2, WrittenThere
  <2> QED  BY <2>3 DEF a, v
<1>5. CacheHolds(at1)'
  <2> HIDE DEF W
  <2> QED  BY <1>0, <1>4 DEF CacheHolds, Made
<1>6. HiddenFromTaps(side)'
  <2> DEFINE n == Len(g.outputs) - 1 - 2 * Layers
  <2>1. Len(g.outputs) \in Nat /\ DOMAIN g.outputs = 1 .. Len(g.outputs)  BY <1>1 DEF Tensors
  <2>2. \A k \in 1 .. n : 1 + 2 * Layers + k \in DOMAIN g.outputs  BY <2>1, LayersPositive
  <2>3. \A k \in 1 .. n :
           mem[<<side, "out", 1 + 2 * Layers + k>>] = Value(g.outputs[1 + 2 * Layers + k], pass)
    BY <2>2 DEF OutputsMade
  <2>4. DOMAIN b.extra = 1 .. n /\ \A k \in 1 .. n : b.extra[k] = 1 + 2 * Layers + k  BY <1>1
  <2>5. hidden' = [k \in 1 .. n |-> Value(g.outputs[1 + 2 * Layers + k], pass)]
    <3> HIDE DEF b, n, g
    <3>1. hidden' = [k \in 1 .. n |-> mem[<<side, "out", b.extra[k]>>]]  BY <1>0, <2>4
    <3>2. \A k \in 1 .. n : mem[<<side, "out", b.extra[k]>>] = Value(g.outputs[1 + 2 * Layers + k], pass)
      BY <2>3, <2>4
    <3> QED  BY <3>1, <3>2
  <2> QED  BY <1>0, <2>5 DEF HiddenFromTaps, Value
<1> QED  BY <1>0, <1>5, <1>6

LEMMA BindMoves ==
    ASSUME NEW at1, ServesLayers(at1), SessionRight("verify", at1), CacheHolds(at1), Bind
    PROVE  CacheHolds(at1)' /\ InVerifyBuffers' /\ UNCHANGED <<graphs, binding, hidden, pass>>
<1> DEFINE b == binding["verify"]
           W == {<<pastAt'[s][k], mem[pastAt[s][k]]>> : s \in Slots, k \in Kinds}
<1>0. mem' = Written(W) /\ UNCHANGED <<graphs, binding, hidden, pass>>
  BY DEF Bind
<1>1. /\ Finds(graphs["verify"].inputs, b.past, at1) /\ Finds(graphs["verify"].outputs, b.present, at1)
      /\ BindingRight(graphs["verify"], b, at1)
  BY DEF SessionRight, BindingRight
<1>2. Transferred(b.past) = Slots  BY <1>1, CopiedSlots
<1>3. \A s \in Slots, k \in Kinds : s <= Len(b.past[k]) /\ s <= Len(b.present[k])
  <2>1. \A k \in Kinds : Len(b.past[k]) = Layers /\ Len(b.present[k]) = Layers
    BY <1>1 DEF Finds
  <2>2. \A s \in Slots : s <= Layers  BY LayersPositive
  <2> HIDE DEF b
  <2> QED  BY <2>1, <2>2
<1>4. InVerifyBuffers'
  <2>1. pastAt' = [s \in Slots |-> [k \in Kinds |-> <<"verify", "in", b.past[k][s]>>]]
    BY <1>2, <1>3 DEF Bind, BoundTo, BoundKinds
  <2>2. newAt' = [s \in Slots |-> [k \in Kinds |-> <<"verify", "out", b.present[k][s]>>]]
    BY <1>2, <1>3 DEF Bind, BoundTo, BoundKinds
  <2> QED  BY <1>0, <2>1, <2>2 DEF InVerifyBuffers
<1>5. ASSUME NEW s \in Slots, NEW k \in Kinds, NEW t \in Slots, NEW j \in Kinds,
             pastAt'[s][k] = pastAt'[t][j]
      PROVE  s = t /\ k = j
  <2>1. /\ pastAt'[s][k] = <<"verify", "in", b.past[k][s]>>
        /\ pastAt'[t][j] = <<"verify", "in", b.past[j][t]>>
    BY <1>0, <1>4 DEF InVerifyBuffers
  <2>2. b.past[k][s] = b.past[j][t]
    <3>1. pastAt'[s][k][3] = b.past[k][s] /\ pastAt'[t][j][3] = b.past[j][t]  BY <2>1
    <3> QED  BY <1>5, <3>1
  <2> QED  BY <1>1, <2>2, CachesApart
<1>6. ASSUME NEW s \in Slots, NEW k \in Kinds
      PROVE  pastAt'[s][k] \in DOMAIN mem' /\ mem'[pastAt'[s][k]] = Made(k, at1[s])
  <2> DEFINE a == pastAt'[s][k]
             v == mem[pastAt[s][k]]
  <2>1. <<a, v>> \in W  OBVIOUS
  <2>2. ASSUME NEW w \in W, w[1] = a PROVE w[2] = v
    <3>1. PICK t \in Slots, j \in Kinds : w = <<pastAt'[t][j], mem[pastAt[t][j]]>>
      OBVIOUS
    <3>2. t = s /\ j = k  BY <1>5, <2>2, <3>1
    <3> QED  BY <3>1, <3>2
  <2> HIDE DEF W, a, v
  <2>3. a \in DOMAIN Written(W) /\ Written(W)[a] = v  BY <2>1, <2>2, WrittenThere
  <2> QED  BY <1>0, <2>3 DEF a, v, CacheHolds
<1>7. CacheHolds(at1)'  BY <1>0, <1>6 DEF CacheHolds, Made
<1> QED  BY <1>0, <1>4, <1>7

Opening == {"none", "parse", "prompt", "load", "embedding", "dtype"}

Prefilling == {"prefill", "prefill run", "prefill read"}

Verifying == {"draft", "verify", "verify run", "verify read"}

\* The layer a slot serves, in both graphs.
Served == IF \A side \in DOMAIN graphs : AllNamed(graphs[side]) THEN ByName ELSE ByPlace

CacheHeld == CacheHolds(Served)

TapsKept == \E side \in DOMAIN graphs : HiddenFromTaps(side)

NothingCached ==
    /\ pass = 0 /\ InOwnStorage
    /\ \A s \in Slots, k \in Kinds : pastAt[s][k] \in DOMAIN mem /\ mem[pastAt[s][k]] = Nothing

\* The graphs of a process, the target's as they were loaded.
GraphsInv ==
    /\ stage \in Stages /\ pass \in Nat /\ DOMAIN graphs \subseteq Sides
    /\ DOMAIN binding = DOMAIN graphs
    /\ stage \in Opening => DOMAIN graphs = {}
    /\ stage \in Prefilling \cup Verifying => DOMAIN graphs = Sides
    /\ stage \notin {"none", "parse", "prompt", "ended"} => target \in Targets
    /\ stage \in {"sessions"} \cup Prefilling \cup Verifying => \A side \in DOMAIN graphs :
            graphs[side] = target[side] /\ binding[side] = BuildTargetTensorBinding(graphs[side])

\* Where the cache is and what it holds, stage by stage.
CacheInv ==
    /\ stage \in Opening \cup {"sessions"} => NothingCached
    /\ stage \in Prefilling => InOwnStorage
    /\ ExportedAlike =>
        /\ stage \in Verifying => InVerifyBuffers
        /\ stage \in {"prefill", "draft", "verify"} => CacheHeld
        /\ stage = "prefill run" => Fed("prefill")
        /\ stage = "verify run" => Fed("verify")
        /\ stage = "prefill read" => pass > 0 /\ OutputsMade("prefill")
        /\ stage = "verify read" => pass > 0 /\ OutputsMade("verify")
        /\ stage \in {"prefill", "draft"} /\ pass > 0 => TapsKept

BindsInv == GraphsInv /\ CacheInv

StayingStages == {"tokens", "text", "summary", "ended"}

LEMMA SessionsRight ==
    ASSUME GraphsInv, ExportedAlike, stage \in Prefilling \cup Verifying
    PROVE  ServesLayers(Served) /\ \A side \in Sides : SessionRight(side, Served)
<1>1. stage \notin {"none", "parse", "prompt", "ended"}  BY DEF Prefilling, Verifying
<1>2. DOMAIN graphs = Sides /\ target \in [prefill : TargetGraph, verify : TargetGraph]
  BY <1>1, ProcessAssumption DEF GraphsInv
<1>3. \A side \in Sides :
         graphs[side] \in TargetGraph /\ binding[side] = BuildTargetTensorBinding(graphs[side])
  BY <1>2 DEF GraphsInv, Sides
<1>4. \A side \in Sides : OfModel(graphs[side]) /\ CacheThenTaps(graphs[side].outputs)
  BY <1>2 DEF ExportedAlike
<1>5. CASE \A side \in DOMAIN graphs : AllNamed(graphs[side])
  <2>1. Served = ByName  BY <1>5 DEF Served
  <2> QED  BY <1>2, <1>3, <1>4, <1>5, <2>1, BindsByName, SlotsServe DEF SessionRight
<1>6. CASE ~\A side \in DOMAIN graphs : AllNamed(graphs[side])
  <2>1. Served = ByPlace  BY <1>6 DEF Served
  <2>2. \A side \in Sides : Unnamed(graphs[side])  BY <1>2, <1>6 DEF ExportedAlike
  <2> QED  BY <1>2, <1>3, <1>4, <2>1, <2>2, BindsByPlace, SlotsServe DEF SessionRight
<1> QED  BY <1>5, <1>6

LEMMA SameGraphs ==
    ASSUME UNCHANGED graphs
    PROVE  (ExportedAlike' <=> ExportedAlike) /\ Served' = Served
BY DEF ExportedAlike, Served

LEMMA BindsInitHolds == ProcessInit => BindsInv
<1> SUFFICES ASSUME ProcessInit PROVE BindsInv
  OBVIOUS
<1>1. stage = "none" /\ DOMAIN graphs = {} /\ DOMAIN binding = {} /\ pass = 0 /\ InOwnStorage
  BY DEF ProcessInit, BindsInit, InOwnStorage
<1>2. NothingCached
  <2> SUFFICES ASSUME NEW s \in Slots, NEW k \in Kinds
               PROVE  pastAt[s][k] \in DOMAIN mem /\ mem[pastAt[s][k]] = Nothing
    BY <1>1 DEF NothingCached
  <2>1. pastAt[s][k] = <<"past", k, s>>  BY <1>1 DEF InOwnStorage, Owned
  <2>2. <<"past", k, s>> \in {"past", "new"} \X Kinds \X Slots  OBVIOUS
  <2>3. mem = [a \in {"past", "new"} \X Kinds \X Slots |-> Nothing]  BY DEF ProcessInit, BindsInit
  <2> QED  BY <2>1, <2>2, <2>3
<1> QED  BY <1>1, <1>2 DEF BindsInv, GraphsInv, CacheInv, Stages, Opening, Prefilling, Verifying

LEMMA BindsGone == ASSUME Gone PROVE BindsInv'
<1>1. stage' = "none" /\ DOMAIN graphs' = {} /\ DOMAIN binding' = {} /\ pass' = 0 /\ InOwnStorage'
  BY DEF Gone, BindsReset, InOwnStorage
<1>2. NothingCached'
  <2> SUFFICES ASSUME NEW s \in Slots, NEW k \in Kinds
               PROVE  pastAt'[s][k] \in DOMAIN mem' /\ mem'[pastAt'[s][k]] = Nothing
    BY <1>1 DEF NothingCached
  <2>1. pastAt'[s][k] = <<"past", k, s>>  BY <1>1 DEF InOwnStorage, Owned
  <2>2. <<"past", k, s>> \in {"past", "new"} \X Kinds \X Slots  OBVIOUS
  <2>3. mem' = [a \in {"past", "new"} \X Kinds \X Slots |-> Nothing]  BY DEF Gone, BindsReset
  <2> QED  BY <2>1, <2>2, <2>3
<1> QED  BY <1>1, <1>2 DEF BindsInv, GraphsInv, CacheInv, Stages, Opening, Prefilling, Verifying

\* Nothing of the graphs changes, and the stage is none that uses them.
LEMMA BindsStay ==
    ASSUME BindsInv, UNCHANGED binds, stage' \in Opening \cup {"sessions"} \cup StayingStages,
           stage' \in Opening \cup {"sessions"} => stage \in Opening \cup {"sessions"},
           stage' \in Opening => stage \in Opening,
           stage' \notin {"none", "parse", "prompt", "ended"} => target' \in Targets,
           stage' = "sessions" => stage \in Opening \/ UNCHANGED target
    PROVE  BindsInv'
<1> USE DEF binds
<1>1. GraphsInv'
  BY DEF BindsInv, GraphsInv, Stages, Opening, Prefilling, Verifying, StayingStages
<1>2. CacheInv'
  <2>1. NothingCached => NothingCached'  BY DEF NothingCached, InOwnStorage
  <2> QED  BY <2>1 DEF BindsInv, CacheInv, Opening, Prefilling, Verifying, StayingStages
<1> QED  BY <1>1, <1>2 DEF BindsInv

LEMMA StartBinds == ASSUME BindsInv, NEW with, Start(with) PROVE BindsInv'
BY BindsStay DEF Start, Opening

LEMMA OpenBinds ==
    ASSUME BindsInv, NEW side \in Sides, OpenTarget(side), stage' = "sessions"
    PROVE  BindsInv'
<1>1. stage = "sessions" /\ SessionInit(side, target[side]) /\ UNCHANGED target
  BY DEF OpenTarget, Return, Throw
<1>2. NothingCached  BY <1>1 DEF BindsInv, CacheInv
<1>3. GraphsInv'
  <2>1. /\ DOMAIN graphs' = DOMAIN graphs \cup {side} /\ DOMAIN binding' = DOMAIN graphs'
        /\ graphs'[side] = target[side]
        /\ binding'[side] = BuildTargetTensorBinding(target[side])
    BY <1>1 DEF SessionInit, With, BindsInv, GraphsInv
  <2>2. \A other \in DOMAIN graphs : other # side =>
           graphs'[other] = graphs[other] /\ other \in DOMAIN graphs'
    BY <1>1 DEF SessionInit, With
  <2>3. \A other \in DOMAIN graphs : other # side => binding'[other] = binding[other]
    BY <1>1 DEF SessionInit, With, BindsInv, GraphsInv
  <2> QED  BY <1>1, <2>1, <2>2, <2>3 DEF BindsInv, GraphsInv, Opening, Prefilling, Verifying, SessionInit
<1>4. NothingCached'
  <2> DEFINE g == target[side]
             W == {<<<<side, "in", i>>, Nothing>> : i \in DOMAIN g.inputs}
                    \cup {<<<<side, "out", i>>, Nothing>> : i \in DOMAIN g.outputs}
  <2>1. mem' = Written(W) /\ UNCHANGED <<pastAt, newAt, pass>>  BY <1>1 DEF SessionInit
  <2>2. ASSUME NEW s \in Slots, NEW k \in Kinds
        PROVE  pastAt[s][k] \in DOMAIN mem' /\ mem'[pastAt[s][k]] = Nothing
    <3>1. pastAt[s][k] = <<"past", k, s>>  BY <1>2 DEF NothingCached, InOwnStorage, Owned
    <3>2. \A w \in W : w[1][1] = side  OBVIOUS
    <3>3. \A w \in W : w[1] # pastAt[s][k]  BY <3>1, <3>2 DEF Sides
    <3>4. pastAt[s][k] \in DOMAIN mem /\ mem[pastAt[s][k]] = Nothing  BY <1>2 DEF NothingCached
    <3> HIDE DEF W
    <3> QED  BY <2>1, <3>3, <3>4, WrittenElsewhere
  <2> QED  BY <1>2, <2>1, <2>2 DEF NothingCached, InOwnStorage
<1> QED  BY <1>3, <1>4 DEF BindsInv, CacheInv, Opening, Prefilling, Verifying

LEMMA ReadsBind ==
    ASSUME BindsInv, Parse \/ ReadPrompt \/ LoadRuntime \/ LoadEmbedding \/ CheckDtype
    PROVE  BindsInv'
<1>1. UNCHANGED binds
  BY DEF Parse, ReadPrompt, LoadRuntime, LoadEmbedding, CheckDtype, Return, Throw
<1>2. /\ stage \in {"parse", "prompt", "load", "embedding", "dtype"}
      /\ stage' \in {"prompt", "load", "embedding", "dtype", "sessions", "ended"}
  BY DEF Parse, ReadPrompt, LoadRuntime, LoadEmbedding, CheckDtype, Return, Throw, Continue
<1>3. stage' \notin {"none", "parse", "prompt", "ended"} => target' \in Targets
  BY <1>2 DEF Parse, ReadPrompt, LoadRuntime, LoadEmbedding, CheckDtype, Return, Throw, Continue,
         BindsInv, GraphsInv
<1> QED  BY <1>1, <1>2, <1>3, BindsStay DEF Opening, StayingStages

LEMMA PrintsBind ==
    ASSUME BindsInv, Decoded \/ PrintTokens \/ PrintText \/ PrintSummary
    PROVE  BindsInv'
<1>1. UNCHANGED <<binds, target>>
  BY DEF Decoded, PrintTokens, PrintText, PrintSummary, Throw
<1>2. stage \in {"draft", "tokens", "text", "summary"} /\ stage' \in StayingStages
  BY DEF Decoded, PrintTokens, PrintText, PrintSummary, Throw, Continue, StayingStages
<1>3. target \in Targets  BY <1>2 DEF BindsInv, GraphsInv
<1> QED  BY <1>1, <1>2, <1>3, BindsStay DEF Opening, StayingStages

LEMMA EndsBind ==
    ASSUME BindsInv, UNCHANGED binds, stage' = "ended"
    PROVE  BindsInv'
BY BindsStay DEF Opening, StayingStages

\* A step between two of these stages that leaves the graphs alone.
LEMMA GraphsStay ==
    ASSUME GraphsInv, UNCHANGED <<graphs, binding, target>>, pass' \in Nat,
           stage \in {"sessions"} \cup Prefilling \cup Verifying, stage' \in Prefilling \cup Verifying,
           DOMAIN graphs = Sides
    PROVE  GraphsInv'
BY DEF GraphsInv, Stages, Opening, Prefilling, Verifying

LEMMA OpenDraftBinds ==
    ASSUME BindsInv, OpenDraft, stage' = "prefill"
    PROVE  BindsInv'
<1>1. stage = "sessions" /\ DOMAIN graphs = Sides /\ UNCHANGED <<binds, target>>
  BY DEF OpenDraft, Return, Throw, Sides
<1>2. NothingCached  BY <1>1 DEF BindsInv, CacheInv
<1>3. GraphsInv'  BY <1>1, GraphsStay DEF BindsInv, GraphsInv, binds, Prefilling
<1>4. CacheHeld' /\ InOwnStorage' /\ pass' = 0
  BY <1>1, <1>2 DEF NothingCached, CacheHeld, CacheHolds, Made, InOwnStorage, binds
<1>5. ~(pass' > 0) /\ stage' = "prefill"  BY <1>4
<1>6. CacheInv'  BY <1>4, <1>5 DEF CacheInv, Opening, Prefilling, Verifying
<1> QED  BY <1>3, <1>6 DEF BindsInv

LEMMA FillBinds ==
    ASSUME BindsInv, PrefillFill \/ VerifyFill
    PROVE  BindsInv'
<1>1. PICK side \in Sides :
         /\ FillInputs(side) /\ UNCHANGED target
         /\ \/ side = "prefill" /\ stage = "prefill" /\ stage' = "prefill run"
            \/ side = "verify" /\ stage = "verify" /\ stage' = "verify run"
  BY DEF PrefillFill, VerifyFill, Continue, Sides
<1>2. UNCHANGED <<graphs, binding, pastAt, newAt, hidden, pass>>  BY <1>1 DEF FillInputs
<1>3. stage \in Prefilling \cup Verifying /\ stage' \in Prefilling \cup Verifying
      /\ DOMAIN graphs = Sides /\ pass \in Nat
  BY <1>1 DEF BindsInv, GraphsInv, Prefilling, Verifying
<1>4. GraphsInv'  BY <1>1, <1>2, <1>3, GraphsStay DEF BindsInv
<1>5. InOwnStorage' = InOwnStorage /\ InVerifyBuffers' = InVerifyBuffers
  BY <1>2 DEF InOwnStorage, InVerifyBuffers
<1>6. ASSUME ExportedAlike PROVE Fed(side)'
  <2>1. PICK at1 : at1 = Served  OBVIOUS
  <2>2. ServesLayers(at1) /\ SessionRight(side, at1)
    BY <1>3, <1>6, <2>1, SessionsRight DEF BindsInv
  <2>3. CacheHolds(at1) /\ (InOwnStorage \/ (InVerifyBuffers /\ side = "verify"))
    BY <1>1, <1>6, <2>1 DEF BindsInv, CacheInv, CacheHeld, Prefilling, Verifying
  <2> QED  BY <1>1, <2>2, <2>3, FillFeeds
<1>7. ExportedAlike' <=> ExportedAlike  BY <1>2, SameGraphs
<1> QED  BY <1>1, <1>4, <1>5, <1>6, <1>7 DEF BindsInv, CacheInv, Opening, Prefilling, Verifying

LEMMA RunBinds ==
    ASSUME BindsInv, PrefillRun \/ VerifyRun, stage' # "ended"
    PROVE  BindsInv'
<1>1. PICK side \in Sides :
         /\ Execute(side) /\ UNCHANGED target
         /\ \/ side = "prefill" /\ stage = "prefill run" /\ stage' = "prefill read"
            \/ side = "verify" /\ stage = "verify run" /\ stage' = "verify read"
  BY DEF PrefillRun, VerifyRun, Continue, Return, Sides
<1>2. stage \in Prefilling \cup Verifying /\ stage' \in Prefilling \cup Verifying
      /\ DOMAIN graphs = Sides /\ pass \in Nat
  BY <1>1 DEF BindsInv, GraphsInv, Prefilling, Verifying
<1>3. /\ OutputsMade(side)' /\ pass' \in Nat \ {0}
      /\ UNCHANGED <<graphs, binding, pastAt, newAt, hidden>>
  BY <1>1, <1>2, ExecuteMakes
<1>4. GraphsInv'  BY <1>1, <1>2, <1>3, GraphsStay DEF BindsInv
<1>5. InOwnStorage' = InOwnStorage /\ InVerifyBuffers' = InVerifyBuffers
  BY <1>3 DEF InOwnStorage, InVerifyBuffers
<1>6. ExportedAlike' <=> ExportedAlike  BY <1>3, SameGraphs
<1>7. pass' > 0  BY <1>3
<1>8. CacheInv'
  <2>1. CASE side = "prefill"
    BY <1>1, <1>3, <1>5, <1>6, <1>7, <2>1 DEF BindsInv, CacheInv, Opening, Prefilling, Verifying
  <2>2. CASE side = "verify"
    BY <1>1, <1>3, <1>5, <1>6, <1>7, <2>2 DEF BindsInv, CacheInv, Opening, Prefilling, Verifying
  <2> QED  BY <2>1, <2>2 DEF Sides
<1> QED  BY <1>4, <1>8 DEF BindsInv

LEMMA ReadBinds ==
    ASSUME BindsInv, PrefillRead \/ VerifyRead
    PROVE  BindsInv'
<1>1. PICK side \in Sides :
         /\ ReadOutputs(side) /\ UNCHANGED target
         /\ \/ side = "prefill" /\ stage = "prefill read" /\ stage' = "prefill"
            \/ side = "verify" /\ stage = "verify read" /\ stage' = "draft"
  BY DEF PrefillRead, VerifyRead, Continue, Sides
<1>2. stage \in Prefilling \cup Verifying /\ stage' \in Prefilling \cup Verifying
      /\ DOMAIN graphs = Sides /\ pass \in Nat
  BY <1>1 DEF BindsInv, GraphsInv, Prefilling, Verifying
<1>3. UNCHANGED <<graphs, binding, pastAt, newAt, pass>>  BY <1>1 DEF ReadOutputs
<1>4. GraphsInv'  BY <1>1, <1>2, <1>3, GraphsStay DEF BindsInv
<1>5. InOwnStorage' = InOwnStorage /\ InVerifyBuffers' = InVerifyBuffers
  BY <1>3 DEF InOwnStorage, InVerifyBuffers
<1>6. (ExportedAlike' <=> ExportedAlike) /\ Served' = Served  BY <1>3, SameGraphs
<1>7. ASSUME ExportedAlike PROVE CacheHeld' /\ TapsKept'
  <2>1. PICK at1 : at1 = Served  OBVIOUS
  <2>2. ServesLayers(at1) /\ SessionRight(side, at1)
    BY <1>2, <1>7, <2>1, SessionsRight DEF BindsInv
  <2>3. /\ OutputsMade(side) /\ pass \in Nat \ {0}
        /\ InOwnStorage \/ (InVerifyBuffers /\ side = "verify")
    <3>1. pass > 0 /\ OutputsMade(side)  BY <1>1, <1>7 DEF BindsInv, CacheInv
    <3>2. InOwnStorage \/ (InVerifyBuffers /\ side = "verify")
      BY <1>1, <1>7 DEF BindsInv, CacheInv, Prefilling, Verifying
    <3> QED  BY <1>2, <3>1, <3>2
  <2>4. CacheHolds(at1)' /\ HiddenFromTaps(side)'
    BY <1>1, <2>2, <2>3, ReadKeepsLayers
  <2>5. CacheHeld'  BY <1>6, <2>1, <2>4 DEF CacheHeld
  <2>6. TapsKept'  BY <1>2, <1>3, <2>4 DEF TapsKept
  <2> QED  BY <2>5, <2>6
<1> QED  BY <1>1, <1>4, <1>5, <1>6, <1>7 DEF BindsInv, CacheInv, Opening, Prefilling, Verifying

LEMMA MoveBinds ==
    ASSUME BindsInv, BindVerify
    PROVE  BindsInv'
<1>1. stage = "prefill" /\ stage' = "draft" /\ Bind /\ UNCHANGED target
  BY DEF BindVerify, Continue
<1>2. stage \in Prefilling \cup Verifying /\ stage' \in Prefilling \cup Verifying
      /\ DOMAIN graphs = Sides /\ pass \in Nat
  BY <1>1 DEF BindsInv, GraphsInv, Prefilling, Verifying
<1>3. UNCHANGED <<graphs, binding, hidden, pass>>  BY <1>1 DEF Bind
<1>4. GraphsInv'  BY <1>1, <1>2, <1>3, GraphsStay DEF BindsInv
<1>5. (ExportedAlike' <=> ExportedAlike) /\ Served' = Served  BY <1>3, SameGraphs
<1>6. ASSUME ExportedAlike PROVE CacheHeld' /\ InVerifyBuffers'
  <2>1. PICK at1 : at1 = Served  OBVIOUS
  <2>2. ServesLayers(at1) /\ SessionRight("verify", at1)
    BY <1>2, <1>6, <2>1, SessionsRight DEF BindsInv, Sides
  <2>3. CacheHolds(at1)  BY <1>1, <1>6, <2>1 DEF BindsInv, CacheInv, CacheHeld
  <2>4. CacheHolds(at1)' /\ InVerifyBuffers'  BY <1>1, <2>2, <2>3, BindMoves
  <2> QED  BY <1>5, <2>1, <2>4 DEF CacheHeld
<1>7. TapsKept' <=> TapsKept  BY <1>3 DEF TapsKept, HiddenFromTaps
<1> QED  BY <1>1, <1>3, <1>4, <1>5, <1>6, <1>7 DEF BindsInv, CacheInv, Opening, Prefilling, Verifying

LEMMA DraftBinds ==
    ASSUME BindsInv, Draft, stage' = "verify"
    PROVE  BindsInv'
<1>1. stage = "draft" /\ UNCHANGED <<binds, target>>
  BY DEF Draft, Return, Throw
<1>2. GraphsInv'
  BY <1>1, GraphsStay DEF BindsInv, GraphsInv, binds, Verifying
<1>3. (ExportedAlike' <=> ExportedAlike) /\ Served' = Served  BY <1>1, SameGraphs DEF binds
<1>4. InVerifyBuffers' = InVerifyBuffers  BY <1>1 DEF InVerifyBuffers, binds
<1>5. CacheHeld' <=> CacheHeld
  BY <1>1, <1>3 DEF CacheHeld, CacheHolds, Made, binds
<1> QED  BY <1>1, <1>2, <1>3, <1>4, <1>5 DEF BindsInv, CacheInv, Opening, Prefilling, Verifying

LEMMA BindsNextKeeps == BindsInv /\ ProcessNext => BindsInv'
<1> SUFFICES ASSUME BindsInv, ProcessNext PROVE BindsInv'
  OBVIOUS
<1>1. ASSUME NEW side \in Sides, OpenTarget(side) PROVE BindsInv'
  <2>1. stage' = "sessions" \/ (stage' = "ended" /\ UNCHANGED binds)
    BY <1>1 DEF OpenTarget, Continue, Return, Throw
  <2> QED  BY <1>1, <2>1, OpenBinds, EndsBind
<1>2. CASE OpenDraft
  <2>1. stage' = "prefill" \/ (stage' = "ended" /\ UNCHANGED binds)
    BY <1>2 DEF OpenDraft, Continue, Return, Throw
  <2> QED  BY <1>2, <2>1, OpenDraftBinds, EndsBind
<1>3. CASE PrefillRun \/ VerifyRun
  <2>1. stage' # "ended" \/ (stage' = "ended" /\ UNCHANGED binds)
    BY <1>3 DEF PrefillRun, VerifyRun, Continue, Return
  <2> QED  BY <1>3, <2>1, RunBinds, EndsBind
<1>4. CASE Draft
  <2>1. stage' = "verify" \/ (stage' = "ended" /\ UNCHANGED binds)
    BY <1>4 DEF Draft, Continue, Return, Throw
  <2> QED  BY <1>4, <2>1, DraftBinds, EndsBind
<1> QED
  BY <1>1, <1>2, <1>3, <1>4, ReadsBind, PrintsBind, FillBinds, ReadBinds, MoveBinds
  DEF ProcessNext, Sides

(***************************************************************************)
(* The draft's tensors.                                                    *)
(***************************************************************************)
UseOf(slot) == Use(slot[1], slot[2], slot[3])

\* A slot's place among the cache tensors, from 0.
CachePlace(slot) == TensorIndex(0, slot)

LEMMA Quotient ==
    ASSUME NEW b \in Nat \ {0}, NEW q \in Nat, NEW r \in 0 .. b - 1
    PROVE  (q * b + r) \div b = q /\ (q * b + r) % b = r
OBVIOUS

LEMMA QuotientBelow ==
    ASSUME NEW b \in Nat \ {0}, NEW n \in Nat, NEW q \in 0 .. n - 1, NEW r \in 0 .. b - 1
    PROVE  q * b + r \in 0 .. n * b - 1
<1>1. PICK d \in Nat \ {0} : n = q + d  BY SMT
<1>2. n * b = q * b + d * b /\ d * b >= b  BY <1>1
<1> QED  BY <1>2

LEMMA QuotientOf ==
    ASSUME NEW b \in Nat \ {0}, NEW n \in Nat, NEW k \in 0 .. n * b - 1
    PROVE  \E q \in 0 .. n - 1, r \in 0 .. b - 1 : k = q * b + r
<1>1. k \in Nat /\ k % b \in 0 .. b - 1 /\ k \div b \in Nat  BY SMT
<1>2. ASSUME NEW q, q = k \div b, NEW r, r = k % b PROVE k = b * q + r
  BY <1>1, <1>2
<1>3. PICK q \in Nat : q = k \div b  BY <1>1
<1>4. PICK r \in 0 .. b - 1 : k = q * b + r  BY <1>1, <1>2, <1>3
<1>5. CASE q >= n
  <2>1. PICK d \in Nat : q = n + d  BY <1>5
  <2>2. q * b = n * b + d * b /\ d * b >= 0  BY <2>1
  <2> QED  BY <1>4, <2>2
<1>6. CASE q < n  BY <1>4, <1>6
<1> QED  BY <1>5, <1>6

LEMMA GeometrySizes ==
    /\ Geometry.num_heads \in Nat \ {0} /\ Geometry.num_layers \in Nat \ {0}
    /\ DraftCacheTensors = Geometry.num_layers * (2 * Geometry.num_heads)
BY GeometryAssumption DEF DraftCacheTensors

LEMMA PlaceOfSlot ==
    ASSUME NEW slot \in DraftSlots
    PROVE  /\ CachePlace(slot) \in 0 .. DraftCacheTensors - 1
           /\ CacheUse(CachePlace(slot)) = UseOf(slot)
           /\ PastInput(slot) = 9 + CachePlace(slot) /\ PresentOutput(slot) = 2 + CachePlace(slot)
<1> DEFINE H == Geometry.num_heads
           N == Geometry.num_layers
           l == slot[2]
           h == slot[3]
           off == IF slot[1] = "key" THEN 0 ELSE H
           k == CachePlace(slot)
<1>0. H \in Nat \ {0} /\ N \in Nat \ {0} /\ DraftCacheTensors = N * (2 * H)  BY GeometrySizes
<1>1. slot[1] \in {"key", "value"} /\ l \in 0 .. N - 1 /\ h \in 0 .. H - 1  BY DEF DraftSlots
<1>2. k = l * H * 2 + off + h /\ PastInput(slot) = 1 + (8 + l * H * 2 + off + h)
      /\ PresentOutput(slot) = 1 + (1 + l * H * 2 + off + h)
  BY <1>0, <1>1 DEF CachePlace, TensorIndex, PastInput, PresentOutput
<1> HIDE DEF k
<1>3. off + h \in 0 .. (2 * H) - 1 /\ 2 * H \in Nat \ {0}
  BY <1>0, <1>1
<1>4. k = l * (2 * H) + (off + h)  BY <1>0, <1>1, <1>2
<1>5. k = (IF slot[1] = "key" THEN 2 * l ELSE 2 * l + 1) * H + h  BY <1>0, <1>1, <1>2
<1> HIDE DEF H, N, l, h, off
<1>6. k \in 0 .. DraftCacheTensors - 1  BY <1>0, <1>1, <1>3, <1>4, QuotientBelow
<1>7. k \div (2 * H) = l /\ k % (2 * H) = off + h
  <2> DEFINE b == 2 * H
             r == off + h
  <2>1. b \in Nat \ {0} /\ r \in 0 .. b - 1 /\ k = l * b + r /\ l \in Nat  BY <1>0, <1>1, <1>3, <1>4
  <2> HIDE DEF b, r
  <2>2. k \div b = l /\ k % b = r  BY <2>1, Quotient
  <2> QED  BY <2>2 DEF b, r
<1>8. k % H = h
  <2>1. PICK q \in Nat : k = q * H + h  BY <1>1, <1>5
  <2> QED  BY <1>0, <1>1, <2>1, Quotient
<1>9. off + h < H <=> slot[1] = "key"  BY <1>0, <1>1 DEF off
<1>10. CacheUse(k) = UseOf(slot)
  <2>1. CacheUse(k) = Use(IF k % (2 * H) < H THEN "key" ELSE "value", k \div (2 * H), k % H)
    BY DEF CacheUse, H
  <2> QED  BY <1>1, <1>7, <1>8, <1>9, <2>1 DEF UseOf, l, h
<1>11. PastInput(slot) = 9 + k /\ PresentOutput(slot) = 2 + k
  <2>1. PICK m \in Int : m = l * H * 2 + off + h  BY <1>0, <1>1 DEF off
  <2> QED  BY <1>0, <1>1, <1>2 DEF off
<1> QED  BY <1>6, <1>10, <1>11 DEF k

LEMMA SlotOfPlace ==
    ASSUME NEW k \in 0 .. DraftCacheTensors - 1
    PROVE  \E slot \in DraftSlots : CachePlace(slot) = k
<1> DEFINE H == Geometry.num_heads
           N == Geometry.num_layers
<1>0. H \in Nat \ {0} /\ N \in Nat \ {0} /\ DraftCacheTensors = N * (2 * H)  BY GeometrySizes
<1>1. PICK l \in 0 .. N - 1, r \in 0 .. (2 * H) - 1 : k = l * (2 * H) + r
  <2>1. 2 * H \in Nat \ {0}  BY <1>0
  <2> HIDE DEF H, N
  <2> QED  BY <1>0, <2>1, QuotientOf
<1>2. CASE r < H
  <2>1. <<"key", l, r>> \in DraftSlots  BY <1>0, <1>2 DEF DraftSlots
  <2>2. CachePlace(<<"key", l, r>>) = l * H * 2 + 0 + r
    BY <1>0 DEF CachePlace, TensorIndex
  <2>3. l * H * 2 + 0 + r = k  BY <1>0, <1>1
  <2> QED  BY <2>1, <2>2, <2>3
<1>3. CASE r >= H
  <2>1. <<"value", l, r - H>> \in DraftSlots  BY <1>0, <1>3 DEF DraftSlots
  <2>2. CachePlace(<<"value", l, r - H>>) = l * H * 2 + H + (r - H)
    BY <1>0 DEF CachePlace, TensorIndex
  <2>3. l * H * 2 + H + (r - H) = k  BY <1>0, <1>1
  <2> QED  BY <2>1, <2>2, <2>3
<1> QED  BY <1>0, <1>2, <1>3

LEMMA SlotsApart ==
    ASSUME NEW slot \in DraftSlots, NEW other \in DraftSlots, PastInput(slot) = PastInput(other)
    PROVE  slot = other
<1>1. CachePlace(slot) = CachePlace(other)  BY PlaceOfSlot
<1>2. UseOf(slot) = UseOf(other)  BY <1>1, PlaceOfSlot
<1> QED  BY <1>2 DEF UseOf, Use, DraftSlots

\* What the slots hold: nothing yet, or each the tensor of its layer and head.
SlotsAgree ==
    \/ \A slot \in DraftSlots : draftSlots[slot] = Lone("none")
    \/ \A slot \in DraftSlots : draftSlots[slot] = UseOf(slot)

LEMMA CacheAwareFeeds ==
    ASSUME draft \in DraftGraph, CacheAware(draft), LaidOut(draft), SlotsAgree, DraftExecute
    PROVE  DraftFedRight' /\ SlotsAgree'
<1> DEFINE n == DraftCacheTensors
<1>1. /\ draftFed' = CacheAwareFill(draft, draftSlots) /\ draft' = draft
      /\ draftSlots' = [s \in DraftSlots |-> draft.outputs[PresentOutput(s)]]
  BY DEF DraftExecute
<1>2. DOMAIN draft.inputs = 1 .. 8 + n /\ n \in Nat
  <2>1. n \in Nat  BY GeometryAssumption DEF DraftCacheTensors
  <2>2. DOMAIN draft.inputs = 1 .. Len(draft.inputs)  BY DEF DraftGraph
  <2> QED  BY <2>1, <2>2 DEF CacheAware
<1>3. ASSUME NEW i \in 1 .. 8
      PROVE  draftFed'[i] = draft.inputs[i].use /\ draft.inputs[i].use.part \notin {"key", "value"}
  <2>1. draftFed'[i] = Lone(CacheAwareParts[i])  BY <1>1, <1>2 DEF CacheAwareFill
  <2>2. draft.inputs[i].use = Lone(CacheAwareParts[i])  BY DEF LaidOut
  <2>3. CacheAwareParts[i] \notin {"key", "value"}  BY DEF CacheAwareParts
  <2> QED  BY <2>1, <2>2, <2>3 DEF Lone, Use
<1>4. ASSUME NEW i \in 9 .. 8 + n
      PROVE  \E slot \in DraftSlots : draftFed'[i] = draftSlots[slot] /\ draft.inputs[i].use = UseOf(slot)
  <2>1. i - 9 \in 0 .. n - 1  BY <1>2
  <2>2. PICK slot \in DraftSlots : CachePlace(slot) = i - 9  BY <2>1, SlotOfPlace
  <2>3. PastInput(slot) = i  BY <1>2, <2>2, PlaceOfSlot
  <2>4. (CHOOSE s \in DraftSlots : PastInput(s) = i) = slot  BY <2>3, SlotsApart
  <2>5. draftFed'[i] = draftSlots[slot]
    <3>1. i \in DOMAIN draft.inputs /\ ~(i <= 8)  BY <1>2
    <3>2. draftFed'[i] = draftSlots[CHOOSE s \in DraftSlots : PastInput(s) = i]
      BY <1>1, <3>1 DEF CacheAwareFill
    <3> QED  BY <2>4, <3>2
  <2>6. draft.inputs[i].use = CacheUse(i - 9)
    <3>1. 9 + (i - 9) = i  BY <1>2
    <3>2. draft.inputs[9 + (i - 9)].use = CacheUse(i - 9)  BY <2>1 DEF LaidOut
    <3> QED  BY <3>1, <3>2
  <2> QED  BY <2>2, <2>5, <2>6, PlaceOfSlot
<1>5. DraftFedRight'
  <2> DEFINE Inputs == {i \in DOMAIN draft.inputs : draft.inputs[i].use.part \in {"key", "value"}}
  <2>1. \A i \in DOMAIN draft.inputs \ Inputs : draftFed'[i] = draft.inputs[i].use
    <3> SUFFICES ASSUME NEW i \in DOMAIN draft.inputs, draft.inputs[i].use.part \notin {"key", "value"}
                 PROVE  draftFed'[i] = draft.inputs[i].use
      OBVIOUS
    <3>1. CASE i \in 1 .. 8  BY <1>3, <3>1
    <3>2. CASE i \in 9 .. 8 + n
      <4>1. PICK slot \in DraftSlots : draft.inputs[i].use = UseOf(slot)  BY <1>4, <3>2
      <4>2. draft.inputs[i].use.part \in {"key", "value"}  BY <4>1 DEF UseOf, Use, DraftSlots
      <4> QED  BY <4>2
    <3> QED  BY <1>2, <3>1, <3>2
  <2>2. Inputs \subseteq 9 .. 8 + n
    <3> SUFFICES ASSUME NEW i \in Inputs PROVE i \in 9 .. 8 + n
      OBVIOUS
    <3>1. i \notin 1 .. 8 /\ i \in 1 .. 8 + n  BY <1>2, <1>3
    <3> QED  BY <1>2, <3>1
  <2>3. \/ \A i \in Inputs : draftFed'[i] = draft.inputs[i].use
        \/ \A i \in Inputs : draftFed'[i] = Lone("none")
    <3> HIDE DEF Inputs
    <3>1. CASE \A slot \in DraftSlots : draftSlots[slot] = Lone("none")  BY <1>4, <2>2, <3>1
    <3>2. CASE \A slot \in DraftSlots : draftSlots[slot] = UseOf(slot)  BY <1>4, <2>2, <3>2
    <3> QED  BY <3>1, <3>2 DEF SlotsAgree
  <2> QED  BY <1>1, <2>1, <2>3 DEF DraftFedRight
<1>6. ASSUME NEW slot \in DraftSlots PROVE draftSlots'[slot] = UseOf(slot)
  <2>1. draftSlots'[slot] = draft.outputs[PresentOutput(slot)]  BY <1>1
  <2>2. draft.outputs[2 + CachePlace(slot)] = CacheUse(CachePlace(slot))  BY PlaceOfSlot DEF LaidOut
  <2> QED  BY <2>1, <2>2, PlaceOfSlot
<1> QED  BY <1>5, <1>6 DEF SlotsAgree

LEMMA StandardFeeds ==
    ASSUME draft \in DraftGraph, ~CacheAware(draft), Supported(draft), DraftExecute
    PROVE  DraftFedRight'
<1> DEFINE inputs == draft.inputs
<1>0. draftFed' = StandardFill(draft) /\ draft' = draft  BY DEF DraftExecute
<1>1. /\ SizesDiffer /\ \A i \in DOMAIN inputs : Sized(inputs[i])
      /\ \A i, j \in DOMAIN inputs : inputs[i].use = inputs[j].use => i = j
  BY DEF Supported
<1>2. ASSUME NEW i \in DOMAIN inputs
      PROVE  /\ inputs[i].use = Lone(Class(inputs[i]))
             /\ Class(inputs[i]) \in {"position", "noise", "target_hidden"}
  <2> DEFINE size == Numel(inputs[i].dims)
  <2>1. Sized(inputs[i])  BY <1>1
  <2>2. CASE inputs[i].use = Lone("position") /\ (inputs[i].int \/ size = AllPositions)
    BY <2>2 DEF Class
  <2>3. CASE /\ inputs[i].use = Lone("noise") /\ ~inputs[i].int
             /\ size = Geometry.block * Geometry.draft_hidden
    BY <1>1, <2>3 DEF Class, SizesDiffer
  <2>4. CASE /\ inputs[i].use = Lone("target_hidden") /\ ~inputs[i].int
             /\ size = Geometry.context_len * Geometry.target_hidden
    BY <1>1, <2>4 DEF Class, SizesDiffer
  <2> QED  BY <2>1, <2>2, <2>3, <2>4 DEF Sized
<1>3. ASSUME NEW i \in DOMAIN inputs PROVE LastOf(ByClass(draft, Class(inputs[i]))) = {i}
  <2>1. ByClass(draft, Class(inputs[i])) = {i}  BY <1>1, <1>2 DEF ByClass
  <2>2. i \in Int  BY DEF DraftGraph
  <2>3. Max({i}) = i  BY <2>2 DEF Max
  <2> QED  BY <2>1, <2>3 DEF LastOf
<1>4. ASSUME NEW i \in DOMAIN inputs, NEW class, class # Class(inputs[i])
      PROVE  i \notin LastOf(ByClass(draft, class))
  <2>1. CASE \E j \in DOMAIN inputs : class = Class(inputs[j])
    BY <1>3, <1>4, <2>1
  <2>2. CASE ~\E j \in DOMAIN inputs : class = Class(inputs[j])
    BY <2>2 DEF ByClass, LastOf
  <2> QED  BY <2>1, <2>2
<1>5. ASSUME NEW i \in DOMAIN inputs PROVE draftFed'[i] = inputs[i].use
  <2>1. \A class : i \in LastOf(ByClass(draft, class)) <=> class = Class(inputs[i])  BY <1>3, <1>4
  <2>2. draftFed'[i] = Lone(Class(inputs[i]))  BY <1>0, <1>2, <2>1 DEF StandardFill
  <2> QED  BY <1>2, <2>2
<1> QED  BY <1>0, <1>5 DEF DraftFedRight

Passes == Prefilling \cup Verifying

DraftInv ==
    /\ stage \in Passes => draft \in Drafts
    /\ stage \in Passes /\ CacheAware(draft) /\ LaidOut(draft) => SlotsAgree
    /\ stage = "verify" /\ Supported(draft) => DraftFedRight

PairedInv == BindsInv /\ DraftInv

LEMMA DraftStays ==
    ASSUME DraftInv, UNCHANGED drafts, stage' \in Passes => stage \in Passes,
           stage' # "verify" \/ stage = "verify"
    PROVE  DraftInv'
BY DEF DraftInv, drafts, SlotsAgree, DraftFedRight

LEMMA DraftNextKeeps == DraftInv /\ ProcessNext => DraftInv'
<1> SUFFICES ASSUME DraftInv, ProcessNext PROVE DraftInv'
  OBVIOUS
<1>1. CASE OpenDraft /\ ~\E graph \in Drafts : DraftInit(graph)
  <2>1. stage' = "ended" /\ UNCHANGED drafts  BY <1>1 DEF OpenDraft, Return, Throw
  <2> QED  BY <2>1, DraftStays DEF Passes, Prefilling, Verifying
<1>2. ASSUME NEW graph \in Drafts, DraftInit(graph), OpenDraft PROVE DraftInv'
  <2>1. stage' \in {"prefill", "ended"}  BY <1>2 DEF OpenDraft, Continue, Return, Throw
  <2>2. draft' \in Drafts /\ SlotsAgree'  BY <1>2 DEF DraftInit, SlotsAgree
  <2> QED  BY <2>1, <2>2 DEF DraftInv
<1>3. CASE Draft /\ stage' = "verify" /\ DraftExecute
  <2>1. draft \in Drafts /\ draft' = draft /\ (CacheAware(draft) /\ LaidOut(draft) => SlotsAgree)
    BY <1>3 DEF DraftInv, Draft, DraftExecute, Passes, Verifying
  <2>2. draft \in DraftGraph  BY <2>1, ProcessAssumption
  <2>3. CASE CacheAware(draft) /\ LaidOut(draft)
    BY <1>3, <2>1, <2>2, <2>3, CacheAwareFeeds DEF DraftInv
  <2>4. CASE ~(CacheAware(draft) /\ LaidOut(draft))
    <3>1. Supported(draft) => DraftFedRight'  BY <1>3, <2>2, <2>4, StandardFeeds DEF Supported
    <3> QED  BY <1>3, <2>1, <2>4, <3>1 DEF DraftInv
  <2> QED  BY <2>3, <2>4
<1>4. CASE Draft /\ ~(stage' = "verify" /\ DraftExecute)
  <2>1. stage' = "ended" /\ UNCHANGED drafts  BY <1>4 DEF Draft, Continue, Return, Throw
  <2> QED  BY <2>1, DraftStays DEF Passes, Prefilling, Verifying
<1>5. CASE Parse \/ ReadPrompt \/ LoadRuntime \/ LoadEmbedding \/ CheckDtype
           \/ \E side \in Sides : OpenTarget(side)
  <2>1. UNCHANGED drafts /\ stage' \in {"prompt", "load", "embedding", "dtype", "sessions", "ended"}
    BY <1>5 DEF Parse, ReadPrompt, LoadRuntime, LoadEmbedding, CheckDtype, OpenTarget,
                Continue, Return, Throw
  <2> QED  BY <2>1, DraftStays DEF Passes, Prefilling, Verifying
<1>6. CASE PrefillFill \/ PrefillRun \/ PrefillRead \/ BindVerify \/ VerifyFill \/ VerifyRun \/ VerifyRead
  <2>1. UNCHANGED drafts /\ stage \in Passes /\ stage' # "verify"
    BY <1>6 DEF PrefillFill, PrefillRun, PrefillRead, BindVerify, VerifyFill, VerifyRun, VerifyRead,
                Continue, Return, Passes, Prefilling, Verifying
  <2> QED  BY <2>1, DraftStays
<1>7. CASE Decoded \/ PrintTokens \/ PrintText \/ PrintSummary
  <2>1. UNCHANGED drafts /\ stage' \in {"tokens", "text", "summary", "ended"}
    BY <1>7 DEF Decoded, PrintTokens, PrintText, PrintSummary, Continue, Throw
  <2> QED  BY <2>1, DraftStays DEF Passes, Prefilling, Verifying
<1> QED  BY <1>1, <1>2, <1>3, <1>4, <1>5, <1>6, <1>7 DEF ProcessNext, Sides

LEMMA BindsSame == BindsInv /\ UNCHANGED process => BindsInv'
<1> SUFFICES ASSUME BindsInv, UNCHANGED process PROVE BindsInv'
  OBVIOUS
<1> USE DEF process, binds
<1>1. GraphsInv'  BY DEF BindsInv, GraphsInv
<1>2. /\ ExportedAlike' = ExportedAlike /\ NothingCached' = NothingCached
      /\ InOwnStorage' = InOwnStorage /\ InVerifyBuffers' = InVerifyBuffers
  BY DEF ExportedAlike, NothingCached, InOwnStorage, InVerifyBuffers
<1>3. CacheHeld' = CacheHeld /\ TapsKept' = TapsKept
  BY DEF CacheHeld, CacheHolds, Served, Made, TapsKept, HiddenFromTaps
<1>4. \A side \in Sides : (Fed(side)' <=> Fed(side)) /\ (OutputsMade(side)' <=> OutputsMade(side))
  BY DEF Fed, Needed, OutputsMade
<1>5. CacheInv'  BY <1>2, <1>3, <1>4 DEF BindsInv, CacheInv, Sides
<1> QED  BY <1>1, <1>5 DEF BindsInv

(***************************************************************************)
(* One dataset.                                                            *)
(***************************************************************************)
Scripts == {"host", "idle", "hand", "loop", "sample", "done"}

Sample == [base : STRING, ext : {"txt", "ids"}]

\* Samples that have ended.
Ended == IF script = "sample" THEN count - 1 ELSE count

Looping == script \in {"loop", "sample"} \/ (script = "done" /\ answer = 0)

ShellInv ==
    /\ script \in Scripts
    /\ stage = "none" <=> script \notin {"hand", "sample"}
    /\ samples \in Seq(Sample) /\ limit \in Nat
    /\ given \in Options /\ (Looping => given.arguments # "help")
    /\ count \in 0 .. Taken /\ answer \in {0, 2}
    /\ ~Looping => count = 0 /\ logs = << >>
    /\ script = "sample" => /\ count >= 1
                            /\ options = [given EXCEPT !.prompt = samples[count].ext]
    /\ script = "done" /\ answer = 0 => count = Taken

\* There is a log of the last sample of every base name so far.
LogsKept ==
    /\ DOMAIN logs = {samples[k].base : k \in 1 .. Ended}
    /\ \A base \in DOMAIN logs :
          /\ logs[base].sample \in 1 .. Ended /\ samples[logs[base].sample].base = base
          /\ \A k \in 1 .. Ended : samples[k].base = base => k <= logs[base].sample
          /\ Tells(logs[base])

DatasetInv == ShellInv /\ LogsKept

DeployInv == PackageInv /\ ProcessInv /\ DatasetInv

LEMMA TakenBounds ==
    ASSUME samples \in Seq(Sample), limit \in Nat
    PROVE  /\ Taken \in Nat /\ Taken <= Len(samples) /\ Len(samples) \in Nat
           /\ \A n \in 0 .. Taken : n < Len(samples) /\ ~Reached(n) <=> n # Taken
BY DEF Taken, Reached

LEMMA DatasetInitHolds == Init => DatasetInv
<1> SUFFICES ASSUME Init PROVE DatasetInv
  OBVIOUS
<1> USE DEF Init
<1>1. samples \in Seq(Sample) /\ Len(samples) = 0 /\ limit = 0 /\ given \in Options
  BY DEF Options, NoOptions
<1>2. ShellInv
  BY <1>1, TakenBounds DEF ShellInv, Scripts, Looping, ProcessInit, Taken
<1>3. LogsKept  BY DEF LogsKept, Ended
<1> QED  BY <1>2, <1>3 DEF DatasetInv

\* The logs stay as they are while no sample ends.
LEMMA LogsStay ==
    ASSUME LogsKept, UNCHANGED <<samples, given, logs>>, Ended' = Ended
    PROVE  LogsKept'
<1>1. \A base \in DOMAIN logs : Tells(logs[base])' <=> Tells(logs[base])  BY DEF Tells
<1> QED  BY <1>1 DEF LogsKept

LEMMA ProcessMoves ==
    ASSUME ProcessInv, ProcessNext
    PROVE  stage # "none" /\ stage' # "none" /\ options' = options
BY DEF ProcessNext, Parse, ReadPrompt, LoadRuntime, LoadEmbedding, CheckDtype, OpenTarget,
       OpenDraft, PrefillFill, PrefillRun, PrefillRead, BindVerify, Draft, VerifyFill, VerifyRun,
       VerifyRead, Decoded, PrintTokens, PrintText, PrintSummary, Continue, Return, Throw

\* What the shell does between the samples of a dataset.
LEMMA ShellKeeps ==
    ASSUME DeployInv,
           \/ OnHost \/ HandEnd \/ Running \/ DatasetEnd \/ UNCHANGED vars
           \/ \E m \in DOMAIN Models, more \in {{}, HandFiles} : Push(m, more)
           \/ \E with \in HandOptions : RunByHand(with)
    PROVE  DatasetInv'
<1>0. ShellInv /\ LogsKept  BY DEF DeployInv, DatasetInv
<1>1. Taken \in Nat /\ Taken <= Len(samples)
  BY <1>0, TakenBounds DEF ShellInv
<1>2. CASE OnHost \/ UNCHANGED vars
  <2>1. UNCHANGED <<dataset, stage, options>>  BY <1>2 DEF OnHost, vars, process
  <2>2. ShellInv'  BY <1>0, <2>1 DEF ShellInv, dataset, Looping, Taken
  <2> QED  BY <1>0, <2>1, <2>2, LogsStay DEF DatasetInv, dataset, Ended
<1>3. CASE Running
  <2>1. UNCHANGED <<dataset, options>> /\ stage # "none" /\ stage' # "none"
    BY <1>3, ProcessMoves DEF Running, DeployInv
  <2>2. ShellInv'  BY <1>0, <2>1 DEF ShellInv, dataset, Looping, Taken
  <2> QED  BY <1>0, <2>1, <2>2, LogsStay DEF DatasetInv, dataset, Ended
<1>4. CASE HandEnd
  <2>1. ShellInv'  BY <1>0, <1>4 DEF ShellInv, Scripts, Looping, Taken, HandEnd, Gone
  <2> QED  BY <1>0, <1>4, <2>1, LogsStay DEF DatasetInv, HandEnd, Ended
<1>5. ASSUME NEW m \in DOMAIN Models, NEW more \in {{}, HandFiles}, Push(m, more)
      PROVE  DatasetInv'
  <2>1. ShellInv'
    BY <1>0, <1>5 DEF ShellInv, Scripts, Looping, Taken, Push, process
  <2> QED  BY <1>0, <1>5, <2>1, LogsStay DEF DatasetInv, Push, Ended
<1>6. ASSUME NEW with \in HandOptions, RunByHand(with) PROVE DatasetInv'
  <2>1. ShellInv'
    BY <1>0, <1>6 DEF ShellInv, Scripts, Looping, Taken, RunByHand, Start
  <2> QED  BY <1>0, <1>6, <2>1, LogsStay DEF DatasetInv, RunByHand, Ended
<1>7. CASE DatasetEnd
  <2>1. count = Taken  BY <1>0, <1>7, TakenBounds DEF DatasetEnd, ShellInv, More
  <2>2. ShellInv'
    BY <1>0, <1>7, <2>1 DEF ShellInv, Scripts, Looping, Taken, DatasetEnd, process
  <2> QED  BY <1>0, <1>7, <2>2, LogsStay DEF DatasetInv, DatasetEnd, Ended
<1> QED  BY <1>2, <1>3, <1>4, <1>5, <1>6, <1>7

LEMMA FoundSamples ==
    ASSUME NEW prompt \in Datasets
    PROVE  Found(prompt) \in Seq(Sample)
<1> DEFINE ext == IF prompt.txt # << >> THEN "txt" ELSE "ids"
<1>1. prompt[ext] \in Seq(STRING)  BY DeployAssumption
<1>2. \A k \in DOMAIN prompt[ext] : [base |-> prompt[ext][k], ext |-> ext] \in Sample
  BY <1>1 DEF Sample
<1>3. DOMAIN prompt[ext] = 1 .. Len(prompt[ext]) /\ Len(prompt[ext]) \in Nat  BY <1>1
<1>4. Found(prompt) = [k \in DOMAIN prompt[ext] |-> [base |-> prompt[ext][k], ext |-> ext]]
  BY DEF Found
<1> HIDE DEF ext
<1> QED  BY <1>2, <1>3, <1>4

LEMMA StartOfDataset ==
    ASSUME DatasetInv, NEW prompt \in Datasets, NEW most \in Limits, NEW environment \in Environments,
           DatasetStart(prompt, most, environment)
    PROVE  DatasetInv'
<1>0. ShellInv /\ LogsKept /\ count = 0 /\ logs = << >> /\ script = "idle"
  BY DEF DatasetInv, ShellInv, DatasetStart, Looping
<1>1. LogsKept'
  BY <1>0 DEF LogsKept, Ended, DatasetStart
<1>2. CASE script' = "loop"
  <2>1. samples' \in Seq(Sample) /\ limit' \in Nat /\ given' \in Options /\ given'.arguments # "help"
    BY <1>2, FoundSamples, DeployAssumption DEF DatasetStart
  <2>2. 0 <= Taken'
    BY <2>1 DEF Taken
  <2> QED  BY <1>0, <1>1, <1>2, <2>1, <2>2 
    DEF DatasetInv, ShellInv, Scripts, Looping, DatasetStart, process, Taken
<1>3. CASE script' # "loop"
  <2>1. script' = "done" /\ answer' = 2 /\ UNCHANGED <<process, samples, limit, given, count, logs>>
    BY <1>3 DEF DatasetStart
  <2>2. ShellInv'  BY <1>0, <2>1 DEF ShellInv, Scripts, Looping, process, Taken
  <2> QED  BY <1>1, <2>2 DEF DatasetInv
<1> QED  BY <1>2, <1>3

LEMMA SampleGiven ==
    ASSUME ShellInv, NEW k \in 1 .. Len(samples)
    PROVE  /\ [given EXCEPT !.prompt = samples[k].ext] \in Options
           /\ samples[k] \in Sample
<1>1. samples[k] \in Sample  BY DEF ShellInv
<1>2. samples[k].ext \in {"txt", "ids"}  BY <1>1 DEF Sample
<1>3. given \in Options  BY DEF ShellInv
<1>4. [given EXCEPT !.prompt = samples[k].ext] \in Options  BY <1>2, <1>3 DEF Options
<1> QED  BY <1>1, <1>4

LEMMA StartOfSample ==
    ASSUME DatasetInv, SampleStart
    PROVE  DatasetInv'
<1>0. ShellInv /\ LogsKept  BY DEF DatasetInv
<1>1. count + 1 \in 0 .. Taken
  BY <1>0, TakenBounds DEF ShellInv, SampleStart, More
<1>2. ShellInv'
  BY <1>0, <1>1 DEF ShellInv, Scripts, Looping, Taken, SampleStart, Start
<1>3. Ended' = Ended  BY <1>0 DEF Ended, SampleStart, ShellInv
<1> QED  BY <1>0, <1>2, <1>3, LogsStay DEF DatasetInv, SampleStart

\* The log of the sample that has ended replaces an earlier one of its name.
LEMMA LogTaken ==
    ASSUME LogsKept, NEW k0 \in 1 .. Len(samples), Len(samples) \in Nat,
           Ended = k0 - 1, Ended' = k0, UNCHANGED <<samples, given>>,
           NEW log, log.sample = k0, Tells(log), logs' = With(logs, samples[k0].base, log)
    PROVE  LogsKept'
<1> DEFINE base == samples[k0].base
<1>1. \A k \in 1 .. k0 : k \in 1 .. k0 - 1 \/ k = k0  OBVIOUS
<1>2. DOMAIN logs' = {samples[k].base : k \in 1 .. k0}
  <2>1. DOMAIN logs' = {samples[k].base : k \in 1 .. k0 - 1} \cup {base}
    BY DEF With, LogsKept
  <2>2. k0 \in 1 .. k0 /\ 1 .. k0 - 1 \subseteq 1 .. k0  OBVIOUS
  <2> QED  BY <1>1, <2>1, <2>2
<1>3. ASSUME NEW b \in DOMAIN logs'
      PROVE  /\ logs'[b].sample \in 1 .. k0 /\ samples[logs'[b].sample].base = b
             /\ \A k \in 1 .. k0 : samples[k].base = b => k <= logs'[b].sample
             /\ Tells(logs'[b])
  <2>1. CASE b = base
    <3>1. logs'[b] = log  BY <2>1 DEF With
    <3> QED  BY <2>1, <3>1
  <2>2. CASE b # base
    <3>1. b \in DOMAIN logs /\ logs'[b] = logs[b]  BY <2>2 DEF With
    <3>2. /\ logs[b].sample \in 1 .. k0 - 1 /\ samples[logs[b].sample].base = b
          /\ \A k \in 1 .. k0 - 1 : samples[k].base = b => k <= logs[b].sample
          /\ Tells(logs[b])
      BY <3>1 DEF LogsKept
    <3>3. logs[b].sample \in 1 .. k0  BY <3>2
    <3>4. \A k \in 1 .. k0 : samples[k].base = b => k <= logs[b].sample  BY <1>1, <2>2, <3>2
    <3> QED  BY <3>1, <3>2, <3>3, <3>4
  <2> QED  BY <2>1, <2>2
<1>4. \A b \in DOMAIN logs' : Tells(logs[b])' <=> Tells(logs'[b])  BY DEF Tells
<1> QED  BY <1>2, <1>3, <1>4 DEF LogsKept

LEMMA EndOfSample ==
    ASSUME DatasetInv, ProcessInv, SampleEnd
    PROVE  DatasetInv'
<1> DEFINE log == [sample |-> count, lines |-> printed, status |-> status]
<1>0. ShellInv /\ LogsKept /\ script = "sample" /\ count \in 1 .. Len(samples)
      /\ Len(samples) \in Nat
  BY TakenBounds DEF DatasetInv, ShellInv, SampleEnd
<1>1. /\ UNCHANGED <<samples, limit, given, count, answer>>
      /\ script' = "loop" /\ stage = "ended" /\ stage' = "none"
      /\ logs' = With(logs, samples[count].base, log)
  BY DEF SampleEnd, Gone
<1>2. ShellInv'  BY <1>0, <1>1 DEF ShellInv, Scripts, Looping, Taken
<1>3. Tells(log)
  <2>1. EndTold /\ options = [given EXCEPT !.prompt = samples[count].ext]
        /\ given \in Options /\ given.arguments # "help" /\ samples[count] \in Sample
    BY <1>0, <1>1, SampleGiven DEF ProcessInv, ShellInv, Looping
  <2>2. options.arguments = given.arguments /\ options.text = given.text
        /\ options.prompt = samples[count].ext
    BY <2>1 DEF Options
  <2>3. status # 127 /\ "not found" \notin printed
    <3>1. status \in {0, 1, 2} /\ printed \subseteq {"tokenized", "loaded", "tokens", "text", "summary", "fatal"}
      BY DEF ProcessInv, ProcessTypeOK
    <3>2. status # 127  BY <3>1
    <3>3. "not found" \notin printed  BY <3>1
    <3> QED  BY <3>2, <3>3
  <2>4. /\ status = 0 <=> "summary" \in printed
        /\ status = 2 <=> "fatal" \in printed
        /\ status = 0 /\ PrintsText => "text" \in printed
        /\ status # 0 /\ "tokens" \in printed => PrintsText /\ "fatal" \in printed
    BY <2>1, <2>2 DEF EndTold
  <2>5. PrintsText <=> samples[count].ext = "txt" /\ given.text  BY <2>2 DEF PrintsText
  <2>6. log.sample = count /\ log.lines = printed /\ log.status = status  OBVIOUS
  <2> HIDE DEF log
  <2> QED  BY <2>3, <2>4, <2>5, <2>6 DEF Tells
<1>4. Ended = count - 1 /\ Ended' = count  BY <1>0, <1>1 DEF Ended
<1>5. log.sample = count  OBVIOUS
<1> HIDE DEF log
<1>6. LogsKept'  BY <1>0, <1>1, <1>3, <1>4, <1>5, LogTaken
<1> QED  BY <1>2, <1>6 DEF DatasetInv

\* A sample that cannot be started has its log at once.
LEMMA LossOfSample ==
    ASSUME DatasetInv, SampleLost
    PROVE  DatasetInv'
<1> DEFINE k0  == count + 1
           log == [sample |-> k0, lines |-> {"not found"}, status |-> 127]
<1>0. ShellInv /\ LogsKept /\ script = "loop"  BY DEF DatasetInv, SampleLost
<1>1. /\ count + 1 \in 0 .. Taken /\ count + 1 \in 1 .. Len(samples)
      /\ Len(samples) \in Nat /\ count \in Nat
  <2>1. /\ Taken \in Nat /\ Taken <= Len(samples) /\ Len(samples) \in Nat
        /\ \A n \in 0 .. Taken : n < Len(samples) /\ ~Reached(n) <=> n # Taken
    BY <1>0, TakenBounds DEF ShellInv
  <2>2. count \in 0 .. Taken /\ count < Len(samples) /\ ~Reached(count)
    BY <1>0 DEF ShellInv, SampleLost, More
  <2>3. count # Taken  BY <2>1, <2>2
  <2> QED  BY <2>1, <2>2, <2>3
<1>2. /\ UNCHANGED <<process, script, samples, limit, given, answer>>
      /\ count' = count + 1 /\ logs' = With(logs, samples[count + 1].base, log)
  BY DEF SampleLost
<1>3. ShellInv'  BY <1>0, <1>1, <1>2 DEF ShellInv, Scripts, Looping, Taken, process
<1>4. Tells(log)
  <2>1. log.lines = {"not found"} /\ log.status = 127  OBVIOUS
  <2>2. log.status # 0 /\ log.status # 2  BY <2>1
  <2>3. /\ "not found" \in log.lines
        /\ "summary" \notin log.lines /\ "fatal" \notin log.lines /\ "tokens" \notin log.lines
    BY <2>1
  <2>4. log.status = 127  BY <2>1
  <2> HIDE DEF log
  <2> QED  BY <2>2, <2>3, <2>4 DEF Tells
<1>5. Ended = (count + 1) - 1 /\ Ended' = count + 1
  <2>1. script = "loop" /\ script' = "loop" /\ count' = count + 1  BY <1>0, <1>2
  <2>2. Ended = count /\ Ended' = count'  BY <2>1 DEF Ended
  <2>3. count = (count + 1) - 1  BY <1>1
  <2> QED  BY <2>1, <2>2, <2>3
<1> HIDE DEF k0
<1>6. log.sample = k0  OBVIOUS
<1> HIDE DEF log
<1>7. /\ k0 \in 1 .. Len(samples) /\ Len(samples) \in Nat
      /\ Ended = k0 - 1 /\ Ended' = k0 /\ logs' = With(logs, samples[k0].base, log)
  BY <1>1, <1>2, <1>5 DEF k0
<1>8. LogsKept'  BY <1>0, <1>2, <1>4, <1>6, <1>7, LogTaken
<1> QED  BY <1>3, <1>8 DEF DatasetInv

LEMMA DeployInit == Init => DeployInv
BY PackageInitHolds, ProcessInitHolds, DatasetInitHolds DEF Init, DeployInv

LEMMA ProcessSame == ProcessInv /\ UNCHANGED process => ProcessInv'
BY DEF process, binds, ProcessInv, ProcessTypeOK, Unprinted, EndTold, PrintsText

LEMMA PackageSame == PackageInv /\ UNCHANGED package => PackageInv'
BY DEF package, PackageInv, PackageTypeOK, OfOneRun, Complete, OfThisRun, UnderWay, Files

LEMMA DeployNext == DeployInv /\ [Next]_vars => DeployInv'
<1> SUFFICES ASSUME DeployInv, [Next]_vars PROVE DeployInv'
  OBVIOUS
<1> USE DEF DeployInv
<1>1. PackageInv'
  <2>1. CASE OnHost  BY <2>1, PackageNextKeeps DEF OnHost
  <2>2. ASSUME NEW m, NEW more, Push(m, more) PROVE PackageInv'  BY <2>2, PushedInv DEF Push
  <2>3. CASE UNCHANGED package  BY <2>3, PackageSame
  <2> QED
    BY <2>1, <2>2, <2>3 DEF Next, vars, RunByHand, HandEnd, Running, DatasetStart, SampleStart,
                            SampleLost, SampleEnd, DatasetEnd, Terminating
<1>2. ProcessInv'
  <2>1. CASE Running  BY <2>1, ProcessNextKeeps DEF Running
  <2>2. ASSUME NEW with \in HandOptions, RunByHand(with) PROVE ProcessInv'
    BY <2>2, StartKeeps, DeployAssumption DEF RunByHand
  <2>3. CASE SampleStart
    <3>1. count + 1 \in 1 .. Len(samples)
      BY <2>3, TakenBounds DEF DatasetInv, ShellInv, SampleStart, More
    <3> QED  BY <2>3, <3>1, SampleGiven, StartKeeps DEF SampleStart, DatasetInv
  <2>4. CASE HandEnd \/ SampleEnd  BY <2>4, GoneKeeps DEF HandEnd, SampleEnd
  <2>5. CASE UNCHANGED process  BY <2>5, ProcessSame
  <2> QED
    BY <2>1, <2>2, <2>3, <2>4, <2>5 DEF Next, vars, OnHost, Push, DatasetStart, SampleLost,
                                        DatasetEnd, Terminating
<1>3. DatasetInv'
  BY ShellKeeps, StartOfDataset, StartOfSample, LossOfSample, EndOfSample DEF Next, Terminating
<1> QED  BY <1>1, <1>2, <1>3

LEMMA DeployInvariant == Spec => []DeployInv
BY DeployInit, DeployNext, PTL DEF Spec

LEMMA PairedInit == Init => PairedInv
<1> SUFFICES ASSUME Init PROVE PairedInv
  OBVIOUS
<1>1. BindsInv /\ stage = "none"  BY BindsInitHolds DEF Init, ProcessInit
<1> QED  BY <1>1 DEF PairedInv, DraftInv, Passes, Prefilling, Verifying

LEMMA PairedNext == PairedInv /\ [Next]_vars => PairedInv'
<1> SUFFICES ASSUME PairedInv, [Next]_vars PROVE PairedInv'
  OBVIOUS
<1> USE DEF PairedInv
<1>1. CASE Running  BY <1>1, BindsNextKeeps, DraftNextKeeps DEF Running
<1>2. CASE HandEnd \/ SampleEnd
  <2>1. Gone /\ stage' = "none"  BY <1>2 DEF HandEnd, SampleEnd, Gone
  <2> QED  BY <2>1, BindsGone DEF DraftInv, Passes, Prefilling, Verifying
<1>3. ASSUME NEW with, Start(with) PROVE PairedInv'
  <2>1. UNCHANGED drafts /\ stage' = "parse"  BY <1>3 DEF Start
  <2> QED  BY <1>3, <2>1, StartBinds, DraftStays DEF Passes, Prefilling, Verifying
<1>4. CASE UNCHANGED process
  <2>1. UNCHANGED <<drafts, stage>>  BY <1>4 DEF process
  <2> QED  BY <1>4, <2>1, BindsSame, DraftStays
<1> QED
  BY <1>1, <1>2, <1>3, <1>4
  DEF Next, vars, OnHost, Push, RunByHand, DatasetStart, SampleStart, SampleLost, DatasetEnd, Terminating
-----------------------------------------------------------------------------
\* Process, shell and packaging keep their types: the shell waits while a
\* process runs, no more samples are taken than there are, and there is no
\* log of a sample that was not started.
THEOREM DeployTyped == Spec => []TypeOK
<1>1. DeployInv => TypeOK
  <2> SUFFICES ASSUME DeployInv PROVE TypeOK
    OBVIOUS
  <2> USE DEF DeployInv, DatasetInv
  <2>1. count \in 0 .. Len(samples)  BY TakenBounds DEF ShellInv
  <2>2. at[1] \in 1 .. Len(Models) + 1 /\ at[2] \in DOMAIN Steps
    BY StepsInOrder DEF PackageInv, PackageTypeOK, Last
  <2>3. 1 .. Ended \subseteq 1 .. count  BY <2>1 DEF Ended
  <2>4. DOMAIN logs \subseteq {samples[k].base : k \in 1 .. count}  BY <2>3 DEF LogsKept
  <2> QED  BY <2>1, <2>2, <2>4 DEF TypeOK, ProcessInv, ShellInv, Scripts
<1> QED  BY <1>1, DeployInvariant, PTL

\* However often the script is run and wherever it is interrupted, between two
\* files of a copy or of a removal, a folder holds files of one run, and with
\* run_dataset.sh all of them unless a run has begun to remove it; what a
\* successful run leaves is complete and of that run alone.
THEOREM PackagesAlwaysWhole == Spec => []PackagesWhole
<1>1. PackageInv => PackagesWhole
  <2> SUFFICES ASSUME PackageInv PROVE PackagesWhole
    OBVIOUS
  <2> USE DEF PackageInv
  <2>1. ASSUME NEW m \in DOMAIN Models PROVE Cardinality(Ages(m)) <= 1
    <3>1. CASE Ages(m) = {}  BY <3>1, FS_EmptySet
    <3>2. CASE Ages(m) # {}
      <4>1. PICK c \in deploy[m] : TRUE  BY <3>2 DEF Ages
      <4>2. Ages(m) = {c.of}  BY <2>1, <4>1 DEF OfOneRun, Ages
      <4>3. Cardinality({c.of}) = 1  BY FS_Singleton
      <4> QED  BY <4>2, <4>3
    <3> QED  BY <3>1, <3>2
  <2>2. \A m \in DOMAIN Models :
            "run_dataset.sh" \in Files(m) /\ m \notin torn => Required \subseteq Files(m)
    BY DEF Complete
  <2>3. \A m, n \in DOMAIN Models : m < n => \A a \in Ages(m), b \in Ages(n) : a >= b
    BY DEF Ages
  <2>4. ASSUME exit = "done", run > 0, NEW m \in DOMAIN Models
        PROVE  "run_dataset.sh" \in Files(m) /\ Ages(m) = {run}
    <3>1. Complete(m) /\ OfThisRun(m)  BY <2>4
    <3>2. PICK c \in deploy[m] : c.file = "run_dataset.sh"  BY <3>1 DEF Complete, Files
    <3> QED  BY <3>1, <3>2 DEF Complete, OfThisRun, Ages
  <2>5. exit = "done" /\ run > 0 => torn = {}  BY DEF PackageTypeOK
  <2> QED  BY <2>1, <2>2, <2>3, <2>4, <2>5 DEF PackagesWhole
<1>2. DeployInv => PackagesWhole  BY <1>1 DEF DeployInv
<1> QED  BY <1>2, DeployInvariant, PTL

\* run_dataset.sh answers with success whatever happened to its samples, but
\* when it has, there is a log for every base name it took, of the last
\* sample of that name, and its lines tell how the process ended.
THEOREM LogsAlwaysTell == Spec => []LogsTellOutcome
<1>1. DatasetInv => LogsTellOutcome
  <2> SUFFICES ASSUME DatasetInv, script = "done", answer = 0 PROVE LogsTellOutcome
    BY DEF LogsTellOutcome
  <2>1. count = Taken /\ Ended = Taken  BY DEF DatasetInv, ShellInv, Ended
  <2> QED  BY <2>1 DEF DatasetInv, LogsKept, LogsTellOutcome
<1>2. DeployInv => LogsTellOutcome  BY <1>1 DEF DeployInv
<1> QED  BY <1>2, DeployInvariant, PTL

\* Whatever the target's graphs, alike in their names and of the model, every
\* cache input of a layer is fed with what that layer made in the pass
\* before, through prefill, verify and the change of storage between them,
\* the history gets the taps alone, and every input of a draft graph gets
\* what it is for.
THEOREM LayersAlwaysPaired == Spec => []LayersPaired
<1>1. PairedInv => LayersPaired
  <2> SUFFICES ASSUME PairedInv PROVE LayersPaired
    OBVIOUS
  <2>1. ASSUME ExportedAlike
        PROVE  /\ stage = "prefill run" => Fed("prefill")
               /\ stage = "verify run" => Fed("verify")
               /\ stage \in {"prefill", "draft"} /\ pass > 0 => TapsKept
    BY <2>1 DEF PairedInv, BindsInv, CacheInv
  <2> QED  BY <2>1 DEF PairedInv, DraftInv, LayersPaired, TapsKept
<1>2. Spec => []PairedInv  BY PairedInit, PairedNext, PTL DEF Spec
<1> QED  BY <1>1, <1>2, PTL
=============================================================================
