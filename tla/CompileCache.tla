------------------------------ MODULE CompileCache ------------------------------
(***************************************************************************)
(* Compilation and execution of kernels over a directory of files that all *)
(* processes share (PyTorchSimFrontend/extension_codecache.py): a directory *)
(* per source text, a file lock in it, the validation binary, the tile     *)
(* graph (TOG), a directory for each run and the logs of standalone runs.  *)
(*                                                                         *)
(* A call is one kernel that a process compiles and runs.  A file that is  *)
(* written in place goes through "partial".  The lock is one of the        *)
(* operating system: it is free when the process that holds it dies.       *)
(***************************************************************************)
EXTENDS Naturals, FiniteSets

CONSTANTS
  Call,        \* the kernel calls of all processes
  Source,      \* texts of kernels, up to their hash
  SourceOf,    \* [Call -> Source]
  Autotune,    \* the calls made to measure a candidate: always standalone
  Attached,    \* the calls made under a TOGSimulator
  Overflows,   \* the sources that need more scratchpad than there is
  Functional,  \* the calls of processes in pytorchsim_functional_mode
  Timing,      \* the calls of processes in pytorchsim_timing_mode
  None,
  MaxCrashes   \* bound on the processes that die

ASSUME CacheAssumption ==
  /\ SourceOf \in [Call -> Source] /\ Autotune \subseteq Call /\ Attached \subseteq Call
  /\ Functional \subseteq Call /\ Timing \subseteq Call /\ Overflows \subseteq Source /\ MaxCrashes \in Nat
  /\ None \notin Call \cup Nat \cup {"none", "partial", "whole"}

VARIABLES
  pc,        \* [Call -> what the call does next]
  lock,      \* [Source -> Call or None], .compile.lock
  binary,    \* [Source -> {"none", "partial", "whole"}], the validation binary
  tog,       \* [Source -> {"none", "partial", "whole"}], tile_graph.onnx
  log,       \* [Source -> {"none", "partial", "whole"}], the newest log of the candidates
  runtimes,  \* [Source -> SUBSET Nat], the runtime_nnnn directories
  mine,      \* [Call -> index of its runtime directory, or None]
  saw,       \* [Call -> the state of the tile graph its simulator read, or None]
  result,    \* [Call -> {"none", "launched", "cycles", "inf", "raised"}]
  crashes
fileVars == <<binary, tog, log, runtimes>>
vars == <<pc, lock, fileVars, mine, saw, result, crashes>>

Init ==
  /\ pc = [c \in Call |-> "headers"] /\ lock = [s \in Source |-> None]
  /\ binary = [s \in Source |-> "none"] /\ tog = [s \in Source |-> "none"]
  /\ log = [s \in Source |-> "none"] /\ runtimes = [s \in Source |-> {}]
  /\ mine = [c \in Call |-> None] /\ saw = [c \in Call |-> None]
  /\ result = [c \in Call |-> "none"] /\ crashes = 0

At(c, where) == pc[c] = where
Go(c, where) == pc' = [pc EXCEPT ![c] = where]
Acquire(c) == lock[SourceOf[c]] = None /\ lock' = [lock EXCEPT ![SourceOf[c]] = c]
Release(c) == lock' = [lock EXCEPT ![SourceOf[c]] = None]
Ends(c, with) == Go(c, "end") /\ result' = [result EXCEPT ![c] = with]
Set(file, c, state) == file' = [file EXCEPT ![SourceOf[c]] = state]

-------------------------------------------------------------------------------
(* Preparation: the headers are written atomically; a candidate with a log is not run again. *)
Compile(c) == IF c \in Functional THEN "validation" ELSE "exists"
WriteHeaders(c) ==
  /\ At(c, "headers") /\ lock[SourceOf[c]] = None
  /\ Go(c, IF c \in Autotune THEN "cached" ELSE Compile(c))
  /\ UNCHANGED <<lock, fileVars, mine, saw, result, crashes>>
CachedResult(c) ==
  /\ At(c, "cached")
  /\ IF log[SourceOf[c]] = "none" THEN Go(c, Compile(c)) /\ UNCHANGED result
     ELSE Ends(c, IF log[SourceOf[c]] = "whole" THEN "cycles" ELSE "inf")
  /\ UNCHANGED <<lock, fileVars, mine, saw, crashes>>

(* MLIRCodeCache.load *)
BuildValidation(c) ==
  /\ At(c, "validation") /\ Acquire(c) /\ Go(c, "validating") /\ Set(binary, c, "partial")
  /\ UNCHANGED <<tog, log, runtimes, mine, saw, result, crashes>>
CheckScratchpad(c) ==
  /\ At(c, "validating") /\ Release(c) /\ Set(binary, c, "whole")
  /\ IF SourceOf[c] \in Overflows THEN Ends(c, "raised") ELSE Go(c, "exists") /\ UNCHANGED result
  /\ UNCHANGED <<tog, log, runtimes, mine, saw, crashes>>
FaultyTogExists(c) ==      \* waits for the call that is writing it
  /\ At(c, "exists") /\ tog[SourceOf[c]] # "partial"
  /\ Go(c, IF tog[SourceOf[c]] = "none" THEN "gem5" ELSE "run")
  /\ UNCHANGED <<lock, fileVars, mine, saw, result, crashes>>
TogExists(c) ==      \* tested without the lock, and not again with it
  /\ At(c, "exists") /\ Go(c, IF tog[SourceOf[c]] = "none" THEN "gem5" ELSE "run")
  /\ UNCHANGED <<lock, fileVars, mine, saw, result, crashes>>
RunGem5(c) ==
  /\ At(c, "gem5") /\ Acquire(c) /\ Go(c, IF c \in Timing THEN "generate" ELSE "compiled")
  /\ UNCHANGED <<fileVars, mine, saw, result, crashes>>
GenerateTog(c) ==
  /\ At(c, "generate") /\ Go(c, "compiled") /\ Set(tog, c, "partial")
  /\ UNCHANGED <<lock, binary, log, runtimes, mine, saw, result, crashes>>
FaultyCompiled(c) ==    \* gives the lock back before the file is written
  /\ At(c, "compiled")
  /\ \/ lock[SourceOf[c]] = c /\ Release(c) /\ UNCHANGED <<pc, tog>>
     \/ /\ lock[SourceOf[c]] # c /\ Go(c, "run") /\ UNCHANGED lock
        /\ IF c \in Timing THEN Set(tog, c, "whole") ELSE UNCHANGED tog
  /\ UNCHANGED <<binary, log, runtimes, mine, saw, result, crashes>>
Compiled(c) ==
  /\ At(c, "compiled") /\ Release(c) /\ Go(c, "run")
  /\ IF c \in Timing THEN Set(tog, c, "whole") ELSE UNCHANGED tog
  /\ UNCHANGED <<binary, log, runtimes, mine, saw, result, crashes>>

(* run_kernel_simulation *)
NextIndex(s) == IF runtimes[s] = {} THEN 0 ELSE 1 + CHOOSE i \in runtimes[s] : \A j \in runtimes[s] : j <= i
StartRun(c) ==
  /\ At(c, "run") /\ Acquire(c) /\ Go(c, "mkdir")
  /\ mine' = [mine EXCEPT ![c] = NextIndex(SourceOf[c])]
  /\ UNCHANGED <<fileVars, saw, result, crashes>>
MakeRuntime(c) ==    \* makedirs raises an exception when the directory exists
  /\ At(c, "mkdir")
  /\ IF mine[c] \in runtimes[SourceOf[c]] THEN Ends(c, "raised") /\ Release(c) /\ UNCHANGED runtimes
     ELSE /\ runtimes' = [runtimes EXCEPT ![SourceOf[c]] = @ \cup {mine[c]}]
          /\ Go(c, IF c \in Functional /\ c \notin Autotune THEN "spike" ELSE "simulate")
          /\ UNCHANGED <<lock, result>>
  /\ UNCHANGED <<binary, tog, log, mine, saw, crashes>>
RunSpike(c) ==       \* a partial binary does not run
  /\ At(c, "spike")
  /\ IF binary[SourceOf[c]] # "whole" THEN Ends(c, "raised") /\ Release(c)
     ELSE Go(c, "simulate") /\ UNCHANGED <<lock, result>>
  /\ UNCHANGED <<fileVars, mine, saw, crashes>>
NoTiming(c) ==
  /\ At(c, "simulate") /\ c \notin Timing /\ Ends(c, "inf") /\ Release(c)
  /\ UNCHANGED <<fileVars, mine, saw, crashes>>
Launch(c) ==         \* the simulator reads the tile graph when it comes to the command
  /\ At(c, "simulate") /\ c \in Timing /\ c \in Attached \ Autotune
  /\ Ends(c, "launched") /\ Release(c)
  /\ UNCHANGED <<fileVars, mine, saw, crashes>>
SimulatorReads(c) ==
  /\ result[c] = "launched" /\ saw[c] = None
  /\ saw' = [saw EXCEPT ![c] = tog[SourceOf[c]]]
  /\ UNCHANGED <<pc, lock, fileVars, mine, result, crashes>>
\* Only a candidate has its log in the directory of its source; others have one of their own elsewhere.
Logs(c, state) == IF c \in Autotune THEN Set(log, c, state) ELSE UNCHANGED log
RunStandalone(c) ==  \* killed by its timeout, it leaves no log
  /\ At(c, "simulate") /\ c \in Timing /\ c \notin Attached \ Autotune
  /\ saw' = [saw EXCEPT ![c] = tog[SourceOf[c]]]
  /\ \/ /\ tog[SourceOf[c]] = "whole" /\ Logs(c, "partial") /\ Go(c, "logging")
        /\ UNCHANGED <<lock, result>>
     \/ tog[SourceOf[c]] # "whole" /\ Ends(c, "raised") /\ Release(c) /\ UNCHANGED log
     \/ c \in Autotune /\ Ends(c, "inf") /\ Release(c) /\ UNCHANGED log
  /\ UNCHANGED <<binary, tog, runtimes, mine, crashes>>
GetResult(c) ==
  /\ At(c, "logging") /\ Logs(c, "whole") /\ Ends(c, "cycles") /\ Release(c)
  /\ UNCHANGED <<binary, tog, runtimes, mine, saw, crashes>>

(* Waiting for the lock ends after LOCK_TIMEOUT seconds; a process may die anywhere. *)
Timeout(c) ==
  /\ \/ At(c, "headers") \/ At(c, "validation") \/ At(c, "gem5") \/ At(c, "run")
  /\ lock[SourceOf[c]] # None /\ Ends(c, "raised")
  /\ UNCHANGED <<lock, fileVars, mine, saw, crashes>>
Die(c) ==
  /\ crashes < MaxCrashes /\ pc[c] # "end" /\ crashes' = crashes + 1
  /\ Ends(c, "raised")
  /\ IF lock[SourceOf[c]] = c THEN Release(c) ELSE UNCHANGED lock
  /\ mine' = [mine EXCEPT ![c] = IF pc[c] = "mkdir" THEN None ELSE @]
  /\ UNCHANGED <<fileVars, saw>>

Work(c) ==
  \/ WriteHeaders(c) \/ CachedResult(c) \/ BuildValidation(c) \/ CheckScratchpad(c) \/ TogExists(c)
  \/ RunGem5(c) \/ GenerateTog(c) \/ Compiled(c) \/ StartRun(c) \/ MakeRuntime(c) \/ RunSpike(c)
  \/ NoTiming(c) \/ Launch(c) \/ RunStandalone(c) \/ GetResult(c)
Next == \E c \in Call : Work(c) \/ SimulatorReads(c) \/ Timeout(c) \/ Die(c)

\* Processes run; one that waits for a lock gives up in the end.
Fairness == \A c \in Call : WF_vars(Work(c)) /\ WF_vars(SimulatorReads(c)) /\ WF_vars(Timeout(c))
Spec == Init /\ [][Next]_vars /\ Fairness

-------------------------------------------------------------------------------
TypeOK ==
  /\ lock \in [Source -> Call \cup {None}]
  /\ \A s \in Source : {binary[s], tog[s], log[s]} \subseteq {"none", "partial", "whole"}
  /\ \A c \in Call : mine[c] # None /\ result[c] \notin {"none", "raised"} =>
       mine[c] \in runtimes[SourceOf[c]]

\* What a call goes through once its files are made.
Running == {"run", "mkdir", "spike", "simulate", "logging"}

\* Unless a process has died, a call that has the lock finds the files it runs whole, though any number
\* of calls of the same source compile them again in between (the validation binary on every call).
RunsWholeFiles ==
  crashes = 0 => \A c \in Call :
    /\ At(c, "spike") => binary[SourceOf[c]] = "whole"
    /\ At(c, "simulate") /\ c \in Timing => tog[SourceOf[c]] = "whole"

\* The simulator of a session reads the graph of a launch after the lock is given back.  Unless a process has
\* died, the graph is there, and it is half written only because another call of the same source, which looked
\* for it when it was not there yet, writes it once more.  A simulator of its own reads it under the lock, whole.
MayWriteAgain(c, e) == e # c /\ SourceOf[e] = SourceOf[c]
SimulatorsFindGraph ==
  crashes = 0 => \A c \in Call :
    /\ result[c] = "launched" =>
         tog[SourceOf[c]] = "whole" \/ \E e \in Timing : MayWriteAgain(c, e) /\ At(e, "compiled")
    /\ saw[c] # "none"
    /\ saw[c] = "partial" =>
         /\ result[c] = "launched"
         /\ \E e \in Timing : MayWriteAgain(c, e) /\ pc[e] \in {"compiled", "end"} \cup Running

\* Every run has a directory of its own: its dumps and its attribute file are not those of another run.
OwnRuntime ==
  \A c, e \in Call : (c # e /\ SourceOf[c] = SourceOf[e] /\ mine[c] # None) => mine[c] # mine[e]

\* A kernel that does not fit into the scratchpad is never run in functional mode.
OverflowStops == \A c \in Functional : SourceOf[c] \in Overflows => mine[c] = None

\* Together, in states of the right type: a call runs its own kernel, whole, in a directory of its own.
RunsRightKernel == TypeOK /\ RunsWholeFiles /\ SimulatorsFindGraph /\ OwnRuntime /\ OverflowStops

\* Every call ends, with a result or an exception, and a kernel launched is read by its simulator.
CallsEnd == \A c \in Call : <>(pc[c] = "end") /\ (result[c] = "launched" ~> saw[c] # None)
===============================================================================
