------------------------------ MODULE CacheProofs ------------------------------
(***************************************************************************)
(* Proofs about module CompileCache, for any number of calls, sources and  *)
(* deaths, and any mix of modes.                                           *)
(*                                                                         *)
(* The argument: who is inside the lock is written in the program counter  *)
(* (LockRight), a file is partial only while somebody inside the lock      *)
(* writes it, and the directories of the runs are 0 .. n - 1.  A call that *)
(* runs a kernel is inside the lock itself, so it finds no partial file;   *)
(* that the file is there at all follows from the way it came (FilesMade), *)
(* because nothing is ever removed.                                        *)
(***************************************************************************)
EXTENDS CompileCache, TLAPS

Place == {"headers", "cached", "validation", "validating", "exists", "gem5", "generate", "compiled",
          "run", "mkdir", "spike", "simulate", "logging", "end"}
State == {"none", "partial", "whole"}

\* Where a call is inside the lock of its source.
Inside == {"validating", "generate", "compiled", "mkdir", "spike", "simulate", "logging"}
\* Where its validation binary must be there; its tile graph must be there where it is Running.
Validated == {"exists", "gem5", "generate", "compiled", "run", "mkdir", "spike", "simulate", "logging"}
\* Where a call may have written its tile graph.
Past == {"compiled", "end"} \cup Running
\* Where a call has not chosen a directory.
Early == Place \ {"mkdir", "spike", "simulate", "logging", "end"}

PlaceType ==
  /\ pc \in [Call -> Place] /\ lock \in [Source -> Call \cup {None}]
  /\ result \in [Call -> {"none", "launched", "cycles", "inf", "raised"}]
  /\ crashes \in Nat
FileType == binary \in [Source -> State] /\ tog \in [Source -> State] /\ log \in [Source -> State]
RunType ==
  /\ runtimes \in [Source -> SUBSET Nat] /\ mine \in [Call -> Nat \cup {None}]
  /\ \A s \in Source : \E n \in Nat : runtimes[s] = 0 .. n - 1

LockRight == \A c \in Call : pc[c] \in Inside <=> lock[SourceOf[c]] = c

\* Holds until a process dies.
BinaryMade ==
  /\ \A s \in Source : binary[s] = "partial" => \E c \in Call : SourceOf[c] = s /\ At(c, "validating")
  /\ \A c \in Functional : pc[c] \in Validated => binary[SourceOf[c]] # "none"
TogMade ==
  /\ \A s \in Source : tog[s] = "partial" => \E c \in Timing : SourceOf[c] = s /\ At(c, "compiled")
  /\ \A c \in Timing : pc[c] \in Running => tog[SourceOf[c]] # "none"
FilesMade == crashes = 0 => BinaryMade /\ TogMade
OnlyInMode == \A c \in Call : (At(c, "spike") => c \in Functional) /\ (At(c, "generate") => c \in Timing)

\* What the simulators have seen, until a process dies.
Seen ==
  \A c \in Call :
    /\ saw[c] # "none"
    /\ saw[c] = "partial" => /\ result[c] = "launched"
                             /\ \E e \in Timing : MayWriteAgain(c, e) /\ pc[e] \in Past
    /\ result[c] = "launched" => tog[SourceOf[c]] # "none"
SeenType == saw \in [Call -> State \cup {None}]
SeenRight == crashes = 0 => Seen

DirectoriesRight ==
  /\ \A c \in Call : pc[c] \in Early => mine[c] = None
  /\ \A c \in Call : At(c, "mkdir") => mine[c] \in Nat /\ runtimes[SourceOf[c]] = 0 .. mine[c] - 1
  /\ \A c \in Call : ~At(c, "mkdir") /\ mine[c] # None => mine[c] \in runtimes[SourceOf[c]]
  /\ OwnRuntime
Ended == \A c \in Call : result[c] # "none" => At(c, "end")
Stopped ==
  \A c \in Functional : SourceOf[c] \in Overflows =>
    pc[c] \in {"headers", "cached", "validation", "validating", "end"} /\ mine[c] = None

CacheInv ==
  /\ PlaceType /\ FileType /\ RunType /\ LockRight /\ FilesMade /\ OnlyInMode
  /\ DirectoriesRight /\ Ended /\ Stopped /\ SeenType /\ SeenRight

-------------------------------------------------------------------------------
\* FunctionalSimulator.get_runtime_dump_path picks a number that no directory has.
LEMMA NextIsFree ==
  ASSUME NEW s \in Source, NEW n \in Nat, runtimes[s] = 0 .. n - 1
  PROVE  NextIndex(s) = n
<1>1. CASE n = 0
  BY <1>1 DEF NextIndex
<1>2. CASE n # 0
  <2> DEFINE last == CHOOSE i \in runtimes[s] : \A j \in runtimes[s] : j <= i
  <2>1. n - 1 \in runtimes[s] /\ \A j \in runtimes[s] : j <= n - 1
    BY <1>2
  <2>2. \A i \in runtimes[s] : (\A j \in runtimes[s] : j <= i) => i = n - 1
    BY <2>1
  <2>3. last \in runtimes[s] /\ \A j \in runtimes[s] : j <= last
    BY <2>1, Zenon
  <2>4. NextIndex(s) = 1 + last
    BY <2>1, Zenon DEF NextIndex
  <2> HIDE DEF last
  <2> QED
    BY <2>2, <2>3, <2>4
<1> QED
  BY <1>1, <1>2

\* At the start nobody is inside a lock and there is no file.
LEMMA InitHolds == Init => CacheInv
<1> SUFFICES ASSUME Init PROVE CacheInv
  OBVIOUS
<1> USE CacheAssumption DEF Init
<1>1. PlaceType /\ FileType
  BY DEF PlaceType, FileType, Place, State
<1>2. RunType
  <2>1. 0 .. 0 - 1 = {}
    OBVIOUS
  <2> QED
    BY <2>1 DEF RunType
<1>3. LockRight
  BY DEF LockRight, Inside
<1>4. FilesMade /\ OnlyInMode
  BY DEF FilesMade, BinaryMade, TogMade, OnlyInMode, At, Validated, Running
<1>5. DirectoriesRight /\ Ended /\ Stopped
  BY DEF DirectoriesRight, OwnRuntime, Ended, Stopped, At, Early, Place
<1>6. SeenType /\ SeenRight
  BY DEF SeenType, SeenRight, Seen
<1> QED
  BY <1>1, <1>2, <1>3, <1>4, <1>5, <1>6 DEF CacheInv

\* A call that takes a free lock and goes on inside it.
LEMMA Enters ==
  ASSUME CacheInv, NEW c \in Call, Acquire(c), NEW w \in Inside, Go(c, w)
  PROVE  LockRight'
<1> USE CacheAssumption DEF CacheInv, PlaceType, LockRight
<1>1. pc' = [pc EXCEPT ![c] = w] /\ lock' = [lock EXCEPT ![SourceOf[c]] = c]
        /\ lock[SourceOf[c]] = None
  BY DEF Acquire, Go
<1>2. ASSUME NEW d \in Call PROVE pc'[d] \in Inside <=> lock'[SourceOf[d]] = d
  <2>1. SourceOf[c] \in Source /\ SourceOf[d] \in Source
    OBVIOUS
  <2>2. CASE d = c
    BY <1>1, <2>1, <2>2
  <2>3. CASE d # c /\ SourceOf[d] = SourceOf[c]
    <3>1. pc[d] \notin Inside
      BY <1>1, <2>3
    <3> QED
      BY <1>1, <2>1, <2>3, <3>1
  <2>4. CASE d # c /\ SourceOf[d] # SourceOf[c]
    <3>1. pc'[d] = pc[d] /\ lock'[SourceOf[d]] = lock[SourceOf[d]]
      BY <1>1, <2>1, <2>4
    <3> QED
      BY <3>1
  <2> QED
    BY <2>2, <2>3, <2>4
<1> QED
  BY <1>2

\* A call that gives its lock back and goes on outside it.
LEMMA Leaves ==
  ASSUME CacheInv, NEW c \in Call, pc[c] \in Inside, Release(c), NEW w \in Place \ Inside, Go(c, w)
  PROVE  LockRight'
<1> USE CacheAssumption DEF CacheInv, PlaceType, LockRight
<1>1. pc' = [pc EXCEPT ![c] = w] /\ lock' = [lock EXCEPT ![SourceOf[c]] = None]
        /\ lock[SourceOf[c]] = c
  BY DEF Release, Go
<1>2. ASSUME NEW d \in Call PROVE pc'[d] \in Inside <=> lock'[SourceOf[d]] = d
  <2>1. SourceOf[c] \in Source /\ SourceOf[d] \in Source
    OBVIOUS
  <2>2. CASE d = c
    BY <1>1, <2>1, <2>2
  <2>3. CASE d # c /\ SourceOf[d] = SourceOf[c]
    <3>1. pc[d] \notin Inside
      BY <1>1, <2>3
    <3> QED
      BY <1>1, <2>1, <2>3, <3>1
  <2>4. CASE d # c /\ SourceOf[d] # SourceOf[c]
    <3>1. pc'[d] = pc[d] /\ lock'[SourceOf[d]] = lock[SourceOf[d]]
      BY <1>1, <2>1, <2>4
    <3> QED
      BY <3>1
  <2> QED
    BY <2>2, <2>3, <2>4
<1> QED
  BY <1>2

\* A step that makes no directory and chooses none, outside makedirs.
LEMMA KeepsDirectories ==
  ASSUME CacheInv, NEW c \in Call, NEW w \in Place, Go(c, w), runtimes' = runtimes, mine' = mine,
         pc[c] # "mkdir", w # "mkdir", w \in Early => pc[c] \in Early
  PROVE  DirectoriesRight'
<1> USE CacheAssumption DEF CacheInv, PlaceType, DirectoriesRight, At
<1>1. pc' = [pc EXCEPT ![c] = w]
  BY DEF Go
<1>2. \A d \in Call : pc'[d] = IF d = c THEN w ELSE pc[d]
  BY <1>1
<1>3. OwnRuntime'
  BY DEF OwnRuntime
<1> QED
  BY <1>2, <1>3

\* A step of a call that launches nothing, reads nothing for a simulator, and loses no graph.
LEMMA KeepsSeen ==
  ASSUME CacheInv, NEW c \in Call, NEW w \in Place, Go(c, w), pc[c] \in Past => w \in Past,
         pc[c] # "end", saw' = saw, crashes' = 0 => crashes = 0,
         \A s \in Source : tog[s] # "none" => tog'[s] # "none",
         \E r \in {"none", "cycles", "inf", "raised"} : result' = [result EXCEPT ![c] = r] \/ result' = result
  PROVE  SeenRight'
<1> USE CacheAssumption
<1> SUFFICES ASSUME crashes' = 0, NEW d \in Call
             PROVE  /\ saw'[d] # "none"
                    /\ saw'[d] = "partial" => /\ result'[d] = "launched"
                                              /\ \E e \in Timing : MayWriteAgain(d, e) /\ pc'[e] \in Past
                    /\ result'[d] = "launched" => tog'[SourceOf[d]] # "none"
  BY DEF SeenRight, Seen, MayWriteAgain
<1>1. Seen
  BY DEF CacheInv, SeenRight
<1>2. \A e \in Call : pc'[e] = IF e = c THEN w ELSE pc[e]
  BY DEF CacheInv, PlaceType, Go
<1>3. result[c] # "launched"
  BY DEF CacheInv, Ended, At
<1>4. result'[d] = "launched" <=> result[d] = "launched"
  BY <1>3 DEF CacheInv, PlaceType
<1>5. \A e \in Timing : pc[e] \in Past => pc'[e] \in Past
  BY <1>2
<1>6. SourceOf[d] \in Source
  OBVIOUS
<1> QED
  BY <1>1, <1>4, <1>5, <1>6 DEF Seen

\* A call waits for the lock before it writes the headers, but does not take it.
LEMMA WriteHeadersStep ==
  ASSUME CacheInv, NEW c \in Call, WriteHeaders(c)
  PROVE  CacheInv'
<1> USE CacheAssumption DEF WriteHeaders, At, Go, fileVars, Compile
<1>1. PlaceType' /\ FileType'
  BY DEF CacheInv, PlaceType, FileType, Place, State
<1>2. RunType'
  BY DEF CacheInv, RunType
<1>3. LockRight'
  BY DEF CacheInv, PlaceType, LockRight, Inside, Place
<1>4. FilesMade' /\ OnlyInMode'
  BY DEF CacheInv, PlaceType, FileType, FilesMade, BinaryMade, TogMade, OnlyInMode, Validated, Running, Place, State, LockRight, Inside
<1>5. DirectoriesRight'
  BY DEF CacheInv, PlaceType, RunType, DirectoriesRight, OwnRuntime, Early, Place, LockRight, Inside
<1>6. Ended' /\ Stopped'
  BY DEF CacheInv, PlaceType, RunType, Ended, Stopped, Place
<1>7. SeenType'
  BY DEF CacheInv, FileType, SeenType
<1>8. SeenRight'
  <2>1. PICK w \in Place : Go(c, w) /\ (pc[c] \in Past => w \in Past)
    BY DEF CacheInv, PlaceType, Place, Past, Running
  <2>2. ASSUME NEW s \in Source, tog[s] # "none" PROVE tog'[s] # "none"
    BY <2>2 DEF CacheInv, FileType
  <2>3. saw' = saw /\ (crashes' = 0 => crashes = 0)
    BY DEF CacheInv, PlaceType
  <2>4. pc[c] # "end" /\ \E r \in {"none", "cycles", "inf", "raised"} : result' = [result EXCEPT ![c] = r] \/ result' = result
    OBVIOUS
  <2> QED
    BY <2>1, <2>2, <2>3, <2>4, KeepsSeen
<1> QED
  BY <1>1, <1>2, <1>3, <1>4, <1>5, <1>6, <1>7, <1>8 DEF CacheInv

\* A candidate of the autotuner with a log ends with what is in it.
LEMMA CachedResultStep ==
  ASSUME CacheInv, NEW c \in Call, CachedResult(c)
  PROVE  CacheInv'
<1> USE CacheAssumption DEF CachedResult, At, Go, fileVars, Compile, Ends
<1>1. PlaceType' /\ FileType'
  BY DEF CacheInv, PlaceType, FileType, Place, State
<1>2. RunType'
  BY DEF CacheInv, RunType
<1>3. LockRight'
  BY DEF CacheInv, PlaceType, LockRight, Inside, Place
<1>4. FilesMade' /\ OnlyInMode'
  BY DEF CacheInv, PlaceType, FileType, FilesMade, BinaryMade, TogMade, OnlyInMode, Validated, Running, Place, State, LockRight, Inside
<1>5. DirectoriesRight'
  <2>1. PICK w \in {"validation", "exists", "end"} : Go(c, w)
    OBVIOUS
  <2> QED
    BY <2>1, KeepsDirectories DEF Early, Place
<1>6. Ended' /\ Stopped'
  BY ZenonT(30) DEF CacheInv, PlaceType, RunType, Ended, Stopped, Place
<1>7. SeenType'
  BY DEF CacheInv, FileType, SeenType
<1>8. SeenRight'
  <2>1. PICK w \in Place : Go(c, w) /\ (pc[c] \in Past => w \in Past)
    BY DEF CacheInv, PlaceType, Place, Past, Running
  <2>2. ASSUME NEW s \in Source, tog[s] # "none" PROVE tog'[s] # "none"
    BY <2>2 DEF CacheInv, FileType
  <2>3. saw' = saw /\ (crashes' = 0 => crashes = 0)
    BY DEF CacheInv, PlaceType
  <2>4. pc[c] # "end" /\ \E r \in {"none", "cycles", "inf", "raised"} : result' = [result EXCEPT ![c] = r] \/ result' = result
    OBVIOUS
  <2> QED
    BY <2>1, <2>2, <2>3, <2>4, KeepsSeen
<1> QED
  BY <1>1, <1>2, <1>3, <1>4, <1>5, <1>6, <1>7, <1>8 DEF CacheInv

\* The validation binary is being written from here on, under the lock.
LEMMA BuildValidationStep ==
  ASSUME CacheInv, NEW c \in Call, BuildValidation(c)
  PROVE  CacheInv'
<1> USE CacheAssumption DEF BuildValidation, At, Go, fileVars, Acquire, Set
<1>1. PlaceType' /\ FileType'
  BY DEF CacheInv, PlaceType, FileType, Place, State
<1>2. RunType'
  BY DEF CacheInv, RunType
<1>3. LockRight'
  BY Enters DEF Inside
<1>4. FilesMade' /\ OnlyInMode'
  BY DEF CacheInv, PlaceType, FileType, FilesMade, BinaryMade, TogMade, OnlyInMode, Validated, Running, Place, State, LockRight, Inside
<1>5. DirectoriesRight'
  BY DEF CacheInv, PlaceType, RunType, DirectoriesRight, OwnRuntime, Early, Place, LockRight, Inside
<1>6. Ended' /\ Stopped'
  BY DEF CacheInv, PlaceType, RunType, Ended, Stopped, Place
<1>7. SeenType'
  BY DEF CacheInv, FileType, SeenType
<1>8. SeenRight'
  <2>1. PICK w \in Place : Go(c, w) /\ (pc[c] \in Past => w \in Past)
    BY DEF CacheInv, PlaceType, Place, Past, Running
  <2>2. ASSUME NEW s \in Source, tog[s] # "none" PROVE tog'[s] # "none"
    BY <2>2 DEF CacheInv, FileType
  <2>3. saw' = saw /\ (crashes' = 0 => crashes = 0)
    BY DEF CacheInv, PlaceType
  <2>4. pc[c] # "end" /\ \E r \in {"none", "cycles", "inf", "raised"} : result' = [result EXCEPT ![c] = r] \/ result' = result
    OBVIOUS
  <2> QED
    BY <2>1, <2>2, <2>3, <2>4, KeepsSeen
<1> QED
  BY <1>1, <1>2, <1>3, <1>4, <1>5, <1>6, <1>7, <1>8 DEF CacheInv

\* The binary is there; a kernel that overflows the scratchpad goes no further.
LEMMA CheckScratchpadStep ==
  ASSUME CacheInv, NEW c \in Call, CheckScratchpad(c)
  PROVE  CacheInv'
<1> USE CacheAssumption DEF CheckScratchpad, At, Go, fileVars, Release, Set, Ends
<1>1. PlaceType' /\ FileType'
  BY DEF CacheInv, PlaceType, FileType, Place, State
<1>2. RunType'
  BY DEF CacheInv, RunType
<1>3. LockRight'
  BY DEF CacheInv, PlaceType, LockRight, Inside, Place
<1>4. FilesMade' /\ OnlyInMode'
  BY DEF CacheInv, PlaceType, FileType, FilesMade, BinaryMade, TogMade, OnlyInMode, Validated, Running, Place, State, LockRight, Inside
<1>5. DirectoriesRight'
  <2>1. PICK w \in {"end", "exists"} : Go(c, w)
    OBVIOUS
  <2> QED
    BY <2>1, KeepsDirectories DEF Early, Place
<1>6. Ended' /\ Stopped'
  BY DEF CacheInv, PlaceType, RunType, Ended, Stopped, Place
<1>7. SeenType'
  BY DEF CacheInv, FileType, SeenType
<1>8. SeenRight'
  <2>1. PICK w \in Place : Go(c, w) /\ (pc[c] \in Past => w \in Past)
    BY DEF CacheInv, PlaceType, Place, Past, Running
  <2>2. ASSUME NEW s \in Source, tog[s] # "none" PROVE tog'[s] # "none"
    BY <2>2 DEF CacheInv, FileType
  <2>3. saw' = saw /\ (crashes' = 0 => crashes = 0)
    BY DEF CacheInv, PlaceType
  <2>4. pc[c] # "end" /\ \E r \in {"none", "cycles", "inf", "raised"} : result' = [result EXCEPT ![c] = r] \/ result' = result
    OBVIOUS
  <2> QED
    BY <2>1, <2>2, <2>3, <2>4, KeepsSeen
<1> QED
  BY <1>1, <1>2, <1>3, <1>4, <1>5, <1>6, <1>7, <1>8 DEF CacheInv

\* The tile graph is looked for without the lock.
LEMMA TogExistsStep ==
  ASSUME CacheInv, NEW c \in Call, TogExists(c)
  PROVE  CacheInv'
<1> USE CacheAssumption DEF TogExists, At, Go, fileVars
<1>1. PlaceType' /\ FileType'
  BY DEF CacheInv, PlaceType, FileType, Place, State
<1>2. RunType'
  BY DEF CacheInv, RunType
<1>3. LockRight'
  BY DEF CacheInv, PlaceType, LockRight, Inside, Place
<1>4. FilesMade' /\ OnlyInMode'
  BY DEF CacheInv, PlaceType, FileType, FilesMade, BinaryMade, TogMade, OnlyInMode, Validated, Running, Place, State, LockRight, Inside
<1>5. DirectoriesRight'
  BY DEF CacheInv, PlaceType, RunType, DirectoriesRight, OwnRuntime, Early, Place, LockRight, Inside
<1>6. Ended' /\ Stopped'
  BY DEF CacheInv, PlaceType, RunType, Ended, Stopped, Place
<1>7. SeenType'
  BY DEF CacheInv, FileType, SeenType
<1>8. SeenRight'
  <2>1. PICK w \in Place : Go(c, w) /\ (pc[c] \in Past => w \in Past)
    BY DEF CacheInv, PlaceType, Place, Past, Running
  <2>2. ASSUME NEW s \in Source, tog[s] # "none" PROVE tog'[s] # "none"
    BY <2>2 DEF CacheInv, FileType
  <2>3. saw' = saw /\ (crashes' = 0 => crashes = 0)
    BY DEF CacheInv, PlaceType
  <2>4. pc[c] # "end" /\ \E r \in {"none", "cycles", "inf", "raised"} : result' = [result EXCEPT ![c] = r] \/ result' = result
    OBVIOUS
  <2> QED
    BY <2>1, <2>2, <2>3, <2>4, KeepsSeen
<1> QED
  BY <1>1, <1>2, <1>3, <1>4, <1>5, <1>6, <1>7, <1>8 DEF CacheInv

\* What is missing is built under the lock.
LEMMA RunGem5Step ==
  ASSUME CacheInv, NEW c \in Call, RunGem5(c)
  PROVE  CacheInv'
<1> USE CacheAssumption DEF RunGem5, At, Go, fileVars, Acquire
<1>1. PlaceType' /\ FileType'
  BY DEF CacheInv, PlaceType, FileType, Place, State
<1>2. RunType'
  BY DEF CacheInv, RunType
<1>3. LockRight'
  <2>1. CASE c \in Timing
    BY <2>1, Enters DEF Inside
  <2>2. CASE c \notin Timing
    BY <2>2, Enters DEF Inside
  <2> QED
    BY <2>1, <2>2
<1>4. FilesMade' /\ OnlyInMode'
  BY DEF CacheInv, PlaceType, FileType, FilesMade, BinaryMade, TogMade, OnlyInMode, Validated, Running, Place, State, LockRight, Inside
<1>5. DirectoriesRight'
  BY DEF CacheInv, PlaceType, RunType, DirectoriesRight, OwnRuntime, Early, Place, LockRight, Inside
<1>6. Ended' /\ Stopped'
  BY DEF CacheInv, PlaceType, RunType, Ended, Stopped, Place
<1>7. SeenType'
  BY DEF CacheInv, FileType, SeenType
<1>8. SeenRight'
  <2>1. PICK w \in Place : Go(c, w) /\ (pc[c] \in Past => w \in Past)
    BY DEF CacheInv, PlaceType, Place, Past, Running
  <2>2. ASSUME NEW s \in Source, tog[s] # "none" PROVE tog'[s] # "none"
    BY <2>2 DEF CacheInv, FileType
  <2>3. saw' = saw /\ (crashes' = 0 => crashes = 0)
    BY DEF CacheInv, PlaceType
  <2>4. pc[c] # "end" /\ \E r \in {"none", "cycles", "inf", "raised"} : result' = [result EXCEPT ![c] = r] \/ result' = result
    OBVIOUS
  <2> QED
    BY <2>1, <2>2, <2>3, <2>4, KeepsSeen
<1> QED
  BY <1>1, <1>2, <1>3, <1>4, <1>5, <1>6, <1>7, <1>8 DEF CacheInv

\* The tile graph is being written from here on.
LEMMA GenerateTogStep ==
  ASSUME CacheInv, NEW c \in Call, GenerateTog(c)
  PROVE  CacheInv'
<1> USE CacheAssumption DEF GenerateTog, At, Go, fileVars, Set
<1>1. PlaceType' /\ FileType'
  BY DEF CacheInv, PlaceType, FileType, Place, State
<1>2. RunType'
  BY DEF CacheInv, RunType
<1>3. LockRight'
  BY DEF CacheInv, PlaceType, LockRight, Inside, Place
<1>4. FilesMade' /\ OnlyInMode'
  BY DEF CacheInv, PlaceType, FileType, FilesMade, BinaryMade, TogMade, OnlyInMode, Validated, Running, Place, State, LockRight, Inside
<1>5. DirectoriesRight'
  BY DEF CacheInv, PlaceType, RunType, DirectoriesRight, OwnRuntime, Early, Place, LockRight, Inside
<1>6. Ended' /\ Stopped'
  BY DEF CacheInv, PlaceType, RunType, Ended, Stopped, Place
<1>7. SeenType'
  BY DEF CacheInv, FileType, SeenType
<1>8. SeenRight'
  <2>1. PICK w \in Place : Go(c, w) /\ (pc[c] \in Past => w \in Past)
    BY DEF CacheInv, PlaceType, Place, Past, Running
  <2>2. ASSUME NEW s \in Source, tog[s] # "none" PROVE tog'[s] # "none"
    BY <2>2 DEF CacheInv, FileType
  <2>3. saw' = saw /\ (crashes' = 0 => crashes = 0)
    BY DEF CacheInv, PlaceType
  <2>4. pc[c] # "end" /\ \E r \in {"none", "cycles", "inf", "raised"} : result' = [result EXCEPT ![c] = r] \/ result' = result
    OBVIOUS
  <2> QED
    BY <2>1, <2>2, <2>3, <2>4, KeepsSeen
<1> QED
  BY <1>1, <1>2, <1>3, <1>4, <1>5, <1>6, <1>7, <1>8 DEF CacheInv

\* The tile graph is there, and the lock is given back.
LEMMA CompiledStep ==
  ASSUME CacheInv, NEW c \in Call, Compiled(c)
  PROVE  CacheInv'
<1> USE CacheAssumption DEF Compiled, At, Go, fileVars, Release, Set
<1>1. PlaceType' /\ FileType'
  BY DEF CacheInv, PlaceType, FileType, Place, State
<1>2. RunType'
  BY DEF CacheInv, RunType
<1>3. LockRight'
  BY Leaves DEF Inside, Place
<1>4. FilesMade' /\ OnlyInMode'
  <2>1. pc' = [pc EXCEPT ![c] = "run"] /\ binary' = binary /\ crashes' = crashes
    OBVIOUS
  <2>2. OnlyInMode'
    BY <2>1 DEF CacheInv, PlaceType, OnlyInMode
  <2>3. ASSUME crashes = 0 PROVE BinaryMade'
    BY <2>1, <2>3 DEF CacheInv, PlaceType, FilesMade, BinaryMade, Validated
  <2>4. ASSUME crashes = 0 PROVE TogMade'
    <3>1. CASE c \in Timing
      <4>1. tog' = [tog EXCEPT ![SourceOf[c]] = "whole"]
        BY <3>1
      <4>2. \A s \in Source : tog'[s] = IF s = SourceOf[c] THEN "whole" ELSE tog[s]
        BY <4>1 DEF CacheInv, FileType
      <4>3. \A d \in Call : pc'[d] = IF d = c THEN "run" ELSE pc[d]
        BY <2>1 DEF CacheInv, PlaceType
      <4>4. TogMade
        BY <2>4 DEF CacheInv, FilesMade
      <4>5. \A s \in Source : tog'[s] = "partial" => \E d \in Timing : SourceOf[d] = s /\ pc'[d] = "compiled"
        BY <4>2, <4>3, <4>4 DEF TogMade
      <4>6. \A d \in Timing : pc'[d] \in Running => tog'[SourceOf[d]] # "none"
        BY <4>2, <4>3, <4>4 DEF TogMade
      <4> QED
        BY <4>5, <4>6 DEF TogMade
    <3>2. CASE c \notin Timing
      <4>1. tog' = tog
        BY <3>2
      <4>2. \A s \in Source : tog[s] = "partial" => s # SourceOf[c]
        BY <2>4, <3>2 DEF CacheInv, FilesMade, TogMade, LockRight, Inside
      <4> QED
        BY <2>1, <2>4, <3>2, <4>1, <4>2 DEF CacheInv, PlaceType, FilesMade, TogMade, Running
    <3> QED
      BY <3>1, <3>2
  <2> QED
    BY <2>1, <2>2, <2>3, <2>4 DEF FilesMade
<1>5. DirectoriesRight'
  BY DEF CacheInv, PlaceType, RunType, DirectoriesRight, OwnRuntime, Early, Place, LockRight, Inside
<1>6. Ended' /\ Stopped'
  BY DEF CacheInv, PlaceType, RunType, Ended, Stopped, Place
<1>7. SeenType'
  BY DEF CacheInv, FileType, SeenType
<1>8. SeenRight'
  <2>1. PICK w \in Place : Go(c, w) /\ (pc[c] \in Past => w \in Past)
    BY DEF CacheInv, PlaceType, Place, Past, Running
  <2>2. ASSUME NEW s \in Source, tog[s] # "none" PROVE tog'[s] # "none"
    BY <2>2 DEF CacheInv, FileType
  <2>3. saw' = saw /\ (crashes' = 0 => crashes = 0)
    BY DEF CacheInv, PlaceType
  <2>4. pc[c] # "end" /\ \E r \in {"none", "cycles", "inf", "raised"} : result' = [result EXCEPT ![c] = r] \/ result' = result
    OBVIOUS
  <2> QED
    BY <2>1, <2>2, <2>3, <2>4, KeepsSeen
<1> QED
  BY <1>1, <1>2, <1>3, <1>4, <1>5, <1>6, <1>7, <1>8 DEF CacheInv

\* A run takes the lock and a number that no directory has.
LEMMA StartRunStep ==
  ASSUME CacheInv, NEW c \in Call, StartRun(c)
  PROVE  CacheInv'
<1> USE CacheAssumption DEF StartRun, At, Go, fileVars, Acquire
<1>1. PlaceType' /\ FileType'
  BY DEF CacheInv, PlaceType, FileType, Place, State
<1>2. RunType'
  <2>1. PICK n \in Nat : runtimes[SourceOf[c]] = 0 .. n - 1
    BY DEF CacheInv, RunType
  <2>2. mine' = [mine EXCEPT ![c] = n] /\ runtimes' = runtimes
    BY <2>1, NextIsFree
  <2> QED
    BY <2>2 DEF CacheInv, RunType
<1>3. LockRight'
  BY Enters DEF Inside
<1>4. FilesMade' /\ OnlyInMode'
  BY DEF CacheInv, PlaceType, FileType, FilesMade, BinaryMade, TogMade, OnlyInMode, Validated, Running, Place, State, LockRight, Inside
<1>5. DirectoriesRight'
  <2>1. PICK n \in Nat : runtimes[SourceOf[c]] = 0 .. n - 1
    BY DEF CacheInv, RunType
  <2>2. mine' = [mine EXCEPT ![c] = n] /\ runtimes' = runtimes /\ pc' = [pc EXCEPT ![c] = "mkdir"]
    BY <2>1, NextIsFree
  <2>3. n \notin runtimes[SourceOf[c]] /\ n \in Nat /\ n # None
    BY <2>1
  <2>4. \A d \in Call : SourceOf[d] = SourceOf[c] => ~At(d, "mkdir")
    BY DEF CacheInv, LockRight, Inside
  <2>5. \A d \in Call : (d # c /\ SourceOf[d] = SourceOf[c] /\ mine[d] # None) => mine[d] # n
    BY <2>3, <2>4 DEF CacheInv, DirectoriesRight
  <2>6. \A d \in Call : /\ mine'[d] = IF d = c THEN n ELSE mine[d]
                        /\ pc'[d] = IF d = c THEN "mkdir" ELSE pc[d]
    BY <2>2 DEF CacheInv, PlaceType, RunType
  <2>7. OwnRuntime'
    BY <2>5, <2>6 DEF CacheInv, DirectoriesRight, OwnRuntime
  <2> QED
    BY <2>1, <2>2, <2>3, <2>6, <2>7 DEF CacheInv, DirectoriesRight, Early, Place
<1>6. Ended' /\ Stopped'
  BY DEF CacheInv, PlaceType, RunType, Ended, Stopped, Place
<1>7. SeenType'
  BY DEF CacheInv, FileType, SeenType
<1>8. SeenRight'
  <2>1. PICK w \in Place : Go(c, w) /\ (pc[c] \in Past => w \in Past)
    BY DEF CacheInv, PlaceType, Place, Past, Running
  <2>2. ASSUME NEW s \in Source, tog[s] # "none" PROVE tog'[s] # "none"
    BY <2>2 DEF CacheInv, FileType
  <2>3. saw' = saw /\ (crashes' = 0 => crashes = 0)
    BY DEF CacheInv, PlaceType
  <2>4. pc[c] # "end" /\ \E r \in {"none", "cycles", "inf", "raised"} : result' = [result EXCEPT ![c] = r] \/ result' = result
    OBVIOUS
  <2> QED
    BY <2>1, <2>2, <2>3, <2>4, KeepsSeen
<1> QED
  BY <1>1, <1>2, <1>3, <1>4, <1>5, <1>6, <1>7, <1>8 DEF CacheInv

\* makedirs makes the directory, or raises an exception.
LEMMA MakeRuntimeStep ==
  ASSUME CacheInv, NEW c \in Call, MakeRuntime(c)
  PROVE  CacheInv'
<1> USE CacheAssumption DEF MakeRuntime, At, Go, fileVars, Ends, Release
<1>1. PlaceType' /\ FileType'
  BY DEF CacheInv, PlaceType, FileType, Place, State
<1>2. RunType'
  <2> DEFINE s == SourceOf[c]
        n == mine[c]
  <2>1. s \in Source /\ n \in Nat /\ runtimes[s] = 0 .. n - 1 /\ n \notin runtimes[s]
    BY DEF CacheInv, DirectoriesRight
  <2>2. runtimes' = [runtimes EXCEPT ![s] = @ \cup {n}] /\ mine' = mine
    BY <2>1
  <2>3. runtimes[s] \cup {n} = 0 .. (n + 1) - 1
    BY <2>1
  <2>4. \A r \in Source : runtimes'[r] = IF r = s THEN 0 .. (n + 1) - 1 ELSE runtimes[r]
    BY <2>1, <2>2, <2>3 DEF CacheInv, RunType
  <2>5. runtimes' \in [Source -> SUBSET Nat]
    BY <2>1, <2>2 DEF CacheInv, RunType
  <2>6. \A r \in Source : \E m \in Nat : runtimes'[r] = 0 .. m - 1
    <3>1. n + 1 \in Nat
      BY <2>1
    <3> QED
      BY <2>4, <3>1 DEF CacheInv, RunType
  <2> QED
    BY <2>2, <2>5, <2>6 DEF CacheInv, RunType
<1>3. LockRight'
  BY DEF CacheInv, PlaceType, LockRight, Inside, Place
<1>4. FilesMade' /\ OnlyInMode'
  BY DEF CacheInv, PlaceType, FileType, FilesMade, BinaryMade, TogMade, OnlyInMode, Validated, Running, Place, State, LockRight, Inside
<1>5. DirectoriesRight'
  <2> DEFINE s == SourceOf[c]
        n == mine[c]
  <2>1. s \in Source /\ n \in Nat /\ runtimes[s] = 0 .. n - 1 /\ n \notin runtimes[s]
    BY DEF CacheInv, DirectoriesRight
  <2>2. runtimes' = [runtimes EXCEPT ![s] = @ \cup {n}] /\ mine' = mine
    BY <2>1
  <2>3. runtimes[s] \cup {n} = 0 .. (n + 1) - 1
    BY <2>1
  <2>4. PICK w \in {"spike", "simulate"} : pc' = [pc EXCEPT ![c] = w]
    BY <2>1
  <2>5. \A d \in Call : (d # c /\ SourceOf[d] = s) => ~At(d, "mkdir")
    BY DEF CacheInv, LockRight, Inside
  <2>6. \A d \in Call : pc'[d] = IF d = c THEN w ELSE pc[d]
    BY <2>4 DEF CacheInv, PlaceType
  <2>7. \A r \in Source : runtimes'[r] = IF r = s THEN runtimes[s] \cup {n} ELSE runtimes[r]
    BY <2>1, <2>2 DEF CacheInv, RunType
  <2>8. \A d \in Call : pc'[d] \in Early => mine'[d] = None
    BY <2>2, <2>6 DEF CacheInv, DirectoriesRight, Early
  <2>9. \A d \in Call : pc'[d] = "mkdir" => mine'[d] \in Nat /\ runtimes'[SourceOf[d]] = 0 .. mine'[d] - 1
    BY <2>2, <2>5, <2>6, <2>7 DEF CacheInv, DirectoriesRight
  <2>10. \A d \in Call : pc'[d] # "mkdir" /\ mine'[d] # None => mine'[d] \in runtimes'[SourceOf[d]]
    BY <2>2, <2>5, <2>6, <2>7 DEF CacheInv, DirectoriesRight
  <2>11. OwnRuntime'
    BY <2>2 DEF CacheInv, DirectoriesRight, OwnRuntime
  <2> QED
    BY <2>8, <2>9, <2>10, <2>11 DEF DirectoriesRight
<1>6. Ended' /\ Stopped'
  BY DEF CacheInv, PlaceType, RunType, Ended, Stopped, Place
<1>7. SeenType'
  BY DEF CacheInv, FileType, SeenType
<1>8. SeenRight'
  <2>1. PICK w \in Place : Go(c, w) /\ (pc[c] \in Past => w \in Past)
    BY DEF CacheInv, PlaceType, Place, Past, Running
  <2>2. ASSUME NEW s \in Source, tog[s] # "none" PROVE tog'[s] # "none"
    BY <2>2 DEF CacheInv, FileType
  <2>3. saw' = saw /\ (crashes' = 0 => crashes = 0)
    BY DEF CacheInv, PlaceType
  <2>4. pc[c] # "end" /\ \E r \in {"none", "cycles", "inf", "raised"} : result' = [result EXCEPT ![c] = r] \/ result' = result
    OBVIOUS
  <2> QED
    BY <2>1, <2>2, <2>3, <2>4, KeepsSeen
<1> QED
  BY <1>1, <1>2, <1>3, <1>4, <1>5, <1>6, <1>7, <1>8 DEF CacheInv

\* A functional run reads the binary.
LEMMA RunSpikeStep ==
  ASSUME CacheInv, NEW c \in Call, RunSpike(c)
  PROVE  CacheInv'
<1> USE CacheAssumption DEF RunSpike, At, Go, fileVars, Ends, Release
<1>1. PlaceType' /\ FileType'
  BY DEF CacheInv, PlaceType, FileType, Place, State
<1>2. RunType'
  BY DEF CacheInv, RunType
<1>3. LockRight'
  BY DEF CacheInv, PlaceType, LockRight, Inside, Place
<1>4. FilesMade' /\ OnlyInMode'
  BY DEF CacheInv, PlaceType, FileType, FilesMade, BinaryMade, TogMade, OnlyInMode, Validated, Running, Place, State, LockRight, Inside
<1>5. DirectoriesRight'
  <2>1. PICK w \in {"end", "simulate"} : Go(c, w)
    OBVIOUS
  <2> QED
    BY <2>1, KeepsDirectories DEF Early, Place
<1>6. Ended' /\ Stopped'
  BY DEF CacheInv, PlaceType, RunType, Ended, Stopped, Place
<1>7. SeenType'
  BY DEF CacheInv, FileType, SeenType
<1>8. SeenRight'
  <2>1. PICK w \in Place : Go(c, w) /\ (pc[c] \in Past => w \in Past)
    BY DEF CacheInv, PlaceType, Place, Past, Running
  <2>2. ASSUME NEW s \in Source, tog[s] # "none" PROVE tog'[s] # "none"
    BY <2>2 DEF CacheInv, FileType
  <2>3. saw' = saw /\ (crashes' = 0 => crashes = 0)
    BY DEF CacheInv, PlaceType
  <2>4. pc[c] # "end" /\ \E r \in {"none", "cycles", "inf", "raised"} : result' = [result EXCEPT ![c] = r] \/ result' = result
    OBVIOUS
  <2> QED
    BY <2>1, <2>2, <2>3, <2>4, KeepsSeen
<1> QED
  BY <1>1, <1>2, <1>3, <1>4, <1>5, <1>6, <1>7, <1>8 DEF CacheInv

\* A run without timing ends here.
LEMMA NoTimingStep ==
  ASSUME CacheInv, NEW c \in Call, NoTiming(c)
  PROVE  CacheInv'
<1> USE CacheAssumption DEF NoTiming, At, Go, fileVars, Ends, Release
<1>1. PlaceType' /\ FileType'
  BY DEF CacheInv, PlaceType, FileType, Place, State
<1>2. RunType'
  BY DEF CacheInv, RunType
<1>3. LockRight'
  BY Leaves DEF Inside, Place
<1>4. FilesMade' /\ OnlyInMode'
  BY DEF CacheInv, PlaceType, FileType, FilesMade, BinaryMade, TogMade, OnlyInMode, Validated, Running, Place, State, LockRight, Inside
<1>5. DirectoriesRight'
  BY DEF CacheInv, PlaceType, RunType, DirectoriesRight, OwnRuntime, Early, Place, LockRight, Inside
<1>6. Ended' /\ Stopped'
  BY DEF CacheInv, PlaceType, RunType, Ended, Stopped, Place
<1>7. SeenType'
  BY DEF CacheInv, FileType, SeenType
<1>8. SeenRight'
  <2>1. PICK w \in Place : Go(c, w) /\ (pc[c] \in Past => w \in Past)
    BY DEF CacheInv, PlaceType, Place, Past, Running
  <2>2. ASSUME NEW s \in Source, tog[s] # "none" PROVE tog'[s] # "none"
    BY <2>2 DEF CacheInv, FileType
  <2>3. saw' = saw /\ (crashes' = 0 => crashes = 0)
    BY DEF CacheInv, PlaceType
  <2>4. pc[c] # "end" /\ \E r \in {"none", "cycles", "inf", "raised"} : result' = [result EXCEPT ![c] = r] \/ result' = result
    OBVIOUS
  <2> QED
    BY <2>1, <2>2, <2>3, <2>4, KeepsSeen
<1> QED
  BY <1>1, <1>2, <1>3, <1>4, <1>5, <1>6, <1>7, <1>8 DEF CacheInv

\* A launch names the tile graph to the simulator of the session.
LEMMA LaunchStep ==
  ASSUME CacheInv, NEW c \in Call, Launch(c)
  PROVE  CacheInv'
<1> USE CacheAssumption DEF Launch, At, Go, fileVars, Ends, Release
<1>1. PlaceType' /\ FileType'
  BY DEF CacheInv, PlaceType, FileType, Place, State
<1>2. RunType'
  BY DEF CacheInv, RunType
<1>3. LockRight'
  BY Leaves DEF Inside, Place
<1>4. FilesMade' /\ OnlyInMode'
  BY DEF CacheInv, PlaceType, FileType, FilesMade, BinaryMade, TogMade, OnlyInMode, Validated, Running, Place, State, LockRight, Inside
<1>5. DirectoriesRight'
  BY DEF CacheInv, PlaceType, RunType, DirectoriesRight, OwnRuntime, Early, Place, LockRight, Inside
<1>6. Ended' /\ Stopped'
  BY DEF CacheInv, PlaceType, RunType, Ended, Stopped, Place
<1>7. SeenType'
  BY DEF CacheInv, FileType, SeenType
<1>8. SeenRight'
  <2> SUFFICES ASSUME crashes' = 0, NEW d \in Call
               PROVE  /\ saw'[d] # "none"
                      /\ saw'[d] = "partial" => /\ result'[d] = "launched"
                                                /\ \E e \in Timing : MayWriteAgain(d, e) /\ pc'[e] \in Past
                      /\ result'[d] = "launched" => tog'[SourceOf[d]] # "none"
    BY DEF SeenRight, Seen, MayWriteAgain
  <2>1. crashes = 0 /\ Seen /\ TogMade /\ tog' = tog
    BY DEF CacheInv, SeenRight, FilesMade
  <2>2. saw' = saw /\ (d # c => result'[d] = result[d]) /\ (d = c => result[d] # "launched")
    BY DEF CacheInv, PlaceType, Ended
  <2>3. \A e \in Timing : pc[e] \in Past => pc'[e] \in Past
    BY DEF CacheInv, PlaceType, Past
  <2>4. d = c => tog[SourceOf[d]] # "none"
    BY <2>1 DEF TogMade, Running
  <2> QED
    BY <2>1, <2>2, <2>3, <2>4 DEF Seen
<1> QED
  BY <1>1, <1>2, <1>3, <1>4, <1>5, <1>6, <1>7, <1>8 DEF CacheInv

\* A call in the lock of its source finds its graph whole.
LEMMA WholeInside ==
  ASSUME CacheInv, crashes = 0, NEW c \in Timing, At(c, "simulate")
  PROVE  tog[SourceOf[c]] = "whole"
<1> USE CacheAssumption
<1>1. SourceOf[c] \in Source /\ tog[SourceOf[c]] \in State
  BY DEF CacheInv, FileType
<1>2. \A d \in Call : SourceOf[d] = SourceOf[c] => pc[d] # "compiled"
  BY DEF CacheInv, LockRight, Inside, At
<1>3. tog[SourceOf[c]] # "partial" /\ tog[SourceOf[c]] # "none"
  BY <1>1, <1>2 DEF CacheInv, FilesMade, TogMade, Running, At
<1> QED
  BY <1>1, <1>3 DEF State

\* A simulator of its own reads the tile graph at once.
LEMMA RunStandaloneStep ==
  ASSUME CacheInv, NEW c \in Call, RunStandalone(c)
  PROVE  CacheInv'
<1> USE CacheAssumption DEF RunStandalone, Logs, At, Go, fileVars, Set, Ends, Release
<1>1. PlaceType' /\ FileType'
  BY DEF CacheInv, PlaceType, FileType, Place, State
<1>2. RunType'
  BY DEF CacheInv, RunType
<1>3. LockRight'
  BY DEF CacheInv, PlaceType, LockRight, Inside, Place
<1>4. FilesMade' /\ OnlyInMode'
  BY DEF CacheInv, PlaceType, FileType, FilesMade, BinaryMade, TogMade, OnlyInMode, Validated, Running, Place, State, LockRight, Inside
<1>5. DirectoriesRight'
  <2>1. PICK w \in {"logging", "end"} : Go(c, w)
    OBVIOUS
  <2> QED
    BY <2>1, KeepsDirectories DEF Early, Place
<1>6. Ended' /\ Stopped'
  BY ZenonT(30) DEF CacheInv, PlaceType, RunType, Ended, Stopped, Place
<1>7. SeenType'
  BY DEF CacheInv, FileType, SeenType
<1>8. SeenRight'
  <2> SUFFICES ASSUME crashes' = 0, NEW d \in Call
               PROVE  /\ saw'[d] # "none"
                      /\ saw'[d] = "partial" => /\ result'[d] = "launched"
                                                /\ \E e \in Timing : MayWriteAgain(d, e) /\ pc'[e] \in Past
                      /\ result'[d] = "launched" => tog'[SourceOf[d]] # "none"
    BY DEF SeenRight, Seen, MayWriteAgain
  <2>1. crashes = 0 /\ Seen /\ TogMade /\ tog' = tog
    BY DEF CacheInv, SeenRight, FilesMade
  <2>2. tog[SourceOf[c]] = "whole"
    BY <2>1, WholeInside
  <2>3. saw'[d] = IF d = c THEN "whole" ELSE saw[d]
    BY <2>2 DEF CacheInv, SeenType
  <2>4. (d # c => result'[d] = result[d]) /\ (d = c => result'[d] # "launched" /\ result[d] # "launched")
    BY <2>2 DEF CacheInv, PlaceType, Ended
  <2>5. \A e \in Timing : pc[e] \in Past => pc'[e] \in Past
    BY <2>2 DEF CacheInv, PlaceType, Past, Running
  <2> QED
    BY <2>1, <2>3, <2>4, <2>5 DEF Seen
<1> QED
  BY <1>1, <1>2, <1>3, <1>4, <1>5, <1>6, <1>7, <1>8 DEF CacheInv

\* The log is there, and the lock is given back.
LEMMA GetResultStep ==
  ASSUME CacheInv, NEW c \in Call, GetResult(c)
  PROVE  CacheInv'
<1> USE CacheAssumption DEF GetResult, Logs, At, Go, fileVars, Set, Ends, Release
<1>1. PlaceType' /\ FileType'
  BY DEF CacheInv, PlaceType, FileType, Place, State
<1>2. RunType'
  BY DEF CacheInv, RunType
<1>3. LockRight'
  BY ZenonT(30) DEF CacheInv, PlaceType, LockRight, Inside, Place
<1>4. FilesMade' /\ OnlyInMode'
  BY DEF CacheInv, PlaceType, FileType, FilesMade, BinaryMade, TogMade, OnlyInMode, Validated, Running, Place, State, LockRight, Inside
<1>5. DirectoriesRight'
  BY DEF CacheInv, PlaceType, RunType, DirectoriesRight, OwnRuntime, Early, Place, LockRight, Inside
<1>6. Ended' /\ Stopped'
  BY DEF CacheInv, PlaceType, RunType, Ended, Stopped, Place
<1>7. SeenType'
  BY DEF CacheInv, FileType, SeenType
<1>8. SeenRight'
  <2>1. PICK w \in Place : Go(c, w) /\ (pc[c] \in Past => w \in Past)
    BY DEF CacheInv, PlaceType, Place, Past, Running
  <2>2. ASSUME NEW s \in Source, tog[s] # "none" PROVE tog'[s] # "none"
    BY <2>2 DEF CacheInv, FileType
  <2>3. saw' = saw /\ (crashes' = 0 => crashes = 0)
    BY DEF CacheInv, PlaceType
  <2>4. pc[c] # "end" /\ \E r \in {"none", "cycles", "inf", "raised"} : result' = [result EXCEPT ![c] = r] \/ result' = result
    OBVIOUS
  <2> QED
    BY <2>1, <2>2, <2>3, <2>4, KeepsSeen
<1> QED
  BY <1>1, <1>2, <1>3, <1>4, <1>5, <1>6, <1>7, <1>8 DEF CacheInv

\* The simulator of the session reads the tile graph when it comes to the launch.
LEMMA SimulatorReadsStep ==
  ASSUME CacheInv, NEW c \in Call, SimulatorReads(c)
  PROVE  CacheInv'
<1> USE CacheAssumption DEF SimulatorReads, At, Go, fileVars
<1>1. PlaceType' /\ FileType'
  BY DEF CacheInv, PlaceType, FileType, Place, State
<1>2. RunType'
  BY DEF CacheInv, RunType
<1>3. LockRight'
  BY DEF CacheInv, PlaceType, LockRight, Inside, Place
<1>4. FilesMade' /\ OnlyInMode'
  BY DEF CacheInv, PlaceType, FileType, FilesMade, BinaryMade, TogMade, OnlyInMode, Validated, Running, Place, State, LockRight, Inside
<1>5. DirectoriesRight'
  BY DEF CacheInv, PlaceType, RunType, DirectoriesRight, OwnRuntime, Early, Place, LockRight, Inside
<1>6. Ended' /\ Stopped'
  BY DEF CacheInv, PlaceType, RunType, Ended, Stopped, Place
<1>7. SeenType'
  BY DEF CacheInv, FileType, SeenType
<1>8. SeenRight'
  <2> SUFFICES ASSUME crashes' = 0, NEW d \in Call
               PROVE  /\ saw'[d] # "none"
                      /\ saw'[d] = "partial" => /\ result'[d] = "launched"
                                                /\ \E e \in Timing : MayWriteAgain(d, e) /\ pc'[e] \in Past
                      /\ result'[d] = "launched" => tog'[SourceOf[d]] # "none"
    BY DEF SeenRight, Seen, MayWriteAgain
  <2>1. crashes = 0 /\ Seen /\ TogMade /\ tog' = tog
    BY DEF CacheInv, SeenRight, FilesMade
  <2>2. result' = result /\ pc' = pc /\ saw'[d] \in {saw[d], tog[SourceOf[d]]} /\ (d # c => saw'[d] = saw[d])
    BY <1>2 DEF CacheInv, SeenType
  <2>3. CASE d = c
    <3>1. pc[c] = "end" /\ tog[SourceOf[c]] # "none"
      BY <2>1 DEF CacheInv, Ended, Seen
    <3>2. saw'[c] = tog[SourceOf[c]] /\ SourceOf[c] \in Source
      BY DEF CacheInv, SeenType
    <3>3. ASSUME tog[SourceOf[c]] = "partial"
          PROVE  \E e \in Timing : MayWriteAgain(c, e) /\ pc[e] \in Past
      <4>1. PICK e \in Timing : SourceOf[e] = SourceOf[c] /\ pc[e] = "compiled"
        BY <2>1, <3>2, <3>3 DEF TogMade
      <4> QED
        BY <3>1, <4>1 DEF MayWriteAgain, Past
    <3> QED
      BY <2>1, <2>2, <2>3, <3>1, <3>2, <3>3
  <2>4. CASE d # c
    BY <2>1, <2>2, <2>4 DEF Seen
  <2> QED
    BY <2>3, <2>4
<1> QED
  BY <1>1, <1>2, <1>3, <1>4, <1>5, <1>6, <1>7, <1>8 DEF CacheInv

\* A process that waits too long for the lock gives up.
LEMMA TimeoutStep ==
  ASSUME CacheInv, NEW c \in Call, Timeout(c)
  PROVE  CacheInv'
<1> USE CacheAssumption DEF Timeout, At, Go, fileVars, Ends
<1>1. PlaceType' /\ FileType'
  BY DEF CacheInv, PlaceType, FileType, Place, State
<1>2. RunType'
  BY DEF CacheInv, RunType
<1>3. LockRight'
  BY DEF CacheInv, PlaceType, LockRight, Inside, Place
<1>4. FilesMade' /\ OnlyInMode'
  BY DEF CacheInv, PlaceType, FileType, FilesMade, BinaryMade, TogMade, OnlyInMode, Validated, Running, Place, State, LockRight, Inside
<1>5. DirectoriesRight'
  BY DEF CacheInv, PlaceType, RunType, DirectoriesRight, OwnRuntime, Early, Place, LockRight, Inside
<1>6. Ended' /\ Stopped'
  BY DEF CacheInv, PlaceType, RunType, Ended, Stopped, Place
<1>7. SeenType'
  BY DEF CacheInv, FileType, SeenType
<1>8. SeenRight'
  <2>1. PICK w \in Place : Go(c, w) /\ (pc[c] \in Past => w \in Past)
    BY DEF CacheInv, PlaceType, Place, Past, Running
  <2>2. ASSUME NEW s \in Source, tog[s] # "none" PROVE tog'[s] # "none"
    BY <2>2 DEF CacheInv, FileType
  <2>3. saw' = saw /\ (crashes' = 0 => crashes = 0)
    BY DEF CacheInv, PlaceType
  <2>4. pc[c] # "end" /\ \E r \in {"none", "cycles", "inf", "raised"} : result' = [result EXCEPT ![c] = r] \/ result' = result
    OBVIOUS
  <2> QED
    BY <2>1, <2>2, <2>3, <2>4, KeepsSeen
<1> QED
  BY <1>1, <1>2, <1>3, <1>4, <1>5, <1>6, <1>7, <1>8 DEF CacheInv

\* A process that dies leaves its files as they are and loses the lock.
LEMMA DieStep ==
  ASSUME CacheInv, NEW c \in Call, Die(c)
  PROVE  CacheInv'
<1> USE CacheAssumption DEF Die, At, Go, fileVars, Ends, Release
<1>1. PlaceType' /\ FileType'
  BY DEF CacheInv, PlaceType, FileType, Place, State
<1>2. RunType'
  BY DEF CacheInv, RunType
<1>3. LockRight'
  <2>1. CASE lock[SourceOf[c]] = c
    <3>1. pc[c] \in Inside
      BY <2>1 DEF CacheInv, LockRight
    <3> QED
      BY <2>1, <3>1, Leaves DEF Inside, Place
  <2>2. CASE lock[SourceOf[c]] # c
    BY <2>2 DEF CacheInv, PlaceType, LockRight, Inside
  <2> QED
    BY <2>1, <2>2
<1>4. FilesMade' /\ OnlyInMode'
  BY DEF CacheInv, PlaceType, FileType, FilesMade, BinaryMade, TogMade, OnlyInMode, Validated, Running, Place, State, LockRight, Inside
<1>5. DirectoriesRight'
  BY DEF CacheInv, PlaceType, RunType, DirectoriesRight, OwnRuntime, Early, Place, LockRight, Inside
<1>6. Ended' /\ Stopped'
  BY DEF CacheInv, PlaceType, RunType, Ended, Stopped, Place
<1>7. SeenType'
  BY DEF CacheInv, FileType, SeenType
<1>8. SeenRight'
  <2>1. PICK w \in Place : Go(c, w) /\ (pc[c] \in Past => w \in Past)
    BY DEF CacheInv, PlaceType, Place, Past, Running
  <2>2. ASSUME NEW s \in Source, tog[s] # "none" PROVE tog'[s] # "none"
    BY <2>2 DEF CacheInv, FileType
  <2>3. saw' = saw /\ (crashes' = 0 => crashes = 0)
    BY DEF CacheInv, PlaceType
  <2>4. pc[c] # "end" /\ \E r \in {"none", "cycles", "inf", "raised"} : result' = [result EXCEPT ![c] = r] \/ result' = result
    OBVIOUS
  <2> QED
    BY <2>1, <2>2, <2>3, <2>4, KeepsSeen
<1> QED
  BY <1>1, <1>2, <1>3, <1>4, <1>5, <1>6, <1>7, <1>8 DEF CacheInv

\* Every step keeps the invariant.
LEMMA StepHolds == CacheInv /\ [Next]_vars => CacheInv'
<1> SUFFICES ASSUME CacheInv, [Next]_vars PROVE CacheInv'
  OBVIOUS
<1>1. CASE Next
  <2> PICK c \in Call : Work(c) \/ SimulatorReads(c) \/ Timeout(c) \/ Die(c)
    BY <1>1 DEF Next
  <2>1. CASE Work(c)
    BY <2>1, WriteHeadersStep, CachedResultStep, BuildValidationStep, CheckScratchpadStep, TogExistsStep,
       RunGem5Step, GenerateTogStep, CompiledStep, StartRunStep, MakeRuntimeStep, RunSpikeStep,
       NoTimingStep, LaunchStep, RunStandaloneStep, GetResultStep DEF Work
  <2> QED
    BY <2>1, SimulatorReadsStep, TimeoutStep, DieStep
<1>2. CASE UNCHANGED vars
  BY <1>2 DEF vars, fileVars, CacheInv, PlaceType, FileType, RunType, LockRight, FilesMade, BinaryMade,
     TogMade, OnlyInMode, DirectoriesRight, OwnRuntime, Ended, Stopped, SeenType, SeenRight, Seen, At
<1> QED
  BY <1>1, <1>2

\* The invariant of compilation and execution: the locks, the files and the directories fit what every
\* call is doing (MLIRCodeCache.load and run_kernel_simulation), whatever dies when.
THEOREM CacheCorrect == Spec => []CacheInv
<1>1. Init => CacheInv
  BY InitHolds
<1>2. CacheInv /\ [Next]_vars => CacheInv'
  BY StepHolds
<1> QED
  BY <1>1, <1>2, PTL DEF Spec

-------------------------------------------------------------------------------
\* The invariant says that the right kernel is run.
LEMMA InvGives == CacheInv => RunsRightKernel
<1> SUFFICES ASSUME CacheInv PROVE RunsRightKernel
  OBVIOUS
<1> USE CacheAssumption
<1>1. TypeOK
  <2>1. \A s \in Source : {binary[s], tog[s], log[s]} \subseteq {"none", "partial", "whole"}
    BY DEF CacheInv, FileType, State
  <2>2. ASSUME NEW c \in Call, mine[c] # None, result[c] \notin {"none", "raised"}
        PROVE  mine[c] \in runtimes[SourceOf[c]]
    BY <2>2 DEF CacheInv, Ended, DirectoriesRight, At
  <2> QED
    BY <2>1, <2>2 DEF TypeOK, CacheInv, PlaceType
<1>2. RunsWholeFiles
  <2> SUFFICES ASSUME crashes = 0, NEW c \in Call
               PROVE  /\ At(c, "spike") => binary[SourceOf[c]] = "whole"
                      /\ At(c, "simulate") /\ c \in Timing => tog[SourceOf[c]] = "whole"
    BY DEF RunsWholeFiles
  <2> DEFINE s == SourceOf[c]
  <2>1. s \in Source /\ binary[s] \in State /\ tog[s] \in State
    BY DEF CacheInv, FileType
  \* The call has the lock itself, so nobody else of the source is inside it.
  <2>2. ASSUME pc[c] \in {"spike", "simulate"}
        PROVE  \A d \in Call : SourceOf[d] = s => pc[d] \notin {"validating", "compiled"}
    BY <2>2 DEF CacheInv, LockRight, Inside
  <2>3. CASE At(c, "spike")
    <3>1. binary[s] # "partial" /\ binary[s] # "none"
      BY <2>2, <2>3 DEF CacheInv, FilesMade, BinaryMade, OnlyInMode, Validated, At
    <3> QED
      BY <2>1, <2>3, <3>1 DEF State, At
  <2>4. CASE At(c, "simulate") /\ c \in Timing
    <3>1. tog[s] = "whole"
      BY <2>4, WholeInside
    <3> QED
      BY <2>4, <3>1 DEF At
  <2> QED
    BY <2>3, <2>4
<1>3. OwnRuntime
  BY DEF CacheInv, DirectoriesRight
<1>4. OverflowStops
  BY DEF OverflowStops, CacheInv, Stopped
<1>5. SimulatorsFindGraph
  <2> SUFFICES ASSUME crashes = 0, NEW c \in Call
      PROVE  /\ result[c] = "launched" =>
                  \/ tog[SourceOf[c]] = "whole"
                  \/ \E e \in Timing : MayWriteAgain(c, e) /\ At(e, "compiled")
             /\ saw[c] # "none"
             /\ saw[c] = "partial" =>
                  /\ result[c] = "launched"
                  /\ \E e \in Timing : MayWriteAgain(c, e) /\ pc[e] \in Past
    BY DEF SimulatorsFindGraph, Past
  <2>1. Seen /\ TogMade
    BY DEF CacheInv, SeenRight, FilesMade
  <2>2. ASSUME result[c] = "launched", tog[SourceOf[c]] # "whole"
        PROVE  \E e \in Timing : MayWriteAgain(c, e) /\ At(e, "compiled")
    <3>1. pc[c] = "end" /\ SourceOf[c] \in Source
      BY <2>2 DEF CacheInv, Ended, At
    <3>2. tog[SourceOf[c]] = "partial"
      <4>1. tog[SourceOf[c]] \in State /\ tog[SourceOf[c]] # "none"
        BY <2>1, <2>2, <3>1 DEF Seen, CacheInv, FileType
      <4> QED
        BY <2>2, <4>1 DEF State
    <3>3. PICK e \in Timing : SourceOf[e] = SourceOf[c] /\ At(e, "compiled")
      BY <2>1, <3>1, <3>2 DEF TogMade
    <3> QED
      BY <3>1, <3>3 DEF MayWriteAgain, At
  <2> QED
    BY <2>1, <2>2 DEF Seen
<1> QED
  BY <1>1, <1>2, <1>3, <1>4, <1>5 DEF RunsRightKernel

\* A call runs its own kernel: unless a process has died, the binary that it runs is whole, and so is the tile
\* graph, but for a simulator of a session that reads it while another call of the source, which looked for it
\* too early, writes it again; and its dumps go to a directory that no other call uses (run_kernel_simulation).
THEOREM RightKernelHolds == Spec => []RunsRightKernel
  BY CacheCorrect, InvGives, PTL
===============================================================================
