--------------------------- MODULE RecordingProofs ---------------------------
(***************************************************************************)
(* Theorems about Recording: that run() and its recorder, composed, are    *)
(* still the run() of Pipeline and the recorder of StorageRecorder, and    *)
(* what they guarantee together.                                           *)
(***************************************************************************)
EXTENDS Recording, StorageRecorderProofs

-----------------------------------------------------------------------------
(* Every step is one of each component, or leaves it as it is              *)

LEMMA StorageStep ==
  ASSUME [RecordingNext]_recordingVars
  PROVE  [Next]_vars
<1>1. CASE UNCHANGED recordingVars
  BY <1>1 DEF recordingVars
<1>2. ASSUME NEW p \in Process, Program(p)
      PROVE  [Next]_vars
  <2>1. CASE StartRecorder(p)
    BY <2>1 DEF StartRecorder, Next
  <2>2. CASE OpenStep(p)
    BY <2>2 DEF OpenStep, Next, Proceed
  <2>3. CASE LaunchProgram(p)
    BY <2>3 DEF LaunchProgram, Next, Proceed
  <2>4. CASE GiveUp(p) \/ RunStep(p) \/ PassPacket(p)
    BY <2>4 DEF GiveUp, RunStep, PassPacket, RunOnly
  <2>5. CASE RecordPacket(p) \/ BeginRotation(p)
    BY <2>5 DEF RecordPacket, BeginRotation, Next
  <2>6. CASE EndRotation(p) \/ RotationFailed(p)
    BY <2>6 DEF EndRotation, RotationFailed
  <2>7. CASE CloseRecorder(p)
    BY <2>7 DEF CloseRecorder, Next, Proceed
  <2> QED
    BY <1>2, <2>1, <2>2, <2>3, <2>4, <2>5, <2>6, <2>7 DEF Program
<1>3. ASSUME NEW p \in Process, OpenFault(p) \/ RecordFault(p)
      PROVE  [Next]_vars
  BY <1>3 DEF OpenFault, RecordFault, Next, Fault
<1>4. ASSUME NEW p \in Process, LaunchFault(p) \/ SignalProgram(p) \/ ChildStep(p)
      PROVE  [Next]_vars
  BY <1>4 DEF LaunchFault, SignalProgram, ChildStep, RunOnly
<1>5. ASSUME NEW p \in Process, KillProgram(p)
      PROVE  [Next]_vars
  BY <1>5 DEF KillProgram, Next
<1>6. ASSUME NEW p \in Process, ChildObeys(p) \/ ChildBroken(p) \/ ChildEnds(p)
      PROVE  [Next]_vars
  BY <1>6 DEF ChildObeys, ChildBroken, ChildEnds, ReleaseInherited, Next
<1> QED
  BY <1>1, <1>2, <1>3, <1>4, <1>5, <1>6 DEF RecordingNext

LEMMA PipelineStep ==
  ASSUME [RecordingNext]_recordingVars
  PROVE  [P!Next]_(P!vars)
<1> USE DEF runVars, P!vars
<1>1. CASE UNCHANGED recordingVars
  BY <1>1 DEF recordingVars
<1>2. ASSUME NEW p \in Process, Program(p)
      PROVE  [P!Next]_(P!vars)
  <2>1. CASE StartRecorder(p) \/ OpenStep(p) \/ BeginRotation(p) \/ CloseRecorder(p)
    BY <2>1 DEF StartRecorder, OpenStep, BeginRotation, CloseRecorder,
                StorageOnly
  <2>2. CASE LaunchProgram(p) \/ GiveUp(p)
    BY <2>2 DEF LaunchProgram, GiveUp, P!Next, P!Run
  <2>3. CASE RunStep(p)
    BY <2>3 DEF RunStep, P!Next, P!Run
  <2>4. CASE PassPacket(p) \/ RecordPacket(p) \/ EndRotation(p)
    BY <2>4 DEF PassPacket, RecordPacket, EndRotation, P!Next, P!Run
  <2>5. CASE RotationFailed(p)
    BY <2>5 DEF RotationFailed, P!Next
  <2> QED
    BY <1>2, <2>1, <2>2, <2>3, <2>4, <2>5 DEF Program
<1>3. ASSUME NEW p \in Process, OpenFault(p)
      PROVE  [P!Next]_(P!vars)
  BY <1>3 DEF OpenFault, StorageOnly
<1>4. ASSUME NEW p \in Process, LaunchFault(p) \/ RecordFault(p) \/ SignalProgram(p)
      PROVE  [P!Next]_(P!vars)
  BY <1>4 DEF LaunchFault, RecordFault, SignalProgram, P!Next
<1>5. ASSUME NEW p \in Process, KillProgram(p)
      PROVE  [P!Next]_(P!vars)
  BY <1>5 DEF KillProgram, P!Next
<1>6. ASSUME NEW p \in Process, ChildStep(p)
      PROVE  [P!Next]_(P!vars)
  BY <1>6 DEF ChildStep, P!Next, P!Backend
<1>7. ASSUME NEW p \in Process, ChildObeys(p) \/ ChildBroken(p) \/ ChildEnds(p)
      PROVE  [P!Next]_(P!vars)
  BY <1>7 DEF ChildObeys, ChildBroken, ChildEnds, P!Next, P!Backend
<1> QED
  BY <1>1, <1>2, <1>3, <1>4, <1>5, <1>6, <1>7 DEF RecordingNext

\* run() with a recorder is, up to fairness, both the recorder on its own and
\* the run() without one.
THEOREM ImplementsBoth == RecordingSpec => Spec /\ P!Spec
<1>1. RecordingInit => Init /\ P!Init
  BY DEF RecordingInit
<1>2. [RecordingNext]_recordingVars => [Next]_vars /\ [P!Next]_(P!vars)
  BY StorageStep, PipelineStep
<1> QED
  BY <1>1, <1>2, PTL DEF RecordingSpec, Spec, P!Spec

\* So what is proved of the storage holds inside run(), rotations, signals and
\* kills included: recorded data stays and an index lists existing files only.
THEOREM RecordingKeepsStorage ==
  RecordingSpec => RecordedDataKept /\ []IndexedRecordsExist
  BY ImplementsBoth, DataPreserved, IndexesTruthful, PTL

-----------------------------------------------------------------------------
(* Both components at once                                                 *)

Draining == {"config", "check", "reading", "blocked"}
Leaving  == {"ending", "closing", "hangup", "waiting"}

\* Where the recorder p can be, and what the backend can be, while run() is at
\* a given place.
InStep(p) ==
  /\ pc[p] # "off" => lock = p
  /\ run = "launching" => child = "none" /\ backend[p] = "none" /\ result = 0
  /\ run \in Draining \cup Leaving =>
       /\ pc[p] # "off"
       /\ child \in P!Alive => backend[p] = "running"
       /\ child \notin P!Alive => backend[p] = "exited"
  /\ run \in Draining /\ ~rotating => pc[p] = "recording"
  /\ run \in Leaving => pc[p] \in {"recording", "failed"}
  /\ run = "exited" => child \notin P!Alive /\ backend[p] # "running"
  /\ run = "killed" =>
       /\ pc[p] = "off"
       /\ child \in P!Alive => lock = OrphanedBackend

\* A rotation is a packet that has been read and is not yet handled.
Rotation ==
  rotating =>
    /\ run = "reading"
    /\ video # <<>> /\ Head(video).last

FailureKnown(p) ==
  pc[p] = "failed" /\ run # "launching" /\ ~rotating => result = 1

JointTyped ==
  /\ pc \in [Process -> Phase]
  /\ backend \in [Process -> {"none", "running", "exited"}]
  /\ rotating \in BOOLEAN
  /\ run \in P!Phase
  /\ video \in Seq(P!Part)

\* The backend is in the middle of a packet only while it runs.
Sender ==
  /\ sending \in P!Kind \cup {"none"}
  /\ sending # "none" => child \in {"unconfigured", "streaming"}

Joint ==
  /\ JointTyped
  /\ Rotation
  /\ \A p \in Process : InStep(p) /\ FailureKnown(p)

LEMMA NoParts == <<>> \in Seq(P!Part)
  OBVIOUS

LEMMA TailOfParts ==
  ASSUME NEW s \in Seq(P!Part), s # <<>>
  PROVE  Tail(s) \in Seq(P!Part)
  OBVIOUS

\* The head of the pipe stays what it is while the backend writes.
LEMMA AppendedPart ==
  ASSUME NEW s \in Seq(P!Part), NEW x \in P!Part
  PROVE  /\ Append(s, x) \in Seq(P!Part)
         /\ s # <<>> => Append(s, x) # <<>> /\ Head(Append(s, x)) = Head(s)
  OBVIOUS

LEMMA JointInit == RecordingInit => Joint
<1> SUFFICES ASSUME RecordingInit
             PROVE  Joint
  OBVIOUS
<1>1. JointTyped
  BY NoParts DEF RecordingInit, Init, P!Init, JointTyped, Phase, P!Phase
<1>2. Rotation
  BY DEF RecordingInit, Rotation
<1>3. ASSUME NEW p \in Process
      PROVE  InStep(p) /\ FailureKnown(p)
  BY <1>3 DEF RecordingInit, Init, P!Init, InStep, FailureKnown, Draining,
              Leaving
<1> QED
  BY <1>1, <1>2, <1>3 DEF Joint

\* The one process: what holds of it holds of every process.
LEMMA OnlyProcess ==
  ASSUME NEW p \in Process, NEW q \in Process
  PROVE  p = q
  BY OneProgram

LEMMA StartJoint ==
  ASSUME Joint, NEW p \in Process, StartRecorder(p)
  PROVE  Joint'
<1> USE DEF StartRecorder, Start, StorageOnly, Goto, runVars, diskVars
<1>1. JointTyped'
  BY DEF Joint, JointTyped, Phase
<1>2. Rotation'
  BY DEF Joint, Rotation
<1>3. (InStep(p) /\ FailureKnown(p))'
  BY DEF Joint, JointTyped, InStep, FailureKnown, Draining, Leaving
<1> QED
  BY <1>1, <1>2, <1>3, OnlyProcess DEF Joint

LEMMA OpenJoint ==
  ASSUME Joint, NEW p \in Process, OpenStep(p) \/ OpenFault(p)
  PROVE  Joint'
<1>1. /\ UNCHANGED <<run, result, video, child, rotating, lock, backend>>
      /\ pc[p] # "off"
      /\ \E phase \in Phase \ {"off"} : pc' = [pc EXCEPT ![p] = phase]
      /\ run = "launching" \/ rotating
  BY DEF OpenStep, OpenFault, StorageOnly, Opening, runVars, Goto, Phase,
         LoadIndex, RecoverIndex, CreateIndex, IndexesExhausted, ChoosePath,
         PathsExhausted, ReserveRecord, AppendRecord, AppendFails, BeginSave,
         StageIndex, PublishIndex, OpenSegment, LoadFails, ReserveFails,
         SaveFails, OpenSegmentFails
<1>2. JointTyped'
  BY <1>1 DEF Joint, JointTyped
<1>3. Rotation'
  BY <1>1 DEF Joint, Rotation
<1>4. (InStep(p) /\ FailureKnown(p))'
  BY <1>1 DEF Joint, JointTyped, Rotation, InStep, FailureKnown, Draining,
              Leaving
<1> QED
  BY <1>2, <1>3, <1>4, OnlyProcess DEF Joint

LEMMA LaunchJoint ==
  ASSUME Joint, NEW p \in Process,
         LaunchProgram(p) \/ GiveUp(p) \/ LaunchFault(p)
  PROVE  Joint'
<1> USE DEF LaunchProgram, GiveUp, LaunchFault, RunOnly, P!Launch,
            P!LaunchFails, LaunchBackend, vars, P!backendVars, diskVars
<1>1. JointTyped'
  BY DEF Joint, JointTyped, P!Phase
<1>2. Rotation'
  BY DEF Joint, Rotation
<1>3. (InStep(p) /\ FailureKnown(p))'
  BY DEF Joint, JointTyped, Rotation, InStep, FailureKnown, Draining, Leaving,
         P!Alive
<1> QED
  BY <1>1, <1>2, <1>3, OnlyProcess DEF Joint

\* What run() does outside the recorder while the recorder is open.
LEMMA RunJoint ==
  ASSUME Joint, NEW p \in Process, RunStep(p)
  PROVE  Joint'
<1> USE DEF RunStep, RunOnly, vars, P!WriteConfig, P!WriteConfigFails,
            P!CheckStop, P!Block, P!Wake, P!ReadLength, P!EndOfFile,
            P!WriteEnd, P!CloseConfig, P!CloseVideo, P!Wait,
            P!pipeVars, P!backendVars
<1>1. JointTyped'
  <2>1. /\ video' \in Seq(P!Part)
        /\ run' \in P!Phase
    BY TailOfParts, NoParts DEF Joint, JointTyped, P!Phase
  <2> QED
    BY <2>1 DEF Joint, JointTyped
<1>2. Rotation'
  BY DEF Joint, Rotation
<1>3. (InStep(p) /\ FailureKnown(p))'
  BY DEF Joint, JointTyped, Rotation, InStep, FailureKnown, Draining, Leaving,
         P!Alive
<1> QED
  BY <1>1, <1>2, <1>3, OnlyProcess DEF Joint

\* A packet is handled, in one step or at the end of a rotation.
LEMMA PacketJoint ==
  ASSUME Joint, NEW p \in Process,
         \/ PassPacket(p) \/ RecordPacket(p) \/ RecordFault(p)
         \/ EndRotation(p) \/ RotationFailed(p)
  PROVE  Joint'
<1> USE DEF PassPacket, RecordPacket, RecordFault, EndRotation, RotationFailed,
            DataArrived, P!ReadPacket, P!WriteError, P!backendVars, RunOnly, vars,
            Goto, WriteAccessUnit, WriteFails
<1>1. JointTyped'
  <2>1. /\ video' \in Seq(P!Part)
        /\ run' \in P!Phase
    BY TailOfParts DEF Joint, JointTyped, P!Phase
  <2>2. pc' \in [Process -> Phase] /\ UNCHANGED backend /\ rotating' \in BOOLEAN
    BY DEF Joint, JointTyped, Phase
  <2> QED
    BY <2>1, <2>2 DEF Joint, JointTyped
<1>2. ~rotating'
  BY DEF Joint, JointTyped
<1>3. (InStep(p) /\ FailureKnown(p))'
  BY <1>2 DEF Joint, JointTyped, InStep, FailureKnown, Draining, Leaving
<1> QED
  BY <1>1, <1>2, <1>3, OnlyProcess DEF Joint, Rotation

LEMMA BeginRotationJoint ==
  ASSUME Joint, NEW p \in Process, BeginRotation(p)
  PROVE  Joint'
<1>1. /\ UNCHANGED <<run, result, video, child, lock, backend>>
      /\ pc[p] = "recording"
      /\ pc' = [pc EXCEPT ![p] = "between"]
      /\ rotating'
      /\ run = "reading" /\ video # <<>> /\ Head(video).last
  BY DEF BeginRotation, WriteLastAccessUnit, Goto, runVars, DataArrived
<1>2. JointTyped' /\ rotating' = TRUE
  BY <1>1 DEF BeginRotation, Joint, JointTyped, Phase
<1>3. (InStep(p) /\ FailureKnown(p))'
  BY <1>1, <1>2 DEF Joint, JointTyped, InStep, FailureKnown, Draining, Leaving
<1> QED
  BY <1>1, <1>2, <1>3, OnlyProcess DEF Joint, Rotation

LEMMA CloseJoint ==
  ASSUME Joint, NEW p \in Process, CloseRecorder(p)
  PROVE  Joint'
<1> USE DEF CloseRecorder, CloseMuxer, ReleaseLock, Gone, Goto, StorageOnly,
            runVars, UnlockedByClose
<1>1. JointTyped'
  BY DEF Joint, JointTyped, Phase
<1>2. Rotation'
  BY DEF Joint, Rotation
<1>3. (InStep(p) /\ FailureKnown(p))'
  BY DEF Joint, JointTyped, Rotation, InStep, FailureKnown, Draining, Leaving
<1> QED
  BY <1>1, <1>2, <1>3, OnlyProcess DEF Joint

LEMMA SignalJoint ==
  ASSUME Joint, NEW p \in Process, SignalProgram(p)
  PROVE  Joint'
<1> USE DEF SignalProgram, P!Signal, RunOnly, vars, P!pipeVars, P!backendVars
<1>1. JointTyped'
  BY DEF Joint, JointTyped, P!Phase
<1>2. Rotation'
  BY DEF Joint, Rotation
<1>3. (InStep(p) /\ FailureKnown(p))'
  BY DEF Joint, JointTyped, Rotation, InStep, FailureKnown, Draining, Leaving
<1> QED
  BY <1>1, <1>2, <1>3, OnlyProcess DEF Joint

LEMMA KillJoint ==
  ASSUME Joint, NEW p \in Process, KillProgram(p)
  PROVE  Joint'
<1>1. /\ pc' = [pc EXCEPT ![p] = "off"]
      /\ backend' = [backend EXCEPT ![p] = "none"]
      /\ lock' = IF backend[p] = "running" THEN OrphanedBackend ELSE Nobody
      /\ rotating' = FALSE
      /\ UNCHANGED <<result, child>>
      /\ \/ run' = "killed" /\ video' = <<>>
            /\ run \notin {"exited", "killed"}
         \/ UNCHANGED <<run, video>> /\ run = "exited"
  BY DEF KillProgram, Crash, Gone, Goto, P!Kill, runVars, P!backendVars
<1>2. JointTyped'
  BY <1>1, NoParts DEF Joint, JointTyped, Phase, P!Phase
<1>3. (InStep(p) /\ FailureKnown(p))'
  BY <1>1 DEF Joint, JointTyped, InStep, FailureKnown, Draining, Leaving,
              P!Phase, P!Alive
<1> QED
  BY <1>1, <1>2, <1>3, OnlyProcess DEF Joint, Rotation

LEMMA SenderStep ==
  ASSUME Joint, Sender, [P!Next]_(P!vars)
  PROVE  Sender'
<1>0. run = "launching" => child = "none"
  BY OneProgram DEF Joint, InStep
<1> USE DEF Sender, P!backendVars
<1>1. CASE P!Run
  BY <1>0, <1>1
     DEF P!Run, P!Launch, P!WriteConfig, P!WriteConfigFails, P!CheckStop,
         P!Block, P!Wake, P!ReadLength, P!ReadPacket, P!EndOfFile, P!WriteEnd,
         P!CloseConfig, P!CloseVideo, P!Wait, P!pipeVars
<1>2. CASE P!LaunchFails \/ P!WriteError \/ P!Signal \/ P!Kill
  BY <1>2 DEF P!LaunchFails, P!WriteError, P!Signal, P!Kill
<1>3. CASE P!Backend
  BY <1>3 DEF P!Backend, P!Exec, P!BackendEnds, P!ReadConfig, P!BeginPacket,
              P!FinishPacket, P!BrokenPipe, P!ObeyEnd, P!Exit
<1>4. CASE UNCHANGED P!vars
  BY <1>4 DEF P!vars
<1> QED
  BY <1>1, <1>2, <1>3, <1>4 DEF P!Next

LEMMA ChildStepJoint ==
  ASSUME Joint, Sender, NEW p \in Process, ChildStep(p)
  PROVE  Joint'
<1>1. /\ UNCHANGED <<pc, lock, backend, rotating, run, result>>
      /\ child \in P!Alive /\ child' \in P!Alive
      /\ \/ video' = video
         \/ \E x \in P!Part : video' = Append(video, x)
  <2>1. CASE P!Exec \/ P!ReadConfig
    BY <2>1 DEF ChildStep, RunOnly, vars, P!Exec, P!ReadConfig, P!Alive,
                P!pipeVars
  <2>2. ASSUME NEW kind \in P!Kind, P!BeginPacket(kind)
        PROVE  child \in P!Alive /\ child' = child
               /\ \E x \in P!Part : video' = Append(video, x)
    <3>1. [kind |-> kind, last |-> FALSE] \in P!Part
      BY DEF P!Part
    <3> QED
      BY <2>2, <3>1 DEF P!BeginPacket, P!Alive
  <2>3. ASSUME P!FinishPacket
        PROVE  child \in P!Alive /\ child' = child
               /\ \E x \in P!Part : video' = Append(video, x)
    <3>1. [kind |-> sending, last |-> TRUE] \in P!Part
      BY <2>3 DEF P!FinishPacket, Sender, P!Part
    <3> QED
      BY <2>3, <3>1 DEF P!FinishPacket, Sender, P!Alive
  <2> QED
    BY <2>1, <2>2, <2>3
       DEF ChildStep, RunOnly, vars, P!BeginPacket, P!FinishPacket
<1>2. JointTyped'
  BY <1>1, AppendedPart DEF Joint, JointTyped
<1>3. Rotation'
  BY <1>1, AppendedPart DEF Joint, JointTyped, Rotation
<1>4. (InStep(p) /\ FailureKnown(p))'
  BY <1>1 DEF Joint, JointTyped, InStep, FailureKnown, Draining, Leaving,
              P!Phase, P!Alive
<1> QED
  BY <1>2, <1>3, <1>4, OnlyProcess DEF Joint

LEMMA ChildEndJoint ==
  ASSUME Joint, NEW p \in Process,
         ChildObeys(p) \/ ChildBroken(p) \/ ChildEnds(p)
  PROVE  Joint'
<1>1. /\ UNCHANGED <<pc, rotating, run, result, video>>
      /\ child \in P!Alive /\ child' = "zombie"
      /\ ReleaseInherited(p)
  BY DEF ChildObeys, ChildBroken, ChildEnds, P!ObeyEnd, P!BrokenPipe,
         P!BackendEnds, P!Exit, P!Alive, P!pipeVars, ReleaseInherited,
         BackendExits, OrphanExits
<1>2. /\ UNCHANGED <<pc, rotating, run, result, video>>
      /\ child' \notin P!Alive
      /\ IF run = "killed"
           THEN lock' = Nobody /\ UNCHANGED backend
           ELSE UNCHANGED lock /\ backend' = [backend EXCEPT ![p] = "exited"]
                /\ backend[p] = "running"
  BY <1>1 DEF ReleaseInherited, BackendExits, OrphanExits, P!Alive
<1>3. JointTyped'
  BY <1>2 DEF Joint, JointTyped
<1>4. Rotation'
  BY <1>2 DEF Joint, Rotation
<1>5. (InStep(p) /\ FailureKnown(p))'
  BY <1>1, <1>2 DEF Joint, JointTyped, InStep, FailureKnown, Draining, Leaving
<1> QED
  BY <1>3, <1>4, <1>5, OnlyProcess DEF Joint

LEMMA JointStep ==
  ASSUME Joint, Sender, [RecordingNext]_recordingVars
  PROVE  Joint'
<1>1. CASE UNCHANGED recordingVars
  BY <1>1 DEF recordingVars, vars, runVars, Joint, JointTyped, Rotation,
              InStep, FailureKnown
<1>2. ASSUME NEW p \in Process, Program(p)
      PROVE  Joint'
  BY <1>2, StartJoint, OpenJoint, LaunchJoint, RunJoint, PacketJoint,
     BeginRotationJoint, CloseJoint DEF Program
<1> QED
  BY <1>1, <1>2, OpenJoint, LaunchJoint, PacketJoint, SignalJoint, KillJoint,
     ChildStepJoint, ChildEndJoint DEF RecordingNext

\* The invariant of the composition.
THEOREM RecordingInvariance == RecordingSpec => [](Joint /\ Sender)
<1>1. RecordingInit => Sender
  BY DEF RecordingInit, P!Init, Sender
<1>2. Joint /\ Sender /\ [RecordingNext]_recordingVars => (Joint /\ Sender)'
  BY JointStep, SenderStep, PipelineStep
<1> QED
  BY JointInit, <1>1, <1>2, PTL DEF RecordingSpec

-----------------------------------------------------------------------------
\* Every access unit the drain loop hands over (drain_video_pipe) meets an
\* open segment and a backend that was launched, whatever the rotations before.
THEOREM SegmentOpenWhileDraining == RecordingSpec => []DrainsIntoOpenSegment
<1>1. Joint => DrainsIntoOpenSegment
  BY DEF Joint, InStep, DrainsIntoOpenSegment, Draining, P!Alive
<1> QED
  BY RecordingInvariance, <1>1, PTL

\* The inherited descriptor of .lock keeps the storage locked for as long as
\* the backend lives, with its program or without.
THEOREM BackendHoldsLock == RecordingSpec => []BackendKeepsLock
<1>1. Joint => BackendKeepsLock
  <2> SUFFICES ASSUME Joint, child \in P!Alive
               PROVE  lock # Nobody
    BY DEF BackendKeepsLock
  <2>1. PICK p \in Process : TRUE
    BY OneProgram
  <2>2. /\ p # Nobody
        /\ OrphanedBackend # Nobody
    BY StorageRecorderAssumption
  <2>3. run \in {"launching", "exited", "killed"} \cup Draining \cup Leaving
    BY DEF Joint, JointTyped, P!Phase, Draining, Leaving
  <2> QED
    BY <2>1, <2>2, <2>3 DEF Joint, InStep, P!Alive
<1> QED
  BY RecordingInvariance, <1>1, PTL

\* A failed open(), rotation or write of the recorder ends run() with 1.
THEOREM FailuresAreReported == RecordingSpec => []StorageFailureReported
<1>1. Joint => StorageFailureReported
  BY DEF Joint, Rotation, FailureKnown, StorageFailureReported
<1> QED
  BY RecordingInvariance, <1>1, PTL
=============================================================================
