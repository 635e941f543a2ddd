----------------------------- MODULE Recording -----------------------------
(***************************************************************************)
(* One run of the program with --storage: RpiCamTsApp::run (Pipeline) and  *)
(* the storage recorder it owns (StorageRecorder), step by step together.  *)
(* The recorder is opened before the signal handlers are installed, a      *)
(* packet that fills its segment rotates inside the drain loop, and the    *)
(* recorder is closed once the backend has been waited for.  The backend   *)
(* is one process in both: its end is the end of the inherited lock.       *)
(*                                                                         *)
(* A packet that is being handled still counts as a part of the video      *)
(* pipe.                                                                   *)
(***************************************************************************)
EXTENDS StorageRecorder

CONSTANT VideoCapacity \* of Pipeline

VARIABLES
  run,      \* where run() is: pc of Pipeline
  result, stop, config, configOpen, video, videoOpen, writeEnd,
  child,    \* the backend process: backend of Pipeline
  status, sending,
  rotating  \* the packet at hand has filled its segment

P == INSTANCE Pipeline WITH pc <- run, backend <- child

runVars      == <<run, result, stop, config, configOpen, video, videoOpen,
                  writeEnd, child, status, sending>>
recordingVars == <<vars, runVars, rotating>>

ASSUME OneProgram == \E p \in Process : Process = {p}

RecordingInit == Init /\ P!Init /\ rotating = FALSE

StorageOnly(p) == UNCHANGED <<runVars, rotating>>
RunOnly(p)     == UNCHANGED <<vars, rotating>>

-----------------------------------------------------------------------------
(* open(), also inside rotate_if_needed                                    *)

Opening == run = "launching" \/ rotating

StartRecorder(p) ==
  /\ run = "launching"
  /\ Start(p)
  /\ StorageOnly(p)

OpenStep(p) ==
  /\ Opening
  /\ \/ LoadIndex(p) \/ RecoverIndex(p) \/ CreateIndex(p)
     \/ IndexesExhausted(p)
     \/ ChoosePath(p) \/ PathsExhausted(p) \/ ReserveRecord(p)
     \/ AppendRecord(p) \/ AppendFails(p)
     \/ BeginSave(p) \/ StageIndex(p) \/ PublishIndex(p)
     \/ OpenSegment(p)
  /\ StorageOnly(p)

OpenFault(p) ==
  /\ Opening
  /\ LoadFails(p) \/ ReserveFails(p) \/ SaveFails(p) \/ OpenSegmentFails(p)
  /\ StorageOnly(p)

-----------------------------------------------------------------------------
(* run()                                                                   *)

\* Once open() has returned true.
LaunchProgram(p) ==
  /\ pc[p] = "recording"
  /\ P!Launch
  /\ LaunchBackend(p)
  /\ UNCHANGED rotating

\* open() has returned false.
GiveUp(p) ==
  /\ pc[p] = "failed"
  /\ P!LaunchFails
  /\ RunOnly(p)

\* The directory or its lock; the signal handlers, the pipes or the fork.
LaunchFault(p) ==
  /\ pc[p] \in {"off", "recording"}
  /\ P!LaunchFails
  /\ RunOnly(p)

RunStep(p) ==
  /\ \/ P!WriteConfig \/ P!WriteConfigFails
     \/ P!CheckStop \/ P!Block \/ P!Wake \/ P!ReadLength \/ P!EndOfFile
     \/ P!WriteEnd \/ P!CloseConfig \/ P!CloseVideo \/ P!Wait
  /\ RunOnly(p)

DataArrived ==
  /\ run = "reading"
  /\ video # <<>> /\ Head(video) = [kind |-> "data", last |-> TRUE]
  /\ ~rotating

\* A packet that is skipped, kept for the next frame, or not for the recorder.
PassPacket(p) ==
  /\ ~rotating
  /\ P!ReadPacket
  /\ RunOnly(p)

RecordPacket(p) ==
  /\ DataArrived
  /\ P!ReadPacket
  /\ WriteAccessUnit(p)
  /\ UNCHANGED rotating

BeginRotation(p) ==
  /\ DataArrived
  /\ WriteLastAccessUnit(p)
  /\ rotating' = TRUE
  /\ UNCHANGED runVars

EndRotation(p) ==
  /\ rotating /\ pc[p] = "recording"
  /\ P!ReadPacket
  /\ rotating' = FALSE
  /\ UNCHANGED vars

RotationFailed_Ignored(p) ==
  /\ rotating /\ pc[p] = "failed"
  /\ P!ReadPacket
  /\ rotating' = FALSE
  /\ UNCHANGED vars

\* Without the end packet and wait().
RotationFailed_Returns(p) ==
  /\ rotating /\ pc[p] = "failed"
  /\ run' = "exited" /\ result' = 1
  /\ rotating' = FALSE
  /\ UNCHANGED <<vars, stop, config, configOpen, video, videoOpen, writeEnd,
                 child, status, sending>>

RotationFailed(p) ==
  /\ rotating /\ pc[p] = "failed"
  /\ P!WriteError
  /\ rotating' = FALSE
  /\ UNCHANGED vars

RecordFault_Ignored(p) ==
  /\ DataArrived
  /\ P!ReadPacket
  /\ WriteFails(p)
  /\ UNCHANGED rotating

RecordFault(p) ==
  /\ DataArrived
  /\ P!WriteError
  /\ WriteFails(p)
  /\ UNCHANGED rotating

CloseRecorder_BeforeWait(p) ==
  /\ run \in {"waiting", "exited"}
  /\ \/ pc[p] \in {"recording", "failed"} /\ buffered[p] = 0
        /\ Goto(p, "closing")
        /\ UNCHANGED <<diskVars, lock, index, cur, buffered, backend>>
     \/ ReleaseLock(p)
  /\ StorageOnly(p)

CloseRecorder_AfterSuccess(p) ==
  /\ run = "exited" /\ result = 0
  /\ CloseMuxer(p) \/ ReleaseLock(p)
  /\ StorageOnly(p)

\* close() at the end of run(), or the destructor after an early return.
CloseRecorder(p) ==
  /\ run = "exited"
  /\ CloseMuxer(p) \/ ReleaseLock(p)
  /\ StorageOnly(p)

-----------------------------------------------------------------------------
(* Signals and the backend                                                 *)

\* Before open() returns there is no handler: the signal kills the program.
SignalProgram(p) ==
  /\ run = "launching" => pc[p] = "recording"
  /\ P!Signal
  /\ RunOnly(p)

KillProgram(p) ==
  /\ pc[p] # "off"
  /\ Crash(p)
  /\ P!Kill \/ (run = "exited" /\ UNCHANGED runVars)
  /\ rotating' = FALSE

ChildStep(p) ==
  /\ \/ P!Exec \/ P!ReadConfig
     \/ \E kind \in P!Kind : P!BeginPacket(kind)
     \/ P!FinishPacket
  /\ RunOnly(p)

\* The child ends, and its copy of the lock's descriptor is closed.
ReleaseInherited(p) == IF run = "killed" THEN OrphanExits ELSE BackendExits(p)

ChildObeys(p) ==
  /\ P!ObeyEnd
  /\ ReleaseInherited(p)
  /\ UNCHANGED rotating

ChildBroken(p) ==
  /\ P!BrokenPipe
  /\ ReleaseInherited(p)
  /\ UNCHANGED rotating

ChildEnds(p) ==
  /\ P!BackendEnds
  /\ ReleaseInherited(p)
  /\ UNCHANGED rotating

-----------------------------------------------------------------------------
Program(p) ==
  \/ StartRecorder(p)
  \/ OpenStep(p)
  \/ LaunchProgram(p)
  \/ GiveUp(p)
  \/ RunStep(p)
  \/ PassPacket(p)
  \/ RecordPacket(p)
  \/ BeginRotation(p)
  \/ EndRotation(p)
  \/ RotationFailed(p)
  \/ CloseRecorder(p)

RecordingNext ==
  \E p \in Process :
    \/ Program(p)
    \/ OpenFault(p)
    \/ LaunchFault(p)
    \/ RecordFault(p)
    \/ SignalProgram(p)
    \/ KillProgram(p)
    \/ ChildStep(p)
    \/ ChildObeys(p)
    \/ ChildBroken(p)
    \/ ChildEnds(p)

\* As in Pipeline: run() is never stopped for ever, the backend starts, reads
\* and obeys its configuration pipe and goes on with a packet it has begun,
\* and the camera delivers frames.
RecordingSpec ==
  /\ RecordingInit
  /\ [][RecordingNext]_recordingVars
  /\ \A p \in Process :
       /\ WF_recordingVars(Program(p))
       /\ WF_recordingVars(P!Exec /\ RunOnly(p))
       /\ WF_recordingVars(P!ReadConfig /\ RunOnly(p))
       /\ WF_recordingVars(P!FinishPacket /\ RunOnly(p))
       /\ WF_recordingVars(P!BeginPacket("data") /\ RunOnly(p))
       /\ WF_recordingVars(ChildObeys(p))
       /\ WF_recordingVars(sending # "none" /\ ChildBroken(p))

-----------------------------------------------------------------------------
(* Properties                                                              *)

\* The recorder is only written to while its segment is open: in the drain
\* loop, between two packets, open() or the last rotation has succeeded.
DrainsIntoOpenSegment ==
  \A p \in Process :
    run \in {"check", "reading", "blocked"} /\ ~rotating
      => pc[p] = "recording" /\ backend[p] # "none"

\* While the backend lives nobody else can get the lock, however the program
\* has ended: neither the storage nor the camera is ever shared.
BackendKeepsLock == child \in P!Alive => lock # Nobody

\* A recorder that has failed is never closed with the exit code 0.
StorageFailureReported ==
  \A p \in Process : pc[p] = "failed" /\ run = "exited" => result = 1

\* However a run is brought to its end, by a stop, an error or a kill, and
\* wherever it then is, in a rotation too, the storage becomes free again.
RunReleasesStorage ==
  (stop \/ result = 1 \/ run = "killed") ~> (lock = Nobody)

\* The recorder inside run() is the StorageRecorder of the storage runs.  What
\* that module assumes of the backend follows here from the pipes: after a
\* failed operation it exits, and so does an orphan.
StorageImplemented == FairSpec

\* And run() with a recorder is the run() of Pipeline: a rotation, a failed
\* open() and a closing delay its steps but change none.
PipelineImplemented == P!StreamingSpec
=============================================================================
