------------------------------ MODULE Pipeline ------------------------------
(***************************************************************************)
(* RpiCamTsApp::run from the fork of the camera backend to the exit code   *)
(* (app.cpp), with the processes, pipes and signals it depends on          *)
(* (mtxrpicam_process.cpp, packet_io.cpp, signal_handler.cpp).             *)
(*                                                                         *)
(* The backend is another program.  It is modelled from what run() expects *)
(* of it: it reads a configuration packet and writes video packets, it     *)
(* stops on an end packet or on the end of its configuration pipe unless   *)
(* it is in the middle of a packet, and it may end at any time.            *)
(*                                                                         *)
(* A video packet crosses the pipe in two parts, its length and the rest,  *)
(* and read_full() returns to its caller between them.  The configuration  *)
(* packet fits into its empty pipe.                                        *)
(***************************************************************************)
EXTENDS Integers, Sequences

CONSTANT VideoCapacity   \* parts the video pipe holds

ASSUME PipelineAssumption == VideoCapacity \in Nat \ {0}

VARIABLES
  pc,          \* where run() is
  result,      \* its result: the exit code
  stop,        \* g_stop_requested
  config,      \* packets in the configuration pipe: "c" and "e"
  configOpen,  \* run() has the write end of the configuration pipe
  video,       \* parts in the video pipe
  videoOpen,   \* run() has the read end of the video pipe
  writeEnd,    \* run() still has its copy of the write end of the video pipe
  backend,     \* the backend process
  status,      \* its exit status
  sending      \* the kind of the packet it is in the middle of

vars == <<pc, result, stop, config, configOpen, video, videoOpen, writeEnd,
          backend, status, sending>>

pipeVars    == <<config, configOpen, video, videoOpen, writeEnd>>
backendVars == <<backend, status, sending>>

\* "ready" stands for every kind that drain_video_pipe passes over, "error" for
\* the backend's 'e', "invalid" for a length read_video_packet rejects.
Kind == {"ready", "data", "error", "invalid"}

Part == [kind : Kind, last : BOOLEAN]

Phase == {
  "launching", \* the signal handlers are installed, the pipes exist
  "config",    \* about to write the configuration packet
  "check",     \* at the head of the drain loop
  "reading",   \* inside read_full, not in a system call
  "blocked",   \* inside read(), asleep
  "ending",    \* about to write the end packet
  "closing",   \* about to close config_pipe[1]
  "hangup",    \* about to close video_pipe[0]
  "waiting",   \* inside waitpid
  "exited",    \* run() has returned
  "killed"}

Alive == {"forked", "unconfigured", "streaming"}

Init ==
  /\ pc = "launching"
  /\ result = 0
  /\ stop = FALSE
  /\ config = <<>> /\ configOpen = TRUE
  /\ video = <<>> /\ videoOpen = TRUE
  /\ writeEnd = TRUE
  /\ backend = "none" /\ status = "none" /\ sending = "none"

-----------------------------------------------------------------------------
(* run(), up to the drain loop                                             *)

Launch_KeepsWriteEnd ==
  /\ pc = "launching"
  /\ pc' = "config"
  /\ backend' = "forked"
  /\ UNCHANGED <<result, stop, pipeVars, status, sending>>

\* fork, and close_fd of the two ends that belong to the backend.
Launch ==
  /\ pc = "launching"
  /\ pc' = "config"
  /\ backend' = "forked"
  /\ writeEnd' = FALSE
  /\ UNCHANGED <<result, stop, config, configOpen, video, videoOpen,
                 status, sending>>

LaunchFails ==
  /\ pc = "launching"
  /\ pc' = "exited"
  /\ result' = 1
  /\ configOpen' = FALSE /\ videoOpen' = FALSE /\ writeEnd' = FALSE
  /\ UNCHANGED <<stop, config, video, backendVars>>

WriteConfig ==
  /\ pc = "config"
  /\ backend \in Alive
  /\ config' = Append(config, "c")
  /\ pc' = "check"
  /\ UNCHANGED <<result, stop, configOpen, video, videoOpen, writeEnd,
                 backendVars>>

\* EPIPE: the backend is gone.
WriteConfigFails ==
  /\ pc = "config"
  /\ backend \notin Alive
  /\ result' = 1
  /\ pc' = "ending"
  /\ UNCHANGED <<stop, pipeVars, backendVars>>

-----------------------------------------------------------------------------
(* drain_video_pipe                                                        *)

CheckStop_OnlyInRead ==
  /\ pc = "check"
  /\ pc' = "reading"
  /\ UNCHANGED <<result, stop, pipeVars, backendVars>>

CheckStop ==
  /\ pc = "check"
  /\ pc' = IF stop THEN "ending" ELSE "reading"
  /\ UNCHANGED <<result, stop, pipeVars, backendVars>>

\* read() finds nothing to read, and the pipe has a writer.
Block ==
  /\ pc = "reading"
  /\ video = <<>>
  /\ backend \in Alive \/ writeEnd
  /\ pc' = "blocked"
  /\ UNCHANGED <<result, stop, pipeVars, backendVars>>

\* The sleep ends: there is something to read, or the last writer is gone.
Wake ==
  /\ pc = "blocked"
  /\ video # <<>> \/ (backend \notin Alive /\ ~writeEnd)
  /\ pc' = "reading"
  /\ UNCHANGED <<result, stop, pipeVars, backendVars>>

\* read_full returns the length of a packet.
ReadLength ==
  /\ pc = "reading"
  /\ video # <<>>
  /\ ~Head(video).last
  /\ video' = Tail(video)
  /\ IF Head(video).kind = "invalid"
       THEN pc' = "ending" /\ result' = 1
       ELSE pc' = "reading" /\ UNCHANGED result
  /\ UNCHANGED <<stop, config, configOpen, videoOpen, writeEnd, backendVars>>

\* read_full returns the rest of a packet, and the packet is handled.
ReadPacket ==
  /\ pc = "reading"
  /\ video # <<>>
  /\ Head(video).last
  /\ video' = Tail(video)
  /\ IF Head(video).kind = "error"
       THEN pc' = "ending" /\ result' = 1
       ELSE pc' = "check" /\ UNCHANGED result
  /\ UNCHANGED <<stop, config, configOpen, videoOpen, writeEnd, backendVars>>

\* The output cannot be written.
WriteError ==
  /\ pc = "reading"
  /\ video # <<>>
  /\ Head(video) = [kind |-> "data", last |-> TRUE]
  /\ video' = Tail(video)
  /\ pc' = "ending"
  /\ result' = 1
  /\ UNCHANGED <<stop, config, configOpen, videoOpen, writeEnd, backendVars>>

EndOfFile_NotAnError ==
  /\ pc = "reading"
  /\ video = <<>>
  /\ backend \notin Alive /\ ~writeEnd
  /\ pc' = "ending"
  /\ UNCHANGED <<result, stop, pipeVars, backendVars>>

\* The last writer has closed the pipe.  The end was wanted if a stop was.
EndOfFile ==
  /\ pc = "reading"
  /\ video = <<>>
  /\ backend \notin Alive /\ ~writeEnd
  /\ pc' = "ending"
  /\ result' = IF stop THEN result ELSE 1
  /\ UNCHANGED <<stop, pipeVars, backendVars>>

-----------------------------------------------------------------------------
(* run(), after the drain loop                                             *)

\* EPIPE is no error here.
WriteEnd ==
  /\ pc = "ending"
  /\ config' = IF backend \in Alive THEN Append(config, "e") ELSE config
  /\ pc' = "closing"
  /\ UNCHANGED <<result, stop, configOpen, video, videoOpen, writeEnd,
                 backendVars>>

CloseConfig ==
  /\ pc = "closing"
  /\ configOpen' = FALSE
  /\ pc' = "hangup"
  /\ UNCHANGED <<result, stop, config, video, videoOpen, writeEnd,
                 backendVars>>

CloseVideo_AfterWait ==
  /\ pc = "hangup"
  /\ pc' = "waiting"
  /\ UNCHANGED <<result, stop, pipeVars, backendVars>>

CloseVideo ==
  /\ pc = "hangup"
  /\ videoOpen' = FALSE
  /\ video' = <<>>
  /\ pc' = "waiting"
  /\ UNCHANGED <<result, stop, config, configOpen, writeEnd, backendVars>>

Wait_RawStatus ==
  /\ pc = "waiting"
  /\ backend = "zombie"
  /\ backend' = "reaped"
  /\ result' = IF status = "failed" THEN 127 ELSE result
  /\ pc' = "exited"
  /\ UNCHANGED <<stop, pipeVars, status, sending>>

Wait_ChildResult ==
  /\ pc = "waiting"
  /\ backend = "zombie"
  /\ backend' = "reaped"
  /\ result' = IF status = "failed" /\ ~stop THEN 1 ELSE 0
  /\ pc' = "exited"
  /\ UNCHANGED <<stop, pipeVars, status, sending>>

\* waitpid, called again after every EINTR.
Wait ==
  /\ pc = "waiting"
  /\ backend = "zombie"
  /\ backend' = "reaped"
  /\ result' = IF status = "failed" /\ ~stop THEN 1 ELSE result
  /\ pc' = "exited"
  /\ UNCHANGED <<stop, pipeVars, status, sending>>

-----------------------------------------------------------------------------
(* Signals                                                                 *)

\* SIGINT or SIGTERM.  Without SA_RESTART a sleeping read() returns EINTR, and
\* read_full then sees the flag.  The backend ignores the signal.
Signal ==
  /\ pc \notin {"exited", "killed"}
  /\ stop' = TRUE
  /\ pc' = IF pc = "blocked" THEN "ending" ELSE pc
  /\ UNCHANGED <<result, pipeVars, backendVars>>

\* SIGKILL: the descriptors are closed and nobody waits for the backend.
Kill ==
  /\ pc \notin {"exited", "killed"}
  /\ pc' = "killed"
  /\ configOpen' = FALSE /\ videoOpen' = FALSE /\ writeEnd' = FALSE
  /\ video' = <<>>
  /\ UNCHANGED <<result, stop, config, backendVars>>

-----------------------------------------------------------------------------
(* The backend                                                             *)

\* execl.
Exec ==
  /\ backend = "forked"
  /\ backend' = "unconfigured"
  /\ UNCHANGED <<pc, result, stop, pipeVars, status, sending>>

Exit(how) ==
  /\ backend' = "zombie"
  /\ status' = how
  /\ sending' = "none"
  /\ UNCHANGED <<pc, result, stop, pipeVars>>

\* _exit(127) when execl fails; later it may end by itself with any status.
BackendEnds ==
  /\ backend \in Alive
  /\ \/ Exit("failed")
     \/ backend # "forked" /\ Exit("ok")

ReadConfig ==
  /\ backend = "unconfigured"
  /\ config # <<>>
  /\ Head(config) = "c"
  /\ config' = Tail(config)
  /\ backend' = "streaming"
  /\ UNCHANGED <<pc, result, stop, configOpen, video, videoOpen, writeEnd,
                 status, sending>>

Room == videoOpen /\ Len(video) < VideoCapacity

BeginPacket(kind) ==
  /\ backend \in {"unconfigured", "streaming"}
  /\ backend = "unconfigured" => kind \in {"error", "invalid"}
  /\ sending = "none"
  /\ Room
  /\ video' = Append(video, [kind |-> kind, last |-> FALSE])
  /\ sending' = kind
  /\ UNCHANGED <<pc, result, stop, config, configOpen, videoOpen, writeEnd,
                 backend, status>>

FinishPacket ==
  /\ sending # "none"
  /\ Room
  /\ video' = Append(video, [kind |-> sending, last |-> TRUE])
  /\ sending' = "none"
  /\ UNCHANGED <<pc, result, stop, config, configOpen, videoOpen, writeEnd,
                 backend, status>>

\* EPIPE: SIGPIPE is ignored, and stays so across execl.
BrokenPipe ==
  /\ backend \in {"unconfigured", "streaming"}
  /\ ~videoOpen
  /\ Exit("failed")

ConfigEnds_ChildKeepsEnd == FALSE

\* run() had the only write end: the child closes its copy before execl.
ConfigEnds == config = <<>> /\ ~configOpen

\* An end packet, or the end of the configuration pipe.
ObeyEnd ==
  /\ backend \in {"unconfigured", "streaming"}
  /\ sending = "none"
  /\ \/ config # <<>> /\ Head(config) = "e"
     \/ ConfigEnds
  /\ Exit("ok")

-----------------------------------------------------------------------------
Run ==
  \/ Launch
  \/ WriteConfig
  \/ WriteConfigFails
  \/ CheckStop
  \/ Block
  \/ Wake
  \/ ReadLength
  \/ ReadPacket
  \/ EndOfFile
  \/ WriteEnd
  \/ CloseConfig
  \/ CloseVideo
  \/ Wait

Backend ==
  \/ Exec
  \/ BackendEnds
  \/ ReadConfig
  \/ \E kind \in Kind : BeginPacket(kind)
  \/ FinishPacket
  \/ BrokenPipe
  \/ ObeyEnd

Next ==
  \/ Run
  \/ LaunchFails
  \/ WriteError
  \/ Signal
  \/ Kill
  \/ Backend

Spec == Init /\ [][Next]_vars

-----------------------------------------------------------------------------
(* Properties                                                              *)

TypeOK ==
  /\ pc \in Phase
  /\ result \in {0, 1}
  /\ stop \in BOOLEAN
  /\ config \in Seq({"c", "e"})
  /\ configOpen \in BOOLEAN
  /\ video \in Seq(Part) /\ Len(video) <= VideoCapacity
  /\ videoOpen \in BOOLEAN
  /\ writeEnd \in BOOLEAN
  /\ backend \in Alive \cup {"none", "zombie", "reaped"}
  /\ status \in {"none", "ok", "failed"}
  /\ sending \in Kind \cup {"none"}

\* run() returns 0 only when someone asked it to stop: a backend that closes
\* its pipe, even with exit status 0, is a failure of the recording.
SuccessOnlyWhenStopped == pc = "exited" /\ result = 0 => stop

\* An error is reported whatever follows it: neither a stop that comes later
\* nor a clean end of the backend turns the exit code back to 0.
ErrorKept == [][result = 1 => result' = 1]_vars

Over == pc \in {"exited", "killed"}

\* README "Press Ctrl+C to stop it cleanly": after one signal run() returns.
StopHonoured == stop ~> Over

\* run() never waits for packets from a backend that is gone.
BackendEndNoticed == (backend = "zombie") ~> Over

\* run() never waits in waitpid for a backend that waits for it: one that is
\* blocked on a full video pipe is woken by the end of its reader.
WaitReturns == (pc = "waiting") ~> Over

\* A backend outlives a killed parent only until it notices, so that what it
\* inherited, the storage lock among it, is released.
OrphanEnds == (pc = "killed") ~> (backend \notin Alive)

-----------------------------------------------------------------------------
(* run() is never stopped for ever.  The backend starts, reads its         *)
(* configuration pipe and goes on with a packet it has begun; it need not  *)
(* produce packets.                                                        *)

FairSpec ==
  /\ Spec
  /\ WF_vars(Run)
  /\ WF_vars(Exec) /\ WF_vars(ReadConfig) /\ WF_vars(ObeyEnd)
  /\ WF_vars(FinishPacket) /\ WF_vars(sending # "none" /\ BrokenPipe)

\* The camera delivers frames.
StreamingSpec == FairSpec /\ WF_vars(BeginPacket("data"))
=============================================================================
