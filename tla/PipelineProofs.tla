--------------------------- MODULE PipelineProofs ---------------------------
(***************************************************************************)
(* The exit code of run(), for any capacity of the video pipe.             *)
(***************************************************************************)
EXTENDS Pipeline, TLAPS

\* Once the drain loop is over, a result that is still 0 stems from a stop.
EndedByStop ==
  pc \in {"ending", "closing", "hangup", "waiting", "exited"} /\ result = 0
    => stop

Inv == TypeOK /\ EndedByStop

LEMMA EmptyPipe ==
  ASSUME NEW T
  PROVE  <<>> \in Seq(T) /\ Len(<<>>) <= VideoCapacity
  BY PipelineAssumption

LEMMA InitInv == Init => Inv
<1> SUFFICES ASSUME Init PROVE Inv
  OBVIOUS
<1>1. video \in Seq(Part) /\ Len(video) <= VideoCapacity
  BY EmptyPipe DEF Init
<1>2. config \in Seq({"c", "e"})
  BY EmptyPipe DEF Init
<1>3. TypeOK
  BY <1>1, <1>2 DEF Init, TypeOK, Phase, Alive
<1>4. EndedByStop
  BY DEF Init, EndedByStop
<1> QED
  BY <1>3, <1>4 DEF Inv

\* What a step does to the video pipe leaves it within its capacity.
LEMMA TailTyped ==
  ASSUME TypeOK, video # <<>>, video' = Tail(video)
  PROVE  video' \in Seq(Part) /\ Len(video') <= VideoCapacity
  BY PipelineAssumption DEF TypeOK

LEMMA AppendTyped ==
  ASSUME TypeOK, Room, NEW part \in Part, video' = Append(video, part)
  PROVE  video' \in Seq(Part) /\ Len(video') <= VideoCapacity
  BY PipelineAssumption DEF TypeOK, Room

LEMMA RunTyped ==
  ASSUME TypeOK, Run \/ LaunchFails \/ WriteError
  PROVE  TypeOK'
<1> USE DEF TypeOK, Phase, Alive, backendVars, pipeVars
<1>1. CASE Launch BY <1>1 DEF Launch
<1>2. CASE LaunchFails BY <1>2 DEF LaunchFails
<1>3. CASE WriteConfig BY <1>3 DEF WriteConfig
<1>4. CASE WriteConfigFails BY <1>4 DEF WriteConfigFails
<1>5. CASE CheckStop BY <1>5 DEF CheckStop
<1>6. CASE Block BY <1>6 DEF Block
<1>7. CASE ReadLength BY <1>7, TailTyped DEF ReadLength
<1>8. CASE ReadPacket BY <1>8, TailTyped DEF ReadPacket
<1>9. CASE WriteError BY <1>9, TailTyped DEF WriteError
<1>10. CASE EndOfFile BY <1>10 DEF EndOfFile
<1>11. CASE WriteEnd BY <1>11 DEF WriteEnd
<1>12. CASE CloseConfig BY <1>12 DEF CloseConfig
<1>13. CASE CloseVideo BY <1>13, EmptyPipe DEF CloseVideo
<1>14. CASE Wait BY <1>14 DEF Wait
<1>15. CASE Wake BY <1>15 DEF Wake
<1> QED
  BY <1>1, <1>2, <1>3, <1>4, <1>5, <1>6, <1>7, <1>8, <1>9, <1>10, <1>11,
     <1>12, <1>13, <1>14, <1>15 DEF Run

LEMMA BackendTyped ==
  ASSUME TypeOK, Backend
  PROVE  TypeOK'
<1> USE DEF TypeOK, Phase, Alive, backendVars, pipeVars
<1>1. CASE Exec BY <1>1 DEF Exec
<1>2. CASE BackendEnds BY <1>2 DEF BackendEnds, Exit
<1>3. CASE ReadConfig BY <1>3 DEF ReadConfig
<1>4. ASSUME NEW kind \in Kind, BeginPacket(kind)
      PROVE  TypeOK'
  <2>1. [kind |-> kind, last |-> FALSE] \in Part
    BY DEF Part
  <2> QED
    BY <1>4, <2>1, AppendTyped DEF BeginPacket
<1>5. CASE FinishPacket
  <2>1. [kind |-> sending, last |-> TRUE] \in Part
    BY <1>5 DEF FinishPacket, Part
  <2> QED
    BY <1>5, <2>1, AppendTyped DEF FinishPacket
<1>6. CASE BrokenPipe BY <1>6 DEF BrokenPipe, Exit
<1>7. CASE ObeyEnd BY <1>7 DEF ObeyEnd, Exit
<1> QED
  BY <1>1, <1>2, <1>3, <1>4, <1>5, <1>6, <1>7 DEF Backend

LEMMA SignalTyped ==
  ASSUME TypeOK, Signal \/ Kill \/ UNCHANGED vars
  PROVE  TypeOK'
<1> USE DEF TypeOK, Phase, backendVars, pipeVars
<1>1. CASE Signal BY <1>1 DEF Signal
<1>2. CASE Kill BY <1>2, EmptyPipe DEF Kill
<1>3. CASE UNCHANGED vars BY <1>3 DEF vars
<1> QED
  BY <1>1, <1>2, <1>3

LEMMA StepTyped ==
  ASSUME TypeOK, [Next]_vars
  PROVE  TypeOK'
  BY RunTyped, BackendTyped, SignalTyped DEF Next

\* The steps that leave the drain loop set the result or have seen the flag.
\* Only Wait changes the result afterwards, and it never lowers it.
LEMMA StepEndedByStop ==
  ASSUME TypeOK, EndedByStop, [Next]_vars
  PROVE  EndedByStop'
<1> USE DEF TypeOK, EndedByStop
<1>1. CASE Launch \/ LaunchFails \/ WriteConfig \/ WriteConfigFails
  BY <1>1 DEF Launch, LaunchFails, WriteConfig, WriteConfigFails
<1>2. CASE CheckStop \/ Block \/ Wake
  BY <1>2 DEF CheckStop, Block, Wake
<1>3. CASE ReadLength \/ ReadPacket \/ WriteError
  BY <1>3 DEF ReadLength, ReadPacket, WriteError
<1>4. CASE EndOfFile
  BY <1>4 DEF EndOfFile
<1>5. CASE WriteEnd \/ CloseConfig \/ CloseVideo \/ Wait
  BY <1>5 DEF WriteEnd, CloseConfig, CloseVideo, Wait
<1>6. CASE Signal \/ Kill
  BY <1>6 DEF Signal, Kill
<1>7. CASE Backend
  BY <1>7 DEF Backend, Exec, BackendEnds, ReadConfig, BeginPacket,
              FinishPacket, BrokenPipe, ObeyEnd, Exit
<1>8. CASE UNCHANGED vars
  BY <1>8 DEF vars
<1> QED
  BY <1>1, <1>2, <1>3, <1>4, <1>5, <1>6, <1>7, <1>8 DEF Next, Run

LEMMA StepErrorKept ==
  ASSUME TypeOK, [Next]_vars
  PROVE  result = 1 => result' = 1
<1>1. CASE Run \/ LaunchFails \/ WriteError
  BY <1>1 DEF Run, LaunchFails, WriteError, Launch, WriteConfig,
              WriteConfigFails, CheckStop, Block, Wake, ReadLength,
              ReadPacket, EndOfFile, WriteEnd, CloseConfig, CloseVideo, Wait
<1>2. CASE Signal \/ Kill
  BY <1>2 DEF Signal, Kill
<1>3. CASE Backend
  BY <1>3 DEF Backend, Exec, BackendEnds, ReadConfig, BeginPacket,
              FinishPacket, BrokenPipe, ObeyEnd, Exit
<1>4. CASE UNCHANGED vars
  BY <1>4 DEF vars
<1> QED
  BY <1>1, <1>2, <1>3, <1>4 DEF Next

\* The inductive invariant holds throughout.
THEOREM PipelineInvariance == Spec => []Inv
<1>1. Inv /\ [Next]_vars => Inv'
  BY StepTyped, StepEndedByStop DEF Inv
<1> QED
  BY InitInv, <1>1, PTL DEF Spec

\* The state of run(), of the pipes and of the backend has its type; the video
\* pipe never holds more than its capacity.
THEOREM PipelineTypeCorrect == Spec => []TypeOK
<1>1. Inv => TypeOK
  BY DEF Inv
<1> QED
  BY PipelineInvariance, <1>1, PTL

\* The exit code 0 means that the recording was stopped on request.
THEOREM SuccessIsRequested == Spec => []SuccessOnlyWhenStopped
<1>1. Inv => SuccessOnlyWhenStopped
  BY DEF Inv, EndedByStop, SuccessOnlyWhenStopped
<1> QED
  BY PipelineInvariance, <1>1, PTL

\* No step, of whatever process, turns the exit code 1 back to 0.
THEOREM ErrorsPersist == Spec => ErrorKept
<1>1. Inv /\ [Next]_vars => [result = 1 => result' = 1]_vars
  BY StepErrorKept DEF Inv
<1> QED
  BY PipelineInvariance, <1>1, PTL DEF Spec, ErrorKept
=============================================================================
