---------------------------- MODULE VoiceBridgeProofs ----------------------------
(***************************************************************************)
(* Theorems about VoiceBridge, for every number of follow-up turns and     *)
(* every configuration.  All of them rest on the inductive invariant IInv: *)
(* what holds at each await point of the main task.                        *)
(***************************************************************************)
EXTENDS VoiceBridge, TLAPS

(* Writing a line keeps the log a sequence of lines.                        *)
LEMMA WriteType ==
  ASSUME NEW line \in Lines, log \in Seq(Lines), Write(line)
  PROVE  log' \in Seq(Lines)
BY DEF Write

(* The invariant holds initially.                                          *)
LEMMA InitInv == Init => IInv
<1> SUFFICES ASSUME Init PROVE IInv
  OBVIOUS
<1> USE DEF Init, InitialState, At
<1>1. TypeOK
  <2>1. log \in Seq(Lines)
    OBVIOUS
  <2>2. followups \in 0..MaxFollowupTurns
    BY FollowupAssumption
  <2> QED
    BY <2>1, <2>2 DEF TypeOK, State, Points
<1>2. StateFollowsControl /\ DevicesAt /\ RoundsAt
  BY DEF StateFollowsControl, DevicesAt, RoundsAt
<1>3. TranscriptAt /\ FailureAt /\ NoAudioAtRest
  BY DEF TranscriptAt, FailureAt, RestartsArePaced, NoAudioAtRest
<1> QED
  BY <1>1, <1>2, <1>3 DEF IInv

(* Every step keeps the invariant: one case per action of the next-state   *)
(* relation.                                                               *)
LEMMA NextInv == IInv /\ [Next]_vars => IInv'
<1> SUFFICES ASSUME IInv, [Next]_vars PROVE IInv'
  OBVIOUS
<1> USE FollowupAssumption
    DEF IInv, TypeOK, StateFollowsControl, DevicesAt, RoundsAt, Announced,
        TranscriptAt, FailureAt, RestartsArePaced, NoAudioAtRest,
        local, history, beyond, vars
<1>1. CASE StopLoop
  BY <1>1 DEF StopLoop, At, Goto, Points
<1>2. CASE BeginCycle
  BY <1>2 DEF BeginCycle, Transition, AllowedNext, At, Goto, State, Points,
    Audio, Files
<1>3. CASE TempDirFails
  BY <1>3 DEF TempDirFails, At, Fail, Goto, Points
<1>4. CASE WakewordDetected
  BY <1>4 DEF WakewordDetected, ListenerGone, At, Goto, Points, Audio
<1>5. CASE WakewordFails
  BY <1>5 DEF WakewordFails, ListenerGone, At, Fail, Goto, Points, Audio
<1>6. CASE CloseOnShutdown
  <2>1. orphans' \subseteq Audio /\ leftBehind' \in BOOLEAN
    BY <1>6 DEF CloseOnShutdown, ListenerGone, Audio
  <2>2. /\ current' = "Idle" /\ tmp' = {} /\ devices' = {}
        /\ followups' = 0 /\ rounds' = 0 /\ pc' \in {"start", "exited"}
    BY <1>6 DEF CloseOnShutdown, At, Close, Transition, AllowedNext, Goto,
      CleanupTempDir, AfterCycle
  <2>3. UNCHANGED <<shutdown, failure, speech, transcript, lastMessage, log,
                    told, resetTried>>
    BY <1>6 DEF CloseOnShutdown
  <2>4. failure = "none"
    BY <1>6 DEF CloseOnShutdown, At
  <2> QED
    BY <2>1, <2>2, <2>3, <2>4 DEF At, State, Points, Files
<1>7. CASE BeginRound
  <2> USE <1>7 DEF BeginRound, Transition, AllowedNext, At, Goto,
    RoundMayBegin
  <2>1. rounds = followups
    OBVIOUS
  <2>2. /\ current' = "Recording" /\ pc' \in {"copy", "startChime"}
        /\ rounds' = followups + 1
    BY <2>1
  <2>3. TypeOK'
    <3>1. log' \in Seq(Lines)
      OBVIOUS
    <3>2. rounds' \in Nat
      BY <2>2
    <3> QED
      BY <2>2, <3>1, <3>2 DEF State, Points, Audio
  <2> QED
    BY <2>2, <2>3
<1>8. CASE CopySample
  BY <1>8 DEF CopySample, Transition, AllowedNext, At, Goto, State, Points,
    Files
<1>9. CASE StartChimeEnds
  BY <1>9 DEF StartChimeEnds, At, Goto, Points
<1>10. CASE OpenMic
  BY <1>10 DEF OpenMic, At, Goto, Points, Audio
<1>11. CASE \E heard \in BOOLEAN : CaptureEnds(heard)
  BY <1>11 DEF CaptureEnds, Transition, AllowedNext, At, Goto, State,
    Points, Audio, Files, ClosingTone
<1>12. CASE EndChimeEnds
  BY <1>12 DEF EndChimeEnds, Transition, AllowedNext, At, Goto, State,
    Points
<1>13. CASE ConversionDone
  BY <1>13 DEF ConversionDone, At, Goto, Points, Files, KeepsConverted
<1>14. CASE \E t \in {"none", "noise", "text"} : TranscriptionDone(t)
  BY <1>14 DEF TranscriptionDone, At, Goto, Remove, Points
<1>15. CASE AcceptTranscript
  BY <1>15 DEF AcceptTranscript, Transition, AllowedNext, At, Goto, Write,
    Remove, State, Points, Lines, SentToOpenClaw
<1>16. CASE CheckReset
  <2>1. log' \in Seq(Lines)
    BY <1>16 DEF CheckReset, Write, Lines
  <2> QED
    BY <1>16, <2>1 DEF CheckReset, At, Goto, Points
<1>17. CASE AttemptReset
  BY <1>17 DEF AttemptReset, At, Goto, ResetDue, Points
<1>18. CASE \E reply \in {"none", "text"} : BackendAnswers(reply)
  BY <1>18 DEF BackendAnswers, Transition, AllowedNext, At, Goto, State,
    Points
<1>19. CASE SkipBackend
  BY <1>19 DEF SkipBackend, Transition, AllowedNext, At, Goto, State, Points
<1>20. CASE NoReply
  BY <1>20 DEF NoReply, At, Goto, Write, Close, Transition, AllowedNext,
    CleanupTempDir, State, Points, Audio, Lines, AfterCycle, ToneForEmptyReply
<1>21. CASE EmptyChimeEnds
  BY <1>21 DEF EmptyChimeEnds, At, Close, Transition, AllowedNext, Goto,
    CleanupTempDir, State, Points, AfterCycle
<1>22. CASE SynthesisDone
  BY <1>22 DEF SynthesisDone, At, Goto, Points, Audio, Files
<1>23. CASE PlaybackDone
  BY <1>23 DEF PlaybackDone, At, Goto, Write, Remove, Close, Transition,
    AllowedNext, CleanupTempDir, State, Points, Lines, AfterCycle, StaysOpen
<1>24. CASE StepFails
  <2> USE <1>24 DEF StepFails, At, Goto, Fail
  <2>1. tmp' \subseteq Files
    BY DEF Remove, PartialOutput, Files
  <2>2. log' \in Seq(Lines)
    BY WriteType, "out:error" \in Lines DEF Lines
  <2>3. TypeOK'
    BY <2>1, <2>2 DEF Points
  <2> QED
    BY <2>3 DEF PartialOutput
<1>25. CASE StepCancelled
  <2> USE <1>25 DEF StepCancelled, At, Goto, Fail
  <2>1. tmp' \subseteq Files
    BY DEF PartialOutput, Files
  <2>2. log' \in Seq(Lines)
    BY WriteType, "out:error" \in Lines DEF Lines
  <2>3. TypeOK'
    BY <2>1, <2>2 DEF Points
  <2> QED
    BY <2>3 DEF Cancellable
<1>26. CASE CycleFailed
  BY <1>26 DEF CycleFailed, At, Goto, CleanupTempDir, Recover, Transition,
    AllowedNext, State, Points, Audio, AfterFailure, ErrorToneDue
<1>27. CASE ErrorChimeEnds
  BY <1>27 DEF ErrorChimeEnds, At, Recover, Transition, AllowedNext, Goto,
    State, Points, AfterFailure
<1>28. CASE RestartDelayOver
  BY <1>28 DEF RestartDelayOver, At, Goto, Points
<1>29. CASE RequestShutdown
  BY <1>29 DEF RequestShutdown, At
<1>30. CASE AnswerAges
  BY <1>30 DEF AnswerAges, At
<1>31. CASE KilledAndRestarted
  <2> USE <1>31 DEF KilledAndRestarted, At
  <2>1. TypeOK'
    <3>1. log' \in Seq(Lines)
      OBVIOUS
    <3>2. followups' \in 0..MaxFollowupTurns
      OBVIOUS
    <3>3. orphans' \subseteq Audio
      OBVIOUS
    <3> QED
      BY <3>1, <3>2, <3>3 DEF State, Points
  <2>2. StateFollowsControl' /\ DevicesAt' /\ RoundsAt'
    OBVIOUS
  <2>3. TranscriptAt' /\ FailureAt' /\ NoAudioAtRest'
    OBVIOUS
  <2> QED
    BY <2>1, <2>2, <2>3
<1>32. CASE OrphanExits
  BY <1>32 DEF OrphanExits, At
<1>33. CASE Terminated
  BY <1>33 DEF Terminated, At
<1>34. CASE UNCHANGED vars
  BY <1>34 DEF At
<1> QED
  BY <1>1, <1>2, <1>3, <1>4, <1>5, <1>6, <1>7, <1>8, <1>9, <1>10, <1>11,
     <1>12, <1>13, <1>14, <1>15, <1>16, <1>17, <1>18, <1>19, <1>20, <1>21,
     <1>22, <1>23, <1>24, <1>25, <1>26, <1>27, <1>28, <1>29, <1>30, <1>31,
     <1>32, <1>33, <1>34
     DEF Next, MainTask, Environment

(* The invariant holds in every reachable state.                           *)
THEOREM Inductive == Spec => []IInv
<1>1. Init => IInv
  BY InitInv
<1>2. IInv /\ [Next]_vars => IInv'
  BY NextInv
<1> QED
  BY <1>1, <1>2, PTL DEF Spec

(* Every variable keeps its type; in particular followup_turns never       *)
(* exceeds max_followup_turns.                                             *)
THEOREM TypeCorrect == Spec => []TypeOK
<1>1. IInv => TypeOK
  BY DEF IInv
<1> QED
  BY <1>1, Inductive, PTL

(* No transition the code asks for is ever refused: at every await point   *)
(* the state machine is in the state the code assumes.                     *)
THEOREM StateCorrect == Spec => []StateFollowsControl
<1>1. IInv => StateFollowsControl
  BY DEF IInv
<1> QED
  BY <1>1, Inductive, PTL

(* Whatever the service plays, it does not listen: at most one of its own  *)
(* listener, microphone, tone and speech is active, also after kills and   *)
(* restarts.  Orphans are not its own any more.                            *)
THEOREM EchoProtection == Spec => []NoEcho
<1>1. IInv => NoEcho
  BY DEF IInv, DevicesAt, NoEcho
<1> QED
  BY <1>1, Inductive, PTL

(* What is sent to the backend was spoken in this round, passed the        *)
(* filter, and its sending was announced by the closing tone.              *)
THEOREM Heard == Spec => []NothingSentUnheard
<1>1. IInv => NothingSentUnheard
  BY DEF IInv, TranscriptAt, Announced, NothingSentUnheard
<1> QED
  BY <1>1, Inductive, PTL

(* One wake word opens at most 1 + max_followup_turns rounds.              *)
THEOREM Bounded == Spec => []ChannelBounded
<1>1. IInv => ChannelBounded
  BY FollowupAssumption DEF IInv, TypeOK, RoundsAt, ChannelBounded, At
<1> QED
  BY <1>1, Inductive, PTL

(* A cycle that failed is followed by the restart delay before the next.   *)
THEOREM Paced == Spec => []RestartsArePaced
<1>1. IInv => RestartsArePaced
  BY DEF IInv, FailureAt
<1> QED
  BY <1>1, Inductive, PTL

(* Between cycles this process has no audio in its temporary directory,    *)
(* whatever a killed predecessor has left in its own.                      *)
THEOREM NothingAtRest == Spec => []NoAudioAtRest
<1>1. IInv => NoAudioAtRest
  BY DEF IInv
<1> QED
  BY <1>1, Inductive, PTL

(* The service starts as the conversation does.                            *)
LEMMA PromiseInit == Init => Promise!CInit
<1> SUFFICES ASSUME Init PROVE Promise!CInit
  OBVIOUS
<1>1. Over /\ pc = "start"
  BY DEF Init, InitialState, Over
<1> QED
  BY <1>1 DEF Promise!CInit, At

(* Every step is a step of the promise or leaves its variables alone.      *)
LEMMA PromiseNext ==
  IInv /\ IInv' /\ [Next]_vars => [Promise!CNext]_(Promise!cvars)
<1> SUFFICES ASSUME IInv, IInv', [Next]_vars
             PROVE  [Promise!CNext]_(Promise!cvars)
  OBVIOUS
<1> USE FollowupAssumption
    DEF IInv, TypeOK, StateFollowsControl, RoundsAt, TranscriptAt,
        local, history, beyond, vars, Over, Promise!CNext, Promise!cvars,
        Promise!Listen, Promise!Wake, Promise!Advance, Promise!Understand,
        Promise!Ask, Promise!Reply, Promise!Speak, Promise!FollowUp,
        Promise!CloseChannel
<1>1. CASE StopLoop
  BY <1>1 DEF StopLoop, At, Goto
<1>2. CASE BeginCycle
  BY <1>2 DEF BeginCycle, Transition, AllowedNext, At, Goto
<1>3. CASE TempDirFails
  BY <1>3 DEF TempDirFails, At, Fail, Goto
<1>4. CASE WakewordDetected
  BY <1>4 DEF WakewordDetected, At, Goto
<1>5. CASE WakewordFails
  BY <1>5 DEF WakewordFails, At, Fail, Goto
<1>6. CASE CloseOnShutdown
  BY <1>6 DEF CloseOnShutdown, At, Close, Transition, AllowedNext, Goto,
    CleanupTempDir, AfterCycle
<1>7. CASE BeginRound
  BY <1>7 DEF BeginRound, Transition, AllowedNext, At, Goto, RoundMayBegin
<1>8. CASE CopySample
  BY <1>8 DEF CopySample, Transition, AllowedNext, At, Goto
<1>9. CASE StartChimeEnds
  BY <1>9 DEF StartChimeEnds, At, Goto
<1>10. CASE OpenMic
  BY <1>10 DEF OpenMic, At, Goto
<1>11. CASE \E heard \in BOOLEAN : CaptureEnds(heard)
  BY <1>11 DEF CaptureEnds, Transition, AllowedNext, At, Goto, ClosingTone
<1>12. CASE EndChimeEnds
  BY <1>12 DEF EndChimeEnds, Transition, AllowedNext, At, Goto
<1>13. CASE ConversionDone
  BY <1>13 DEF ConversionDone, At, Goto, KeepsConverted
<1>14. CASE \E t \in {"none", "noise", "text"} : TranscriptionDone(t)
  BY <1>14 DEF TranscriptionDone, At, Goto, Remove
<1>15. CASE AcceptTranscript
  BY <1>15 DEF AcceptTranscript, Transition, AllowedNext, At, Goto, Write,
    Remove, SentToOpenClaw
<1>16. CASE CheckReset
  BY <1>16 DEF CheckReset, At, Goto, Write, ResetDue, CallsReset
<1>17. CASE AttemptReset
  BY <1>17 DEF AttemptReset, At, Goto, ResetDue
<1>18. CASE \E reply \in {"none", "text"} : BackendAnswers(reply)
  BY <1>18 DEF BackendAnswers, Transition, AllowedNext, At, Goto
<1>19. CASE SkipBackend
  BY <1>19 DEF SkipBackend, Transition, AllowedNext, At, Goto
<1>20. CASE NoReply
  BY <1>20 DEF NoReply, At, Goto, Write, Close, Transition, AllowedNext,
    CleanupTempDir, AfterCycle, ToneForEmptyReply
<1>21. CASE EmptyChimeEnds
  BY <1>21 DEF EmptyChimeEnds, At, Close, Transition, AllowedNext, Goto,
    CleanupTempDir, AfterCycle
<1>22. CASE SynthesisDone
  BY <1>22 DEF SynthesisDone, At, Goto
<1>23. CASE PlaybackDone
  BY <1>23 DEF PlaybackDone, At, Goto, Write, Remove, Close, Transition,
    AllowedNext, CleanupTempDir, AfterCycle, StaysOpen
<1>24. CASE StepFails
  BY <1>24 DEF StepFails, At, Write, Remove, Fail, Goto, LogsFailure,
    PartialOutput
<1>25. CASE StepCancelled
  <2> USE <1>25 DEF StepCancelled, Fail, Goto
  <2>1. Over' /\ pc' = "unwind"
    OBVIOUS
  <2>2. ~Over /\ current # "ListeningForWakeword"
    BY DEF Cancellable
  <2>3. Promise!CloseChannel
    BY <2>1, <2>2 DEF At
  <2> QED
    BY <2>3
<1>26. CASE CycleFailed
  BY <1>26 DEF CycleFailed, At, Goto, CleanupTempDir, Recover, Transition,
    AllowedNext, AfterFailure, ErrorToneDue
<1>27. CASE ErrorChimeEnds
  BY <1>27 DEF ErrorChimeEnds, At, Recover, Transition, AllowedNext, Goto,
    AfterFailure
<1>28. CASE RestartDelayOver
  BY <1>28 DEF RestartDelayOver, At, Goto
<1>29. CASE RequestShutdown
  BY <1>29 DEF RequestShutdown, At
<1>30. CASE AnswerAges
  BY <1>30 DEF AnswerAges, At
<1>31. CASE KilledAndRestarted
  BY <1>31 DEF KilledAndRestarted, At
<1>32. CASE OrphanExits
  BY <1>32 DEF OrphanExits
<1>33. CASE Terminated
  BY <1>33 DEF Terminated, At
<1>34. CASE UNCHANGED vars
  BY <1>34
<1> QED
  BY <1>1, <1>2, <1>3, <1>4, <1>5, <1>6, <1>7, <1>8, <1>9, <1>10, <1>11,
     <1>12, <1>13, <1>14, <1>15, <1>16, <1>17, <1>18, <1>19, <1>20, <1>21,
     <1>22, <1>23, <1>24, <1>25, <1>26, <1>27, <1>28, <1>29, <1>30, <1>31,
     <1>32, <1>33, <1>34
     DEF Next, MainTask, Environment

(* VoiceBridge implements the promise of Conversation.                     *)
THEOREM Implements == Spec => KeepsPromise
<1>1. Init => Promise!CInit
  BY PromiseInit
<1>2. IInv /\ IInv' /\ [Next]_vars => [Promise!CNext]_(Promise!cvars)
  BY PromiseNext
<1> QED
  BY <1>1, <1>2, Inductive, PTL DEF Spec, KeepsPromise, Promise!CSpec

(* Steps that neither change the state nor begin a round.                  *)
LEMMA NoNewWorkStep ==
  ASSUME IInv, Next, shutdown, shutdown'
  PROVE  rounds' <= rounds /\ (current = "Idle" => current' = "Idle")
<1> USE DEF At
<1>1. rounds \in Nat
  BY DEF IInv, TypeOK
<1>2. CASE \/ StopLoop \/ TempDirFails \/ WakewordDetected \/ WakewordFails
           \/ StartChimeEnds \/ OpenMic \/ ConversionDone
           \/ (\E t \in {"none", "noise", "text"} : TranscriptionDone(t))
           \/ CheckReset \/ AttemptReset \/ SynthesisDone \/ StepFails
           \/ StepCancelled \/ RestartDelayOver \/ RequestShutdown
           \/ AnswerAges \/ OrphanExits \/ Terminated
  BY <1>1, <1>2 DEF StopLoop, TempDirFails, WakewordDetected, WakewordFails,
       StartChimeEnds, OpenMic, ConversionDone, TranscriptionDone,
       CheckReset, AttemptReset, SynthesisDone, StepFails, StepCancelled,
       RestartDelayOver, RequestShutdown, AnswerAges, OrphanExits,
       Terminated, history, beyond, vars, KeepsConverted, CallsReset
<1>3. CASE \/ CopySample \/ EndChimeEnds \/ AcceptTranscript \/ SkipBackend
           \/ (\E heard \in BOOLEAN : CaptureEnds(heard))
           \/ (\E reply \in {"none", "text"} : BackendAnswers(reply))
  BY <1>1, <1>3 DEF CopySample, EndChimeEnds, AcceptTranscript, SkipBackend,
       CaptureEnds, BackendAnswers, history, IInv, StateFollowsControl,
         ClosingTone, SentToOpenClaw
<1>4. CASE \/ CloseOnShutdown \/ NoReply \/ EmptyChimeEnds \/ PlaybackDone
           \/ CycleFailed \/ ErrorChimeEnds
  BY <1>1, <1>4 DEF CloseOnShutdown, NoReply, EmptyChimeEnds, PlaybackDone,
       CycleFailed, ErrorChimeEnds, Close, Recover, Transition, AllowedNext,
         AfterCycle, AfterFailure, ToneForEmptyReply, StaysOpen, ErrorToneDue
<1>5. CASE BeginCycle \/ BeginRound \/ KilledAndRestarted
  BY <1>5 DEF BeginCycle, BeginRound, KilledAndRestarted, RoundMayBegin
<1> QED
  BY <1>2, <1>3, <1>4, <1>5 DEF Next, MainTask, Environment

(* After a signal no round and no cycle begins.                            *)
THEOREM NoNewWork == Spec => NoNewWorkAfterShutdown
<1>1. IInv /\ [Next]_vars =>
        [shutdown /\ shutdown' =>
           rounds' <= rounds /\ (current = "Idle" => current' = "Idle")]_vars
  BY NoNewWorkStep
<1> QED
  BY <1>1, Inductive, PTL DEF Spec, NoNewWorkAfterShutdown

(* The transcription log at each await point.                              *)
LEMMA InitLog == Init => LogAt
  BY DEF Init, LogAt, InitialState

(* Every step keeps the log as LogAt describes it.                         *)
LEMMA NextLog == IInv /\ LogAt /\ [Next]_vars => LogAt'
<1> SUFFICES ASSUME IInv, LogAt, [Next]_vars PROVE LogAt'
  OBVIOUS
<1> USE DEF IInv, TypeOK, StateFollowsControl, RoundsAt, TranscriptAt, LogAt,
            local, history, beyond, vars
<1>1. CASE StopLoop
  BY <1>1 DEF StopLoop, At, Goto
<1>2. CASE BeginCycle
  BY <1>2 DEF BeginCycle, Transition, AllowedNext, At, Goto
<1>3. CASE TempDirFails
  BY <1>3 DEF TempDirFails, At, Fail, Goto
<1>4. CASE WakewordDetected
  BY <1>4 DEF WakewordDetected, At, Goto
<1>5. CASE WakewordFails
  BY <1>5 DEF WakewordFails, At, Fail, Goto
<1>6. CASE CloseOnShutdown
  BY <1>6 DEF CloseOnShutdown, At, Close, Transition, AllowedNext, Goto,
    CleanupTempDir, AfterCycle
<1>7. CASE BeginRound
  BY <1>7 DEF BeginRound, Transition, AllowedNext, At, Goto, RoundMayBegin
<1>8. CASE CopySample
  BY <1>8 DEF CopySample, Transition, AllowedNext, At, Goto
<1>9. CASE StartChimeEnds
  BY <1>9 DEF StartChimeEnds, At, Goto
<1>10. CASE OpenMic
  BY <1>10 DEF OpenMic, At, Goto
<1>11. CASE \E heard \in BOOLEAN : CaptureEnds(heard)
  BY <1>11 DEF CaptureEnds, Transition, AllowedNext, At, Goto, ClosingTone
<1>12. CASE EndChimeEnds
  BY <1>12 DEF EndChimeEnds, Transition, AllowedNext, At, Goto
<1>13. CASE ConversionDone
  BY <1>13 DEF ConversionDone, At, Goto, KeepsConverted
<1>14. CASE \E t \in {"none", "noise", "text"} : TranscriptionDone(t)
  BY <1>14 DEF TranscriptionDone, At, Goto, Remove
<1>15. CASE AcceptTranscript
  BY <1>15 DEF AcceptTranscript, Transition, AllowedNext, At, Goto, Write,
    Remove, Silence, Question, SentToOpenClaw
<1>16. CASE CheckReset
  <2>1. {Append(l, "new") : l \in {<<"in:text">>}} \subseteq Question
    BY DEF Question
  <2> QED
    BY <1>16, <2>1 DEF CheckReset, At, Goto, Write, ResetDue, Question,
      CallsReset
<1>17. CASE AttemptReset
  BY <1>17 DEF AttemptReset, At, Goto, ResetDue
<1>18. CASE \E reply \in {"none", "text"} : BackendAnswers(reply)
  BY <1>18 DEF BackendAnswers, Transition, AllowedNext, At, Goto
<1>19. CASE SkipBackend
  BY <1>19 DEF SkipBackend, Transition, AllowedNext, At, Goto
<1>20. CASE NoReply
  BY <1>20 DEF NoReply, At, Goto, Write, Close, Transition, AllowedNext,
    CleanupTempDir, Closed, AfterCycle, ToneForEmptyReply
<1>21. CASE EmptyChimeEnds
  BY <1>21 DEF EmptyChimeEnds, At, Close, Transition, AllowedNext, Goto,
    CleanupTempDir, Closed, AfterCycle
<1>22. CASE SynthesisDone
  BY <1>22 DEF SynthesisDone, At, Goto
<1>23. CASE PlaybackDone
  BY <1>23 DEF PlaybackDone, At, Goto, Write, Remove, Close, Transition,
    AllowedNext, CleanupTempDir, Closed, AfterCycle, StaysOpen
<1>24. CASE StepFails
  BY <1>24 DEF StepFails, At, Write, Remove, Fail, Goto, LogsFailure,
    PartialOutput, Closed
<1>25. CASE StepCancelled
  BY <1>25 DEF StepCancelled, Write, Fail, Goto, LogsFailure, PartialOutput,
    Cancellable, Closed
<1>26. CASE CycleFailed
  BY <1>26 DEF CycleFailed, At, Goto, CleanupTempDir, Recover, Transition,
    AllowedNext, AfterFailure, ErrorToneDue
<1>27. CASE ErrorChimeEnds
  BY <1>27 DEF ErrorChimeEnds, At, Recover, Transition, AllowedNext, Goto,
    AfterFailure
<1>28. CASE RestartDelayOver
  BY <1>28 DEF RestartDelayOver, At, Goto
<1>29. CASE RequestShutdown
  BY <1>29 DEF RequestShutdown, At
<1>30. CASE AnswerAges
  BY <1>30 DEF AnswerAges, At
<1>31. CASE KilledAndRestarted
  BY <1>31 DEF KilledAndRestarted, At
<1>32. CASE OrphanExits
  BY <1>32 DEF OrphanExits
<1>33. CASE Terminated
  BY <1>33 DEF Terminated, At
<1>34. CASE UNCHANGED vars
  BY <1>34
<1> QED
  BY <1>1, <1>2, <1>3, <1>4, <1>5, <1>6, <1>7, <1>8, <1>9, <1>10, <1>11,
     <1>12, <1>13, <1>14, <1>15, <1>16, <1>17, <1>18, <1>19, <1>20, <1>21,
     <1>22, <1>23, <1>24, <1>25, <1>26, <1>27, <1>28, <1>29, <1>30, <1>31,
     <1>32, <1>33, <1>34
     DEF Next, MainTask, Environment

(* Only these steps end a cycle.                                           *)
LEMMA BackToIdle ==
  ASSUME IInv, Next, current # "Idle", current' = "Idle"
  PROVE  \/ CloseOnShutdown \/ NoReply \/ EmptyChimeEnds \/ PlaybackDone
         \/ CycleFailed \/ ErrorChimeEnds \/ KilledAndRestarted
<1>1. ASSUME \/ StopLoop \/ TempDirFails \/ WakewordDetected \/ WakewordFails
             \/ StartChimeEnds \/ OpenMic \/ ConversionDone
             \/ (\E t \in {"none", "noise", "text"} : TranscriptionDone(t))
             \/ CheckReset \/ AttemptReset \/ SynthesisDone \/ StepFails
             \/ StepCancelled \/ RestartDelayOver \/ RequestShutdown
             \/ AnswerAges \/ OrphanExits \/ Terminated
      PROVE  current' = current
  BY <1>1 DEF StopLoop, TempDirFails, WakewordDetected, WakewordFails,
       StartChimeEnds, OpenMic, ConversionDone, TranscriptionDone,
       CheckReset, AttemptReset, SynthesisDone, StepFails, StepCancelled,
       RestartDelayOver, RequestShutdown, AnswerAges, OrphanExits,
       Terminated, vars, KeepsConverted, CallsReset
<1>2. ASSUME \/ BeginCycle \/ BeginRound \/ CopySample \/ EndChimeEnds
             \/ (\E heard \in BOOLEAN : CaptureEnds(heard))
             \/ AcceptTranscript \/ SkipBackend
             \/ (\E reply \in {"none", "text"} : BackendAnswers(reply))
      PROVE  current' # "Idle"
  BY <1>2 DEF BeginCycle, BeginRound, CopySample, EndChimeEnds, CaptureEnds,
       AcceptTranscript, SkipBackend, BackendAnswers, Transition,
       AllowedNext, At, IInv, StateFollowsControl, RoundMayBegin,
         ClosingTone, SentToOpenClaw
<1> QED
  BY <1>1, <1>2 DEF Next, MainTask, Environment

(* The log lines that close a question, and a silence, are complete.       *)
LEMMA ClosedComplete ==
  Closed({"out:text", "out:skipped", "out:error"}) \subseteq CompleteLogs
BY DEF Closed, CompleteLogs, Question, Outputs

(* The last line of a closed question is its output line.                  *)
LEMMA ClosedLast ==
  ASSUME NEW o, NEW l \in Closed({o})
  PROVE  l[Len(l)] = o
BY DEF Closed, Question

(* A round without input ends with a skipped output line.                  *)
LEMMA SilenceComplete ==
  ASSUME NEW s \in Silence
  PROVE  /\ Append(s, "out:skipped") \in CompleteLogs
         /\ \A i \in DOMAIN Append(s, "out:skipped") :
              Append(s, "out:skipped")[i] # "in:text"
<1>1. {Append(l, "out:skipped") : l \in Silence} \subseteq CompleteLogs
  BY DEF Silence, CompleteLogs
<1>2. \A i \in DOMAIN Append(s, "out:skipped") :
        Append(s, "out:skipped")[i] # "in:text"
  BY DEF Silence
<1> QED
  BY <1>1, <1>2

(* Where a cycle may end, and what the log holds there.                    *)
LEMMA EndOfCycle ==
  ASSUME IInv, LogAt, Next, current # "Idle", current' = "Idle"
  PROVE  /\ log' \in CompleteLogs \union {<<>>}
         /\ /\ \E i \in DOMAIN log' : log'[i] = "in:text"
            /\ log'[Len(log')] # "out:text"
            => "basso" \in told' \/ failure = "shutdown"
<1> USE DEF At
<1>1. CASE CloseOnShutdown
  <2>1. log' = log /\ (log = <<>> \/ log \in Closed({"out:text"}))
    BY <1>1 DEF CloseOnShutdown, LogAt, IInv, TypeOK
  <2>2. CASE log = <<>>
    BY <2>1, <2>2
  <2>3. CASE log \in Closed({"out:text"})
    BY <2>1, <2>3, ClosedComplete, ClosedLast DEF Closed
  <2> QED
    BY <2>1, <2>2, <2>3
<1>2. CASE NoReply
  <2>1. log \in Silence /\ log' = Append(log, "out:skipped")
    BY <1>2 DEF NoReply, LogAt, Write, ToneForEmptyReply
  <2> QED
    BY <2>1, SilenceComplete
<1>3. CASE EmptyChimeEnds
  <2>1. log' \in Closed({"out:skipped"}) /\ "basso" \in told'
    BY <1>3 DEF EmptyChimeEnds, LogAt
  <2> QED
    BY <2>1, ClosedComplete DEF Closed
<1>4. CASE PlaybackDone
  <2>1. log' \in Closed({"out:text"})
    BY <1>4 DEF PlaybackDone, LogAt, Write, Closed, StaysOpen
  <2> QED
    BY <2>1, ClosedComplete, ClosedLast DEF Closed
<1>5. CASE CycleFailed
  <2>1. /\ log' = log /\ log \in {<<>>} \union Closed({"out:error"})
        /\ failure = "shutdown" \/ log = <<>>
    BY <1>5 DEF CycleFailed, LogAt, ErrorToneDue, IInv, TypeOK, FailureAt
  <2> QED
    BY <2>1, ClosedComplete DEF Closed
<1>6. CASE ErrorChimeEnds
  <2>1. /\ log' \in {<<>>} \union Closed({"out:error"})
        /\ "basso" \in told'
    BY <1>6 DEF ErrorChimeEnds, LogAt
  <2> QED
    BY <2>1, ClosedComplete DEF Closed
<1>7. CASE KilledAndRestarted
  <2>1. log' = <<>>
    BY <1>7 DEF KilledAndRestarted
  <2> QED
    BY <2>1
<1> QED
  BY <1>1, <1>2, <1>3, <1>4, <1>5, <1>6, <1>7, BackToIdle

(* LogAt holds in every reachable state.                                   *)
LEMMA LogInductive == Spec => []LogAt
<1>1. Init => LogAt
  BY InitLog
<1>2. IInv /\ LogAt /\ [Next]_vars => LogAt'
  BY NextLog
<1> QED
  BY <1>1, <1>2, Inductive, PTL DEF Spec

(* However a round ends, the transcription log pairs its input line with   *)
(* exactly one output line, or holds no line of it.                        *)
THEOREM LogsPaired == Spec => LogPairsLines
<1>1. IInv /\ LogAt /\ [Next]_vars =>
        [/\ current # "Idle" /\ current' = "Idle"
              => log' \in CompleteLogs \union {<<>>}
         /\ At("channel") /\ current' = "Recording"
              => log \in CompleteLogs \union {<<>>}]_vars
  <2> SUFFICES ASSUME IInv, LogAt, Next
               PROVE  /\ current # "Idle" /\ current' = "Idle"
                           => log' \in CompleteLogs \union {<<>>}
                      /\ At("channel") /\ current' = "Recording"
                           => log \in CompleteLogs \union {<<>>}
    OBVIOUS
  <2>1. At("channel") => log \in Closed({"out:text"}) \union {<<>>}
    BY DEF At, LogAt, IInv, TypeOK
  <2>2. Closed({"out:text"}) \subseteq CompleteLogs
    BY ClosedComplete DEF Closed
  <2> QED
    BY <2>1, <2>2, EndOfCycle
<1> QED
  BY <1>1, Inductive, LogInductive, PTL DEF Spec, LogPairsLines

(* A question that was asked and not answered aloud ends with the error    *)
(* tone, unless a signal ended the cycle.                                  *)
THEOREM FailuresAudible == Spec => NoSilentFailure
<1>1. IInv /\ LogAt /\ [Next]_vars =>
        [current # "Idle" /\ current' = "Idle"
           /\ (\E i \in DOMAIN log' : log'[i] = "in:text")
           /\ log'[Len(log')] # "out:text"
         => "basso" \in told' \/ failure = "shutdown"]_vars
  BY EndOfCycle
<1> QED
  BY <1>1, Inductive, LogInductive, PTL DEF Spec, NoSilentFailure

(* Only these steps lead to a point where a file of the cycle is wanted.   *)
LEMMA ToAReader ==
  ASSUME Next, pc' \in {"endChime", "convert", "transcribe", "play"}
  PROVE  \/ CopySample \/ EndChimeEnds \/ ConversionDone \/ SynthesisDone
         \/ \E heard \in BOOLEAN : CaptureEnds(heard)
         \/ UNCHANGED <<pc, tmp>>
<1> USE DEF Goto, At
<1>1. ASSUME \/ StopLoop \/ BeginCycle \/ TempDirFails \/ WakewordDetected
             \/ WakewordFails \/ CloseOnShutdown \/ BeginRound
             \/ StartChimeEnds \/ OpenMic
             \/ (\E t \in {"none", "noise", "text"} : TranscriptionDone(t))
             \/ AcceptTranscript \/ CheckReset \/ AttemptReset
      PROVE  FALSE
  BY <1>1 DEF StopLoop, BeginCycle, TempDirFails, WakewordDetected, Fail,
       WakewordFails, CloseOnShutdown, Close, AfterCycle, BeginRound,
       StartChimeEnds, OpenMic, TranscriptionDone, AcceptTranscript,
       CheckReset, AttemptReset
<1>2. ASSUME \/ (\E reply \in {"none", "text"} : BackendAnswers(reply))
             \/ SkipBackend \/ NoReply \/ EmptyChimeEnds \/ PlaybackDone
             \/ StepFails \/ StepCancelled \/ CycleFailed \/ ErrorChimeEnds
             \/ RestartDelayOver \/ KilledAndRestarted
      PROVE  FALSE
  BY <1>2 DEF BackendAnswers, SkipBackend, NoReply, EmptyChimeEnds,
       PlaybackDone, StepFails, StepCancelled, CycleFailed, ErrorChimeEnds,
       RestartDelayOver, KilledAndRestarted, Close, AfterCycle, Fail,
       Recover, AfterFailure
<1>3. ASSUME RequestShutdown \/ AnswerAges \/ OrphanExits \/ Terminated
      PROVE  UNCHANGED <<pc, tmp>>
  BY <1>3 DEF RequestShutdown, AnswerAges, OrphanExits, Terminated, vars
<1> QED
  BY <1>1, <1>2, <1>3 DEF Next, MainTask, Environment

(* A file the next tool reads is never removed before.                     *)
LEMMA NextFiles == FilesAt /\ [Next]_vars => FilesAt'
<1> SUFFICES ASSUME FilesAt, [Next]_vars PROVE FilesAt'
  OBVIOUS
<1> USE DEF FilesAt, FilesOutliveTheirReaders, At, Goto
<1>1. CASE UNCHANGED <<pc, tmp>>
  BY <1>1
<1>2. CASE CopySample \/ \E heard \in BOOLEAN : CaptureEnds(heard)
  BY <1>2 DEF CopySample, CaptureEnds
<1>3. CASE EndChimeEnds
  BY <1>3 DEF EndChimeEnds
<1>4. CASE ConversionDone
  BY <1>4 DEF ConversionDone, KeepsConverted
<1>5. CASE SynthesisDone
  BY <1>5 DEF SynthesisDone
<1>6. CASE pc' \notin {"endChime", "convert", "transcribe", "play"}
  BY <1>6
<1> QED
  BY <1>1, <1>2, <1>3, <1>4, <1>5, <1>6, ToAReader DEF vars

(* Each tool finds the file the step before has produced, whichever        *)
(* removals succeed, in both pipelines and in every follow-up round.       *)
THEOREM FilesThere == Spec => []FilesOutliveTheirReaders
<1>1. Init => FilesAt
  BY DEF Init, FilesAt, FilesOutliveTheirReaders, At
<1>2. FilesAt /\ [Next]_vars => FilesAt'
  BY NextFiles
<1>3. FilesAt => FilesOutliveTheirReaders
  BY DEF FilesAt
<1> QED
  BY <1>1, <1>2, <1>3, PTL DEF Spec

=============================================================================
