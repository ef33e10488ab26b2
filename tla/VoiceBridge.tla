----------------------------- MODULE VoiceBridge -----------------------------
(***************************************************************************)
(* The service task of src/src/main.rs: the main loop, one cycle           *)
(* (run_cycle, run_cycle_inner), one conversation round (run_round) and    *)
(* what it calls (record_until_silence, transcribe_recording,              *)
(* send_to_backend, speak_response).  `pc` names the await point at which  *)
(* the task is suspended; the code between two await points runs without   *)
(* interruption and is one action.  Beside the task run the signal         *)
(* handlers (RequestShutdown), time (AnswerAges) and, when MayCrash, a     *)
(* SIGKILL followed by a manual restart.                                   *)
(***************************************************************************)
EXTENDS StateMachine, Naturals, Sequences

CONSTANTS
  MaxFollowupTurns,   \* conversation.max_followup_turns
  Once,               \* --once
  DryRun,             \* --dry-run
  AudioPipeline,      \* openclaw.audio_pipeline: "local" or "gateway"
  Transport,          \* openclaw.transport: "cli" or "websocket"
  ResetEnabled,       \* openclaw.session_reset_after_secs > 0
  MayCrash            \* the process may be killed and started again

ASSUME FollowupAssumption == MaxFollowupTurns \in Nat

ASSUME ConfigAssumption ==
  /\ {Once, DryRun, ResetEnabled, MayCrash} \subseteq BOOLEAN
  /\ AudioPipeline \in {"local", "gateway"}
  /\ Transport \in {"cli", "websocket"}
  /\ AudioPipeline = "gateway" => Transport = "websocket"   \* validate()

VARIABLES
  pc,           \* the await point of the main task
  shutdown,     \* the AtomicBool set by the signal handlers
  failure,      \* the Err a cycle ended with, until the restart delay is over
  followups,    \* followup_turns
  speech,       \* speech_detected of the round
  transcript,   \* "none", "noise" (an ignored pattern) or "text"
  lastMessage,  \* last_openclaw_message_at: "never", "recent" or "stale"
  devices,      \* what this process currently has on microphone and speaker
  tmp,          \* the cycle's temporary directory ("dir") and its files
  (* history *)
  rounds,       \* rounds begun since the wake word
  log,          \* transcription-log lines of the round
  told,         \* tones started during the round
  resetTried,   \* outcome of the round's session reset: "no", "ok", "failed"
  (* out of this process's hands *)
  orphans,      \* child processes that have outlived their parent
  leftBehind    \* a killed predecessor's directory with its files is on disk

local   == <<failure, followups, speech, transcript, lastMessage>>
history == <<rounds, log, told, resetTried>>
beyond  == <<orphans, leftBehind>>
vars    == <<current, pc, shutdown, local, devices, tmp, history, beyond>>

Audio == {"listener", "mic", "chime", "basso", "speech"}
Files == {"dir", "raw", "converted", "reply"}
Lines == {"in:text", "in:skipped", "in:ignored", "new",
          "out:text", "out:skipped", "out:error"}
Points == {"start", "wakeword", "channel", "copy", "startChime", "micDelay",
           "capture", "endChime", "convert", "transcribe", "transcribed",
           "checkReset", "reset", "send", "skip", "unanswered",
           "emptyChime", "synthesize", "play", "unwind", "errorChime",
           "backoff", "exited"}

Init ==
  /\ InitialState
  /\ pc = "start" /\ shutdown = FALSE
  /\ failure = "none" /\ followups = 0
  /\ speech = FALSE /\ transcript = "none" /\ lastMessage = "never"
  /\ devices = {} /\ tmp = {}
  /\ rounds = 0 /\ log = <<>> /\ told = {} /\ resetTried = "no"
  /\ orphans = {} /\ leftBehind = FALSE

-----------------------------------------------------------------------------
(* Faults: what a plausible mistake would make of a definition below.  No   *)
(* specification uses them; they are there to show that the properties     *)
(* would notice.                                                           *)

LimitOffByOne == ~DryRun /\ followups <= MaxFollowupTurns
MicStaysOpen(heard) == IF heard THEN devices \union {"chime"} ELSE {}
FilterVerdictUnused == transcript # "none"
ConvertedDeletedEarly == AudioPipeline = "gateway"
SpeechFailureUnlogged == {"send"}
ToneOnlyIfUnsent == transcript # "text"
FlagUnchecked == TRUE
CleanupOnSuccessOnly == tmp' = IF failure = "none" THEN {} ELSE tmp
TranscriptionNotCancellable ==
  {"startChime", "micDelay", "capture", "endChime", "convert", "send",
   "synthesize", "play"}
OnceIgnored == "start"

-----------------------------------------------------------------------------
(* How a cycle ends.                                                       *)

At(p) == pc = p
Goto(p) == pc' = p

Write(line) == log' = Append(log, line)

(* tokio::fs::remove_file of some files: a failure is only logged.         *)
Remove(files) == \E gone \in SUBSET files : tmp' = tmp \ gone

(* cleanup_temp_dir removes the directory whatever the cycle's result.     *)
(* Taken to succeed: the code only logs a failure of remove_dir_all.       *)
CleanupTempDir == tmp' = {}

(* A step fails: the error propagates out of run_cycle_inner by `?`; all   *)
(* values the task owned (capture, child processes) are dropped.           *)
Fail(kind) ==
  /\ failure' = kind
  /\ devices' = {}
  /\ Goto("unwind")

(* What follows a cycle that ended well, and one that failed.              *)
AfterCycle == IF Once THEN "exited" ELSE "start"
AfterFailure ==
  IF Once THEN "exited" ELSE IF shutdown THEN "start" ELSE "backoff"

(* run_cycle_inner returns Ok: IDLE, the directory is removed, main loops. *)
Close ==
  /\ Transition("Idle")
  /\ CleanupTempDir
  /\ devices' = {}
  /\ followups' = 0 /\ rounds' = 0
  /\ Goto(AfterCycle)

(* `let _ = sm.transition(Idle)`, then the restart delay unless the loop   *)
(* is about to end.                                                        *)
Recover ==
  /\ Transition("Idle")
  /\ Goto(AfterFailure)
  /\ followups' = 0 /\ rounds' = 0

-----------------------------------------------------------------------------
(* Main loop and start of a cycle.                                         *)

StopLoop ==
  /\ At("start") /\ shutdown
  /\ Goto("exited")
  /\ UNCHANGED <<current, shutdown, local, devices, tmp, history, beyond>>

(* make_temp_dir, IDLE -> LISTENING_FOR_WAKEWORD, spawn of the listener.   *)
(* A dry run only pretends to have heard the wake word.                    *)
BeginCycle ==
  /\ At("start") /\ ~shutdown
  /\ tmp' = {"dir"}
  /\ Transition("ListeningForWakeword")
  /\ Goto(IF DryRun THEN "channel" ELSE "wakeword")
  /\ devices' = IF DryRun THEN {} ELSE {"listener"}
  /\ log' = <<>> /\ told' = {} /\ resetTried' = "no"
  /\ UNCHANGED <<shutdown, local, rounds, beyond>>

(* make_temp_dir fails before the state machine has left IDLE.             *)
TempDirFails ==
  /\ At("start") /\ ~shutdown
  /\ Fail("error")
  /\ UNCHANGED <<current, shutdown, followups, speech, transcript,
                 lastMessage, tmp, history, beyond>>

(* The listener is killed, but it has no process group: what it started    *)
(* itself, an ffmpeg on the microphone, may live on (wakeword.rs:40-44).   *)
ListenerGone ==
  /\ orphans' \in {orphans, orphans \union {"listener"}}
  /\ UNCHANGED leftBehind

WakewordDetected ==
  /\ At("wakeword")
  /\ devices' = {}
  /\ ListenerGone
  /\ Goto("channel")
  /\ UNCHANGED <<current, shutdown, local, tmp, history>>

(* The command cannot be started, ends without a trigger, unreadable pipe. *)
WakewordFails ==
  /\ At("wakeword")
  /\ Fail("error")
  /\ ListenerGone
  /\ UNCHANGED <<current, shutdown, followups, speech, transcript,
                 lastMessage, tmp, history>>

(* The shutdown branch of the select around wait_for_wakeword, and the     *)
(* flag checks before every round: the cycle ends with Ok.                 *)
CloseOnShutdown ==
  /\ At("wakeword") \/ At("channel")
  /\ shutdown
  /\ Close
  /\ IF At("wakeword") THEN ListenerGone ELSE UNCHANGED beyond
  /\ UNCHANGED <<shutdown, failure, speech, transcript, lastMessage, log,
                 told, resetTried>>

-----------------------------------------------------------------------------
(* run_round: recording.                                                   *)

RoundMayBegin == ~shutdown

BeginRound ==
  /\ At("channel") /\ RoundMayBegin
  /\ Transition("Recording")
  /\ rounds' = rounds + 1
  /\ log' = <<>> /\ resetTried' = "no"
  /\ speech' = FALSE /\ transcript' = "none"
  /\ Goto(IF DryRun THEN "copy" ELSE "startChime")
  /\ devices' = IF DryRun THEN {} ELSE {"chime"}
  /\ told' = IF DryRun THEN {} ELSE {"start"}
  /\ UNCHANGED <<shutdown, failure, followups, lastMessage, tmp, beyond>>

(* A dry run copies --dry-run-file and takes it for speech; no cancel.     *)
CopySample ==
  /\ At("copy")
  /\ tmp' = tmp \union {"raw"}
  /\ speech' = TRUE
  /\ Transition("Transcribing")
  /\ Goto("convert")
  /\ UNCHANGED <<shutdown, failure, followups, transcript, lastMessage,
                 devices, history, beyond>>

(* The start tone has been played, or failed and was only logged.          *)
StartChimeEnds ==
  /\ At("startChime")
  /\ devices' = {}
  /\ Goto("micDelay")
  /\ UNCHANGED <<current, shutdown, local, tmp, history, beyond>>

(* mic_open_delay_ms is over and start_capture succeeds.                   *)
OpenMic ==
  /\ At("micDelay")
  /\ devices' = {"mic"}
  /\ Goto("capture")
  /\ UNCHANGED <<current, shutdown, local, tmp, history, beyond>>

(* drop(capture) comes before the closing tone.                            *)
ClosingTone(heard) == IF heard THEN {"chime"} ELSE {}

(* The VAD or the end of the stream stops the recording; write_wav, then   *)
(* drop(capture), and only then the closing tone, if there was speech.     *)
CaptureEnds(heard) ==
  /\ At("capture")
  /\ tmp' = tmp \union {"raw"}
  /\ speech' = heard
  /\ Goto(IF heard THEN "endChime" ELSE "transcribed")
  /\ devices' = ClosingTone(heard)
  /\ told' = IF heard THEN told \union {"sent"} ELSE told
  /\ IF heard THEN UNCHANGED current ELSE Transition("Transcribing")
  /\ UNCHANGED <<shutdown, failure, followups, transcript, lastMessage,
                 rounds, log, resetTried, beyond>>

EndChimeEnds ==
  /\ At("endChime")
  /\ devices' = {}
  /\ Transition("Transcribing")
  /\ Goto("convert")
  /\ UNCHANGED <<shutdown, local, tmp, history, beyond>>

-----------------------------------------------------------------------------
(* run_round: transcription.                                               *)

KeepsConverted == AudioPipeline = "local"

(* ffmpeg has converted the recording.  The local pipeline keeps the file  *)
(* for whisper-cli, the gateway pipeline reads and removes it at once.     *)
ConversionDone ==
  /\ At("convert")
  /\ IF KeepsConverted
       THEN tmp' = tmp \union {"converted"}
       ELSE \E gone \in SUBSET {"converted"} :
              tmp' = (tmp \union {"converted"}) \ gone
  /\ Goto("transcribe")
  /\ UNCHANGED <<current, shutdown, local, devices, history, beyond>>

(* transcribe_recording returns; both recordings are removed.              *)
TranscriptionDone(t) ==
  /\ At("transcribe")
  /\ Remove(IF AudioPipeline = "local" THEN {"converted", "raw"} ELSE {"raw"})
  /\ transcript' = t
  /\ Goto("transcribed")
  /\ UNCHANGED <<current, shutdown, failure, followups, speech, lastMessage,
                 devices, history, beyond>>

SentToOpenClaw == transcript = "text"

(* The filter blanks an ignored transcript; the input line is logged; an   *)
(* empty transcript skips the backend.  Without speech the raw recording   *)
(* is removed here.                                                        *)
AcceptTranscript ==
  /\ At("transcribed")
  /\ IF speech THEN UNCHANGED tmp ELSE Remove({"raw"})
  /\ Write(CASE transcript = "noise" -> "in:ignored"
             [] transcript = "none"  -> "in:skipped"
             [] transcript = "text"  -> "in:text")
  /\ transcript' = IF transcript = "noise" THEN "none" ELSE transcript
  /\ Transition("SendingToOpenClaw")
  /\ Goto(IF SentToOpenClaw THEN "checkReset" ELSE "skip")
  /\ UNCHANGED <<shutdown, failure, followups, speech, lastMessage, devices,
                 rounds, told, resetTried, beyond>>

-----------------------------------------------------------------------------
(* run_round: the backend.                                                 *)

(* reset_due: time since the last answered message.                        *)
ResetDue == ResetEnabled /\ lastMessage = "stale"

(* The CLI path calls maybe_reset_session in any case.                     *)
CallsReset == ResetDue \/ Transport = "cli"

(* send_to_backend writes the marker first; maybe_reset_session asks the   *)
(* clock a second time.                                                    *)
CheckReset ==
  /\ At("checkReset")
  /\ IF ResetDue THEN Write("new") ELSE UNCHANGED log
  /\ Goto(IF CallsReset THEN "reset" ELSE "send")
  /\ UNCHANGED <<current, shutdown, local, devices, tmp, rounds, told,
                 resetTried, beyond>>

(* The reset message succeeds or fails; a failure, a cancelled reset       *)
(* included, is only logged and the round goes on.                         *)
AttemptReset ==
  /\ At("reset")
  /\ resetTried' \in IF Transport = "websocket" \/ ResetDue
                       THEN {"ok", "failed"} ELSE {"no"}
  /\ Goto("send")
  /\ UNCHANGED <<current, shutdown, local, devices, tmp, rounds, log, told,
                 beyond>>

(* The backend answers; only now is last_openclaw_message_at set.          *)
BackendAnswers(reply) ==
  /\ At("send")
  /\ lastMessage' = "recent"
  /\ Transition("Speaking")
  /\ Goto(IF reply = "none" THEN "unanswered" ELSE "synthesize")
  /\ UNCHANGED <<shutdown, failure, followups, speech, transcript, devices,
                 tmp, history, beyond>>

SkipBackend ==
  /\ At("skip")
  /\ Transition("Speaking")
  /\ Goto("unanswered")
  /\ UNCHANGED <<shutdown, local, devices, tmp, history, beyond>>

ToneForEmptyReply == transcript = "text"

(* An empty response: an error tone if the backend had been asked, and the *)
(* channel closes.                                                         *)
NoReply ==
  /\ At("unanswered")
  /\ Write("out:skipped")
  /\ \/ /\ ToneForEmptyReply
        /\ devices' = {"basso"}
        /\ told' = told \union {"basso"}
        /\ Goto("emptyChime")
        /\ UNCHANGED <<current, followups, tmp, rounds>>
     \/ /\ ~ToneForEmptyReply
        /\ Close
        /\ UNCHANGED told
  /\ UNCHANGED <<shutdown, failure, speech, transcript, lastMessage,
                 resetTried, beyond>>

EmptyChimeEnds ==
  /\ At("emptyChime")
  /\ Close
  /\ UNCHANGED <<shutdown, failure, speech, transcript, lastMessage, log,
                 told, resetTried, beyond>>

-----------------------------------------------------------------------------
(* run_round: speech output, and what follows an answered round.           *)

SynthesisDone ==
  /\ At("synthesize")
  /\ tmp' = tmp \union {"reply"}
  /\ devices' = {"speech"}
  /\ Goto("play")
  /\ UNCHANGED <<current, shutdown, local, history, beyond>>

StaysOpen == ~DryRun /\ followups < MaxFollowupTurns

(* The answer has been heard: the audio file goes, the success is logged;  *)
(* the channel stays open for a follow-up while the limit allows.          *)
PlaybackDone ==
  /\ At("play")
  /\ Write("out:text")
  /\ \/ /\ ~StaysOpen
        /\ Close
     \/ /\ StaysOpen
        /\ followups' = followups + 1
        /\ Remove({"reply"})
        /\ devices' = {}
        /\ Goto("channel")
        /\ UNCHANGED <<current, rounds>>
  /\ UNCHANGED <<shutdown, failure, speech, transcript, lastMessage, told,
                 resetTried, beyond>>

(* From sending on, a failed or cancelled step leaves an output line.      *)
LogsFailure == {"send", "synthesize", "play"}

(* Steps that may fail, and what a failing step may leave in the temporary *)
(* directory.                                                              *)
PartialOutput ==
  [p \in {"copy", "micDelay", "capture", "convert", "transcribe", "send",
          "synthesize", "play"} |->
     CASE p \in {"copy", "capture"} -> {"raw"}
       [] p = "convert"             -> {"converted"}
       [] p = "synthesize"          -> {"reply"}
       [] OTHER                     -> {}]

StepFails ==
  /\ pc \in DOMAIN PartialOutput
  /\ Fail("error")
  /\ IF At("play") THEN Remove({"reply"})
     ELSE \E part \in SUBSET PartialOutput[pc] : tmp' = tmp \union part
  /\ IF pc \in LogsFailure THEN Write("out:error") ELSE UNCHANGED log
  /\ UNCHANGED <<current, shutdown, followups, speech, transcript,
                 lastMessage, rounds, told, resetTried, beyond>>

(* The phases wrapped in cancellable(): once the flag is seen the phase is *)
(* dropped and the cycle ends with ShutdownRequested.                      *)
Cancellable == {"startChime", "micDelay", "capture", "endChime", "convert",
                "transcribe", "send", "synthesize", "play"}

StepCancelled ==
  /\ pc \in Cancellable /\ shutdown
  /\ Fail("shutdown")
  /\ \E part \in SUBSET (IF pc \in DOMAIN PartialOutput
                           THEN PartialOutput[pc] ELSE {}) :
       tmp' = tmp \union part
  /\ IF pc \in LogsFailure THEN Write("out:error") ELSE UNCHANGED log
  /\ UNCHANGED <<current, shutdown, followups, speech, transcript,
                 lastMessage, rounds, told, resetTried, beyond>>

-----------------------------------------------------------------------------
(* Main loop: a cycle that ended with an error.                            *)

ErrorToneDue == failure = "error" /\ current # "ListeningForWakeword"

(* The temporary directory is removed; the error tone plays unless the     *)
(* cycle was stopped by a signal or never left the wake-word phase.        *)
CycleFailed ==
  /\ At("unwind")
  /\ CleanupTempDir
  /\ \/ /\ ErrorToneDue
        /\ devices' = {"basso"}
        /\ told' = told \union {"basso"}
        /\ Goto("errorChime")
        /\ UNCHANGED <<current, followups, rounds>>
     \/ /\ ~ErrorToneDue
        /\ Recover
        /\ UNCHANGED <<devices, told>>
  /\ UNCHANGED <<shutdown, failure, speech, transcript, lastMessage, log,
                 resetTried, beyond>>

(* The error tone is not cancellable.                                      *)
ErrorChimeEnds ==
  /\ At("errorChime")
  /\ devices' = {}
  /\ Recover
  /\ UNCHANGED <<shutdown, failure, speech, transcript, lastMessage, tmp,
                 log, told, resetTried, beyond>>

(* sleep(restart_delay_ms), not cancellable either.                        *)
RestartDelayOver ==
  /\ At("backoff")
  /\ failure' = "none"
  /\ Goto("start")
  /\ UNCHANGED <<current, shutdown, followups, speech, transcript,
                 lastMessage, devices, tmp, history, beyond>>

-----------------------------------------------------------------------------
(* Beside the task.                                                        *)

(* SIGINT or SIGTERM: either handler stores TRUE, no one ever stores FALSE.*)
RequestShutdown ==
  /\ ~At("exited") /\ ~shutdown
  /\ shutdown' = TRUE
  /\ UNCHANGED <<current, pc, local, devices, tmp, history, beyond>>

(* session_reset_after_secs have passed since the last answered message.   *)
AnswerAges ==
  /\ lastMessage = "recent" /\ ~At("exited")
  /\ lastMessage' = "stale"
  /\ UNCHANGED <<current, pc, shutdown, failure, followups, speech,
                 transcript, devices, tmp, history, beyond>>

(* SIGKILL and a new start.  No destructor runs: the children live on; the *)
(* capture stream dies with the process, and the kernel frees the instance *)
(* lock.  The directory stays on disk with what is in it: nobody removes   *)
(* it, and its name is never used again.                                   *)
KilledAndRestarted ==
  /\ MayCrash /\ ~At("exited")
  /\ orphans' = orphans \union (devices \ {"mic"})
  /\ leftBehind' = (leftBehind \/ tmp # {})
  /\ current' = "Idle"
  /\ pc' = "start" /\ shutdown' = FALSE
  /\ failure' = "none" /\ followups' = 0
  /\ speech' = FALSE /\ transcript' = "none" /\ lastMessage' = "never"
  /\ devices' = {} /\ tmp' = {}
  /\ rounds' = 0 /\ log' = <<>> /\ told' = {} /\ resetTried' = "no"

OrphanExits ==
  /\ \E d \in orphans : orphans' = orphans \ {d}
  /\ UNCHANGED <<current, pc, shutdown, local, devices, tmp, history,
                 leftBehind>>

(* The process is gone.                                                    *)
Terminated == At("exited") /\ UNCHANGED vars

-----------------------------------------------------------------------------

MainTask ==
  \/ StopLoop \/ BeginCycle \/ TempDirFails
  \/ WakewordDetected \/ WakewordFails \/ CloseOnShutdown
  \/ BeginRound \/ CopySample \/ StartChimeEnds \/ OpenMic
  \/ \E heard \in BOOLEAN : CaptureEnds(heard)
  \/ EndChimeEnds \/ ConversionDone
  \/ \E t \in {"none", "noise", "text"} : TranscriptionDone(t)
  \/ AcceptTranscript \/ CheckReset
  \/ AttemptReset
  \/ \E reply \in {"none", "text"} : BackendAnswers(reply)
  \/ SkipBackend \/ NoReply \/ EmptyChimeEnds
  \/ SynthesisDone \/ PlaybackDone
  \/ StepFails \/ StepCancelled \/ CycleFailed
  \/ ErrorChimeEnds \/ RestartDelayOver

Environment ==
  \/ RequestShutdown \/ AnswerAges \/ KilledAndRestarted \/ OrphanExits

Next == MainTask \/ Environment \/ Terminated

Spec == Init /\ [][Next]_vars

(* Await points the code puts no bound on: the wake word, a stream that    *)
(* stops delivering samples, a write to Piper's stdin and the opening of a *)
(* WebSocket have no timeout of their own.                                 *)
Unbounded == {"wakeword", "capture", "convert", "transcribe", "reset", "send",
              "synthesize"}

(* What the shutdown flag interrupts: the select around the listener and   *)
(* every phase in cancellable(), a session reset included.                 *)
Interrupted ==
  CloseOnShutdown \/ StepCancelled \/ (shutdown /\ AttemptReset)

(* Everywhere else a timeout or the kernel ends the wait; wait_for_shutdown*)
(* polls the flag, so an interruption that stays possible happens.         *)
Fairness ==
  /\ WF_vars(MainTask /\ pc \notin Unbounded)
  /\ WF_vars(Interrupted)

FairSpec == Spec /\ Fairness

(* In addition the world may play along: the microphone delivers, the      *)
(* backend and the tools return something or fail.                         *)
Responsive == WF_vars(MainTask)

-----------------------------------------------------------------------------
(* Properties.                                                             *)

TypeOK ==
  /\ current \in State /\ pc \in Points /\ shutdown \in BOOLEAN
  /\ failure \in {"none", "error", "shutdown"}
  /\ followups \in 0..MaxFollowupTurns
  /\ speech \in BOOLEAN /\ transcript \in {"none", "noise", "text"}
  /\ lastMessage \in {"never", "recent", "stale"}
  /\ devices \subseteq Audio /\ tmp \subseteq Files
  /\ rounds \in Nat /\ log \in Seq(Lines)
  /\ told \subseteq {"start", "sent", "basso"}
  /\ resetTried \in {"no", "ok", "failed"}
  /\ orphans \subseteq Audio /\ leftBehind \in BOOLEAN

(* The code asks the state machine only for transitions the table allows   *)
(* and enters every phase in the state named after it: had one request     *)
(* been refused, `current` would lag behind the await point.  This is what *)
(* the two require() calls of run_cycle_inner and run_round rely on.       *)
StateFollowsControl ==
  /\ pc \in {"start", "backoff", "exited"} => current = "Idle"
  /\ pc = "wakeword" => current = "ListeningForWakeword"
  /\ pc = "channel" => current = IF rounds = 0 THEN "ListeningForWakeword"
                                               ELSE "Speaking"
  /\ pc \in {"copy", "startChime", "micDelay", "capture", "endChime"} =>
       current = "Recording"
  /\ pc \in {"convert", "transcribe", "transcribed"} =>
       current = "Transcribing"
  /\ pc \in {"checkReset", "reset", "send", "skip"} =>
       current = "SendingToOpenClaw"
  /\ pc \in {"unanswered", "emptyChime", "synthesize", "play"} =>
       current = "Speaking"
  /\ pc = "errorChime" => current # "ListeningForWakeword"

(* Echo protection: whatever the service plays, nothing listens.  At most  *)
(* one of wake-word listener, capture stream, tone and speech output is    *)
(* active.  This is about the children in the service's hands; of orphans, *)
(* a killed predecessor's or the listener's own ffmpeg, it does not hold.  *)
NoEcho == \A x, y \in devices : x = y

(* "No closing tone: nothing is sent" (README, table of tones): whatever   *)
(* goes to the backend was recorded with speech in this round, survived    *)
(* the filter, and its sending was announced; a dry run has no tones.      *)
NothingSentUnheard ==
  pc \in {"checkReset", "reset", "send"} =>
    /\ speech /\ transcript = "text"
    /\ DryRun \/ {"start", "sent"} \subseteq told

(* Every tool finds the file the previous step produced, although each     *)
(* file is deleted as soon as the code thinks it is no longer needed.      *)
FilesOutliveTheirReaders ==
  /\ At("convert") => "raw" \in tmp
  /\ At("transcribe") /\ AudioPipeline = "local" => "converted" \in tmp
  /\ At("play") => "reply" \in tmp

(* Between cycles the process has no audio on disk, even where deleting a  *)
(* single file failed or a step broke off half-way.  What killed           *)
(* predecessors left behind is excepted: it stays, against README.md:633.  *)
NoAudioAtRest ==
  pc \in {"start", "errorChime", "backoff", "exited"} => tmp = {}

(* The follow-up channel is bounded: never more than the first round and   *)
(* max_followup_turns further ones for one wake word.                      *)
ChannelBounded == rounds <= MaxFollowupTurns + 1

(* A failed cycle is never followed at once by the next: the restart delay *)
(* lies between them, or the loop ends.                                    *)
RestartsArePaced == At("start") /\ ~shutdown => failure = "none"

(* The lines of one round, in the order the code can write them.           *)
Outputs == {"out:text", "out:skipped", "out:error"}
CompleteLogs ==
  {<<"in:skipped", "out:skipped">>, <<"in:ignored", "out:skipped">>}
  \union {<<"in:text", o>> : o \in Outputs}
  \union {<<"in:text", "new", o>> : o \in Outputs}

(* By the time a round is over, because the next one begins or because the *)
(* cycle ends in whichever way, the transcription log pairs its input line *)
(* with exactly one output line; a round that fails before there is a      *)
(* transcript leaves no line.                                              *)
LogPairsLines ==
  [][/\ current # "Idle" /\ current' = "Idle"
          => log' \in CompleteLogs \union {<<>>}
     /\ At("channel") /\ current' = "Recording"
          => log \in CompleteLogs \union {<<>>}]_vars

(* A question that was sent and whose answer was not heard does not end in *)
(* silence: before the service is back in IDLE the error tone has started, *)
(* unless a signal ended the cycle.  The code does so on purpose also for  *)
(* an empty answer (main.rs:423-431); README.md:489-491 has not followed.  *)
NoSilentFailure ==
  [][current # "Idle" /\ current' = "Idle"
       /\ (\E i \in DOMAIN log' : log'[i] = "in:text")
       /\ log'[Len(log')] # "out:text"
     => "basso" \in told' \/ failure = "shutdown"]_vars

(* "Sent, but no answer" is toneless, says README.md:489-491, and Basso     *)
(* means that the cycle was aborted by an error (README.md:474).  The code *)
(* plays it on purpose (main.rs:423-431): EmptyReplyHasTone.cfg.           *)
EmptyReplyIsToneless ==
  /\ current = "Speaking" /\ transcript = "text"
  /\ log[Len(log)] = "out:skipped"
  => "basso" \notin told

(* The [NEW] marker shows where the old session's context no longer holds   *)
(* (transcript_log.rs:56-59): no session is reset without it.  On the CLI  *)
(* path the code may reset without it: ResetUnmarked.cfg.                  *)
ResetIsMarked ==
  resetTried = "ok" => \E i \in DOMAIN log : log[i] = "new"

(* After a signal the present cycle may end; no round and no cycle starts. *)
NoNewWorkAfterShutdown ==
  [][shutdown /\ shutdown' =>
       rounds' <= rounds /\ (current = "Idle" => current' = "Idle")]_vars

(* SIGINT and SIGTERM end the service, whatever the task is waiting for,   *)
(* unless a kill is quicker: only a kill makes the flag FALSE again.       *)
ShutdownExits == shutdown ~> At("exited") \/ ~shutdown

(* If devices, tools and backend respond, every conversation ends: the     *)
(* microphone does not stay in use by the service for ever.                *)
ConversationEnds == Responsive => (current = "Recording" ~> current = "Idle")

(* --once ends by itself: one cycle, whatever becomes of its steps, and    *)
(* then the process exits, if tools and backend respond.                   *)
OnceEnds == Responsive => <>At("exited")

-----------------------------------------------------------------------------
(* The inductive invariant: what is known at each await point.             *)

DevicesAt ==
  devices = CASE pc = "wakeword"                   -> {"listener"}
              [] pc \in {"startChime", "endChime"} -> {"chime"}
              [] pc = "capture"                    -> {"mic"}
              [] pc = "play"                       -> {"speech"}
              [] pc \in {"emptyChime", "errorChime"} -> {"basso"}
              [] OTHER                             -> {}

(* Rounds and follow-up turns advance together; only between an answer and *)
(* the next round is the follow-up already counted.                        *)
RoundsAt ==
  IF current \in {"Idle", "ListeningForWakeword"}
    THEN rounds = 0 /\ followups = 0
    ELSE rounds = IF At("channel") THEN followups ELSE followups + 1

Announced == speech /\ (DryRun \/ {"start", "sent"} \subseteq told)

(* How the transcript comes about: recorded, announced, understood.        *)
TranscriptAt ==
  /\ pc = "copy" => DryRun
  /\ pc \in {"startChime", "micDelay", "capture", "endChime"} =>
       ~DryRun /\ "start" \in told
  /\ pc \in {"copy", "startChime", "micDelay", "capture", "endChime"} =>
       transcript = "none"
  /\ pc \in {"endChime", "convert", "transcribe"} => Announced
  /\ pc = "transcribed" /\ transcript # "none" => Announced
  /\ pc \in {"checkReset", "reset", "send", "synthesize", "play"} =>
       Announced /\ transcript = "text"
  /\ pc = "skip" => transcript = "none"
  /\ pc = "emptyChime" => transcript = "text"

FailureAt ==
  /\ pc \notin {"unwind", "errorChime", "backoff", "start", "exited"} =>
       failure = "none"
  /\ pc = "unwind" => failure # "none"
  /\ pc = "errorChime" => failure = "error"
  /\ RestartsArePaced

(* The lines of the round at each await point; the error tone has started  *)
(* wherever a question was asked and its answer will not be heard.         *)
Question == {<<"in:text">>, <<"in:text", "new">>}
Closed(outs) == {Append(q, o) : q \in Question, o \in outs}
Silence == {<<"in:skipped">>, <<"in:ignored">>}

LogAt ==
  /\ \/ pc \in {"wakeword", "copy", "startChime", "micDelay", "capture",
                "endChime", "convert", "transcribe", "transcribed"}
     \/ pc = "channel" /\ rounds = 0
     \/ pc = "unwind" /\ current = "ListeningForWakeword"
     => log = <<>>
  /\ pc = "checkReset" => log = <<"in:text">>
  /\ pc \in {"reset", "send", "synthesize", "play"} => log \in Question
  /\ pc = "skip" => log \in Silence
  /\ pc = "unanswered" =>
       log \in IF transcript = "text" THEN Question ELSE Silence
  /\ pc = "emptyChime" => log \in Closed({"out:skipped"})
  /\ pc = "channel" /\ rounds > 0 => log \in Closed({"out:text"})
  /\ pc \in {"unwind", "errorChime"} /\ current # "Idle" =>
       log \in {<<>>} \union Closed({"out:error"})
  /\ pc \in {"emptyChime", "errorChime"} => "basso" \in told

(* The files that are read from here on.                                   *)
FilesAt ==
  /\ At("endChime") => "raw" \in tmp
  /\ FilesOutliveTheirReaders

IInv ==
  /\ TypeOK
  /\ StateFollowsControl
  /\ DevicesAt
  /\ RoundsAt
  /\ TranscriptAt
  /\ FailureAt
  /\ NoAudioAtRest

-----------------------------------------------------------------------------
(* The promise of Conversation, seen through await points and transcript.  *)

Over == current = "Idle" \/ pc \in {"unwind", "errorChime"}

Promise == INSTANCE Conversation WITH
  channel <- IF Over THEN "closed"
             ELSE IF current = "ListeningForWakeword" THEN "listening"
             ELSE "open",
  turns   <- IF Over THEN 0 ELSE rounds,
  stage   <- CASE pc \in {"checkReset", "reset"} -> "understood"
               [] At("send") -> "asked"
               [] pc \in {"unanswered", "emptyChime"}
                    /\ transcript = "text" -> "asked"
               [] pc \in {"synthesize", "play"} -> "replied"
               [] At("channel") /\ rounds > 0 -> "spoken"
               [] OTHER -> "silent"

KeepsPromise == Promise!CSpec
=============================================================================
