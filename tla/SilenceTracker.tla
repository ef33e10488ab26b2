--------------------------- MODULE SilenceTracker ---------------------------
(***************************************************************************)
(* The voice activity detection of src/src/vad.rs: how SilenceTracker      *)
(* decides, frame by frame, whether a recording goes on and whether it     *)
(* holds speech.  The energy of a frame and the noise floor it is compared *)
(* with are abstracted to their outcome, "loud" (rms >= threshold) or not, *)
(* so every noise floor the code can compute is covered; NoiseFloor adds   *)
(* the energy.  Who pushes frames is said there and in Recording.          *)
(***************************************************************************)
EXTENDS Naturals, Sequences, FiniteSets

CONSTANTS
  FrameMs,            \* vad.frame_ms
  SilenceTimeoutMs,   \* vad.silence_timeout_ms
  MaxRecordingMs,     \* vad.max_recording_seconds * 1000; 0 switches it off
  MinSpeechMs,        \* vad.min_speech_ms
  SpeechGapMs         \* vad.speech_gap_ms

(* Config::validate refuses frame_ms = 0.  max_recording_seconds * 1000 is *)
(* taken not to overflow.                                                  *)
ASSUME VadAssumption ==
  /\ FrameMs \in Nat \ {0}
  /\ SilenceTimeoutMs \in Nat /\ MaxRecordingMs \in Nat
  /\ MinSpeechMs \in Nat /\ SpeechGapMs \in Nat

VARIABLES
  elapsed,    \* elapsed_ms
  silence,    \* silence_ms
  speech,     \* speech_ms
  started,    \* speech_started
  decision,   \* what push_frame returned last
  frames      \* history: the frames pushed, TRUE where loud

counters == <<elapsed, silence, speech, started>>
tvars    == <<counters, decision, frames>>

Decision == {"Continue", "StopSilence", "StopMaxDuration"}

NewTracker ==
  /\ elapsed = 0 /\ silence = 0 /\ speech = 0
  /\ started = FALSE /\ decision = "Continue"
  /\ frames = <<>>

(* Faults: the gate that adds up scattered noise, the clock that is not    *)
(* reset by speech.                                                        *)
ScatteredNoise(loud) == IF loud THEN speech + FrameMs ELSE speech
ClockNeverReset(loud) == IF loud THEN silence ELSE silence + FrameMs

SilenceAfter(loud) == IF loud THEN 0 ELSE silence + FrameMs

(* Speech adds up over pauses shorter than speech_gap_ms.                  *)
SpeechAfter(loud) ==
  IF loud THEN speech + FrameMs
  ELSE IF silence + FrameMs >= SpeechGapMs THEN 0 ELSE speech

LimitReached(e) == MaxRecordingMs > 0 /\ e >= MaxRecordingMs

PushFrame(loud) ==
  /\ elapsed' = elapsed + FrameMs
  /\ silence' = SilenceAfter(loud)
  /\ speech' = SpeechAfter(loud)
  /\ started' = (started \/ (loud /\ speech' >= MinSpeechMs))
  /\ decision' = IF LimitReached(elapsed') THEN "StopMaxDuration"
                 ELSE IF silence' >= SilenceTimeoutMs THEN "StopSilence"
                 ELSE "Continue"
  /\ frames' = Append(frames, loud)

-----------------------------------------------------------------------------
Quiet(i, j) == \A k \in i..j : ~frames[k]
LoudMs(i, j) == FrameMs * Cardinality({k \in i..j : frames[k]})

(* From frame i to frame j there is no pause of speech_gap_ms or more.     *)
Unbroken(i, j) ==
  ~\E a, b \in i..j : /\ a <= b /\ Quiet(a, b)
                      /\ (b - a + 1) * FrameMs >= SpeechGapMs

-----------------------------------------------------------------------------
(* Properties.                                                             *)

TrackerTypeOK ==
  /\ elapsed \in Nat /\ silence \in Nat /\ speech \in Nat
  /\ started \in BOOLEAN /\ decision \in Decision
  /\ frames \in Seq(BOOLEAN)

(* What the four counters decide frame by frame is what the comments of    *)
(* vad.rs say about the recording as a whole: there is speech if and only  *)
(* if somewhere min_speech_ms of it lie together, no pause between them    *)
(* being as long as speech_gap_ms.  Scattered noise never adds up.         *)
SpeechMeansARun ==
  started <=> \E i, j \in DOMAIN frames :
                /\ i <= j /\ frames[j]
                /\ Unbroken(i, j) /\ LoudMs(i, j) >= MinSpeechMs

(* A recording is stopped for silence exactly when its last                *)
(* silence_timeout_ms were quiet: a speaker who pauses for less is never   *)
(* cut off, and one who said nothing does not hold the microphone open     *)
(* any longer.                                                             *)
StopsAfterSilence ==
  frames # <<>> =>
    (decision # "Continue" <=>
       \/ MaxRecordingMs > 0 /\ Len(frames) * FrameMs >= MaxRecordingMs
       \/ SilenceTimeoutMs = 0
       \/ \E i \in DOMAIN frames :
            /\ Quiet(i, Len(frames))
            /\ (Len(frames) - i + 1) * FrameMs >= SilenceTimeoutMs)

=============================================================================
