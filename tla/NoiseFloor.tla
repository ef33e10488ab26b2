----------------------------- MODULE NoiseFloor -----------------------------
(***************************************************************************)
(* SilenceTracker with the energy of the frames: the noise floor of vad.rs *)
(* follows every frame, quickly downwards and slowly upwards, and what     *)
(* counts as loud is measured against it.  Levels are multiples of a small *)
(* unit; the smoothing factors are quotients of integers.                  *)
(***************************************************************************)
EXTENDS SilenceTracker, FiniteSetsExt

CONSTANTS
  Levels,        \* the rms levels considered
  MinThreshold,  \* vad.silence_rms_threshold
  Margin,        \* vad.noise_floor_margin
  RiseAlpha,     \* vad.noise_floor_rise_alpha * Den
  FallAlpha,     \* vad.noise_floor_fall_alpha * Den
  Den,
  AdaptFrames,   \* frames after which the floor has risen to within Margin
  RecoverFrames, \* frames after which it has fallen to within Remainder
  Remainder

(* The factors' range is config.rs:75-86's; validate does not check it.    *)
ASSUME FloorAssumption ==
  /\ Levels \subseteq Nat
  /\ Margin \in Nat \ {0} /\ MinThreshold \in Nat
  /\ Den \in Nat \ {0} /\ RiseAlpha \in 1..Den /\ FallAlpha \in 1..Den
  /\ AdaptFrames \in Nat /\ RecoverFrames \in Nat /\ Remainder \in Nat

(* Where a floor goes with a frame of this level.                          *)
Smoothed(alpha, rms, from) == (alpha * rms + (Den - alpha) * from) \div Den

Followed(rms, from) == Smoothed(IF rms > from THEN RiseAlpha ELSE FallAlpha, rms, from)

(* Where it goes with n frames of one level.                               *)
Settling(rms, from) ==
  LET settled[n \in 0 .. AdaptFrames + RecoverFrames] ==
        IF n = 0 THEN from ELSE Followed(rms, settled[n - 1])
  IN  settled

(* What the two numbers of frames claim of levels and factors.             *)
ASSUME SettlingAssumption ==
  \A rms \in Levels :
    /\ rms < Settling(rms, 0)[AdaptFrames] + Margin
    /\ \A top \in Levels : Settling(rms, top)[RecoverFrames] <= rms + Remainder

VARIABLES
  floor,   \* noise_floor
  levels   \* history: the level of each frame

fvars == <<tvars, floor, levels>>

(* The threshold is formed before the frame has any influence on it.       *)
effective_threshold == Max({MinThreshold, floor + Margin})

(* Faults: the floor is kept from what counts as speech; the factors are   *)
(* exchanged.                                                              *)
OnlyQuietFrames(rms) ==
  IF rms >= effective_threshold THEN floor ELSE Followed(rms, floor)
Exchanged(rms) == Smoothed(IF rms > floor THEN FallAlpha ELSE RiseAlpha, rms, floor)

update_noise_floor(rms) == Followed(rms, floor)

push_frame(rms) ==
  /\ PushFrame(rms >= effective_threshold)
  /\ floor' = update_noise_floor(rms)
  /\ levels' = Append(levels, rms)

FloorInit == NewTracker /\ floor = 0 /\ levels = <<>>

FloorNext ==
  \/ decision = "Continue" /\ \E rms \in Levels : push_frame(rms)
  \/ decision # "Continue" /\ UNCHANGED fvars

FloorSpec == FloorInit /\ [][FloorNext]_fvars

-----------------------------------------------------------------------------
(* The last n frames before frame j all have this level.                   *)
SteadyBefore(j, n, level) ==
  j > n /\ \A k \in j - n .. j - 1 : levels[k] = level

(* A background noise of whatever level that lasts is no longer taken for  *)
(* speech once the floor has had time to rise, although every frame of it  *)
(* was above the threshold at first: it ends in silence instead of holding *)
(* the microphone until max_recording_seconds (vad.rs:62-71).              *)
SteadyNoiseIsQuiet ==
  \A j \in DOMAIN levels :
    SteadyBefore(j, AdaptFrames, levels[j]) => ~frames[j]

(* Soon after a loud passage the floor is back at the level of the room:   *)
(* whoever speaks then, by more than the margin above it, is heard.        *)
SpeakerIsHeard ==
  \A j \in DOMAIN levels : \A room \in Levels :
    /\ SteadyBefore(j, RecoverFrames, room)
    /\ levels[j] >= Max({MinThreshold, room + Margin + Remainder})
    => frames[j]
=============================================================================
