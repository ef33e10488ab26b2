------------------------------ MODULE Recording ------------------------------
(***************************************************************************)
(* One recording: the real-time audio callback and the error callback of   *)
(* src/src/audio.rs on the device's threads, the ring buffer, Notify and   *)
(* flag between them and the main task, and the loop of                    *)
(* record_until_silence (src/src/main.rs) that drains the ring, cuts the   *)
(* samples into frames and asks the SilenceTracker.  A sample is its       *)
(* number in the order the device delivers them.                           *)
(***************************************************************************)
EXTENDS SilenceTracker

CONSTANTS
  RingCapacity,    \* sample_rate * channels * RING_BUFFER_SECONDS
  ScratchLen,      \* AUDIO_SCRATCH_LEN
  SampleRate,      \* the device's sample_rate
  Channels,        \* and channels; samples are interleaved over them
  SampleFormat,    \* "F32" or "I16"
  BufferSizes,     \* numbers of samples a callback may deliver
  MaxSamples       \* bound on the samples the device delivers, for TLC

ASSUME RecordingAssumption ==
  /\ RingCapacity \in Nat \ {0} /\ ScratchLen \in Nat \ {0}
  /\ SampleRate \in Nat \ {0} /\ Channels \in Nat \ {0}
  /\ RingCapacity % Channels = 0 /\ \A n \in BufferSizes : n % Channels = 0
  /\ BufferSizes \subseteq Nat \ {0} /\ MaxSamples \in Nat
  /\ SampleFormat \in {"F32", "I16"}

VARIABLES
  (* device threads *)
  cb,        \* data callback: "idle", "push", "count" or "notify"
  data,      \* samples of the callback's buffer not yet offered to the ring
  refused,   \* samples the last push_slice did not take, not yet counted
  err,       \* error callback: "none", "raised" (flag stored) or "done"
  (* shared *)
  ring,      \* the ring buffer
  dropped,   \* dropped_samples
  permit,    \* the permit stored in Notify
  ended,     \* the AtomicBool set by the error callback
  (* main task *)
  task,      \* where the recording loop is
  chunk,     \* chunk, filled by recv_into
  samples,   \* the recording
  frameBuf,  \* number of samples in frame_buf
  reported,  \* dropped_samples as read for the warning
  (* history *)
  produced   \* samples the device has delivered

device == <<cb, data, refused, err, produced>>
shared == <<ring, dropped, permit, ended>>
loop   == <<task, chunk, samples, frameBuf, reported>>
rvars  == <<device, shared, loop, tvars>>

RInit ==
  /\ cb = "idle" /\ data = <<>> /\ refused = 0 /\ err = "none"
  /\ ring = <<>> /\ dropped = 0 /\ permit = FALSE /\ ended = FALSE
  /\ task = "drain" /\ chunk = <<>> /\ samples = <<>> /\ frameBuf = 0
  /\ reported = 0 /\ produced = 0
  /\ NewTracker

Least(a, b) == IF a <= b THEN a ELSE b
Front(s, n) == SubSeq(s, 1, n)
Rest(s, n)  == SubSeq(s, n + 1, Len(s))

-----------------------------------------------------------------------------
(* Faults: a ring one sample too generous, a refusal that is not counted,  *)
(* notify_waiters in place of notify_one, an error that wakes nobody, a    *)
(* buffer that is used again without being cleared, a frame that lasts     *)
(* longer than it counts, a break that leaves the inner loop only.         *)

RoomOffByOne       == RingCapacity + 1 - Len(ring)
RefusalUncounted   == dropped' = dropped
NotifyWaitersOnly  == permit' = (permit \/ task = "wait")
ErrorWakesNobody   == permit' = permit
ChunkNotCleared    == chunk
FrameRoundedUp     == ((SampleRate * FrameMs + 999) \div 1000) * Channels
BreaksInnerLoop    == IF decision' = "Continue" THEN "analyse" ELSE "drain"

-----------------------------------------------------------------------------
(* The data callback.  After the stream has failed, or once the task has   *)
(* dropped it, the device starts no more callbacks.                        *)

StreamAlive == err = "none" /\ task \notin {"closed", "cancelled"}

Callback ==
  /\ cb = "idle" /\ StreamAlive
  /\ \E n \in BufferSizes :
       /\ produced + n <= MaxSamples
       /\ data' = [i \in 1..n |-> produced + i]
       /\ produced' = produced + n
  /\ cb' = "push"
  /\ UNCHANGED <<refused, err, shared, loop, tvars>>

(* An f32 buffer is offered at once; i16 samples are converted through the *)
(* scratch buffer and offered piece by piece.                              *)
Offered ==
  IF SampleFormat = "F32" THEN Len(data) ELSE Least(ScratchLen, Len(data))

Room == RingCapacity - Len(ring)

(* push_slice takes what there is room for; it never waits.                *)
PushSlice ==
  /\ cb = "push"
  /\ LET taken == Least(Offered, Room)
     IN  /\ ring' = ring \o Front(data, taken)
         /\ refused' = Offered - taken
  /\ data' = Rest(data, Offered)
  /\ cb' = "count"
  /\ UNCHANGED <<err, produced, dropped, permit, ended, loop, tvars>>

CountRefused == dropped' = dropped + refused

CountDropped ==
  /\ cb = "count"
  /\ CountRefused
  /\ refused' = 0
  /\ cb' = IF data = <<>> THEN "notify" ELSE "push"
  /\ UNCHANGED <<data, err, produced, ring, permit, ended, loop, tvars>>

(* Notify keeps one permit for a task that is not waiting yet.             *)
NotifyOne == permit' = TRUE

NotifyTask ==
  /\ cb = "notify"
  /\ NotifyOne
  /\ cb' = "idle"
  /\ UNCHANGED <<data, refused, err, produced, ring, dropped, ended, loop,
                 tvars>>

WakeOnError == NotifyOne

(* The error callback: first the flag, then the permit.                    *)
StreamFails ==
  /\ StreamAlive
  /\ ended' = TRUE
  /\ err' = "raised"
  /\ UNCHANGED <<cb, data, refused, produced, ring, dropped, permit, loop,
                 tvars>>

ErrorNotifies ==
  /\ err = "raised"
  /\ WakeOnError
  /\ err' = "done"
  /\ UNCHANGED <<cb, data, refused, produced, ring, dropped, ended, loop,
                 tvars>>

-----------------------------------------------------------------------------
(* drain_or_wait.                                                          *)

Goto(t) == task' = t

(* pop_slice until the ring is found empty.                                *)
PopSlice ==
  /\ task = "drain" /\ ring # <<>>
  /\ LET n == Least(ScratchLen, Len(ring))
     IN  chunk' = chunk \o Front(ring, n) /\ ring' = Rest(ring, n)
  /\ UNCHANGED <<device, dropped, permit, ended, task, samples, frameBuf,
                 reported, tvars>>

(* chunk.clear() before the next call.                                     *)
ClearedChunk == <<>>

RingFoundEmpty ==
  /\ task = "drain" /\ ring = <<>>
  /\ IF chunk # <<>>
       THEN /\ samples' = samples \o chunk
            /\ frameBuf' = frameBuf + Len(chunk)
            /\ chunk' = ClearedChunk
            /\ Goto("analyse")
       ELSE /\ Goto("check")
            /\ UNCHANGED <<chunk, samples, frameBuf>>
  /\ UNCHANGED <<device, shared, reported, tvars>>

CheckEnded ==
  /\ task = "check"
  /\ Goto(IF ended THEN "finish" ELSE "wait")
  /\ UNCHANGED <<device, shared, chunk, samples, frameBuf, reported, tvars>>

Notified ==
  /\ task = "wait" /\ permit
  /\ permit' = FALSE
  /\ Goto("drain")
  /\ UNCHANGED <<device, ring, dropped, ended, chunk, samples, frameBuf,
                 reported, tvars>>

-----------------------------------------------------------------------------
(* record_until_silence.                                                   *)

(* A frame is cut off to whole samples, but counts frame_ms in push_frame. *)
WholeSamples == ((SampleRate * FrameMs) \div 1000) * Channels

FrameSamples == IF WholeSamples > 1 THEN WholeSamples ELSE 1

(* break 'outer: a stop ends both loops.                                   *)
AfterFrame == IF decision' = "Continue" THEN "analyse" ELSE "finish"

Analyse ==
  /\ task = "analyse"
  /\ IF frameBuf >= FrameSamples
       THEN /\ \E loud \in BOOLEAN : PushFrame(loud)
            /\ frameBuf' = frameBuf - FrameSamples
            /\ Goto(AfterFrame)
       ELSE /\ Goto("drain")
            /\ UNCHANGED <<frameBuf, tvars>>
  /\ UNCHANGED <<device, shared, chunk, samples, reported>>

(* The warning about lost samples, the WAV file, drop(capture).            *)
Finish ==
  /\ task = "finish"
  /\ reported' = dropped
  /\ Goto("closed")
  /\ UNCHANGED <<device, shared, chunk, samples, frameBuf, tvars>>

(* The shutdown flag is seen while the task waits: the capture is dropped. *)
Cancelled ==
  /\ task = "wait"
  /\ Goto("cancelled")
  /\ UNCHANGED <<device, shared, chunk, samples, frameBuf, reported, tvars>>

Over == task \in {"closed", "cancelled"}

Stopped == Over /\ UNCHANGED rvars

-----------------------------------------------------------------------------

Device == Callback \/ PushSlice \/ CountDropped \/ NotifyTask
          \/ StreamFails \/ ErrorNotifies

Loop == PopSlice \/ RingFoundEmpty \/ CheckEnded \/ Notified
        \/ Analyse \/ Finish

RNext == Device \/ Loop \/ Cancelled \/ Stopped

RSpec == RInit /\ [][RNext]_rvars

(* The task is scheduled, and a callback that has begun runs to its end.   *)
RFairness ==
  /\ WF_rvars(Loop)
  /\ WF_rvars(PushSlice \/ CountDropped \/ NotifyTask)
  /\ WF_rvars(ErrorNotifies)

RFairSpec == RSpec /\ RFairness

-----------------------------------------------------------------------------
(* Properties.                                                             *)

RTypeOK ==
  /\ TrackerTypeOK
  /\ cb \in {"idle", "push", "count", "notify"}
  /\ err \in {"none", "raised", "done"}
  /\ task \in {"drain", "check", "wait", "analyse", "finish", "closed",
               "cancelled"}
  /\ data \in Seq(Nat) /\ chunk \in Seq(Nat) /\ samples \in Seq(Nat)
  /\ ring \in Seq(Nat) /\ Len(ring) <= RingCapacity
  /\ refused \in Nat /\ dropped \in Nat /\ reported \in Nat
  /\ produced \in Nat /\ frameBuf \in Nat
  /\ permit \in BOOLEAN /\ ended \in BOOLEAN

(* All samples on their way, in the order in which they travel.            *)
Stream == samples \o chunk \o ring \o data

(* Samples neither overtake nor repeat each other, whatever the callback   *)
(* and the loop do at the same time.                                       *)
InOrder == \A i, j \in DOMAIN Stream : i < j => Stream[i] < Stream[j]

(* Every sample the device delivered is in the recording, on its way to    *)
(* it, or counted in dropped_samples: none disappears unnoticed.           *)
NoneUnaccounted == Len(Stream) + refused + dropped = produced

(* The task never sleeps through its wake-up: if it waits while there are  *)
(* samples or the stream has ended, a permit is there or about to come.    *)
NoLostWakeup ==
  task = "wait" /\ (ring # <<>> \/ ended) =>
    permit \/ cb \in {"push", "count", "notify"} \/ err = "raised"

(* If the device reports an error, the recording ends, instead of hanging  *)
(* for a sample that never comes.                                          *)
ErrorEndsRecording == ended ~> Over

(* A full ring drops whole instants of the interleaved channels: what is   *)
(* recorded after a gap is still attributed to the right channel, and a    *)
(* recording that ends is one hound can finalize.  (It rests on ScratchLen *)
(* being a multiple of Channels, which 1024 is for one and two channels.)  *)
ChannelsAligned ==
  /\ \A i \in DOMAIN samples : (samples[i] - i) % Channels = 0
  /\ Len(samples) % Channels = 0

(* The tracker's clock is not behind the audio it has been shown, however  *)
(* the rate and the frame divide, so the limits it keeps are kept in time  *)
(* of the audio recorded; samples dropped at a full ring, and those still  *)
(* in it, are audio the tracker knows nothing of.  What is recorded and    *)
(* not yet shown to it while the loop waits is no whole frame.             *)
ClockFollowsAudio ==
  /\ (Len(samples) - frameBuf) * 1000 <= elapsed * SampleRate * Channels
  /\ task = "wait" => frameBuf < FrameSamples

(* Once max_recording_seconds of audio have been looked at, nothing more   *)
(* is recorded, and no more is recorded before every whole frame has been  *)
(* looked at.  Only the rest of the chunk in which the limit is reached    *)
(* may lie beyond it, for a chunk is recorded before it is cut into frames *)
(* (main.rs:671-691).                                                      *)
NothingBeyondTheLimit ==
  [][MaxRecordingMs > 0 /\ samples' # samples =>
       /\ (Len(samples) - frameBuf) * 1000
            < MaxRecordingMs * (SampleRate * Channels)
       /\ frameBuf < FrameSamples]_rvars
=============================================================================
