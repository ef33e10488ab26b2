--------------------------- MODULE RecordingProofs ---------------------------
(***************************************************************************)
(* Theorems about Recording, for every ring, scratch and frame size, every *)
(* sequence of callbacks and every interleaving with the recording loop.   *)
(***************************************************************************)
EXTENDS Recording, SilenceTrackerProofs, Integers

(* What is known about the callback's buffer at each of its steps.         *)
BufferInv ==
  /\ cb \in {"idle", "notify"} => data = <<>>
  /\ cb # "count" => refused = 0

(* What is known about the permit when the loop has found the ring empty.  *)
PermitInv ==
  /\ task \in {"check", "wait"} /\ ring # <<>> => permit \/ cb # "idle"
  /\ task = "wait" /\ ended => permit \/ err = "raised"

(* While the tracker has not decided to stop, the limit is not reached;    *)
(* once it has, the loop pushes no more frames.                            *)
LimitInv ==
  /\ decision = "Continue" =>
       (MaxRecordingMs > 0 => elapsed < MaxRecordingMs)
  /\ decision # "Continue" => task \in {"finish", "closed"}

(* NoneUnaccounted, with the samples counted where they are.               *)
CountInv ==
  Len(samples) + Len(chunk) + Len(ring) + Len(data) + refused + dropped
    = produced

RInv == RTypeOK /\ BufferInv /\ PermitInv /\ CountInv /\ LimitInv

(* Splitting a sequence keeps its elements, and their number.              *)
LEMMA Split ==
  ASSUME NEW s \in Seq(Nat), NEW n \in 0..Len(s)
  PROVE  /\ Front(s, n) \in Seq(Nat) /\ Len(Front(s, n)) = n
         /\ Rest(s, n) \in Seq(Nat) /\ Len(Rest(s, n)) = Len(s) - n
BY DEF Front, Rest

(* Joining two sequences does, too.                                        *)
LEMMA Join ==
  ASSUME NEW s \in Seq(Nat), NEW t \in Seq(Nat)
  PROVE  s \o t \in Seq(Nat) /\ Len(s \o t) = Len(s) + Len(t)
OBVIOUS

(* A frame is a positive number of samples, whatever rate and frame_ms.    *)
LEMMA FrameIsWhole == FrameSamples \in Nat \ {0}
<1>1. SampleRate * FrameMs \in Nat
  BY RecordingAssumption, VadAssumption
<1>2. (SampleRate * FrameMs) \div 1000 \in Nat
  BY <1>1
<1>3. WholeSamples \in Nat
  BY <1>2, RecordingAssumption DEF WholeSamples
<1> QED
  BY <1>3 DEF FrameSamples

(* Pushing a frame keeps the types of the tracker and respects the limit.  *)
LEMMA PushFrameStep ==
  ASSUME TrackerTypeOK, NEW loud \in BOOLEAN, PushFrame(loud)
  PROVE  /\ TrackerTypeOK'
         /\ elapsed' = elapsed + FrameMs
         /\ decision' = "Continue" =>
              (MaxRecordingMs > 0 => elapsed' < MaxRecordingMs)
<1>1. /\ elapsed' \in Nat /\ silence' \in Nat /\ speech' \in Nat
  BY VadAssumption
     DEF TrackerTypeOK, PushFrame, SilenceAfter, SpeechAfter
<1>2. started' \in BOOLEAN
  BY Zenon DEF TrackerTypeOK, PushFrame
<1>3. decision' \in Decision
  BY DEF PushFrame, Decision
<1>4. frames' \in Seq(BOOLEAN)
  BY DEF TrackerTypeOK, PushFrame
<1>5. decision' = "Continue" => ~LimitReached(elapsed')
  BY DEF PushFrame
<1>6. MaxRecordingMs \in Nat
  BY VadAssumption
<1>7. decision' = "Continue" =>
        (MaxRecordingMs > 0 => elapsed' < MaxRecordingMs)
  BY <1>1, <1>5, <1>6 DEF LimitReached
<1>8. elapsed' = elapsed + FrameMs
  BY DEF PushFrame
<1> QED
  BY <1>1, <1>2, <1>3, <1>4, <1>7, <1>8 DEF TrackerTypeOK

(* The invariant holds initially.                                          *)
LEMMA RInitInv == RInit => RInv
<1> SUFFICES ASSUME RInit PROVE RInv
  OBVIOUS
<1>1. TrackerTypeOK
  <2>1. frames \in Seq(BOOLEAN)
    <3>1. <<>> \in Seq(BOOLEAN)
      OBVIOUS
    <3> QED
      BY <3>1 DEF RInit, NewTracker
  <2>2. started \in BOOLEAN /\ decision \in Decision
    BY DEF RInit, NewTracker, Decision
  <2>3. elapsed \in Nat /\ silence \in Nat /\ speech \in Nat
    BY DEF RInit, NewTracker
  <2> QED
    BY <2>1, <2>2, <2>3 DEF TrackerTypeOK
<1>2. RTypeOK
  <2>1. /\ data \in Seq(Nat) /\ ring \in Seq(Nat) /\ chunk \in Seq(Nat)
        /\ samples \in Seq(Nat) /\ Len(ring) = 0
    BY DEF RInit
  <2>2. permit \in BOOLEAN /\ ended \in BOOLEAN
    BY DEF RInit
  <2> QED
    BY <1>1, <2>1, <2>2, RecordingAssumption DEF RInit, RTypeOK
<1>3. BufferInv /\ PermitInv /\ CountInv
  BY DEF RInit, BufferInv, PermitInv, CountInv
<1>4. LimitInv
  BY VadAssumption DEF RInit, NewTracker, LimitInv
<1> QED
  BY <1>2, <1>3, <1>4 DEF RInv

(* A step that leaves tracker and task alone keeps LimitInv.               *)
LEMMA SameLimit ==
  ASSUME LimitInv, UNCHANGED <<tvars, task>>
  PROVE  LimitInv'
BY DEF LimitInv, tvars, counters

(* A step of the loop leaves LimitInv alone if the tracker has not stopped.*)
LEMMA LoopLimit ==
  ASSUME LimitInv, UNCHANGED tvars, task \notin {"finish", "closed"}
  PROVE  LimitInv'
BY DEF LimitInv, tvars, counters

(* The tracker keeps its types where it is left alone.                     *)
LEMMA SameTracker ==
  ASSUME TrackerTypeOK, UNCHANGED tvars
  PROVE  TrackerTypeOK'
BY DEF TrackerTypeOK, tvars, counters

(* Every step keeps the invariant: one case per action.                    *)
LEMMA RNextInv == RInv /\ [RNext]_rvars => RInv'
<1> SUFFICES ASSUME RInv, [RNext]_rvars PROVE RInv'
  OBVIOUS
<1>a. RTypeOK /\ TrackerTypeOK /\ BufferInv /\ PermitInv /\ CountInv /\ LimitInv
  BY DEF RInv, RTypeOK
<1>b. /\ RingCapacity \in Nat \ {0} /\ ScratchLen \in Nat \ {0}
      /\ FrameSamples \in Nat \ {0} /\ BufferSizes \subseteq Nat \ {0}
  BY RecordingAssumption, FrameIsWhole
<1>c. /\ Len(samples) \in Nat /\ Len(chunk) \in Nat /\ Len(ring) \in Nat
      /\ Len(data) \in Nat /\ refused \in Nat /\ dropped \in Nat
      /\ produced \in Nat
  BY <1>a DEF RTypeOK
<1>1. CASE Callback
  <2>1. PICK n \in BufferSizes :
          /\ data' = [i \in 1..n |-> produced + i]
          /\ produced' = produced + n
    BY <1>1 DEF Callback
  <2>2. data' \in Seq(Nat) /\ Len(data') = n /\ produced' \in Nat
    <3>1. n \in Nat /\ produced \in Nat
      BY <1>a, <1>b DEF RTypeOK
    <3> QED
      BY <2>1, <3>1
  <2>3. data = <<>>
    BY <1>1, <1>a DEF Callback, BufferInv
  <2>4. TrackerTypeOK' /\ LimitInv'
    BY <1>1, <1>a, SameTracker, SameLimit DEF Callback, loop
  <2>5. RTypeOK'
    BY <1>1, <1>a, <2>2, <2>4 DEF Callback, RTypeOK, shared, loop
  <2>6. BufferInv' /\ PermitInv'
    BY <1>1, <1>a DEF Callback, BufferInv, PermitInv, shared, loop
  <2>7. CountInv'
    <3>1. Len(data) = 0
      BY <2>3
    <3>2. UNCHANGED <<samples, chunk, ring, refused, dropped>>
      BY <1>1 DEF Callback, shared, loop
    <3>3. Len(data') = n /\ produced' = produced + n /\ n \in Nat
      BY <1>b, <2>1, <2>2
    <3> QED
      BY <1>a, <1>c, <3>1, <3>2, <3>3 DEF CountInv
  <2> QED
    BY <2>4, <2>5, <2>6, <2>7 DEF RInv
<1>2. CASE PushSlice
  <2> DEFINE taken == Least(Offered, Room)
  <2>1. /\ Offered \in 0..Len(data) /\ taken \in 0..Offered
        /\ taken <= RingCapacity - Len(ring)
    BY <1>a, <1>b DEF Offered, Room, Least, RTypeOK
  <2>2. /\ Front(data, taken) \in Seq(Nat) /\ Len(Front(data, taken)) = taken
        /\ data' \in Seq(Nat) /\ Len(data') = Len(data) - Offered
    <3>1. data \in Seq(Nat) /\ taken \in 0..Len(data)
      BY <1>a, <2>1 DEF RTypeOK
    <3>2. data' = Rest(data, Offered)
      BY <1>2 DEF PushSlice
    <3> QED
      BY <2>1, <3>1, <3>2, Split
  <2>3. /\ ring' = ring \o Front(data, taken)
        /\ ring' \in Seq(Nat) /\ Len(ring') = Len(ring) + taken
    BY <1>2, <1>a, <2>2, Join DEF PushSlice, RTypeOK
  <2>4. refused' = Offered - taken /\ refused' \in Nat
    BY <1>2, <2>1 DEF PushSlice
  <2>5. TrackerTypeOK' /\ LimitInv'
    BY <1>2, <1>a, SameTracker, SameLimit DEF PushSlice, loop
  <2>6. RTypeOK'
    BY <1>2, <1>a, <1>b, <2>1, <2>2, <2>3, <2>4, <2>5
       DEF PushSlice, RTypeOK, loop
  <2>7. BufferInv' /\ PermitInv'
    BY <1>2, <1>a DEF PushSlice, BufferInv, PermitInv, loop
  <2>8. refused = 0
    BY <1>2, <1>a DEF PushSlice, BufferInv
  <2>9. CountInv'
    <3>1. UNCHANGED <<samples, chunk, dropped, produced>>
      BY <1>2 DEF PushSlice, loop
    <3>2. Offered \in Nat /\ taken \in Nat
      BY <1>c, <2>1
    <3>3. CountInv
      BY <1>a
    <3>4. /\ Len(ring') = Len(ring) + taken
          /\ Len(data') = Len(data) - Offered /\ refused' = Offered - taken
      BY <2>2, <2>3, <2>4
    <3> HIDE DEF taken
    <3> QED
      BY <1>c, <2>8, <3>1, <3>2, <3>3, <3>4 DEF CountInv
  <2> QED
    BY <2>5, <2>6, <2>7, <2>9 DEF RInv
<1>3. CASE CountDropped
  <2>1. TrackerTypeOK' /\ LimitInv'
    BY <1>3, <1>a, SameTracker, SameLimit DEF CountDropped, loop
  <2>2. RTypeOK'
    BY <1>3, <1>a, <2>1 DEF CountDropped, CountRefused, RTypeOK, loop
  <2>3. BufferInv' /\ PermitInv'
    BY <1>3, <1>a DEF CountDropped, BufferInv, PermitInv, loop
  <2>4. CountInv'
    BY <1>3, <1>a DEF CountDropped, CountRefused, CountInv, RTypeOK, loop
  <2> QED
    BY <2>1, <2>2, <2>3, <2>4 DEF RInv
<1>4. CASE NotifyTask
  <2>1. TrackerTypeOK' /\ LimitInv'
    BY <1>4, <1>a, SameTracker, SameLimit DEF NotifyTask, loop
  <2>2. RTypeOK'
    BY <1>4, <1>a, <2>1 DEF NotifyTask, NotifyOne, RTypeOK, loop
  <2>3. BufferInv' /\ PermitInv' /\ CountInv'
    BY <1>4, <1>a
       DEF NotifyTask, NotifyOne, BufferInv, PermitInv, CountInv, loop
  <2> QED
    BY <2>1, <2>2, <2>3 DEF RInv
<1>5. CASE StreamFails
  <2>1. TrackerTypeOK' /\ LimitInv'
    BY <1>5, <1>a, SameTracker, SameLimit DEF StreamFails, loop
  <2>2. RTypeOK'
    BY <1>5, <1>a, <2>1 DEF StreamFails, RTypeOK, loop
  <2>3. BufferInv' /\ PermitInv' /\ CountInv'
    BY <1>5, <1>a DEF StreamFails, BufferInv, PermitInv, CountInv, loop
  <2> QED
    BY <2>1, <2>2, <2>3 DEF RInv
<1>6. CASE ErrorNotifies
  <2>1. TrackerTypeOK' /\ LimitInv'
    BY <1>6, <1>a, SameTracker, SameLimit DEF ErrorNotifies, loop
  <2>2. RTypeOK'
    BY <1>6, <1>a, <2>1 DEF ErrorNotifies, WakeOnError, NotifyOne, RTypeOK, loop
  <2>3. BufferInv' /\ PermitInv' /\ CountInv'
    BY <1>6, <1>a
       DEF ErrorNotifies, WakeOnError, NotifyOne, BufferInv, PermitInv,
           CountInv, loop
  <2> QED
    BY <2>1, <2>2, <2>3 DEF RInv
<1>7. CASE PopSlice
  <2> DEFINE n == Least(ScratchLen, Len(ring))
  <2>1. n \in 0..Len(ring) /\ ring \in Seq(Nat) /\ chunk \in Seq(Nat)
    BY <1>a, <1>b DEF Least, RTypeOK
  <2>2. /\ chunk' = chunk \o Front(ring, n) /\ ring' = Rest(ring, n)
    BY <1>7 DEF PopSlice
  <2>3. /\ chunk' \in Seq(Nat) /\ Len(chunk') = Len(chunk) + n
        /\ ring' \in Seq(Nat) /\ Len(ring') = Len(ring) - n
    BY <2>1, <2>2, Split, Join
  <2>4. TrackerTypeOK' /\ LimitInv'
    BY <1>7, <1>a, SameTracker, SameLimit DEF PopSlice
  <2>5. RTypeOK'
    BY <1>7, <1>a, <1>b, <2>1, <2>3, <2>4 DEF PopSlice, RTypeOK, device
  <2>6. BufferInv' /\ PermitInv'
    BY <1>7, <1>a DEF PopSlice, BufferInv, PermitInv, device
  <2>7. CountInv'
    <3>1. UNCHANGED <<samples, data, refused, dropped, produced>>
      BY <1>7 DEF PopSlice, device
    <3>2. n \in Nat
      BY <1>c, <2>1
    <3>3. CountInv
      BY <1>a
    <3>4. Len(chunk') = Len(chunk) + n /\ Len(ring') = Len(ring) - n
      BY <2>3
    <3> HIDE DEF n
    <3> QED
      BY <1>c, <3>1, <3>2, <3>3, <3>4 DEF CountInv
  <2> QED
    BY <2>4, <2>5, <2>6, <2>7 DEF RInv
<1>8. CASE RingFoundEmpty
  <2>1. TrackerTypeOK' /\ LimitInv'
    BY <1>8, <1>a, SameTracker, LoopLimit DEF RingFoundEmpty
  <2>2. BufferInv' /\ PermitInv'
    BY <1>8, <1>a DEF RingFoundEmpty, BufferInv, PermitInv, device, shared, Goto
  <2>3. CASE chunk = <<>>
    BY <1>8, <1>a, <2>1, <2>2, <2>3
       DEF RingFoundEmpty, RInv, RTypeOK, CountInv, device, shared, Goto
  <2>4. CASE chunk # <<>>
    <3>1. /\ samples' \in Seq(Nat) /\ Len(samples') = Len(samples) + Len(chunk)
          /\ chunk' \in Seq(Nat) /\ Len(chunk') = 0
          /\ frameBuf' = frameBuf + Len(chunk) /\ frameBuf' \in Nat
      <4>1. /\ samples' = samples \o chunk /\ chunk' = <<>>
            /\ frameBuf' = frameBuf + Len(chunk)
        BY <1>8, <2>4 DEF RingFoundEmpty, ClearedChunk
      <4>2. samples \in Seq(Nat) /\ chunk \in Seq(Nat) /\ frameBuf \in Nat
        BY <1>a DEF RTypeOK
      <4>3. chunk' \in Seq(Nat) /\ Len(chunk') = 0
        BY <4>1
      <4>4. frameBuf' \in Nat
        BY <1>c, <4>1, <4>2
      <4> QED
        BY <4>1, <4>2, <4>3, <4>4, Join
    <3>2. RTypeOK'
      BY <1>8, <1>a, <2>1, <2>4, <3>1
         DEF RingFoundEmpty, RTypeOK, device, shared, Goto
    <3>3. CountInv'
      <4>1. UNCHANGED <<ring, data, refused, dropped, produced>>
        BY <1>8 DEF RingFoundEmpty, device, shared
      <4>2. /\ Len(samples') = Len(samples) + Len(chunk)
            /\ Len(chunk') = 0
        BY <3>1
      <4>3. CountInv
        BY <1>a
      <4> QED
        BY <1>c, <4>1, <4>2, <4>3 DEF CountInv
    <3> QED
      BY <2>1, <2>2, <3>2, <3>3 DEF RInv
  <2> QED
    BY <2>3, <2>4
<1>9. CASE CheckEnded
  <2>1. TrackerTypeOK' /\ LimitInv'
    BY <1>9, <1>a, SameTracker, LoopLimit DEF CheckEnded
  <2>2. RTypeOK'
    BY <1>9, <1>a, <2>1 DEF CheckEnded, RTypeOK, device, shared, Goto
  <2>3. BufferInv' /\ PermitInv' /\ CountInv'
    BY <1>9, <1>a
       DEF CheckEnded, BufferInv, PermitInv, CountInv, device, shared, Goto
  <2> QED
    BY <2>1, <2>2, <2>3 DEF RInv
<1>10. CASE Notified
  <2>1. TrackerTypeOK' /\ LimitInv'
    BY <1>10, <1>a, SameTracker, LoopLimit DEF Notified
  <2>2. RTypeOK'
    BY <1>10, <1>a, <2>1 DEF Notified, RTypeOK, device, Goto
  <2>3. BufferInv' /\ PermitInv' /\ CountInv'
    BY <1>10, <1>a
       DEF Notified, BufferInv, PermitInv, CountInv, device, Goto
  <2> QED
    BY <2>1, <2>2, <2>3 DEF RInv
<1>11. CASE Analyse
  <2>1. BufferInv' /\ PermitInv' /\ CountInv'
    BY <1>11, <1>a
       DEF Analyse, AfterFrame, BufferInv, PermitInv, CountInv, device,
           shared, Goto
  <2>2. CASE frameBuf >= FrameSamples
    <3>1. PICK loud \in BOOLEAN : PushFrame(loud)
      BY <1>11, <2>2 DEF Analyse
    <3>2. /\ TrackerTypeOK' /\ elapsed' = elapsed + FrameMs
          /\ decision' = "Continue" =>
               (MaxRecordingMs > 0 => elapsed' < MaxRecordingMs)
      BY <1>a, <3>1, PushFrameStep
    <3>3. frameBuf' \in Nat
      BY <1>11, <1>a, <1>b, <2>2 DEF Analyse, RTypeOK
    <3>4. /\ task' \in {"analyse", "finish"}
          /\ decision' # "Continue" => task' = "finish"
      BY <1>11, <2>2 DEF Analyse, AfterFrame, Goto
    <3>5. RTypeOK'
      BY <1>11, <1>a, <3>2, <3>3, <3>4 DEF Analyse, RTypeOK, device, shared
    <3>6. LimitInv'
      BY <3>2, <3>4 DEF LimitInv
    <3> QED
      BY <2>1, <3>5, <3>6 DEF RInv
  <2>3. CASE ~(frameBuf >= FrameSamples)
    <3>1. TrackerTypeOK' /\ LimitInv'
      BY <1>11, <1>a, <2>3, SameTracker, LoopLimit DEF Analyse
    <3>2. RTypeOK'
      BY <1>11, <1>a, <2>3, <3>1 DEF Analyse, RTypeOK, device, shared, Goto
    <3> QED
      BY <2>1, <3>1, <3>2 DEF RInv
  <2> QED
    BY <2>2, <2>3
<1>12. CASE Finish
  <2>1. TrackerTypeOK' /\ LimitInv'
    BY <1>12, <1>a, SameTracker
       DEF Finish, LimitInv, tvars, counters, Goto
  <2>2. RTypeOK'
    BY <1>12, <1>a, <2>1 DEF Finish, RTypeOK, device, shared, Goto
  <2>3. BufferInv' /\ PermitInv' /\ CountInv'
    BY <1>12, <1>a
       DEF Finish, BufferInv, PermitInv, CountInv, device, shared, Goto
  <2> QED
    BY <2>1, <2>2, <2>3 DEF RInv
<1>13. CASE Cancelled
  <2>1. TrackerTypeOK' /\ LimitInv'
    BY <1>13, <1>a, SameTracker, LoopLimit DEF Cancelled
  <2>2. RTypeOK'
    BY <1>13, <1>a, <2>1 DEF Cancelled, RTypeOK, device, shared, Goto
  <2>3. BufferInv' /\ PermitInv' /\ CountInv'
    BY <1>13, <1>a
       DEF Cancelled, BufferInv, PermitInv, CountInv, device, shared, Goto
  <2> QED
    BY <2>1, <2>2, <2>3 DEF RInv
<1>14. CASE UNCHANGED rvars
  <2>1. TrackerTypeOK' /\ LimitInv'
    BY <1>14, <1>a, SameTracker, SameLimit DEF rvars, loop
  <2>2. RTypeOK'
    BY <1>14, <1>a, <2>1 DEF rvars, RTypeOK, device, shared, loop
  <2>3. BufferInv' /\ PermitInv' /\ CountInv'
    BY <1>14, <1>a
       DEF rvars, BufferInv, PermitInv, CountInv, device, shared, loop
  <2> QED
    BY <2>1, <2>2, <2>3 DEF RInv
<1> QED
  BY <1>1, <1>2, <1>3, <1>4, <1>5, <1>6, <1>7, <1>8, <1>9, <1>10, <1>11,
     <1>12, <1>13, <1>14
     DEF RNext, Device, Loop, Stopped

(* The invariant holds in every reachable state.                           *)
LEMMA RInductive == RSpec => []RInv
BY RInitInv, RNextInv, PTL DEF RSpec

(* Every variable keeps its type; in particular the ring never holds more  *)
(* than its capacity.                                                      *)
THEOREM RingInBounds == RSpec => []RTypeOK
<1>1. RInv => RTypeOK
  BY DEF RInv
<1> QED
  BY <1>1, RInductive, PTL

(* drain_or_wait cannot miss a notification, although it finds the ring    *)
(* empty, reads the flag and starts to wait in three separate steps.       *)
THEOREM NeverAsleep == RSpec => []NoLostWakeup
<1>1. RInv => NoLostWakeup
  BY DEF RInv, RTypeOK, PermitInv, NoLostWakeup
<1> QED
  BY <1>1, RInductive, PTL

(* No sample is lost without being counted in dropped_samples.             *)
THEOREM AllAccounted == RSpec => []NoneUnaccounted
<1>1. RInv => NoneUnaccounted
  BY Join DEF RInv, RTypeOK, CountInv, NoneUnaccounted, Stream
<1> QED
  BY <1>1, RInductive, PTL

-----------------------------------------------------------------------------
(* Order.  Rising and Before say it piece by piece, for the pieces move    *)
(* from the callback's buffer to the ring, the chunk and the recording.    *)
Rising(s) == \A i, j \in DOMAIN s : i < j => s[i] < s[j]
Before(s, t) == \A i \in DOMAIN s, j \in DOMAIN t : s[i] < t[j]

(* The next sample the device will deliver.                                *)
Coming == <<produced + 1>>

OrderInv ==
  /\ Rising(samples) /\ Rising(chunk) /\ Rising(ring) /\ Rising(data)
  /\ Before(samples, chunk) /\ Before(samples, ring) /\ Before(samples, data)
  /\ Before(chunk, ring) /\ Before(chunk, data) /\ Before(ring, data)
  /\ Before(samples, Coming) /\ Before(chunk, Coming)
  /\ Before(ring, Coming) /\ Before(data, Coming)

(* Parts of a rising sequence rise, the front before the rest.             *)
LEMMA RisingParts ==
  ASSUME NEW s \in Seq(Nat), Rising(s),
         NEW n \in 0..Len(s), NEW m \in 0..Len(s), n <= m
  PROVE  /\ Rising(Front(s, n)) /\ Rising(Rest(s, m))
         /\ Before(Front(s, n), Rest(s, m))
<1>1. /\ DOMAIN Front(s, n) = 1..n /\ \A i \in 1..n : Front(s, n)[i] = s[i]
  BY DEF Front
<1>2. /\ DOMAIN Rest(s, m) = 1..(Len(s) - m)
      /\ \A i \in 1..(Len(s) - m) :
           m + i \in DOMAIN s /\ Rest(s, m)[i] = s[m + i]
  BY DEF Rest
<1>3. Rising(Front(s, n))
  BY <1>1 DEF Rising
<1>4. Rising(Rest(s, m))
  <2> SUFFICES ASSUME NEW i \in 1..(Len(s) - m), NEW j \in 1..(Len(s) - m),
                      i < j
               PROVE  Rest(s, m)[i] < Rest(s, m)[j]
    BY <1>2 DEF Rising
  <2>1. m + i \in DOMAIN s /\ m + j \in DOMAIN s /\ m + i < m + j
    BY <1>2
  <2>2. s[m + i] < s[m + j]
    BY <2>1 DEF Rising
  <2> QED
    BY <1>2, <2>2
<1>5. Before(Front(s, n), Rest(s, m))
  <2> SUFFICES ASSUME NEW i \in 1..n, NEW j \in 1..(Len(s) - m)
               PROVE  Front(s, n)[i] < Rest(s, m)[j]
    BY <1>1, <1>2 DEF Before
  <2>1. i \in DOMAIN s /\ m + j \in DOMAIN s /\ i < m + j
    BY <1>2
  <2>2. s[i] < s[m + j]
    BY <2>1 DEF Rising
  <2> QED
    BY <1>1, <1>2, <2>2
<1> QED
  BY <1>3, <1>4, <1>5

(* What comes before or after a sequence does so for its parts.            *)
LEMMA BeforeParts ==
  ASSUME NEW s \in Seq(Nat), NEW t \in Seq(Nat), NEW n \in 0..Len(s)
  PROVE  /\ Before(s, t) => Before(Front(s, n), t) /\ Before(Rest(s, n), t)
         /\ Before(t, s) => Before(t, Front(s, n)) /\ Before(t, Rest(s, n))
<1>1. /\ DOMAIN Front(s, n) = 1..n /\ \A i \in 1..n : Front(s, n)[i] = s[i]
  BY DEF Front
<1>2. /\ DOMAIN Rest(s, n) = 1..(Len(s) - n)
      /\ \A i \in 1..(Len(s) - n) :
           n + i \in DOMAIN s /\ Rest(s, n)[i] = s[n + i]
  BY DEF Rest
<1>3. \A i \in DOMAIN Front(s, n) : i \in DOMAIN s
  BY <1>1
<1>4. ASSUME Before(s, t)
      PROVE  Before(Front(s, n), t) /\ Before(Rest(s, n), t)
  BY <1>1, <1>2, <1>3, <1>4 DEF Before
<1>5. ASSUME Before(t, s)
      PROVE  Before(t, Front(s, n)) /\ Before(t, Rest(s, n))
  BY <1>1, <1>2, <1>3, <1>5 DEF Before
<1> QED
  BY <1>4, <1>5

(* An element of a joined sequence is one of a piece.                      *)
LEMMA JoinedAt ==
  ASSUME NEW s \in Seq(Nat), NEW t \in Seq(Nat), NEW k \in DOMAIN (s \o t)
  PROVE  \/ k \in DOMAIN s /\ (s \o t)[k] = s[k]
         \/ /\ k > Len(s) /\ k - Len(s) \in DOMAIN t
            /\ (s \o t)[k] = t[k - Len(s)]
OBVIOUS

(* Joined pieces rise if each does and they are in order.                  *)
LEMMA RisingJoin ==
  ASSUME NEW s \in Seq(Nat), NEW t \in Seq(Nat),
         Rising(s), Rising(t), Before(s, t)
  PROVE  Rising(s \o t)
<1> SUFFICES ASSUME NEW i \in DOMAIN (s \o t), NEW j \in DOMAIN (s \o t),
                    i < j
             PROVE  (s \o t)[i] < (s \o t)[j]
  BY DEF Rising
<1>1. i \in Nat /\ j \in Nat /\ Len(s) \in Nat
  OBVIOUS
<1>2. CASE j \in DOMAIN s /\ (s \o t)[j] = s[j]
  <2>1. i \in DOMAIN s /\ (s \o t)[i] = s[i]
    BY <1>1, <1>2, JoinedAt
  <2> QED
    BY <1>2, <2>1 DEF Rising
<1>3. CASE /\ j > Len(s) /\ j - Len(s) \in DOMAIN t
           /\ (s \o t)[j] = t[j - Len(s)]
  <2>1. CASE i \in DOMAIN s /\ (s \o t)[i] = s[i]
    BY <1>3, <2>1 DEF Before
  <2>2. CASE /\ i > Len(s) /\ i - Len(s) \in DOMAIN t
             /\ (s \o t)[i] = t[i - Len(s)]
    <3>1. i - Len(s) < j - Len(s)
      BY <1>1
    <3> QED
      BY <1>3, <2>2, <3>1 DEF Rising
  <2> QED
    BY <2>1, <2>2, JoinedAt
<1> QED
  BY <1>2, <1>3, JoinedAt

(* What comes before or after both pieces does so for the joined one.      *)
LEMMA BeforeJoin ==
  ASSUME NEW s \in Seq(Nat), NEW t \in Seq(Nat), NEW u \in Seq(Nat)
  PROVE  /\ Before(s, u) /\ Before(t, u) => Before(s \o t, u)
         /\ Before(u, s) /\ Before(u, t) => Before(u, s \o t)
<1> DEFINE st == s \o t
<1>1. ASSUME NEW k \in DOMAIN st
      PROVE  \/ k \in DOMAIN s /\ st[k] = s[k]
             \/ k - Len(s) \in DOMAIN t /\ st[k] = t[k - Len(s)]
  BY JoinedAt
<1> HIDE DEF st
<1>2. ASSUME Before(s, u), Before(t, u), NEW k \in DOMAIN st, NEW j \in DOMAIN u
      PROVE  st[k] < u[j]
  BY <1>1, <1>2 DEF Before
<1>3. ASSUME Before(u, s), Before(u, t), NEW j \in DOMAIN u, NEW k \in DOMAIN st
      PROVE  u[j] < st[k]
  BY <1>1, <1>3 DEF Before
<1>4. Before(s, u) /\ Before(t, u) => Before(st, u)
  BY <1>2 DEF Before
<1>5. Before(u, s) /\ Before(u, t) => Before(u, st)
  BY <1>3 DEF Before
<1> QED
  BY <1>4, <1>5 DEF st

(* Only these steps move samples.                                          *)
LEMMA PiecesStay ==
  ASSUME [RNext]_rvars
  PROVE  \/ Callback \/ PushSlice \/ PopSlice
         \/ RingFoundEmpty /\ chunk # <<>>
         \/ UNCHANGED <<samples, chunk, ring, data, produced>>
<1>1. ASSUME \/ CountDropped \/ NotifyTask \/ StreamFails \/ ErrorNotifies
             \/ (RingFoundEmpty /\ chunk = <<>>) \/ CheckEnded \/ Notified
             \/ Analyse \/ Finish \/ Cancelled \/ Stopped \/ UNCHANGED rvars
      PROVE  UNCHANGED <<samples, chunk, ring, data, produced>>
  BY <1>1 DEF CountDropped, NotifyTask, StreamFails, ErrorNotifies,
       RingFoundEmpty, CheckEnded, Notified, Analyse, Finish, Cancelled,
       Stopped, rvars, device, shared, loop
<1> QED
  BY <1>1 DEF RNext, Device, Loop

(* No piece is taken from the middle, none is put in front: order is kept. *)
LEMMA OrderNext == RInv /\ OrderInv /\ [RNext]_rvars => OrderInv'
<1> SUFFICES ASSUME RInv, OrderInv, [RNext]_rvars PROVE OrderInv'
  OBVIOUS
<1>a. /\ data \in Seq(Nat) /\ ring \in Seq(Nat) /\ chunk \in Seq(Nat)
      /\ samples \in Seq(Nat) /\ Coming \in Seq(Nat)
      /\ produced \in Nat
  <2>1. produced \in Nat
    BY DEF RInv, RTypeOK
  <2>2. Coming \in Seq(Nat)
    BY <2>1 DEF Coming
  <2> QED
    BY <2>1, <2>2 DEF RInv, RTypeOK
<1>b. ScratchLen \in Nat \ {0} /\ BufferSizes \subseteq Nat \ {0}
  BY RecordingAssumption
<1>1. CASE Callback
  <2>1. PICK n \in BufferSizes :
          /\ data' = [i \in 1..n |-> produced + i]
          /\ produced' = produced + n
    BY <1>1 DEF Callback
  <2>2. n \in Nat
    BY <1>b
  <2>3. UNCHANGED <<samples, chunk, ring>>
    BY <1>1 DEF Callback, shared, loop
  <2>4. Rising(data') /\ Before(data', Coming')
    BY <1>a, <2>1, <2>2 DEF Rising, Before, Coming
  <2>5. ASSUME NEW s \in Seq(Nat), Before(s, Coming)
        PROVE  Before(s, data') /\ Before(s, Coming')
    <3>1. \A i \in DOMAIN s : s[i] \in Nat /\ s[i] < produced + 1
      BY <2>5 DEF Before, Coming
    <3>2. Before(s, data')
      BY <1>a, <2>1, <2>2, <3>1 DEF Before
    <3>3. 1..1 = DOMAIN Coming' /\ Coming'[1] = produced + n + 1
      BY <2>1 DEF Coming
    <3>4. Before(s, Coming')
      BY <1>a, <2>2, <3>1, <3>3 DEF Before
    <3> QED
      BY <3>2, <3>4
  <2>6. /\ Before(samples, data') /\ Before(chunk, data')
        /\ Before(ring, data') /\ Before(samples, Coming')
        /\ Before(chunk, Coming') /\ Before(ring, Coming')
    BY <1>a, <2>5 DEF OrderInv
  <2> QED
    BY <2>3, <2>4, <2>6 DEF OrderInv
<1>2. CASE PushSlice
  <2> DEFINE taken == Least(Offered, Room)
             front == Front(data, taken)
  <2>1. /\ Offered \in 0..Len(data) /\ taken \in 0..Len(data)
        /\ taken <= Offered
    BY <1>a, RecordingAssumption
       DEF Offered, Room, Least, RInv, RTypeOK
  <2>2. /\ ring' = ring \o front /\ data' = Rest(data, Offered)
        /\ UNCHANGED <<samples, chunk, produced>>
    BY <1>2 DEF PushSlice, loop
  <2>3. front \in Seq(Nat) /\ data' \in Seq(Nat)
    BY <1>a, <2>1, <2>2, Split
  <2>4. Rising(front) /\ Rising(data') /\ Before(front, data')
    BY <1>a, <2>1, <2>2, RisingParts DEF OrderInv
  <2>5. /\ Before(samples, front) /\ Before(chunk, front)
        /\ Before(ring, front) /\ Before(front, Coming)
    BY <1>a, <2>1, BeforeParts DEF OrderInv
  <2>6. /\ Before(samples, data') /\ Before(chunk, data')
        /\ Before(ring, data') /\ Before(data', Coming)
    BY <1>a, <2>1, <2>2, BeforeParts DEF OrderInv
  <2> HIDE DEF front, taken
  <2>7. Rising(ring')
    BY <1>a, <2>2, <2>3, <2>4, <2>5, RisingJoin DEF OrderInv
  <2>8. /\ Before(samples, ring') /\ Before(chunk, ring')
        /\ Before(ring', data') /\ Before(ring', Coming)
    BY <1>a, <2>2, <2>3, <2>4, <2>5, <2>6, BeforeJoin DEF OrderInv
  <2> QED
    BY <2>2, <2>4, <2>6, <2>7, <2>8 DEF OrderInv, Coming
<1>3. CASE PopSlice
  <2> DEFINE n == Least(ScratchLen, Len(ring))
             front == Front(ring, n)
  <2>1. n \in 0..Len(ring)
    BY <1>a, <1>b DEF Least
  <2>2. /\ chunk' = chunk \o front /\ ring' = Rest(ring, n)
        /\ UNCHANGED <<samples, data, produced>>
    BY <1>3 DEF PopSlice, device
  <2>3. front \in Seq(Nat) /\ ring' \in Seq(Nat)
    BY <1>a, <2>1, <2>2, Split
  <2>4. Rising(front) /\ Rising(ring') /\ Before(front, ring')
    BY <1>a, <2>1, <2>2, RisingParts DEF OrderInv
  <2>5. /\ Before(samples, front) /\ Before(chunk, front)
        /\ Before(front, data) /\ Before(front, Coming)
    BY <1>a, <2>1, BeforeParts DEF OrderInv
  <2>6. /\ Before(samples, ring') /\ Before(chunk, ring')
        /\ Before(ring', data) /\ Before(ring', Coming)
    BY <1>a, <2>1, <2>2, BeforeParts DEF OrderInv
  <2> HIDE DEF front, n
  <2>7. Rising(chunk')
    BY <1>a, <2>2, <2>3, <2>4, <2>5, RisingJoin DEF OrderInv
  <2>8. /\ Before(samples, chunk') /\ Before(chunk', ring')
        /\ Before(chunk', data) /\ Before(chunk', Coming)
    BY <1>a, <2>2, <2>3, <2>4, <2>5, <2>6, BeforeJoin DEF OrderInv
  <2> QED
    BY <2>2, <2>4, <2>6, <2>7, <2>8 DEF OrderInv, Coming
<1>4. CASE RingFoundEmpty /\ chunk # <<>>
  <2>1. /\ samples' = samples \o chunk /\ chunk' = <<>>
        /\ UNCHANGED <<ring, data, produced>>
    BY <1>4 DEF RingFoundEmpty, ClearedChunk, device, shared
  <2>2. Rising(samples')
    BY <1>a, <2>1, RisingJoin DEF OrderInv
  <2>3. /\ Before(samples', ring) /\ Before(samples', data)
        /\ Before(samples', Coming)
    BY <1>a, <2>1, BeforeJoin DEF OrderInv
  <2>4. ASSUME NEW s \in Seq(Nat)
        PROVE  Rising(chunk') /\ Before(chunk', s) /\ Before(s, chunk')
    BY <2>1 DEF Rising, Before
  <2>5. samples' \in Seq(Nat)
    BY <1>a, <2>1
  <2> QED
    BY <1>a, <2>1, <2>2, <2>3, <2>4, <2>5 DEF OrderInv, Coming
<1>5. CASE UNCHANGED <<samples, chunk, ring, data, produced>>
  BY <1>5 DEF OrderInv, Coming
<1> QED
  BY <1>1, <1>2, <1>3, <1>4, <1>5, PiecesStay

(* Samples neither overtake nor repeat each other on their way from the    *)
(* device to the recording, for every interleaving of callback and loop.   *)
THEOREM OrderKept == RSpec => []InOrder
<1>1. RInit => OrderInv
  BY DEF RInit, OrderInv, Rising, Before
<1>2. RInv /\ OrderInv /\ [RNext]_rvars => OrderInv'
  BY OrderNext
<1>3. RInv /\ OrderInv => InOrder
  <2> SUFFICES ASSUME RInv, OrderInv PROVE InOrder
    OBVIOUS
  <2> DEFINE r1 == samples \o chunk
             r2 == r1 \o ring
  <2>1. /\ data \in Seq(Nat) /\ ring \in Seq(Nat)
        /\ chunk \in Seq(Nat) /\ samples \in Seq(Nat)
    BY DEF RInv, RTypeOK
  <2>2. /\ r1 \in Seq(Nat) /\ Rising(r1)
        /\ Before(r1, ring) /\ Before(r1, data)
    BY <2>1, RisingJoin, BeforeJoin DEF OrderInv
  <2> HIDE DEF r1
  <2>3. r2 \in Seq(Nat) /\ Rising(r2) /\ Before(r2, data)
    BY <2>1, <2>2, RisingJoin, BeforeJoin DEF OrderInv
  <2> HIDE DEF r2
  <2>4. Rising(r2 \o data)
    BY <2>1, <2>3, RisingJoin DEF OrderInv
  <2> QED
    BY <2>4 DEF r1, r2, Stream, InOrder, Rising
<1> QED
  BY <1>1, <1>2, <1>3, RInductive, PTL DEF RSpec

-----------------------------------------------------------------------------
(* Time.                                                                   *)
ClockInv ==
  /\ frameBuf <= Len(samples)
  /\ (Len(samples) - frameBuf) * 1000 <= elapsed * (SampleRate * Channels)
  /\ task \in {"drain", "check", "wait"} => frameBuf < FrameSamples

(* A frame is at most as long as the time it counts, unless it had to be   *)
(* rounded up to one sample.                                               *)
LEMMA FrameNotLonger ==
  ASSUME SampleRate * FrameMs >= 1000
  PROVE  FrameSamples * 1000 <= FrameMs * (SampleRate * Channels)
<1> DEFINE ticks == SampleRate * FrameMs
           whole == ticks \div 1000
<1>1. /\ SampleRate \in Nat /\ FrameMs \in Nat /\ Channels \in Nat \ {0}
      /\ ticks \in Nat
  BY RecordingAssumption, VadAssumption
<1>2. whole \in Nat \ {0} /\ whole * 1000 <= ticks
  <2> HIDE DEF ticks
  <2>1. ticks \in Nat /\ ticks >= 1000
    BY <1>1 DEF ticks
  <2> QED
    BY <2>1
<1>3. FrameSamples = whole * Channels
  <2>1. WholeSamples = whole * Channels
    BY DEF WholeSamples
  <2> HIDE DEF whole
  <2>2. whole * Channels \in Nat \ {0}
    BY <1>1, <1>2
  <2> QED
    BY <2>1, <2>2 DEF FrameSamples
<1>4. (whole * 1000) * Channels <= ticks * Channels
  <2> HIDE DEF ticks, whole
  <2> QED
    BY <1>1, <1>2
<1>5. (whole * 1000) * Channels = (whole * Channels) * 1000
  <2> HIDE DEF whole
  <2> QED
    BY <1>1, <1>2
<1>6. ticks * Channels = FrameMs * (SampleRate * Channels)
  BY <1>1
<1> QED
  BY <1>3, <1>4, <1>5, <1>6

(* Each frame shown to the tracker advances its clock by enough.           *)
LEMMA ClockNext ==
  ASSUME SampleRate * FrameMs >= 1000, RInv, ClockInv, [RNext]_rvars
  PROVE  ClockInv'
<1>a. /\ Len(samples) \in Nat /\ frameBuf \in Nat /\ elapsed \in Nat
      /\ Len(chunk) \in Nat /\ samples \in Seq(Nat) /\ chunk \in Seq(Nat)
  BY DEF RInv, RTypeOK, TrackerTypeOK
<1>b. FrameSamples \in Nat \ {0} /\ FrameMs \in Nat
      /\ SampleRate * Channels \in Nat
  BY FrameIsWhole, RecordingAssumption, VadAssumption
<1>1. CASE RingFoundEmpty
  <2>1. CASE chunk # <<>>
    <3>1. /\ samples' = samples \o chunk /\ frameBuf' = frameBuf + Len(chunk)
          /\ task' = "analyse" /\ elapsed' = elapsed
      BY <1>1, <2>1 DEF RingFoundEmpty, Goto, tvars, counters
    <3>2. Len(samples') = Len(samples) + Len(chunk)
      BY <1>a, <3>1, Join
    <3>3. /\ frameBuf' <= Len(samples')
          /\ Len(samples') - frameBuf' = Len(samples) - frameBuf
      BY <1>a, <3>1, <3>2 DEF ClockInv
    <3> QED
      BY <3>1, <3>3 DEF ClockInv
  <2>2. CASE chunk = <<>>
    BY <1>1, <2>2 DEF RingFoundEmpty, ClockInv, Goto, tvars, counters
  <2> QED
    BY <2>1, <2>2
<1>2. CASE Analyse
  <2>1. CASE frameBuf >= FrameSamples
    <3>1. /\ frameBuf' = frameBuf - FrameSamples
          /\ elapsed' = elapsed + FrameMs
          /\ task' \in {"analyse", "finish"} /\ samples' = samples
      BY <1>2, <2>1 DEF Analyse, AfterFrame, PushFrame, Goto
    <3>2. (Len(samples) - frameBuf) * 1000 + FrameSamples * 1000
            <= elapsed * (SampleRate * Channels)
               + FrameMs * (SampleRate * Channels)
      <4>1. (Len(samples) - frameBuf) * 1000 \in Int
            /\ FrameSamples * 1000 \in Int
            /\ elapsed * (SampleRate * Channels) \in Int
            /\ FrameMs * (SampleRate * Channels) \in Int
        BY <1>a, <1>b
      <4> QED
        BY <4>1, FrameNotLonger DEF ClockInv
    <3>3. elapsed * (SampleRate * Channels) + FrameMs * (SampleRate * Channels)
            = (elapsed + FrameMs) * (SampleRate * Channels)
      BY <1>a, <1>b
    <3>4. (Len(samples) - frameBuf) * 1000 + FrameSamples * 1000
            = (Len(samples) - (frameBuf - FrameSamples)) * 1000
      BY <1>a, <1>b
    <3>5. frameBuf' <= Len(samples')
      BY <1>a, <1>b, <3>1 DEF ClockInv
    <3> QED
      BY <3>1, <3>2, <3>3, <3>4, <3>5 DEF ClockInv
  <2>2. CASE ~(frameBuf >= FrameSamples)
    BY <1>2, <1>a, <1>b, <2>2 DEF Analyse, ClockInv, Goto, tvars, counters
  <2> QED
    BY <2>1, <2>2
<1>3. CASE CheckEnded \/ Notified \/ Finish \/ Cancelled
  BY <1>3 DEF CheckEnded, Notified, Finish, Cancelled, ClockInv, Goto, tvars,
              counters
<1>4. CASE UNCHANGED <<samples, frameBuf, elapsed, task>>
  BY <1>4 DEF ClockInv
<1>5. ASSUME \/ Callback \/ PushSlice \/ CountDropped \/ NotifyTask
             \/ StreamFails \/ ErrorNotifies \/ PopSlice \/ Stopped
             \/ UNCHANGED rvars
      PROVE  UNCHANGED <<samples, frameBuf, elapsed, task>>
  BY <1>5 DEF Callback, PushSlice, CountDropped, NotifyTask, StreamFails,
       ErrorNotifies, PopSlice, Stopped, rvars, loop, tvars, counters
<1> QED
  BY <1>1, <1>2, <1>3, <1>4, <1>5 DEF RNext, Device, Loop

(* The clock starts together with the audio.                               *)
LEMMA ClockInit == RInit => ClockInv
<1> SUFFICES ASSUME RInit PROVE ClockInv
  OBVIOUS
<1>1. /\ samples = <<>> /\ frameBuf = 0 /\ elapsed = 0
  BY DEF RInit, NewTracker
<1>2. SampleRate * Channels \in Nat
  BY RecordingAssumption
<1> QED
  BY <1>1, <1>2, FrameIsWhole DEF ClockInv

(* Wherever a frame is at least one sample long (from 1 kHz on at frames   *)
(* of 1 ms), the tracker's clock never lags behind the audio it has seen,  *)
(* whatever the rate: timeouts and the limit are kept in microphone time.  *)
THEOREM ClockKept ==
  ASSUME SampleRate * FrameMs >= 1000
  PROVE  RSpec => []ClockFollowsAudio
<1>1. RInit => ClockInv
  BY ClockInit
<1>2. RInv /\ ClockInv /\ [RNext]_rvars => ClockInv'
  BY ClockNext
<1>3. RInv /\ ClockInv => ClockFollowsAudio
  <2> SUFFICES ASSUME RInv, ClockInv PROVE ClockFollowsAudio
    OBVIOUS
  <2>1. elapsed * SampleRate * Channels = elapsed * (SampleRate * Channels)
    BY RecordingAssumption DEF RInv, RTypeOK, TrackerTypeOK
  <2> QED
    BY <2>1 DEF ClockInv, ClockFollowsAudio
<1> QED
  BY <1>1, <1>2, <1>3, RInductive, PTL DEF RSpec

(* The recording grows in one place only.                                  *)
LEMMA RecordedWhenDrained ==
  ASSUME [RNext]_rvars
  PROVE  samples' = samples \/ task = "drain"
<1>1. CASE Device
  BY <1>1 DEF Device, Callback, PushSlice, CountDropped, NotifyTask,
              StreamFails, ErrorNotifies, loop
<1>2. CASE Loop
  BY <1>2 DEF Loop, PopSlice, RingFoundEmpty, CheckEnded, Notified, Analyse,
              Finish
<1>3. CASE Cancelled \/ Stopped \/ UNCHANGED rvars
  BY <1>3 DEF Cancelled, Stopped, rvars, loop
<1> QED
  BY <1>1, <1>2, <1>3 DEF RNext

(* Nothing is recorded once max_recording_seconds of audio have been       *)
(* looked at, whatever the rate, the frame and the sizes of the chunks.    *)
THEOREM LimitInAudio ==
  ASSUME SampleRate * FrameMs >= 1000
  PROVE  RSpec => NothingBeyondTheLimit
<1> DEFINE Looked == (Len(samples) - frameBuf) * 1000
           Rate   == SampleRate * Channels
           Step   == MaxRecordingMs > 0 /\ samples' # samples =>
                       /\ Looked < MaxRecordingMs * Rate
                       /\ frameBuf < FrameSamples
<1>1. ASSUME RInv, ClockInv, [RNext]_rvars PROVE Step
  <2> SUFFICES ASSUME MaxRecordingMs > 0, samples' # samples
               PROVE  Looked < MaxRecordingMs * Rate /\ frameBuf < FrameSamples
    OBVIOUS
  <2>1. task = "drain"
    BY <1>1, RecordedWhenDrained
  <2>2. elapsed < MaxRecordingMs
    BY <1>1, <2>1 DEF RInv, LimitInv
  <2>3. Looked <= elapsed * Rate /\ frameBuf < FrameSamples
    BY <1>1, <2>1 DEF ClockInv
  <2>4. /\ Looked \in Int /\ elapsed \in Nat /\ MaxRecordingMs \in Nat
        /\ Rate \in Nat \ {0}
    BY <1>1, RecordingAssumption, VadAssumption
       DEF RInv, RTypeOK, TrackerTypeOK
  <2> HIDE DEF Looked, Rate
  <2>5. elapsed * Rate < MaxRecordingMs * Rate
    BY <2>2, <2>4
  <2>6. elapsed * Rate \in Int /\ MaxRecordingMs * Rate \in Int
    BY <2>4
  <2> QED
    BY <2>3, <2>4, <2>5, <2>6
<1>2. RInit => ClockInv
  BY ClockInit
<1>3. RInv /\ ClockInv /\ [RNext]_rvars => ClockInv'
  BY ClockNext
<1> QED
  BY <1>1, <1>2, <1>3, RInductive, PTL DEF RSpec, NothingBeyondTheLimit

-----------------------------------------------------------------------------
(* Channels.                                                               *)
Whole(n) == n % Channels = 0
Aligned(s) == Whole(Len(s)) /\ \A i \in DOMAIN s : Whole(s[i] - i)

AlignInv ==
  /\ Aligned(samples) /\ Aligned(chunk) /\ Aligned(ring) /\ Aligned(data)
  /\ Whole(produced)

(* A whole number of instants is a multiple of the channels.               *)
LEMMA WholeIsMultiple ==
  ASSUME NEW a \in Int, Whole(a)
  PROVE  \E k \in Int : a = Channels * k
<1> DEFINE q == a \div Channels
<1>1. q \in Int /\ a = Channels * q + (a % Channels)
  BY RecordingAssumption
<1> HIDE DEF q
<1>2. a = Channels * q
  <2>1. Channels * q \in Int /\ a % Channels = 0
    BY <1>1, RecordingAssumption DEF Whole
  <2> QED
    BY <1>1, <2>1
<1> QED
  BY <1>1, <1>2

(* And every multiple is whole.                                            *)
LEMMA MultipleIsWhole ==
  ASSUME NEW k \in Int
  PROVE  Whole(Channels * k)
<1> DEFINE m == Channels * k
           q == m \div Channels
           r == m % Channels
<1>a. Channels \in Nat \ {0}
  BY RecordingAssumption
<1>1. m \in Int /\ q \in Int /\ r \in 0..(Channels - 1) /\ m = Channels * q + r
  BY <1>a
<1> HIDE DEF q, r
<1>2. r = Channels * (k - q)
  BY <1>1, <1>a
<1>3. k - q <= 0
  <2> SUFFICES ASSUME k - q >= 1 PROVE FALSE
    BY <1>1
  <2>1. Channels * (k - q) >= Channels
    BY <1>1, <1>a
  <2> QED
    BY <2>1, <1>1, <1>2, <1>a
<1>4. k - q >= 0
  <2> SUFFICES ASSUME k - q <= -1 PROVE FALSE
    BY <1>1
  <2>1. Channels * (k - q) <= -Channels
    BY <1>1, <1>a
  <2> QED
    BY <2>1, <1>1, <1>2, <1>a
<1>5. r = 0
  BY <1>1, <1>2, <1>3, <1>4, <1>a
<1> QED
  BY <1>5 DEF r, Whole

(* Sums and differences of whole numbers of instants are whole.            *)
LEMMA WholeSum ==
  ASSUME NEW a \in Int, NEW b \in Int, Whole(a), Whole(b)
  PROVE  Whole(a + b) /\ Whole(a - b)
<1>1. PICK k \in Int : a = Channels * k
  BY WholeIsMultiple
<1>2. PICK l \in Int : b = Channels * l
  BY WholeIsMultiple
<1>3. a + b = Channels * (k + l) /\ a - b = Channels * (k - l)
  BY <1>1, <1>2, RecordingAssumption
<1> QED
  BY <1>3, MultipleIsWhole

(* Cutting at a whole number of instants leaves both parts aligned.        *)
LEMMA AlignedParts ==
  ASSUME NEW s \in Seq(Nat), Aligned(s), NEW n \in 0..Len(s), Whole(n)
  PROVE  Aligned(Front(s, n)) /\ Aligned(Rest(s, n))
<1>1. /\ Front(s, n) \in Seq(Nat) /\ Len(Front(s, n)) = n
      /\ \A i \in 1..n : Front(s, n)[i] = s[i]
  BY DEF Front
<1>2. /\ Rest(s, n) \in Seq(Nat) /\ Len(Rest(s, n)) = Len(s) - n
      /\ \A i \in 1..(Len(s) - n) :
           n + i \in DOMAIN s /\ Rest(s, n)[i] = s[n + i]
  BY DEF Rest
<1>3. Aligned(Front(s, n))
  BY <1>1 DEF Aligned
<1>4. Whole(Len(s) - n)
  BY WholeSum DEF Aligned
<1>5. ASSUME NEW i \in 1..(Len(s) - n)
      PROVE  Whole(Rest(s, n)[i] - i)
  <2> DEFINE j == n + i
  <2>1. j \in DOMAIN s /\ Rest(s, n)[i] = s[j] /\ j - n = i /\ j \in Nat
    BY <1>2
  <2> HIDE DEF j
  <2>2. Whole(s[j] - j) /\ s[j] \in Nat
    BY <2>1 DEF Aligned
  <2>3. s[j] - j \in Int /\ n \in Int
    BY <2>1, <2>2
  <2>4. Whole((s[j] - j) + n)
    BY <2>2, <2>3, WholeSum
  <2>5. (s[j] - j) + n = Rest(s, n)[i] - i
    BY <2>1, <2>2
  <2> QED
    BY <2>4, <2>5
<1>6. DOMAIN Rest(s, n) = 1..(Len(s) - n)
  BY <1>2
<1>7. Whole(Len(Rest(s, n)))
  BY <1>2, <1>4
<1>8. Aligned(Rest(s, n))
  BY <1>5, <1>6, <1>7 DEF Aligned
<1> QED
  BY <1>3, <1>8

(* Joining aligned pieces gives an aligned one.                            *)
LEMMA AlignedJoin ==
  ASSUME NEW s \in Seq(Nat), NEW t \in Seq(Nat), Aligned(s), Aligned(t)
  PROVE  Aligned(s \o t)
<1>1. Whole(Len(s \o t))
  <2>1. Len(s \o t) = Len(s) + Len(t)
    BY Join
  <2> QED
    BY <2>1, WholeSum DEF Aligned
<1>2. ASSUME NEW k \in DOMAIN (s \o t)
      PROVE  Whole((s \o t)[k] - k)
  <2>1. CASE k \in DOMAIN s /\ (s \o t)[k] = s[k]
    BY <2>1 DEF Aligned
  <2>2. CASE /\ k > Len(s) /\ k - Len(s) \in DOMAIN t
             /\ (s \o t)[k] = t[k - Len(s)]
    <3> DEFINE l == k - Len(s)
    <3>1. Whole(t[l] - l) /\ t[l] \in Nat /\ l \in Nat
      BY <2>2 DEF Aligned
    <3> HIDE DEF l
    <3>2. Whole((t[l] - l) - Len(s))
      <4>1. t[l] - l \in Int /\ Len(s) \in Int
        BY <3>1
      <4> QED
        BY <3>1, <4>1, WholeSum DEF Aligned
    <3>3. (t[l] - l) - Len(s) = t[l] - k
      BY <3>1 DEF l
    <3> QED
      BY <2>2, <3>2, <3>3 DEF l
  <2> QED
    BY <2>1, <2>2, JoinedAt
<1> QED
  BY <1>1, <1>2 DEF Aligned

(* The ring, the scratch buffer and the callbacks hold whole instants, so  *)
(* whatever is refused is a number of whole instants, too.                 *)
LEMMA AlignNext ==
  ASSUME Whole(ScratchLen), RInv, AlignInv, [RNext]_rvars
  PROVE  AlignInv'
<1>a. /\ data \in Seq(Nat) /\ ring \in Seq(Nat) /\ chunk \in Seq(Nat)
      /\ samples \in Seq(Nat) /\ produced \in Nat
      /\ Len(ring) <= RingCapacity
  BY DEF RInv, RTypeOK
<1>b. /\ ScratchLen \in Nat \ {0} /\ BufferSizes \subseteq Nat \ {0}
      /\ RingCapacity \in Nat /\ Whole(RingCapacity)
      /\ \A n \in BufferSizes : Whole(n)
  BY RecordingAssumption DEF Whole
<1>1. CASE Callback
  <2>1. PICK n \in BufferSizes :
          /\ data' = [i \in 1..n |-> produced + i]
          /\ produced' = produced + n
    BY <1>1 DEF Callback
  <2>2. n \in Nat /\ Whole(n) /\ Whole(produced)
    BY <1>b DEF AlignInv
  <2>3. Whole(produced')
    BY <1>a, <2>1, <2>2, WholeSum
  <2>4. Len(data') = n /\ DOMAIN data' = 1..n
    BY <1>a, <2>1, <2>2
  <2>5. ASSUME NEW i \in 1..n PROVE Whole(data'[i] - i)
    <3>1. data'[i] - i = produced
      BY <1>a, <2>1, <2>2
    <3> QED
      BY <2>2, <3>1
  <2>6. UNCHANGED <<samples, chunk, ring>>
    BY <1>1 DEF Callback, shared, loop
  <2> QED
    BY <2>2, <2>3, <2>4, <2>5, <2>6 DEF AlignInv, Aligned
<1>2. CASE PushSlice
  <2> DEFINE taken == Least(Offered, Room)
  <2>1. /\ Offered \in 0..Len(data) /\ taken \in 0..Len(data)
        /\ Room \in Nat
    BY <1>a, <1>b DEF Offered, Room, Least
  <2>2. Whole(Offered)
    BY DEF Offered, Least, AlignInv, Aligned
  <2>3. Whole(Room)
    BY <1>a, <1>b, WholeSum DEF Room, AlignInv, Aligned
  <2>4. Whole(taken)
    BY <2>2, <2>3 DEF Least
  <2>5. /\ ring' = ring \o Front(data, taken) /\ data' = Rest(data, Offered)
        /\ UNCHANGED <<samples, chunk, produced>>
    BY <1>2 DEF PushSlice, loop
  <2> HIDE DEF taken
  <2>6. /\ Aligned(Front(data, taken)) /\ Aligned(data')
        /\ Front(data, taken) \in Seq(Nat)
    BY <1>a, <2>1, <2>2, <2>4, <2>5, AlignedParts, Split DEF AlignInv
  <2>7. Aligned(ring')
    BY <1>a, <2>5, <2>6, AlignedJoin DEF AlignInv
  <2> QED
    BY <2>5, <2>6, <2>7 DEF AlignInv
<1>3. CASE PopSlice
  <2> DEFINE n == Least(ScratchLen, Len(ring))
  <2>1. n \in 0..Len(ring) /\ Whole(n)
    BY <1>a, <1>b DEF Least, AlignInv, Aligned
  <2>2. /\ chunk' = chunk \o Front(ring, n) /\ ring' = Rest(ring, n)
        /\ UNCHANGED <<samples, data, produced>>
    BY <1>3 DEF PopSlice, device
  <2> HIDE DEF n
  <2>3. /\ Aligned(Front(ring, n)) /\ Aligned(ring')
        /\ Front(ring, n) \in Seq(Nat)
    BY <1>a, <2>1, <2>2, AlignedParts, Split DEF AlignInv
  <2>4. Aligned(chunk')
    BY <1>a, <2>2, <2>3, AlignedJoin DEF AlignInv
  <2> QED
    BY <2>2, <2>3, <2>4 DEF AlignInv
<1>4. CASE RingFoundEmpty /\ chunk # <<>>
  <2>1. /\ samples' = samples \o chunk /\ chunk' = <<>>
        /\ UNCHANGED <<ring, data, produced>>
    BY <1>4 DEF RingFoundEmpty, ClearedChunk, device, shared
  <2>2. Aligned(samples')
    BY <1>a, <2>1, AlignedJoin DEF AlignInv
  <2>3. Aligned(chunk')
    <3>1. Channels * 0 = 0 /\ 0 \in Int
      BY RecordingAssumption
    <3>2. Whole(0)
      BY <3>1, MultipleIsWhole
    <3> QED
      BY <2>1, <3>2 DEF Aligned
  <2> QED
    BY <2>1, <2>2, <2>3 DEF AlignInv
<1>5. CASE UNCHANGED <<samples, chunk, ring, data, produced>>
  BY <1>5 DEF AlignInv
<1> QED
  BY <1>1, <1>2, <1>3, <1>4, <1>5, PiecesStay

(* A full ring loses whole instants only: every sample in the recording is *)
(* attributed to its channel, and the recording ends with a whole instant, *)
(* if the scratch buffer holds whole instants (1024 does for 1 and 2       *)
(* channels).                                                              *)
THEOREM ChannelsKept ==
  ASSUME ScratchLen % Channels = 0
  PROVE  RSpec => []ChannelsAligned
<1>1. RInit => AlignInv
  <2>1. Channels * 0 = 0 /\ 0 \in Int
    BY RecordingAssumption
  <2>2. Whole(0)
    BY <2>1, MultipleIsWhole
  <2> QED
    BY <2>2 DEF RInit, AlignInv, Aligned
<1>2. RInv /\ AlignInv /\ [RNext]_rvars => AlignInv'
  BY AlignNext DEF Whole
<1>3. AlignInv => ChannelsAligned
  BY DEF AlignInv, Aligned, Whole, ChannelsAligned
<1> QED
  BY <1>1, <1>2, <1>3, RInductive, PTL DEF RSpec

-----------------------------------------------------------------------------
(* The tracker of the recording loop is told of one frame after another,   *)
(* whatever the device threads do meanwhile.                               *)
LEMMA TrackerFollows == RSpec => []TrackerInv
<1>1. RInit => TrackerInv
  BY TrackerInit DEF RInit
<1>2. TrackerInv /\ [RNext]_rvars => TrackerInv'
  <2> SUFFICES ASSUME TrackerInv, [RNext]_rvars PROVE TrackerInv'
    OBVIOUS
  <2>1. ASSUME NEW loud \in BOOLEAN, PushFrame(loud) PROVE TrackerInv'
    BY <2>1, TrackerStep
  <2>2. ASSUME UNCHANGED tvars PROVE TrackerInv'
    BY <2>2, TrackerSame
  <2>3. (\E loud \in BOOLEAN : PushFrame(loud)) \/ UNCHANGED tvars
    <3>1. CASE Device
      BY <3>1 DEF Device, Callback, PushSlice, CountDropped, NotifyTask,
                  StreamFails, ErrorNotifies
    <3>2. CASE Loop
      BY <3>2 DEF Loop, PopSlice, RingFoundEmpty, CheckEnded, Notified,
                  Analyse, Finish
    <3>3. CASE Cancelled \/ Stopped \/ UNCHANGED rvars
      BY <3>3 DEF Cancelled, Stopped, rvars
    <3> QED
      BY <3>1, <3>2, <3>3 DEF RNext
  <2> QED
    BY <2>1, <2>2, <2>3
<1> QED
  BY <1>1, <1>2, PTL DEF RSpec

(* A recording counts as speech exactly where min_speech_ms of loud frames *)
(* lie together without a pause of speech_gap_ms.                          *)
THEOREM SpeechOfRecording == RSpec => []SpeechMeansARun
<1>1. TrackerInv => SpeechMeansARun
  BY TrackerMeans
<1> QED
  BY <1>1, TrackerFollows, PTL

(* The loop of record_until_silence is told to stop exactly at             *)
(* max_recording_seconds or when the last silence_timeout_ms were quiet.   *)
THEOREM RecordingStops == RSpec => []StopsAfterSilence
<1>1. TrackerInv => StopsAfterSilence
  BY TrackerMeans
<1> QED
  BY <1>1, TrackerFollows, PTL

=============================================================================
