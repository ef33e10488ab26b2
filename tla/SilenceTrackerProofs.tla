------------------------ MODULE SilenceTrackerProofs ------------------------
(***************************************************************************)
(* What the counters of the SilenceTracker say about the frames pushed so  *)
(* far, for all values of the vad section: lemmas for the modules that     *)
(* push frames (NoiseFloor and Recording).                                 *)
(***************************************************************************)
EXTENDS SilenceTracker, FiniteSetTheorems, TLAPS

(* silence_ms counts the quiet frames at the end, all of them.             *)
QuietFor(q) ==
  /\ silence = q * FrameMs
  /\ Quiet(Len(frames) - q + 1, Len(frames))
  /\ q < Len(frames) => frames[Len(frames) - q]

(* speech_ms counts the loud frames since the last pause of speech_gap_ms, *)
(* or since the beginning.                                                 *)
PauseBefore(r) ==
  \E a \in 1 .. r - 1 : Quiet(a, r - 1) /\ (r - a) * FrameMs >= SpeechGapMs

RunFrom(r) ==
  /\ speech = LoudMs(r, Len(frames))
  /\ Unbroken(r, Len(frames))
  /\ r = 1 \/ PauseBefore(r)

Decided ==
  frames # <<>> =>
    (decision # "Continue" <=>
       LimitReached(elapsed) \/ silence >= SilenceTimeoutMs)

TrackerInv ==
  /\ TrackerTypeOK
  /\ elapsed = Len(frames) * FrameMs
  /\ \E q \in 0 .. Len(frames) : QuietFor(q)
  /\ \E r \in 1 .. Len(frames) + 1 : RunFrom(r)
  /\ Decided
  /\ SpeechMeansARun

(* A further frame leaves what was said of the earlier ones as it was.     *)
LEMMA EarlierFrames ==
  ASSUME frames \in Seq(BOOLEAN), NEW loud \in BOOLEAN,
         frames' = Append(frames, loud),
         NEW i \in Nat \ {0}, NEW j \in 0 .. Len(frames)
  PROVE  /\ Quiet(i, j)' <=> Quiet(i, j)
         /\ Unbroken(i, j)' <=> Unbroken(i, j)
         /\ LoudMs(i, j)' = LoudMs(i, j)
<1>1. ASSUME NEW a \in Nat \ {0}, NEW b \in 0 .. Len(frames)
      PROVE  /\ Quiet(a, b)' <=> Quiet(a, b)
             /\ {k \in a .. b : frames'[k]} = {k \in a .. b : frames[k]}
  <2>1. \A k \in a .. b : k \in 1 .. Len(frames)
    OBVIOUS
  <2>2. \A k \in a .. b : frames'[k] = frames[k]
    BY <2>1
  <2> QED
    BY <2>2 DEF Quiet
<1>2. LoudMs(i, j)' = LoudMs(i, j)
  BY <1>1 DEF LoudMs
<1>3. ASSUME NEW a \in i .. j, NEW b \in i .. j
      PROVE  Quiet(a, b)' <=> Quiet(a, b)
  <2>1. a \in Nat \ {0} /\ b \in 0 .. Len(frames)
    OBVIOUS
  <2> QED
    BY <1>1, <2>1
<1>4. Unbroken(i, j)' <=> Unbroken(i, j)
  BY <1>3 DEF Unbroken
<1> QED
  BY <1>1, <1>2, <1>4

(* A product by the length of a frame keeps the order of its factors.      *)
LEMMA Scaled ==
  ASSUME NEW x \in Nat, NEW y \in Nat, x <= y
  PROVE  x * FrameMs <= y * FrameMs
<1>1. PICK d \in Nat : y = x + d
  <2>1. y - x \in Nat /\ y = x + (y - x)
    OBVIOUS
  <2> QED
    BY <2>1
<1>2. y * FrameMs = x * FrameMs + d * FrameMs
  BY <1>1, VadAssumption
<1>3. d * FrameMs \in Nat /\ x * FrameMs \in Nat
  BY VadAssumption
<1> QED
  BY <1>2, <1>3

(* The number of loud frames in a stretch: finite, none in an empty one.   *)
LEMMA LoudCount ==
  ASSUME NEW f, NEW i \in Int, NEW j \in Int
  PROVE  /\ IsFiniteSet({k \in i .. j : f[k]})
         /\ Cardinality({k \in i .. j : f[k]}) \in Nat
         /\ i > j => FrameMs * Cardinality({k \in i .. j : f[k]}) = 0
<1>1. IsFiniteSet(i .. j)
  BY FS_Interval
<1>2. IsFiniteSet({k \in i .. j : f[k]})
  BY <1>1, FS_Subset
<1>3. Cardinality({k \in i .. j : f[k]}) \in Nat
  BY <1>2, FS_CardinalityType
<1>4. ASSUME i > j PROVE Cardinality({k \in i .. j : f[k]}) = 0
  <2>1. {k \in i .. j : f[k]} = {}
    BY <1>4
  <2> QED
    BY <2>1, FS_EmptySet
<1> QED
  BY <1>2, <1>3, <1>4, VadAssumption

(* A loud frame adds FrameMs to every stretch it ends, a quiet one nothing.*)
LEMMA LoudCountStep ==
  ASSUME frames \in Seq(BOOLEAN), NEW loud \in BOOLEAN,
         frames' = Append(frames, loud),
         NEW n \in Nat, n = Len(frames), NEW i \in 1 .. n + 1
  PROVE  LoudMs(i, n + 1)' = IF loud THEN LoudMs(i, n) + FrameMs
                             ELSE LoudMs(i, n)
<1> DEFINE S == {k \in i .. n : frames[k]}
           T == {k \in i .. n + 1 : frames'[k]}
<1>1. /\ frames'[n + 1] = loud /\ n + 1 \in i .. n + 1 /\ n + 1 \notin i .. n
      /\ \A k \in i .. n : k \in i .. n + 1 /\ frames'[k] = frames[k]
      /\ \A k \in i .. n + 1 : k \in i .. n \/ k = n + 1
  OBVIOUS
<1>2. IsFiniteSet(S) /\ Cardinality(S) \in Nat /\ n + 1 \notin S
  <2>1. i \in Int /\ n \in Int
    OBVIOUS
  <2>2. IsFiniteSet(S) /\ Cardinality(S) \in Nat
    BY <2>1, LoudCount
  <2> QED
    BY <1>1, <2>2
<1>3. CASE loud
  <2>1. T = S \union {n + 1}
    BY <1>1, <1>3
  <2>2. Cardinality(T) = Cardinality(S) + 1
    BY <1>2, <2>1, FS_AddElement
  <2>3. FrameMs * (Cardinality(S) + 1) = FrameMs * Cardinality(S) + FrameMs
    BY <1>2, VadAssumption
  <2>4. LoudMs(i, n + 1)' = FrameMs * Cardinality(T)
    BY DEF LoudMs
  <2>5. LoudMs(i, n) = FrameMs * Cardinality(S)
    BY DEF LoudMs
  <2> HIDE DEF S, T
  <2> QED
    BY <1>3, <2>2, <2>3, <2>4, <2>5
<1>4. CASE ~loud
  <2>1. T = S
    BY <1>1, <1>4
  <2> QED
    BY <1>4, <2>1 DEF LoudMs
<1> QED
  BY <1>3, <1>4

(* What the tracker knows of a step: a frame is appended.                  *)
LEMMA PushAppends ==
  ASSUME TrackerInv, NEW loud \in BOOLEAN, PushFrame(loud)
  PROVE  \E n \in Nat :
           /\ n = Len(frames) /\ n + 1 = Len(frames')
           /\ frames \in Seq(BOOLEAN) /\ frames' = Append(frames, loud)
           /\ frames'[n + 1] = loud
           /\ \A k \in 1 .. n : frames'[k] = frames[k]
<1>1. frames \in Seq(BOOLEAN) /\ frames' = Append(frames, loud)
  BY DEF TrackerInv, TrackerTypeOK, PushFrame
<1>2. Len(frames) \in Nat
  BY <1>1
<1> QED
  BY <1>1, <1>2

(* The silence at the end grows with a quiet frame and ends with a loud.   *)
LEMMA QuietStep ==
  ASSUME TrackerInv, NEW loud \in BOOLEAN, PushFrame(loud)
  PROVE  \E q \in 0 .. Len(frames') : QuietFor(q)'
<1>1. PICK n \in Nat :
        /\ n = Len(frames) /\ n + 1 = Len(frames')
        /\ frames \in Seq(BOOLEAN) /\ frames' = Append(frames, loud)
        /\ frames'[n + 1] = loud
        /\ \A k \in 1 .. n : frames'[k] = frames[k]
  BY PushAppends
<1>2. silence' = IF loud THEN 0 ELSE silence + FrameMs
  BY DEF PushFrame, SilenceAfter
<1>3. CASE loud
  <2>1. silence' = 0 * FrameMs
    BY <1>2, <1>3, VadAssumption
  <2>2. /\ (n + 1) - 0 = n + 1
        /\ \A k \in ((n + 1) - 0 + 1) .. (n + 1) : FALSE
    OBVIOUS
  <2>3. QuietFor(0)'
    BY <1>1, <1>3, <2>1, <2>2 DEF QuietFor, Quiet
  <2> QED
    BY <1>1, <2>3
<1>4. CASE ~loud
  <2>1. PICK q \in 0 .. n : QuietFor(q)
    BY <1>1 DEF TrackerInv
  <2>2. silence' = (q + 1) * FrameMs
    BY <1>2, <1>4, <2>1, VadAssumption DEF QuietFor
  <2>3. (n + 1) - (q + 1) + 1 = n - q + 1 /\ (n + 1) - (q + 1) = n - q
    OBVIOUS
  <2>4. Quiet(n - q + 1, n + 1)'
    <3>1. \A k \in n - q + 1 .. n + 1 :
            k = n + 1 \/ (k \in n - q + 1 .. n /\ k \in 1 .. n)
      OBVIOUS
    <3>2. \A k \in n - q + 1 .. n : ~frames[k]
      BY <1>1, <2>1 DEF QuietFor, Quiet
    <3> QED
      BY <1>1, <1>4, <3>1, <3>2 DEF Quiet
  <2>5. ASSUME q + 1 < n + 1 PROVE frames'[n - q]
    <3>1. q < n /\ n - q \in 1 .. n
      BY <2>5
    <3> QED
      BY <1>1, <2>1, <3>1 DEF QuietFor
  <2>6. QuietFor(q + 1)'
    BY <1>1, <2>2, <2>3, <2>4, <2>5 DEF QuietFor
  <2>7. q + 1 \in 0 .. Len(frames')
    BY <1>1
  <2> QED
    BY <2>6, <2>7
<1> QED
  BY <1>3, <1>4

(* Speech is counted from the last long pause, whatever the frame is: a    *)
(* loud one ends no pause, a quiet one completes at most the pause at the  *)
(* end.                                                                    *)
LEMMA RunStep ==
  ASSUME TrackerInv, NEW loud \in BOOLEAN, PushFrame(loud)
  PROVE  \E r \in 1 .. Len(frames') + 1 : RunFrom(r)'
<1>1. PICK n \in Nat :
        /\ n = Len(frames) /\ n + 1 = Len(frames')
        /\ frames \in Seq(BOOLEAN) /\ frames' = Append(frames, loud)
        /\ frames'[n + 1] = loud
        /\ \A k \in 1 .. n : frames'[k] = frames[k]
  BY PushAppends
<1>2. PICK q \in 0 .. n : QuietFor(q)
  BY <1>1 DEF TrackerInv
<1>3. PICK r \in 1 .. n + 1 : RunFrom(r)
  BY <1>1 DEF TrackerInv
<1>4. speech' = IF loud THEN speech + FrameMs
                ELSE IF silence + FrameMs >= SpeechGapMs THEN 0 ELSE speech
  BY DEF PushFrame, SpeechAfter
<1>5. silence = q * FrameMs /\ silence + FrameMs = (q + 1) * FrameMs
  BY <1>2, VadAssumption DEF QuietFor
<1>6. CASE loud \/ silence + FrameMs < SpeechGapMs
  <2>1. speech' = LoudMs(r, n + 1)'
    BY <1>1, <1>3, <1>4, <1>6, <1>5, VadAssumption, LoudCountStep DEF RunFrom
  <2>2. ASSUME NEW a \in r .. n + 1, NEW b \in r .. n + 1, a <= b,
               Quiet(a, b)', (b - a + 1) * FrameMs >= SpeechGapMs
        PROVE  FALSE
    <3>1. CASE b <= n
      <4>1. a \in Nat \ {0} /\ b \in 0 .. Len(frames) /\ a \in r .. n /\ b \in r .. n
        BY <1>1, <2>2, <3>1
      <4>2. Quiet(a, b)
        BY <1>1, <2>2, <4>1, EarlierFrames
      <4> QED
        BY <1>1, <1>3, <2>2, <4>1, <4>2 DEF RunFrom, Unbroken
    <3>2. CASE b = n + 1
      <4>1. ~loud
        BY <1>1, <2>2, <3>2 DEF Quiet
      <4>2. a >= n - q + 1
        <5> SUFFICES ASSUME a < n - q + 1 PROVE FALSE
          BY <1>2
        <5>1. q < n /\ n - q \in 1 .. n /\ n - q \in a .. b
          BY <3>2, <1>2
        <5>2. frames[n - q]
          BY <1>1, <1>2, <5>1 DEF QuietFor
        <5> QED
          BY <1>1, <2>2, <5>1, <5>2 DEF Quiet
      <4>3. (b - a + 1) * FrameMs <= (q + 1) * FrameMs
        <5>1. b - a + 1 \in Nat /\ q + 1 \in Nat /\ b - a + 1 <= q + 1
          BY <3>2, <4>2, <2>2
        <5> QED
          BY <5>1, Scaled
      <4>4. (b - a + 1) * FrameMs \in Int /\ (q + 1) * FrameMs \in Int
        BY VadAssumption
      <4> QED
        BY <1>5, <1>6, <2>2, <4>1, <4>3, <4>4, VadAssumption
    <3> QED
      BY <3>1, <3>2
  <2>3. Unbroken(r, n + 1)'
    BY <2>2 DEF Unbroken
  <2>4. r = 1 \/ PauseBefore(r)'
    <3>1. ASSUME NEW a \in 1 .. r - 1, Quiet(a, r - 1) PROVE Quiet(a, r - 1)'
      <4>1. a \in Nat \ {0} /\ r - 1 \in 0 .. Len(frames)
        BY <1>1
      <4> QED
        BY <1>1, <3>1, <4>1, EarlierFrames
    <3> QED
      BY <1>3, <3>1 DEF RunFrom, PauseBefore
  <2> QED
    BY <1>1, <2>1, <2>3, <2>4 DEF RunFrom
<1>7. CASE ~loud /\ silence + FrameMs >= SpeechGapMs
  <2>1. speech' = LoudMs(n + 2, n + 1)'
    <3>1. LoudMs(n + 2, n + 1)' = 0
      BY LoudCount DEF LoudMs
    <3> QED
      BY <1>4, <1>7, <3>1
  <2>2. Unbroken(n + 2, n + 1)'
    <3>1. \A a \in n + 2 .. n + 1 : FALSE
      OBVIOUS
    <3> QED
      BY <3>1 DEF Unbroken
  <2>3. PauseBefore(n + 2)'
    <3>1. n - q + 1 \in 1 .. (n + 2) - 1 /\ (n + 2) - 1 = n + 1
          /\ (n + 2) - (n - q + 1) = q + 1
      OBVIOUS
    <3>2. Quiet(n - q + 1, n + 1)'
      <4>1. \A k \in n - q + 1 .. n + 1 :
              k = n + 1 \/ (k \in n - q + 1 .. n /\ k \in 1 .. n)
        OBVIOUS
      <4>2. \A k \in n - q + 1 .. n : ~frames[k]
        BY <1>1, <1>2 DEF QuietFor, Quiet
      <4> QED
        BY <1>1, <1>7, <4>1, <4>2 DEF Quiet
    <3> QED
      BY <1>5, <1>7, <3>1, <3>2 DEF PauseBefore
  <2>4. RunFrom(n + 2)'
    BY <1>1, <2>1, <2>2, <2>3 DEF RunFrom
  <2>5. n + 2 \in 1 .. Len(frames') + 1
    BY <1>1
  <2> QED
    BY <2>4, <2>5
<1>8. silence + FrameMs \in Nat
  BY <1>5, VadAssumption
<1> QED
  BY <1>6, <1>7, <1>8, VadAssumption

(* Speech is a run of loud frames without a long pause, after the step as  *)
(* before it: the run a loud frame completes is the one counted, and no    *)
(* other that ends with it holds more.                                     *)
LEMMA SpeechStep ==
  ASSUME TrackerInv, NEW loud \in BOOLEAN, PushFrame(loud)
  PROVE  SpeechMeansARun'
<1>1. PICK n \in Nat :
        /\ n = Len(frames) /\ n + 1 = Len(frames')
        /\ frames \in Seq(BOOLEAN) /\ frames' = Append(frames, loud)
        /\ frames'[n + 1] = loud
        /\ \A k \in 1 .. n : frames'[k] = frames[k]
  BY PushAppends
<1>2. DOMAIN frames = 1 .. n /\ DOMAIN frames' = 1 .. n + 1
  BY <1>1
<1>3. started' = (started \/ (loud /\ speech' >= MinSpeechMs))
  BY DEF PushFrame
<1>4. ASSUME NEW i \in 1 .. n, NEW j \in 1 .. n
      PROVE  /\ frames'[j] = frames[j]
             /\ Unbroken(i, j)' <=> Unbroken(i, j)
             /\ LoudMs(i, j)' = LoudMs(i, j)
  <2>1. i \in Nat \ {0} /\ j \in 0 .. Len(frames)
    BY <1>1
  <2> QED
    BY <1>1, <2>1, EarlierFrames
<1>5. PICK r \in 1 .. n + 2 : RunFrom(r)'
  BY <1>1, RunStep
<1>6. ASSUME loud
      PROVE  /\ r \in 1 .. n + 1
             /\ speech' = LoudMs(r, n + 1)' /\ Unbroken(r, n + 1)'
             /\ r = 1 \/ PauseBefore(r)'
  <2>1. r # n + 2
    <3> SUFFICES ASSUME r = n + 2 PROVE FALSE
      OBVIOUS
    <3>1. PICK a \in 1 .. n + 1 : Quiet(a, n + 1)'
      <4>1. r # 1 /\ r - 1 = n + 1
        OBVIOUS
      <4> QED
        BY <1>5, <4>1 DEF RunFrom, PauseBefore
    <3>2. n + 1 \in a .. n + 1
      OBVIOUS
    <3> QED
      BY <1>1, <1>6, <3>1, <3>2 DEF Quiet
  <2> QED
    BY <1>1, <1>5, <2>1 DEF RunFrom
<1>7. ASSUME started'
      PROVE  \E i, j \in DOMAIN frames' :
               /\ i <= j /\ frames'[j]
               /\ Unbroken(i, j)' /\ LoudMs(i, j)' >= MinSpeechMs
  <2>1. CASE started
    <3>1. PICK i, j \in DOMAIN frames :
            /\ i <= j /\ frames[j]
            /\ Unbroken(i, j) /\ LoudMs(i, j) >= MinSpeechMs
      BY <2>1 DEF TrackerInv, SpeechMeansARun
    <3> QED
      BY <1>2, <1>4, <3>1
  <2>2. CASE loud /\ speech' >= MinSpeechMs
    BY <1>1, <1>2, <1>6, <2>2
  <2> QED
    BY <1>3, <1>7, <2>1, <2>2
<1>8. ASSUME NEW i \in 1 .. n + 1, NEW j \in 1 .. n + 1, i <= j, frames'[j],
             Unbroken(i, j)', LoudMs(i, j)' >= MinSpeechMs
      PROVE  started'
  <2>1. CASE j <= n
    <3>1. i \in 1 .. n /\ j \in 1 .. n
      BY <1>8, <2>1
    <3>2. started
      BY <1>2, <1>4, <1>8, <3>1 DEF TrackerInv, SpeechMeansARun
    <3> QED
      BY <1>3, <3>2
  <2>2. CASE j = n + 1
    <3>1. loud
      BY <1>1, <1>8, <2>2
    <3> DEFINE S == {k \in i .. n + 1 : frames'[k]}
               T == {k \in r .. n + 1 : frames'[k]}
    <3>2. S \subseteq T
      <4> SUFFICES ASSUME NEW k \in i .. n + 1, frames'[k], k < r PROVE FALSE
        BY <1>6, <3>1
      <4>1. PICK a \in 1 .. r - 1 :
              Quiet(a, r - 1)' /\ (r - a) * FrameMs >= SpeechGapMs
        BY <1>6, <3>1 DEF PauseBefore
      <4>2. CASE a >= i
        <5>1. /\ a \in i .. j /\ r - 1 \in i .. j /\ a <= r - 1
              /\ (r - 1) - a + 1 = r - a
          BY <1>6, <2>2, <3>1, <4>2
        <5> QED
          BY <1>8, <4>1, <5>1 DEF Unbroken
      <4>3. CASE a < i
        <5>1. k \in a .. r - 1
          BY <4>3, <1>6, <3>1
        <5> QED
          BY <4>1, <5>1 DEF Quiet
      <4> QED
        BY <4>2, <4>3
    <3>3. /\ IsFiniteSet(T) /\ Cardinality(T) \in Nat
          /\ Cardinality(S) \in Nat
      <4>1. i \in Int /\ r \in Int /\ n + 1 \in Int
        BY <1>6, <3>1
      <4> QED
        BY <4>1, LoudCount
    <3>4. Cardinality(S) <= Cardinality(T)
      BY <3>2, <3>3, FS_Subset
    <3>5. /\ LoudMs(i, n + 1)' = FrameMs * Cardinality(S)
          /\ LoudMs(r, n + 1)' = FrameMs * Cardinality(T)
      BY DEF LoudMs
    <3> HIDE DEF S, T
    <3>6. FrameMs * Cardinality(S) <= FrameMs * Cardinality(T)
      <4>1. Cardinality(S) * FrameMs <= Cardinality(T) * FrameMs
        BY <3>3, <3>4, Scaled
      <4> QED
        BY <3>3, <4>1, VadAssumption
    <3>7. FrameMs * Cardinality(S) \in Nat /\ FrameMs * Cardinality(T) \in Nat
      BY <3>3, VadAssumption
    <3>8. speech' >= MinSpeechMs
      BY <1>6, <1>8, <2>2, <3>1, <3>5, <3>6, <3>7, VadAssumption
    <3> QED
      BY <1>3, <3>1, <3>8
  <2> QED
    BY <2>1, <2>2
<1> QED
  BY <1>2, <1>7, <1>8 DEF SpeechMeansARun

-----------------------------------------------------------------------------
LEMMA TrackerInit == NewTracker => TrackerInv
<1> SUFFICES ASSUME NewTracker PROVE TrackerInv
  OBVIOUS
<1>1. /\ frames = <<>> /\ Len(frames) = 0 /\ DOMAIN frames = {}
      /\ elapsed = 0 /\ silence = 0 /\ speech = 0 /\ started = FALSE
      /\ decision = "Continue"
  BY DEF NewTracker
<1>2. TrackerTypeOK
  <2>1. <<>> \in Seq(BOOLEAN)
    OBVIOUS
  <2>2. frames \in Seq(BOOLEAN)
    BY <1>1, <2>1
  <2> QED
    BY <1>1, <2>2, Zenon DEF TrackerTypeOK, Decision
<1>3. elapsed = Len(frames) * FrameMs
  BY <1>1, VadAssumption
<1>4. QuietFor(0)
  <2>1. 0 = 0 * FrameMs
    BY VadAssumption
  <2> QED
    BY <1>1, <2>1 DEF QuietFor, Quiet
<1>5. RunFrom(1)
  <2>1. LoudMs(1, 0) = 0
    BY LoudCount DEF LoudMs
  <2>2. Unbroken(1, 0)
    BY DEF Unbroken
  <2> QED
    BY <1>1, <2>1, <2>2 DEF RunFrom
<1>6. Decided /\ SpeechMeansARun
  BY <1>1 DEF Decided, SpeechMeansARun
<1> QED
  BY <1>1, <1>2, <1>3, <1>4, <1>5, <1>6 DEF TrackerInv

LEMMA TrackerStep ==
  ASSUME TrackerInv, NEW loud \in BOOLEAN, PushFrame(loud)
  PROVE  TrackerInv'
<1>1. PICK n \in Nat :
        /\ n = Len(frames) /\ n + 1 = Len(frames')
        /\ frames \in Seq(BOOLEAN) /\ frames' = Append(frames, loud)
        /\ frames'[n + 1] = loud
        /\ \A k \in 1 .. n : frames'[k] = frames[k]
  BY PushAppends
<1>2. TrackerTypeOK'
  BY VadAssumption
     DEF TrackerInv, TrackerTypeOK, PushFrame, SilenceAfter, SpeechAfter,
         Decision, LimitReached
<1>3. elapsed' = (n + 1) * FrameMs
  BY <1>1, VadAssumption DEF TrackerInv, PushFrame
<1>4. Decided'
  BY DEF PushFrame, Decided, LimitReached
<1> QED
  BY <1>1, <1>2, <1>3, <1>4, QuietStep, RunStep, SpeechStep DEF TrackerInv

LEMMA TrackerSame ==
  ASSUME TrackerInv, UNCHANGED tvars
  PROVE  TrackerInv'
BY DEF TrackerInv, TrackerTypeOK, QuietFor, RunFrom, PauseBefore, Decided,
       SpeechMeansARun, LoudMs, Unbroken, Quiet, LimitReached, tvars, counters

(* What the counters decide is what the frames say.                        *)
LEMMA TrackerMeans ==
  ASSUME TrackerInv
  PROVE  SpeechMeansARun /\ StopsAfterSilence
<1>1. SpeechMeansARun
  BY DEF TrackerInv
<1>2. ASSUME frames # <<>>
      PROVE  silence >= SilenceTimeoutMs <=>
               \/ SilenceTimeoutMs = 0
               \/ \E i \in DOMAIN frames :
                    /\ Quiet(i, Len(frames))
                    /\ (Len(frames) - i + 1) * FrameMs >= SilenceTimeoutMs
  <2>1. PICK n \in Nat : n = Len(frames) /\ DOMAIN frames = 1 .. n
    BY DEF TrackerInv, TrackerTypeOK
  <2>2. PICK q \in 0 .. n : QuietFor(q)
    BY <2>1 DEF TrackerInv
  <2>3. silence = q * FrameMs /\ silence \in Nat
    BY <2>2, VadAssumption DEF QuietFor
  <2>4. ASSUME silence >= SilenceTimeoutMs, SilenceTimeoutMs # 0
        PROVE  \E i \in 1 .. n :
                 Quiet(i, n) /\ (n - i + 1) * FrameMs >= SilenceTimeoutMs
    <3>1. q # 0
      BY <2>3, <2>4, VadAssumption
    <3>2. n - q + 1 \in 1 .. n /\ n - (n - q + 1) + 1 = q
      BY <3>1
    <3>3. Quiet(n - q + 1, n)
      BY <2>1, <2>2 DEF QuietFor
    <3> QED
      BY <2>3, <2>4, <3>2, <3>3
  <2>5. ASSUME NEW i \in 1 .. n, Quiet(i, n),
               (n - i + 1) * FrameMs >= SilenceTimeoutMs
        PROVE  silence >= SilenceTimeoutMs
    <3>1. i > n - q
      <4> SUFFICES ASSUME i <= n - q PROVE FALSE
        OBVIOUS
      <4>1. q < n /\ n - q \in i .. n
        OBVIOUS
      <4> QED
        BY <2>1, <2>2, <2>5, <4>1 DEF QuietFor, Quiet
    <3>2. n - i + 1 \in Nat /\ n - i + 1 <= q
      BY <3>1
    <3>3. (n - i + 1) * FrameMs <= q * FrameMs
      BY <3>2, Scaled
    <3>4. (n - i + 1) * FrameMs \in Nat
      BY <3>2, VadAssumption
    <3> QED
      BY <2>3, <2>5, <3>3, <3>4, VadAssumption
  <2>6. SilenceTimeoutMs = 0 => silence >= SilenceTimeoutMs
    BY <2>3
  <2> QED
    BY <2>1, <2>4, <2>5, <2>6
<1>3. StopsAfterSilence
  BY <1>2 DEF TrackerInv, Decided, LimitReached, StopsAfterSilence
<1> QED
  BY <1>1, <1>3

=============================================================================
