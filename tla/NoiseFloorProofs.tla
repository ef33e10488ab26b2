-------------------------- MODULE NoiseFloorProofs --------------------------
(***************************************************************************)
(* The decisions of the SilenceTracker hold whatever noise floor the       *)
(* frames are measured against, and the floor follows the noise, for all   *)
(* values of the constants.                                                *)
(***************************************************************************)
EXTENDS NoiseFloor, SilenceTrackerProofs, NaturalsInduction, WellFoundedInduction

(* Measured against the floor a frame is loud or it is not.                *)
LEMMA MeasuredFrame ==
  ASSUME NEW rms, push_frame(rms)
  PROVE  \E loud \in BOOLEAN : PushFrame(loud)
<1>1. PushFrame(rms >= effective_threshold)
  BY DEF push_frame
<1>2. CASE rms >= effective_threshold
  BY <1>1, <1>2 DEF PushFrame, SilenceAfter, SpeechAfter, LimitReached
<1>3. CASE ~(rms >= effective_threshold)
  <2>1. (rms >= effective_threshold) = FALSE
    BY <1>3
  <2>2. PushFrame(FALSE)
    BY <1>1, <2>1 DEF PushFrame, SilenceAfter, SpeechAfter, LimitReached
  <2> QED
    BY <2>2
<1> QED
  BY <1>2, <1>3

(* The counters of vad.rs say of the frames what TrackerInv states, in     *)
(* every recording measured against the noise floor.                       *)
THEOREM CountersKept == FloorSpec => []TrackerInv
<1>1. FloorInit => TrackerInv
  BY TrackerInit DEF FloorInit
<1>2. TrackerInv /\ [FloorNext]_fvars => TrackerInv'
  <2> SUFFICES ASSUME TrackerInv, [FloorNext]_fvars PROVE TrackerInv'
    OBVIOUS
  <2>1. ASSUME NEW rms \in Levels, push_frame(rms) PROVE TrackerInv'
    BY <2>1, MeasuredFrame, TrackerStep
  <2>2. ASSUME UNCHANGED fvars PROVE TrackerInv'
    <3>1. UNCHANGED tvars
      BY <2>2 DEF fvars
    <3> QED
      BY <3>1, TrackerSame
  <2> QED
    BY <2>1, <2>2 DEF FloorNext
<1> QED
  BY <1>1, <1>2, PTL DEF FloorSpec

(* Speech is found exactly where min_speech_ms of loud frames lie together *)
(* without a pause of speech_gap_ms (speech_started of vad.rs).            *)
THEOREM SpeechIsARun == FloorSpec => []SpeechMeansARun
<1>1. TrackerInv => SpeechMeansARun
  BY TrackerMeans
<1> QED
  BY <1>1, CountersKept, PTL

(* push_frame stops a recording exactly at max_recording_seconds or when   *)
(* its last silence_timeout_ms were quiet.                                 *)
THEOREM SilenceStops == FloorSpec => []StopsAfterSilence
<1>1. TrackerInv => StopsAfterSilence
  BY TrackerMeans
<1> QED
  BY <1>1, CountersKept, PTL

-----------------------------------------------------------------------------
(* Where the floor goes.                                                   *)

Frames == AdaptFrames + RecoverFrames

LEMMA FramesType == Frames \in Nat /\ AdaptFrames \in 0 .. Frames /\ RecoverFrames \in 0 .. Frames
BY FloorAssumption DEF Frames

(* A floor settles frame by frame.                                         *)
LEMMA SettlingStep ==
  ASSUME NEW rms, NEW from
  PROVE  /\ Settling(rms, from)[0] = from
         /\ \A n \in 1 .. Frames :
              Settling(rms, from)[n] = Followed(rms, Settling(rms, from)[n - 1])
<1> DEFINE Settles(g, m) ==
             g = [n \in 0 .. m |-> IF n = 0 THEN from ELSE Followed(rms, g[n - 1])]
           Unknown == {m \in Nat : ~\E g : Settles(g, m)}
           R == OpToRel(<, Nat)
<1>1. 0 \notin Unknown
  <2> DEFINE g == [n \in 0 .. 0 |-> from]
  <2>1. \A n \in 0 .. 0 : n = 0
    OBVIOUS
  <2>2. Settles(g, 0)
    BY <2>1
  <2> QED
    BY <2>2
<1>2. ASSUME NEW p \in Nat, p \notin Unknown PROVE p + 1 \notin Unknown
  <2>1. PICK h : Settles(h, p)
    BY <1>2
  <2> DEFINE m == p + 1
             g == [n \in 0 .. m |-> IF n = m THEN Followed(rms, h[n - 1]) ELSE h[n]]
  <2>2. m \in Nat /\ m # 0
    OBVIOUS
  <2>3. \A n \in 0 .. m : g[n] = IF n = 0 THEN from ELSE Followed(rms, g[n - 1])
    <3> SUFFICES ASSUME NEW n \in 0 .. m
                 PROVE  g[n] = IF n = 0 THEN from ELSE Followed(rms, g[n - 1])
      OBVIOUS
    <3>1. n # 0 => n - 1 \in 0 .. m /\ n - 1 # m
      BY <2>2
    <3>2. CASE n = m
      BY <2>2, <3>1, <3>2
    <3>3. CASE n # m
      <4>1. n \in 0 .. p
        BY <2>2, <3>3
      <4>2. h[n] = IF n = 0 THEN from ELSE Followed(rms, h[n - 1])
        BY <2>1, <4>1
      <4> QED
        BY <3>1, <3>3, <4>2
    <3> QED
      BY <3>2, <3>3
  <2>4. g = [n \in 0 .. m |-> g[n]]
    OBVIOUS
  <2> HIDE DEF g
  <2>5. Settles(g, m)
    BY <2>3, <2>4
  <2> QED
    BY <2>2, <2>5
<1>3. Unknown = {}
  <2> SUFFICES ASSUME Unknown # {} PROVE FALSE
    OBVIOUS
  <2>1. Unknown \subseteq Nat
    OBVIOUS
  <2>2. \A x, y \in Nat : <<x, y>> \in R <=> x < y
    BY DEF OpToRel
  <2> HIDE DEF Unknown, R
  <2>3. IsWellFoundedOn(R, Nat)
    BY NatLessThanWellFounded, Zenon DEF R
  <2>4. PICK m \in Unknown : \A y \in Unknown : ~(<<y, m>> \in R)
    BY <2>1, <2>3, WFMin
  <2>5. m \in Nat /\ m # 0
    BY <1>1, <2>1, <2>4
  <2>6. m - 1 \in Nat /\ m - 1 < m /\ (m - 1) + 1 = m
    BY <2>5
  <2>7. m - 1 \in Unknown
    BY <1>2, <2>4, <2>6
  <2> QED
    BY <2>2, <2>4, <2>5, <2>6, <2>7
<1>4. \E g : Settles(g, Frames)
  BY <1>3, FramesType
<1>5. PICK f : Settles(f, Frames) /\ Settling(rms, from) = f
  <2> DEFINE f == CHOOSE g : Settles(g, Frames)
  <2>1. Settles(f, Frames)
    BY <1>4
  <2>2. Settling(rms, from) = f
    BY DEF Settling, Frames
  <2> QED
    BY <2>1, <2>2
<1>6. \A n \in 0 .. Frames : f[n] = IF n = 0 THEN from ELSE Followed(rms, f[n - 1])
  BY <1>5
<1> HIDE DEF Settles
<1>7. 0 \in 0 .. Frames /\ \A n \in 1 .. Frames : n \in 0 .. Frames /\ n # 0
  BY FramesType
<1> QED
  BY <1>5, <1>6, <1>7

(* The quotient keeps the order and lies between what bounds the sum.      *)
LEMMA Product == \A a, b \in Nat : a <= b => Den * a <= Den * b
<1> SUFFICES ASSUME NEW a \in Nat, NEW b \in Nat, a <= b PROVE Den * a <= Den * b
  OBVIOUS
<1>1. Den \in Nat /\ b - a \in Nat /\ Den * (b - a) \in Nat
  BY FloorAssumption
<1>2. Den * b = Den * a + Den * (b - a)
  BY <1>1
<1> QED
  BY <1>1, <1>2

LEMMA Quotient ==
  ASSUME NEW x \in Nat
  PROVE  /\ x \div Den \in Nat
         /\ \A u \in Nat : Den * u <= x => u <= x \div Den
         /\ \A v \in Nat : x <= Den * v => x \div Den <= v
<1> DEFINE q == x \div Den
<1>1. Den \in Nat /\ Den > 0
  BY FloorAssumption
<1>2. q \in Nat /\ Den * q <= x /\ x < Den * (q + 1)
  BY <1>1
<1> HIDE DEF q
<1>3. ASSUME NEW u \in Nat, Den * u <= x PROVE u <= q
  <2> SUFFICES ASSUME ~(u <= q) PROVE FALSE
    OBVIOUS
  <2>1. q + 1 \in Nat /\ q + 1 <= u
    BY <1>2
  <2>2. Den * (q + 1) <= Den * u
    BY <2>1, Product
  <2>3. Den * (q + 1) \in Nat /\ Den * u \in Nat
    BY <1>1, <2>1
  <2> QED
    BY <1>2, <1>3, <2>2, <2>3
<1>4. ASSUME NEW v \in Nat, x <= Den * v PROVE q <= v
  <2> SUFFICES ASSUME ~(q <= v) PROVE FALSE
    OBVIOUS
  <2>1. v + 1 \in Nat /\ v + 1 <= q
    BY <1>2
  <2>2. Den * (v + 1) <= Den * q
    BY <2>1, <1>2, Product
  <2>3. Den * (v + 1) = Den * v + Den /\ Den * v \in Nat /\ Den * q \in Nat
    BY <1>1, <1>2
  <2> QED
    BY <1>1, <1>2, <1>4, <2>2, <2>3
<1> QED
  BY <1>2, <1>3, <1>4 DEF q

(* One factor: between floor and level, and in the order of the floors.    *)
LEMMA SmoothedBounds ==
  ASSUME NEW alpha \in 1 .. Den, NEW rms \in Nat, NEW f \in Nat
  PROVE  /\ Smoothed(alpha, rms, f) \in Nat
         /\ f <= rms => f <= Smoothed(alpha, rms, f) /\ Smoothed(alpha, rms, f) <= rms
         /\ rms <= f => rms <= Smoothed(alpha, rms, f) /\ Smoothed(alpha, rms, f) <= f
<1> DEFINE beta == Den - alpha
           x == alpha * rms + beta * f
<1>1. Den \in Nat /\ alpha \in Nat /\ beta \in Nat /\ alpha + beta = Den
  BY FloorAssumption
<1> HIDE DEF beta
<1>2. alpha * rms \in Nat /\ beta * f \in Nat /\ alpha * f \in Nat /\ beta * rms \in Nat
  BY <1>1
<1>3. Den * rms = alpha * rms + beta * rms /\ Den * f = alpha * f + beta * f
  BY <1>1
<1>4. ASSUME NEW c \in Nat, NEW a \in Nat, NEW b \in Nat, a <= b PROVE c * a <= c * b
  <2>1. b - a \in Nat /\ c * (b - a) \in Nat /\ c * b = c * a + c * (b - a)
    BY <1>4
  <2>2. c * a \in Nat
    OBVIOUS
  <2> QED
    BY <2>1, <2>2
<1>5. f <= rms => Den * f <= x /\ x <= Den * rms
  BY <1>1, <1>2, <1>3, <1>4
<1>6. rms <= f => Den * rms <= x /\ x <= Den * f
  BY <1>1, <1>2, <1>3, <1>4
<1>7. x \in Nat
  BY <1>2
<1>8. Smoothed(alpha, rms, f) = x \div Den
  BY DEF Smoothed, beta
<1> HIDE DEF x
<1> QED
  BY <1>5, <1>6, <1>7, <1>8, Quotient

LEMMA SmoothedOrder ==
  ASSUME NEW alpha \in 1 .. Den, NEW rms \in Nat, NEW f \in Nat, NEW g \in Nat, f <= g
  PROVE  Smoothed(alpha, rms, f) <= Smoothed(alpha, rms, g)
<1> DEFINE beta == Den - alpha
           x == alpha * rms + beta * f
           y == alpha * rms + beta * g
           q == x \div Den
<1>1. Den \in Nat /\ Den > 0 /\ alpha \in Nat /\ beta \in Nat
  BY FloorAssumption
<1>2. Smoothed(alpha, rms, f) = q /\ Smoothed(alpha, rms, g) = y \div Den
  BY DEF Smoothed
<1> HIDE DEF beta
<1>3. alpha * rms \in Nat /\ beta * f \in Nat /\ beta * g \in Nat
  BY <1>1
<1>4. beta * f <= beta * g
  <2>1. g - f \in Nat /\ beta * (g - f) \in Nat /\ beta * g = beta * f + beta * (g - f)
    BY <1>1
  <2> QED
    BY <1>3, <2>1
<1>5. x \in Nat /\ y \in Nat /\ x <= y
  BY <1>3, <1>4
<1> HIDE DEF x, y
<1>6. q \in Nat /\ Den * q <= x
  BY <1>1, <1>5
<1> HIDE DEF q
<1>7. Den * q \in Nat
  BY <1>1, <1>6
<1>8. Den * q <= y
  BY <1>5, <1>6, <1>7
<1> QED
  BY <1>2, <1>5, <1>6, <1>8, Quotient

(* Of two floors the lower stays the lower, whatever the factors.          *)
LEMMA FollowedBounds ==
  ASSUME NEW rms \in Nat, NEW f \in Nat
  PROVE  /\ Followed(rms, f) \in Nat
         /\ f <= rms => f <= Followed(rms, f) /\ Followed(rms, f) <= rms
         /\ rms <= f => rms <= Followed(rms, f) /\ Followed(rms, f) <= f
<1>1. RiseAlpha \in 1 .. Den /\ FallAlpha \in 1 .. Den
  BY FloorAssumption
<1> QED
  BY <1>1, SmoothedBounds DEF Followed

LEMMA FollowedOrder ==
  ASSUME NEW rms \in Nat, NEW f \in Nat, NEW g \in Nat, f <= g
  PROVE  Followed(rms, f) <= Followed(rms, g)
<1>1. RiseAlpha \in 1 .. Den /\ FallAlpha \in 1 .. Den
  BY FloorAssumption
<1>2. CASE rms > g
  BY <1>1, <1>2, SmoothedOrder DEF Followed
<1>3. CASE ~(rms > f)
  BY <1>1, <1>3, SmoothedOrder DEF Followed
<1>4. CASE rms > f /\ ~(rms > g)
  <2>1. Followed(rms, f) <= rms /\ rms <= Followed(rms, g)
    BY <1>4, FollowedBounds
  <2>2. Followed(rms, f) \in Nat /\ Followed(rms, g) \in Nat
    BY FollowedBounds
  <2> QED
    BY <2>1, <2>2
<1> QED
  BY <1>2, <1>3, <1>4

-----------------------------------------------------------------------------
(* What the floor is known to be after n frames of one level: no lower than *)
(* a floor that began at 0, no higher than one that began at some level.   *)
Settled(n, rms) ==
  /\ Settling(rms, 0)[n] \in Nat /\ Settling(rms, 0)[n] <= floor
  /\ \E top \in Levels :
       Settling(rms, top)[n] \in Nat /\ floor <= Settling(rms, top)[n]

FloorInv ==
  /\ floor \in Nat /\ levels \in Seq(Levels) /\ Len(frames) = Len(levels)
  /\ \A rms \in Levels : \A n \in 0 .. Frames :
       SteadyBefore(Len(levels) + 1, n, rms) => Settled(n, rms)

LEMMA MaxOfTwo ==
  ASSUME NEW a \in Nat, NEW b \in Nat, NEW r \in Nat
  PROVE  r >= Max({a, b}) <=> r >= a /\ r >= b
<1>1. Max({a, b}) \in {a, b} /\ a <= Max({a, b}) /\ b <= Max({a, b})
  <2>1. \E x \in {a, b} : \A y \in {a, b} : x >= y
    OBVIOUS
  <2>2. Max({a, b}) \in {a, b} /\ \A y \in {a, b} : Max({a, b}) >= y
    BY <2>1 DEF Max
  <2> QED
    BY <2>2
<1> QED
  BY <1>1

LEMMA FloorInitInv == ASSUME FloorInit PROVE FloorInv
<1>1. floor = 0 /\ levels = <<>> /\ frames = <<>>
  BY DEF FloorInit, NewTracker
<1>2. ASSUME NEW rms \in Levels, NEW n \in 0 .. Frames, SteadyBefore(1, n, rms)
      PROVE  Settled(n, rms)
  <2>1. n = 0 /\ rms \in Nat
    BY <1>2, FramesType, FloorAssumption DEF SteadyBefore
  <2>2. Settling(rms, 0)[0] = 0 /\ Settling(rms, rms)[0] = rms
    BY SettlingStep
  <2> QED
    BY <1>1, <2>1, <2>2 DEF Settled
<1>3. Len(levels) = 0 /\ Len(frames) = 0 /\ levels \in Seq(Levels) /\ 0 + 1 = 1
  BY <1>1
<1> QED
  BY <1>1, <1>2, <1>3 DEF FloorInv

(* What a frame adds to the history.                                       *)
LEMMA LevelsGrow ==
  ASSUME FloorInv, TrackerInv, NEW rms \in Levels, push_frame(rms)
  PROVE  /\ levels' \in Seq(Levels) /\ Len(levels') = Len(levels) + 1
         /\ Len(frames') = Len(frames) + 1
         /\ levels'[Len(levels) + 1] = rms
         /\ frames'[Len(levels) + 1] <=> rms >= effective_threshold
         /\ \A k \in 1 .. Len(levels) :
              levels'[k] = levels[k] /\ (frames'[k] <=> frames[k])
<1>1. levels \in Seq(Levels) /\ frames \in Seq(BOOLEAN) /\ Len(frames) = Len(levels)
  BY DEF FloorInv, TrackerInv, TrackerTypeOK
<1>2. levels' = Append(levels, rms)
  BY DEF push_frame
<1>3. \E loud \in BOOLEAN :
        frames' = Append(frames, loud) /\ (loud <=> rms >= effective_threshold)
  <2>1. frames' = Append(frames, rms >= effective_threshold)
    BY DEF push_frame, PushFrame
  <2>2. CASE rms >= effective_threshold
    <3>1. (rms >= effective_threshold) = TRUE
      BY <2>2
    <3> QED
      BY <2>1, <2>2, <3>1
  <2>3. CASE ~(rms >= effective_threshold)
    <3>1. (rms >= effective_threshold) = FALSE
      BY <2>3
    <3> QED
      BY <2>1, <2>3, <3>1
  <2> QED
    BY <2>2, <2>3
<1>4. PICK loud \in BOOLEAN :
        frames' = Append(frames, loud) /\ (loud <=> rms >= effective_threshold)
  BY <1>3
<1>5. /\ levels' \in Seq(Levels) /\ Len(levels') = Len(levels) + 1
      /\ levels'[Len(levels) + 1] = rms
      /\ \A k \in 1 .. Len(levels) : levels'[k] = levels[k]
  BY <1>1, <1>2
<1>6. /\ Len(frames') = Len(frames) + 1 /\ frames'[Len(frames) + 1] = loud
      /\ \A k \in 1 .. Len(frames) : frames'[k] = frames[k]
  BY <1>1, <1>4
<1> QED
  BY <1>1, <1>4, <1>5, <1>6

LEMMA FloorStep ==
  ASSUME FloorInv, TrackerInv, NEW level \in Levels, push_frame(level)
  PROVE  FloorInv'
<1>0. PICK l \in Nat : l = Len(levels)
  BY DEF FloorInv
<1>1. /\ floor \in Nat /\ l \in Nat /\ level \in Nat /\ Levels \subseteq Nat
      /\ floor' = Followed(level, floor)
  BY FloorAssumption DEF FloorInv, push_frame, update_noise_floor
<1>2. /\ levels' \in Seq(Levels) /\ Len(levels') = l + 1 /\ Len(frames') = l + 1
      /\ levels'[l + 1] = level /\ \A k \in 1 .. l : levels'[k] = levels[k]
  BY <1>0, LevelsGrow DEF FloorInv
<1>3. /\ floor' \in Nat
      /\ floor <= level => floor' <= level
      /\ level <= floor => floor' <= floor
  BY <1>1, FollowedBounds
<1>4. ASSUME NEW rms \in Levels, NEW n \in 0 .. Frames, SteadyBefore(l + 1, n, rms)
      PROVE  Settled(n, rms)
  BY <1>0, <1>4 DEF FloorInv
<1>5. ASSUME NEW rms \in Levels PROVE Settled(0, rms)'
  <2>1. SteadyBefore(l + 1, 0, rms) /\ 0 \in 0 .. Frames
    BY <1>1, FramesType DEF SteadyBefore
  <2>2. PICK top \in Levels : floor <= Settling(rms, top)[0]
    BY <1>4, <2>1 DEF Settled
  <2>3. \A from : Settling(rms, from)[0] = from
    BY SettlingStep
  <2>4. \E t \in Levels : floor' <= t
    <3>1. top \in Nat /\ floor <= top
      BY <1>1, <2>2, <2>3
    <3> QED
      BY <1>1, <1>3, <3>1
  <2> QED
    BY <1>1, <1>3, <2>3, <2>4 DEF Settled
<1>6. ASSUME NEW rms \in Levels, NEW n \in 1 .. Frames, SteadyBefore(l + 2, n, rms)'
      PROVE  Settled(n, rms)'
  <2>1. n \in Nat /\ n - 1 \in 0 .. Frames /\ n \in 1 .. Frames /\ n - 1 \in Nat
    BY FramesType
  <2>2. l + 2 > n /\ \A k \in l + 2 - n .. l + 1 : levels'[k] = rms
    BY <1>1, <1>6 DEF SteadyBefore
  <2>3. rms = level
    BY <1>1, <1>2, <2>1, <2>2
  <2>4. SteadyBefore(l + 1, n - 1, rms)
    <3>1. l + 1 > n - 1
      BY <1>1, <2>1, <2>2
    <3>2. ASSUME NEW k \in l + 1 - (n - 1) .. l PROVE levels[k] = rms
      <4>1. k \in 1 .. l /\ k \in l + 2 - n .. l + 1
        BY <1>1, <2>1, <2>2
      <4> QED
        BY <1>2, <2>2, <4>1
    <3>3. l + 1 - 1 = l
      BY <1>1
    <3> QED
      BY <3>1, <3>2, <3>3 DEF SteadyBefore
  <2>5. Settled(n - 1, rms)
    BY <1>4, <2>1, <2>4
  <2>6. \A from : Settling(rms, from)[n] = Followed(rms, Settling(rms, from)[n - 1])
    BY <2>1, SettlingStep
  <2>7. Settling(rms, 0)[n] \in Nat /\ Settling(rms, 0)[n] <= floor'
    <3> DEFINE low == Settling(rms, 0)[n - 1]
    <3>1. low \in Nat /\ low <= floor /\ Settling(rms, 0)[n] = Followed(rms, low)
      BY <2>5, <2>6 DEF Settled
    <3> HIDE DEF low
    <3>2. rms \in Nat /\ floor' = Followed(rms, floor)
      BY <1>1, <2>3
    <3>3. Followed(rms, low) \in Nat /\ Followed(rms, low) <= Followed(rms, floor)
      BY <1>1, <3>1, <3>2, FollowedBounds, FollowedOrder
    <3> QED
      BY <3>1, <3>2, <3>3
  <2>8. PICK top \in Levels :
          Settling(rms, top)[n - 1] \in Nat /\ floor <= Settling(rms, top)[n - 1]
    BY <2>5 DEF Settled
  <2>9. Settling(rms, top)[n] \in Nat /\ floor' <= Settling(rms, top)[n]
    <3> DEFINE high == Settling(rms, top)[n - 1]
    <3>1. high \in Nat /\ floor <= high /\ Settling(rms, top)[n] = Followed(rms, high)
      BY <2>6, <2>8
    <3> HIDE DEF high
    <3>2. rms \in Nat /\ floor' = Followed(rms, floor)
      BY <1>1, <2>3
    <3>3. Followed(rms, high) \in Nat /\ Followed(rms, floor) <= Followed(rms, high)
      BY <1>1, <3>1, <3>2, FollowedBounds, FollowedOrder
    <3> QED
      BY <3>1, <3>2, <3>3
  <2> QED
    BY <2>7, <2>9 DEF Settled
<1>7. \A rms \in Levels : \A n \in 0 .. Frames :
        SteadyBefore(l + 2, n, rms)' => Settled(n, rms)'
  <2>1. \A n \in 0 .. Frames : n = 0 \/ n \in 1 .. Frames
    BY FramesType
  <2> QED
    BY <1>5, <1>6, <2>1
<1>8. l + 1 + 1 = l + 2
  BY <1>1
<1> QED
  BY <1>2, <1>3, <1>7, <1>8 DEF FloorInv

LEMMA FloorSame == ASSUME FloorInv, UNCHANGED fvars PROVE FloorInv'
BY DEF FloorInv, Settled, SteadyBefore, fvars, tvars

(* The noise floor of vad.rs stays, in every recording, between the floors *)
(* that began at 0 and at some level and heard the last frames only.       *)
THEOREM FloorFollows == FloorSpec => []FloorInv
<1>1. FloorInit => FloorInv
  BY FloorInitInv
<1>2. TrackerInv /\ FloorInv /\ [FloorNext]_fvars => FloorInv'
  BY FloorStep, FloorSame DEF FloorNext
<1> QED
  BY <1>1, <1>2, CountersKept, PTL DEF FloorSpec

(* What was said of the frames before stays as it was.                     *)
LEMMA EarlierLevels ==
  ASSUME FloorInv, TrackerInv, NEW level \in Levels, push_frame(level),
         NEW j \in 1 .. Len(levels) + 1, NEW n \in Nat, NEW rms
  PROVE  SteadyBefore(j, n, rms)' <=> SteadyBefore(j, n, rms)
<1>1. Len(levels) \in Nat /\ \A k \in 1 .. Len(levels) : levels'[k] = levels[k]
  BY LevelsGrow DEF FloorInv
<1>2. j > n => \A k \in j - n .. j - 1 : k \in 1 .. Len(levels)
  BY <1>1
<1> QED
  BY <1>1, <1>2 DEF SteadyBefore

(* Whatever the levels, the factors and what was heard before, a noise that *)
(* has lasted AdaptFrames frames no longer counts as speech.               *)
THEOREM NoiseBecomesQuiet == FloorSpec => []SteadyNoiseIsQuiet
<1>1. FloorInit => SteadyNoiseIsQuiet
  BY DEF FloorInit, SteadyNoiseIsQuiet
<1>2. ASSUME FloorInv, TrackerInv, SteadyNoiseIsQuiet, NEW level \in Levels, push_frame(level)
      PROVE  SteadyNoiseIsQuiet'
  <2>0. PICK l \in Nat : l = Len(levels)
    BY <1>2 DEF FloorInv
  <2>1. /\ l \in Nat /\ DOMAIN levels = 1 .. l /\ DOMAIN levels' = 1 .. l + 1
        /\ floor \in Nat /\ level \in Nat /\ AdaptFrames \in Nat /\ AdaptFrames \in 0 .. Frames
        /\ MinThreshold \in Nat /\ Margin \in Nat
    BY <1>2, <2>0, LevelsGrow, FramesType, FloorAssumption DEF FloorInv
  <2>2. /\ levels'[l + 1] = level /\ (frames'[l + 1] <=> level >= effective_threshold)
        /\ \A k \in 1 .. l : levels'[k] = levels[k] /\ (frames'[k] <=> frames[k])
    BY <1>2, <2>0, LevelsGrow
  <2>3. ASSUME NEW j \in 1 .. l + 1, NEW rms
        PROVE  SteadyBefore(j, AdaptFrames, rms)' <=> SteadyBefore(j, AdaptFrames, rms)
    BY <1>2, <2>0, <2>1, EarlierLevels
  <2>4. ASSUME SteadyBefore(l + 1, AdaptFrames, level) PROVE ~(level >= effective_threshold)
    <3>1. Settled(AdaptFrames, level)
      BY <1>2, <2>0, <2>1, <2>4 DEF FloorInv
    <3>2. level < Settling(level, 0)[AdaptFrames] + Margin
      BY SettlingAssumption
    <3>3. level < floor + Margin
      BY <2>1, <3>1, <3>2 DEF Settled
    <3> QED
      BY <2>1, <3>3, MaxOfTwo DEF effective_threshold
  <2>5. ASSUME NEW j \in 1 .. l + 1, SteadyBefore(j, AdaptFrames, levels[j])'
        PROVE  ~frames'[j]
    <3>1. SteadyBefore(j, AdaptFrames, levels'[j])
      BY <2>3, <2>5
    <3>2. CASE j = l + 1
      BY <2>2, <2>4, <3>1, <3>2
    <3>3. CASE j # l + 1
      <4>1. j \in 1 .. l
        BY <2>1, <3>3
      <4> QED
        BY <1>2, <2>1, <2>2, <3>1, <4>1 DEF SteadyNoiseIsQuiet
    <3> QED
      BY <3>2, <3>3
  <2> QED
    BY <2>1, <2>5 DEF SteadyNoiseIsQuiet
<1>3. ASSUME SteadyNoiseIsQuiet, UNCHANGED fvars PROVE SteadyNoiseIsQuiet'
  BY <1>3 DEF SteadyNoiseIsQuiet, SteadyBefore, fvars, tvars
<1>4. FloorInv /\ TrackerInv /\ SteadyNoiseIsQuiet /\ [FloorNext]_fvars => SteadyNoiseIsQuiet'
  BY <1>2, <1>3 DEF FloorNext
<1> QED
  BY <1>1, <1>4, FloorFollows, CountersKept, PTL DEF FloorSpec

(* Whatever was heard before, RecoverFrames frames of the room are enough   *)
(* for a voice that is louder than the room by the margin to be heard.     *)
THEOREM VoiceIsHeard == FloorSpec => []SpeakerIsHeard
<1> DEFINE Audible(room) == room + Margin + Remainder
<1>1. FloorInit => SpeakerIsHeard
  BY DEF FloorInit, SpeakerIsHeard
<1>2. ASSUME FloorInv, TrackerInv, SpeakerIsHeard, NEW level \in Levels, push_frame(level)
      PROVE  SpeakerIsHeard'
  <2>0. PICK l \in Nat : l = Len(levels)
    BY <1>2 DEF FloorInv
  <2>1. /\ l \in Nat /\ DOMAIN levels = 1 .. l /\ DOMAIN levels' = 1 .. l + 1
        /\ floor \in Nat /\ level \in Nat /\ RecoverFrames \in Nat /\ RecoverFrames \in 0 .. Frames
        /\ MinThreshold \in Nat /\ Margin \in Nat /\ Remainder \in Nat
    BY <1>2, <2>0, LevelsGrow, FramesType, FloorAssumption DEF FloorInv
  <2>2. /\ levels'[l + 1] = level /\ (frames'[l + 1] <=> level >= effective_threshold)
        /\ \A k \in 1 .. l : levels'[k] = levels[k] /\ (frames'[k] <=> frames[k])
    BY <1>2, <2>0, LevelsGrow
  <2>3. ASSUME NEW j \in 1 .. l + 1, NEW rms
        PROVE  SteadyBefore(j, RecoverFrames, rms)' <=> SteadyBefore(j, RecoverFrames, rms)
    BY <1>2, <2>0, <2>1, EarlierLevels
  <2>4. ASSUME NEW room \in Levels, SteadyBefore(l + 1, RecoverFrames, room),
               level >= Max({MinThreshold, Audible(room)})
        PROVE  level >= effective_threshold
    <3>1. Settled(RecoverFrames, room) /\ room \in Nat
      BY <1>2, <2>0, <2>1, <2>4, FloorAssumption DEF FloorInv
    <3>2. \A top \in Levels : Settling(room, top)[RecoverFrames] <= room + Remainder
      BY SettlingAssumption
    <3>3. floor <= room + Remainder
      BY <2>1, <3>1, <3>2 DEF Settled
    <3>4. Audible(room) \in Nat /\ floor + Margin \in Nat /\ floor + Margin <= Audible(room)
      BY <2>1, <3>1, <3>3
    <3> HIDE DEF Audible
    <3>5. level >= MinThreshold /\ level >= Audible(room)
      BY <2>1, <2>4, <3>4, MaxOfTwo
    <3>6. level >= floor + Margin
      BY <2>1, <3>4, <3>5
    <3> QED
      BY <2>1, <3>4, <3>5, <3>6, MaxOfTwo DEF effective_threshold
  <2> HIDE DEF Audible
  <2>5. ASSUME NEW j \in 1 .. l + 1, NEW room \in Levels, SteadyBefore(j, RecoverFrames, room)',
               levels'[j] >= Max({MinThreshold, Audible(room)})
        PROVE  frames'[j]
    <3>1. SteadyBefore(j, RecoverFrames, room)
      BY <2>3, <2>5
    <3>2. CASE j = l + 1
      BY <2>2, <2>4, <2>5, <3>1, <3>2
    <3>3. CASE j # l + 1
      <4>1. j \in 1 .. l
        BY <2>1, <3>3
      <4>2. levels[j] >= Max({MinThreshold, Audible(room)})
        BY <2>2, <2>5, <4>1
      <4> QED
        BY <1>2, <2>1, <2>2, <3>1, <4>1, <4>2 DEF SpeakerIsHeard, Audible
    <3> QED
      BY <3>2, <3>3
  <2> QED
    BY <2>1, <2>5 DEF SpeakerIsHeard, Audible
<1>3. ASSUME SpeakerIsHeard, UNCHANGED fvars PROVE SpeakerIsHeard'
  BY <1>3 DEF SpeakerIsHeard, SteadyBefore, fvars, tvars
<1>4. FloorInv /\ TrackerInv /\ SpeakerIsHeard /\ [FloorNext]_fvars => SpeakerIsHeard'
  BY <1>2, <1>3 DEF FloorNext
<1> QED
  BY <1>1, <1>4, FloorFollows, CountersKept, PTL DEF FloorSpec

=============================================================================
