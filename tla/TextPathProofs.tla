--------------------------- MODULE TextPathProofs ---------------------------
(***************************************************************************)
(* Theorems about TranscriptLog, for any number of lines, with failing     *)
(* writes and kills, and about TextPath, for every configuration,          *)
(* transcript and answer.                                                  *)
(***************************************************************************)
EXTENDS TextPath, FiniteSetTheorems, SequenceTheorems, TLAPS

-----------------------------------------------------------------------------
(* The log alone.                                                          *)

InputKinds  == {"input", "input ignored", "input skipped"}
OutputKinds == {"output", "output skipped", "output error"}

Entries == [kind : {"entry", "blank"}]
           \cup [kind : InputKinds \cup OutputKinds \cup {"blank", "new"}, text : Wording]
Writes  == [line : Nat, part : {"text", "newline"}]

LTypeOK == /\ lines \in Seq(Entries)
           /\ at \in {"idle", "open", "opened", "text"}
           /\ jobs \subseteq Writes
           /\ file \in Seq(Writes)
           /\ lost \subseteq Nat

(* A text under way is the last line's, and append waits for it. *)
PendingIsLast ==
    \A job \in jobs : job.part = "text" =>
        /\ job.line = Line /\ at = "text"
        /\ \A i \in Texts : file[i].line < Line

(* The file holds texts of lines whose writing has begun. *)
WrittenBefore ==
    \A i \in Texts : file[i].line <= Line /\ (at \in {"open", "opened"} => file[i].line < Line)

(* Every line's text is there, was lost, or is on its way. *)
Accounted ==
    \A n \in 1 .. Line :
        \/ Blank(n) \/ n \in lost
        \/ \E i \in Texts : file[i].line = n
        \/ n = Line /\ at \in {"open", "opened"}
        \/ n = Line /\ at = "text" /\ Text(n) \in jobs

LogInv == LTypeOK /\ PendingIsLast /\ WrittenBefore /\ Accounted /\ TextsInOrder

-----------------------------------------------------------------------------
LEMMA LogInitInv == LogInit => LogInv
BY DEF LogInit, LogInv, LTypeOK, PendingIsLast, WrittenBefore, Accounted, TextsInOrder,
       Texts, Line

(* Steps that leave the file and the writes alone. *)
LEMMA LogKeeps == ASSUME LogInv, NEW entry \in Entries, Log(entry) PROVE LogInv'
<1> USE DEF LogInv
<1>1. lines' \in Seq(Entries) /\ Line' = Line + 1 /\ Line \in Nat
  BY DEF Log, LTypeOK, Line
<1>2. \A n \in 1 .. Line : lines'[n] = lines[n]
  BY DEF Log, LTypeOK, Line
<1>3. Texts' = Texts /\ file' = file /\ jobs' = jobs
  BY DEF Log, Texts
<1>4. \A i \in Texts : file[i].line \in Nat
  <2>1. \A i \in DOMAIN file : file[i] \in Writes
    BY DEF LTypeOK
  <2> QED BY <2>1 DEF Texts, Writes
<1>5. \A job \in jobs : job.part # "text"
  BY DEF Log, PendingIsLast
<1>6. LTypeOK'
  BY <1>1 DEF Log, LTypeOK
<1>7. PendingIsLast' /\ WrittenBefore' /\ TextsInOrder'
  BY <1>1, <1>3, <1>4, <1>5 DEF Log, PendingIsLast, WrittenBefore, TextsInOrder
<1>8. Accounted'
  <2> SUFFICES ASSUME NEW n \in 1 .. Line + 1
               PROVE  \/ lines'[n].kind = "blank" \/ n \in lost'
                      \/ \E i \in Texts : file[i].line = n
                      \/ n = Line + 1 /\ at' = "open"
    BY <1>1, <1>3 DEF Accounted, Blank
  <2>1. at = "idle" /\ at' = "open" /\ lost' = lost
    BY DEF Log
  <2>2. CASE n \in 1 .. Line
    BY <2>1, <2>2, <1>2 DEF Accounted, Blank
  <2>3. CASE n = Line + 1
    BY <2>1, <2>3
  <2> QED BY <1>1, <2>2, <2>3
<1> QED BY <1>6, <1>7, <1>8

LEMMA StepsOfAppend ==
    ASSUME LogInv, Opened \/ OpenFails \/ WriteText \/ WriteNewline \/ TextFailed
                 \/ KilledMeanwhile
    PROVE  LogInv'
<1> USE DEF LogInv
<1>1. Line' = Line /\ Line \in Nat /\ Texts' = Texts /\ file' = file /\ lines' = lines
  BY DEF Opened, OpenFails, WriteText, AfterText, WriteNewline, TextFailed, KilledMeanwhile,
         Line, Texts, LTypeOK
<1>2. LTypeOK'
  <2>1. Text(Line) \in Writes /\ Newline(Line) \in Writes
    BY <1>1 DEF Writes, Text, Newline
  <2>2. jobs' \subseteq jobs \cup {Text(Line), Newline(Line)}
    BY DEF Opened, OpenFails, WriteText, WriteNewline, TextFailed, KilledMeanwhile
  <2>3. lost' \subseteq lost \cup {Line}
    BY DEF Opened, OpenFails, WriteText, WriteNewline, TextFailed, KilledMeanwhile
  <2>4. at' \in {"idle", "opened", "text"}
    BY DEF Opened, OpenFails, WriteText, AfterText, WriteNewline, TextFailed, KilledMeanwhile
  <2> QED BY <1>1, <2>1, <2>2, <2>3, <2>4 DEF LTypeOK
<1>3. PendingIsLast'
  <2>1. CASE WriteText
    BY <1>1, <2>1 DEF WriteText, AfterText, PendingIsLast, WrittenBefore, Text
  <2>2. CASE WriteNewline
    <3>1. \A job \in jobs' : job.part = "text" => job \in jobs
      BY <2>2 DEF WriteNewline, Newline
    <3>2. \A job \in jobs : job.part = "text" => job = Text(Line)
      BY DEF PendingIsLast, LTypeOK, Writes, Text
    <3> QED BY <2>2, <3>1, <3>2 DEF WriteNewline, TextIsThrough, PendingIsLast
  <2>3. CASE TextFailed
    <3>1. \A job \in jobs : job.part = "text" => job = Text(Line)
      BY DEF PendingIsLast, LTypeOK, Writes, Text
    <3> QED BY <2>3, <3>1 DEF TextFailed, TextIsThrough, PendingIsLast
  <2> QED
    BY <1>1, <2>1, <2>2, <2>3 DEF Opened, OpenFails, KilledMeanwhile, PendingIsLast
<1>4. WrittenBefore'
  BY <1>1 DEF Opened, OpenFails, WriteText, AfterText, WriteNewline, TextFailed,
              KilledMeanwhile, WrittenBefore
<1>5. Accounted'
  <2> SUFFICES ASSUME NEW n \in 1 .. Line,
                      ~Blank(n), n \notin lost', \A i \in Texts : file[i].line # n
               PROVE  \/ n = Line /\ at' \in {"open", "opened"}
                      \/ n = Line /\ at' = "text" /\ Text(n) \in jobs'
    BY <1>1 DEF Accounted, Blank
  <2>1. n \notin lost
    BY DEF Opened, OpenFails, WriteText, WriteNewline, TextFailed, KilledMeanwhile
  <2>2. n = Line /\ (at \in {"open", "opened"} \/ (at = "text" /\ Text(n) \in jobs))
    BY <2>1 DEF Accounted
  <2> QED
    BY <2>1, <2>2 DEF Opened, OpenFails, WriteText, AfterText, WriteNewline, TextFailed,
                      TextIsThrough, KilledMeanwhile
<1>6. TextsInOrder'
  BY <1>1 DEF TextsInOrder
<1> QED BY <1>2, <1>3, <1>4, <1>5, <1>6

(* A write that is carried out: a text is the last line's, and none of that *)
(* line or a later one is in the file.                                     *)
LEMMA CarriedKeeps == ASSUME LogInv, NEW job \in jobs, Carried(job) PROVE LogInv'
<1> USE DEF LogInv
<1>1. /\ lines' = lines /\ at' = at /\ Line' = Line /\ Line \in Nat
      /\ jobs' = jobs \ {job} /\ job \in Writes
  BY DEF Carried, Line, LTypeOK
<1>2. LTypeOK'
  <2>1. job.line \in Nat
    BY <1>1 DEF Writes
  <2>2. lost' \subseteq Nat
    BY <2>1 DEF Carried, LTypeOK
  <2>3. file' \in Seq(Writes)
    <3>1. file' = file \/ file' = Append(file, job)
      BY DEF Carried
    <3>2. file \in Seq(Writes)
      BY DEF LTypeOK
    <3> QED BY <1>1, <3>1, <3>2
  <2> QED BY <1>1, <2>2, <2>3 DEF LTypeOK
<1>3. CASE file' = file
  <2>1. Texts' = Texts
    BY <1>3 DEF Texts
  <2>2. PendingIsLast' /\ WrittenBefore' /\ TextsInOrder'
    BY <1>1, <1>3, <2>1 DEF PendingIsLast, WrittenBefore, TextsInOrder
  <2>3. job.part = "text" => job.line \in lost'
    BY <1>1, <1>3 DEF Carried, LTypeOK
  <2>4. lost \subseteq lost'
    BY DEF Carried
  <2>5. Accounted'
    <3> SUFFICES ASSUME NEW n \in 1 .. Line
                 PROVE  \/ Blank(n) \/ n \in lost'
                        \/ \E i \in Texts : file[i].line = n
                        \/ n = Line /\ at \in {"open", "opened"}
                        \/ n = Line /\ at = "text" /\ Text(n) \in jobs'
      BY <1>1, <1>3, <2>1 DEF Accounted, Blank
    <3>1. CASE job = Text(n)
      BY <3>1, <2>3 DEF Text
    <3>2. CASE job # Text(n)
      BY <3>2, <1>1, <2>4 DEF Accounted
    <3> QED BY <3>1, <3>2
  <2> QED BY <1>2, <2>2, <2>5
<1>4. CASE file' = Append(file, job) /\ lost' = lost
  <2>1. /\ DOMAIN file = 1 .. Len(file) /\ Len(file) \in Nat
        /\ DOMAIN file' = 1 .. Len(file) + 1
        /\ \A i \in DOMAIN file : file'[i] = file[i]
        /\ file'[Len(file) + 1] = job
        /\ \A i \in DOMAIN file : file[i] \in Writes
    BY <1>1, <1>4 DEF LTypeOK
  <2>2. Texts' = Texts \cup (IF job.part = "text" THEN {Len(file) + 1} ELSE {})
    BY <2>1 DEF Texts
  <2>3. Texts \subseteq DOMAIN file
    BY DEF Texts
  <2>4. job.part = "text" => job = Text(Line) /\ \A i \in Texts : file[i].line < Line
    BY <1>1 DEF PendingIsLast, Writes, Text
  <2>5. PendingIsLast'
    <3> SUFFICES ASSUME NEW other \in jobs', other.part = "text"
                 PROVE  /\ other.line = Line /\ at = "text"
                        /\ \A i \in Texts' : file'[i].line < Line
      BY <1>1 DEF PendingIsLast
    <3>1. other \in jobs /\ other # job
      BY <1>1
    <3>2. other = Text(Line)
      BY <3>1 DEF PendingIsLast, LTypeOK, Writes, Text
    <3>3. job.part # "text"
      BY <3>1, <3>2, <2>4
    <3> QED BY <3>1, <3>3, <2>1, <2>2, <2>3 DEF PendingIsLast
  <2>6. WrittenBefore'
    <3> SUFFICES ASSUME NEW i \in Texts'
                 PROVE  file'[i].line <= Line /\ (at \in {"open", "opened"} => file'[i].line < Line)
      BY <1>1 DEF WrittenBefore
    <3>1. CASE i \in Texts
      BY <3>1, <2>1, <2>3 DEF WrittenBefore
    <3>2. CASE i = Len(file) + 1 /\ job.part = "text"
      BY <3>2, <1>1, <2>1, <2>4 DEF PendingIsLast, Text
    <3> QED BY <2>2, <3>1, <3>2
  <2>7. TextsInOrder'
    <3> SUFFICES ASSUME NEW i \in Texts', NEW j \in Texts', i < j
                 PROVE  file'[i].line < file'[j].line
      BY DEF TextsInOrder
    <3>1. CASE j \in Texts
      <4>1. i \in Texts
        BY <3>1, <2>1, <2>2, <2>3
      <4> QED BY <3>1, <4>1, <2>1, <2>3 DEF TextsInOrder
    <3>2. CASE j = Len(file) + 1 /\ job.part = "text"
      <4>1. i \in Texts
        BY <3>2, <2>2
      <4> QED BY <3>2, <4>1, <2>1, <2>3, <2>4 DEF Text
    <3> QED BY <2>2, <3>1, <3>2
  <2>8. Accounted'
    <3> SUFFICES ASSUME NEW n \in 1 .. Line
                 PROVE  \/ Blank(n) \/ n \in lost
                        \/ \E i \in Texts' : file'[i].line = n
                        \/ n = Line /\ at \in {"open", "opened"}
                        \/ n = Line /\ at = "text" /\ Text(n) \in jobs'
      BY <1>1, <1>4 DEF Accounted, Blank
    <3>1. CASE job = Text(n)
      <4>1. Len(file) + 1 \in Texts' /\ file'[Len(file) + 1].line = n
        BY <3>1, <2>1, <2>2 DEF Text
      <4> QED BY <4>1
    <3>2. CASE \E i \in Texts : file[i].line = n
      BY <3>2, <2>1, <2>2, <2>3
    <3> QED BY <3>1, <3>2, <1>1 DEF Accounted
  <2> QED BY <1>2, <2>5, <2>6, <2>7, <2>8
<1> QED BY <1>3, <1>4 DEF Carried

LEMMA LogStepInv == LogInv /\ [LogNext]_logVars => LogInv'
<1> SUFFICES ASSUME LogInv, [LogNext]_logVars PROVE LogInv'
  OBVIOUS
<1>1. CASE \E kind \in {"entry", "blank"} : Log([kind |-> kind])
  BY <1>1, LogKeeps DEF Entries
<1>2. CASE Writing \/ KilledMeanwhile
  BY <1>2, StepsOfAppend, CarriedKeeps DEF Writing
<1>3. CASE UNCHANGED logVars
  BY <1>3 DEF logVars, LogInv, LTypeOK, PendingIsLast, WrittenBefore, Accounted, TextsInOrder,
              Texts, Line, Blank
<1> QED BY <1>1, <1>2, <1>3 DEF LogNext

THEOREM LogInvHolds == LogSpec => []LogInv
BY LogInitInv, LogStepInv, PTL DEF LogSpec

(* The texts stand in the log in the order they were logged, whatever       *)
(* fails and however often the process is killed: append's second write    *)
(* waits for the first (transcript_log.rs:74-83).                          *)
THEOREM LogIsInOrder == LogSpec => []TextsInOrder
<1>1. LogInv => TextsInOrder
  BY DEF LogInv
<1> QED BY <1>1, LogInvHolds, PTL

(* A line that has been logged is in the file, unless its writing failed. *)
THEOREM LogIsWritten == LogSpec => []TextIsThere
<1>1. LogInv => TextIsThere
  BY DEF LogInv, Accounted, TextIsThere
<1> QED BY <1>1, LogInvHolds, PTL

-----------------------------------------------------------------------------
(* Least and greatest numbers, and trimming.                               *)

(* Every set of numbers that is not empty has a least one. *)
LEMMA LeastNumber ==
    ASSUME NEW T \in SUBSET Nat, T # {}
    PROVE  \E m \in T : \A k \in T : m <= k
<1> DEFINE R == OpToRel(<, Nat)
<1>1. IsWellFoundedOn(R, Nat)
  BY NatLessThanWellFounded, Zenon
<1>2. \A x, y \in Nat : <<x, y>> \in R <=> x < y
  BY DEF OpToRel
<1> HIDE DEF R
<1>3. PICK m \in T : \A k \in T : ~ (<<k, m>> \in R)
  BY <1>1, WFMin
<1>4. ASSUME NEW k \in T PROVE m <= k
  <2>1. m \in Nat /\ k \in Nat
    OBVIOUS
  <2>2. ~ (k < m)
    BY <2>1, <1>2, <1>3
  <2> QED BY <2>1, <2>2
<1> QED BY <1>3, <1>4

(* Induction, stated of the set of the numbers for which something holds. *)
LEMMA ByInduction ==
    ASSUME NEW n \in Nat, NEW G, 0 \in G, \A k \in 0 .. n - 1 : k \in G => k + 1 \in G
    PROVE  \A k \in 0 .. n : k \in G
<1> DEFINE Bad == {k \in 0 .. n : k \notin G}
<1>1. SUFFICES ASSUME Bad # {} PROVE FALSE
  OBVIOUS
<1>2. Bad \in SUBSET Nat
  OBVIOUS
<1> HIDE DEF Bad
<1>3. PICK m \in Bad : \A k \in Bad : m <= k
  BY <1>1, <1>2, LeastNumber
<1>4. m \in 0 .. n /\ m \notin G
  BY DEF Bad
<1>5. m - 1 \in 0 .. n - 1 /\ m - 1 \notin Bad
  BY <1>3, <1>4
<1>6. m - 1 \in G
  BY <1>5 DEF Bad
<1> QED BY <1>4, <1>5, <1>6

LEMMA LeastOf ==
    ASSUME NEW T \in SUBSET Nat, T # {}
    PROVE  Min(T) \in T /\ \A k \in T : Min(T) <= k
BY LeastNumber DEF Min

LEMMA GreatestOf ==
    ASSUME NEW n \in Nat, NEW T \in SUBSET (1 .. n), T # {}
    PROVE  Max(T) \in T /\ \A k \in T : k <= Max(T)
<1> DEFINE Above == {n - k : k \in T}
<1>1. Above \in SUBSET Nat /\ Above # {}
  <2>1. \A k \in T : k \in 1 .. n
    OBVIOUS
  <2>2. \A k \in T : n - k \in Nat
    BY <2>1
  <2> QED BY <2>2
<1>2. PICK m \in Above : \A k \in Above : m <= k
  BY <1>1, LeastNumber
<1>3. PICK t \in T : m = n - t
  BY <1>2
<1>4. \A k \in T : n - k \in Above
  OBVIOUS
<1>5. \A k \in T : k <= t
  BY <1>2, <1>3, <1>4
<1> QED BY <1>5 DEF Max

(* What Trim does: it leaves a text without tokens other than spaces empty, *)
(* and cuts every other one to where it begins and ends with such a token. *)
LEMMA TrimIs ==
    ASSUME NEW text \in Wording
    PROVE  /\ Trim(text) \in Wording
           /\ IsBlank(text) <=> \A i \in DOMAIN text : text[i] = SPACE
           /\ ~IsBlank(text) => Len(Trim(text)) > 0 /\ Trim(text)[1] # SPACE
<1> DEFINE solid == {i \in DOMAIN text : text[i] # SPACE}
<1>1. CASE solid = {}
  BY <1>1 DEF Trim, IsBlank, Wording
<1>2. CASE solid # {}
  <2>1. Len(text) \in Nat /\ solid \in SUBSET (1 .. Len(text)) /\ solid \in SUBSET Nat
    BY DEF Wording
  <2>2. Min(solid) \in solid /\ \A k \in solid : Min(solid) <= k
    BY <1>2, <2>1, LeastOf
  <2>3. Max(solid) \in solid /\ \A k \in solid : k <= Max(solid)
    BY <1>2, <2>1, GreatestOf
  <2>4. Min(solid) \in 1 .. Len(text) /\ Max(solid) \in 1 .. Len(text) /\ Min(solid) <= Max(solid)
    BY <2>1, <2>2, <2>3
  <2>5. Trim(text) = SubSeq(text, Min(solid), Max(solid))
    BY <1>2 DEF Trim
  <2> DEFINE from == Min(solid)
             to == Max(solid)
  <2> HIDE DEF from, to
  <2>6. from \in 1 .. Len(text) /\ to \in 1 .. Len(text) /\ from <= to /\ Trim(text) = SubSeq(text, from, to)
        /\ from \in solid
    BY <2>2, <2>4, <2>5 DEF from, to
  <2>7. /\ Trim(text) \in Wording /\ Len(Trim(text)) = to - from + 1
        /\ Trim(text)[1] = text[from]
    BY <2>6 DEF Wording
  <2>8. Len(Trim(text)) > 0 /\ Trim(text) # <<>>
    BY <2>6, <2>7, <2>1 DEF Wording
  <2> QED BY <2>6, <2>7, <2>8 DEF IsBlank
<1> QED BY <1>1, <1>2

(* What is trimmed is blank only if it was. *)
LEMMA TrimKeeps ==
    ASSUME NEW text \in Wording
    PROVE  IsBlank(Trim(text)) <=> IsBlank(text)
<1>1. CASE IsBlank(text)
  BY <1>1, TrimIs DEF IsBlank, Wording
<1>2. CASE ~IsBlank(text)
  <2>1. Trim(text) \in Wording /\ Len(Trim(text)) > 0 /\ Trim(text)[1] # SPACE
    BY <1>2, TrimIs
  <2>2. 1 \in DOMAIN Trim(text)
    BY <2>1 DEF Wording
  <2> QED BY <1>2, <2>1, <2>2, TrimIs
<1> QED BY <1>1, <1>2

-----------------------------------------------------------------------------
(* One round and its log.                                                  *)

Steps == {"start", "refused", "transcribe", "filter", "send", "marker", "message",
          "answer", "speak", "closed", "answered", "failed"}
Early == {"start", "refused", "transcribe", "filter"}

PTypeOK == /\ cfg \in Configs
           /\ step \in Steps
           /\ heard \in Wording /\ transcript \in Wording
           /\ response \in Wording
           /\ stdout \in Outputs \cup {NoOutput}

(* Past the start the configuration was accepted. *)
AcceptedInv == step \notin {"start", "refused"} => validate(cfg, FALSE)

(* What is sent is not blank; only what was sent is answered. *)
SentInv ==
    /\ step \in Early => sent = <<>> /\ reset = <<>>
    /\ step \in {"send", "marker", "message"} => sent = <<>>
    /\ step \in {"marker", "message", "answer"} => ~IsBlank(transcript)
    /\ sent # <<>> => ~IsBlank(transcript)
    /\ step = "answer" => sent # <<>>
    /\ step = "speak" /\ sent = <<>> => response = Silence

(* The first line is the input's. *)
InputInv ==
    /\ step \in Early => lines = <<>>
    /\ step \notin Early =>
        /\ Line >= 1 /\ lines[1].kind \in InputKinds
        /\ lines[1].kind = "input" <=> ~IsBlank(transcript)
        /\ lines[1].kind = "input" => lines[1].text = Trim(transcript)

(* Between it and the output's there is nothing but the reset's marker. *)
OutputInv ==
    /\ \A n \in 2 .. Line : lines[n].kind \in {"blank", "new"} \/ (Over /\ n = Line)
    /\ Over => Line >= 2 /\ lines[Line].kind \in OutputKinds
    /\ Over => (lines[Line].kind = "output" <=> spoken # Silence)
    /\ spoken # Silence =>
        Over /\ sent # <<>> /\ lines[Line].text = Trim(spoken)

PathInv == PTypeOK /\ AcceptedInv /\ SentInv /\ InputInv /\ OutputInv

LEMMA PathInitInv == PathInit => PathInv
<1> SUFFICES ASSUME PathInit PROVE PathInv
  OBVIOUS
<1>1. <<>> \in Wording
  BY DEF Wording
<1> QED
  BY <1>1 DEF PathInit, LogInit, PathInv, PTypeOK, AcceptedInv, SentInv, InputInv, OutputInv,
              Steps, Early, Over, Line, Silence

(* What logging a line does to the lines. *)
LEMMA LogAppends ==
    ASSUME LTypeOK, NEW entry, Log(entry)
    PROVE  /\ Line \in Nat /\ Line' = Line + 1
           /\ \A n \in 1 .. Line : lines'[n] = lines[n]
           /\ lines'[Line + 1] = entry
BY DEF LTypeOK, Log, Line

LEMMA LinesKept ==
    ASSUME LTypeOK, lines' = lines
    PROVE  Line' = Line /\ Line \in Nat
BY DEF LTypeOK, Line

(* What is delivered to the backend is never nothing. *)
LEMMA SomethingDelivered ==
    ASSUME TextAssumption, cfg \in Configs, validate(cfg, FALSE), NEW message
    PROVE  Delivered(message) # <<>>
<1>1. CASE cfg.transport = "cli"
  <2>1. cfg.args \in Seq(Wording)
    BY DEF TextAssumption
  <2>2. DOMAIN cfg.args # {}
    BY DEF validate, ChannelReachesAgent, AnyHas
  <2>3. Delivered(message) = Arguments(cfg, message)
    BY <1>1 DEF Delivered
  <2>4. DOMAIN Arguments(cfg, message) = DOMAIN cfg.args
    BY DEF Arguments
  <2>5. DOMAIN <<>> = {}
    OBVIOUS
  <2> QED BY <2>2, <2>3, <2>4, <2>5
<1>2. CASE cfg.transport # "cli"
  BY <1>2 DEF Delivered
<1> QED BY <1>1, <1>2

(* The types: texts that are trimmed stay texts. *)
LEMMA PathTypes ==
    ASSUME PTypeOK, PathNext
    PROVE  PTypeOK'
<1> USE DEF PTypeOK, Steps
<1>1. <<>> \in Wording
  BY DEF Wording
<1>2. \A text \in Wording : Trim(text) \in Wording
  BY TrimIs
<1>3. CASE Start
  BY <1>3 DEF Start
<1>4. CASE Transcribe
  BY <1>4, <1>2, TextAssumption DEF Transcribe
<1>5. CASE Filter
  BY <1>5, <1>1 DEF Filter
<1>6. CASE SkipSending
  BY <1>6, <1>1 DEF SkipSending, Silence
<1>7. CASE ResetMarker \/ Reset \/ LateReset \/ Send \/ NotSent
  BY <1>7 DEF ResetMarker, Reset, LateReset, Send, NotSent
<1>8. CASE Answer
  <2>1. stdout' \in Outputs
    BY <1>8 DEF Answer
  <2>2. extract_response(stdout') \in Wording
    <3>1. CASE ~stdout'.object
      BY <3>1, <2>1, <1>2, TextAssumption DEF extract_response
    <3>2. CASE stdout'.object /\ TextFields(stdout') = {}
      BY <3>2, <2>1, <1>2, TextAssumption DEF extract_response, UnknownForm
    <3>3. CASE stdout'.object /\ TextFields(stdout') # {}
      <4>1. TextFields(stdout') \in SUBSET Nat
        BY DEF TextFields, Fields
      <4>2. BestKnown(TextFields(stdout')) \in TextFields(stdout')
        BY <3>3, <4>1, LeastOf DEF BestKnown
      <4>3. Fields[BestKnown(TextFields(stdout'))] \in DOMAIN stdout'.fields
        BY <4>2 DEF TextFields
      <4> QED BY <3>3, <4>3, <2>1, <1>2, TextAssumption DEF extract_response
    <3> QED BY <3>1, <3>2, <3>3
  <2>3. response' \in Wording
    BY <1>8, <2>1, <2>2, <1>2, TextAssumption DEF Answer
  <2> QED BY <1>8, <2>1, <2>3 DEF Answer
<1>9. CASE SendingFails \/ NoReply \/ Speak
  BY <1>9 DEF SendingFails, NoReply, Speak
<1>10. CASE Write
  BY <1>10 DEF Write, roundVars
<1> QED
  BY <1>3, <1>4, <1>5, <1>6, <1>7, <1>8, <1>9, <1>10 DEF PathNext

LEMMA PathAccepted ==
    ASSUME PTypeOK, AcceptedInv, PathNext
    PROVE  AcceptedInv'
<1> USE DEF AcceptedInv
<1>1. CASE Start
  BY <1>1 DEF Start
<1>2. CASE \/ Transcribe \/ Filter \/ SkipSending \/ ResetMarker \/ Reset \/ LateReset
  BY <1>2 DEF Transcribe, Filter, SkipSending, ResetMarker, Reset, LateReset
<1>3. CASE Send \/ NotSent
  BY <1>3 DEF Send, NotSent, AtSending
<1>4. CASE Answer \/ SendingFails \/ NoReply \/ Speak \/ Write
  BY <1>4 DEF Answer, SendingFails, NoReply, Speak, Write, roundVars
<1> QED BY <1>1, <1>2, <1>3, <1>4 DEF PathNext

LEMMA PathSent ==
    ASSUME PTypeOK, AcceptedInv, SentInv, PathNext
    PROVE  SentInv'
<1> USE DEF SentInv, Early, Over
<1>1. CASE Start \/ Transcribe \/ Filter
  BY <1>1 DEF Start, Transcribe, Filter
<1>2. CASE SkipSending \/ ResetMarker
  BY <1>2 DEF SkipSending, ResetMarker
<1>3. CASE Reset \/ LateReset \/ NotSent
  BY <1>3 DEF Reset, LateReset, NotSent
<1>4. CASE Send
  <2>1. sent' # <<>>
    BY <1>4, SomethingDelivered, TextAssumption DEF Send, PTypeOK, AcceptedInv, AtSending
  <2> QED BY <1>4, <2>1 DEF Send, AtSending
<1>5. CASE Answer \/ SendingFails \/ NoReply \/ Speak
  BY <1>5 DEF Answer, SendingFails, NoReply, Speak
<1>6. CASE Write
  BY <1>6 DEF Write, roundVars
<1> QED
  BY <1>1, <1>2, <1>3, <1>4, <1>5, <1>6 DEF PathNext

LEMMA EntryIs ==
    ASSUME NEW line, NEW kind, NEW text, line = Entry(kind, text)
    PROVE  line.kind = kind /\ line.text = text
BY DEF Entry

LEMMA PathInput ==
    ASSUME PTypeOK, SentInv, InputInv, LTypeOK, PathNext
    PROVE  InputInv'
<1> USE DEF InputInv, Early
<1>1. CASE Start \/ Transcribe
  BY <1>1 DEF Start, Transcribe, logVars
<1>2. CASE Filter
  <2>1. Log(InputLine) /\ step' = "send" /\ transcript' = IF Ignored THEN <<>> ELSE heard
    BY <1>2 DEF Filter
  <2>2. lines = <<>> /\ Line = 0
    BY <1>2 DEF Filter, Line
  <2>3. Line' = 1 /\ lines'[1] = InputLine
    BY <2>1, <2>2, LogAppends
  <2>4. IsBlank(<<>>)
    BY DEF IsBlank, Trim
  <2>5. CASE Ignored
    <3>1. lines'[1] = Entry("input ignored", Trim(heard))
      BY <2>3, <2>5 DEF InputLine
    <3>2. lines'[1].kind = "input ignored"
      BY <3>1, EntryIs
    <3>3. lines'[1].kind \in InputKinds /\ lines'[1].kind # "input"
      BY <3>2 DEF InputKinds
    <3>4. transcript' = <<>>
      BY <2>1, <2>5
    <3> QED BY <3>3, <3>4, <2>1, <2>3, <2>4
  <2>6. CASE ~Ignored /\ IsBlank(heard)
    <3>1. lines'[1] = Entry("input skipped", <<>>)
      BY <2>3, <2>6 DEF InputLine
    <3>2. lines'[1].kind = "input skipped"
      BY <3>1, EntryIs
    <3>3. lines'[1].kind \in InputKinds /\ lines'[1].kind # "input"
      BY <3>2 DEF InputKinds
    <3>4. transcript' = heard
      BY <2>1, <2>6
    <3> QED BY <3>3, <3>4, <2>1, <2>3, <2>6
  <2>7. CASE ~Ignored /\ ~IsBlank(heard)
    <3>1. lines'[1] = Entry("input", Trim(heard))
      BY <2>3, <2>7 DEF InputLine
    <3>2. lines'[1].kind = "input" /\ lines'[1].text = Trim(heard)
      BY <3>1, EntryIs
    <3>3. lines'[1].kind \in InputKinds
      BY <3>2 DEF InputKinds
    <3>4. transcript' = heard
      BY <2>1, <2>7
    <3> QED BY <3>2, <3>3, <3>4, <2>1, <2>3, <2>7
  <2> QED BY <2>5, <2>6, <2>7
<1>3. CASE SkipSending \/ LateReset \/ Send \/ Answer \/ Write
  <2>1. lines' = lines /\ transcript' = transcript /\ (step' \in Early <=> step \in Early)
        /\ (step \in Early => step' = step)
    BY <1>3 DEF SkipSending, LateReset, Send, AtSending, Answer, Write, roundVars, logVars, Writing,
                Opened, OpenFails, WriteText, WriteNewline, TextFailed, Carried
  <2> QED BY <2>1, LinesKept
<1>4. ASSUME NEW entry, Log(entry), transcript' = transcript,
             step \notin {"start", "refused", "transcribe", "filter"},
             step' \notin {"start", "refused", "transcribe", "filter"}
      PROVE  InputInv'
  BY <1>4, LogAppends
<1>5. CASE ResetMarker \/ Reset \/ NotSent \/ SendingFails
  BY <1>5, <1>4 DEF ResetMarker, Reset, NotSent, AtSending, SendingFails
<1>6. CASE NoReply \/ Speak
  BY <1>6, <1>4 DEF NoReply, Speak
<1> QED
  BY <1>1, <1>2, <1>3, <1>5, <1>6 DEF PathNext

LEMMA PathOutput ==
    ASSUME PTypeOK, SentInv, InputInv, OutputInv, LTypeOK, PathNext
    PROVE  OutputInv'
<1> USE DEF OutputInv, Over
<1>1. CASE Start \/ Transcribe
  BY <1>1 DEF Start, Transcribe, logVars, Line
<1>2. CASE Filter
  <2>1. lines = <<>> /\ Line = 0
    BY <1>2 DEF Filter, Line, InputInv, Early
  <2> QED BY <1>2, <2>1, LogAppends DEF Filter
<1>3. CASE SkipSending \/ LateReset \/ Send \/ Answer \/ Write
  <2>1. lines' = lines /\ spoken' = spoken /\ (Over' <=> Over) /\ (Over => sent' = sent)
    BY <1>3 DEF SkipSending, LateReset, Send, AtSending, Answer, Write, roundVars, logVars, Writing,
                Opened, OpenFails, WriteText, WriteNewline, TextFailed, Carried
  <2> QED BY <2>1, LinesKept
<1>4. CASE ResetMarker \/ Reset
  <2>1. PICK kind \in {"blank", "new"} : Log(Entry(kind, <<>>))
    BY <1>4 DEF ResetMarker, Reset
  <2>2. ~Over /\ ~Over' /\ spoken' = spoken
    BY <1>4 DEF ResetMarker, Reset
  <2> QED BY <2>1, <2>2, LogAppends DEF Entry
<1>5. ASSUME NEW kind \in OutputKinds, NEW text, Log(Entry(kind, text)),
             step \in {"send", "message", "answer", "speak"}, Over',
             spoken' # Silence <=> kind = "output",
             spoken' # Silence => sent' # <<>> /\ text = Trim(spoken')
      PROVE  OutputInv'
  <2>1. /\ Line \in Nat /\ Line >= 1 /\ Line' = Line + 1
        /\ \A n \in 1 .. Line : lines'[n] = lines[n]
        /\ lines'[Line + 1].kind = kind /\ lines'[Line + 1].text = text
    BY <1>5, LogAppends DEF InputInv, Early, Entry
  <2>2. \A n \in 2 .. Line : lines[n].kind \in {"blank", "new"}
    BY <1>5
  <2> QED BY <1>5, <2>1, <2>2
<1>6. CASE NotSent \/ SendingFails
  BY <1>6, <1>5 DEF NotSent, AtSending, SendingFails, OutputKinds
<1>7. CASE NoReply
  BY <1>7, <1>5 DEF NoReply, OutputKinds
<1>8. CASE Speak
  <2>1. IsBlank(<<>>)
    BY DEF IsBlank, Trim
  <2>2. response # Silence /\ spoken = Silence
    BY <1>8, <2>1 DEF Speak, Silence
  <2>3. sent # <<>>
    BY <1>8, <2>2 DEF Speak, SentInv
  <2>4. CASE step' = "answered"
    <3>1. /\ Log(Entry("output", Trim(response))) /\ spoken' = response /\ sent' = sent
          /\ step = "speak"
      BY <1>8, <2>4 DEF Speak
    <3> QED BY <3>1, <2>2, <2>3, <2>4, <1>5 DEF OutputKinds
  <2>5. CASE step' = "failed"
    BY <1>8, <1>5, <2>2, <2>5 DEF Speak, OutputKinds
  <2> QED BY <1>8, <2>4, <2>5 DEF Speak
<1> QED
  BY <1>1, <1>2, <1>3, <1>4, <1>6, <1>7, <1>8 DEF PathNext

(* The round's steps are steps of the log, or leave it alone. *)
LEMMA PathLogs ==
    ASSUME LogInv, PTypeOK, [PathNext]_pathVars
    PROVE  LogInv'
<1> DEFINE Kinds == InputKinds \cup OutputKinds \cup {"blank", "new"}
<1>1. ASSUME NEW kind \in Kinds, NEW text \in Wording, Log(Entry(kind, text)) PROVE LogInv'
  <2>1. Entry(kind, text) \in Entries
    BY DEF Entry, Entries
  <2> QED BY <2>1, <1>1, LogKeeps
<1>2. <<>> \in Wording /\ \A text \in Wording : Trim(text) \in Wording
  BY TrimIs DEF Wording
<1>3. CASE Writing
  BY <1>3, StepsOfAppend, CarriedKeeps DEF Writing
<1>4. CASE UNCHANGED logVars
  BY <1>4 DEF logVars, LogInv, LTypeOK, PendingIsLast, WrittenBefore, Accounted, TextsInOrder,
              Texts, Line, Blank
<1>5. CASE Start \/ Transcribe \/ SkipSending \/ LateReset \/ Send \/ Answer
  BY <1>5, <1>4 DEF Start, Transcribe, SkipSending, LateReset, Send, Answer
<1>6. CASE Filter
  <2>1. Log(InputLine)
    BY <1>6 DEF Filter
  <2>2. CASE Ignored
    <3>1. InputLine = Entry("input ignored", Trim(heard))
      BY <2>2 DEF InputLine
    <3>2. "input ignored" \in Kinds
      BY DEF InputKinds
    <3> HIDE DEF Kinds
    <3> QED BY <2>1, <3>1, <3>2, <1>1, <1>2 DEF PTypeOK
  <2>3. CASE ~Ignored /\ IsBlank(heard)
    <3>1. InputLine = Entry("input skipped", <<>>)
      BY <2>3 DEF InputLine
    <3>2. "input skipped" \in Kinds
      BY DEF InputKinds
    <3> HIDE DEF Kinds
    <3> QED BY <2>1, <3>1, <3>2, <1>1, <1>2
  <2>4. CASE ~Ignored /\ ~IsBlank(heard)
    <3>1. InputLine = Entry("input", Trim(heard))
      BY <2>4 DEF InputLine
    <3>2. "input" \in Kinds
      BY DEF InputKinds
    <3> HIDE DEF Kinds
    <3> QED BY <2>1, <3>1, <3>2, <1>1, <1>2 DEF PTypeOK
  <2> QED BY <2>2, <2>3, <2>4
<1>7. CASE ResetMarker \/ Reset \/ NotSent \/ SendingFails \/ NoReply \/ Speak
  <2>1. PICK kind \in OutputKinds \cup {"blank", "new"} :
           Log(Entry(kind, <<>>)) \/ Log(Entry(kind, Trim(response)))
    <3>1. CASE ResetMarker \/ Reset
      BY <3>1 DEF ResetMarker, Reset
    <3>2. CASE NotSent \/ SendingFails
      BY <3>2 DEF NotSent, SendingFails, OutputKinds
    <3>3. CASE NoReply
      BY <3>3 DEF NoReply, OutputKinds
    <3>4. CASE Speak
      BY <3>4 DEF Speak, OutputKinds
    <3> QED BY <1>7, <3>1, <3>2, <3>3, <3>4
  <2> QED BY <2>1, <1>1, <1>2 DEF PTypeOK
<1>8. CASE Write
  BY <1>8, <1>3 DEF Write
<1>9. CASE UNCHANGED pathVars
  BY <1>9, <1>4 DEF pathVars
<1> QED
  BY <1>5, <1>6, <1>7, <1>8, <1>9 DEF PathNext

(* Every step of the round keeps its invariant. *)
LEMMA PathStepInv == LogInv /\ PathInv /\ [PathNext]_pathVars => LogInv' /\ PathInv'
<1> SUFFICES ASSUME LogInv, PathInv, [PathNext]_pathVars PROVE LogInv' /\ PathInv'
  OBVIOUS
<1> USE DEF PathInv
<1>1. LogInv'
  BY PathLogs
<1>2. CASE PathNext
  <2>1. LTypeOK
    BY DEF LogInv
  <2> QED BY <1>1, <1>2, <2>1, PathTypes, PathAccepted, PathSent, PathInput, PathOutput
<1>3. CASE UNCHANGED pathVars
  BY <1>1, <1>3 DEF pathVars, roundVars, logVars, PTypeOK, AcceptedInv, SentInv, InputInv,
                    OutputInv, Line, Early, Over
<1> QED BY <1>2, <1>3

LEMMA PathInductive == PathSpec => [](LogInv /\ PathInv)
<1>1. PathInit => LogInv /\ PathInv
  BY PathInitInv, LogInitInv DEF PathInit
<1> QED BY <1>1, PathStepInv, PTL DEF PathSpec

(* Also where the lines are a round's, interleaved with its other steps,    *)
(* the log tells them in their order.                                      *)
THEOREM RoundIsInOrder == PathSpec => []TextsInOrder
<1>1. LogInv => TextsInOrder
  BY DEF LogInv
<1> QED BY <1>1, PathInductive, PTL

(* The log of a round that is over has one input line, in quotes exactly    *)
(* when its text was to be sent, and one output line, in quotes exactly    *)
(* when its text was spoken; what was sent stands in quotes.               *)
THEOREM LogIsTruthful == PathSpec => []LogTellsTheRound
<1>1. LogInv /\ PathInv => LogTellsTheRound
  <2> SUFFICES ASSUME LogInv, PathInv, Over PROVE LogTellsTheRound
    BY DEF LogTellsTheRound
  <2>1. /\ Line \in Nat /\ Line >= 2
        /\ lines[1].kind \in InputKinds /\ lines[Line].kind \in OutputKinds
        /\ lines[1].kind = "input" <=> ~IsBlank(transcript)
        /\ lines[1].kind = "input" => lines[1].text = Trim(transcript)
        /\ \A n \in 2 .. Line : lines[n].kind \in {"blank", "new"} \/ n = Line
        /\ lines[Line].kind = "output" <=> spoken # Silence
        /\ spoken # Silence => sent # <<>> /\ lines[Line].text = Trim(spoken)
        /\ sent # <<>> => ~IsBlank(transcript)
    BY DEF LogInv, LTypeOK, Line, PathInv, InputInv, OutputInv, SentInv, Over, Early
  <2>2. InputKinds \cap (OutputKinds \cup {"blank", "new"}) = {}
    BY DEF InputKinds, OutputKinds
  <2>3. OutputKinds \cap {"blank", "new"} = {} /\ "input" \in InputKinds /\ "output" \in OutputKinds
    BY DEF InputKinds, OutputKinds
  <2>4. Logged(InputKinds) = {1} /\ Logged(OutputKinds) = {Line}
    BY <2>1, <2>2, <2>3 DEF Logged
  <2>5. Logged({"input"}) \subseteq {1} /\ (1 \in Logged({"input"}) <=> lines[1].kind = "input")
    BY <2>1, <2>2, <2>3 DEF Logged
  <2>6. /\ Logged({"output"}) \subseteq {Line}
        /\ Line \in Logged({"output"}) <=> lines[Line].kind = "output"
    BY <2>1, <2>2, <2>3 DEF Logged
  <2>7. Cardinality(Logged(InputKinds)) = 1 /\ Cardinality(Logged(OutputKinds)) = 1
    BY <2>4, FS_Singleton
  <2>8. /\ Logged({"input"}) # {} <=> ~IsBlank(transcript)
        /\ sent # <<>> => Logged({"input"}) # {}
    BY <2>1, <2>5
  <2>9. /\ Logged({"output"}) # {} <=> spoken # Silence
        /\ \A n \in Logged({"output"}) : lines[n].text = Trim(spoken) /\ sent # <<>>
    BY <2>1, <2>6
  <2>10. \A n \in Logged({"input"}) : lines[n].text = Trim(transcript)
    BY <2>1, <2>5
  <2> QED
    BY <2>7, <2>8, <2>9, <2>10, Zenon DEF LogTellsTheRound, InputKinds, OutputKinds
<1> QED BY <1>1, PathInductive, PTL

-----------------------------------------------------------------------------
(* What is taken for the answer.                                           *)

BestIsBlank(out) ==
    /\ out.object
    /\ \E i \in TextFields(out) : /\ IsBlank(out.fields[Fields[i]])
                                  /\ \A j \in TextFields(out) : i <= j

(* The text found in an output is blank only if the output says so. *)
LEMMA NothingIsLost ==
    ASSUME NEW out \in Outputs, IsBlank(extract_response(out))
    PROVE  IsBlank(out.raw) \/ BestIsBlank(out)
<1>1. out.raw \in Wording /\ \A f \in DOMAIN out.fields : out.fields[f] \in Wording
  BY TextAssumption
<1>2. CASE ~out.object \/ TextFields(out) = {}
  BY <1>1, <1>2, TrimKeeps DEF extract_response, UnknownForm
<1>3. CASE out.object /\ TextFields(out) # {}
  <2>1. TextFields(out) \in SUBSET Nat
    BY DEF TextFields, Fields
  <2>2. PICK i \in TextFields(out) : /\ i = BestKnown(TextFields(out))
                                    /\ \A j \in TextFields(out) : i <= j
    BY <1>3, <2>1, LeastOf DEF BestKnown
  <2>3. Fields[i] \in DOMAIN out.fields
    BY DEF TextFields
  <2>4. extract_response(out) = Trim(out.fields[Fields[i]])
    BY <1>3, <2>2 DEF extract_response
  <2>5. IsBlank(out.fields[Fields[i]])
    BY <1>1, <2>3, <2>4, TrimKeeps
  <2> QED BY <1>3, <2>2, <2>5 DEF BestIsBlank
<1> QED BY <1>2, <1>3

AnswerInv ==
    /\ step \in {"speak", "closed"} /\ sent # <<>> /\ IsBlank(response) =>
        IsBlank(stdout.raw) \/ (cfg.transport = "cli" /\ BestIsBlank(stdout))
    /\ step = "closed" => IsBlank(response)

LEMMA AnswerKept ==
    ASSUME PTypeOK, SentInv, AnswerInv, [PathNext]_pathVars
    PROVE  AnswerInv'
<1> USE DEF AnswerInv
<1>1. CASE Answer
  <2>1. stdout' \in Outputs /\ step' = "speak"
    BY <1>1 DEF Answer
  <2>2. stdout'.raw \in Wording
    BY <2>1, TextAssumption
  <2>3. CASE cfg.transport = "cli"
    <3>1. response' = extract_response(stdout')
      BY <1>1, <2>3 DEF Answer
    <3>2. cfg' = cfg
      BY <1>1 DEF Answer
    <3> QED BY <2>1, <2>3, <3>1, <3>2, NothingIsLost
  <2>4. CASE cfg.transport # "cli"
    <3>1. response' = Trim(stdout'.raw)
      BY <1>1, <2>4 DEF Answer
    <3>2. IsBlank(response') => IsBlank(stdout'.raw)
      BY <2>2, <3>1, TrimKeeps
    <3> QED BY <2>1, <3>2
  <2> QED BY <2>3, <2>4
<1>2. CASE SkipSending
  BY <1>2 DEF SkipSending, SentInv
<1>3. CASE NoReply
  BY <1>3 DEF NoReply
<1>4. CASE \/ Start \/ Transcribe \/ Filter \/ ResetMarker \/ Reset \/ LateReset \/ Send
           \/ NotSent \/ SendingFails \/ Speak
  BY <1>4 DEF Start, Transcribe, Filter, ResetMarker, Reset, LateReset, Send, NotSent,
              SendingFails, Speak
<1>5. CASE Write \/ UNCHANGED pathVars
  BY <1>5 DEF Write, roundVars, pathVars
<1> QED BY <1>1, <1>2, <1>3, <1>4, <1>5 DEF PathNext

(* A question that was sent is answered with silence only if the backend    *)
(* said nothing or the best known text field of the CLI's output is blank. *)
THEOREM SilenceHasReason == PathSpec => []SilenceIsJustified
<1>1. PathInit => AnswerInv
  BY DEF PathInit, AnswerInv
<1>2. LogInv /\ PathInv /\ AnswerInv /\ [PathNext]_pathVars => AnswerInv'
  BY AnswerKept DEF PathInv
<1>3. AnswerInv => SilenceIsJustified
  BY DEF AnswerInv, BestIsBlank, SilenceIsJustified
<1> QED BY <1>1, <1>2, <1>3, PathInductive, PTL DEF PathSpec

-----------------------------------------------------------------------------
(* Texts within texts.                                                     *)

LEMMA WithinItself == ASSUME NEW S, NEW a \in Seq(S) PROVE Within(a, a)
<1>1. 0 \in 0 .. Len(a) - Len(a) /\ SubSeq(a, 0 + 1, 0 + Len(a)) = a
  OBVIOUS
<1> QED BY <1>1 DEF Within

LEMMA WithinAt ==
    ASSUME NEW S, NEW a \in Seq(S), NEW b \in Seq(S)
    PROVE  Within(a, b) <=> \E i \in Nat : /\ i + Len(a) <= Len(b)
                                          /\ \A k \in 1 .. Len(a) : b[i + k] = a[k]
<1>1. Len(a) \in Nat /\ Len(b) \in Nat
  OBVIOUS
<1>2. ASSUME NEW i \in Nat, i + Len(a) <= Len(b)
      PROVE  SubSeq(b, i + 1, i + Len(a)) = a <=> \A k \in 1 .. Len(a) : b[i + k] = a[k]
  <2> DEFINE c == SubSeq(b, i + 1, i + Len(a))
  <2>1. c \in Seq(S) /\ Len(c) = Len(a)
    BY <1>1, <1>2
  <2>2. \A k \in 1 .. Len(a) : c[k] = b[i + k]
    BY <1>1, <1>2
  <2> HIDE DEF c
  <2>3. c = a <=> \A k \in 1 .. Len(a) : c[k] = a[k]
    BY <2>1, SeqEqual
  <2>4. c = a <=> \A k \in 1 .. Len(a) : b[i + k] = a[k]
    BY <2>2, <2>3
  <2> QED BY <2>4 DEF c
<1>3. \A i \in Int : i \in 0 .. Len(b) - Len(a) <=> i \in Nat /\ i + Len(a) <= Len(b)
  BY <1>1
<1>4. Within(a, b) <=> \E i \in Nat : i + Len(a) <= Len(b) /\ SubSeq(b, i + 1, i + Len(a)) = a
  BY <1>3, <1>1 DEF Within
<1> QED BY <1>2, <1>4

LEMMA WithinTransitive ==
    ASSUME NEW S, NEW a \in Seq(S), NEW b \in Seq(S), NEW c \in Seq(S),
           Within(a, b), Within(b, c)
    PROVE  Within(a, c)
<1>1. PICK i \in Nat : i + Len(a) <= Len(b) /\ \A k \in 1 .. Len(a) : b[i + k] = a[k]
  BY WithinAt
<1>2. PICK j \in Nat : j + Len(b) <= Len(c) /\ \A k \in 1 .. Len(b) : c[j + k] = b[k]
  BY WithinAt
<1>3. Len(a) \in Nat /\ Len(b) \in Nat /\ Len(c) \in Nat
  OBVIOUS
<1>4. j + i \in Nat /\ (j + i) + Len(a) <= Len(c)
  BY <1>1, <1>2, <1>3
<1>5. ASSUME NEW k \in 1 .. Len(a) PROVE c[(j + i) + k] = a[k]
  <2>1. i + k \in 1 .. Len(b) /\ j + (i + k) = (j + i) + k
    BY <1>1, <1>3
  <2>2. c[j + (i + k)] = b[i + k]
    BY <1>2, <2>1
  <2> QED BY <2>1, <2>2, <1>1
<1> QED BY <1>4, <1>5, WithinAt

LEMMA WithinJoined ==
    ASSUME NEW S, NEW a \in Seq(S), NEW b \in Seq(S)
    PROVE  a \o b \in Seq(S) /\ Within(a, a \o b) /\ Within(b, a \o b)
<1> DEFINE c == a \o b
<1>1. /\ Len(a) \in Nat /\ Len(b) \in Nat /\ c \in Seq(S) /\ Len(c) = Len(a) + Len(b)
      /\ \A k \in 1 .. Len(a) : c[k] = a[k]
      /\ \A k \in 1 .. Len(b) : c[Len(a) + k] = b[k]
  BY ConcatProperties
<1> HIDE DEF c
<1>2. Within(a, c)
  <2>1. 0 + Len(a) <= Len(c) /\ \A k \in 1 .. Len(a) : c[0 + k] = a[k]
    BY <1>1
  <2> QED BY <2>1, <1>1, WithinAt
<1>3. Within(b, c)
  BY <1>1, WithinAt
<1> QED BY <1>1, <1>2, <1>3 DEF c

(* FlattenSeq joins the texts of a list, so each of them is part of it. *)
LEMMA WithinFlattened ==
    ASSUME NEW S, NEW list \in Seq(Seq(S)), NEW k \in DOMAIN list
    PROVE  FlattenSeq(list) \in Seq(S) /\ Within(list[k], FlattenSeq(list))
<1> DEFINE Flat(g, m) == g = [i \in 1 .. m |-> IF i = 1 THEN list[i] ELSE g[i - 1] \o list[i]]
           n == Len(list)
           Built == {m \in Nat : \E g : Flat(g, m)}
<1>1. n \in Nat /\ n # 0 /\ k \in 1 .. n /\ DOMAIN list = 1 .. n
      /\ \A i \in 1 .. n : list[i] \in Seq(S)
  OBVIOUS
<1> HIDE DEF n
<1>2. 0 \in Built
  <2> DEFINE none == [i \in 1 .. 0 |-> list[i]]
  <2>1. \A i \in 1 .. 0 : FALSE
    OBVIOUS
  <2>2. Flat(none, 0)
    BY <2>1
  <2> QED BY <2>2
<1>3. ASSUME NEW p \in 0 .. n - 1, p \in Built PROVE p + 1 \in Built
  <2>1. PICK h : Flat(h, p)
    BY <1>3
  <2> DEFINE m == p + 1
             g == [i \in 1 .. m |-> IF i = m THEN IF i = 1 THEN list[i] ELSE h[i - 1] \o list[i]
                                   ELSE h[i]]
  <2>2. p \in Nat /\ m \in Nat
    BY <1>1
  <2>3. \A i \in 1 .. m : g[i] = IF i = 1 THEN list[i] ELSE g[i - 1] \o list[i]
    <3> SUFFICES ASSUME NEW i \in 1 .. m
                 PROVE  g[i] = IF i = 1 THEN list[i] ELSE g[i - 1] \o list[i]
      OBVIOUS
    <3>1. i # 1 => i - 1 \in 1 .. m /\ i - 1 # m
      BY <2>2
    <3>2. CASE i = m
      BY <3>1, <3>2
    <3>3. CASE i # m
      <4>1. i \in 1 .. p
        BY <2>2, <3>3
      <4>2. h[i] = IF i = 1 THEN list[i] ELSE h[i - 1] \o list[i]
        BY <2>1, <4>1
      <4> QED BY <3>1, <3>3, <4>2
    <3> QED BY <3>2, <3>3
  <2>4. g = [i \in 1 .. m |-> g[i]]
    OBVIOUS
  <2> HIDE DEF g
  <2>5. Flat(g, m)
    BY <2>3, <2>4
  <2> QED BY <2>2, <2>5
<1>4. \E g : Flat(g, n)
  <2> HIDE DEF Built
  <2>1. n \in Nat /\ n \in 0 .. n /\ \A p \in 0 .. n - 1 : p \in Built => p + 1 \in Built
    BY <1>1, <1>3
  <2>2. \A p \in 0 .. n : p \in Built
    BY <2>1, <1>2, ByInduction
  <2> QED BY <2>1, <2>2 DEF Built
<1>5. PICK f : Flat(f, n) /\ FlattenSeq(list) = f[n]
  <2> DEFINE f == CHOOSE g : Flat(g, n)
  <2>1. Flat(f, n)
    BY <1>4
  <2>2. FlattenSeq(list) = f[n]
    BY <1>1 DEF FlattenSeq, n
  <2> QED BY <2>1, <2>2
<1>6. \A i \in 1 .. n : f[i] = IF i = 1 THEN list[i] ELSE f[i - 1] \o list[i]
  BY <1>5
<1> HIDE DEF Flat
<1> DEFINE Good == {i \in Nat : i = 0 \/ (f[i] \in Seq(S) /\ \A j \in 1 .. i : Within(list[j], f[i]))}
<1>7. ASSUME NEW p \in 0 .. n - 1, p \in Good PROVE p + 1 \in Good
  <2>1. p \in Nat /\ p + 1 \in 1 .. n /\ (p + 1) - 1 = p
    BY <1>1
  <2>2. list[p + 1] \in Seq(S)
    BY <1>1, <2>1
  <2>3. CASE p = 0
    <3>1. f[p + 1] = list[p + 1]
      BY <2>1, <2>3, <1>6
    <3>2. Within(list[p + 1], f[p + 1])
      BY <2>2, <3>1, WithinItself
    <3>3. \A j \in 1 .. p + 1 : Within(list[j], f[p + 1])
      <4>1. \A j \in 1 .. p + 1 : j = p + 1
        BY <2>3
      <4> QED BY <4>1, <3>2
    <3> QED BY <2>1, <2>2, <3>1, <3>3
  <2>4. CASE p # 0
    <3>1. f[p] \in Seq(S) /\ \A j \in 1 .. p : Within(list[j], f[p])
      BY <1>7, <2>4
    <3>2. f[p + 1] = f[p] \o list[p + 1]
      <4>1. p + 1 # 1 /\ f[p + 1] = IF p + 1 = 1 THEN list[p + 1] ELSE f[(p + 1) - 1] \o list[p + 1]
        BY <1>6, <2>1, <2>4
      <4> QED BY <4>1, <2>1
    <3>3. f[p + 1] \in Seq(S) /\ Within(f[p], f[p + 1]) /\ Within(list[p + 1], f[p + 1])
      BY <2>2, <3>1, <3>2, WithinJoined
    <3>4. ASSUME NEW j \in 1 .. p PROVE Within(list[j], f[p + 1])
      <4>1. list[j] \in Seq(S)
        BY <1>1, <2>1
      <4> QED BY <4>1, <3>1, <3>3, WithinTransitive
    <3>5. \A j \in 1 .. p + 1 : j \in 1 .. p \/ j = p + 1
      BY <2>1
    <3> QED BY <2>1, <3>3, <3>4, <3>5
  <2> QED BY <2>3, <2>4
<1>8. n \in Good
  <2>1. 0 \in Good
    OBVIOUS
  <2> HIDE DEF Good
  <2>2. n \in Nat /\ n \in 0 .. n /\ \A p \in 0 .. n - 1 : p \in Good => p + 1 \in Good
    BY <1>1, <1>7
  <2>3. \A p \in 0 .. n : p \in Good
    BY <2>1, <2>2, ByInduction
  <2> QED BY <2>2, <2>3
<1>9. f[n] \in Seq(S) /\ Within(list[k], f[n])
  BY <1>1, <1>8
<1> QED BY <1>5, <1>9

(* A value whose placeholder is in a text is part of the text that results. *)
LEMMA Substituted ==
    ASSUME NEW S, NEW input \in Seq(S), NEW values,
           \A q \in DOMAIN values : values[q] \in Seq(S),
           NEW p \in DOMAIN values, Has(input, p)
    PROVE  /\ substitute(input, values) \in Seq(S)
           /\ Within(values[p], substitute(input, values))
<1> DEFINE list == [i \in DOMAIN input |->
                      IF input[i] \in DOMAIN values THEN values[input[i]] ELSE <<input[i]>>]
<1>1. list \in Seq(Seq(S))
  <2>1. DOMAIN input = 1 .. Len(input) /\ Len(input) \in Nat /\ \A i \in DOMAIN input : input[i] \in S
    OBVIOUS
  <2>2. \A i \in 1 .. Len(input) : list[i] \in Seq(S)
    BY <2>1
  <2>3. list = [i \in 1 .. Len(input) |-> list[i]]
    BY <2>1
  <2> HIDE DEF list
  <2> QED BY <2>1, <2>2, <2>3, IsASeq
<1>2. PICK k \in DOMAIN input : input[k] = p
  BY DEF Has
<1>3. k \in DOMAIN list /\ list[k] = values[p]
  BY <1>2
<1>4. substitute(input, values) = FlattenSeq(list)
  BY DEF substitute
<1> HIDE DEF list
<1> QED BY <1>1, <1>3, <1>4, WithinFlattened

LEMMA Accepted ==
    ASSUME cfg \in Configs, validate(cfg, FALSE)
    PROVE  /\ AnyHas(cfg.args, CHANNEL) /\ AnyHas(cfg.args, MESSAGE)
           /\ Has(cfg.message_template, TRANSCRIPT) /\ AnyHas(cfg.tts_args, OUTPUT)
           /\ cfg.session_reset_after_secs > 0 => ~IsBlank(cfg.session_reset_message)
           /\ cfg.target_channel \in Wording /\ cfg.message_template \in Wording
           /\ cfg.voice \in Wording /\ cfg.session_reset_message \in Wording
           /\ cfg.args \in Seq(Wording) /\ cfg.tts_args \in Seq(Wording)
BY TextAssumption
   DEF validate, ChannelReachesAgent, TextReachesAgent, PiperHasOutput, ResetHasText

(* Whatever is delivered reaches the backend whole, with the channel. *)
LEMMA MessageDelivered ==
    ASSUME cfg \in Configs, validate(cfg, FALSE), NEW message \in Wording
    PROVE  /\ \E i \in DOMAIN Delivered(message) :
                 Delivered(message)[i] \in Wording /\ Within(message, Delivered(message)[i])
           /\ Some(Delivered(message), cfg.target_channel)
<1>1. CASE cfg.transport = "cli"
  <2> DEFINE values == [p \in {CHANNEL, MESSAGE} |-> IF p = CHANNEL THEN cfg.target_channel ELSE message]
  <2>1. MESSAGE # CHANNEL
    BY DEF MESSAGE, CHANNEL
  <2>2. /\ DOMAIN values = {CHANNEL, MESSAGE}
        /\ values[CHANNEL] = cfg.target_channel /\ values[MESSAGE] = message
    BY <2>1
  <2>3. \A p \in DOMAIN values : values[p] \in Wording
    BY Accepted
  <2>4. /\ DOMAIN Delivered(message) = DOMAIN cfg.args
        /\ \A i \in DOMAIN cfg.args : Delivered(message)[i] = substitute(cfg.args[i], values)
    BY <1>1 DEF Delivered, Arguments
  <2>5. \A i \in DOMAIN cfg.args : cfg.args[i] \in Wording
    BY Accepted DEF Wording
  <2> HIDE DEF values
  <2>6. PICK i \in DOMAIN cfg.args : Has(cfg.args[i], MESSAGE)
    BY Accepted DEF AnyHas
  <2>7. /\ substitute(cfg.args[i], values) \in Wording
        /\ Within(message, substitute(cfg.args[i], values))
    BY <2>2, <2>3, <2>5, <2>6, Substituted DEF Wording
  <2>8. PICK j \in DOMAIN cfg.args : Has(cfg.args[j], CHANNEL)
    BY Accepted DEF AnyHas
  <2>9. Within(cfg.target_channel, substitute(cfg.args[j], values))
    BY <2>2, <2>3, <2>5, <2>8, Substituted DEF Wording
  <2> QED BY <2>4, <2>6, <2>7, <2>8, <2>9 DEF Some
<1>2. CASE cfg.transport # "cli"
  <2>1. Delivered(message) = <<cfg.target_channel, message>>
    BY <1>2 DEF Delivered
  <2>2. Within(message, message) /\ Within(cfg.target_channel, cfg.target_channel)
    BY Accepted, WithinItself DEF Wording
  <2>3. /\ 1 \in DOMAIN Delivered(message) /\ 2 \in DOMAIN Delivered(message)
        /\ Delivered(message)[1] = cfg.target_channel /\ Delivered(message)[2] = message
    BY <2>1
  <2> QED BY <2>2, <2>3 DEF Some
<1> QED BY <1>1, <1>2

(* Also what was said, inside the envelope of message_template. *)
LEMMA TranscriptDelivered ==
    ASSUME cfg \in Configs, validate(cfg, FALSE), transcript \in Wording
    PROVE  LET result == Delivered(render_message(cfg, transcript))
           IN  Some(result, transcript) /\ Some(result, cfg.target_channel)
<1> DEFINE message == render_message(cfg, transcript)
           values == [p \in {TRANSCRIPT} |-> transcript]
<1>1. DOMAIN values = {TRANSCRIPT} /\ values[TRANSCRIPT] = transcript
  OBVIOUS
<1>2. message = substitute(cfg.message_template, values)
  BY DEF render_message
<1> HIDE DEF values, message
<1>3. message \in Wording /\ Within(transcript, message)
  BY <1>1, <1>2, Accepted, Substituted DEF Wording
<1>4. PICK i \in DOMAIN Delivered(message) :
         Delivered(message)[i] \in Wording /\ Within(message, Delivered(message)[i])
  BY <1>3, MessageDelivered
<1>5. Within(transcript, Delivered(message)[i])
  BY <1>3, <1>4, WithinTransitive DEF Wording
<1>6. Some(Delivered(message), transcript) /\ Some(Delivered(message), cfg.target_channel)
  BY <1>3, <1>5, MessageDelivered DEF Some
<1> QED BY <1>6 DEF message

LEMMA PiperTold ==
    ASSUME cfg \in Configs, validate(cfg, FALSE)
    PROVE  Some(build_piper_args(cfg, OutWav), OutWav)
<1> DEFINE S == STRING \cup {"out.wav"}
           values == [p \in {OUTPUT, VOICE} |-> IF p = OUTPUT THEN OutWav ELSE cfg.voice]
<1>1. Wording \subseteq Seq(S) /\ OutWav \in Seq(S)
  BY DEF Wording, OutWav
<1>2. /\ DOMAIN values = {OUTPUT, VOICE} /\ values[OUTPUT] = OutWav
      /\ \A p \in DOMAIN values : values[p] \in Seq(S)
  BY <1>1, Accepted
<1>3. /\ DOMAIN build_piper_args(cfg, OutWav) = DOMAIN cfg.tts_args
      /\ \A i \in DOMAIN cfg.tts_args :
            build_piper_args(cfg, OutWav)[i] = substitute(cfg.tts_args[i], values)
  BY DEF build_piper_args
<1>4. PICK i \in DOMAIN cfg.tts_args : Has(cfg.tts_args[i], OUTPUT)
  BY Accepted DEF AnyHas
<1>5. cfg.tts_args[i] \in Seq(S)
  BY <1>1, Accepted
<1> HIDE DEF values, S
<1>6. Within(OutWav, substitute(cfg.tts_args[i], values))
  BY <1>2, <1>4, <1>5, Substituted
<1> QED BY <1>3, <1>4, <1>6 DEF Some

DeliveredInv ==
    /\ step = "marker" => ResetEnabled
    /\ ArgumentsReachPrograms

LEMMA DeliveredKept ==
    ASSUME PathInv, PathInv', DeliveredInv, [PathNext]_pathVars
    PROVE  DeliveredInv'
<1> USE DEF DeliveredInv
<1>1. /\ cfg' = cfg /\ cfg \in Configs
      /\ spoken' # Silence => validate(cfg, FALSE)
  <2>1. cfg' = cfg
    BY DEF PathNext, Start, Transcribe, Filter, SkipSending, ResetMarker, Reset, LateReset,
           Send, NotSent, Answer, SendingFails, NoReply, Speak, Write, roundVars, pathVars
  <2> QED BY <2>1 DEF PathInv, PTypeOK, AcceptedInv, OutputInv, Over
<1>2. spoken' # Silence => Some(build_piper_args(cfg', OutWav), OutWav)
  BY <1>1, PiperTold
<1>3. ASSUME sent' = sent, transcript' = transcript, reset' = reset,
             step' = "marker" => ResetEnabled
      PROVE  DeliveredInv'
  BY <1>1, <1>2, <1>3 DEF ArgumentsReachPrograms, ResetEnabled
<1>4. CASE \/ Start \/ Transcribe \/ SkipSending \/ ResetMarker \/ NotSent \/ Answer
           \/ SendingFails \/ NoReply \/ Speak
  BY <1>4, <1>3 DEF Start, Transcribe, SkipSending, ResetMarker, NotSent, Answer, SendingFails,
                    NoReply, Speak
<1>5. CASE Write \/ UNCHANGED pathVars
  BY <1>5, <1>3 DEF Write, roundVars, pathVars
<1>6. CASE Filter
  <2>1. sent' = <<>> /\ reset' = <<>> /\ step' = "send"
    BY <1>6 DEF Filter, PathInv, SentInv, Early
  <2> QED BY <2>1, <1>2 DEF ArgumentsReachPrograms
<1>7. CASE Reset \/ LateReset
  <2>1. /\ reset' \in {<<>>, Delivered(cfg.session_reset_message)} /\ step' = "message"
        /\ sent' = sent /\ transcript' = transcript /\ step \in {"marker", "send"}
        /\ ResetEnabled
    BY <1>7 DEF Reset, LateReset
  <2>2. validate(cfg, FALSE)
    BY <2>1 DEF PathInv, AcceptedInv
  <2>3. reset' # <<>> =>
          /\ ~IsBlank(cfg.session_reset_message)
          /\ Some(reset', cfg.session_reset_message) /\ Some(reset', cfg.target_channel)
    BY <1>1, <2>1, <2>2, Accepted, MessageDelivered DEF Some, ResetEnabled
  <2> QED BY <1>1, <1>2, <2>1, <2>3 DEF ArgumentsReachPrograms
<1>8. CASE Send
  <2>1. /\ sent' = Delivered(render_message(cfg, transcript)) /\ step' = "answer"
        /\ step \in {"send", "message"} /\ reset' = reset /\ transcript' = transcript
    BY <1>8 DEF Send, AtSending
  <2>2. validate(cfg, FALSE) /\ transcript \in Wording
    BY <2>1 DEF PathInv, AcceptedInv, PTypeOK
  <2>3. Some(sent', transcript) /\ Some(sent', cfg.target_channel)
    BY <1>1, <2>1, <2>2, TranscriptDelivered
  <2> QED BY <1>1, <1>2, <2>1, <2>3 DEF ArgumentsReachPrograms
<1> QED BY <1>4, <1>5, <1>6, <1>7, <1>8 DEF PathNext

(* With every configuration that validate accepts, the transcript and the   *)
(* reset message reach the agent whole, on the channel, and Piper learns   *)
(* where to write: whatever placeholders occur in them as text.            *)
THEOREM ArgumentsReach == PathSpec => []ArgumentsReachPrograms
<1>1. PathInit => DeliveredInv
  BY DEF PathInit, DeliveredInv, ArgumentsReachPrograms
<1>2. PathInv /\ PathInv' /\ DeliveredInv /\ [PathNext]_pathVars => DeliveredInv'
  BY DeliveredKept
<1>3. DeliveredInv => ArgumentsReachPrograms
  BY DEF DeliveredInv
<1> QED BY <1>1, <1>2, <1>3, PathInductive, PTL DEF PathSpec

-----------------------------------------------------------------------------
(* How a text is spelled.                                                  *)

Nothing == [out |-> <<>>, gap |-> FALSE]
Accs    == [out : Seq(STRING \cup {SPACE}), gap : BOOLEAN]

(* What normalize has read of a text, token by token. *)
LEMMA ReadingStep ==
    ASSUME NEW S, NEW text \in Seq(S)
    PROVE  /\ reading(text)[0] = Nothing
           /\ \A i \in 1 .. Len(text) : reading(text)[i] = Taken(reading(text)[i - 1], text[i])
<1> DEFINE Read(g, m) == g = [i \in 0 .. m |-> IF i = 0 THEN Nothing ELSE Taken(g[i - 1], text[i])]
           n == Len(text)
           Built == {m \in Nat : \E g : Read(g, m)}
<1>1. n \in Nat
  OBVIOUS
<1> HIDE DEF n
<1>2. 0 \in Built
  <2> DEFINE none == [i \in 0 .. 0 |-> Nothing]
  <2>1. \A i \in 0 .. 0 : i = 0
    OBVIOUS
  <2>2. Read(none, 0)
    BY <2>1
  <2> QED BY <2>2
<1>3. ASSUME NEW p \in 0 .. n - 1, p \in Built PROVE p + 1 \in Built
  <2>1. PICK h : Read(h, p)
    BY <1>3
  <2> DEFINE m == p + 1
             g == [i \in 0 .. m |-> IF i = m THEN Taken(h[i - 1], text[i]) ELSE h[i]]
  <2>2. p \in Nat /\ m \in Nat /\ m # 0
    BY <1>1
  <2>3. \A i \in 0 .. m : g[i] = IF i = 0 THEN Nothing ELSE Taken(g[i - 1], text[i])
    <3> SUFFICES ASSUME NEW i \in 0 .. m
                 PROVE  g[i] = IF i = 0 THEN Nothing ELSE Taken(g[i - 1], text[i])
      OBVIOUS
    <3>1. i # 0 => i - 1 \in 0 .. m /\ i - 1 # m
      BY <2>2
    <3>2. CASE i = m
      BY <2>2, <3>1, <3>2
    <3>3. CASE i # m
      <4>1. i \in 0 .. p
        BY <2>2, <3>3
      <4>2. h[i] = IF i = 0 THEN Nothing ELSE Taken(h[i - 1], text[i])
        BY <2>1, <4>1
      <4> QED BY <3>1, <3>3, <4>2
    <3> QED BY <3>2, <3>3
  <2>4. g = [i \in 0 .. m |-> g[i]]
    OBVIOUS
  <2> HIDE DEF g
  <2>5. Read(g, m)
    BY <2>3, <2>4
  <2> QED BY <2>2, <2>5
<1>4. \E g : Read(g, n)
  <2> HIDE DEF Built
  <2>1. n \in Nat /\ n \in 0 .. n /\ \A p \in 0 .. n - 1 : p \in Built => p + 1 \in Built
    BY <1>1, <1>3
  <2>2. \A p \in 0 .. n : p \in Built
    BY <2>1, <1>2, ByInduction
  <2> QED BY <2>1, <2>2 DEF Built
<1>5. PICK f : Read(f, n) /\ reading(text) = f
  <2> DEFINE f == CHOOSE g : Read(g, n)
  <2>1. Read(f, n)
    BY <1>4
  <2>2. reading(text) = f
    BY DEF reading, n, Nothing
  <2> QED BY <2>1, <2>2
<1>6. \A i \in 0 .. n : f[i] = IF i = 0 THEN Nothing ELSE Taken(f[i - 1], text[i])
  BY <1>5
<1>7. 0 \in 0 .. n /\ \A i \in 1 .. n : i \in 0 .. n /\ i # 0
  BY <1>1
<1> HIDE DEF Read
<1>8. /\ f[0] = Nothing
      /\ \A i \in 1 .. n : f[i] = Taken(f[i - 1], text[i])
  BY <1>6, <1>7
<1> QED BY <1>5, <1>8 DEF n

(* What is skipped is neither a letter nor a placeholder. *)
LEMMA Disjoint ==
    /\ Skipped \cap Letters = {} /\ Skipped \cap Placeholders = {}
    /\ SPACE \notin Skipped \cup Letters \cup Placeholders
<1>1. APOSTROPHE # SPACE
  BY DEF APOSTROPHE, SPACE
<1> QED BY <1>1, LowerAssumption DEF Skipped

LEMMA TakenType == ASSUME NEW acc \in Accs, NEW c PROVE Taken(acc, c) \in Accs
<1>1. ASSUME NEW a \in Accs, c \in Letters PROVE Kept(a, c) \in Accs
  <2> DEFINE S == STRING \cup {SPACE}
  <2>1. Lower[c] \in S
    BY <1>1, LowerAssumption
  <2>2. a.out \in Seq(S)
    BY DEF Accs
  <2> HIDE DEF S
  <2>3. <<Lower[c]>> \in Seq(S) /\ SPACE \in S
    BY <2>1 DEF S
  <2>4. (IF a.gap /\ a.out # <<>> THEN <<SPACE>> ELSE <<>>) \in Seq(S)
    BY <2>3
  <2>5. a.out \o (IF a.gap /\ a.out # <<>> THEN <<SPACE>> ELSE <<>>) \o <<Lower[c]>> \in Seq(S)
    BY <2>2, <2>3, <2>4
  <2> QED BY <2>5 DEF Kept, Accs, S
<1>2. [acc EXCEPT !.gap = TRUE] \in Accs
  BY DEF Accs
<1>3. CASE c \in Skipped
  BY <1>3, Disjoint DEF Taken
<1>4. CASE c \notin Skipped /\ c \in Placeholders
  <2>1. Kept([acc EXCEPT !.gap = TRUE], c) \in Accs
    BY <1>1, <1>2, <1>4, LowerAssumption
  <2>2. Taken(acc, c) = [Kept([acc EXCEPT !.gap = TRUE], c) EXCEPT !.gap = TRUE]
    BY <1>4, Disjoint DEF Taken
  <2> QED BY <2>1, <2>2 DEF Accs
<1>5. CASE c \notin Skipped /\ c \notin Placeholders /\ c \in Letters
  BY <1>1, <1>5 DEF Taken
<1>6. CASE c \notin Skipped /\ c \notin Placeholders /\ c \notin Letters
  BY <1>2, <1>6 DEF Taken
<1> QED BY <1>3, <1>4, <1>5, <1>6

LEMMA ReadingType ==
    ASSUME NEW S, NEW text \in Seq(S)
    PROVE  \A i \in 0 .. Len(text) : reading(text)[i] \in Accs
<1>6. /\ reading(text)[0] = Nothing
      /\ \A i \in 1 .. Len(text) : reading(text)[i] = Taken(reading(text)[i - 1], text[i])
  BY ReadingStep
<1> DEFINE Good == {i \in Nat : reading(text)[i] \in Accs}
<1>1. Len(text) \in Nat
  OBVIOUS
<1>2. Nothing \in Accs
  BY DEF Nothing, Accs
<1>3. 0 \in Good
  BY <1>2, <1>6
<1>4. ASSUME NEW p \in 0 .. Len(text) - 1, p \in Good PROVE p + 1 \in Good
  <2>1. p \in Nat /\ p + 1 \in 1 .. Len(text) /\ (p + 1) - 1 = p
    BY <1>1
  <2>2. reading(text)[p + 1] = Taken(reading(text)[p], text[p + 1])
    BY <2>1, <1>6
  <2> QED BY <1>4, <2>1, <2>2, TakenType
<1> HIDE DEF Good
<1>5. \A i \in 0 .. Len(text) : i \in Good
  BY <1>1, <1>3, <1>4, ByInduction
<1> QED BY <1>5 DEF Good

(* Where the tokens of a text are after one has been inserted. *)
Put(a, n, t) == SubSeq(a, 1, n) \o <<t>> \o SubSeq(a, n + 1, Len(a))

Longer(b, a, n, t) ==
    /\ Len(b) = Len(a) + 1
    /\ \A k \in 1 .. n : b[k] = a[k]
    /\ b[n + 1] = t
    /\ \A k \in n + 1 .. Len(a) : b[k + 1] = a[k]

LEMMA Inserted ==
    ASSUME NEW S, NEW a \in Seq(S), NEW t \in S, NEW n \in 0 .. Len(a), NEW b, b = Put(a, n, t)
    PROVE  b \in Seq(S) /\ Longer(b, a, n, t)
<1> DEFINE l == Len(a)
           x == SubSeq(a, 1, n)
           y == SubSeq(a, n + 1, l)
           xt == x \o <<t>>
           c == xt \o y
<1>0. l \in Nat /\ n \in 0 .. l /\ b = xt \o y
  BY DEF Put
<1>1. x \in Seq(S) /\ Len(x) = n /\ \A k \in 1 .. n : x[k] = a[k]
  OBVIOUS
<1>2. y \in Seq(S) /\ Len(y) = l - n /\ \A k \in 1 .. l - n : y[k] = a[n + k]
  OBVIOUS
<1> HIDE DEF x, y, l
<1>3. n \in Nat /\ l \in Nat /\ l - n \in Nat
  BY <1>0
<1>4. /\ xt \in Seq(S) /\ Len(xt) = n + 1 /\ xt[n + 1] = t
      /\ \A k \in 1 .. n : xt[k] = x[k]
  BY <1>1, <1>3
<1> HIDE DEF xt
<1>5. /\ c \in Seq(S) /\ Len(c) = (n + 1) + (l - n)
      /\ \A k \in 1 .. n + 1 : c[k] = xt[k]
      /\ \A k \in 1 .. l - n : c[n + 1 + k] = y[k]
  <2> DEFINE m == Len(xt)
  <2>1. /\ c \in Seq(S) /\ Len(c) = m + Len(y)
        /\ \A k \in 1 .. m + Len(y) : c[k] = IF k <= m THEN xt[k] ELSE y[k - m]
    BY <1>2, <1>4, ConcatProperties
  <2>2. m = n + 1 /\ Len(y) = l - n
    BY <1>2, <1>4
  <2> HIDE DEF m, c
  <2>3. ASSUME NEW k \in 1 .. n + 1 PROVE c[k] = xt[k]
    <3>1. k \in 1 .. m + Len(y) /\ k <= m
      BY <1>3, <2>2
    <3> QED BY <2>1, <3>1
  <2>4. ASSUME NEW k \in 1 .. l - n PROVE c[n + 1 + k] = y[k]
    <3>1. n + 1 + k \in 1 .. m + Len(y) /\ ~ (n + 1 + k <= m) /\ (n + 1 + k) - m = k
      BY <1>3, <2>2
    <3> QED BY <2>1, <3>1
  <2> QED BY <2>1, <2>2, <2>3, <2>4
<1> HIDE DEF c
<1>6. Len(c) = l + 1
  BY <1>3, <1>5
<1>7. \A k \in 1 .. n : c[k] = a[k]
  <2>1. \A k \in 1 .. n : k \in 1 .. n + 1
    BY <1>3
  <2> QED BY <2>1, <1>1, <1>4, <1>5
<1>8. c[n + 1] = t
  <2>1. n + 1 \in 1 .. n + 1
    BY <1>3
  <2> QED BY <2>1, <1>4, <1>5
<1>9. ASSUME NEW k \in n + 1 .. l PROVE c[k + 1] = a[k]
  <2>1. k - n \in 1 .. l - n /\ n + 1 + (k - n) = k + 1 /\ n + (k - n) = k
    BY <1>3
  <2>2. c[n + 1 + (k - n)] = y[k - n] /\ y[k - n] = a[n + (k - n)]
    BY <2>1, <1>2, <1>5
  <2> QED BY <2>1, <2>2
<1>10. b = c
  BY <1>0 DEF c
<1> QED BY <1>5, <1>6, <1>7, <1>8, <1>9, <1>10 DEF l, Longer

LEMMA ApostropheIgnored ==
    ASSUME NEW S, APOSTROPHE \in S, NEW a \in Seq(S), NEW n \in 0 .. Len(a), NEW b,
           b = SubSeq(a, 1, n) \o <<APOSTROPHE>> \o SubSeq(a, n + 1, Len(a))
    PROVE  normalize(b) = normalize(a)
<1> DEFINE ra == reading(a)
           rb == reading(b)
           la == Len(a)
<1>1. la \in Nat /\ n \in Nat /\ n <= la
  OBVIOUS
<1>2. /\ b \in Seq(S) /\ Len(b) = la + 1
      /\ \A k \in 1 .. n : b[k] = a[k]
      /\ b[n + 1] = APOSTROPHE
      /\ \A k \in n + 1 .. la : b[k + 1] = a[k]
  <2>1. b = Put(a, n, APOSTROPHE)
    BY DEF Put
  <2> HIDE DEF la
  <2>2. b \in Seq(S) /\ Longer(b, a, n, APOSTROPHE)
    BY <2>1, Inserted
  <2> QED BY <2>2 DEF la, Longer
<1>3. ra[0] = Nothing /\ \A k \in 1 .. la : ra[k] = Taken(ra[k - 1], a[k])
  BY ReadingStep
<1>4. rb[0] = Nothing /\ \A k \in 1 .. la + 1 : rb[k] = Taken(rb[k - 1], b[k])
  BY <1>2, ReadingStep
<1>5. \A acc : Taken(acc, APOSTROPHE) = acc
  BY Disjoint DEF Taken, Skipped
<1> HIDE DEF ra, rb, la
<1> DEFINE Good == {k \in Nat : (k <= n => rb[k] = ra[k]) /\ (k >= n => rb[k + 1] = ra[k])}
<1>6. ASSUME NEW k \in Nat, k <= la, k <= n => rb[k] = ra[k], k > n => rb[k + 1] = ra[k]
      PROVE  k \in Good
  <2>1. CASE k = n
    <3>1. k + 1 \in 1 .. la + 1 /\ (k + 1) - 1 = k
      BY <1>1, <1>6
    <3>2. rb[k + 1] = Taken(rb[k], APOSTROPHE)
      BY <1>2, <1>4, <2>1, <3>1
    <3> QED BY <1>5, <1>6, <2>1, <3>2
  <2>2. CASE k # n
    BY <1>1, <1>6, <2>2
  <2> QED BY <2>1, <2>2
<1>7. 0 \in Good
  BY <1>1, <1>3, <1>4, <1>6
<1>8. ASSUME NEW p \in 0 .. la - 1, p \in Good PROVE p + 1 \in Good
  <2>1. p \in Nat /\ p + 1 \in 1 .. la /\ (p + 1) - 1 = p /\ ra[p + 1] = Taken(ra[p], a[p + 1])
    BY <1>1, <1>3
  <2>2. CASE p + 1 <= n
    <3>4. p + 1 \in 1 .. n /\ p + 1 \in 1 .. la + 1 /\ ~ (p + 1 > n)
      BY <1>1, <2>1, <2>2
    <3>1. rb[p + 1] = Taken(rb[p], b[p + 1]) /\ b[p + 1] = a[p + 1]
      BY <1>2, <1>4, <2>1, <3>4
    <3>2. rb[p] = ra[p]
      BY <1>1, <1>8, <2>1, <2>2
    <3>3. rb[p + 1] = ra[p + 1]
      BY <2>1, <3>1, <3>2
    <3> QED BY <1>1, <1>6, <2>1, <3>3, <3>4
  <2>3. CASE p + 1 > n
    <3>1. p + 1 \in n + 1 .. la /\ p + 2 \in 1 .. la + 1 /\ (p + 2) - 1 = p + 1 /\ (p + 1) + 1 = p + 2
      BY <1>1, <2>1, <2>3
    <3>2. rb[p + 2] = Taken(rb[p + 1], b[p + 2]) /\ b[p + 2] = a[p + 1]
      BY <1>2, <1>4, <3>1
    <3>3. rb[p + 1] = ra[p]
      BY <1>1, <1>8, <2>1, <2>3
    <3>4. rb[p + 2] = ra[p + 1]
      BY <2>1, <3>2, <3>3
    <3>5. rb[(p + 1) + 1] = ra[p + 1] /\ ~ (p + 1 <= n)
      BY <1>1, <2>1, <2>3, <3>1, <3>4
    <3> QED BY <1>1, <1>6, <2>1, <3>5
  <2> QED BY <1>1, <2>1, <2>2, <2>3
<1>9. rb[la + 1] = ra[la]
  <2> HIDE DEF Good
  <2>1. \A k \in 0 .. la : k \in Good
    BY <1>1, <1>7, <1>8, ByInduction
  <2>2. la \in Good
    BY <1>1, <2>1
  <2> QED BY <1>1, <2>2 DEF Good
<1> QED BY <1>2, <1>9 DEF normalize, ra, rb, la

LEMMA CapitalsIgnored ==
    ASSUME NEW S, NEW a \in Seq(S), NEW c \in Letters \ Placeholders, NEW T, NEW b \in Seq(T),
           b = [i \in DOMAIN a |-> IF a[i] = c THEN Lower[c] ELSE a[i]]
    PROVE  normalize(b) = normalize(a)
<1> DEFINE ra == reading(a)
           rb == reading(b)
           la == Len(a)
<1>1. /\ la \in Nat /\ Len(b) = la
      /\ \A k \in 1 .. la : b[k] = IF a[k] = c THEN Lower[c] ELSE a[k]
  <2>1. DOMAIN b = DOMAIN a /\ DOMAIN a = 1 .. Len(a) /\ DOMAIN b = 1 .. Len(b)
    OBVIOUS
  <2>2. Len(a) \in Nat /\ Len(b) \in Nat
    OBVIOUS
  <2>3. Len(a) = Len(b)
    BY <2>1, <2>2
  <2> QED BY <2>1, <2>2, <2>3
<1>2. ra[0] = Nothing /\ \A k \in 1 .. la : ra[k] = Taken(ra[k - 1], a[k])
  BY ReadingStep
<1>3. rb[0] = Nothing /\ \A k \in 1 .. la : rb[k] = Taken(rb[k - 1], b[k])
  BY <1>1, ReadingStep
<1>4. ASSUME NEW acc PROVE Taken(acc, Lower[c]) = Taken(acc, c)
  <2>1. Lower[c] \in Letters \ Placeholders /\ Lower[Lower[c]] = Lower[c]
    BY LowerAssumption
  <2>2. \A d \in Letters \ Placeholders : Taken(acc, d) = Kept(acc, d)
    BY Disjoint DEF Taken
  <2>3. Kept(acc, Lower[c]) = Kept(acc, c)
    BY <2>1 DEF Kept
  <2> QED BY <2>1, <2>2, <2>3
<1> HIDE DEF ra, rb, la
<1> DEFINE Good == {k \in Nat : rb[k] = ra[k]}
<1>5. 0 \in Good
  BY <1>2, <1>3
<1>6. ASSUME NEW p \in 0 .. la - 1, p \in Good PROVE p + 1 \in Good
  <2>1. p \in Nat /\ p + 1 \in 1 .. la /\ (p + 1) - 1 = p
    BY <1>1
  <2>2. ra[p + 1] = Taken(ra[p], a[p + 1]) /\ rb[p + 1] = Taken(rb[p], b[p + 1]) /\ rb[p] = ra[p]
    BY <1>2, <1>3, <1>6, <2>1
  <2>3. Taken(ra[p], b[p + 1]) = Taken(ra[p], a[p + 1])
    BY <1>1, <1>4, <2>1
  <2> QED BY <2>1, <2>2, <2>3
<1>7. rb[la] = ra[la]
  <2> HIDE DEF Good
  <2>1. \A k \in 0 .. la : k \in Good
    BY <1>1, <1>5, <1>6, ByInduction
  <2>2. la \in Good
    BY <1>1, <2>1
  <2> QED BY <2>2 DEF Good
<1> QED BY <1>1, <1>7 DEF normalize, ra, rb, la

(* Two states of reading that take every further text to the same result. *)
Alike(x, y) == x.out = y.out /\ (x.gap = y.gap \/ x.out = <<>>)

LEMMA TakenAlike ==
    ASSUME NEW x \in Accs, NEW y \in Accs, Alike(x, y), NEW c
    PROVE  Alike(Taken(x, c), Taken(y, c))
<1> DEFINE Gap(z) == [z EXCEPT !.gap = TRUE]
<1>2. Kept(x, c) = Kept(y, c)
  BY DEF Kept, Alike
<1>3. Gap(x) = Gap(y)
  BY DEF Accs, Alike
<1>4. CASE c \in Skipped
  BY <1>4, Disjoint DEF Taken
<1>5. CASE c \notin Skipped /\ c \in Placeholders
  <2>1. \A z : Taken(z, c) = [Kept(Gap(z), c) EXCEPT !.gap = TRUE]
    BY <1>5, Disjoint DEF Taken
  <2>2. Taken(x, c) = Taken(y, c)
    BY <2>1, <1>3
  <2> QED BY <2>2 DEF Alike
<1>6. CASE c \notin Skipped /\ c \notin Placeholders /\ c \in Letters
  <2>1. \A z : Taken(z, c) = Kept(z, c)
    BY <1>6, Disjoint DEF Taken
  <2> QED BY <2>1, <1>2 DEF Alike
<1>7. CASE c \notin Skipped /\ c \notin Placeholders /\ c \notin Letters
  <2>1. \A z : Taken(z, c) = Gap(z)
    BY <1>7 DEF Taken
  <2> QED BY <2>1, <1>3 DEF Alike
<1> QED BY <1>4, <1>5, <1>6, <1>7

(* Where the tokens of a text are after it has been put between others. *)
Between(b, a, t) ==
    /\ Len(b) = Len(a) + 2
    /\ b[1] = t /\ b[Len(a) + 2] = t
    /\ \A k \in 1 .. Len(a) : b[k + 1] = a[k]

LEMMA Surrounded ==
    ASSUME NEW S, NEW a \in Seq(S), NEW t \in S, NEW b, b = <<t>> \o a \o <<t>>
    PROVE  b \in Seq(S) /\ Between(b, a, t)
<1> DEFINE l == Len(a)
           x == <<t>> \o a
           c == x \o <<t>>
<1>1. l \in Nat /\ b = c
  OBVIOUS
<1>2. x \in Seq(S) /\ Len(x) = l + 1 /\ x[1] = t /\ \A k \in 1 .. l : x[k + 1] = a[k]
  OBVIOUS
<1> HIDE DEF x
<1>3. /\ c \in Seq(S) /\ Len(c) = Len(x) + 1 /\ c[Len(x) + 1] = t
      /\ \A k \in 1 .. Len(x) : c[k] = x[k]
  BY <1>2
<1> HIDE DEF c, l
<1>4. 1 \in 1 .. l + 1 /\ (l + 1) + 1 = l + 2 /\ \A k \in 1 .. l : k + 1 \in 1 .. l + 1
  BY <1>1
<1>5. Len(c) = l + 2 /\ c[l + 2] = t /\ c[1] = t
  BY <1>1, <1>2, <1>3, <1>4
<1>6. \A k \in 1 .. l : c[k + 1] = a[k]
  BY <1>2, <1>3, <1>4
<1> QED BY <1>1, <1>3, <1>5, <1>6 DEF Between, l

LEMMA SpacesIgnored ==
    ASSUME NEW S, SPACE \in S, NEW a \in Seq(S), NEW b, b = <<SPACE>> \o a \o <<SPACE>>
    PROVE  normalize(b) = normalize(a)
<1> DEFINE ra == reading(a)
           rb == reading(b)
           la == Len(a)
<1>1. la \in Nat
  OBVIOUS
<1>2. /\ b \in Seq(S) /\ Len(b) = la + 2
      /\ b[1] = SPACE /\ b[la + 2] = SPACE
      /\ \A k \in 1 .. la : b[k + 1] = a[k]
  BY Surrounded DEF Between
<1>3. ra[0] = Nothing /\ \A k \in 1 .. la : ra[k] = Taken(ra[k - 1], a[k])
  BY ReadingStep
<1>4. rb[0] = Nothing /\ \A k \in 1 .. la + 2 : rb[k] = Taken(rb[k - 1], b[k])
  BY <1>2, ReadingStep
<1>5. (\A k \in 0 .. la : ra[k] \in Accs) /\ (\A k \in 0 .. la + 2 : rb[k] \in Accs)
  BY <1>2, ReadingType
<1>6. ASSUME NEW acc \in Accs PROVE Alike(Taken(acc, SPACE), [acc EXCEPT !.gap = TRUE])
  BY Disjoint DEF Taken, Alike
<1> HIDE DEF ra, rb, la
<1> DEFINE Good == {k \in Nat : Alike(rb[k + 1], ra[k])}
<1>7. 0 \in Good
  <2>1. 1 \in 1 .. la + 2 /\ 1 - 1 = 0 /\ 0 + 1 = 1
    BY <1>1
  <2>2. rb[1] = Taken(Nothing, SPACE)
    BY <1>2, <1>4, <2>1
  <2>3. Nothing \in Accs
    BY DEF Nothing, Accs
  <2>4. Alike(rb[1], ra[0])
    BY <1>3, <1>6, <2>2, <2>3 DEF Alike, Nothing
  <2> QED BY <2>1, <2>4
<1>8. ASSUME NEW p \in 0 .. la - 1, p \in Good PROVE p + 1 \in Good
  <2>1. /\ p \in Nat /\ p + 1 \in Nat /\ p \in 0 .. la /\ p + 1 \in 0 .. la + 2
        /\ p + 1 \in 1 .. la /\ (p + 1) - 1 = p
        /\ p + 2 \in 1 .. la + 2 /\ (p + 2) - 1 = p + 1 /\ (p + 1) + 1 = p + 2
    BY <1>1
  <2>2. ra[p + 1] = Taken(ra[p], a[p + 1])
    BY <1>3, <2>1
  <2>3. rb[p + 2] = Taken(rb[p + 1], a[p + 1])
    BY <1>2, <1>4, <2>1
  <2>4. Alike(rb[p + 1], ra[p]) /\ rb[p + 1] \in Accs /\ ra[p] \in Accs
    BY <1>5, <1>8, <2>1
  <2>5. Alike(rb[p + 2], ra[p + 1])
    BY <2>2, <2>3, <2>4, TakenAlike
  <2> QED BY <2>1, <2>5
<1>9. Alike(rb[la + 1], ra[la])
  <2> HIDE DEF Good
  <2>1. \A k \in 0 .. la : k \in Good
    BY <1>1, <1>7, <1>8, ByInduction
  <2>2. la \in Good
    BY <1>1, <2>1
  <2> QED BY <2>2 DEF Good
<1>10. rb[la + 2].out = ra[la].out
  <2>1. la + 2 \in 1 .. la + 2 /\ (la + 2) - 1 = la + 1 /\ la + 1 \in 0 .. la + 2
    BY <1>1
  <2>2. rb[la + 2] = Taken(rb[la + 1], SPACE) /\ rb[la + 1] \in Accs
    BY <1>2, <1>4, <1>5, <2>1
  <2>3. rb[la + 2].out = rb[la + 1].out
    BY <1>6, <2>2 DEF Alike, Accs
  <2> QED BY <1>9, <2>3 DEF Alike
<1> QED BY <1>2, <1>10 DEF normalize, ra, rb, la

(* Whatever the patterns and the transcript, the filter comes to the same   *)
(* answer when the transcript is written with an apostrophe more, with one *)
(* of its capitals small, or between spaces.                               *)
THEOREM SpellingIgnored == PathSpec => []FilterIgnoresSpelling
<1>1. ASSUME NEW a \in Wording, NEW text \in Respelled(a) PROVE normalize(text) = normalize(a)
  <2>1. CASE text \in {SubSeq(a, 1, i) \o <<APOSTROPHE>> \o SubSeq(a, i + 1, Len(a)) : i \in 0 .. Len(a)}
    <3> DEFINE S == STRING \cup {APOSTROPHE}
    <3>1. a \in Seq(S) /\ APOSTROPHE \in S
      BY DEF Wording
    <3>2. PICK i \in 0 .. Len(a) :
               text = SubSeq(a, 1, i) \o <<APOSTROPHE>> \o SubSeq(a, i + 1, Len(a))
      BY <2>1
    <3> HIDE DEF S
    <3> QED BY <3>1, <3>2, ApostropheIgnored
  <2>2. CASE text \in {[i \in DOMAIN a |-> IF a[i] = c THEN Lower[c] ELSE a[i]] :
                         c \in Letters \ Placeholders}
    <3>1. PICK c \in Letters \ Placeholders :
               text = [i \in DOMAIN a |-> IF a[i] = c THEN Lower[c] ELSE a[i]]
      BY <2>2
    <3>2. Lower[c] \in STRING
      BY LowerAssumption
    <3>3. text \in Seq(STRING)
      BY <3>1, <3>2 DEF Wording
    <3> QED BY <3>1, <3>3, CapitalsIgnored DEF Wording
  <2>3. CASE text = <<SPACE>> \o a \o <<SPACE>>
    <3> DEFINE S == STRING \cup {SPACE}
    <3>1. a \in Seq(S) /\ SPACE \in S
      BY DEF Wording
    <3> HIDE DEF S
    <3> QED BY <3>1, <2>3, SpacesIgnored
  <2> QED BY <2>1, <2>2, <2>3 DEF Respelled
<1>2. PathInv => FilterIgnoresSpelling
  <2> SUFFICES ASSUME PathInv, NEW text \in Respelled(heard)
               PROVE  matching_pattern(cfg.ignored_patterns, text) <=> Ignored
    BY DEF FilterIgnoresSpelling
  <2>1. normalize(text) = normalize(heard)
    BY <1>1 DEF PathInv, PTypeOK
  <2> QED BY <2>1 DEF Ignored, matching_pattern, Matches
<1> QED BY <1>2, PathInductive, PTL
=============================================================================
