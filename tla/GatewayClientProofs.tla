------------------------ MODULE GatewayClientProofs ------------------------
(***************************************************************************)
(* What a call of gateway_client.rs returns and when it gives up, for any  *)
(* number of chunks, events and unread frames, as long as the events of a  *)
(* run do not overtake the response that starts it (EventsOvertake).       *)
(***************************************************************************)
EXTENDS GatewayClient, Integers, TLAPS

Kinds == EventKinds \union {"challenge", "ok", "refused", "ping", "hangup"}

Phases == Reading \union {"opening", "convert", "listen", "done"}

GTypeOK ==
  /\ call \in Calls /\ phase \in Phases
  /\ result \in {"none", "ok", "error", "timeout"}
  /\ inbox \in Seq([kind : Kinds, n : Nat])
  /\ pending \in Requests \union {"none"}
  /\ run \in {"none", "active", "closing", "over"}
  /\ text \in Seq(Nat) /\ said \in Seq(Nat)
  /\ appended \in Nat /\ heard \in Nat /\ events \in Nat

(* Frames of the inbox: a response; an event of the run; one that ends it. *)
ChatKinds == {"delta", "refresh", "final", "aborted"}
TalkKinds == {"transcript", "failed", "closed"}

IsReply(i) == inbox[i].kind \in {"ok", "refused"}
IsRun(i)   == inbox[i].kind \in ChatKinds \union TalkKinds
IsEnd(i)   == inbox[i].kind \in {"final", "aborted", "failed", "closed"}

(* Which call is in which phase.                                           *)
PhaseInv ==
  /\ phase \in {"chat.send", "collect"} => call = "chat"
  /\ phase \in {"create", "convert", "append", "close", "closing"} =>
       call = "talk"
  /\ phase = "speak" => call = "tts"
  /\ phase = "listen" => call = "probe"
  /\ phase = "subscribe" => call \in {"chat", "probe"}
  /\ result = "none" <=> phase # "done"

(* The request that is open has one response at most, in the inbox or yet  *)
(* to come; it precedes the events of the run it starts and the event that *)
(* answers close.                                                          *)
Answered(p) ==
  /\ IsReply(p) /\ \A i \in DOMAIN inbox : IsReply(i) => i = p
  /\ phase \in {"chat.send", "create"} =>
       /\ \A i \in 1 .. p - 1 : ~IsRun(i)
       /\ inbox[p].kind = "ok" => run # "none"
  /\ phase = "append" /\ inbox[p].kind = "ok" => heard = appended
  /\ phase = "close" => \A i \in 1 .. p - 1 : inbox[i].kind # "closed"

ReplyInv ==
  /\ pending \in {"none", phase}
  /\ pending # "none" \/ phase \notin Requests =>
       \A i \in DOMAIN inbox : ~IsReply(i)
  /\ pending = "none" /\ phase \in Requests =>
       \E p \in DOMAIN inbox : Answered(p)

(* The run is over exactly if the event that ends it has not been read.    *)
PhaseRun ==
  /\ phase \in {"opening", "challenge", "connect", "subscribe", "speak",
                "listen"} => run = "none"
  /\ pending \in {"chat.send", "create"} => run = "none"
  /\ phase \in {"collect", "convert", "append", "close", "closing"} =>
       run # "none"
  /\ run = "closing" => pending = "none" /\ phase \in {"close", "closing"}

FrameRun ==
  /\ run = "none" => \A i \in DOMAIN inbox : ~IsRun(i)
  /\ \A i \in DOMAIN inbox : inbox[i].kind \in ChatKinds => call = "chat"
  /\ \A i \in DOMAIN inbox : inbox[i].kind \in TalkKinds => call = "talk"
  /\ run = "over" <=> \E i \in DOMAIN inbox : IsEnd(i)

ClosedInv ==
  (\E i \in DOMAIN inbox : inbox[i].kind = "closed") =>
    pending = "none" /\ phase \in {"close", "closing"}

(* The gateway has accepted the chunks that were sent.                     *)
HeardInv ==
  /\ phase \in {"opening", "challenge", "connect", "subscribe", "create",
                "convert"} => appended = 0 /\ heard = 0
  /\ phase = "append" =>
       appended <= Chunks /\ (pending = "append" => heard + 1 = appended)
  /\ phase \in {"close", "closing"} => heard = Chunks

(* texts[i] is what the collector will hold after the i-th unread frame: in *)
(* the end what the gateway means, and nothing follows the end of the run. *)
After(t, f) ==
  CASE f.kind \in {"delta", "transcript"} -> Append(t, f.n)
    [] f.kind = "refresh" -> <<f.n>>
    [] OTHER -> t

Collects(texts) ==
  /\ texts[0] = text /\ texts[Len(inbox)] = said
  /\ \A i \in DOMAIN inbox : texts[i] = After(texts[i - 1], inbox[i])
  /\ \A i \in DOMAIN inbox : IsEnd(i) => texts[i] = said

TextInv == \E texts \in [0 .. Len(inbox) -> Seq(Nat)] : Collects(texts)

OpenInv ==
  /\ phase = "opening" => inbox = <<>>
  /\ ReplyInv /\ PhaseRun /\ FrameRun /\ ClosedInv /\ HeardInv /\ TextInv

GInv ==
  /\ GTypeOK /\ PhaseInv
  /\ phase # "done" => OpenInv
  /\ AnswerIsComplete /\ NoWaitAfterTheEnd

-----------------------------------------------------------------------------
(* The inbox when a frame is sent, and when one is read.                   *)
FrameType == [kind : Kinds, n : Nat]

LEMMA FrameSent ==
  ASSUME GTypeOK, NEW f \in FrameType, inbox' = Append(inbox, f)
  PROVE  \E n \in Nat :
           /\ Len(inbox) = n /\ Len(inbox') = n + 1
           /\ DOMAIN inbox = 1 .. n /\ DOMAIN inbox' = 1 .. n + 1
           /\ inbox'[n + 1] = f
           /\ \A i \in 1 .. n : inbox'[i] = inbox[i]
           /\ inbox' \in Seq(FrameType)
<1>1. inbox \in Seq(FrameType)
  BY DEF GTypeOK, FrameType
<1> HIDE DEF FrameType
<1>2. Len(inbox) \in Nat
  BY <1>1
<1> QED
  BY <1>1, <1>2

LEMMA FrameRead ==
  ASSUME GTypeOK, inbox # <<>>, inbox' = Tail(inbox)
  PROVE  \E n \in Nat :
           /\ Len(inbox) = n + 1 /\ Len(inbox') = n
           /\ DOMAIN inbox = 1 .. n + 1 /\ DOMAIN inbox' = 1 .. n
           /\ Head(inbox) = inbox[1] /\ inbox[1] \in FrameType
           /\ \A i \in 1 .. n : inbox'[i] = inbox[i + 1]
           /\ inbox' \in Seq(FrameType)
<1>1. inbox \in Seq(FrameType)
  BY DEF GTypeOK, FrameType
<1> HIDE DEF FrameType
<1>2. Len(inbox) - 1 \in Nat
  BY <1>1
<1>3. PICK n \in Nat : Len(inbox) = n + 1
  <2>1. Len(inbox) = (Len(inbox) - 1) + 1
    BY <1>1
  <2> QED
    BY <1>2, <2>1
<1> QED
  BY <1>1, <1>3

LEMMA AfterType ==
  ASSUME NEW t \in Seq(Nat), NEW f \in FrameType
  PROVE  After(t, f) \in Seq(Nat)
<1>1. f.n \in Nat
  BY DEF FrameType
<1>2. Append(t, f.n) \in Seq(Nat) /\ <<f.n>> \in Seq(Nat)
  BY <1>1
<1> QED
  BY <1>2 DEF After

(* The collector does with a frame what the gateway means by it.           *)
LEMMA TextSent ==
  ASSUME GTypeOK, TextInv, NEW f \in FrameType, inbox' = Append(inbox, f),
         text' = text, said' = After(said, f),
         said' = said \/ \A i \in DOMAIN inbox : ~IsEnd(i)
  PROVE  TextInv'
<1>1. PICK n \in Nat :
        /\ Len(inbox) = n /\ Len(inbox') = n + 1
        /\ DOMAIN inbox = 1 .. n /\ DOMAIN inbox' = 1 .. n + 1
        /\ inbox'[n + 1] = f
        /\ \A i \in 1 .. n : inbox'[i] = inbox[i]
  BY FrameSent
<1>2. PICK texts \in [0 .. n -> Seq(Nat)] : Collects(texts)
  BY <1>1 DEF TextInv
<1>3. PICK meant \in Seq(Nat) : meant = said'
  BY AfterType DEF GTypeOK
<1> DEFINE more == [i \in 0 .. n + 1 |-> IF i = n + 1 THEN meant ELSE texts[i]]
<1>4. more \in [0 .. n + 1 -> Seq(Nat)]
  BY <1>2, <1>3
<1>5. more[0] = text' /\ more[n + 1] = meant /\ \A i \in 0 .. n : more[i] = texts[i]
  BY <1>1, <1>2 DEF Collects
<1>6. texts[n] = said /\ n \in 0 .. n
  BY <1>1, <1>2 DEF Collects
<1> HIDE DEF more
<1>7. ASSUME NEW i \in 1 .. n + 1 PROVE more[i] = After(more[i - 1], inbox'[i])
  <2>1. CASE i = n + 1
    <3>1. i - 1 = n /\ inbox'[i] = f
      BY <1>1, <2>1
    <3> QED
      BY <1>3, <1>5, <1>6, <2>1, <3>1
  <2>2. CASE i \in 1 .. n
    <3>1. i - 1 \in 0 .. n /\ i \in 0 .. n
      BY <2>2
    <3> QED
      BY <1>1, <1>2, <1>5, <2>2, <3>1 DEF Collects
  <2>3. i = n + 1 \/ i \in 1 .. n
    OBVIOUS
  <2> QED
    BY <2>1, <2>2, <2>3, Zenon
<1>8. ASSUME NEW i \in 1 .. n + 1, IsEnd(i)' PROVE more[i] = said'
  <2>1. CASE i = n + 1
    BY <1>3, <1>5, <2>1
  <2>2. CASE i \in 1 .. n
    <3>1. IsEnd(i) /\ i \in 0 .. n
      BY <1>1, <1>8, <2>2 DEF IsEnd
    <3> QED
      BY <1>1, <1>2, <1>3, <1>5, <2>2, <3>1 DEF Collects
  <2> QED
    BY <2>1, <2>2
<1>9. Collects(more)'
  BY <1>1, <1>3, <1>5, <1>7, <1>8 DEF Collects
<1> QED
  BY <1>1, <1>4, <1>9 DEF TextInv

LEMMA TextRead ==
  ASSUME GTypeOK, TextInv, inbox # <<>>, inbox' = Tail(inbox),
         said' = said, text' = After(text, Head(inbox))
  PROVE  TextInv'
<1>1. PICK n \in Nat :
        /\ Len(inbox) = n + 1 /\ Len(inbox') = n
        /\ DOMAIN inbox = 1 .. n + 1 /\ DOMAIN inbox' = 1 .. n
        /\ Head(inbox) = inbox[1]
        /\ \A i \in 1 .. n : inbox'[i] = inbox[i + 1]
  BY FrameRead
<1>2. PICK texts \in [0 .. n + 1 -> Seq(Nat)] : Collects(texts)
  BY <1>1 DEF TextInv
<1> DEFINE rest == [i \in 0 .. n |-> texts[i + 1]]
<1>3. rest \in [0 .. n -> Seq(Nat)]
  BY <1>2
<1>4. \A i \in 0 .. n : rest[i] = texts[i + 1]
  OBVIOUS
<1> HIDE DEF rest
<1>5. rest[0] = text'
  <2>1. 1 \in 1 .. n + 1 /\ 1 - 1 = 0 /\ 0 \in 0 .. n /\ 0 + 1 = 1
    OBVIOUS
  <2>2. texts[1] = After(texts[1 - 1], inbox[1]) /\ texts[0] = text
    BY <1>1, <1>2, <2>1 DEF Collects
  <2> QED
    BY <1>1, <1>4, <2>1, <2>2
<1>6. rest[n] = said'
  <2>1. n \in 0 .. n
    OBVIOUS
  <2> QED
    BY <1>1, <1>2, <1>4, <2>1 DEF Collects
<1>7. ASSUME NEW i \in 1 .. n
      PROVE  /\ rest[i] = After(rest[i - 1], inbox'[i])
             /\ IsEnd(i)' => rest[i] = said'
  <2>1. /\ i \in 0 .. n /\ i - 1 \in 0 .. n /\ i + 1 \in 1 .. n + 1
        /\ (i - 1) + 1 = i /\ (i + 1) - 1 = i
    OBVIOUS
  <2>2. rest[i] = texts[i + 1] /\ rest[i - 1] = texts[i]
    BY <1>4, <2>1
  <2>3. texts[i + 1] = After(texts[i], inbox[i + 1])
    BY <1>1, <1>2, <2>1 DEF Collects
  <2>4. IsEnd(i)' => IsEnd(i + 1)
    BY <1>1 DEF IsEnd
  <2>5. IsEnd(i + 1) => texts[i + 1] = said
    BY <1>1, <1>2, <2>1 DEF Collects
  <2> QED
    BY <1>1, <2>2, <2>3, <2>4, <2>5
<1> QED
  BY <1>1, <1>3, <1>5, <1>6, <1>7 DEF TextInv, Collects

(* Frames that are no response leave the response where it is.             *)
LEMMA RepliesSent ==
  ASSUME GTypeOK, ReplyInv, NEW f \in FrameType, inbox' = Append(inbox, f),
         f.kind \notin {"ok", "refused"}, run # "none" => run' # "none",
         UNCHANGED <<phase, pending, appended, heard>>
  PROVE  ReplyInv'
<1>1. PICK n \in Nat :
        /\ DOMAIN inbox = 1 .. n /\ DOMAIN inbox' = 1 .. n + 1
        /\ inbox'[n + 1] = f
        /\ \A i \in 1 .. n : inbox'[i] = inbox[i]
  BY FrameSent
<1>2. \A i \in 1 .. n + 1 : i \in 1 .. n \/ i = n + 1
  OBVIOUS
<1>3. ASSUME NEW i \in 1 .. n + 1, IsReply(i)' PROVE i \in 1 .. n /\ IsReply(i)
  BY <1>1, <1>2, <1>3 DEF IsReply
<1>4. ASSUME NEW p \in 1 .. n, Answered(p) PROVE Answered(p)'
  <2>1. p \in 1 .. n + 1 /\ \A i \in 1 .. p - 1 : i \in 1 .. n
    OBVIOUS
  <2>2. IsReply(p)' /\ \A i \in 1 .. n + 1 : IsReply(i)' => i = p
    BY <1>1, <1>3, <1>4 DEF Answered, IsReply
  <2>3. \A i \in 1 .. p - 1 : IsRun(i)' <=> IsRun(i)
    BY <1>1, <2>1 DEF IsRun
  <2>4. inbox'[p] = inbox[p] /\ \A i \in 1 .. p - 1 : inbox'[i] = inbox[i]
    BY <1>1, <2>1
  <2> QED
    BY <1>1, <1>4, <2>2, <2>3, <2>4 DEF Answered
<1>5. \A p \in 1 .. n : p \in 1 .. n + 1
  OBVIOUS
<1> QED
  BY <1>1, <1>3, <1>4, <1>5 DEF ReplyInv

LEMMA RepliesRead ==
  ASSUME GTypeOK, ReplyInv, inbox # <<>>, inbox' = Tail(inbox),
         Head(inbox).kind \notin {"ok", "refused"},
         UNCHANGED <<phase, pending, appended, heard, run>>
  PROVE  ReplyInv'
<1>1. PICK n \in Nat :
        /\ DOMAIN inbox = 1 .. n + 1 /\ DOMAIN inbox' = 1 .. n
        /\ Head(inbox) = inbox[1]
        /\ \A i \in 1 .. n : inbox'[i] = inbox[i + 1]
  BY FrameRead
<1>2. \A i \in 1 .. n : i + 1 \in 1 .. n + 1
  OBVIOUS
<1>3. ASSUME NEW i \in 1 .. n PROVE IsReply(i)' <=> IsReply(i + 1)
  BY <1>1 DEF IsReply
<1>4. ASSUME NEW p \in 1 .. n + 1, Answered(p)
      PROVE  p - 1 \in 1 .. n /\ Answered(p - 1)'
  <2>1. p # 1
    BY <1>1, <1>4 DEF Answered, IsReply
  <2>2. /\ p - 1 \in 1 .. n /\ (p - 1) + 1 = p
        /\ \A i \in 1 .. (p - 1) - 1 : i \in 1 .. n /\ i + 1 \in 1 .. p - 1
    BY <2>1
  <2>3. IsReply(p - 1)'
    BY <1>3, <1>4, <2>2 DEF Answered
  <2>4. ASSUME NEW i \in 1 .. n, IsReply(i)' PROVE i = p - 1
    <3>1. i + 1 = p
      BY <1>1, <1>2, <1>3, <1>4, <2>4 DEF Answered
    <3> QED
      BY <3>1
  <2>5. inbox'[p - 1] = inbox[p]
    BY <1>1, <2>2
  <2>6. \A i \in 1 .. (p - 1) - 1 :
          inbox'[i] = inbox[i + 1] /\ (IsRun(i)' <=> IsRun(i + 1))
    BY <1>1, <2>2 DEF IsRun
  <2>7. Answered(p - 1)'
    BY <1>1, <1>4, <2>2, <2>3, <2>4, <2>5, <2>6 DEF Answered
  <2> QED
    BY <2>2, <2>7
<1> QED
  BY <1>1, <1>2, <1>3, <1>4 DEF ReplyInv

(* Once the response is read there is none.                                *)
LEMMA ReplyTaken ==
  ASSUME GTypeOK, ReplyInv, inbox # <<>>, inbox' = Tail(inbox),
         Head(inbox).kind \in {"ok", "refused"}
  PROVE  /\ pending = "none" /\ Answered(1)
         /\ \A i \in DOMAIN inbox' : ~IsReply(i)'
<1>1. PICK n \in Nat :
        /\ DOMAIN inbox = 1 .. n + 1 /\ DOMAIN inbox' = 1 .. n
        /\ Head(inbox) = inbox[1]
        /\ \A i \in 1 .. n : inbox'[i] = inbox[i + 1]
  BY FrameRead
<1>2. 1 \in 1 .. n + 1 /\ IsReply(1)
  BY <1>1 DEF IsReply
<1>3. pending = "none" /\ phase \in Requests
  BY <1>1, <1>2 DEF ReplyInv
<1>4. PICK p \in 1 .. n + 1 : Answered(p)
  BY <1>1, <1>3 DEF ReplyInv
<1>5. p = 1
  BY <1>1, <1>2, <1>4 DEF Answered
<1>6. ASSUME NEW i \in 1 .. n, IsReply(i)' PROVE FALSE
  <2>1. i + 1 \in 1 .. n + 1 /\ i + 1 # 1
    OBVIOUS
  <2>2. IsReply(i + 1)
    BY <1>1, <1>6 DEF IsReply
  <2> QED
    BY <1>1, <1>4, <1>5, <2>1, <2>2 DEF Answered
<1> QED
  BY <1>1, <1>3, <1>4, <1>5, <1>6

(* What the unread frames say of the run, when one is sent or read.        *)
LEMMA RunSent ==
  ASSUME GTypeOK, FrameRun, NEW f \in FrameType, inbox' = Append(inbox, f),
         call' = call, run = "over" => run' = "over",
         run' = "none" => run = "none" /\ f.kind \notin ChatKinds \union TalkKinds,
         f.kind \in ChatKinds => call = "chat",
         f.kind \in TalkKinds => call = "talk",
         run' = "over" /\ run # "over" <=>
           run # "over" /\ f.kind \in {"final", "aborted", "failed", "closed"}
  PROVE  FrameRun'
<1>1. PICK n \in Nat :
        /\ DOMAIN inbox = 1 .. n /\ DOMAIN inbox' = 1 .. n + 1
        /\ inbox'[n + 1] = f
        /\ \A i \in 1 .. n : inbox'[i] = inbox[i]
  BY FrameSent
<1>2. /\ \A i \in 1 .. n + 1 : i \in 1 .. n \/ i = n + 1
      /\ \A i \in 1 .. n : i \in 1 .. n + 1
      /\ n + 1 \in 1 .. n + 1
  OBVIOUS
<1>3. /\ \A i \in 1 .. n : IsRun(i)' <=> IsRun(i)
      /\ \A i \in 1 .. n : IsEnd(i)' <=> IsEnd(i)
      /\ IsRun(n + 1)' <=> f.kind \in ChatKinds \union TalkKinds
      /\ IsEnd(n + 1)' <=> f.kind \in {"final", "aborted", "failed", "closed"}
  BY <1>1 DEF IsRun, IsEnd
<1>4. run' = "none" => \A i \in 1 .. n + 1 : ~IsRun(i)'
  BY <1>1, <1>2, <1>3 DEF FrameRun
<1>5. \A i \in 1 .. n + 1 :
        /\ inbox'[i].kind \in ChatKinds => call' = "chat"
        /\ inbox'[i].kind \in TalkKinds => call' = "talk"
  BY <1>1, <1>2 DEF FrameRun
<1>6. run' = "over" <=> \E i \in 1 .. n + 1 : IsEnd(i)'
  <2>1. CASE run = "over"
    BY <1>1, <1>2, <1>3, <2>1 DEF FrameRun
  <2>2. CASE run # "over"
    BY <1>1, <1>2, <1>3, <2>2 DEF FrameRun
  <2> QED
    BY <2>1, <2>2
<1> QED
  BY <1>1, <1>4, <1>5, <1>6 DEF FrameRun

LEMMA RunRead ==
  ASSUME GTypeOK, FrameRun, inbox # <<>>, inbox' = Tail(inbox), ~IsEnd(1),
         call' = call, run' = run
  PROVE  /\ FrameRun'
         /\ \A i \in DOMAIN inbox' : i + 1 \in DOMAIN inbox
                                    /\ inbox'[i] = inbox[i + 1]
<1>1. PICK n \in Nat :
        /\ DOMAIN inbox = 1 .. n + 1 /\ DOMAIN inbox' = 1 .. n
        /\ \A i \in 1 .. n : inbox'[i] = inbox[i + 1]
  BY FrameRead
<1>2. /\ \A i \in 1 .. n : i + 1 \in 1 .. n + 1
      /\ \A i \in 1 .. n + 1 : i = 1 \/ (i - 1 \in 1 .. n /\ (i - 1) + 1 = i)
  OBVIOUS
<1>3. /\ \A i \in 1 .. n : IsRun(i)' <=> IsRun(i + 1)
      /\ \A i \in 1 .. n : IsEnd(i)' <=> IsEnd(i + 1)
  BY <1>1 DEF IsRun, IsEnd
<1>4. (\E i \in 1 .. n : IsEnd(i)') <=> (\E i \in 1 .. n + 1 : IsEnd(i))
  BY <1>2, <1>3
<1>5. run' = "none" => \A i \in 1 .. n : ~IsRun(i)'
  BY <1>1, <1>2, <1>3 DEF FrameRun
<1>6. \A i \in 1 .. n :
        /\ inbox'[i].kind \in ChatKinds => call' = "chat"
        /\ inbox'[i].kind \in TalkKinds => call' = "talk"
  BY <1>1, <1>2 DEF FrameRun
<1> QED
  BY <1>1, <1>2, <1>4, <1>5, <1>6 DEF FrameRun

-----------------------------------------------------------------------------
(* Kinds of steps.  A call that ends in an error promises nothing.         *)
LEMMA EndsInError ==
  ASSUME GTypeOK', phase' = "done", result' = "error"
  PROVE  GInv'
BY DEF GInv, PhaseInv, AnswerIsComplete, NoWaitAfterTheEnd

(* A call that goes on has no result yet.                                  *)
LEMMA GoesOn ==
  ASSUME GTypeOK', PhaseInv', OpenInv', phase' # "done"
  PROVE  GInv'
BY DEF GInv, PhaseInv, AnswerIsComplete, NoWaitAfterTheEnd

(* The gateway sends a frame that is no response.                          *)
LEMMA EventSent ==
  ASSUME GInv, NEW f \in FrameType, Send(f), f.kind \notin {"ok", "refused"},
         UNCHANGED <<pending, heard>>, said' = After(said, f), events' \in Nat,
         f.kind \in ChatKinds \union TalkKinds => run \in {"active", "closing"},
         f.kind \in ChatKinds => call = "chat",
         f.kind \in TalkKinds => call = "talk",
         f.kind = "closed" => run = "closing",
         run' = IF f.kind \in {"final", "aborted", "failed", "closed"}
                THEN "over" ELSE run
  PROVE  GInv'
<1>1. /\ phase \notin {"opening", "done"} /\ inbox' = Append(inbox, f)
      /\ UNCHANGED <<call, phase, appended, text, result>>
  BY DEF Send, Connected
<1>2. GTypeOK /\ PhaseInv /\ OpenInv
  BY <1>1 DEF GInv
<1>3. GTypeOK'
  <2>1. inbox' \in Seq(FrameType)
    BY <1>1, <1>2, FrameSent
  <2>2. said' \in Seq(Nat)
    BY <1>2, AfterType DEF GTypeOK
  <2> QED
    BY <1>1, <1>2, <2>1, <2>2 DEF GTypeOK, FrameType
<1>4. PhaseInv'
  BY <1>1, <1>2 DEF PhaseInv
<1>5. ReplyInv'
  BY <1>1, <1>2, RepliesSent DEF OpenInv
<1>6. FrameRun'
  <2>1. /\ run = "over" => run' = "over"
        /\ run' = "none" =>
             run = "none" /\ f.kind \notin ChatKinds \union TalkKinds
        /\ run' = "over" /\ run # "over" <=>
             run # "over" /\ f.kind \in {"final", "aborted", "failed", "closed"}
    BY DEF ChatKinds, TalkKinds
  <2> QED
    BY <1>1, <1>2, <2>1, RunSent DEF OpenInv
<1>7. PhaseRun'
  BY <1>1, <1>2 DEF OpenInv, PhaseRun, ChatKinds, TalkKinds
<1>8. ClosedInv'
  <2>1. PICK n \in Nat :
          /\ DOMAIN inbox = 1 .. n /\ DOMAIN inbox' = 1 .. n + 1
          /\ inbox'[n + 1] = f
          /\ \A i \in 1 .. n : inbox'[i] = inbox[i]
    BY <1>1, <1>2, FrameSent
  <2>2. \A i \in 1 .. n + 1 : i \in 1 .. n \/ i = n + 1
    OBVIOUS
  <2> QED
    BY <1>1, <1>2, <2>1, <2>2 DEF OpenInv, ClosedInv, PhaseRun
<1>9. HeardInv'
  BY <1>1, <1>2 DEF OpenInv, HeardInv
<1>10. TextInv'
  <2>1. said' = said \/ \A i \in DOMAIN inbox : ~IsEnd(i)
    <3>1. CASE f.kind \in ChatKinds \union TalkKinds
      BY <1>2, <3>1 DEF OpenInv, FrameRun
    <3>2. CASE f.kind \notin ChatKinds \union TalkKinds
      BY <3>2 DEF After, ChatKinds, TalkKinds
    <3> QED
      BY <3>1, <3>2
  <2> QED
    BY <1>1, <1>2, <2>1, TextSent DEF OpenInv
<1>11. OpenInv'
  BY <1>1, <1>5, <1>6, <1>7, <1>8, <1>9, <1>10 DEF OpenInv
<1> QED
  BY <1>1, <1>3, <1>4, <1>11, GoesOn

(* The client reads a frame that neither answers it nor ends its run.      *)
LEMMA EventRead ==
  ASSUME GInv, phase # "done", inbox # <<>>, inbox' = Tail(inbox),
         Head(inbox).kind \notin {"ok", "refused"}, ~IsEnd(1),
         text' = After(text, Head(inbox)),
         UNCHANGED <<call, phase, appended, result, pending, gateway>>
  PROVE  GInv'
<1>1. UNCHANGED <<heard, said, run, events>>
  BY DEF gateway
<1>2. GTypeOK /\ PhaseInv /\ OpenInv
  BY DEF GInv
<1>3. GTypeOK'
  <2>1. inbox' \in Seq(FrameType) /\ Head(inbox) \in FrameType
    BY <1>2, FrameRead
  <2>2. text' \in Seq(Nat)
    BY <1>2, <2>1, AfterType DEF GTypeOK
  <2> QED
    BY <1>1, <1>2, <2>1, <2>2 DEF GTypeOK, FrameType
<1>4. PhaseInv'
  BY <1>2 DEF PhaseInv
<1>5. ReplyInv'
  BY <1>1, <1>2, RepliesRead DEF OpenInv
<1>6. /\ FrameRun'
      /\ \A i \in DOMAIN inbox' : i + 1 \in DOMAIN inbox
                                 /\ inbox'[i] = inbox[i + 1]
  BY <1>1, <1>2, RunRead DEF OpenInv
<1>7. PhaseRun' /\ HeardInv'
  BY <1>1, <1>2 DEF OpenInv, PhaseRun, HeardInv
<1>8. ClosedInv'
  BY <1>2, <1>6 DEF OpenInv, ClosedInv
<1>9. TextInv'
  BY <1>1, <1>2, TextRead DEF OpenInv
<1>10. phase \notin {"opening"}
  BY <1>2 DEF OpenInv
<1> QED
  BY <1>2, <1>3, <1>4, <1>5, <1>6, <1>7, <1>8, <1>9, <1>10, GoesOn DEF OpenInv

-----------------------------------------------------------------------------
(* The steps of the gateway.                                               *)
LEMMA FrameTyped ==
  ASSUME NEW kind \in Kinds, NEW n \in Nat
  PROVE  /\ Frame(kind, n) \in FrameType
         /\ Frame(kind, n).kind = kind /\ Frame(kind, n).n = n
BY DEF Frame, FrameType

LEMMA AnswerStep ==
  ASSUME GInv, Answer
  PROVE  GInv'
<1>1. PICK kind \in {"ok", "refused"} :
        /\ Send(Frame(kind, 0))
        /\ run' = IF kind = "ok" THEN RunAfterOk ELSE run
        /\ heard' = IF kind = "ok" /\ pending = "append" THEN heard + 1 ELSE heard
  BY DEF Answer
<1>2. /\ pending # "none" /\ pending' = "none" /\ UNCHANGED <<said, events>>
      /\ phase \notin {"opening", "done"} /\ inbox' = Append(inbox, Frame(kind, 0))
      /\ UNCHANGED <<call, phase, appended, text, result>>
  BY <1>1 DEF Answer, Send, Connected
<1>3. GTypeOK /\ PhaseInv /\ OpenInv
  BY <1>2 DEF GInv
<1> DEFINE f == Frame(kind, 0)
<1>4. f \in FrameType /\ f.kind = kind
  BY FrameTyped DEF Kinds
<1> HIDE DEF f
<1>5. PICK n \in Nat :
        /\ DOMAIN inbox = 1 .. n /\ DOMAIN inbox' = 1 .. n + 1
        /\ inbox'[n + 1] = f
        /\ \A i \in 1 .. n : inbox'[i] = inbox[i]
        /\ inbox' \in Seq(FrameType)
  BY <1>2, <1>3, <1>4, FrameSent DEF f
<1>6. pending = phase /\ phase \in Requests
  BY <1>2, <1>3 DEF OpenInv, ReplyInv, GTypeOK
<1>7. run' \in {run, "active", "closing"} /\ (run' # run => kind = "ok")
  BY <1>1 DEF RunAfterOk
<1>8. GTypeOK'
  <2>1. heard' \in Nat
    BY <1>1, <1>3 DEF GTypeOK
  <2>2. run' \in {"none", "active", "closing", "over"}
    BY <1>3, <1>7 DEF GTypeOK
  <2> QED
    BY <1>2, <1>3, <1>5, <2>1, <2>2 DEF GTypeOK, FrameType
<1>9. PhaseInv'
  BY <1>2, <1>3 DEF PhaseInv
<1>10. \A i \in 1 .. n : ~IsReply(i)
  BY <1>2, <1>3, <1>5 DEF OpenInv, ReplyInv
<1>11. (run' = "over" <=> run = "over") /\ (run # "none" => run' # "none")
  BY <1>1 DEF RunAfterOk
<1>12. /\ \A i \in 1 .. n + 1 : i \in 1 .. n \/ i = n + 1
       /\ \A i \in 1 .. n : i \in 1 .. n + 1
       /\ (n + 1) - 1 = n /\ n + 1 \in 1 .. n + 1
  OBVIOUS
<1>13. Answered(n + 1)'
  <2>1. IsReply(n + 1)'
    BY <1>4, <1>5 DEF IsReply
  <2>2. \A i \in 1 .. n + 1 : IsReply(i)' => i = n + 1
    BY <1>5, <1>10, <1>12 DEF IsReply
  <2>3. ASSUME phase \in {"chat.send", "create"}
        PROVE  /\ \A i \in 1 .. n : ~IsRun(i)'
               /\ kind = "ok" => run' # "none"
    <3>1. run = "none"
      BY <1>3, <1>6, <2>3 DEF OpenInv, PhaseRun
    <3>2. \A i \in 1 .. n : ~IsRun(i)
      BY <1>3, <1>5, <3>1 DEF OpenInv, FrameRun
    <3>3. kind = "ok" => run' = "active"
      BY <1>1, <1>6, <2>3, <3>1 DEF RunAfterOk
    <3> QED
      BY <1>5, <3>2, <3>3 DEF IsRun
  <2>4. phase = "append" /\ kind = "ok" => heard' = appended
    BY <1>1, <1>3, <1>6 DEF OpenInv, HeardInv
  <2>5. phase = "close" => \A i \in 1 .. n : inbox'[i].kind # "closed"
    BY <1>2, <1>3, <1>5 DEF OpenInv, ClosedInv
  <2> QED
    BY <1>2, <1>4, <1>5, <1>12, <2>1, <2>2, <2>3, <2>4, <2>5 DEF Answered
<1>14. ReplyInv'
  BY <1>2, <1>5, <1>6, <1>12, <1>13 DEF ReplyInv
<1>15. PhaseRun'
  BY <1>1, <1>2, <1>3, <1>6, <1>7 DEF OpenInv, PhaseRun, RunAfterOk
<1>16. FrameRun'
  <2>1. ~IsRun(n + 1)' /\ ~IsEnd(n + 1)'
    BY <1>4, <1>5 DEF IsRun, IsEnd, ChatKinds, TalkKinds
  <2>2. \A i \in 1 .. n : (IsRun(i)' <=> IsRun(i)) /\ (IsEnd(i)' <=> IsEnd(i))
    BY <1>5 DEF IsRun, IsEnd
  <2>3. run' = "none" => \A i \in 1 .. n + 1 : ~IsRun(i)'
    BY <1>3, <1>5, <1>11, <1>12, <2>1, <2>2 DEF OpenInv, FrameRun
  <2>4. run' = "over" <=> \E i \in 1 .. n + 1 : IsEnd(i)'
    BY <1>3, <1>5, <1>11, <1>12, <2>1, <2>2 DEF OpenInv, FrameRun
  <2>5. \A i \in 1 .. n + 1 :
          /\ inbox'[i].kind \in ChatKinds => call' = "chat"
          /\ inbox'[i].kind \in TalkKinds => call' = "talk"
    BY <1>2, <1>3, <1>4, <1>5, <1>12
       DEF OpenInv, FrameRun, ChatKinds, TalkKinds
  <2> QED
    BY <1>5, <2>3, <2>4, <2>5 DEF FrameRun
<1>17. ClosedInv'
  BY <1>2, <1>3, <1>4, <1>5, <1>12 DEF OpenInv, ClosedInv
<1>18. HeardInv'
  BY <1>1, <1>2, <1>3, <1>6 DEF OpenInv, HeardInv
<1>19. TextInv'
  <2>1. said' = After(said, f)
    BY <1>2, <1>4 DEF After
  <2> QED
    BY <1>2, <1>3, <1>4, <2>1, TextSent DEF OpenInv, f
<1>20. OpenInv'
  BY <1>2, <1>14, <1>15, <1>16, <1>17, <1>18, <1>19 DEF OpenInv
<1> QED
  BY <1>2, <1>8, <1>9, <1>20, GoesOn

(* An event of the run or the channel, told apart by its kind.             *)
LEMMA SendEventStep ==
  ASSUME GInv, NEW kind \in Kinds, NEW s, NEW r, SendEvent(kind, s, r),
         kind \notin {"ok", "refused"}, s = After(said, Frame(kind, events + 1)),
         kind \in ChatKinds \union TalkKinds => run \in {"active", "closing"},
         kind \in ChatKinds => call = "chat",
         kind \in TalkKinds => call = "talk",
         kind = "closed" => run = "closing",
         r = IF kind \in {"final", "aborted", "failed", "closed"}
             THEN "over" ELSE run
  PROVE  GInv'
<1>1. events + 1 \in Nat
  BY DEF GInv, GTypeOK
<1>2. /\ Send(Frame(kind, events + 1)) /\ events' = events + 1
      /\ said' = s /\ run' = r /\ UNCHANGED <<pending, heard>>
  BY DEF SendEvent
<1> DEFINE f == Frame(kind, events + 1)
<1>3. f \in FrameType /\ f.kind = kind
  BY <1>1, FrameTyped
<1>4. Send(f) /\ said' = After(said, f)
  BY <1>2
<1> HIDE DEF f
<1> QED
  BY <1>1, <1>2, <1>3, <1>4, EventSent

LEMMA SaidAfter ==
  ASSUME NEW kind \in Kinds, NEW n \in Nat
  PROVE  /\ kind \in {"delta", "transcript"} =>
              After(said, Frame(kind, n)) = Append(said, n)
         /\ kind = "refresh" => After(said, Frame(kind, n)) = <<n>>
         /\ kind \notin {"delta", "transcript", "refresh"} =>
              After(said, Frame(kind, n)) = said
BY FrameTyped DEF After

LEMMA ChatEventStep ==
  ASSUME ~EventsOvertake, GInv, ChatEvent
  PROVE  GInv'
<1>1. run = "active" /\ call = "chat"
  BY DEF ChatEvent
<1>2. events + 1 \in Nat
  BY DEF GInv, GTypeOK
<1>3. CASE SendEvent("delta", Append(said, events + 1), "active")
  <2>1. After(said, Frame("delta", events + 1)) = Append(said, events + 1)
    BY <1>2, SaidAfter DEF Kinds, EventKinds
  <2> QED
    BY <1>1, <1>3, <2>1, SendEventStep DEF Kinds, EventKinds, ChatKinds, TalkKinds
<1>4. CASE SendEvent("refresh", <<events + 1>>, "active")
  <2>1. After(said, Frame("refresh", events + 1)) = <<events + 1>>
    BY <1>2, SaidAfter DEF Kinds, EventKinds
  <2> QED
    BY <1>1, <1>4, <2>1, SendEventStep DEF Kinds, EventKinds, ChatKinds, TalkKinds
<1>5. ASSUME NEW kind \in {"final", "aborted"}, SendEvent(kind, said, "over")
      PROVE  GInv'
  <2>1. kind \in Kinds /\ After(said, Frame(kind, events + 1)) = said
    BY <1>2, SaidAfter DEF Kinds, EventKinds
  <2> QED
    BY <1>1, <1>5, <2>1, SendEventStep DEF ChatKinds, TalkKinds
<1> QED
  BY <1>3, <1>4, <1>5 DEF ChatEvent

LEMMA TalkEventStep ==
  ASSUME ~EventsOvertake, GInv, TalkEvent
  PROVE  GInv'
<1>1. run \in {"active", "closing"} /\ call = "talk"
  BY DEF TalkEvent
<1>2. events + 1 \in Nat
  BY DEF GInv, GTypeOK
<1>3. CASE SendEvent("transcript", Append(said, events + 1), run)
  <2>1. After(said, Frame("transcript", events + 1)) = Append(said, events + 1)
    BY <1>2, SaidAfter DEF Kinds, EventKinds
  <2> QED
    BY <1>1, <1>3, <2>1, SendEventStep DEF Kinds, EventKinds, ChatKinds, TalkKinds
<1>4. CASE SendEvent("failed", said, "over")
  <2>1. After(said, Frame("failed", events + 1)) = said
    BY <1>2, SaidAfter DEF Kinds, EventKinds
  <2> QED
    BY <1>1, <1>4, <2>1, SendEventStep DEF Kinds, EventKinds, ChatKinds, TalkKinds
<1>5. CASE run = "closing" /\ SendEvent("closed", said, "over")
  <2>1. After(said, Frame("closed", events + 1)) = said
    BY <1>2, SaidAfter DEF Kinds, EventKinds
  <2> QED
    BY <1>1, <1>5, <2>1, SendEventStep DEF Kinds, EventKinds, ChatKinds, TalkKinds
<1> QED
  BY <1>3, <1>4, <1>5 DEF TalkEvent

LEMMA OtherFrameStep ==
  ASSUME GInv, OtherFrame
  PROVE  GInv'
<1>1. PICK kind \in {"other", "ping", "hangup"} : SendEvent(kind, said, run)
  BY DEF OtherFrame
<1>2. kind \in Kinds
  BY DEF Kinds, EventKinds
<1>3. After(said, Frame(kind, events + 1)) = said
  <2>1. events + 1 \in Nat
    BY DEF GInv, GTypeOK
  <2> QED
    BY <1>2, <2>1, SaidAfter
<1> QED
  BY <1>1, <1>2, <1>3, SendEventStep DEF ChatKinds, TalkKinds

LEMMA TickStep ==
  ASSUME GInv, Tick
  PROVE  GInv'
<1>1. Send(Frame("tick", 0)) /\ UNCHANGED <<pending, heard, said, run, events>>
  BY DEF Tick, gateway
<1> DEFINE f == Frame("tick", 0)
<1>2. f \in FrameType /\ f.kind = "tick"
  BY FrameTyped DEF Kinds, EventKinds
<1>3. Send(f)
  BY <1>1
<1> HIDE DEF f
<1>4. said' = After(said, f)
  BY <1>1, <1>2 DEF After
<1>5. events' \in Nat
  BY <1>1 DEF GInv, GTypeOK
<1> QED
  BY <1>1, <1>2, <1>3, <1>4, <1>5, EventSent DEF ChatKinds, TalkKinds

-----------------------------------------------------------------------------
(* The steps of the client.                                                *)
LEMMA OpenStep ==
  ASSUME GInv, Open
  PROVE  GInv'
<1>1. /\ phase = "opening" /\ UNCHANGED <<call, appended, text, pending>>
      /\ UNCHANGED <<heard, said, run, events>>
  BY DEF Open, WaitFor, Ends, gateway
<1>2. GTypeOK /\ PhaseInv /\ OpenInv /\ inbox = <<>>
  BY <1>1 DEF GInv, OpenInv
<1>3. CASE phase' = "done" /\ result' = "error" /\ UNCHANGED inbox
  <2>1. GTypeOK'
    BY <1>1, <1>2, <1>3 DEF GTypeOK, Phases
  <2> QED
    BY <1>3, <2>1, EndsInError
<1>4. CASE phase' = "challenge" /\ UNCHANGED <<pending, result>>
           /\ inbox' \in {<<>>, <<Frame("challenge", 0)>>}
  <2> DEFINE f == Frame("challenge", 0)
  <2>1. f \in FrameType /\ f.kind = "challenge"
    BY FrameTyped DEF Kinds
  <2>2. inbox' = inbox \/ inbox' = Append(inbox, f)
    BY <1>2, <1>4
  <2>3. \/ inbox' = <<>> /\ DOMAIN inbox' = {}
        \/ inbox' = <<f>> /\ DOMAIN inbox' = {1} /\ inbox'[1] = f
    BY <1>4
  <2> HIDE DEF f
  <2>4. inbox' \in Seq(FrameType)
    <3>1. <<>> \in Seq(FrameType) /\ <<f>> \in Seq(FrameType)
      BY <2>1
    <3> QED
      BY <2>3, <3>1
  <2>5. \A i \in DOMAIN inbox' : inbox'[i].kind = "challenge"
    BY <2>1, <2>3
  <2>6. GTypeOK'
    BY <1>1, <1>2, <1>4, <2>4 DEF GTypeOK, Phases, Reading, FrameType
  <2>7. PhaseInv'
    BY <1>1, <1>2, <1>4 DEF PhaseInv
  <2>8. run = "none" /\ appended = 0 /\ heard = 0 /\ pending = "none"
    BY <1>1, <1>2 DEF OpenInv, PhaseRun, HeardInv, ReplyInv, Requests, GTypeOK
  <2>9. ReplyInv' /\ FrameRun' /\ ClosedInv'
    BY <1>1, <1>4, <2>5, <2>8
       DEF ReplyInv, FrameRun, ClosedInv, IsReply, IsRun, IsEnd, ChatKinds,
           TalkKinds, Requests
  <2>10. PhaseRun' /\ HeardInv'
    BY <1>1, <1>4, <2>8 DEF PhaseRun, HeardInv
  <2>11. TextInv'
    <3>1. CASE inbox' = inbox
      BY <1>1, <1>2, <3>1 DEF OpenInv, TextInv, Collects, IsEnd
    <3>2. CASE inbox' = Append(inbox, f)
      <4>1. After(said, f) = said
        BY <2>1 DEF After
      <4> QED
        BY <1>1, <1>2, <2>1, <3>2, <4>1, TextSent DEF OpenInv
    <3> QED
      BY <2>2, <3>1, <3>2
  <2> QED
    BY <1>4, <2>6, <2>7, <2>9, <2>10, <2>11, GoesOn DEF OpenInv
<1> QED
  BY <1>3, <1>4 DEF Open, WaitFor, Ends

LEMMA ReadChallengeStep ==
  ASSUME GInv, ReadChallenge
  PROVE  GInv'
<1>1. /\ phase = "challenge" /\ phase' = "connect" /\ pending' = "connect"
      /\ inbox # <<>> /\ Head(inbox).kind = "challenge" /\ inbox' = Tail(inbox)
      /\ UNCHANGED <<call, appended, text, result, heard, said, run, events>>
  BY DEF ReadChallenge, Read, Request, gateway
<1>2. GTypeOK /\ PhaseInv /\ OpenInv
  BY <1>1 DEF GInv
<1>3. Head(inbox) = inbox[1] /\ inbox' \in Seq(FrameType)
  BY <1>1, <1>2, FrameRead
<1>4. GTypeOK'
  BY <1>1, <1>2, <1>3 DEF GTypeOK, FrameType, Phases, Reading, Requests
<1>5. PhaseInv'
  BY <1>1, <1>2 DEF PhaseInv
<1>6. /\ FrameRun'
      /\ \A i \in DOMAIN inbox' : i + 1 \in DOMAIN inbox
                                 /\ inbox'[i] = inbox[i + 1]
  <2>1. ~IsEnd(1)
    BY <1>1, <1>3 DEF IsEnd
  <2> QED
    BY <1>1, <1>2, <2>1, RunRead DEF OpenInv
<1>7. ReplyInv'
  <2>1. \A i \in DOMAIN inbox : ~IsReply(i)
    BY <1>1, <1>2 DEF OpenInv, ReplyInv, Requests
  <2> QED
    BY <1>1, <1>6, <2>1 DEF ReplyInv, IsReply
<1>8. ClosedInv'
  BY <1>1, <1>2, <1>6 DEF OpenInv, ClosedInv
<1>9. PhaseRun' /\ HeardInv'
  BY <1>1, <1>2 DEF OpenInv, PhaseRun, HeardInv
<1>10. TextInv'
  <2>1. After(text, Head(inbox)) = text
    BY <1>1 DEF After
  <2> QED
    BY <1>1, <1>2, <2>1, TextRead DEF OpenInv
<1> QED
  BY <1>1, <1>4, <1>5, <1>6, <1>7, <1>8, <1>9, <1>10, GoesOn DEF OpenInv

LEMMA ReadOtherStep ==
  ASSUME GInv, ReadOther
  PROVE  GInv'
<1>1. /\ phase' = "done" /\ result' = "error" /\ inbox # <<>>
      /\ inbox' = Tail(inbox)
      /\ UNCHANGED <<call, appended, text, pending, heard, said, run, events>>
  BY DEF ReadOther, Read, Ends, gateway
<1>2. GTypeOK
  BY DEF GInv
<1>3. inbox' \in Seq(FrameType)
  BY <1>1, <1>2, FrameRead
<1>4. GTypeOK'
  BY <1>1, <1>2, <1>3 DEF GTypeOK, FrameType, Phases
<1> QED
  BY <1>1, <1>4, EndsInError

LEMMA TimeoutStep ==
  ASSUME GInv, Timeout
  PROVE  GInv'
<1>1. /\ phase \in Reading /\ inbox = <<>> /\ phase' = "done"
      /\ result' = "timeout"
      /\ UNCHANGED <<call, appended, text, inbox, pending, heard, said, run, events>>
  BY DEF Timeout, Ends, Late, gateway
<1>2. GTypeOK /\ OpenInv
  BY <1>1 DEF GInv, Reading, Requests, Collecting
<1>3. GTypeOK'
  BY <1>1, <1>2 DEF GTypeOK, Phases
<1>4. run # "over"
  BY <1>1, <1>2 DEF OpenInv, FrameRun
<1> QED
  BY <1>1, <1>3, <1>4
     DEF GInv, PhaseInv, AnswerIsComplete, NoWaitAfterTheEnd

LEMMA ListenStep ==
  ASSUME GInv, Listen
  PROVE  GInv'
<1>1. /\ phase = "listen" /\ inbox # <<>> /\ inbox' = Tail(inbox)
      /\ UNCHANGED <<call, appended, text, pending, heard, said, run, events>>
  BY DEF Listen, Read, WaitFor, ListenEnds, Ends, gateway
<1>2. GTypeOK /\ PhaseInv /\ OpenInv
  BY <1>1 DEF GInv
<1>3. Head(inbox) = inbox[1] /\ inbox' \in Seq(FrameType) /\ 1 \in DOMAIN inbox
  BY <1>1, <1>2, FrameRead
<1>4. CASE /\ Head(inbox).kind \in Skipped /\ phase' = "listen"
           /\ UNCHANGED result
  <2>1. ~IsRun(1)
    BY <1>1, <1>2, <1>3 DEF OpenInv, PhaseRun, FrameRun
  <2>2. ~IsEnd(1) /\ text' = After(text, Head(inbox))
    BY <1>1, <1>3, <2>1 DEF IsRun, IsEnd, After, ChatKinds, TalkKinds
  <2>3. Head(inbox).kind \notin {"ok", "refused"}
    BY <1>4 DEF Skipped, EventKinds
  <2> QED
    BY <1>1, <1>4, <2>2, <2>3, EventRead DEF gateway
<1>5. CASE phase' = "done" /\ result' \in {"ok", "error"}
  <2>1. GTypeOK'
    BY <1>1, <1>2, <1>3, <1>5 DEF GTypeOK, FrameType, Phases
  <2>2. call' = "probe"
    BY <1>1, <1>2 DEF PhaseInv
  <2> QED
    BY <1>5, <2>1, <2>2
       DEF GInv, PhaseInv, AnswerIsComplete, NoWaitAfterTheEnd
<1> QED
  BY <1>1, <1>4, <1>5 DEF Listen, Read, WaitFor, ListenEnds, Ends

LEMMA InterruptStep ==
  ASSUME GInv, Interrupt
  PROVE  GInv'
<1>1. /\ phase = "listen" /\ phase' = "done" /\ result' = "ok"
      /\ UNCHANGED <<call, appended, text, inbox, pending, heard, said, run,
                    events>>
  BY DEF Interrupt, Ends, gateway
<1>2. GTypeOK' /\ call' = "probe"
  BY <1>1 DEF GInv, GTypeOK, PhaseInv, Phases
<1> QED
  BY <1>1, <1>2 DEF GInv, PhaseInv, AnswerIsComplete, NoWaitAfterTheEnd

(* An event, in a phase in which it counts, and in one in which it cannot  *)
(* be one of the run.                                                      *)
LEMMA ReadEventStep ==
  ASSUME GInv, ReadEvent
  PROVE  GInv'
<1> DEFINE f == Head(inbox)
<1>1. /\ phase \in Requests \union Collecting /\ inbox # <<>>
      /\ f.kind \in EventKinds /\ inbox' = Tail(inbox)
      /\ UNCHANGED <<call, appended, pending, heard, said, run, events>>
  BY DEF ReadEvent, Read, WaitFor, Ends, gateway
<1>2. GTypeOK /\ PhaseInv /\ OpenInv /\ phase # "done"
  BY <1>1 DEF GInv, Requests, Collecting
<1>3. PICK n \in Nat :
        /\ Len(inbox) = n + 1 /\ DOMAIN inbox = 1 .. n + 1
        /\ f = inbox[1] /\ f \in FrameType
        /\ inbox' \in Seq(FrameType)
  BY <1>1, <1>2, FrameRead
<1>4. 1 \in 1 .. n + 1 /\ f.kind \notin {"ok", "refused"}
  BY <1>1 DEF EventKinds
<1>5. ~Evaluates => ~IsRun(1)
  <2> SUFFICES ASSUME ~Evaluates, IsRun(1) PROVE FALSE
    OBVIOUS
  <2>1. run # "none"
    BY <1>2, <1>3, <1>4 DEF OpenInv, FrameRun
  <2>2. phase \in {"chat.send", "create"}
    BY <1>1, <1>2, <2>1
       DEF OpenInv, PhaseRun, Evaluates, Collecting, Requests
  <2>3. pending = "none"
    BY <1>2, <2>1, <2>2 DEF OpenInv, PhaseRun, ReplyInv
  <2>4. PICK p \in 1 .. n + 1 : Answered(p)
    BY <1>2, <1>3, <2>2, <2>3 DEF OpenInv, ReplyInv, Requests
  <2>5. p # 1
    BY <1>3, <1>4, <2>4 DEF Answered, IsReply
  <2>6. 1 \in 1 .. p - 1
    BY <2>5
  <2> QED
    BY <2>2, <2>4, <2>6 DEF Answered
<1>6. ASSUME Evaluates, IsEnd(1), Outcome(f) = "none" PROVE FALSE
  <2>1. f.kind \in {"final", "closed"}
    BY <1>3, <1>6 DEF IsEnd, Outcome
  <2>2. CASE f.kind = "final"
    <3>1. call = "chat"
      BY <1>2, <1>3, <1>4, <2>2 DEF OpenInv, FrameRun, ChatKinds
    <3>2. phase = "collect"
      BY <1>2, <1>6, <3>1 DEF Evaluates, Collecting, PhaseInv
    <3> QED
      BY <1>6, <2>2, <3>2 DEF Outcome
  <2>3. CASE f.kind = "closed"
    <3>1. pending = "none" /\ phase \in {"close", "closing"}
      BY <1>2, <1>3, <1>4, <2>3 DEF OpenInv, ClosedInv
    <3>2. phase # "closing"
      BY <1>6, <2>3 DEF Outcome
    <3>3. PICK p \in 1 .. n + 1 : Answered(p)
      BY <1>2, <1>3, <3>1, <3>2 DEF OpenInv, ReplyInv, Requests
    <3>4. p # 1
      BY <1>3, <1>4, <3>3 DEF Answered, IsReply
    <3>5. 1 \in 1 .. p - 1
      BY <3>4
    <3> QED
      BY <1>3, <2>3, <3>1, <3>2, <3>3, <3>5 DEF Answered
  <2> QED
    BY <2>1, <2>2, <2>3
<1>7. Collected(f) = After(text, f)
  BY DEF Collected, After
<1>8. CASE Evaluates /\ Outcome(f) = "none"
  <2>1. text' = After(text, f) /\ phase' = phase /\ result' = result
    BY <1>7, <1>8 DEF ReadEvent, WaitFor
  <2>2. ~IsEnd(1)
    BY <1>6, <1>8
  <2> QED
    BY <1>1, <1>2, <1>4, <2>1, <2>2, EventRead DEF gateway
<1>9. CASE ~Evaluates
  <2>1. text' = text /\ phase' = phase /\ result' = result
    BY <1>9 DEF ReadEvent, WaitFor
  <2>2. ~IsEnd(1) /\ text' = After(text, f)
    BY <1>3, <1>5, <1>9, <2>1 DEF IsRun, IsEnd, After, ChatKinds, TalkKinds
  <2> QED
    BY <1>1, <1>2, <1>4, <2>1, <2>2, EventRead DEF gateway
<1>10. CASE Evaluates /\ Outcome(f) # "none"
  <2>1. phase' = "done" /\ result' = Outcome(f) /\ text' = After(text, f)
    BY <1>7, <1>10 DEF ReadEvent, Ends
  <2>2. result' \in {"ok", "error"}
    BY <1>10, <2>1 DEF Outcome
  <2>3. GTypeOK'
    <3>1. text' \in Seq(Nat)
      BY <1>2, <1>3, <2>1, AfterType DEF GTypeOK
    <3> QED
      BY <1>1, <1>2, <1>3, <2>1, <2>2, <3>1 DEF GTypeOK, FrameType, Phases
  <2>4. CASE result' = "error"
    BY <2>1, <2>3, <2>4, EndsInError
  <2>5. CASE result' = "ok"
    <3>1. <<phase, f.kind>> \in {<<"collect", "final">>, <<"closing", "closed">>}
      BY <2>1, <2>5 DEF Outcome
    <3>2. IsEnd(1)
      BY <1>3, <3>1 DEF IsEnd
    <3>3. run = "over"
      BY <1>2, <1>3, <1>4, <3>2 DEF OpenInv, FrameRun
    <3>4. text' = said
      <4>1. PICK texts \in [0 .. n + 1 -> Seq(Nat)] : Collects(texts)
        BY <1>2, <1>3 DEF OpenInv, TextInv
      <4>2. texts[1] = said /\ texts[1] = After(texts[1 - 1], f) /\ texts[0] = text
        BY <1>3, <1>4, <3>2, <4>1 DEF Collects
      <4> QED
        BY <2>1, <4>2
    <3>5. call = "talk" => heard = Chunks
      BY <1>2, <3>1 DEF OpenInv, HeardInv, PhaseInv
    <3> QED
      BY <1>1, <2>1, <2>3, <2>5, <3>3, <3>4, <3>5
         DEF GInv, PhaseInv, AnswerIsComplete, NoWaitAfterTheEnd
  <2> QED
    BY <2>2, <2>4, <2>5
<1> QED
  BY <1>8, <1>9, <1>10

(* The next chunk, or the end of the session: all that was sent before has *)
(* been accepted, and there is no response in the inbox.                   *)
LEMMA NextAudioStep ==
  ASSUME GInv, phase \in {"convert", "append"}, NextAudio, CountAppended,
         heard = appended, phase = "convert" => pending = "none",
         UNCHANGED <<call, text, heard, said, run, events>>,
         inbox' \in Seq(FrameType), \A i \in DOMAIN inbox' : ~IsReply(i)',
         \A i \in DOMAIN inbox' : inbox'[i].kind # "closed",
         FrameRun', TextInv'
  PROVE  GInv'
<1>1. GTypeOK /\ PhaseInv /\ OpenInv
  BY DEF GInv
<1>2. /\ run # "none" /\ run # "closing" /\ call = "talk" /\ result = "none"
      /\ appended \in Nat /\ appended <= Chunks
  BY <1>1, GatewayAssumption
     DEF OpenInv, PhaseRun, PhaseInv, HeardInv, GTypeOK
<1>3. /\ \/ /\ phase' = "close" /\ pending' = "close" /\ appended >= Chunks
            /\ appended' = appended
         \/ /\ phase' = "append" /\ pending' = "append" /\ ~(appended >= Chunks)
            /\ appended' = appended + 1
      /\ result' = result
  BY DEF NextAudio, AllSent, Request, CountAppended
<1>4. GTypeOK'
  <2>1. appended' \in Nat
    BY <1>2, <1>3
  <2>2. phase' \in Phases /\ pending' \in Requests
    BY <1>3 DEF Phases, Reading, Requests
  <2> QED
    BY <1>1, <1>3, <2>1, <2>2 DEF GTypeOK, FrameType
<1>5. PhaseInv'
  BY <1>2, <1>3 DEF PhaseInv
<1>6. ReplyInv' /\ ClosedInv'
  BY <1>3 DEF ReplyInv, ClosedInv
<1>7. PhaseRun'
  BY <1>2, <1>3 DEF PhaseRun
<1>8. HeardInv'
  <2>1. Chunks \in Nat
    BY GatewayAssumption
  <2>2. CASE phase' = "close"
    BY <1>2, <1>3, <2>1, <2>2 DEF HeardInv
  <2>3. CASE phase' = "append"
    BY <1>2, <1>3, <2>1, <2>3 DEF HeardInv
  <2> QED
    BY <1>3, <2>2, <2>3
<1>9. phase' # "done" /\ phase' # "opening"
  BY <1>3
<1> QED
  BY <1>4, <1>5, <1>6, <1>7, <1>8, <1>9, GoesOn DEF OpenInv

LEMMA ConvertStep ==
  ASSUME GInv, Convert
  PROVE  GInv'
<1>1. /\ phase = "convert" /\ CountAppended
      /\ UNCHANGED <<call, text, inbox, heard, said, run, events>>
  BY DEF Convert, gateway
<1>2. GTypeOK /\ PhaseInv /\ OpenInv
  BY <1>1 DEF GInv
<1>3. CASE NextAudio
  <2>1. heard = appended
    BY <1>1, <1>2 DEF OpenInv, HeardInv
  <2>2. pending = "none" /\ \A i \in DOMAIN inbox : ~IsReply(i)
    BY <1>1, <1>2 DEF OpenInv, ReplyInv, GTypeOK, Requests
  <2>3. \A i \in DOMAIN inbox : inbox[i].kind # "closed"
    BY <1>1, <1>2 DEF OpenInv, ClosedInv
  <2>4. FrameRun' /\ TextInv'
    BY <1>1, <1>2 DEF OpenInv, FrameRun, TextInv, Collects, IsRun, IsEnd
  <2>5. inbox' \in Seq(FrameType) /\ \A i \in DOMAIN inbox' : ~IsReply(i)'
    BY <1>1, <1>2, <2>2 DEF GTypeOK, FrameType, IsReply
  <2> QED
    BY <1>1, <1>3, <2>1, <2>2, <2>3, <2>4, <2>5, NextAudioStep
<1>4. CASE Ends("error")
  <2>1. phase' = "done" /\ result' = "error" /\ pending' = pending
    BY <1>4 DEF Ends
  <2>2. appended' = appended
    BY <1>1, <2>1 DEF CountAppended
  <2>3. GTypeOK'
    BY <1>1, <1>2, <2>1, <2>2 DEF GTypeOK, Phases
  <2> QED
    BY <2>1, <2>3, EndsInError
<1> QED
  BY <1>3, <1>4 DEF Convert

LEMMA ReadResponseStep ==
  ASSUME GInv, ReadResponse
  PROVE  GInv'
<1>1. /\ phase \in Requests /\ inbox # <<>> /\ inbox' = Tail(inbox)
      /\ Head(inbox).kind \in {"ok", "refused"} /\ CountAppended
      /\ UNCHANGED <<call, text, heard, said, run, events>>
  BY DEF ReadResponse, Read, gateway
<1>2. GTypeOK /\ PhaseInv /\ OpenInv
  BY <1>1 DEF GInv, Requests
<1>3. PICK n \in Nat :
        /\ DOMAIN inbox = 1 .. n + 1 /\ Head(inbox) = inbox[1]
        /\ inbox' \in Seq(FrameType)
  BY <1>1, <1>2, FrameRead
<1>4. /\ pending = "none" /\ Answered(1)
      /\ \A i \in DOMAIN inbox' : ~IsReply(i)'
  BY <1>1, <1>2, ReplyTaken DEF OpenInv
<1>5. CASE Ends("error")
  <2>1. phase' = "done" /\ result' = "error" /\ pending' = pending
    BY <1>5 DEF Ends
  <2>2. appended' = appended
    BY <1>1, <2>1 DEF CountAppended
  <2>3. GTypeOK'
    BY <1>1, <1>2, <1>3, <2>1, <2>2 DEF GTypeOK, FrameType, Phases
  <2> QED
    BY <2>1, <2>3, EndsInError
<1>6. CASE Head(inbox).kind = "ok" /\ Proceed
  <2>1. /\ FrameRun'
        /\ \A i \in DOMAIN inbox' : i + 1 \in DOMAIN inbox
                                   /\ inbox'[i] = inbox[i + 1]
    <3>1. ~IsEnd(1)
      BY <1>1, <1>3 DEF IsEnd
    <3> QED
      BY <1>1, <1>2, <3>1, RunRead DEF OpenInv
  <2>2. TextInv'
    <3>1. After(text, Head(inbox)) = text
      BY <1>1 DEF After
    <3> QED
      BY <1>1, <1>2, <3>1, TextRead DEF OpenInv
  <2>3. ASSUME phase # "close"
        PROVE  \A i \in DOMAIN inbox' : inbox'[i].kind # "closed"
    BY <1>1, <1>2, <2>1, <2>3 DEF OpenInv, ClosedInv, Requests
  <2>4. CASE phase = "append"
    <3>1. NextAudio
      BY <1>6, <2>4 DEF Proceed
    <3>2. heard = appended
      BY <1>3, <1>4, <1>6, <2>4 DEF Answered
    <3> QED
      BY <1>1, <1>3, <1>4, <2>1, <2>2, <2>3, <2>4, <3>1, <3>2, NextAudioStep
  <2>5. CASE phase \in {"connect", "subscribe"}
    <3>1. /\ run = "none" /\ appended = 0 /\ heard = 0 /\ result = "none"
      BY <1>2, <2>5 DEF OpenInv, PhaseRun, HeardInv, PhaseInv
    <3>2. call \in {"chat", "talk", "tts", "probe"}
      BY <1>2, GatewayAssumption DEF GTypeOK
    <3>3. /\ result' = result
          /\ \/ /\ phase' = "subscribe" /\ pending' = "subscribe"
                /\ call \in {"chat", "probe"}
             \/ phase' = "create" /\ pending' = "create" /\ call = "talk"
             \/ phase' = "speak" /\ pending' = "speak" /\ call = "tts"
             \/ phase' = "chat.send" /\ pending' = "chat.send" /\ call = "chat"
             \/ phase' = "listen" /\ pending' = pending /\ call = "probe"
      BY <1>2, <1>6, <2>5, <3>2 DEF Proceed, Request, WaitFor, PhaseInv
    <3>4. appended' = appended
      BY <1>1, <3>3 DEF CountAppended
    <3>5. GTypeOK'
      BY <1>1, <1>2, <1>3, <3>3, <3>4
         DEF GTypeOK, FrameType, Phases, Reading, Requests
    <3>6. PhaseInv'
      BY <1>1, <3>1, <3>3 DEF PhaseInv
    <3>7. ReplyInv' /\ ClosedInv'
      BY <1>4, <2>3, <2>5, <3>3 DEF ReplyInv, ClosedInv, Requests
    <3>8. PhaseRun' /\ HeardInv'
      BY <1>1, <1>4, <3>1, <3>3, <3>4 DEF PhaseRun, HeardInv
    <3> QED
      BY <2>1, <2>2, <3>3, <3>5, <3>6, <3>7, <3>8, GoesOn DEF OpenInv
  <2>6. CASE phase \in {"chat.send", "create", "close"}
    <3>1. /\ run # "none" /\ result = "none" /\ (phase = "create" => appended = 0 /\ heard = 0)
          /\ phase = "close" => heard = Chunks
      BY <1>2, <1>3, <1>4, <1>6, <2>6
         DEF OpenInv, PhaseRun, HeardInv, PhaseInv, Answered
    <3>2. /\ result' = result /\ pending' = pending
          /\ \/ phase' = "collect" /\ phase = "chat.send"
             \/ phase' = "convert" /\ phase = "create"
             \/ phase' = "closing" /\ phase = "close"
      BY <1>6, <2>6 DEF Proceed, WaitFor
    <3>3. appended' = appended
      BY <1>1, <3>2 DEF CountAppended
    <3>4. GTypeOK'
      BY <1>1, <1>2, <1>3, <3>2, <3>3
         DEF GTypeOK, FrameType, Phases, Reading, Collecting
    <3>5. PhaseInv'
      BY <1>1, <1>2, <3>1, <3>2 DEF PhaseInv
    <3>6. ReplyInv' /\ ClosedInv'
      BY <1>4, <2>3, <3>2 DEF ReplyInv, ClosedInv, Requests
    <3>7. PhaseRun' /\ HeardInv'
      BY <1>1, <1>2, <1>4, <3>1, <3>2, <3>3
         DEF OpenInv, PhaseRun, HeardInv
    <3> QED
      BY <2>1, <2>2, <3>2, <3>4, <3>5, <3>6, <3>7, GoesOn DEF OpenInv
  <2>7. CASE phase = "speak"
    <3>1. phase' = "done" /\ result' = "ok" /\ pending' = pending
      BY <1>6, <2>7 DEF Proceed, Ends
    <3>2. appended' = appended /\ call' = "tts"
      BY <1>1, <1>2, <2>7, <3>1 DEF CountAppended, PhaseInv
    <3>3. GTypeOK'
      BY <1>1, <1>2, <1>3, <3>1, <3>2 DEF GTypeOK, FrameType, Phases
    <3> QED
      BY <3>1, <3>2, <3>3
         DEF GInv, PhaseInv, AnswerIsComplete, NoWaitAfterTheEnd
  <2> QED
    BY <1>1, <2>4, <2>5, <2>6, <2>7 DEF Requests
<1> QED
  BY <1>5, <1>6 DEF ReadResponse, Read

-----------------------------------------------------------------------------
LEMMA GInitInv == GInit => GInv
<1> SUFFICES ASSUME GInit PROVE GInv
  OBVIOUS
<1>1. /\ call \in Calls /\ phase = "opening" /\ appended = 0 /\ text = <<>>
      /\ result = "none" /\ inbox = <<>> /\ pending = "none" /\ heard = 0
      /\ said = <<>> /\ run = "none" /\ events = 0
      /\ DOMAIN inbox = {} /\ Len(inbox) = 0
  BY DEF GInit
<1>2. <<>> \in Seq(Nat) /\ <<>> \in Seq(FrameType)
  OBVIOUS
<1>3. GTypeOK
  BY <1>1, <1>2 DEF GTypeOK, FrameType, Phases
<1>4. ReplyInv /\ PhaseRun /\ FrameRun /\ ClosedInv /\ HeardInv /\ PhaseInv
  BY <1>1
     DEF ReplyInv, PhaseRun, FrameRun, ClosedInv, HeardInv, PhaseInv, Requests
<1>5. TextInv
  <2> DEFINE none == [i \in 0 .. 0 |-> <<>>]
  <2>1. none \in [0 .. 0 -> Seq(Nat)] /\ none[0] = <<>>
    BY <1>2
  <2> HIDE DEF none
  <2>2. Collects(none)
    BY <1>1, <2>1 DEF Collects
  <2> QED
    BY <1>1, <2>1, <2>2 DEF TextInv
<1> QED
  BY <1>1, <1>3, <1>4, <1>5
     DEF GInv, OpenInv, AnswerIsComplete, NoWaitAfterTheEnd

LEMMA GSame ==
  ASSUME GInv, UNCHANGED gvars
  PROVE  GInv'
<1>1. /\ UNCHANGED <<call, phase, appended, text, result, inbox, pending>>
      /\ UNCHANGED <<heard, said, run, events>>
  BY DEF gvars, gateway
<1>2. GTypeOK' /\ PhaseInv' /\ AnswerIsComplete' /\ NoWaitAfterTheEnd'
  BY <1>1 DEF GInv, GTypeOK, PhaseInv, AnswerIsComplete, NoWaitAfterTheEnd
<1>3. phase # "done" => OpenInv'
  <2> SUFFICES ASSUME phase # "done" PROVE OpenInv'
    OBVIOUS
  <2>1. OpenInv
    BY DEF GInv
  <2>2. \A p : Answered(p) => Answered(p)'
    BY <1>1 DEF Answered, IsReply, IsRun
  <2>3. ReplyInv'
    BY <1>1, <2>1, <2>2 DEF OpenInv, ReplyInv, IsReply
  <2>4. PhaseRun' /\ FrameRun' /\ ClosedInv' /\ HeardInv'
    BY <1>1, <2>1
       DEF OpenInv, PhaseRun, FrameRun, ClosedInv, HeardInv, IsRun, IsEnd
  <2>5. TextInv'
    BY <1>1, <2>1 DEF OpenInv, TextInv, Collects, IsEnd
  <2> QED
    BY <1>1, <2>1, <2>3, <2>4, <2>5 DEF OpenInv
<1> QED
  BY <1>1, <1>2, <1>3 DEF GInv

LEMMA GInductive ==
  ASSUME ~EventsOvertake
  PROVE  GSpec => []GInv
<1>1. GInv /\ [GNext]_gvars => GInv'
  <2> SUFFICES ASSUME GInv, [GNext]_gvars PROVE GInv'
    OBVIOUS
  <2>1. CASE Open \/ Interrupt \/ Finished
    BY <2>1, OpenStep, InterruptStep, GSame DEF Finished
  <2>2. CASE Client
    BY <2>2, ReadChallengeStep, ReadOtherStep, ReadResponseStep, ConvertStep,
       ReadEventStep, TimeoutStep, ListenStep DEF Client
  <2>3. CASE Gateway
    BY <2>3, AnswerStep, ChatEventStep, TalkEventStep, OtherFrameStep, TickStep
       DEF Gateway
  <2>4. CASE UNCHANGED gvars
    BY <2>4, GSame
  <2> QED
    BY <2>1, <2>2, <2>3, <2>4 DEF GNext
<1> QED
  BY <1>1, GInitInv, PTL DEF GSpec

(* What send_chat_message and transcribe_via_gateway return is all the run *)
(* or the session has said, each piece once and in order, and the gateway  *)
(* has accepted every chunk, if no event overtakes a response.             *)
THEOREM AnswerComplete ==
  ASSUME ~EventsOvertake
  PROVE  GSpec => []AnswerIsComplete
<1>1. GInv => AnswerIsComplete
  BY DEF GInv
<1> QED
  BY <1>1, GInductive, PTL

(* No call waits for its timeout when all its requests are answered and    *)
(* the gateway has ended its run, if no event overtakes a response.        *)
THEOREM NoIdleTimeout ==
  ASSUME ~EventsOvertake
  PROVE  GSpec => []NoWaitAfterTheEnd
<1>1. GInv => NoWaitAfterTheEnd
  BY DEF GInv
<1> QED
  BY <1>1, GInductive, PTL

=============================================================================
