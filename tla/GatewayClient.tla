---------------------------- MODULE GatewayClient ----------------------------
(***************************************************************************)
(* The calls of src/src/gateway_client.rs, each on a connection of its     *)
(* own: connect_and_handshake, then chat.send with its streamed answer     *)
(* ("chat": send_chat_message), a transcription session ("talk":           *)
(* transcribe_via_gateway), tts.speak ("tts": synthesize_via_gateway) or   *)
(* none that changes anything ("probe": run_read_only_probe).              *)
(* The gateway is external: it answers the one request that is open and    *)
(* sends events of its own accord; frames arrive in the order they were    *)
(* sent.  A piece of text or of audio is its number.                       *)
(***************************************************************************)
EXTENDS Naturals, Sequences

CONSTANTS
  Calls,          \* the calls considered, of "chat", "talk", "tts", "probe"
  Chunks,         \* audio chunks of a recording
  EventsOvertake, \* chat and close events may precede the response
  MaxEvents,      \* bound on the events of a connection, for TLC
  MaxUnread       \* bound on the frames a tick may queue behind, for TLC

ASSUME GatewayAssumption ==
  /\ Calls \subseteq {"chat", "talk", "tts", "probe"}
  /\ Chunks \in Nat /\ MaxEvents \in Nat /\ MaxUnread \in Nat
  /\ EventsOvertake \in BOOLEAN

VARIABLES
  (* client *)
  call,      \* the call made
  phase,     \* what it waits for: the response to a request, or a step
  appended,  \* audio chunks sent
  text,      \* the collector's pieces
  result,    \* "none", "ok", "error" or "timeout"
  (* connection *)
  inbox,     \* frames the client has not read
  (* gateway *)
  pending,   \* the request it has not answered yet, or "none"
  heard,     \* audio chunks accepted
  said,      \* the answer or transcript, as the gateway means it
  run,       \* the run or session: "none", "active", "closing" or "over"
  events     \* number of events sent

gateway == <<heard, said, run, events>>
gvars   == <<call, phase, appended, text, result, inbox, pending, gateway>>

Requests == {"connect", "subscribe", "chat.send", "create", "append", "close",
             "speak"}
Collecting == {"collect", "closing"}
Reading == Requests \union Collecting \union {"challenge"}

Frame(kind, n) == [kind |-> kind, n |-> n]
EventKinds == {"tick", "other", "delta", "refresh", "final", "aborted",
               "transcript", "failed", "closed"}

GInit ==
  /\ call \in Calls /\ phase = "opening" /\ appended = 0
  /\ text = <<>> /\ result = "none"
  /\ inbox = <<>> /\ pending = "none"
  /\ heard = 0 /\ said = <<>> /\ run = "none" /\ events = 0

-----------------------------------------------------------------------------
(* Faults: a refresh is appended, the final state is taken for a status, a *)
(* frame is awaited without timeout, the end of the stream is skipped like *)
(* a ping.                                                                 *)

RefreshAppended(f) ==
  IF f.kind \in {"delta", "refresh", "transcript"}
  THEN Append(text, f.n) ELSE text
FinalIgnored(f) ==
  CASE f.kind \in {"aborted", "failed"} -> "error"
    [] <<phase, f.kind>> = <<"closing", "closed">> -> "ok"
    [] OTHER -> "none"
NeverLate == FALSE
EndSkipped == UNCHANGED <<phase, pending, result>>

-----------------------------------------------------------------------------
(* The client.                                                             *)

Ends(r) == phase' = "done" /\ result' = r /\ UNCHANGED pending

Request(r) == phase' = r /\ pending' = r /\ UNCHANGED result

WaitFor(p) == phase' = p /\ UNCHANGED <<pending, result>>

(* connect_async: the connection is opened, or refused; neither need ever  *)
(* happen, and no timeout is set.  The gateway sends its challenge first,  *)
(* another server need not.                                                *)
Open ==
  /\ phase = "opening"
  /\ \/ WaitFor("challenge") /\ inbox' \in {<<>>, <<Frame("challenge", 0)>>}
     \/ Ends("error") /\ UNCHANGED inbox
  /\ UNCHANGED <<call, appended, text, gateway>>

AllSent == appended >= Chunks

NextAudio == IF AllSent THEN Request("close") ELSE Request("append")

(* What follows the positive response to a request.                        *)
Proceed ==
  CASE phase = "connect" /\ call \in {"chat", "probe"} -> Request("subscribe")
    [] phase = "connect" /\ call = "talk" -> Request("create")
    [] phase = "connect" /\ call = "tts"  -> Request("speak")
    [] phase = "subscribe" /\ call = "chat"  -> Request("chat.send")
    [] phase = "subscribe" /\ call = "probe" -> WaitFor("listen")
    [] phase = "chat.send" -> WaitFor("collect")
    [] phase = "create"    -> WaitFor("convert")
    [] phase = "append"    -> NextAudio
    [] phase = "close"     -> WaitFor("closing")
    [] phase = "speak"     -> Ends("ok")

CountAppended == appended' = IF phase' = "append" THEN appended + 1 ELSE appended

(* read_frame.                                                             *)
Read(kinds) ==
  /\ inbox # <<>> /\ Head(inbox).kind \in kinds
  /\ inbox' = Tail(inbox)

ReadChallenge ==
  /\ phase = "challenge" /\ Read({"challenge"})
  /\ Request("connect")
  /\ UNCHANGED <<call, appended, text, gateway>>

(* What is not a text frame ends the call: a ping as well as a close frame *)
(* or the end of the stream; so does any other event than the challenge.   *)
ReadOther ==
  /\ \/ phase \in Reading /\ Read({"ping", "hangup"})
     \/ phase = "challenge" /\ Read(EventKinds)
  /\ Ends("error")
  /\ UNCHANGED <<call, appended, text, gateway>>

(* A positive response may lack what the call needs: the session, the      *)
(* expected audio format, the audio.                                       *)
ReadResponse ==
  /\ phase \in Requests
  /\ \/ Read({"ok"}) /\ Proceed
     \/ Read({"refused"}) /\ Ends("error")
     \/ Read({"ok"}) /\ phase \in {"create", "speak"} /\ Ends("error")
  /\ CountAppended
  /\ UNCHANGED <<call, text, gateway>>

(* create's response is followed by ffmpeg (convert_to_gateway_mulaw).     *)
Convert ==
  /\ phase = "convert"
  /\ NextAudio \/ Ends("error")
  /\ CountAppended
  /\ UNCHANGED <<call, text, inbox, gateway>>

(* handle_chat_event and handle_talk_event: what an event adds, and how it *)
(* ends the call.  Of another run or session: nothing.                     *)
Collected(f) ==
  CASE f.kind \in {"delta", "transcript"} -> Append(text, f.n)
    [] f.kind = "refresh" -> <<f.n>>
    [] OTHER -> text

Outcome(f) ==
  CASE f.kind \in {"aborted", "failed"} -> "error"
    [] <<phase, f.kind>> \in {<<"collect", "final">>, <<"closing", "closed">>}
         -> "ok"
    [] OTHER -> "none"

(* The events of the run count: always while events are waited for, and    *)
(* for a transcription session also while append or close is.              *)
Evaluates == phase \in Collecting \union {"append", "close"}

ReadEvent ==
  /\ phase \in Requests \union Collecting /\ Read(EventKinds)
  /\ LET f == Head(inbox) IN
       IF Evaluates
       THEN /\ text' = Collected(f)
            /\ IF Outcome(f) = "none" THEN WaitFor(phase) ELSE Ends(Outcome(f))
       ELSE WaitFor(phase) /\ UNCHANGED text
  /\ UNCHANGED <<call, appended, gateway>>

(* timeout_secs have passed since the last frame.                          *)
Late == inbox = <<>>

Timeout ==
  /\ phase \in Reading /\ Late
  /\ Ends("timeout")
  /\ UNCHANGED <<call, appended, text, inbox, gateway>>

(* The probe's loop: whatever is no event is skipped, pings too, and no    *)
(* timeout runs.                                                           *)
Skipped == EventKinds \union {"ping"}

ListenEnds == Ends("ok") \/ Ends("error")

Listen ==
  /\ phase = "listen"
  /\ \/ Read(Skipped) /\ WaitFor("listen")
     \/ Read({"hangup"}) /\ ListenEnds
  /\ UNCHANGED <<call, appended, text, gateway>>

(* Ctrl-C, while the probe waits in select!.                               *)
Interrupt ==
  /\ phase = "listen" /\ inbox = <<>>
  /\ Ends("ok")
  /\ UNCHANGED <<call, appended, text, inbox, gateway>>

Client == \/ ReadChallenge \/ ReadOther \/ ReadResponse \/ Convert
          \/ ReadEvent \/ Timeout \/ Listen

-----------------------------------------------------------------------------
(* The gateway.                                                            *)

Connected ==
  /\ phase \notin {"opening", "done"}
  /\ \A i \in 1 .. Len(inbox) : inbox[i].kind # "hangup"

Send(f) ==
  /\ Connected
  /\ inbox' = Append(inbox, f)
  /\ UNCHANGED <<call, phase, appended, text, result>>

(* Answering chat.send and create starts the run, closing is announced.    *)
RunAfterOk ==
  CASE pending \in {"chat.send", "create"} /\ run = "none" -> "active"
    [] pending = "close" /\ run = "active" -> "closing"
    [] OTHER -> run

Answer ==
  /\ pending # "none"
  /\ \/ /\ Send(Frame("ok", 0))
        /\ run' = RunAfterOk
        /\ heard' = IF pending = "append" THEN heard + 1 ELSE heard
     \/ Send(Frame("refused", 0)) /\ UNCHANGED <<run, heard>>
  /\ pending' = "none"
  /\ UNCHANGED <<said, events>>

(* An event of the run; it changes what is said to s and the run to r.     *)
SendEvent(kind, s, r) ==
  /\ events < MaxEvents
  /\ Send(Frame(kind, events + 1))
  /\ events' = events + 1 /\ said' = s /\ run' = r
  /\ UNCHANGED <<pending, heard>>

(* A chat run; if events overtake, it starts before chat.send is answered. *)
ChatEvent ==
  /\ \/ run = "active" /\ call = "chat"
     \/ EventsOvertake /\ pending = "chat.send" /\ run # "over"
  /\ \/ SendEvent("delta", Append(said, events + 1), "active")
     \/ SendEvent("refresh", <<events + 1>>, "active")
     \/ \E kind \in {"final", "aborted"} : SendEvent(kind, said, "over")

(* A transcription session: transcripts of what was sent, at any time; a   *)
(* provider's failure; and the close event that answers close.             *)
TalkEvent ==
  /\ call = "talk" /\ run \in {"active", "closing"}
  /\ \/ /\ heard > 0 \/ pending = "append"
        /\ SendEvent("transcript", Append(said, events + 1), run)
     \/ SendEvent("failed", said, "over")
     \/ /\ run = "closing" \/ (EventsOvertake /\ pending = "close")
        /\ SendEvent("closed", said, "over")

(* Events of other runs on the channel, pings, the end of the connection.  *)
OtherFrame ==
  \E kind \in {"other", "ping", "hangup"} : SendEvent(kind, said, run)

(* Ticks, without end.                                                     *)
Tick ==
  /\ Len(inbox) < MaxUnread
  /\ Send(Frame("tick", 0))
  /\ UNCHANGED <<pending, gateway>>

Gateway == Answer \/ ChatEvent \/ TalkEvent \/ OtherFrame \/ Tick

Finished == phase = "done" /\ UNCHANGED gvars

GNext == Open \/ Client \/ Interrupt \/ Gateway \/ Finished

GSpec == GInit /\ [][GNext]_gvars

(* The executor runs the call, timers fire; neither the peer's acceptance  *)
(* nor any frame of the gateway is assumed.                                *)
GFairSpec == GSpec /\ WF_gvars(Client)

-----------------------------------------------------------------------------
(* Properties.                                                             *)

(* gateway_client.rs:525-527: what send_chat_message returns is the        *)
(* complete answer the run streamed, what transcribe_via_gateway returns   *)
(* all the transcripts of the session, in order, each once, corrections    *)
(* (replace) applied, nothing of another run in it; the run is over, and   *)
(* the gateway has accepted every chunk of the recording.                  *)
AnswerIsComplete ==
  result = "ok" /\ call \in {"chat", "talk"} =>
    /\ text = said /\ run = "over"
    /\ call = "talk" => heard = Chunks

(* gateway_client.rs:709-713, 742-745: a call whose requests are answered  *)
(* and whose run the gateway has ended does not wait for a further frame   *)
(* until the timeout.                                                      *)
NoWaitAfterTheEnd ==
  result = "timeout" => ~(run = "over" /\ pending = "none")

(* gateway_client.rs:260-262: a call on an open connection comes to an end *)
(* whatever the gateway does or leaves undone, unless it sends frames for  *)
(* ever: timeout_secs bounds the silence, not the call.                    *)
CallEnds ==
  \/ []<><<Tick>>_gvars
  \/ phase \in Reading ~> phase \in {"listen", "done"}

(* When the gateway ends the connection, every call ends with it, the      *)
(* probe too, which has no timeout to fall back on.                        *)
HangupEndsCall ==
  (\E i \in DOMAIN inbox : inbox[i].kind = "hangup") ~> phase = "done"
=============================================================================
