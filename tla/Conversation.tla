---------------------------- MODULE Conversation ----------------------------
(***************************************************************************)
(* What the service promises to the person in front of it, with no word on *)
(* how: a conversation starts with the wake word, in each turn the backend *)
(* is asked only what was understood, a further turn needs an answer that  *)
(* was spoken, the number of turns is bounded, and the channel may close   *)
(* at any time.  VoiceBridge implements this specification.                *)
(***************************************************************************)
EXTENDS Naturals

CONSTANT MaxFollowupTurns

VARIABLES channel,  \* "closed", "listening" (for the wake word) or "open"
          turns,    \* turns begun since the wake word
          stage     \* how far the present turn has come

cvars == <<channel, turns, stage>>

CInit == channel = "closed" /\ turns = 0 /\ stage = "silent"

Listen ==
  /\ channel = "closed"
  /\ channel' = "listening"
  /\ UNCHANGED <<turns, stage>>

Wake ==
  /\ channel = "listening"
  /\ channel' = "open" /\ turns' = 1 /\ stage' = "silent"

Advance(from, to) ==
  /\ channel = "open" /\ stage = from
  /\ stage' = to
  /\ UNCHANGED <<channel, turns>>

Understand == Advance("silent", "understood")
Ask        == Advance("understood", "asked")
Reply      == Advance("asked", "replied")
Speak      == Advance("replied", "spoken")

FollowUp ==
  /\ channel = "open" /\ stage = "spoken"
  /\ turns <= MaxFollowupTurns
  /\ turns' = turns + 1 /\ stage' = "silent"
  /\ UNCHANGED channel

CloseChannel ==
  /\ channel # "closed"
  /\ channel' = "closed" /\ turns' = 0 /\ stage' = "silent"

CNext == \/ Listen \/ Wake
         \/ Understand \/ Ask \/ Reply \/ Speak
         \/ FollowUp \/ CloseChannel

CSpec == CInit /\ [][CNext]_cvars
=============================================================================
