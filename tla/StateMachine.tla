---------------------------- MODULE StateMachine ----------------------------
(***************************************************************************)
(* The table-driven state machine of src/src/state.rs.  The main task      *)
(* keeps one StateMachine for the life of the process; every other         *)
(* component is told by it what may run (the wake-word listener only in    *)
(* ListeningForWakeword, speech output only in Speaking).                  *)
(***************************************************************************)

VARIABLE current    \* StateMachine.current

State == {"Idle", "ListeningForWakeword", "Recording", "Transcribing",
          "SendingToOpenClaw", "Speaking"}

(* Two slips in the table, to show that the properties would notice: the   *)
(* way back into a follow-up round and the way out of Speaking are missing.*)
NoFollowUpRound ==
  [ Idle                 |-> {"ListeningForWakeword"},
    ListeningForWakeword |-> {"Recording", "Idle"},
    Recording            |-> {"Transcribing", "Idle"},
    Transcribing         |-> {"SendingToOpenClaw", "Idle"},
    SendingToOpenClaw    |-> {"Speaking", "Idle"},
    Speaking             |-> {"Idle"} ]

NoWayBack == [NoFollowUpRound EXCEPT !["Speaking"] = {"Recording"}]

AllowedNext ==
  [ Idle                 |-> {"ListeningForWakeword"},
    ListeningForWakeword |-> {"Recording", "Idle"},
    Recording            |-> {"Transcribing", "Idle"},
    Transcribing         |-> {"SendingToOpenClaw", "Idle"},
    SendingToOpenClaw    |-> {"Speaking", "Idle"},
    Speaking             |-> {"Idle", "Recording"} ]

InitialState == current = "Idle"

(* A refused transition returns an error and leaves the state alone.       *)
Transition(to) ==
  current' = IF to \in AllowedNext[current] THEN to ELSE current

=============================================================================
