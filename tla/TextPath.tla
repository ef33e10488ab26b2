------------------------------ MODULE TextPath ------------------------------
(***************************************************************************)
(* The way of the text through one round (run_round, send_to_backend):     *)
(* from the configuration that was accepted over the transcript, the       *)
(* filter, the envelope and the argument list to the agent, and from its   *)
(* output to the voice, with the lines written to the log on the way.      *)
(***************************************************************************)
EXTENDS TranscriptLog, TranscriptFilter, Configuration, FiniteSets

CONSTANTS Configs,      \* configuration files
          Transcripts,  \* what Whisper may understand
          Outputs       \* what the CLI may print

Wording == Seq(STRING)  \* texts, as sequences of tokens

ASSUME TextAssumption ==
    /\ \A c \in Configs :
        /\ {c.target_channel, c.message_template, c.voice, c.session_reset_message}
              \subseteq Wording
        /\ {c.args, c.tts_args} \subseteq Seq(Wording)
    /\ Transcripts \subseteq Wording
    /\ \A out \in Outputs :
        /\ out.object \in BOOLEAN /\ out.raw \in Wording
        /\ \A f \in DOMAIN out.fields : out.fields[f] \in Wording

VARIABLES cfg,        \* the configuration
          step,       \* where the round stands
          heard,      \* the transcript, as transcribed
          transcript, \* ... as passed on
          sent,       \* texts the backend was called with for the transcript
          reset,      \* ... for the session reset
          stdout,     \* what the backend answered
          response,   \* what is taken for the answer
          spoken      \* what is spoken

roundVars == <<cfg, step, heard, transcript, sent, reset, stdout, response, spoken>>
pathVars  == <<roundVars, logVars>>

Silence == <<>>
NoOutput == [object |-> FALSE, raw |-> <<>>, fields |-> <<>>]

PathInit == /\ LogInit
            /\ cfg \in Configs
            /\ step = "start"
            /\ heard = <<>> /\ transcript = <<>>
            /\ sent = <<>> /\ reset = <<>>
            /\ stdout = NoOutput /\ response = Silence /\ spoken = Silence

Entry(kind, text) == [kind |-> kind, text |-> text]

(* Awaiting the log: nothing of the round happens while a line is written. *)
LogIsThrough == at = "idle"

Start == /\ step = "start"
         /\ step' = IF validate(cfg, FALSE) THEN "transcribe" ELSE "refused"
         /\ UNCHANGED <<cfg, heard, transcript, sent, reset, stdout, response,
                        spoken, logVars>>

(* Whisper's text is trimmed; where no speech was found it is empty. *)
Transcribe == /\ step = "transcribe"
              /\ \E text \in Transcripts : heard' = Trim(text)
              /\ step' = "filter"
              /\ UNCHANGED <<cfg, transcript, sent, reset, stdout, response,
                             spoken, logVars>>

Ignored == matching_pattern(cfg.ignored_patterns, heard)

(* Faults: the line does not tell that the transcript was ignored, the     *)
(* field that is known best is looked at last.                             *)
IgnoredUntold == IF IsBlank(heard) THEN Entry("input skipped", <<>>)
                 ELSE Entry("input", Trim(heard))
LastKnown(fields) == Max(fields)

InputLine == IF Ignored THEN Entry("input ignored", Trim(heard))
             ELSE IF IsBlank(heard) THEN Entry("input skipped", <<>>)
             ELSE Entry("input", Trim(heard))

Filter == /\ step = "filter"
          /\ transcript' = IF Ignored THEN <<>> ELSE heard
          /\ Log(InputLine)
          /\ step' = "send"
          /\ UNCHANGED <<cfg, heard, sent, reset, stdout, response, spoken>>

SkipSending == /\ step = "send" /\ LogIsThrough /\ IsBlank(transcript)
               /\ response' = Silence
               /\ step' = "speak"
               /\ UNCHANGED <<cfg, heard, transcript, sent, reset, stdout,
                              spoken, logVars>>

(* What reaches the backend: the CLI's arguments, or the session's key and  *)
(* the message in a request of chat.send.                                  *)
Delivered(message) == IF cfg.transport = "cli" THEN Arguments(cfg, message)
                      ELSE <<cfg.target_channel, message>>

(* Whether a reset is due depends on the time; its marker is two lines. *)
ResetEnabled == cfg.session_reset_after_secs > 0

ResetMarker == /\ step = "send" /\ LogIsThrough /\ ~IsBlank(transcript)
               /\ ResetEnabled
               /\ Log(Entry("blank", <<>>))
               /\ step' = "marker"
               /\ UNCHANGED <<cfg, heard, transcript, sent, reset, stdout,
                              response, spoken>>

(* A reset that fails or is cancelled may not have been delivered.         *)
Reset == /\ step = "marker"
         /\ Log(Entry("new", <<>>))
         /\ reset' \in {<<>>, Delivered(cfg.session_reset_message)}
         /\ step' = "message"
         /\ UNCHANGED <<cfg, heard, transcript, sent, stdout, response, spoken>>

(* The CLI path asks the clock again: a reset may be due only then.        *)
LateReset == /\ step = "send" /\ LogIsThrough /\ ~IsBlank(transcript)
             /\ ResetEnabled /\ cfg.transport = "cli"
             /\ reset' = Delivered(cfg.session_reset_message)
             /\ step' = "message"
             /\ UNCHANGED <<cfg, heard, transcript, sent, stdout, response,
                            spoken, logVars>>

AtSending == step \in {"send", "message"} /\ LogIsThrough /\ ~IsBlank(transcript)

Send == /\ AtSending
        /\ sent' = Delivered(render_message(cfg, transcript))
        /\ step' = "answer"
        /\ UNCHANGED <<cfg, heard, transcript, reset, stdout, response, spoken,
                       logVars>>

(* A signal, or a program or connection that cannot be started: nothing is  *)
(* delivered, although the input line stands in the log.                   *)
NotSent == /\ AtSending
           /\ Log(Entry("output error", <<>>))
           /\ step' = "failed"
           /\ UNCHANGED <<cfg, heard, transcript, sent, reset, stdout,
                          response, spoken>>

(* The known places of an answer, in the order they are looked at. *)
Fields == <<"payload", "reply", "text", "message", "content">>
TextFields(out) == {i \in DOMAIN Fields : Fields[i] \in DOMAIN out.fields}

BestKnown(fields) == Min(fields)

UnknownForm(out) == Trim(out.raw)

extract_response(out) ==
    IF ~out.object THEN Trim(out.raw)
    ELSE IF TextFields(out) = {} THEN UnknownForm(out)
    ELSE Trim(out.fields[Fields[BestKnown(TextFields(out))]])

Answer == /\ step = "answer"
          /\ stdout' \in Outputs
          /\ response' = IF cfg.transport = "cli" THEN extract_response(stdout')
                         ELSE Trim(stdout'.raw)
          /\ step' = "speak"
          /\ UNCHANGED <<cfg, heard, transcript, sent, reset, spoken, logVars>>

SendingFails == /\ step = "answer"
                /\ Log(Entry("output error", <<>>))
                /\ step' = "failed"
                /\ UNCHANGED <<cfg, heard, transcript, sent, reset, stdout,
                               response, spoken>>

NoReply == /\ step = "speak" /\ IsBlank(response)
           /\ Log(Entry("output skipped", <<>>))
           /\ step' = "closed"
           /\ UNCHANGED <<cfg, heard, transcript, sent, reset, stdout,
                          response, spoken>>

Speak == /\ step = "speak" /\ ~IsBlank(response)
         /\ \/ /\ spoken' = response /\ step' = "answered"
               /\ Log(Entry("output", Trim(response)))
            \/ /\ step' = "failed" /\ UNCHANGED spoken
               /\ Log(Entry("output error", <<>>))
         /\ UNCHANGED <<cfg, heard, transcript, sent, reset, stdout, response>>

Write == Writing /\ UNCHANGED roundVars

PathNext == \/ Start \/ Transcribe \/ Filter \/ SkipSending
            \/ ResetMarker \/ Reset \/ LateReset
            \/ Send \/ NotSent \/ Answer \/ SendingFails
            \/ NoReply \/ Speak \/ Write

PathSpec == PathInit /\ [][PathNext]_pathVars

-----------------------------------------------------------------------------
Some(texts, part) == \E i \in DOMAIN texts : Within(part, texts[i])

OutWav == <<"out.wav">>

(* With every configuration that is accepted, what the user said reaches    *)
(* the agent unchanged, on the configured channel; so does the reset       *)
(* message; and Piper learns where to write.  Placeholders in the channel, *)
(* the transcript or the voice are text (template.rs:5-11).                *)
ArgumentsReachPrograms ==
    /\ sent # <<>> => Some(sent, transcript) /\ Some(sent, cfg.target_channel)
    /\ reset # <<>> => /\ ~IsBlank(cfg.session_reset_message)
                       /\ Some(reset, cfg.session_reset_message)
                       /\ Some(reset, cfg.target_channel)
    /\ spoken # Silence => Some(build_piper_args(cfg, OutWav), OutWav)

Logged(kinds) == {n \in 1 .. Line : lines[n].kind \in kinds}
Over == step \in {"closed", "answered", "failed"}

(* The log of a round tells what became of its text: one input line, in     *)
(* quotes exactly when the text was to be sent, and whatever was sent      *)
(* stands there; and one output line, in quotes exactly when that text was *)
(* spoken, in answer to what was sent.                                     *)
LogTellsTheRound ==
    Over => /\ Cardinality(Logged({"input", "input ignored", "input skipped"})) = 1
            /\ Cardinality(Logged({"output", "output skipped", "output error"})) = 1
            /\ Logged({"input"}) # {} <=> ~IsBlank(transcript)
            /\ \A n \in Logged({"input"}) : lines[n].text = Trim(transcript)
            /\ sent # <<>> => Logged({"input"}) # {}
            /\ Logged({"output"}) # {} <=> spoken # Silence
            /\ \A n \in Logged({"output"}) : lines[n].text = Trim(spoken) /\ sent # <<>>

(* "Text in quotes is always a successfully transmitted transcript"         *)
(* (README.md:553-554, transcript_log.rs:8-9).  The code writes the line   *)
(* before it sends: QuotedButNotSent.cfg.                                  *)
QuotedInputIsTransmitted == Over /\ Logged({"input"}) # {} => sent # <<>>

Respelled(text) ==
    {SubSeq(text, 1, i) \o <<APOSTROPHE>> \o SubSeq(text, i + 1, Len(text)) : i \in 0 .. Len(text)}
    \cup {[i \in DOMAIN text |-> IF text[i] = c THEN Lower[c] ELSE text[i]] :
             c \in Letters \ Placeholders}
    \cup {<<SPACE>> \o text \o <<SPACE>>}

(* Whether a transcript is ignored does not depend on how it is spelled:    *)
(* on apostrophes, capitals and surrounding punctuation.                   *)
FilterIgnoresSpelling ==
    step = "filter" => \A text \in Respelled(heard) :
        matching_pattern(cfg.ignored_patterns, text) <=> Ignored

(* A round with an answer ends in silence only if the backend said nothing  *)
(* or the CLI's best known text field is blank: a text is not passed over  *)
(* for a blank one, and an answer of unknown form is heard rather than     *)
(* lost (openclaw.rs:75-79).                                               *)
SilenceIsJustified ==
    step = "closed" /\ sent # <<>> =>
        \/ IsBlank(stdout.raw)
        \/ /\ cfg.transport = "cli" /\ stdout.object
           /\ \E i \in TextFields(stdout) : /\ IsBlank(stdout.fields[Fields[i]])
                                            /\ \A j \in TextFields(stdout) : i <= j
=============================================================================
