------------------------------ MODULE Templates ------------------------------
(***************************************************************************)
(* template.rs and the operators built on it: a text is a sequence of      *)
(* tokens, a placeholder is one token.                                     *)
(***************************************************************************)
EXTENDS Integers, Sequences, SequencesExt

CHANNEL    == "{channel}"
MESSAGE    == "{message}"
TRANSCRIPT == "{transcript}"
OUTPUT     == "{output}"
VOICE      == "{voice}"
SPACE == " "
Placeholders == {CHANNEL, MESSAGE, TRANSCRIPT, OUTPUT, VOICE}

Has(text, token) == \E i \in DOMAIN text : text[i] = token

Within(part, text) ==
    \E i \in 0 .. Len(text) - Len(part) : SubSeq(text, i + 1, i + Len(part)) = part

(* Leading and trailing white space. *)
Trim(text) ==
    LET solid == {i \in DOMAIN text : text[i] # SPACE}
    IN  IF solid = {} THEN <<>>
        ELSE SubSeq(text, Min(solid), Max(solid))

IsBlank(text) == Trim(text) = <<>>

(* Fault: one pass for each placeholder, in the order of the list. *)
ChainedReplace(input, values) ==
    LET pass(text, p) == FlattenSeq([i \in DOMAIN text |->
            IF text[i] = p /\ p \in DOMAIN values THEN values[p] ELSE <<text[i]>>])
    IN  pass(pass(pass(input, MESSAGE), CHANNEL), VOICE)

(* One pass over the input: what has been inserted is not looked at again. *)
substitute(input, values) ==
    FlattenSeq([i \in DOMAIN input |->
        IF input[i] \in DOMAIN values THEN values[input[i]] ELSE <<input[i]>>])

render_message(cfg, transcript) ==
    substitute(cfg.message_template, [p \in {TRANSCRIPT} |-> transcript])

(* What the CLI is called with for a message. *)
Arguments(cfg, message) ==
    [i \in DOMAIN cfg.args |->
        substitute(cfg.args[i], [p \in {CHANNEL, MESSAGE} |->
            IF p = CHANNEL THEN cfg.target_channel ELSE message])]

build_openclaw_args(cfg, transcript) == Arguments(cfg, render_message(cfg, transcript))

build_piper_args(cfg, out_wav) ==
    [i \in DOMAIN cfg.tts_args |->
        substitute(cfg.tts_args[i], [p \in {OUTPUT, VOICE} |->
            IF p = OUTPUT THEN out_wav ELSE cfg.voice])]
=============================================================================
