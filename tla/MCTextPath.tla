----------------------------- MODULE MCTextPath -----------------------------
(* Small configurations, transcripts and answers for TextPath. *)
EXTENDS TextPath

LowerCase == [a |-> "a", b |-> "b", A |-> "a"]
             @@ CHANNEL :> "channel" @@ MESSAGE :> "message"
             @@ TRANSCRIPT :> "transcript" @@ OUTPUT :> "output" @@ VOICE :> "voice"

Usual == [target_channel |-> <<"c">>,
          args |-> <<<<"--channel">>, <<CHANNEL>>, <<"--message">>, <<MESSAGE>>>>,
          message_template |-> <<TRANSCRIPT>>,
          tts_args |-> <<<<VOICE>>, <<OUTPUT>>>>,
          voice |-> <<"v">>,
          model_exists |-> TRUE,
          trigger_pattern |-> <<"t">>,
          frame_ms |-> 30,
          session_reset_after_secs |-> 0,
          session_reset_message |-> <<"n">>,
          transport |-> "cli", audio_pipeline |-> "local",
          gateway_host |-> <<"h">>, gateway_port |-> 1,
          ignored_patterns |-> {<<"a", " ", "b">>}]

(* Placeholders where they are text, an envelope, one argument for both. *)
Unusual == {[Usual EXCEPT !.target_channel = <<"c", MESSAGE>>],
            [Usual EXCEPT !.message_template = <<CHANNEL, TRANSCRIPT, "c", TRANSCRIPT>>],
            [Usual EXCEPT !.args = <<<<CHANNEL, "=", MESSAGE>>>>],
            [Usual EXCEPT !.voice = <<OUTPUT>>],
            [Usual EXCEPT !.session_reset_after_secs = 1,
                          !.session_reset_message = <<"/", MESSAGE>>]}

Gateways == {[Usual EXCEPT !.transport = "websocket"],
             [Usual EXCEPT !.transport = "websocket", !.audio_pipeline = "gateway",
                           !.model_exists = FALSE, !.session_reset_after_secs = 1]}

Patterns == {[Usual EXCEPT !.ignored_patterns = p] :
                p \in {{}, {<<" ", "'">>}, {<<"b", "A">>}, {<<"b">>, <<"{", "channel", "}">>}}}

Mistakes == {[Usual EXCEPT !.target_channel = <<" ">>],
             [Usual EXCEPT !.args = <<<<MESSAGE>>>>],
             [Usual EXCEPT !.args = <<<<CHANNEL>>>>],
             [Usual EXCEPT !.message_template = <<"a">>],
             [Usual EXCEPT !.tts_args = <<<<VOICE>>>>, !.voice = <<OUTPUT>>],
             [Usual EXCEPT !.model_exists = FALSE],
             [Usual EXCEPT !.trigger_pattern = <<>>],
             [Usual EXCEPT !.frame_ms = 0],
             [Usual EXCEPT !.session_reset_after_secs = 1, !.session_reset_message = <<" ">>],
             [Usual EXCEPT !.transport = "websocket", !.gateway_host = <<>>],
             [Usual EXCEPT !.transport = "websocket", !.gateway_port = 0],
             [Usual EXCEPT !.audio_pipeline = "gateway"]}

Files == {Usual} \cup Unusual \cup Gateways \cup Patterns \cup Mistakes

Understood == {<<>>, <<" ">>, <<"b">>, <<"A", " ", "b">>, <<"a", "'", "b">>,
               <<"b", "a", " ", "b">>, <<" ", CHANNEL, "b">>, <<MESSAGE, TRANSCRIPT>>}

Json(fields) == [object |-> TRUE, raw |-> <<"json">>, fields |-> fields]

Printed == {NoOutput,
            [object |-> FALSE, raw |-> <<" ", "y">>, fields |-> <<>>],
            Json([reply |-> <<"y">>, content |-> <<" ">>]),
            Json([payload |-> <<" ">>, text |-> <<"y">>]),
            Json([other |-> <<"y">>])}
=============================================================================
