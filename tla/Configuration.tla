---------------------------- MODULE Configuration ----------------------------
(***************************************************************************)
(* Config::validate of config.rs: the configurations main goes on with.    *)
(***************************************************************************)
EXTENDS Naturals, Templates

AnyHas(texts, token) == \E i \in DOMAIN texts : Has(texts[i], token)

ChannelReachesAgent(cfg) == /\ ~IsBlank(cfg.target_channel)
                            /\ AnyHas(cfg.args, CHANNEL)

TextReachesAgent(cfg) == /\ AnyHas(cfg.args, MESSAGE)
                         /\ Has(cfg.message_template, TRANSCRIPT)

PiperHasOutput(cfg) == AnyHas(cfg.tts_args, OUTPUT)

(* A dry run and the probe never transcribe. *)
CanTranscribe(cfg, dry_run) ==
    dry_run \/ cfg.audio_pipeline # "local" \/ cfg.model_exists

(* An empty pattern is part of every line, and a frame of no length never   *)
(* lets a recording's clock run out.                                       *)
CanListen(cfg) == /\ cfg.trigger_pattern # <<>>
                  /\ cfg.frame_ms # 0

ResetHasText(cfg) ==
    cfg.session_reset_after_secs > 0 => ~IsBlank(cfg.session_reset_message)

GatewayReachable(cfg) ==
    /\ cfg.transport = "websocket" =>
          ~IsBlank(cfg.gateway_host) /\ cfg.gateway_port # 0
    /\ cfg.audio_pipeline = "gateway" => cfg.transport = "websocket"

validate(cfg, dry_run) ==
    /\ ChannelReachesAgent(cfg)
    /\ TextReachesAgent(cfg)
    /\ PiperHasOutput(cfg)
    /\ CanTranscribe(cfg, dry_run)
    /\ CanListen(cfg)
    /\ ResetHasText(cfg)
    /\ GatewayReachable(cfg)
=============================================================================
