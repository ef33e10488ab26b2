# Verification of openclaw-voicebridge

TLA+ models of the voice bridge in this repository, the TLC runs that check
them on small instances, and TLAPS proofs of what matters most for every
value of the constants. Source lines are given as in `src/main.rs:86`, meaning
the repository's `src/main.rs`.

## 1. The system

The bridge is one process with one service task (`main.rs`). A cycle waits for
a wake word, records until silence, transcribes, asks the OpenClaw backend,
speaks the answer and, while `max_followup_turns` allows, records the next
question without a new wake word. Everything is sequential in that task; what
runs beside it are the signal handlers, the operating system's audio threads,
the child processes, the gateway, the clock, and other processes of the same
program.

| Component | State | Operations | Interacts with | Hard part |
|---|---|---|---|---|
| Main loop, cycle, round (`main.rs`) | control flow, `shutdown`, `followup_turns`, `last_openclaw_message_at`, temporary directory | one cycle, one round, error and shutdown handling | all others | cancellation at every await point, a step failing half-way |
| State machine (`state.rs`) | `current` | `transition`, `require` | main loop | must follow the control flow on every path |
| Audio capture (`audio.rs`) | ring, `Notify`, `ended`, `dropped_samples` | two callbacks, `recv_into` | device threads, main loop | lost wake-ups, full ring, the stream failing |
| Voice activity (`vad.rs`) | four counters, noise floor | `push_frame` | main loop | boundaries of timeouts that frames need not divide, a threshold that follows the noise |
| Gateway client (`gateway_client.rs`) | per call: phase, collector | handshake, `chat.send`, `talk.session.*`, `tts.speak`, the read-only probe | gateway, ffmpeg, player | events out of order, silent or ticking peers |
| OpenClaw CLI and session reset (`openclaw.rs`) | none | `reset_due`, `maybe_reset_session`, one subprocess per message | backend | the clock is read twice |
| Transcription log (`transcript_log.rs`) | a file | one line per call | main loop | which line on which path, unflushed writes |
| Instance lock (`instance_lock.rs`) | a file, `flock` | `acquire`, release with the process | other processes | PID noted after the lock is held |
| Device identity (`device_identity.rs`) | a file | `load_or_create` | gateway calls, the probe | check, generate and write without a lock |
| Child processes (`child_process.rs`, `wakeword.rs`, `transcribe.rs`, `tts.rs`, `sound.rs`) | process group, pipes | spawn, wait with timeout, kill on drop | listener, ffmpeg, whisper-cli, Piper, players | pipes held open, timeouts, orphans |
| Filter, template, configuration (`transcript_filter.rs`, `template.rs`, `config.rs`) | none | pure functions | main loop | boundaries of validation |

What makes each correct: the main loop never listens while it plays, sends
nothing it has not heard, leaves no audio behind, ends on a signal, and lets
nobody wait in silence; the capture loses no sample unnoticed and never
sleeps through a wake-up; the VAD decides about the recording as a whole what
its comments promise; a gateway call returns the whole answer or an error, in
finite time; at most one instance runs; a pairing once presented is kept; a
call of an external program leaves nothing running, cuts no output off and
ends; the log keeps its order; what the user said reaches the agent as it was
understood, whatever it contains.

## 2. Modules

| Module | Models | Kind |
|---|---|---|
| `StateMachine` | `state.rs` | table and transition, used by `VoiceBridge` |
| `VoiceBridge` | `main.rs` and the outcomes of all it calls | component |
| `Conversation` | what the service promises | abstract specification |
| `ChildProcess` | `child_process.rs` and its callers: `wakeword.rs`, `transcribe.rs`, `openclaw.rs`, `tts.rs`, `sound.rs` | component with external programs |
| `SilenceTracker` | `vad.rs`: counters and decisions | component with reference definitions |
| `NoiseFloor` | `vad.rs`: threshold and noise floor, over `SilenceTracker` | composition |
| `Recording` | `audio.rs` and the loop of `record_until_silence`, over `SilenceTracker` | composition |
| `InstanceLock` | `instance_lock.rs` | component |
| `DeviceIdentity` | `device_identity.rs` | component |
| `Processes`, `MCProcesses` | several processes: `InstanceLock` and `DeviceIdentity` together | composition, symmetry for TLC |
| `GatewayClient` | `gateway_client.rs` with an external gateway | component |
| `TranscriptLog` | `transcript_log.rs` over tokio's file writes | component |
| `Templates`, `TranscriptFilter`, `Configuration` | `template.rs`, `transcript_filter.rs`, `Config::validate` | pure functions |
| `TextPath`, `MCTextPath` | the text of a round: the pure functions, `extract_response` and `TranscriptLog` together | composition, small values for TLC |
| `VoiceBridgeProofs`, `SilenceTrackerProofs`, `NoiseFloorProofs`, `RecordingProofs`, `ProcessesProofs`, `GatewayClientProofs`, `ChildProcessProofs`, `TextPathProofs` | | proofs |

Each module holds, before the definitions they concern, a few operators under
the heading "Faults": what a plausible slip would make of a definition. No
specification uses them; `PROJECT.json` lists which property notices which.

### VoiceBridge

`pc` names the `.await` at which the service task is suspended; the code
between two awaits is one action, because the task yields only there. Where a
function has awaits whose order nothing can observe (the log writes, the file
deletions), they belong to the action around them. `devices` is what the
process has on microphone and speaker, `tmp` the files in the cycle's
directory. `rounds`, `log`, `told` and `resetTried` are history: the first
counts rounds, the others describe the present round only, which keeps the
state space finite without a bound on the run's length. `StepFails` is every
error a phase can return, with any part of the phase's output left behind;
`StepCancelled` is `cancellable()`; `CycleFailed`, `ErrorChimeEnds` and
`RestartDelayOver` are the error branch of `main`. `KilledAndRestarted` is a
SIGKILL and a new start in one step: what the dead process was playing stays
in `orphans`, and its directory with the recordings, which nothing looks for
again, in `leftBehind`, which never becomes FALSE; `tmp` is the directory of
the process that runs. `ListenerGone`: the listener is killed, but what it
started itself may live on as an orphan (`wakeword.rs:40-44`). `NoEcho` and
`NoAudioAtRest` speak of what the service has in its hands and except both.

Data is reduced to what the properties tell apart: a transcript is nothing,
noise (an ignored pattern) or text; a reply is nothing or text; the time since
the last message is never, recent or stale.

Taken to succeed: `cleanup_temp_dir` (the code logs a failure and goes on, so
`NoAudioAtRest` is about everything but a failing `remove_dir_all`) and the
writing of log lines (likewise). Killing a child is taken to be immediate.

`VoiceBridge` and `ChildProcess` overlap on purpose: the first knows only that
a step with an external program succeeds, fails or is cancelled and holds no
device afterwards, the second shows for each such call why.

### ChildProcess

One call of a function that runs external programs, the function chosen with
the first state. `phase` is where the calling task stands (`spawn`, `feed`
Piper's stdin, `wait` = `wait_with_output`; for the listener `scan` its lines,
`reap`, `join` the stderr task). The program and the processes it forks (`kin`
with its streams, `daemon` without) act at any time; pipes are counters with
the capacity `PipeCap`, and a pipe ends only when every process that holds it
is gone. `Return` drops the `Child` and the guards, so every way out of a call
kills what `kill_on_drop` and the process group reach; the listener has no
group. Killing is immediate, and the kill on drop of a group does not meet a
process group number used again.

### SilenceTracker, NoiseFloor and Recording

In `SilenceTracker` a frame is loud or quiet, which covers every noise floor,
since `push_frame` uses the floor only for this comparison. `frames` is the
history the reference definitions (`SpeechMeansARun`, `StopsAfterSilence`)
speak about. `NoiseFloor` adds the energy: three levels, the smoothing factors
as quotients, the threshold before the update as in `vad.rs:81-85`. Energies
are integers and the division rounds down, which stands for the rounding of
`f32`. `Settling` is where the floor goes when one level lasts; with it
`SettlingAssumption` says what `AdaptFrames`, `RecoverFrames` and `Remainder`
stand for.

In `Recording` a sample is its number. The data callback is split at each
access to shared state: `PushSlice`, `CountDropped`, `NotifyTask`; the error
callback into `StreamFails` and `ErrorNotifies`. `permit` is the one permit a
tokio `Notify` stores. `drain_or_wait` is split at each access as well:
`PopSlice`, `RingFoundEmpty`, `CheckEnded`, `Notified`. With `SampleFormat =
"I16"` a buffer passes the scratch buffer piece by piece. That an error or the
drop of the stream ends the callbacks is taken from how cpal is used.

`FrameSamples` is `main.rs:648-650`: truncated to whole samples, at least one.
Ring and buffers hold whole frames of all channels (`RecordingAssumption`).

### InstanceLock, DeviceIdentity and Processes

Processes, respectively callers, with one action per system call. `flock` is
external: exclusive, released with the descriptor. A kill is possible at every
point. `Processes` puts them together: a service opens gateway connections
only while it runs (`MayConnect`), so it holds the lock; a process that ends
takes its call with it. Callers that are no service are runs of
`--probe-gateway`, which take no lock (`main.rs:59-64`). `step` is where a
call of `load_or_create` stands, `file` and `stored` are the file.

### GatewayClient

One call on its own connection. `phase` is the response or event awaited;
frames arrive in the order they were sent; `read_frame`'s timeout may strike
whenever no frame is there. The gateway is external, modelled from how the
client uses it: it answers the open request, sends the run's events, events of
other runs, pings, ticks without end, and may hang up. Transcripts come at any
time; `EventsOvertake` says whether chat and close events may precede the
response of the request they belong to, which the comment at
`gateway_client.rs:279-280` says the protocol does not exclude. Text pieces
are numbers, `said` is the text as the gateway means it, corrections applied.
`Listen` is the loop of the read-only probe, `Interrupt` its Ctrl-C. A
positive response may lack the session, the format or the audio. Trimming,
empty transcripts and the frames' other fields are left out; a `send` that
fails shows as the hang-up that is read next.

### TranscriptLog

`append` as the runtime carries it out: open, the text, the newline, each
`write_all` handing a job to a blocking thread. The second write on a `File`
waits for the first; dropping the `File` waits for nothing. `jobs` are the
writes under way, carried out in any order, `lost` the lines whose text could
not be written, which is also how a kill leaves the line being written.

### Templates, TranscriptFilter, Configuration and TextPath

A text is a sequence of tokens and a placeholder is one token, so a channel, a
transcript or a voice may contain a placeholder's text. Five placeholders,
three letters, blanks, braces and apostrophes are all the functions tell
apart. `Lower` gives each letter one lower-case form (`LowerAssumption`), which
leaves out the dotted capital I: its lower case is two characters, and the
second separates. `TextPath` reads a configuration file, refuses it or goes on, and takes
one transcript and one answer through filter, log, envelope, arguments,
`extract_response` and voice. `NotSent` is what may come between the input line
and the backend: a signal, or a program or connection that cannot be started.
A reset may fail before it is delivered (`Reset`), and on the CLI path be due
without having been so when the marker was decided (`LateReset`). JSON is reduced to whether the output is an
object and which of the known text fields it holds, with their texts.

### Conversation

The abstract specification: listening, understood, asked, replied, spoken, a
further turn only after a spoken answer and within the limit, closing at any
time. `VoiceBridge!Promise` maps await points, transcript and rounds onto it.

## 3. What is checked

Deadlock is checked where the system does not stop by itself or has an
explicit final step (`Terminated`, `Stopped`, `Finished`, `NothingRuns`). The
runs of `ChildProcess`, `TranscriptLog` and `TextPath` stop when the call, the
lines or the round are over and do not check it: there "stuck" is what
`CallEnds` and `NoPipeStall` are about.

Runs that pass:

| Run | Shows | Bounds | States |
|---|---|---|---|
| `VoiceBridge` | `StateFollowsControl`, `NoEcho`, `NothingSentUnheard`, `NoAudioAtRest`, `LogPairsLines`, `NoSilentFailure`, `NoNewWorkAfterShutdown`; that `Conversation` is implemented (`KeepsPromise`); `ShutdownExits`, `ConversationEnds` | gateway pipeline, WebSocket; 2 follow-up turns: the first, a middle and a last round; any number of kills | 83400 |
| `VoiceBridgeDryRun` | `FilesOutliveTheirReaders`, `OnceEnds` for `--dry-run --once` | local pipeline, CLI; one cycle | 265 |
| `NoiseFloor` | `SpeechMeansARun`, `StopsAfterSilence`, `SteadyNoiseIsQuiet`, `SpeakerIsHeard` | every sequence of three levels; the safety net ends it after 9 frames, longer than silence timeout, gap and minimum together; no limit is a multiple of the frame | 25870 |
| `Recording` | `InOrder`, `NoneUnaccounted`, `NoLostWakeup`, `ChannelsAligned`, `ClockFollowsAudio`, `NothingBeyondTheLimit`, `ErrorEndsRecording` | stereo, `MaxSamples` = 10, ring of 4, buffers of 2 and 4, 40 Hz: the ring overflows, a frame of 1.2 samples is truncated, one spans buffers, the limit is reached | 17259 |
| `Processes` | `OneInstance`, `NamesAnInstance`, `PairingKept` | 3 services (symmetric): holder, predecessor, contender; 2 connections each: creates, reads | 13065 |
| `GatewayClient` | `AnswerIsComplete`, `NoWaitAfterTheEnd`, `CallEnds`, `HangupEndsCall` for the three calls and the probe | `MaxEvents` = 4 per connection, 2 chunks, ticks without end (behind at most `MaxUnread` = 1 frame) | 57896 |
| `ChildProcess` | `NothingLeftRunning`, `OutputComplete`, `NoPipeStall`, `CallEnds` for six calls | pipes of 2, 3 units of output per stream: one more than fits; text of 2; every program but the listener may leave kin that never end | 22740 |
| `TextPath` | `ArgumentsReachPrograms`, `LogTellsTheRound`, `FilterIgnoresSpelling`, `SilenceIsJustified`, `TextsInOrder` | 24 configurations, half of them with a mistake, 8 transcripts, 5 outputs, a disk that may fail | 298150 |

The two runs of `VoiceBridge` take the two ends of the configuration: gateway,
WebSocket and kills for the service, local pipeline and CLI for the dry run. The
mixture the configuration also allows, local pipeline over WebSocket, combines
the same branches; the theorems of section 5 cover it.
`ShutdownExits` leaves out a process that is killed first.

All counters but those named are bounded by the program itself. `MaxSamples`,
`MaxCalls`, `MaxEvents`, `MaxUnread`, `MaxOutput` and `MaxLines` are bounds for
TLC only and appear in guards. `AdaptFrames`, `RecoverFrames` and `Remainder`
of `NoiseFloor` are what is claimed for levels and factors: how long the floor
takes to rise from 0 and to fall from a level, and how much of the difference
is left. TLC evaluates the claim; the properties extend it to every history.

Some properties say less than one may read into them. `CallEnds` of
`GatewayClient` excepts a gateway that ticks for ever, because each frame
starts the timeout anew. `NoPipeStall` and `CallEnds` of `ChildProcess` hold
for a text that fits Piper's stdin (`TextLen` <= `PipeCap`); the
divergences below say what happens otherwise. `CallEnds` of the listener begins with its
trigger or its end, since waiting for a wake word has no limit.
`NothingLeftRunning` takes what a program starts to stay in its process group,
and excepts the listener, which has none. `ClockFollowsAudio` and
`NothingBeyondTheLimit` count the audio that was recorded, not what a full ring
dropped. `NamesAnInstance` permits the PID of a former holder. `LogTellsTheRound`
does not say that what stands in quotes behind `[Input]` has been sent.

Runs that end in a violation state what a document, a comment or a test of the
repository says and the code does not do. Each is a finding in `PROJECT.json`
with both quotations:

| Run | The code |
|---|---|
| `ProbeDisturbsPairing` | lets the probe and the service create two identities |
| `AnswerBeforeAck` | drops what is streamed before `chat.send` is acknowledged |
| `ListenerBlocks` | waits, after the wake word, for a process the listener left behind |
| `LogLinesMerge` | lets the text of one log line overtake the newline of the one before |

Three more claims of the documentation are stated as properties that the model
refutes. Their configurations stand beside the runs; TLC finds each within
seconds:

| Configuration | Property | The code | The documentation |
|---|---|---|---|
| `EmptyReplyHasTone.cfg` (`VoiceBridge`) | `EmptyReplyIsToneless` | plays Basso when the question was sent and the answer is empty (`main.rs:423-431`), and the comment there says why; `NoSilentFailure` relies on it | `README.md:489-491`: this case is "derzeit tonlos"; `README.md:474`: Basso means "Der Zyklus ist mit einem Fehler abgebrochen", which this cycle is not |
| `QuotedButNotSent.cfg` (`MCTextPath`) | `QuotedInputIsTransmitted` | writes the quoted line before it sends (`main.rs:388`); a signal or a program that cannot be started then leaves it standing, followed by `[Output] error` | `README.md:553-554`, `transcript_log.rs:8-9`: quoted text is "immer ein erfolgreich übermitteltes Transkript", although the example of `README.md:549-550` shows such a pair |
| `ResetUnmarked.cfg` (`VoiceBridge`) | `ResetIsMarked` | reads the clock twice on the CLI path (`main.rs:571`, `openclaw.rs:162`), so a session may be reset without its marker | `transcript_log.rs:56-59`: the marker shows "ab wo der Kontext der vorherigen Session nicht mehr gilt" |

Further divergences, each seen as a counterexample while the models were
built and kept here in words:

- the error tone plays before any wake word, and again after every restart
  delay, when no temporary directory can be made (`main.rs:110`, against
  `README.md:522`);
- after a SIGKILL the restarted service listens beside its predecessor's
  player, which is in a process group of its own (`tts.rs:82`, against
  `README.md:58-62`); `orphans` in `VoiceBridge` are such children;
- a text longer than a pipe's buffer and a Piper that prints before it has
  read all of it wait for each other, outside any timeout, until a signal
  (`tts.rs:55`, against `README.md:644-646`); and a Piper that dies before it
  has read the text is reported as "Broken pipe" without its stderr;
- the closing tone also plays for recordings that are then not sent (empty or
  ignored transcript; `main.rs:712`, against `README.md:471`);
- a round that fails before there is a transcript leaves no log line
  (`main.rs:345`, against `README.md:539`); a transcript or answer of several
  lines takes several (`transcript_log.rs:18-40`, against the same); the
  failing write of a newline is never reported;
- the [NEW] marker stands below the first input of the new session, and is
  written although the reset may then fail (`main.rs:388`, `main.rs:571-585`,
  against `transcript_log.rs:56-59`);
- a killed process leaves its recordings on disk (`main.rs:724`, against
  `README.md:633`): `leftBehind` in `VoiceBridge`;
- `recv_into` may return false with samples still in the ring, because the
  flag is read after the drain (`audio.rs:74-88`, against `audio.rs:57-59`);
- `README.md:617` speaks of a channel with `try_send` and `dropped_chunks`;
  the code has a ring buffer and `dropped_samples` (`audio.rs:155-195`);
- a refusal may name the PID of the instance before (`instance_lock.rs:74`,
  against `instance_lock.rs:40-41`);
- a close event that precedes the response to `talk.session.close` is dropped
  and the call then times out, its transcript lost (`gateway_client.rs:734`,
  against `gateway_client.rs:709-711`);
- ticks restart the timeout of a gateway call, and opening the connection has
  none (`gateway_client.rs:264`, `:321`, against `:260-262`, `README.md:644-646`).

How likely the orders in `AnswerBeforeAck` and the close event are depends on
the gateway, which is not in this repository.

## 4. Fairness

- `VoiceBridge!Fairness`: the runtime polls a task that can go on, and a timer
  or the kernel ends every wait except the await points in `Unbounded`: the
  wake word, a microphone that delivers nothing, a stuck pipe to a child, the
  opening of a WebSocket. There only the shutdown flag helps, which
  `wait_for_shutdown` polls every 200 ms: hence weak fairness of `Interrupted`.
- `Responsive` adds that whatever is waited for happens or fails; it is the
  premise of `ConversationEnds` and `OnceEnds`, not part of the specification.
- `RFairness`: the loop is scheduled; a callback that has begun ends. Nothing
  is assumed about the device delivering samples.
- `GFairSpec`: the executor and the timers. Nothing is assumed about the
  gateway, nor that a connection is ever opened, nor that the user ever
  presses Ctrl-C.
- `ChildProcess!TaskFair`: the runtime polls the task while it can go on and
  its timer expires. `SystemFair`: a write the program has begun takes place
  once there is room, and processes that are not `Strays` end some day. What a
  program does, and whether it ever exits, is left open. `Cancelled` has no
  fairness.

## 5. What is proved

| Module | Theorems |
|---|---|
| `VoiceBridgeProofs` | `TypeCorrect`, `StateCorrect`, `EchoProtection`, `Heard`, `Bounded`, `Paced`, `NothingAtRest`, `NoNewWork`, `LogsPaired`, `FailuresAudible`, `FilesThere`, `Implements` |
| `NoiseFloorProofs` | `CountersKept`, `SpeechIsARun`, `SilenceStops`, `NoiseBecomesQuiet`, `VoiceIsHeard` |
| `RecordingProofs` | `RingInBounds`, `NeverAsleep`, `AllAccounted`, `OrderKept`, `ClockKept`, `LimitInAudio`, `ChannelsKept`, `SpeechOfRecording`, `RecordingStops` |
| `ProcessesProofs` | `AtMostOneInstance`, `LockNeverStale`, `RefusalNamesAnInstance`, `ProcessesKeepLock`, `OneServiceRuns`, `PairingSurvives` |
| `GatewayClientProofs` | `AnswerComplete`, `NoIdleTimeout` |
| `ChildProcessProofs` | `NothingOutlives`, `OutputIsComplete` |
| `TextPathProofs` | `LogIsInOrder`, `LogIsWritten`, `RoundIsInOrder`, `LogIsTruthful`, `SilenceHasReason`, `ArgumentsReach`, `SpellingIgnored` |

With them every safety property of a passing run is a theorem, the refinement
of `Conversation` included. They hold for every value of the constants the
named assumptions allow: any `MaxFollowupTurns`, either pipeline and transport,
with or without kills; any ring, scratch and buffer sizes, sample rate and
channels; any timeouts, levels and smoothing factors; any number of processes
and connections, events and unread frames; any size of pipes, texts and
outputs; any number of log lines; any set of configurations, transcripts and
answers, of any length and content. `EchoProtection` is about the service's own
devices, not about what a killed predecessor left playing or the listener left
recording; `NothingAtRest` about its own directory, not a killed predecessor's.

Six theorems have a hypothesis of their own:

| Theorem | Hypothesis | Why |
|---|---|---|
| `ClockKept`, `LimitInAudio` | `SampleRate * FrameMs >= 1000` | a frame lasts at least one sample; else the code takes one all the same (`main.rs:650`), and the clock lags behind the audio |
| `ChannelsKept` | `ScratchLen % Channels = 0` | the 1024 samples of scratch hold whole frames of one, two or four channels, not of six |
| `AnswerComplete`, `NoIdleTimeout` | `~EventsOvertake` | the run `AnswerBeforeAck` shows what happens otherwise |
| `PairingSurvives` | `Caller = Process` | no probe; the run `ProbeDisturbsPairing` shows what happens otherwise |

`VoiceBridge`: none of the properties is inductive alone. `IInv` says at each
await point which device is on (`DevicesAt`), how rounds and follow-up turns
relate (`RoundsAt`), what is known of the transcript (`TranscriptAt`) and of
the failure (`FailureAt`); it is preserved action by action. On top of it,
`LogAt` says which lines the round has written at each await point: the two
properties of the log need it. `FilesAt` says which files are on disk where a
step reads them. `Implements` shows that `Init` maps to the initial
state of `Conversation` and that every step, given `IInv` before and after it,
maps to a step of it or leaves it unchanged.

`SilenceTrackerProofs` holds lemmas only. `TrackerInv` says what the counters
know of the frames: `silence` counts the quiet frames at the end, all of them,
and `speech` the loud ones since the last pause that was long enough, or since
the beginning. One more frame keeps that, whoever pushes it, so `NoiseFloor`
and `Recording` share it. `FloorInv` bounds the floor from both sides: after n
frames of one level it lies between a floor that began at 0 and one that began
at some level, since of two floors that hear the same frame the lower stays the
lower (`FollowedOrder`), although rising and falling have different factors.

`Recording`: `NeverAsleep` needs where a permit can be on its way at each
position of the two callbacks; `AllAccounted` is an equation of lengths over
the whole path of a sample. `OrderInv` orders the whole path of a
sample, from the slice in the callback over the ring to the recording;
`ClockInv` relates the tracker's clock to samples and to the rounding of a
frame, and with `LimitInv`, that the loop pushes no frame after the tracker has
decided, gives `LimitInAudio`. `AlignInv` says that every place where samples wait holds whole frames
of all channels.

`InstanceLock`: a process past `TryLock` that is not gone is the holder.
`Processes`: every step is a step of `InstanceLock` or leaves its variables
alone (`ProcessesKeepLock`), so its theorems carry over. In `PairingSurvives` a
call that is under way belongs to a service that runs, which holds the lock, so
there is one call at most; with that, each step of `load_or_create` can be
followed alone: nothing is presented while the file is absent or half-written,
and a file once complete is never opened for writing.

`GatewayClient`: `GInv` says where in the inbox the response of the open
request and the end of the run are, and what the collector will hold after each
frame it has not read: there is a sequence of texts, one per frame, that begins
with what the client has and ends with what the gateway has said. The witness
grows with each event and shrinks with each frame read, so no induction over
the inbox is needed.

`ChildProcess`: `NothingOutlives` needs that what is alive belongs to the
program the call is at or to one whose guard it still holds;
`OutputIsComplete` that for each stream what was written is what was read and
what is in the pipe, which the end of the pipe then empties.

`TextPath`: `LogInv` says that the text of a line is under way only while its
`append` waits for it, so texts cannot overtake one another; newlines are under
way without an owner, which is what `LogLinesMerge` shows. `PathInv` ties each
text of the round to the one it came from and to the lines of the log.
`ArgumentsReach` rests on what `validate` accepts and on lemmas about texts: a
token that `substitute` replaces leaves the replacement in one piece wherever
it stands (`Substituted`, `WithinFlattened`). `SpellingIgnored` rests on what
`normalize` has read after each token, compared between two spellings: the same
after the same letters (`ApostropheIgnored`, `CapitalsIgnored`), and after a
space the same up to a gap that nothing shows (`TakenAlike`). It assumes
`LowerAssumption`; everything in the module assumes `TextAssumption`, that what
is configured, transcribed and answered are texts.

Where a recursive function is read token by token or frame by frame, induction
is by the least number for which the claim fails (`ByInduction`,
`SettlingStep`), stated of a set of numbers, because a theorem that takes an
operator cannot be instantiated. Proving `TakenType` showed that two arms of
the `CASE` in `Taken` overlapped for placeholders; they are now disjoint, as
the branches of the code are.

Proved and in no run's list of properties, because a run would add nothing:
`TypeOK`, `ChannelBounded` and `RestartsArePaced` of `VoiceBridge`, `RTypeOK`
of `Recording`, `NeverStale` of `InstanceLock`,
`TextIsThere` of `TranscriptLog`, and the inductive invariants themselves.

Only model-checked: liveness, since fairness and ENABLED are out of the
prover's reach: `ShutdownExits`, `ConversationEnds`, `OnceEnds`,
`ErrorEndsRecording`, `NoPipeStall`, and `CallEnds` and `HangupEndsCall` of the
calls. And, of course, what the runs and configurations with a violation show.

## 6. Plan

Done, in this order: `StateMachine`, `VoiceBridge`, `Conversation` and their
proofs; `SilenceTracker`, `Recording` and proofs; `InstanceLock` and proofs;
`DeviceIdentity`; `GatewayClient`; then `ChildProcess` and proofs,
`TranscriptLog` and proofs, `NoiseFloor`, the pure functions and `TextPath`,
`Processes` and proofs, the probe.

After that the proofs of all safety properties that were only model-checked:
the recording's order, clock and channels, the tracker and the noise floor, the
gateway's answers, the files of a round, and the texts.

Next, most important first:

1. Composition: `GatewayClient` as the implementation of `BackendAnswers` and
   of the transcription step of `VoiceBridge`; `ChildProcess` as that of the
   steps with a program. Each is a refinement with a theorem of its own.
2. Abstract specifications of the log and of the recording (a sequence of
   lines, of samples with gaps), implemented by `TranscriptLog` and `Recording`.

## 7. Not modelled

Reading the TOML file, its defaults and the command line (parsing without
state; every check of `validate` is modelled); logging and message texts;
cryptography, base64 and frame formats; device selection and the WAV format;
the arithmetic of `f32`; overflow of `max_recording_seconds * 1000`
(`vad.rs:42`) and values `validate` does not refuse, such as smoothing factors
above 1 or a `timeout_secs` of 0; a process group number that is used again
between the end of a program and the drop of its guard (`child_process.rs:44`);
a Ctrl-C that arrives while the probe logs a frame (`gateway_client.rs:448`);
the removal of the lock file by a cleaner of the temp directory; the tests and
the build workflows. The `note` of each component in `PROJECT.json` says what
of a partly modelled component is missing.
