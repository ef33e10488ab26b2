---------------------------- MODULE ChildProcess ----------------------------
(***************************************************************************)
(* One call that runs external programs: tts.rs, transcribe.rs, sound.rs,  *)
(* wakeword.rs and openclaw.rs over child_process.rs.  The calling task,   *)
(* its timeout and its cancellation, the program and a process the program *)
(* has started itself (its kin), and the pipes between them, which hold    *)
(* PipeCap units each, move independently.  Killing is immediate.          *)
(***************************************************************************)
EXTENDS Integers, Sequences, FiniteSets

CONSTANTS Calls,      \* the functions that are called
          PipeCap,    \* what a pipe holds before a writer blocks
          TextLen,    \* length of the text written to Piper
          MaxOutput,  \* bound: units a program writes to each stream
          Strays      \* programs whose kin do not end by themselves

Functions == {"wait_for_wakeword", "normalize_audio", "transcribe",
              "run_openclaw", "synthesize_and_play", "play_chime"}

ASSUME CallsAssumption == Calls \subseteq Functions
ASSUME SizesAssumption == /\ PipeCap \in Nat \ {0}
                          /\ TextLen \in Nat \ {0}
                          /\ MaxOutput \in Nat

VARIABLES call,     \* the function that was called
          running,  \* number of the program it is at
          phase,    \* where the calling task stands
          alive,    \* processes: <<program, "child">>, and of what that has started
            \* <<program, "kin">> and, with its streams closed, "daemon"
          guards,   \* programs whose ProcessGroupGuard is held
          left,     \* text not yet written to the program's stdin
          pipe,     \* units in each pipe
          wants,    \* the stream the child is blocked writing to, or "none"
          wrote,    \* units the program has written to each stream
          got,      \* units the bridge has read from each stream
          status,   \* how the program ended
          trigger,  \* which line of the listener holds the trigger, 0: none yet
          errTask,  \* the listener's task that reads stderr
          result    \* of the call

child == <<alive, pipe, wants, wrote, status, trigger>>
vars == <<call, running, phase, alive, guards, left, pipe, wants, wrote, got,
          status, trigger, errTask, result>>

Streams == {"in", "out", "err"}
Nothing == [s \in Streams |-> 0]

(* The programs a call runs, one after the other. *)
Programs == [wait_for_wakeword   |-> <<"listener">>,
             normalize_audio     |-> <<"ffmpeg">>,
             transcribe          |-> <<"whisper">>,
             run_openclaw        |-> <<"openclaw">>,
             synthesize_and_play |-> <<"piper", "player">>,
             play_chime          |-> <<"player">>]

(* Streams that are pipes; the others are inherited or /dev/null. *)
Piped == [listener |-> {"out", "err"}, ffmpeg |-> {"err"},
          whisper |-> {"out", "err"}, openclaw |-> {"out", "err"},
          piper |-> {"in", "out", "err"}, player |-> {"err"}]

Program == Programs[call][running]
Child   == <<Program, "child">>
Kin     == (DOMAIN Piped) \X {"kin", "daemon"}
Held == {Child, <<Program, "kin">>} \cap alive # {}

(* A pipe ends when it is empty and every process that holds it is gone. *)
Eof(s) == pipe[s] = 0 /\ ~Held

Init == /\ call \in Calls
        /\ running = 1
        /\ phase = "spawn"
        /\ alive = {} /\ guards = {}
        /\ left = 0
        /\ pipe = Nothing /\ wrote = Nothing /\ got = Nothing
        /\ wants = "none" /\ status = "running"
        /\ trigger = 0 /\ errTask = "none"
        /\ result = "none"

-----------------------------------------------------------------------------
(* The calling task *)

(* Faults: the guard kills the program alone, stderr is read only after the *)
(* lines, the exit is taken for the end of the output, the timeout is left *)
(* out.                                                                    *)
ChildAlone == {Child}
ErrReadAtTheEnd(s) == \/ phase = "wait" /\ s \in Piped[Program] \ {"in"}
                      \/ errTask = "reading" /\ s = "err" /\ phase = "join"
ExitIsEnough == status # "running"
NoTimeout == FALSE

(* Dropping a Child kills the child itself (kill_on_drop), dropping a guard *)
(* everything in the program's process group.                              *)
Killed == {Child} \cup {p \in alive : p[1] \in guards}

(* Every return, and every drop of the call's future, drops the Child and   *)
(* the guards of the call.                                                 *)
Return(r) == /\ phase' = "done" /\ result' = r
             /\ alive' = alive \ Killed
             /\ guards' = {}
             /\ wants' = "none"
             /\ UNCHANGED <<call, running, left, pipe, wrote, got, status,
                            trigger, errTask>>

(* The listener is deliberately started without a group of its own. *)
Guarded(program) == IF program = "listener" THEN {} ELSE {program}

AfterSpawn == CASE Program = "listener" -> "scan"
                [] Program = "piper"    -> "feed"
                [] OTHER                -> "wait"

Spawn == /\ phase = "spawn"
         /\ phase' = AfterSpawn
         /\ alive' = alive \cup {Child}
         /\ guards' = guards \cup Guarded(Program)
         /\ left' = IF "in" \in Piped[Program] THEN TextLen ELSE 0
         /\ errTask' = IF Program = "listener" THEN "reading" ELSE "none"
         /\ pipe' = Nothing /\ wrote' = Nothing /\ got' = Nothing
         /\ status' = "running"
         /\ UNCHANGED <<call, running, wants, trigger, result>>

SpawnFails == phase = "spawn" /\ Return("not started")

(* The text goes to Piper's stdin before anything is read from it and       *)
(* before the timeout begins.                                              *)
Feed == /\ phase = "feed"
        /\ Held
        /\ pipe["in"] < PipeCap
        /\ pipe' = [pipe EXCEPT !["in"] = @ + 1]
        /\ left' = left - 1
        /\ phase' = IF left = 1 THEN "wait" ELSE "feed"
        /\ UNCHANGED <<call, running, alive, guards, wants, wrote, got, status,
                       trigger, errTask, result>>

FeedBreaks == /\ phase = "feed"
              /\ ~Held
              /\ Return("broken pipe")

(* wait_with_output reads both pipes while it waits for the exit. *)
Reads(s) == \/ phase = "wait" /\ s \in Piped[Program] \ {"in"}
            \/ errTask = "reading" /\ s = "err"

Drain(s) == /\ Reads(s)
            /\ pipe[s] > 0
            /\ pipe' = [pipe EXCEPT ![s] = @ - 1]
            /\ got' = [got EXCEPT ![s] = @ + 1]
            /\ UNCHANGED <<call, running, phase, alive, guards, left, wants,
                           wrote, status, trigger, errTask, result>>

(* ... and is through when the program has ended and both pipes have. *)
OutputIsThrough == /\ status # "running"
                   /\ \A s \in Piped[Program] \ {"in"} : Eof(s)

HasNext == running < Len(Programs[call])

ProgramFailed == /\ phase = "wait" /\ OutputIsThrough
                 /\ status = "failed"
                 /\ Return("failed")

NextProgram == /\ phase = "wait" /\ OutputIsThrough
               /\ status = "ok" /\ HasNext
               /\ running' = running + 1 /\ phase' = "spawn"
               /\ UNCHANGED <<call, alive, guards, left, pipe, wants, wrote,
                              got, status, trigger, errTask, result>>

Succeeded == /\ phase = "wait" /\ OutputIsThrough
             /\ status = "ok" /\ ~HasNext
             /\ Return("ok")

(* whisper-cli leaves its text in a file, which may be missing. *)
TextFileMissing == /\ phase = "wait" /\ OutputIsThrough
                   /\ status = "ok" /\ Program = "whisper"
                   /\ Return("no text")

HasTimeout == phase = "wait"

TimesOut == HasTimeout /\ Return("timeout")

(* The listener's stdout is read line by line; a line that is not text is   *)
(* an error of the loop.                                                   *)
Leave(r) == /\ result' = r /\ phase' = "reap"

ScanLine == /\ phase = "scan"
            /\ pipe["out"] > 0
            /\ pipe' = [pipe EXCEPT !["out"] = @ - 1]
            /\ got' = [got EXCEPT !["out"] = @ + 1]
            /\ \/ got'["out"] = trigger /\ Leave("ok")
               \/ got'["out"] # trigger /\ UNCHANGED <<phase, result>>
               \/ got'["out"] # trigger /\ Leave("failed")
            /\ UNCHANGED <<call, running, alive, guards, left, wants, wrote,
                           status, trigger, errTask>>

ScanEnds == /\ phase = "scan"
            /\ Eof("out")
            /\ Leave("failed")
            /\ UNCHANGED <<call, running, alive, guards, left, pipe, wants,
                           wrote, got, status, trigger, errTask>>

(* start_kill and wait *)
Reap == /\ phase = "reap"
        /\ phase' = "join"
        /\ alive' = alive \ {Child}
        /\ wants' = "none"
        /\ status' = IF status = "running" THEN "killed" ELSE status
        /\ UNCHANGED <<call, running, guards, left, pipe, wrote, got, trigger,
                       errTask, result>>

ErrTaskEnds == /\ errTask = "reading"
               /\ Eof("err")
               /\ errTask' = "ended"
               /\ UNCHANGED <<call, running, phase, alive, guards, left, pipe,
                              wants, wrote, got, status, trigger, result>>

Joined == /\ phase = "join"
          /\ errTask = "ended"
          /\ Return(result)

(* A shutdown drops the future at whichever await it stands. *)
Cancelled == phase # "done" /\ Return("cancelled")

-----------------------------------------------------------------------------
(* The program *)

Free == Child \in alive /\ wants = "none" /\ phase # "done"

(* A write is begun, and takes place once the pipe has room. *)
Prints(s) == /\ Free
             /\ s \in Piped[Program] \ {"in"}
             /\ wrote[s] < MaxOutput
             /\ wants' = s
             /\ UNCHANGED <<call, running, phase, alive, guards, left, pipe,
                            wrote, got, status, trigger, errTask, result>>

Printed == /\ wants # "none" /\ phase # "done"
           /\ pipe[wants] < PipeCap
           /\ pipe' = [pipe EXCEPT ![wants] = @ + 1]
           /\ wrote' = [wrote EXCEPT ![wants] = @ + 1]
           /\ wants' = "none"
           /\ \/ UNCHANGED trigger
              \/ /\ Program = "listener" /\ wants = "out" /\ trigger = 0
                 /\ trigger' = wrote'["out"]
           /\ UNCHANGED <<call, running, phase, alive, guards, left, got,
                          status, errTask, result>>

Takes == /\ Free
         /\ pipe["in"] > 0
         /\ pipe' = [pipe EXCEPT !["in"] = @ - 1]
         /\ UNCHANGED <<call, running, phase, alive, guards, left, wants,
                        wrote, got, status, trigger, errTask, result>>

Exits == /\ Free
         /\ alive' = alive \ {Child}
         /\ status' \in {"ok", "failed"}
         /\ UNCHANGED <<call, running, phase, guards, left, pipe, wants, wrote,
                        got, trigger, errTask, result>>

(* A process of the program's own inherits its group, and its streams or   *)
(* closes them.                                                            *)
Forks == /\ Free
         /\ \E role \in {"kin", "daemon"} : alive' = alive \cup {<<Program, role>>}
         /\ UNCHANGED <<call, running, phase, guards, left, pipe, wants, wrote,
                        got, status, trigger, errTask, result>>

KinEnds(kin) ==
    /\ kin \in alive /\ kin[1] \notin Strays
    /\ alive' = alive \ {kin}
    /\ UNCHANGED <<call, running, phase, guards, left, pipe, wants, wrote,
                   got, status, trigger, errTask, result>>

-----------------------------------------------------------------------------
Task == \/ Spawn \/ SpawnFails
        \/ Feed \/ FeedBreaks
        \/ \E s \in Streams : Drain(s)
        \/ ProgramFailed \/ NextProgram \/ Succeeded \/ TextFileMissing
        \/ ScanLine \/ ScanEnds \/ Reap \/ ErrTaskEnds \/ Joined

Other == \/ \E s \in Streams : Prints(s)
         \/ Printed \/ Takes \/ Exits \/ Forks
         \/ \E kin \in Kin : KinEnds(kin)

Next == Task \/ TimesOut \/ Cancelled \/ Other

Spec == Init /\ [][Next]_vars

(* The runtime polls the task as long as it can go on and lets its timer    *)
(* expire; a write the program has begun takes place once there is room.   *)
(* Nothing is assumed of what a program does, or of when it ends.          *)
TaskFair == /\ WF_vars(Spawn \/ SpawnFails)
            /\ WF_vars(Feed \/ FeedBreaks)
            /\ \A s \in Streams : WF_vars(Drain(s))
            /\ WF_vars(ProgramFailed \/ NextProgram \/ Succeeded)
            /\ WF_vars(ScanLine) /\ WF_vars(ScanEnds)
            /\ WF_vars(Reap) /\ WF_vars(ErrTaskEnds) /\ WF_vars(Joined)
            /\ WF_vars(TimesOut)

SystemFair == /\ WF_vars(Printed)
              /\ \A kin \in Kin : WF_vars(KinEnds(kin))

FairSpec == Spec /\ TaskFair /\ SystemFair

-----------------------------------------------------------------------------
(* When a call is over, however it ended, nothing of the programs it ran is *)
(* left: not the program and not what the program has started.  The        *)
(* listener's own children are the exception wakeword.rs:45-49 accepts.    *)
NothingLeftRunning ==
    phase = "done" => \A p \in alive : p[1] = "listener" /\ p[2] # "child"

(* Whoever learns how the program ended has all it wrote until then: the    *)
(* answer that is passed on is not cut off, and the error that is reported *)
(* carries the whole of stderr.                                            *)
OutputComplete ==
    phase = "done" /\ result \in {"ok", "failed", "no text"} =>
        /\ got["err"] = wrote["err"]
        /\ Program # "listener" => got["out"] = wrote["out"]

(* A program that blocks on a full pipe does not stay blocked: whichever    *)
(* stream it is, someone reads it while the task does something else       *)
(* (wakeword.rs:63-66).                                                    *)
NoPipeStall == (wants # "none") ~> (wants = "none")

(* What the call waits for beyond the listener's next line comes to an end: *)
(* a program that hangs, one whose children hold its pipes, one that is    *)
(* killed.                                                                 *)
MustEnd == IF Program = "listener"
           THEN \/ phase = "scan" /\ (trigger # 0 \/ ~Held)
                \/ phase \in {"reap", "join"}
           ELSE phase # "done"
CallEnds == MustEnd ~> (phase = "done")

(* wakeword.rs:92-94 of the task that reads the listener's stderr: once the *)
(* process has ended, waiting for that task does not block.                *)
JoinDoesNotBlock == (phase = "join") ~> (phase = "done")
=============================================================================
