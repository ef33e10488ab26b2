------------------------- MODULE ChildProcessProofs -------------------------
(***************************************************************************)
(* What ChildProcess shows of six calls with small pipes, for every size   *)
(* of the pipes, of the text and of what the programs write.               *)
(***************************************************************************)
EXTENDS ChildProcess, TLAPS

Out == {"out", "err"}

CTypeOK ==
    /\ call \in Functions
    /\ running \in 1 .. Len(Programs[call])
    /\ phase \in {"spawn", "feed", "wait", "scan", "reap", "join", "done"}
    /\ alive \subseteq (DOMAIN Piped) \X {"child", "kin", "daemon"}
    /\ guards \subseteq DOMAIN Piped
    /\ pipe \in [Streams -> Int]
    /\ wrote \in [Streams -> Int]
    /\ got \in [Streams -> Int]
    /\ wants \in {"none"} \cup Out
    /\ status \in {"running", "ok", "failed", "killed"}
    /\ errTask \in {"none", "reading", "ended"}

(* Every process belongs to a program of this call that was started, and    *)
(* all but the listener's are in a group whose guard is still held.        *)
OfThisCall == \A p \in alive : \E i \in 1 .. running : p[1] = Programs[call][i]
UnderGuard == phase # "done" => \A p \in alive : p[1] \in guards \cup {"listener"}

(* No unit is lost or read twice, and only pipes carry any. *)
Conserved == \A s \in Out : /\ wrote[s] = got[s] + pipe[s]
                            /\ pipe[s] >= 0
                            /\ wants = s => s \in Piped[Program]
                            /\ phase \notin {"spawn", "done"} /\ wrote[s] # got[s] =>
                                   s \in Piped[Program]

BlockedAlive == wants # "none" => Child \in alive

(* Where the task stands tells what it has seen end. *)
Stands == /\ phase \in {"feed", "wait"} => errTask = "none" /\ Program # "listener"
          /\ phase \in {"scan", "reap", "join"} => Program = "listener"
          /\ errTask = "ended" => pipe["err"] = 0 /\ ~Held
          /\ phase = "done" /\ result \in {"ok", "failed", "no text"} =>
                errTask # "reading" /\ (Program = "listener" => errTask = "ended")

IInv == /\ CTypeOK /\ OfThisCall /\ UnderGuard /\ Conserved /\ BlockedAlive
        /\ Stands /\ NothingLeftRunning /\ OutputComplete

-----------------------------------------------------------------------------
(* A call's current program is one of the table, and its pipes are streams. *)
LEMMA ProgramFacts ==
    ASSUME CTypeOK
    PROVE  /\ Program \in DOMAIN Piped
           /\ Piped[Program] \subseteq Streams
           /\ "err" \in Piped[Program]
           /\ Program = "listener" => Piped[Program] = Out
BY DEF CTypeOK, Program, Programs, Piped, Functions, Streams, Out

(* A return with a verdict on the program needs the streams read to their   *)
(* ends; any other return needs nothing.                                   *)
Verdicts == {"ok", "failed", "no text"}

LEMMA ReturnKeeps ==
    ASSUME IInv, NEW r, Return(r), phase # "done",
           r \in Verdicts =>
              /\ got["err"] = wrote["err"]
              /\ Program # "listener" => got["out"] = wrote["out"]
              /\ errTask # "reading"
              /\ Program = "listener" => errTask = "ended"
    PROVE  IInv'
<1> USE DEF IInv
<1>1. Program' = Program
  BY DEF Return, Program
<1>2. alive' \subseteq alive
  BY DEF Return
<1>3. CTypeOK'
  BY <1>2 DEF Return, CTypeOK
<1>4. OfThisCall'
  BY <1>2 DEF Return, OfThisCall
<1>5. UnderGuard'
  BY DEF Return, UnderGuard
<1>6. Conserved'
  BY <1>1 DEF Return, Conserved, Out
<1>7. BlockedAlive'
  BY DEF Return, BlockedAlive
<1>8. Stands'
  BY <1>1, <1>2 DEF Return, Stands, Held, Child, Verdicts
<1>9. NothingLeftRunning'
  <2> SUFFICES ASSUME NEW p \in alive'
               PROVE  p[1] = "listener" /\ p[2] # "child"
    BY DEF NothingLeftRunning
  <2>1. p \in alive /\ p # Child /\ p[1] \notin guards
    BY DEF Return, Killed
  <2>2. p[1] = "listener"
    BY <2>1 DEF UnderGuard
  <2>3. Program = "listener"
    <3>1. PICK i \in 1 .. running : p[1] = Programs[call][i]
      BY <2>1 DEF OfThisCall
    <3>2. call \in Functions /\ running \in 1 .. Len(Programs[call])
      BY DEF CTypeOK
    <3> QED BY <2>2, <3>1, <3>2 DEF Program, Programs, Functions
  <2>4. p \in (DOMAIN Piped) \X {"child", "kin", "daemon"}
    BY <2>1 DEF CTypeOK
  <2>5. p = <<p[1], p[2]>>
    BY <2>4
  <2> QED BY <2>1, <2>2, <2>3, <2>5 DEF Child
<1>10. OutputComplete'
  BY <1>1 DEF Return, OutputComplete, Verdicts
<1> QED BY <1>3, <1>4, <1>5, <1>6, <1>7, <1>8, <1>9, <1>10

(* The steps of the calling task that go on with the call. *)
LEMMA TaskSteps ==
    ASSUME IInv,
           \/ Feed \/ NextProgram \/ ScanLine \/ ScanEnds \/ Reap \/ ErrTaskEnds
           \/ \E s \in Streams : Drain(s)
    PROVE  IInv'
<1> USE DEF IInv
<1>1. CASE Feed
  <2>a. Program' = Program
    BY <1>1 DEF Feed, Program
  <2>1. CTypeOK'
    BY <1>1 DEF Feed, CTypeOK, Out, Streams
  <2>2. OfThisCall' /\ UnderGuard'
    BY <1>1 DEF Feed, OfThisCall, UnderGuard
  <2>3. Conserved'
    BY <1>1, <2>a, ProgramFacts DEF Feed, CTypeOK, Conserved, Out, Streams
  <2>4. BlockedAlive' /\ Stands'
    BY <1>1, <2>a, ProgramFacts DEF Feed, CTypeOK, BlockedAlive, Stands, Child, Held,
          Eof, Streams, Out
  <2>5. NothingLeftRunning' /\ OutputComplete'
    BY <1>1, <2>a DEF Feed, NothingLeftRunning, OutputComplete, Stands
  <2> QED BY <2>1, <2>2, <2>3, <2>4, <2>5
<1>2. CASE NextProgram
  <2>1. ~Held /\ wants = "none"
    <3>1. "err" \in Piped[Program] \ {"in"}
      BY ProgramFacts
    <3>2. ~Held
      BY <1>2, <3>1 DEF NextProgram, OutputIsThrough, Eof
    <3> QED BY <3>2 DEF BlockedAlive, Held
  <2>2. CTypeOK'
    BY <1>2 DEF NextProgram, HasNext, CTypeOK
  <2>3. OfThisCall' /\ UnderGuard'
    BY <1>2 DEF NextProgram, CTypeOK, OfThisCall, UnderGuard
  <2>4. Conserved'
    BY <1>2, <2>1 DEF NextProgram, CTypeOK, Conserved, Out
  <2>5. BlockedAlive' /\ Stands'
    BY <1>2, <2>1 DEF NextProgram, BlockedAlive, Stands
  <2>6. NothingLeftRunning' /\ OutputComplete'
    BY <1>2 DEF NextProgram, NothingLeftRunning, OutputComplete
  <2> QED BY <2>2, <2>3, <2>4, <2>5, <2>6
<1>3. CASE ScanLine
  <2>a. Program' = Program
    BY <1>3 DEF ScanLine, Leave, Program
  <2>1. CTypeOK'
    BY <1>3 DEF ScanLine, Leave, CTypeOK, Out, Streams
  <2>2. OfThisCall' /\ UnderGuard'
    BY <1>3 DEF ScanLine, Leave, OfThisCall, UnderGuard
  <2>3. Conserved'
    BY <1>3, <2>a, ProgramFacts DEF ScanLine, Leave, CTypeOK, Conserved, Out, Streams
  <2>4. BlockedAlive' /\ Stands'
    BY <1>3, <2>a, ProgramFacts DEF ScanLine, Leave, CTypeOK, BlockedAlive, Stands, Child, Held,
          Eof, Streams, Out
  <2>5. NothingLeftRunning' /\ OutputComplete'
    BY <1>3, <2>a DEF ScanLine, Leave, NothingLeftRunning, OutputComplete, Stands
  <2> QED BY <2>1, <2>2, <2>3, <2>4, <2>5
<1>4. CASE ScanEnds
  <2>a. Program' = Program
    BY <1>4 DEF ScanEnds, Leave, Program
  <2>1. CTypeOK'
    BY <1>4 DEF ScanEnds, Leave, CTypeOK, Out, Streams
  <2>2. OfThisCall' /\ UnderGuard'
    BY <1>4 DEF ScanEnds, Leave, OfThisCall, UnderGuard
  <2>3. Conserved'
    BY <1>4, <2>a, ProgramFacts DEF ScanEnds, Leave, CTypeOK, Conserved, Out, Streams
  <2>4. BlockedAlive' /\ Stands'
    BY <1>4, <2>a, ProgramFacts DEF ScanEnds, Leave, CTypeOK, BlockedAlive, Stands, Child, Held,
          Eof, Streams, Out
  <2>5. NothingLeftRunning' /\ OutputComplete'
    BY <1>4, <2>a DEF ScanEnds, Leave, NothingLeftRunning, OutputComplete, Stands
  <2> QED BY <2>1, <2>2, <2>3, <2>4, <2>5
<1>5. CASE Reap
  <2>a. Program' = Program
    BY <1>5 DEF Reap, Program
  <2>1. CTypeOK'
    BY <1>5 DEF Reap, CTypeOK, Out, Streams
  <2>2. OfThisCall' /\ UnderGuard'
    BY <1>5 DEF Reap, OfThisCall, UnderGuard
  <2>3. Conserved'
    BY <1>5, <2>a, ProgramFacts DEF Reap, CTypeOK, Conserved, Out, Streams
  <2>4. BlockedAlive' /\ Stands'
    BY <1>5, <2>a, ProgramFacts DEF Reap, CTypeOK, BlockedAlive, Stands, Child, Held,
          Eof, Streams, Out
  <2>5. NothingLeftRunning' /\ OutputComplete'
    BY <1>5, <2>a DEF Reap, NothingLeftRunning, OutputComplete, Stands
  <2> QED BY <2>1, <2>2, <2>3, <2>4, <2>5
<1>6. CASE ErrTaskEnds
  <2>a. Program' = Program
    BY <1>6 DEF ErrTaskEnds, Program
  <2>1. CTypeOK'
    BY <1>6 DEF ErrTaskEnds, CTypeOK, Out, Streams
  <2>2. OfThisCall' /\ UnderGuard'
    BY <1>6 DEF ErrTaskEnds, OfThisCall, UnderGuard
  <2>3. Conserved'
    BY <1>6, <2>a, ProgramFacts DEF ErrTaskEnds, CTypeOK, Conserved, Out, Streams
  <2>4. BlockedAlive' /\ Stands'
    BY <1>6, <2>a, ProgramFacts DEF ErrTaskEnds, CTypeOK, BlockedAlive, Stands, Child, Held,
          Eof, Streams, Out
  <2>5. NothingLeftRunning' /\ OutputComplete'
    BY <1>6, <2>a DEF ErrTaskEnds, NothingLeftRunning, OutputComplete, Stands
  <2> QED BY <2>1, <2>2, <2>3, <2>4, <2>5
<1>7. CASE \E s \in Streams : Drain(s)
  <2>a. Program' = Program
    BY <1>7 DEF Drain, Reads, Program
  <2>b. PICK s \in Streams : Drain(s)
    BY <1>7
  <2>1. CTypeOK'
    <3>1. pipe' \in [Streams -> Int] /\ got' \in [Streams -> Int]
      BY <2>b DEF Drain, CTypeOK
    <3>2. UNCHANGED <<call, running, phase, alive, guards, wants, wrote, status, errTask>>
      BY <2>b DEF Drain
    <3> QED BY <3>1, <3>2 DEF CTypeOK
  <2>2. OfThisCall' /\ UnderGuard'
    BY <1>7 DEF Drain, Reads, OfThisCall, UnderGuard
  <2>c. s \in Out /\ pipe[s] > 0
    BY <2>b DEF Drain, Reads, Streams, Out
  <2>d. pipe'[s] = pipe[s] - 1 /\ got'[s] = got[s] + 1
    BY <2>b DEF Drain, CTypeOK
  <2>e. \A t \in Out \ {s} : pipe'[t] = pipe[t] /\ got'[t] = got[t]
    BY <2>b DEF Drain, CTypeOK, Out, Streams
  <2>f. pipe[s] \in Int /\ got[s] \in Int /\ wrote[s] \in Int
    BY DEF CTypeOK
  <2>g. wrote[s] = got[s] + pipe[s] /\ wrote[s] # got[s]
    BY <2>c, <2>f DEF Conserved
  <2>h. phase' = phase /\ wants' = wants /\ wrote' = wrote
    BY <2>b DEF Drain
  <2>i. ASSUME NEW t \in Out
        PROVE  /\ wrote'[t] = got'[t] + pipe'[t]
               /\ pipe'[t] >= 0
               /\ wants' = t => t \in Piped[Program]
               /\ phase' \notin {"spawn", "done"} /\ wrote'[t] # got'[t] =>
                      t \in Piped[Program]
    <3>1. CASE t = s
      BY <3>1, <2>c, <2>d, <2>f, <2>g, <2>h DEF Conserved
    <3>2. CASE t # s
      BY <3>2, <2>e, <2>h DEF Conserved
    <3> QED BY <3>1, <3>2
  <2>3. Conserved'
    BY <2>a, <2>i DEF Conserved
  <2>4. BlockedAlive' /\ Stands'
    BY <1>7, <2>a, ProgramFacts DEF Drain, Reads, CTypeOK, BlockedAlive, Stands, Child, Held,
          Eof, Streams, Out
  <2>5. NothingLeftRunning' /\ OutputComplete'
    BY <1>7, <2>a DEF Drain, Reads, NothingLeftRunning, OutputComplete, Stands
  <2> QED BY <2>1, <2>2, <2>3, <2>4, <2>5
<1> QED BY <1>1, <1>2, <1>3, <1>4, <1>5, <1>6, <1>7

(* The steps of the program and of its kin. *)
LEMMA ProgramSteps ==
    ASSUME IInv, Other
    PROVE  IInv'
<1> USE DEF IInv
<1>1. CASE \E s \in Streams : Prints(s)
  <2>a. Program' = Program
    BY <1>1 DEF Prints, Free, Program
  <2>1. CTypeOK'
    BY <1>1 DEF Prints, Free, CTypeOK, Out, Streams
  <2>2. OfThisCall' /\ UnderGuard'
    BY <1>1 DEF Prints, Free, OfThisCall, UnderGuard
  <2>3. Conserved'
    BY <1>1, <2>a, ProgramFacts DEF Prints, Free, CTypeOK, Conserved, Out, Streams
  <2>4. BlockedAlive' /\ Stands'
    BY <1>1, <2>a, ProgramFacts DEF Prints, Free, CTypeOK, BlockedAlive, Stands, Child, Held,
          Eof, Streams, Out
  <2>5. NothingLeftRunning' /\ OutputComplete'
    BY <1>1, <2>a DEF Prints, Free, NothingLeftRunning, OutputComplete, Stands
  <2> QED BY <2>1, <2>2, <2>3, <2>4, <2>5
<1>2. CASE Printed
  <2>a. Program' = Program
    BY <1>2 DEF Printed, Program
  <2>1. CTypeOK'
    BY <1>2 DEF Printed, CTypeOK, Out, Streams
  <2>2. OfThisCall' /\ UnderGuard'
    BY <1>2 DEF Printed, OfThisCall, UnderGuard
  <2>3. Conserved'
    <3>1. wants \in Out /\ wants' = "none" /\ phase' = phase /\ got' = got
      BY <1>2 DEF Printed, CTypeOK
    <3>2. wants \in Piped[Program]
      BY <3>1 DEF Conserved
    <3>3. pipe'[wants] = pipe[wants] + 1 /\ wrote'[wants] = wrote[wants] + 1
      BY <1>2, <3>1 DEF Printed, CTypeOK, Out, Streams
    <3>4. \A s \in Out \ {wants} : pipe'[s] = pipe[s] /\ wrote'[s] = wrote[s]
      BY <1>2 DEF Printed, CTypeOK, Out, Streams
    <3>5. \A s \in Out : pipe[s] \in Int /\ got[s] \in Int /\ wrote[s] \in Int
      BY DEF CTypeOK, Out, Streams
    <3>6. ASSUME NEW s \in Out
          PROVE  /\ wrote'[s] = got'[s] + pipe'[s]
                 /\ pipe'[s] >= 0
                 /\ wants' # s
                 /\ phase' \notin {"spawn", "done"} /\ wrote'[s] # got'[s] =>
                        s \in Piped[Program]
      <4>1. wants' # s
        BY <3>1 DEF Out
      <4>2. CASE s = wants
        BY <4>1, <4>2, <3>1, <3>2, <3>3, <3>5 DEF Conserved
      <4>3. CASE s # wants
        BY <4>1, <4>3, <3>1, <3>4 DEF Conserved
      <4> QED BY <4>2, <4>3
    <3> QED BY <2>a, <3>6 DEF Conserved
  <2>4. BlockedAlive' /\ Stands'
    <3>1. BlockedAlive'
      BY <1>2 DEF Printed, BlockedAlive
    <3>2. errTask # "ended"
      <4>1. Child \in alive
        BY <1>2 DEF Printed, BlockedAlive
      <4> QED BY <4>1 DEF Stands, Held
    <3>3. UNCHANGED <<phase, errTask, result>>
      BY <1>2 DEF Printed
    <3>4. Stands'
      BY <2>a, <3>2, <3>3 DEF Stands
    <3> QED BY <3>1, <3>4
  <2>5. NothingLeftRunning' /\ OutputComplete'
    BY <1>2, <2>a DEF Printed, NothingLeftRunning, OutputComplete, Stands
  <2> QED BY <2>1, <2>2, <2>3, <2>4, <2>5
<1>3. CASE Takes
  <2>a. Program' = Program
    BY <1>3 DEF Takes, Free, Program
  <2>1. CTypeOK'
    BY <1>3 DEF Takes, Free, CTypeOK, Out, Streams
  <2>2. OfThisCall' /\ UnderGuard'
    BY <1>3 DEF Takes, Free, OfThisCall, UnderGuard
  <2>3. Conserved'
    BY <1>3, <2>a, ProgramFacts DEF Takes, Free, CTypeOK, Conserved, Out, Streams
  <2>4. BlockedAlive' /\ Stands'
    BY <1>3, <2>a, ProgramFacts DEF Takes, Free, CTypeOK, BlockedAlive, Stands, Child, Held,
          Eof, Streams, Out
  <2>5. NothingLeftRunning' /\ OutputComplete'
    BY <1>3, <2>a DEF Takes, Free, NothingLeftRunning, OutputComplete, Stands
  <2> QED BY <2>1, <2>2, <2>3, <2>4, <2>5
<1>4. CASE Exits
  <2>a. Program' = Program
    BY <1>4 DEF Exits, Free, Program
  <2>1. CTypeOK'
    BY <1>4 DEF Exits, Free, CTypeOK, Out, Streams
  <2>2. OfThisCall' /\ UnderGuard'
    BY <1>4 DEF Exits, Free, OfThisCall, UnderGuard
  <2>3. Conserved'
    BY <1>4, <2>a, ProgramFacts DEF Exits, Free, CTypeOK, Conserved, Out, Streams
  <2>4. BlockedAlive' /\ Stands'
    BY <1>4, <2>a, ProgramFacts DEF Exits, Free, CTypeOK, BlockedAlive, Stands, Child, Held,
          Eof, Streams, Out
  <2>5. NothingLeftRunning' /\ OutputComplete'
    BY <1>4, <2>a DEF Exits, Free, NothingLeftRunning, OutputComplete, Stands
  <2> QED BY <2>1, <2>2, <2>3, <2>4, <2>5
<1>5. CASE Forks
  <2>0. Program \in DOMAIN Piped /\ Program = Programs[call][running] /\ running \in 1 .. running
    BY ProgramFacts DEF CTypeOK, Program
  <2>a. Program' = Program
    BY <1>5 DEF Forks, Free, Program
  <2>1. CTypeOK'
    BY <2>0, <1>5 DEF Forks, Free, Child, CTypeOK, Out, Streams
  <2>2. OfThisCall' /\ UnderGuard'
    BY <2>0, <1>5 DEF Forks, Free, Child, OfThisCall, UnderGuard
  <2>3. Conserved'
    BY <1>5, <2>a, ProgramFacts DEF Forks, Free, Child, CTypeOK, Conserved, Out, Streams
  <2>4. BlockedAlive' /\ Stands'
    BY <1>5, <2>a, ProgramFacts DEF Forks, Free, Child, CTypeOK, BlockedAlive, Stands, Child, Held,
          Eof, Streams, Out
  <2>5. NothingLeftRunning' /\ OutputComplete'
    BY <1>5, <2>a DEF Forks, Free, NothingLeftRunning, OutputComplete, Stands
  <2> QED BY <2>1, <2>2, <2>3, <2>4, <2>5
<1>6. CASE \E kin \in Kin : KinEnds(kin)
  <2>a. Program' = Program
    BY <1>6 DEF KinEnds, Program
  <2>1. CTypeOK'
    BY <1>6 DEF KinEnds, CTypeOK, Out, Streams
  <2>2. OfThisCall' /\ UnderGuard'
    BY <1>6 DEF KinEnds, OfThisCall, UnderGuard
  <2>3. Conserved'
    BY <1>6, <2>a, ProgramFacts DEF KinEnds, CTypeOK, Conserved, Out, Streams
  <2>b. PICK kin \in Kin : KinEnds(kin)
    BY <1>6
  <2>c. kin # Child
    BY DEF Kin, Child
  <2>d. Child' = Child /\ (Held' => Held)
    BY <2>a, <2>b DEF KinEnds, Child, Held
  <2>4. BlockedAlive' /\ Stands'
    BY <2>a, <2>b, <2>c, <2>d DEF KinEnds, BlockedAlive, Stands
  <2>5. NothingLeftRunning' /\ OutputComplete'
    BY <1>6, <2>a DEF KinEnds, NothingLeftRunning, OutputComplete, Stands
  <2> QED BY <2>1, <2>2, <2>3, <2>4, <2>5
<1> QED BY <1>1, <1>2, <1>3, <1>4, <1>5, <1>6 DEF Other

(* Starting a program, which comes under a guard of its own, and the steps  *)
(* by which a call returns.                                                *)
LEMMA SpawnKeeps ==
    ASSUME IInv, Spawn
    PROVE  IInv'
<1> USE DEF IInv
<1>a. /\ Program' = Program /\ Program \in DOMAIN Piped
      /\ Program = Programs[call][running] /\ running \in 1 .. running
  BY ProgramFacts DEF Spawn, Program, CTypeOK
<1>1. CTypeOK'
  BY <1>a DEF Spawn, CTypeOK, AfterSpawn, Child, Guarded, Nothing
<1>2. OfThisCall' /\ UnderGuard'
  BY <1>a DEF Spawn, OfThisCall, UnderGuard, Child, Guarded
<1>3. wants = "none" \/ Child \in alive
  BY DEF BlockedAlive
<1>4. Conserved'
  BY <1>a, ProgramFacts DEF Spawn, Conserved, Nothing, Out, Streams
<1>5. BlockedAlive' /\ Stands'
  BY <1>a, <1>3 DEF Spawn, BlockedAlive, Stands, Child, AfterSpawn
<1>6. NothingLeftRunning' /\ OutputComplete'
  BY DEF Spawn, AfterSpawn, NothingLeftRunning, OutputComplete
<1> QED BY <1>1, <1>2, <1>4, <1>5, <1>6

LEMMA ReturnSteps ==
    ASSUME IInv,
           \/ SpawnFails \/ FeedBreaks \/ ProgramFailed \/ Succeeded
           \/ TextFileMissing \/ Joined \/ TimesOut \/ Cancelled
    PROVE  IInv'
<1>1. CASE SpawnFails \/ FeedBreaks \/ TimesOut \/ Cancelled
  BY <1>1, ReturnKeeps DEF SpawnFails, FeedBreaks, TimesOut, HasTimeout, Cancelled, Verdicts
<1>2. CASE ProgramFailed \/ Succeeded \/ TextFileMissing
  <2>1. phase = "wait" /\ OutputIsThrough
    BY <1>2 DEF ProgramFailed, Succeeded, TextFileMissing
  <2>2. errTask = "none" /\ (Program = "listener" => FALSE)
    BY <2>1 DEF IInv, Stands, CTypeOK
  <2>3. \A s \in Out : got[s] = wrote[s]
    BY <2>1 DEF IInv, Conserved, OutputIsThrough, Eof, CTypeOK, Out, Streams
  <2> QED
    BY <1>2, <2>1, <2>2, <2>3, ReturnKeeps
    DEF ProgramFailed, Succeeded, TextFileMissing, Out
<1>3. CASE Joined
  <2>1. phase = "join" /\ errTask = "ended" /\ Program = "listener"
    BY <1>3 DEF Joined, IInv, Stands
  <2>2. got["err"] = wrote["err"]
    BY <2>1 DEF IInv, Stands, Conserved, CTypeOK, Out, Streams
  <2> QED BY <1>3, <2>1, <2>2, ReturnKeeps DEF Joined
<1> QED BY <1>1, <1>2, <1>3

-----------------------------------------------------------------------------
LEMMA InitInv == Init => IInv
<1> SUFFICES ASSUME Init PROVE IInv
  OBVIOUS
<1>1. CTypeOK
  BY CallsAssumption DEF Init, CTypeOK, Functions, Programs, Nothing, Streams, Out
<1>2. OfThisCall /\ UnderGuard /\ BlockedAlive
  BY DEF Init, OfThisCall, UnderGuard, BlockedAlive
<1>3. Conserved
  BY DEF Init, Conserved, Nothing, Streams, Out
<1>4. Stands /\ NothingLeftRunning /\ OutputComplete
  BY DEF Init, Stands, NothingLeftRunning, OutputComplete
<1> QED BY <1>1, <1>2, <1>3, <1>4 DEF IInv

LEMMA StepInv == IInv /\ [Next]_vars => IInv'
<1> SUFFICES ASSUME IInv, [Next]_vars PROVE IInv'
  OBVIOUS
<1>1. CASE Task
  BY <1>1, SpawnKeeps, TaskSteps, ReturnSteps DEF Task
<1>2. CASE TimesOut \/ Cancelled
  BY <1>2, ReturnSteps
<1>3. CASE Other
  BY <1>3, ProgramSteps
<1>4. CASE UNCHANGED vars
  BY <1>4 DEF vars, IInv, CTypeOK, OfThisCall, UnderGuard, Conserved, BlockedAlive, Stands,
              NothingLeftRunning, OutputComplete, Program, Child, Held
<1> QED BY <1>1, <1>2, <1>3, <1>4 DEF Next

(* The invariant holds for every size of pipe, text and output. *)
THEOREM IInvHolds == Spec => []IInv
BY InitInv, StepInv, PTL DEF Spec

(* Nothing of a call's programs outlives it, the listener's own children    *)
(* excepted: child_process.rs:34-64 and every caller of spawn_isolated.    *)
THEOREM NothingOutlives == Spec => []NothingLeftRunning
<1>1. IInv => NothingLeftRunning
  BY DEF IInv
<1> QED BY <1>1, IInvHolds, PTL

(* A verdict on a program comes with all of its output and its stderr. *)
THEOREM OutputIsComplete == Spec => []OutputComplete
<1>1. IInv => OutputComplete
  BY DEF IInv
<1> QED BY <1>1, IInvHolds, PTL
=============================================================================
