---------------------------- MODULE TranscriptLog ----------------------------
(***************************************************************************)
(* transcript_log.rs over tokio's File.  write_all returns as soon as the  *)
(* write is handed to the runtime's blocking threads; the next write on    *)
(* the same File waits for it, dropping the File does not.  append writes  *)
(* the text and then the newline, so it returns while the newline is still *)
(* under way, and the next line opens a File of its own.                   *)
(***************************************************************************)
EXTENDS Naturals, Sequences

CONSTANTS MaxLines,    \* bound: lines that are logged
          DiskMayFail, \* opening and writing may fail
          MayBeKilled  \* the process may be killed and started again

ASSUME LogAssumption == /\ MaxLines \in Nat
                        /\ DiskMayFail \in BOOLEAN
                        /\ MayBeKilled \in BOOLEAN

VARIABLES lines, \* what was logged: line n is lines[n]
          at,    \* where append stands with the last of them
          jobs,  \* writes handed over and not yet carried out
          file,  \* writes carried out
          lost   \* lines whose text was not written

logVars == <<lines, at, jobs, file, lost>>

Line == Len(lines)
Text(n)    == [line |-> n, part |-> "text"]
Newline(n) == [line |-> n, part |-> "newline"]

(* The line before a session reset's marker has no text. *)
Blank(n) == lines[n].kind = "blank"

LogInit == /\ lines = <<>> /\ at = "idle"
           /\ jobs = {} /\ file = <<>> /\ lost = {}

Log(entry) == /\ at = "idle" /\ Line < MaxLines
              /\ lines' = Append(lines, entry)
              /\ at' = "open"
              /\ UNCHANGED <<jobs, file, lost>>

Opened == /\ at = "open"
          /\ at' = "opened"
          /\ UNCHANGED <<lines, jobs, file, lost>>

(* A log that cannot be written is a warning and nothing else. *)
OpenFails == /\ at = "open" /\ DiskMayFail
             /\ at' = "idle" /\ lost' = lost \cup {Line}
             /\ UNCHANGED <<lines, jobs, file>>

(* Fault: text and newline in one write, which nothing waits for. *)
OneWrite == "idle"

(* Where append goes on after handing over the text. *)
AfterText == "text"

(* write_all of an empty slice writes nothing. *)
WriteText == /\ at = "opened"
             /\ at' = AfterText
             /\ jobs' = IF Blank(Line) THEN jobs ELSE jobs \cup {Text(Line)}
             /\ UNCHANGED <<lines, file, lost>>

TextIsThrough == at = "text" /\ Text(Line) \notin jobs

WriteNewline == /\ TextIsThrough /\ Line \notin lost
                /\ at' = "idle"
                /\ jobs' = jobs \cup {Newline(Line)}
                /\ UNCHANGED <<lines, file, lost>>

(* A failed write is reported by the next one on the same File. *)
TextFailed == /\ TextIsThrough /\ Line \in lost
              /\ at' = "idle"
              /\ UNCHANGED <<lines, jobs, file, lost>>

(* A blocking thread takes any of the writes it was given; what follows     *)
(* the newline is nobody's, so its failure goes unnoticed.                 *)
Carried(job) == /\ job \in jobs
                /\ jobs' = jobs \ {job}
                /\ \/ /\ file' = Append(file, job)
                      /\ UNCHANGED lost
                   \/ /\ DiskMayFail /\ UNCHANGED file
                      /\ lost' = IF job.part = "text" THEN lost \cup {job.line} ELSE lost
                /\ UNCHANGED <<lines, at>>

(* A killed process takes the writes along that were not carried out. *)
KilledMeanwhile == /\ MayBeKilled
                   /\ jobs' = {} /\ at' = "idle"
                   /\ lost' = IF at = "idle" THEN lost ELSE lost \cup {Line}
                   /\ UNCHANGED <<lines, file>>

Writing == \/ Opened \/ OpenFails \/ WriteText \/ WriteNewline \/ TextFailed
           \/ \E job \in jobs : Carried(job)

LogNext == \/ \E kind \in {"entry", "blank"} : Log([kind |-> kind])
           \/ Writing \/ KilledMeanwhile

LogSpec == LogInit /\ [][LogNext]_logVars

-----------------------------------------------------------------------------
Texts == {i \in DOMAIN file : file[i].part = "text"}

(* The log tells the conversation in the order it took place, although each *)
(* line is written by background threads through a File of its own.        *)
TextsInOrder ==
    \A i, j \in Texts : i < j => file[i].line < file[j].line

(* When a line has been logged and nothing failed, its text is in the file: *)
(* what follows in the round, a crash included, finds it there.            *)
TextIsThere ==
    at = "idle" => \A n \in 1 .. Line :
        Blank(n) \/ n \in lost \/ \E i \in Texts : file[i].line = n

(* README.md:539-540: an entry is a line of its own, which the test at      *)
(* transcript_log.rs:90-115 expects of four lines logged in a row.         *)
LinesSeparate ==
    \A i \in Texts : i < Len(file) => file[i + 1] = Newline(file[i].line)
=============================================================================
