---------------------------- MODULE InstanceLock ----------------------------
(***************************************************************************)
(* The single-instance lock of src/src/instance_lock.rs: any number of     *)
(* processes start, try flock on one fixed file, note their PID in it or   *)
(* report the PID they find there, and end or are killed at any point.     *)
(* The kernel's flock is modelled from how it is used: LOCK_EX | LOCK_NB,  *)
(* released when the holder's descriptor goes away.                        *)
(***************************************************************************)
EXTENDS Naturals

CONSTANTS
  Process,   \* all processes ever started, named by their PID
  None       \* no process; in the file: empty

ASSUME NoneAssumption == None \notin Process

VARIABLES
  pc,        \* where each process is
  holder,    \* the process whose descriptor holds the flock
  content,   \* the PID in the lock file
  named,     \* the PID a refused process reports
  held       \* history: processes that have held the lock

ivars == <<pc, holder, content, named, held>>

Points == {"new", "tryLock", "truncate", "writePid", "running", "readPid",
           "refused", "gone"}

IInit ==
  /\ pc = [p \in Process |-> "new"]
  /\ holder = None /\ content = None
  /\ named = [p \in Process |-> None]
  /\ held = {}

(* Faults: a shared lock, a lock that outlives its holder, a PID noted     *)
(* before the lock is held.                                                *)
AlwaysFree       == TRUE
LockOutlives(p)  == holder
PidNotedEarly(p) == p

At(p, point) == pc[p] = point
Move(p, point) == pc' = [pc EXCEPT ![p] = point]

(* The file is created if need be, but not truncated.                      *)
ContentOnOpen(p) == content

OpenFile(p) ==
  /\ At(p, "new")
  /\ content' = ContentOnOpen(p)
  /\ Move(p, "tryLock")
  /\ UNCHANGED <<holder, named, held>>

LockFree == holder = None

TryLock(p) ==
  /\ At(p, "tryLock")
  /\ \/ /\ LockFree
        /\ holder' = p /\ held' = held \union {p}
        /\ Move(p, "truncate")
     \/ /\ ~LockFree
        /\ Move(p, "readPid")
        /\ UNCHANGED <<holder, held>>
  /\ UNCHANGED <<content, named>>

(* write_pid: set_len(0), then the PID; a failure is only logged.          *)
Truncate(p) ==
  /\ At(p, "truncate")
  /\ \/ content' = None /\ Move(p, "writePid")
     \/ UNCHANGED content /\ Move(p, "running")
  /\ UNCHANGED <<holder, named, held>>

WritePid(p) ==
  /\ At(p, "writePid")
  /\ content' \in {p, content}
  /\ Move(p, "running")
  /\ UNCHANGED <<holder, named, held>>

(* read_pid, which may fail, and the error message; the process ends with  *)
(* it.                                                                     *)
Refuse(p) ==
  /\ At(p, "readPid")
  /\ \E pid \in {content, None} : named' = [named EXCEPT ![p] = pid]
  /\ Move(p, "refused")
  /\ UNCHANGED <<holder, content, held>>

HolderAfter(p) == IF holder = p THEN None ELSE holder

(* main returns, or the process is killed: the descriptor is closed.       *)
Ends(p) ==
  /\ pc[p] \notin {"new", "refused", "gone"}
  /\ holder' = HolderAfter(p)
  /\ Move(p, "gone")
  /\ UNCHANGED <<content, named, held>>

(* No further process is started.                                          *)
AllOver ==
  /\ \A p \in Process : pc[p] \in {"refused", "gone"}
  /\ UNCHANGED ivars

INext ==
  \/ \E p \in Process : \/ OpenFile(p) \/ TryLock(p) \/ Truncate(p)
                        \/ WritePid(p) \/ Refuse(p) \/ Ends(p)
  \/ AllOver

ISpec == IInit /\ [][INext]_ivars

-----------------------------------------------------------------------------
(* Properties.                                                             *)

ITypeOK ==
  /\ pc \in [Process -> Points]
  /\ holder \in Process \union {None} /\ content \in Process \union {None}
  /\ named \in [Process -> Process \union {None}]
  /\ held \subseteq Process

(* Two instances never run side by side, however starts, ends and kills    *)
(* interleave: one microphone, one wake-word listener.                     *)
OneInstance ==
  \A p, q \in Process : At(p, "running") /\ At(q, "running") => p = q

(* A lock file left behind is never stale: the lock is held only by a      *)
(* process that is alive and past acquiring it.                            *)
NeverStale ==
  \A p \in Process :
    holder = p => pc[p] \in {"truncate", "writePid", "running"}

(* A refusal names no process that did not at some time hold the lock.     *)
(* (It may name a former holder: the present one notes its PID only after  *)
(* it has the lock.)                                                       *)
NamesAnInstance ==
  \A p \in Process : named[p] # None => named[p] \in held
=============================================================================
