------------------------------ MODULE Processes ------------------------------
(***************************************************************************)
(* The processes of src/src/main.rs side by side: services, which take the *)
(* instance lock before anything else and open gateway connections only    *)
(* while they hold it, and calls of --probe-gateway, which open one        *)
(* without the lock (main.rs:59-64).  Each connection loads the device     *)
(* identity, or creates it.  InstanceLock and DeviceIdentity share no      *)
(* state but the process: where it ends, both end.                         *)
(***************************************************************************)
EXTENDS InstanceLock, DeviceIdentity

(* Callers that are no Process are probes.                                 *)
ASSUME CallerAssumption == Process \subseteq Caller

pvars == <<ivars, dvars>>

PInit == IInit /\ DInit

(* Fault: the connection is opened before the lock is held.                *)
BeforeTheLock(c) == c \in Process => pc[c] \notin {"new", "refused", "gone"}

(* The main loop of a service begins when the lock is held and the PID is  *)
(* written; a probe runs at any time.                                      *)
MayConnect(c) == c \in Process => At(c, "running")

Connects(c) == MayConnect(c) /\ Call(c) /\ UNCHANGED ivars

Loads(c) == LoadOrCreate(c) /\ UNCHANGED ivars

Locks(p) ==
  /\ OpenFile(p) \/ TryLock(p) \/ Truncate(p) \/ WritePid(p) \/ Refuse(p)
  /\ UNCHANGED dvars

(* A process that ends takes its call with it.                             *)
Dies(p) ==
  /\ Ends(p)
  /\ IF step[p] \in Busy THEN BreaksOff(p) ELSE UNCHANGED dvars

(* No further process is started, and no probe.                            *)
NothingRuns ==
  /\ \A p \in Process : pc[p] \in {"refused", "gone"}
  /\ \A c \in Caller : step[c] = "idle"
  /\ UNCHANGED pvars

PNext ==
  \/ \E p \in Process : Locks(p) \/ Dies(p)
  \/ \E c \in Caller : Connects(c) \/ Loads(c)
  \/ NothingRuns

PSpec == PInit /\ [][PNext]_pvars
=============================================================================
