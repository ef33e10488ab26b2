--------------------------- MODULE ProcessesProofs ---------------------------
(***************************************************************************)
(* Theorems about InstanceLock, for any number of processes, and about     *)
(* Processes: what the lock is worth for the device identity, for any      *)
(* number of services and of connections.                                  *)
(***************************************************************************)
EXTENDS Processes, TLAPS

(* A process is past acquiring the lock exactly while it holds it.         *)
HoldsInv ==
  \A p \in Process :
    pc[p] \in {"truncate", "writePid", "running"} <=> holder = p

(* What a file or a message names has held the lock.                       *)
NamedInv ==
  /\ holder # None => holder \in held
  /\ content # None => content \in held
  /\ NamesAnInstance

LockInv == ITypeOK /\ HoldsInv /\ NamedInv

(* The invariant holds initially.                                          *)
LEMMA LockInit == IInit => LockInv
BY NoneAssumption
   DEF IInit, LockInv, ITypeOK, Points, HoldsInv, NamedInv, NamesAnInstance

(* Every step keeps the invariant: one case per action.                    *)
LEMMA LockNext == LockInv /\ [INext]_ivars => LockInv'
<1> SUFFICES ASSUME LockInv, [INext]_ivars PROVE LockInv'
  OBVIOUS
<1> USE NoneAssumption
    DEF LockInv, ITypeOK, Points, HoldsInv, NamedInv, NamesAnInstance, At, Move
<1>1. ASSUME NEW p \in Process, OpenFile(p) PROVE LockInv'
  BY <1>1 DEF OpenFile, ContentOnOpen
<1>2. ASSUME NEW p \in Process, TryLock(p) PROVE LockInv'
  BY <1>2 DEF TryLock, LockFree
<1>3. ASSUME NEW p \in Process, Truncate(p) PROVE LockInv'
  BY <1>3 DEF Truncate
<1>4. ASSUME NEW p \in Process, WritePid(p) PROVE LockInv'
  BY <1>4 DEF WritePid
<1>5. ASSUME NEW p \in Process, Refuse(p) PROVE LockInv'
  BY <1>5 DEF Refuse
<1>6. ASSUME NEW p \in Process, Ends(p) PROVE LockInv'
  BY <1>6 DEF Ends, HolderAfter
<1>7. CASE UNCHANGED ivars
  BY <1>7 DEF ivars
<1> QED
  BY <1>1, <1>2, <1>3, <1>4, <1>5, <1>6, <1>7 DEF INext, AllOver

(* The invariant holds in every reachable state.                           *)
LEMMA LockInductive == ISpec => []LockInv
BY LockInit, LockNext, PTL DEF ISpec

(* However many processes are started, one runs at a time.                 *)
THEOREM AtMostOneInstance == ISpec => []OneInstance
<1>1. LockInv => OneInstance
  BY DEF LockInv, HoldsInv, OneInstance, At
<1> QED
  BY <1>1, LockInductive, PTL

(* The lock is never left to a process that is gone.                       *)
THEOREM LockNeverStale == ISpec => []NeverStale
<1>1. LockInv => NeverStale
  BY DEF LockInv, HoldsInv, NeverStale
<1> QED
  BY <1>1, LockInductive, PTL

(* A refusal names only a PID that has held the lock.                      *)
THEOREM RefusalNamesAnInstance == ISpec => []NamesAnInstance
<1>1. LockInv => NamesAnInstance
  BY DEF LockInv, NamedInv
<1> QED
  BY <1>1, LockInductive, PTL

-----------------------------------------------------------------------------
(* Every step of the processes is one of the lock, or leaves it alone.     *)
LEMMA LockStep == [PNext]_pvars => [INext]_ivars
<1> SUFFICES ASSUME [PNext]_pvars PROVE INext \/ UNCHANGED ivars
  OBVIOUS
<1>1. ASSUME NEW p \in Process, Locks(p) PROVE INext
  BY <1>1 DEF Locks, INext
<1>2. ASSUME NEW p \in Process, Dies(p) PROVE INext
  BY <1>2 DEF Dies, INext
<1>3. ASSUME NEW c \in Caller, Connects(c) \/ Loads(c) PROVE UNCHANGED ivars
  BY <1>3 DEF Connects, Loads
<1>4. NothingRuns \/ UNCHANGED pvars => UNCHANGED ivars
  BY DEF NothingRuns, pvars
<1> QED
  BY <1>1, <1>2, <1>3, <1>4 DEF PNext

(* The processes implement the lock's specification: the connections they  *)
(* open take nothing away from it, so its theorems hold here, too.         *)
THEOREM ProcessesKeepLock == PSpec => ISpec
<1>1. PInit => IInit
  BY DEF PInit
<1> QED
  BY <1>1, LockStep, PTL DEF PSpec, ISpec

(* Whatever else the processes do, one service runs at a time.             *)
THEOREM OneServiceRuns == PSpec => []OneInstance
BY ProcessesKeepLock, AtMostOneInstance, PTL

-----------------------------------------------------------------------------
(* Without a probe, a call of load_or_create is under way only in the      *)
(* process that holds the lock.                                            *)
BusyInv == \A c \in Caller : step[c] \in Busy => pc[c] = "running"

(* What a call has found or made of the file is still so when it goes on.  *)
FileInv ==
  \A c \in Caller :
    /\ step[c] = "generated" => file = "absent"
    /\ step[c] = "written" => file = "truncated"

KeyInv ==
  /\ \A c \in Caller : step[c] \in {"generated", "written"} => key[c] # 0
  /\ file = "complete" => stored # 0

PairInv == DTypeOK /\ BusyInv /\ FileInv /\ KeyInv /\ PairingKept

(* At most one call is under way.                                          *)
LEMMA OneBusy ==
  ASSUME Caller = Process, LockInv, BusyInv,
         NEW c \in Caller, NEW d \in Caller, step[c] \in Busy, step[d] \in Busy
  PROVE  c = d
BY DEF LockInv, HoldsInv, BusyInv

(* The invariant holds initially.                                          *)
LEMMA PairInit == PInit => PairInv
BY IdentityAssumption
   DEF PInit, DInit, PairInv, DTypeOK, BusyInv, FileInv, KeyInv, PairingKept,
       Busy, Identity

(* A call's step keeps what does not depend on the lock, if no other call  *)
(* is under way.                                                           *)
LEMMA LoadStep ==
  ASSUME PairInv, NEW c \in Caller, LoadOrCreate(c),
         \A d \in Caller : step[d] \in Busy => d = c
  PROVE  /\ DTypeOK' /\ FileInv' /\ KeyInv' /\ PairingKept'
         /\ step[c] \in Busy
         /\ \A d \in Caller : step'[d] \in Busy => d = c
<1> USE DEF PairInv, DTypeOK, FileInv, KeyInv, PairingKept, Busy, Identity,
            GoTo
<1>1. CASE FileMissing(c)
  BY <1>1 DEF FileMissing
<1>2. CASE FileDamaged(c)
  BY <1>2 DEF FileDamaged
<1>3. CASE FileRead(c)
  BY <1>3 DEF FileRead
<1>4. CASE CreateFile(c)
  BY <1>4 DEF CreateFile
<1>5. CASE StoreKey(c)
  BY <1>5 DEF StoreKey, StoredKey
<1>6. CASE BreaksOff(c)
  BY <1>6 DEF BreaksOff
<1> QED
  BY <1>1, <1>2, <1>3, <1>4, <1>5, <1>6 DEF LoadOrCreate

(* Every step of services keeps the invariant: one case per action.        *)
LEMMA PairNext ==
  ASSUME Caller = Process, LockInv, PairInv, [PNext]_pvars
  PROVE  PairInv'
<1>1. ASSUME NEW p \in Process, Locks(p) PROVE PairInv'
  <2>1. UNCHANGED dvars
    BY <1>1 DEF Locks
  <2>2. BusyInv'
    <3>1. pc[p] # "running"
      BY <1>1 DEF Locks, OpenFile, TryLock, Truncate, WritePid, Refuse, At
    <3>2. \A q \in Process : q # p => pc'[q] = pc[q]
      BY <1>1 DEF Locks, OpenFile, TryLock, Truncate, WritePid, Refuse, Move,
                  LockInv, ITypeOK
    <3> QED
      BY <2>1, <3>1, <3>2 DEF PairInv, BusyInv, dvars
  <2> QED
    BY <2>1, <2>2 DEF PairInv, DTypeOK, FileInv, KeyInv, PairingKept, dvars
<1>2. ASSUME NEW p \in Process, Dies(p) PROVE PairInv'
  <2>1. \A q \in Process : q # p => pc'[q] = pc[q]
    BY <1>2 DEF Dies, Ends, Move, LockInv, ITypeOK
  <2>2. CASE step[p] \in Busy
    <3>1. BreaksOff(p) /\ LoadOrCreate(p)
      BY <1>2, <2>2 DEF Dies, LoadOrCreate
    <3>2. \A d \in Caller : step[d] \in Busy => d = p
      BY <2>2, OneBusy DEF PairInv
    <3>3. DTypeOK' /\ FileInv' /\ KeyInv' /\ PairingKept'
      BY <3>1, <3>2, LoadStep
    <3>4. step'[p] = "idle"
      BY <3>1 DEF BreaksOff, GoTo, PairInv, DTypeOK
    <3>5. \A d \in Caller : step'[d] \in Busy => d = p
      BY <3>1, <3>2, LoadStep
    <3>6. BusyInv'
      BY <3>4, <3>5 DEF BusyInv, Busy
    <3> QED
      BY <3>3, <3>6 DEF PairInv
  <2>3. CASE step[p] \notin Busy
    <3>1. UNCHANGED dvars
      BY <1>2, <2>3 DEF Dies
    <3>2. BusyInv'
      BY <2>1, <2>3, <3>1 DEF PairInv, BusyInv, dvars
    <3> QED
      BY <3>1, <3>2 DEF PairInv, DTypeOK, FileInv, KeyInv, PairingKept, dvars
  <2> QED
    BY <2>2, <2>3
<1>3. ASSUME NEW c \in Caller, Connects(c) PROVE PairInv'
  <2>1. pc[c] = "running" /\ pc' = pc
    BY <1>3 DEF Connects, MayConnect, At, ivars
  <2>2. /\ step[c] = "idle" /\ step' = [step EXCEPT ![c] = "read"]
        /\ calls' = [calls EXCEPT ![c] = @ + 1]
        /\ UNCHANGED <<file, stored, key, made, paired>>
    BY <1>3 DEF Connects, Call, GoTo
  <2>3. DTypeOK'
    BY <2>2 DEF PairInv, DTypeOK, Busy
  <2>4. BusyInv'
    BY <2>1, <2>2 DEF PairInv, DTypeOK, BusyInv
  <2>5. FileInv' /\ KeyInv' /\ PairingKept'
    BY <2>2 DEF PairInv, DTypeOK, FileInv, KeyInv, PairingKept
  <2> QED
    BY <2>3, <2>4, <2>5 DEF PairInv
<1>4. ASSUME NEW c \in Caller, Loads(c) PROVE PairInv'
  <2>1. LoadOrCreate(c) /\ pc' = pc
    BY <1>4 DEF Loads, ivars
  <2>2. step[c] \in Busy
    BY <2>1 DEF LoadOrCreate, FileMissing, FileDamaged, FileRead, CreateFile,
                StoreKey, BreaksOff, Busy
  <2>3. \A d \in Caller : step[d] \in Busy => d = c
    BY <2>2, OneBusy DEF PairInv
  <2>4. /\ DTypeOK' /\ FileInv' /\ KeyInv' /\ PairingKept'
        /\ \A d \in Caller : step'[d] \in Busy => d = c
    BY <2>1, <2>3, LoadStep
  <2>5. BusyInv'
    BY <2>1, <2>2, <2>4 DEF PairInv, BusyInv
  <2> QED
    BY <2>4, <2>5 DEF PairInv
<1>5. CASE NothingRuns \/ UNCHANGED pvars
  <2>1. UNCHANGED <<ivars, dvars>>
    BY <1>5 DEF NothingRuns, pvars
  <2> QED
    BY <2>1 DEF PairInv, DTypeOK, BusyInv, FileInv, KeyInv, PairingKept,
                ivars, dvars
<1> QED
  BY <1>1, <1>2, <1>3, <1>4, <1>5 DEF PNext

(* Where every connection is a service's, the identity some connection has *)
(* presented to the gateway is in the file for good: kills at any point,   *)
(* failing writes and any number of instances do not cost the pairing.     *)
(* The lock is what it rests on; with a probe it does not hold.            *)
THEOREM PairingSurvives ==
  ASSUME Caller = Process
  PROVE  PSpec => []PairingKept
<1>1. PSpec => []LockInv
  BY ProcessesKeepLock, LockInductive, PTL
<1>2. LockInv /\ PairInv /\ [PNext]_pvars => PairInv'
  BY PairNext
<1>3. PairInv => PairingKept
  BY DEF PairInv
<1> QED
  BY PairInit, <1>1, <1>2, <1>3, PTL DEF PSpec
=============================================================================
