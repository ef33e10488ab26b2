--------------------------- MODULE DeviceIdentity ---------------------------
(***************************************************************************)
(* The device identity of src/src/device_identity.rs: load_or_create, as   *)
(* it is called by every gateway connection of a process, one after the    *)
(* other.  Which processes there are and when they open connections is     *)
(* said in Processes.  A caller that is killed leaves the file as it is.   *)
(***************************************************************************)
EXTENDS Naturals, FiniteSets

CONSTANTS
  Caller,      \* processes that open gateway connections
  MaxCalls     \* bound on the connections of each, for TLC

ASSUME IdentityAssumption == MaxCalls \in Nat

VARIABLES
  step,      \* where each call is
  file,      \* "absent", "truncated" or "complete"
  stored,    \* the identity in the file, if complete
  key,       \* the signing key a call works with; 0: none
  calls,     \* history: calls begun by each caller
  made,      \* history: number of keys generated
  paired     \* history: identities some connection has presented

dvars == <<step, file, stored, key, calls, made, paired>>

Identity == Nat \ {0}
Busy == {"read", "generated", "written"}

DInit ==
  /\ step = [c \in Caller |-> "idle"]
  /\ file = "absent" /\ stored = 0
  /\ key = [c \in Caller |-> 0]
  /\ calls = [c \in Caller |-> 0]
  /\ made = 0 /\ paired = {}

GoTo(c, point) == step' = [step EXCEPT ![c] = point]

Call(c) ==
  /\ step[c] = "idle" /\ calls[c] < MaxCalls
  /\ calls' = [calls EXCEPT ![c] = @ + 1]
  /\ GoTo(c, "read")
  /\ UNCHANGED <<file, stored, key, made, paired>>

(* NotFound: a key is generated.                                           *)
FileMissing(c) ==
  /\ step[c] = "read" /\ file = "absent"
  /\ made' = made + 1
  /\ key' = [key EXCEPT ![c] = made + 1]
  /\ GoTo(c, "generated")
  /\ UNCHANGED <<file, stored, calls, paired>>

(* A damaged file is an error, and stays as it is.                         *)
FileDamaged(c) ==
  /\ step[c] = "read" /\ file = "truncated"
  /\ GoTo(c, "idle")
  /\ UNCHANGED <<file, stored, key, calls, made, paired>>

FileRead(c) ==
  /\ step[c] = "read" /\ file = "complete"
  /\ key' = [key EXCEPT ![c] = stored]
  /\ paired' = paired \union {stored}
  /\ GoTo(c, "idle")
  /\ UNCHANGED <<file, stored, calls, made>>

(* fs::write: the file is created or truncated, then written.              *)
CreateFile(c) ==
  /\ step[c] = "generated"
  /\ file' = "truncated"
  /\ GoTo(c, "written")
  /\ UNCHANGED <<stored, key, calls, made, paired>>

StoredKey(c) == key[c]

(* restrict_permissions may still fail.                                    *)
StoreKey(c) ==
  /\ step[c] = "written"
  /\ file' = "complete" /\ stored' = StoredKey(c)
  /\ paired' \in {paired, paired \union {key[c]}}
  /\ GoTo(c, "idle")
  /\ UNCHANGED <<key, calls, made>>

(* Reading or writing fails, or the process is killed.                     *)
BreaksOff(c) ==
  /\ step[c] \in Busy
  /\ GoTo(c, "idle")
  /\ UNCHANGED <<file, stored, key, calls, made, paired>>

LoadOrCreate(c) ==
  \/ FileMissing(c) \/ FileDamaged(c) \/ FileRead(c) \/ CreateFile(c)
  \/ StoreKey(c) \/ BreaksOff(c)

-----------------------------------------------------------------------------
(* Properties.                                                             *)

DTypeOK ==
  /\ step \in [Caller -> Busy \union {"idle"}]
  /\ file \in {"absent", "truncated", "complete"} /\ stored \in Nat
  /\ key \in [Caller -> Nat] /\ calls \in [Caller -> Nat]
  /\ made \in Nat /\ paired \subseteq Identity

(* Whatever identity a connection has presented to the gateway, where it   *)
(* needs a manual approval, is the one every later connection presents:    *)
(* no kill, no failed write and no second call makes the pairing useless.  *)
PairingKept ==
  paired # {} => file = "complete" /\ paired = {stored}
=============================================================================
