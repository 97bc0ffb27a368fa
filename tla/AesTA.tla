------------------------------- MODULE AesTA -------------------------------
(***************************************************************************)
(* The trusted application of p3/exp5/aes as its clients drive it: every   *)
(* open session invokes the ciphering and the storage commands in any      *)
(* order, one at a time, while the sessions run concurrently on the shared *)
(* objects and the TEE may stop at any moment.                             *)
(***************************************************************************)
EXTENDS AesSession

CONSTANTS Objects, Data, Absent, Empty, NoReply, Idle
VARIABLES store, call, reply

INSTANCE SecureStorage

ASSUME StorageAssumption == Idle \notin Calls /\ Absent \notin Data \cup {Empty}

vars == <<phase, at, sess, tee, store, call, reply>>

TypeOK == AesTypeOK /\ StorageTypeOK

Init == AesInit /\ StorageInit

\* TA_InvokeCommandEntryPoint and the opening and closing of sessions: the
\* instance of a session is busy until its command has returned.
Cipher(s) == call[s] = Idle /\ AesStep(s) /\ UNCHANGED <<store, call, reply>>

Storage(s) == phase[s] = "open" /\ at[s] = "ready" /\ StorageStep(s) /\ UNCHANGED aesVars

Crash ==
  /\ phase' = [s \in Sessions |-> "closed"]
  /\ at' = [s \in Sessions |-> "ready"]
  /\ sess' = [s \in Sessions |-> aes_cipher]
  /\ tee' = [s \in Sessions |-> NothingAllocated]
  /\ StorageCrash

Next == (\E s \in Sessions : Cipher(s) \/ Storage(s)) \/ Crash

Spec == Init /\ [][Next]_vars
=============================================================================
