--------------------------- MODULE SecureStorage ---------------------------
(***************************************************************************)
(* p3/exp5/aes/ta/aes_ta.c, the storage commands of all sessions on the    *)
(* persistent objects they share: every command opens its object with      *)
(* flags that say who may have it open at the same time, and works on it   *)
(* in further TEE calls, each of which may fail.                           *)
(***************************************************************************)
CONSTANTS Sessions, Objects, Data, Absent, Empty, NoReply, Idle

VARIABLES store,        \* object -> its data, Empty when just created
          call,         \* session -> the command it runs, with its object open
          reply         \* session -> params[1] of its last READ

Calls ==
  [command : {"write"}, object : Objects, data : Data]
    \cup [command : {"read", "delete"}, object : Objects]

StorageTypeOK ==
  /\ store \in [Objects -> Data \cup {Absent, Empty}]
  /\ call \in [Sessions -> Calls \cup {Idle}]
  /\ reply \in [Sessions -> Data \cup {Empty, NoReply}]

StorageInit ==
  /\ store = [o \in Objects |-> Absent]
  /\ call = [s \in Sessions |-> Idle]
  /\ reply = [s \in Sessions |-> NoReply]

Runs(s, command) == call[s] # Idle /\ call[s].command = command

OpenBy(o) == {s \in Sessions : call[s] # Idle /\ call[s].object = o}

\* Mutant: DELETE shares its object with readers.
SharesRead_delete(command) == command \in {"read", "delete"}

\* The commands whose flags have TEE_DATA_FLAG_SHARE_READ
SharesRead(command) == command = "read"

\* The storage opens an object that others have open only if all share it.
MayOpen(command, o) ==
  \A t \in OpenBy(o) : SharesRead(command) /\ SharesRead(call[t].command)

\* create_raw_object, TEE_CreatePersistentObject: OVERWRITE destroys an
\* existing object.
Create(s, o, data) ==
  /\ MayOpen("write", o)
  /\ store' = [store EXCEPT ![o] = Empty]
  /\ call' = [call EXCEPT ![s] = [command |-> "write", object |-> o, data |-> data]]
  /\ UNCHANGED reply

\* TEE_WriteObjectData and TEE_CloseObject
Write(s) ==
  /\ Runs(s, "write")
  /\ store' = [store EXCEPT ![call[s].object] = call[s].data]
  /\ call' = [call EXCEPT ![s] = Idle]
  /\ UNCHANGED reply

\* TEE_WriteObjectData fails.  Nobody looks at the result of the
\* TEE_CloseAndDeletePersistentObject1 that follows, which closes the object
\* and may fail to remove it.
WriteFails(s) ==
  /\ Runs(s, "write")
  /\ \E left \in {Absent, Empty} : store' = [store EXCEPT ![call[s].object] = left]
  /\ call' = [call EXCEPT ![s] = Idle]
  /\ UNCHANGED reply

\* read_raw_object and delete_object, TEE_OpenPersistentObject
Open(s, command, o) ==
  /\ store[o] # Absent
  /\ MayOpen(command, o)
  /\ call' = [call EXCEPT ![s] = [command |-> command, object |-> o]]
  /\ UNCHANGED <<store, reply>>

\* TEE_ReadObjectData and TEE_CloseObject
Read(s) ==
  /\ Runs(s, "read")
  /\ reply' = [reply EXCEPT ![s] = store[call[s].object]]
  /\ call' = [call EXCEPT ![s] = Idle]
  /\ UNCHANGED store

\* The buffer is too short, or a TEE call fails.
ReadFails(s) ==
  /\ Runs(s, "read")
  /\ call' = [call EXCEPT ![s] = Idle]
  /\ UNCHANGED <<store, reply>>

\* delete_object, TEE_CloseAndDeletePersistentObject1: the command returns
\* success whether or not the object is removed.
Delete(s) ==
  /\ Runs(s, "delete")
  /\ \/ store' = [store EXCEPT ![call[s].object] = Absent]
     \/ UNCHANGED store
  /\ call' = [call EXCEPT ![s] = Idle]
  /\ UNCHANGED reply

StorageStep(s) ==
  \/ /\ call[s] = Idle
     /\ \E o \in Objects :
          \/ \E data \in Data : Create(s, o, data)
          \/ Open(s, "read", o)
          \/ Open(s, "delete", o)
  \/ Write(s) \/ WriteFails(s) \/ Read(s) \/ ReadFails(s) \/ Delete(s)

\* The TEE stops and starts again: the files stay as they are.
StorageCrash ==
  /\ call' = [s \in Sessions |-> Idle]
  /\ reply' = [s \in Sessions |-> NoReply]
  /\ UNCHANGED store
-----------------------------------------------------------------------------
\* An object being written is absent until the WRITE completes.
Visible ==
  [o \in Objects |-> IF \E s \in OpenBy(o) : Runs(s, "write") THEN Absent ELSE store[o]]

Store == INSTANCE ObjectStore WITH store <- Visible

(* No interleaving of the sessions' commands, no failure of a TEE call in  *)
(* the middle of one and no crash shows a client an object while it is     *)
(* being written, or one already deleted: the multi-step commands          *)
(* implement an atomic store, in which only a WRITE cut short -- by a      *)
(* crash, or by a failure that the code could not undo -- leaves an object *)
(* empty.                                                                  *)
ImplementsStore == Store!Spec
=============================================================================
