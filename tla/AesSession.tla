----------------------------- MODULE AesSession -----------------------------
(***************************************************************************)
(* p3/exp5/aes/ta/aes_ta.c, the ciphering commands: what a session of the  *)
(* trusted application holds in the TEE, an operation and a transient key  *)
(* object, across any sequence of commands.  alloc_resources and           *)
(* set_aes_key are one step per TEE call that may fail, so that what was   *)
(* allocated before a failure exists until the code frees it.  A handle is *)
(* represented by the key size it was allocated for.  Every session has an *)
(* instance of its own, which serves one command at a time.                *)
(***************************************************************************)
EXTENDS Integers, FiniteSets

CONSTANTS Sessions,
          KeySizes,     \* AES128_KEY_BYTE_SIZE, AES256_KEY_BYTE_SIZE
          NULL          \* TEE_HANDLE_NULL

ASSUME KeySizesAssumption == KeySizes \subseteq Nat \ {0} /\ NULL \notin KeySizes

VARIABLES phase,        \* session -> "closed", "open", or "dead" by a panic
          at,           \* session -> the next statement of its command
          sess,         \* session -> struct aes_cipher
          tee           \* session -> what the TEE keeps for it

aesVars == <<phase, at, sess, tee>>

Handles == KeySizes \cup {NULL}

\* "ready" between two commands, and the calls of alloc_resources, its err:,
\* and the last call of set_aes_key
Statements == {"ready", "operation", "object", "dummy", "err", "load"}

\* struct aes_cipher as TA_OpenSessionEntryPoint leaves it: TEE_Malloc zeroes
\* it, key_size included.
aes_cipher == [key_size |-> 0, op_handle |-> NULL, key_handle |-> NULL]

\* The TEE's side: how many operations and objects are allocated, whether the
\* operation has a key, whether it has its vector; and, for the properties,
\* whether a SET_KEY of this operation has failed in TEE_SetOperationKey.
NothingAllocated == [operations |-> 0, objects |-> 0,
                     keyed |-> FALSE, active |-> FALSE, spoilt |-> FALSE]

AesTypeOK ==
  /\ phase \in [Sessions -> {"closed", "open", "dead"}]
  /\ at \in [Sessions -> Statements]
  /\ sess \in [Sessions -> [key_size : KeySizes \cup {0},
                            op_handle : Handles, key_handle : Handles]]
  /\ tee \in [Sessions -> [operations : Nat, objects : Nat,
                           keyed : BOOLEAN, active : BOOLEAN, spoilt : BOOLEAN]]

AesInit ==
  /\ phase = [s \in Sessions |-> "closed"]
  /\ at = [s \in Sessions |-> "ready"]
  /\ sess = [s \in Sessions |-> aes_cipher]
  /\ tee = [s \in Sessions |-> NothingAllocated]

OpenSession(s) ==
  /\ phase[s] = "closed"
  /\ phase' = [phase EXCEPT ![s] = "open"]
  /\ sess' = [sess EXCEPT ![s] = aes_cipher]
  /\ UNCHANGED <<at, tee>>

Held(handle) == IF handle = NULL THEN 0 ELSE 1

\* TEE_FreeOperation on an operation that is held; its key goes with it.
OperationFreed(c, t) ==
  [operations |-> t.operations - Held(c.op_handle), objects |-> t.objects,
   keyed |-> FALSE, active |-> FALSE, spoilt |-> FALSE]

\* TEE_FreeTransientObject on a key object that is held
ObjectFreed(c, t) ==
  [t EXCEPT !.objects = @ - Held(c.key_handle)]

\* Mutant: the handles are freed without the tests for TEE_HANDLE_NULL.
Released_untested(c, t) ==
  [NothingAllocated EXCEPT !.operations = t.operations - 1, !.objects = t.objects - 1]

Released(c, t) == ObjectFreed(c, OperationFreed(c, t))

CloseSession(s) ==
  /\ phase[s] = "open" /\ at[s] = "ready"
  /\ phase' = [phase EXCEPT ![s] = "closed"]
  /\ tee' = [tee EXCEPT ![s] = Released(sess[s], @)]
  /\ sess' = [sess EXCEPT ![s] = aes_cipher]
  /\ UNCHANGED at

Goes(s, from, to) == at[s] = from /\ at' = [at EXCEPT ![s] = to]

\* alloc_resources takes over the size from its parameters...
Prepare(s) ==
  /\ phase[s] = "open"
  /\ Goes(s, "ready", "operation")
  /\ \E size \in KeySizes : sess' = [sess EXCEPT ![s].key_size = size]
  /\ UNCHANGED <<phase, tee>>

\* ... and returns if it then refuses the mode.
PrepareRefused(s) ==
  /\ phase[s] = "open" /\ at[s] = "ready"
  /\ \E size \in KeySizes : sess' = [sess EXCEPT ![s].key_size = size]
  /\ UNCHANGED <<phase, at, tee>>

\* The previous operation is freed, and TEE_AllocateOperation succeeds or not.
AllocateOperation(s) ==
  LET c == sess[s]
      t == OperationFreed(c, tee[s])
  IN /\ \/ /\ Goes(s, "operation", "object")
           /\ sess' = [sess EXCEPT ![s].op_handle = c.key_size]
           /\ tee' = [tee EXCEPT ![s] = [t EXCEPT !.operations = @ + 1]]
        \/ /\ Goes(s, "operation", "err")
           /\ sess' = [sess EXCEPT ![s].op_handle = NULL]
           /\ tee' = [tee EXCEPT ![s] = t]
     /\ UNCHANGED phase

\* Mutant: the handle of the freed object is kept when there is no new one.
AllocateObject_dangling(s) ==
  LET c == sess[s]
      t == ObjectFreed(c, tee[s])
  IN /\ \/ /\ Goes(s, "object", "dummy")
           /\ sess' = [sess EXCEPT ![s].key_handle = c.key_size]
           /\ tee' = [tee EXCEPT ![s] = [t EXCEPT !.objects = @ + 1]]
        \/ /\ Goes(s, "object", "err")
           /\ tee' = [tee EXCEPT ![s] = t]
           /\ UNCHANGED sess
     /\ UNCHANGED phase

\* The previous key object, and TEE_AllocateTransientObject
AllocateObject(s) ==
  LET c == sess[s]
      t == ObjectFreed(c, tee[s])
  IN /\ \/ /\ Goes(s, "object", "dummy")
           /\ sess' = [sess EXCEPT ![s].key_handle = c.key_size]
           /\ tee' = [tee EXCEPT ![s] = [t EXCEPT !.objects = @ + 1]]
        \/ /\ Goes(s, "object", "err")
           /\ sess' = [sess EXCEPT ![s].key_handle = NULL]
           /\ tee' = [tee EXCEPT ![s] = t]
     /\ UNCHANGED phase

\* Mutant: that the operation does not take the dummy key goes unnoticed.
LoadDummyKey_unchecked(s) ==
  /\ \/ /\ Goes(s, "dummy", "ready")
        /\ \E taken \in BOOLEAN : tee' = [tee EXCEPT ![s].keyed = taken]
     \/ Goes(s, "dummy", "err") /\ UNCHANGED tee
  /\ UNCHANGED <<phase, sess>>

\* The dummy key that lets set_aes_key reset the operation: TEE_Malloc and
\* TEE_PopulateTransientObject, then TEE_SetOperationKey
LoadDummyKey(s) ==
  /\ \/ /\ Goes(s, "dummy", "ready")
        /\ tee' = [tee EXCEPT ![s].keyed = TRUE]
     \/ Goes(s, "dummy", "err") /\ UNCHANGED tee
  /\ UNCHANGED <<phase, sess>>

\* err: frees what is there, and alloc_resources returns the error.
PrepareFails(s) ==
  /\ Goes(s, "err", "ready")
  /\ tee' = [tee EXCEPT ![s] = Released(sess[s], @)]
  /\ sess' = [sess EXCEPT ![s].op_handle = NULL, ![s].key_handle = NULL]
  /\ UNCHANGED phase

\* set_aes_key: the client's key has the size the session is set to, and
\* TEE_ResetTransientObject empties the key object.
SetKey(s) ==
  /\ phase[s] = "open"
  /\ sess[s].key_handle # NULL
  /\ Goes(s, "ready", "load")
  /\ UNCHANGED <<phase, sess, tee>>

\* TEE_PopulateTransientObject fails, as it may for a key that is too long for
\* the object: set_aes_key returns with the operation as it was.
KeyRefused(s) ==
  /\ Goes(s, "load", "ready")
  /\ UNCHANGED <<phase, sess, tee>>

\* TEE_ResetOperation, which an operation without a key does not survive, and
\* TEE_SetOperationKey.  When this fails the operation keeps its key or has
\* lost it, as the TEE pleases.
LoadKey(s) ==
  /\ tee[s].keyed
  /\ sess[s].key_size <= sess[s].key_handle
  /\ Goes(s, "load", "ready")
  /\ \/ tee' = [tee EXCEPT ![s].active = FALSE, ![s].spoilt = FALSE]
     \/ \E keyed \in BOOLEAN :
          tee' = [tee EXCEPT ![s].active = FALSE, ![s].keyed = keyed,
                             ![s].spoilt = TRUE]
  /\ UNCHANGED <<phase, sess>>

\* reset_aes_iv
SetIV(s) ==
  /\ phase[s] = "open" /\ at[s] = "ready"
  /\ tee[s].keyed
  /\ tee' = [tee EXCEPT ![s].active = TRUE]
  /\ UNCHANGED <<phase, at, sess>>

\* A session's instance calls the TEE on a handle it does not hold, with a key
\* too long for the object, or on an operation that is not ready for the call:
\* set_aes_key and reset_aes_iv test no handle, and cipher_buffer and
\* dect_buffer test no vector.
Misuses(s) ==
  \/ at[s] = "load" /\ (~tee[s].keyed \/ sess[s].key_size > sess[s].key_handle)
  \/ at[s] = "ready" /\ (~tee[s].keyed \/ ~tee[s].active)

\* The TEE then stops the instance and frees what it had.
Panic(s) ==
  /\ phase[s] = "open"
  /\ Misuses(s)
  /\ phase' = [phase EXCEPT ![s] = "dead"]
  /\ at' = [at EXCEPT ![s] = "ready"]
  /\ sess' = [sess EXCEPT ![s] = aes_cipher]
  /\ tee' = [tee EXCEPT ![s] = NothingAllocated]

\* The client closes the session of a dead instance: no code of it runs.
Forget(s) ==
  /\ phase[s] = "dead"
  /\ phase' = [phase EXCEPT ![s] = "closed"]
  /\ UNCHANGED <<at, sess, tee>>

AesStep(s) ==
  \/ OpenSession(s) \/ CloseSession(s) \/ Panic(s) \/ Forget(s)
  \/ Prepare(s) \/ PrepareRefused(s) \/ AllocateOperation(s) \/ AllocateObject(s)
  \/ LoadDummyKey(s) \/ PrepareFails(s)
  \/ SetKey(s) \/ KeyRefused(s) \/ LoadKey(s) \/ SetIV(s)
-----------------------------------------------------------------------------
(* After every TEE call, the one that fails and those of err: included,    *)
(* what the TEE has allocated for a session is what the session's handles  *)
(* stand for: no sequence of PREPAREs, failures and closings leaks an      *)
(* operation or a key object (a TEE has a handful) or frees one twice, and *)
(* alloc_resources leaves a session both or neither.                       *)
HandlesOwned ==
  \A s \in Sessions :
    /\ tee[s].operations = Held(sess[s].op_handle)
    /\ tee[s].objects = Held(sess[s].key_handle)
    /\ at[s] = "ready" => tee[s].operations = tee[s].objects
    /\ phase[s] # "open" => tee[s] = NothingAllocated

(* The comment on the dummy key in alloc_resources: between two commands   *)
(* the operation that a session holds has a key, so that SET_KEY may reset *)
(* it, whatever call of a PREPARE or SET_KEY has failed -- but for a       *)
(* SET_KEY that failed in TEE_SetOperationKey itself, until the next one   *)
(* or a PREPARE succeeds; and an operation with a vector, which CIPHER may *)
(* use, has a key without exception.                                       *)
OperationKeyed ==
  \A s \in Sessions :
    /\ at[s] = "ready" /\ sess[s].op_handle # NULL => tee[s].keyed \/ tee[s].spoilt
    /\ tee[s].active => tee[s].keyed
=============================================================================
