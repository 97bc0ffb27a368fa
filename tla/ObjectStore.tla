---------------------------- MODULE ObjectStore ----------------------------
(***************************************************************************)
(* What the secure storage commands promise the clients of the trusted     *)
(* application: each object is absent or holds the data of one WRITE, a    *)
(* READ returns what the object holds, and one is left empty only by a     *)
(* crash or by a failed WRITE that could not be undone.                    *)
(***************************************************************************)
CONSTANTS Sessions, Objects, Data, Absent, Empty, NoReply

VARIABLES store,        \* object -> its data
          reply         \* session -> the data of its last READ

vars == <<store, reply>>

Init ==
  /\ store = [o \in Objects |-> Absent]
  /\ reply = [s \in Sessions |-> NoReply]

\* A WRITE completes.
Put(o, data) ==
  store' = [store EXCEPT ![o] = data] /\ UNCHANGED reply

\* A DELETE, or a WRITE that begins or fails
Remove(o) ==
  store' = [store EXCEPT ![o] = Absent] /\ UNCHANGED reply

\* A WRITE fails and the object it has made cannot be removed.
Abandon(o) ==
  /\ store[o] = Absent
  /\ store' = [store EXCEPT ![o] = Empty]
  /\ UNCHANGED reply

Get(s, o) ==
  /\ store[o] # Absent
  /\ reply' = [reply EXCEPT ![s] = store[o]]
  /\ UNCHANGED store

\* The TEE stops: the objects being written are left empty.
Crash ==
  /\ \E lost \in SUBSET {o \in Objects : store[o] = Absent} :
       store' = [o \in Objects |-> IF o \in lost THEN Empty ELSE store[o]]
  /\ reply' = [s \in Sessions |-> NoReply]

Next ==
  \/ \E o \in Objects, data \in Data : Put(o, data)
  \/ \E o \in Objects : Remove(o) \/ Abandon(o)
  \/ \E s \in Sessions, o \in Objects : Get(s, o)
  \/ Crash

Spec == Init /\ [][Next]_vars
=============================================================================
