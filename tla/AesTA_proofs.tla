---------------------------- MODULE AesTA_proofs ----------------------------
(***************************************************************************)
(* For any number of sessions, key sizes, objects and data: the types of   *)
(* the trusted application, what its handles stand for after every TEE     *)
(* call, which failures leave an operation without a key, and that the     *)
(* storage commands implement ObjectStore.                                 *)
(***************************************************************************)
EXTENDS AesTA, TLAPS

\* The sessions on an object: many readers, or one that writes or deletes it.
Exclusive ==
  \A s, t \in Sessions :
    /\ call[s] # Idle /\ call[t] # Idle /\ call[s].object = call[t].object
    /\ s # t
    => SharesRead(call[s].command) /\ SharesRead(call[t].command)

\* What a session finds under the object that it has open.
Opened ==
  \A s \in Sessions : call[s] # Idle =>
    IF call[s].command = "write" THEN store[call[s].object] = Empty
                                 ELSE store[call[s].object] # Absent

\* Where in alloc_resources and set_aes_key a session has which handles, and
\* that its key size is set there
Paired ==
  \A s \in Sessions :
    /\ phase[s] # "open" => at[s] = "ready"
    /\ at[s] # "ready" \/ sess[s].op_handle # NULL => sess[s].key_size # 0
    /\ at[s] \in {"object", "dummy", "load"} => sess[s].op_handle # NULL
    /\ at[s] \in {"dummy", "load"} => sess[s].key_handle # NULL
    /\ at[s] = "load" => tee[s].keyed \/ tee[s].spoilt

IInv == TypeOK /\ HandlesOwned /\ OperationKeyed /\ Paired /\ Exclusive /\ Opened

-----------------------------------------------------------------------------
Phases  == {"closed", "open", "dead"}
Ciphers == [key_size : KeySizes \cup {0}, op_handle : Handles, key_handle : Handles]
Tees    == [operations : Nat, objects : Nat,
            keyed : BOOLEAN, active : BOOLEAN, spoilt : BOOLEAN]

\* What IInv says of one session, and a step that only this session takes.
Sound(where, w, c, t) ==
  /\ where \in Phases /\ w \in Statements /\ c \in Ciphers /\ t \in Tees
  /\ t.operations = Held(c.op_handle) /\ t.objects = Held(c.key_handle)
  /\ w = "ready" => t.operations = t.objects
  /\ where # "open" => t = NothingAllocated
  /\ w = "ready" /\ c.op_handle # NULL => t.keyed \/ t.spoilt
  /\ t.active => t.keyed
  /\ where # "open" => w = "ready"
  /\ w # "ready" \/ c.op_handle # NULL => c.key_size # 0
  /\ w \in {"object", "dummy", "load"} => c.op_handle # NULL
  /\ w \in {"dummy", "load"} => c.key_handle # NULL
  /\ w = "load" => t.keyed \/ t.spoilt

Becomes(s, where, w, c, t) ==
  /\ phase' = [phase EXCEPT ![s] = where]
  /\ at' = [at EXCEPT ![s] = w]
  /\ sess' = [sess EXCEPT ![s] = c]
  /\ tee' = [tee EXCEPT ![s] = t]

Tables == /\ phase \in [Sessions -> Phases] /\ at \in [Sessions -> Statements]
          /\ sess \in [Sessions -> Ciphers] /\ tee \in [Sessions -> Tees]

AllSound == Tables /\ \A s \in Sessions : Sound(phase[s], at[s], sess[s], tee[s])

LEMMA SoundSessions ==
  AllSound <=> AesTypeOK /\ HandlesOwned /\ OperationKeyed /\ Paired
  BY DEF AllSound, Tables, Sound, AesTypeOK, HandlesOwned, OperationKeyed, Paired,
         Phases, Ciphers, Tees

LEMMA OneSession ==
  ASSUME AllSound, NEW s \in Sessions, NEW where, NEW w, NEW c, NEW t,
         Sound(where, w, c, t), Becomes(s, where, w, c, t)
  PROVE  AllSound'
<1>1. Tables /\ where \in Phases /\ w \in Statements /\ c \in Ciphers /\ t \in Tees
  BY DEF AllSound, Sound
<1>2. Tables'
  BY <1>1 DEF Tables, Becomes, Phases, Ciphers, Tees, Handles, Statements
<1>3. \A u \in Sessions : /\ phase'[u] = IF u = s THEN where ELSE phase[u]
                          /\ at'[u] = IF u = s THEN w ELSE at[u]
                          /\ sess'[u] = IF u = s THEN c ELSE sess[u]
                          /\ tee'[u] = IF u = s THEN t ELSE tee[u]
  BY <1>1 DEF Tables, Becomes
<1>4. ASSUME NEW u \in Sessions
      PROVE  Sound(phase'[u], at'[u], sess'[u], tee'[u])
  <2>1. CASE u = s
    BY <1>3, <2>1
  <2>2. CASE u # s
    <3>1. phase'[u] = phase[u] /\ at'[u] = at[u] /\ sess'[u] = sess[u] /\ tee'[u] = tee[u]
      BY <1>3, <2>2
    <3>2. Sound(phase[u], at[u], sess[u], tee[u])
      BY DEF AllSound
    <3>3. QED
      BY <3>1, <3>2
  <2>3. QED
    BY <2>1, <2>2
<1>5. \A u \in Sessions : Sound(phase[u], at[u], sess[u], tee[u])'
  BY <1>4 DEF Sound, Phases, Ciphers, Tees, Handles, Held, NothingAllocated, Statements
<1>6. QED
  BY <1>2, <1>5 DEF AllSound

\* What freeing leaves of a session in order
LEMMA Freeing ==
  ASSUME NEW where, NEW w, NEW c, NEW t, Sound(where, w, c, t)
  PROVE  /\ Released(c, t) = NothingAllocated
         /\ \E f \in Tees : /\ f = OperationFreed(c, t)
                            /\ f.operations = 0 /\ f.objects = t.objects /\ ~f.active
         /\ \E f \in Tees : /\ f = ObjectFreed(c, t)
                            /\ f.operations = t.operations /\ f.objects = 0
                            /\ f.keyed = t.keyed /\ f.active = t.active
<1>1. /\ t \in Tees /\ t.operations - Held(c.op_handle) = 0
      /\ t.objects - Held(c.key_handle) = 0
  BY DEF Sound, Held
<1> DEFINE f == [operations |-> 0, objects |-> t.objects,
                 keyed |-> FALSE, active |-> FALSE, spoilt |-> FALSE]
           g == [t EXCEPT !.objects = 0]
<1>2. OperationFreed(c, t) = f /\ ObjectFreed(c, t) = g
  BY <1>1 DEF OperationFreed, ObjectFreed
<1>3. f \in Tees /\ f.operations = 0 /\ f.objects = t.objects /\ ~f.active
  BY <1>1 DEF Tees
<1>4. /\ g \in Tees /\ g.operations = t.operations /\ g.objects = 0
      /\ g.keyed = t.keyed /\ g.active = t.active
  BY <1>1 DEF Tees
<1>5. Released(c, t) = NothingAllocated
  <2>1. Released(c, t) = [f EXCEPT !.objects = f.objects - Held(c.key_handle)]
    BY <1>2 DEF Released, ObjectFreed
  <2>2. f.objects - Held(c.key_handle) = 0
    BY <1>1
  <2>3. QED
    BY <2>1, <2>2 DEF NothingAllocated
<1>6. QED
  BY <1>2, <1>3, <1>4, <1>5

\* What allocating adds
LEMMA Allocating ==
  ASSUME NEW t \in Tees
  PROVE  /\ \E a \in Tees : /\ a = [t EXCEPT !.operations = @ + 1]
                            /\ a.operations = t.operations + 1 /\ a.objects = t.objects
                            /\ a.keyed = t.keyed /\ a.active = t.active
         /\ \E a \in Tees : /\ a = [t EXCEPT !.objects = @ + 1]
                            /\ a.operations = t.operations /\ a.objects = t.objects + 1
                            /\ a.keyed = t.keyed /\ a.active = t.active
<1> DEFINE a == [t EXCEPT !.operations = @ + 1]
           b == [t EXCEPT !.objects = @ + 1]
<1>1. /\ a \in Tees /\ a.operations = t.operations + 1 /\ a.objects = t.objects
      /\ a.keyed = t.keyed /\ a.active = t.active
  BY DEF Tees
<1>2. /\ b \in Tees /\ b.operations = t.operations /\ b.objects = t.objects + 1
      /\ b.keyed = t.keyed /\ b.active = t.active
  BY DEF Tees
<1>3. QED
  BY <1>1, <1>2

\* A session with nothing is in order whatever its key size.
LEMMA EmptySound ==
  ASSUME NEW where \in Phases, NEW c \in Ciphers,
         c.op_handle = NULL, c.key_handle = NULL
  PROVE  Sound(where, "ready", c, NothingAllocated)
  BY DEF Sound, NothingAllocated, Tees, Held, Statements

LEMMA NewCipher == aes_cipher \in Ciphers /\ aes_cipher.op_handle = NULL
                   /\ aes_cipher.key_handle = NULL
  BY DEF aes_cipher, Ciphers, Handles

\* The calls of alloc_resources
LEMMA PrepareKept ==
  ASSUME AllSound, NEW s \in Sessions,
         AllocateOperation(s) \/ AllocateObject(s) \/ LoadDummyKey(s) \/ PrepareFails(s)
  PROVE  AllSound'
<1> DEFINE c == sess[s]
           t == tee[s]
           w == at[s]
<1>0. /\ Sound(phase[s], w, c, t) /\ phase[s] \in Phases /\ w \in Statements
      /\ c \in Ciphers /\ t \in Tees
      /\ phase = [phase EXCEPT ![s] = phase[s]] /\ sess = [sess EXCEPT ![s] = c]
      /\ tee = [tee EXCEPT ![s] = t]
  BY DEF AllSound, Tables
<1>k. \A size \in KeySizes : size # NULL /\ size # 0
  BY KeySizesAssumption
<1>f. Released(c, t) = NothingAllocated
  BY <1>0, Freeing
<1>1. CASE AllocateOperation(s)
  <2>1. w = "operation" /\ phase[s] = "open" /\ c.key_size \in KeySizes
    BY <1>0, <1>1 DEF AllocateOperation, Goes, Sound, Ciphers
  <2>2. PICK freed \in Tees : /\ freed = OperationFreed(c, t) /\ freed.operations = 0
                              /\ freed.objects = t.objects /\ ~freed.active
    BY <1>0, Freeing
  <2>3. PICK made \in Tees : /\ made = [freed EXCEPT !.operations = @ + 1]
                             /\ made.operations = freed.operations + 1
                             /\ made.objects = freed.objects
                             /\ made.active = freed.active
    BY Allocating
  <2> DEFINE c2 == [c EXCEPT !.op_handle = c.key_size]
             c3 == [c EXCEPT !.op_handle = NULL]
  <2>4. \/ Becomes(s, "open", "object", c2, made)
        \/ Becomes(s, "open", "err", c3, freed)
    BY <1>0, <1>1, <2>1, <2>2, <2>3 DEF AllocateOperation, Goes, Becomes
  <2>5. /\ c2 \in Ciphers /\ c2.op_handle = c.key_size /\ c2.key_handle = c.key_handle
        /\ c2.key_size = c.key_size
    BY <1>0, <2>1 DEF Ciphers, Handles
  <2>6. /\ c3 \in Ciphers /\ c3.op_handle = NULL /\ c3.key_handle = c.key_handle
        /\ c3.key_size = c.key_size
    BY <1>0, <2>1 DEF Ciphers, Handles
  <2>7. Sound("open", "object", c2, made)
    BY <1>0, <1>k, <2>1, <2>2, <2>3, <2>5 DEF Sound, Held, Phases, Statements
  <2>8. Sound("open", "err", c3, freed)
    BY <1>0, <1>k, <2>1, <2>2, <2>6 DEF Sound, Held, Phases, Statements
  <2>9. QED
    BY <2>4, <2>7, <2>8, OneSession
<1>2. CASE AllocateObject(s)
  <2>1. w = "object" /\ phase[s] = "open" /\ c.key_size \in KeySizes
    BY <1>0, <1>2 DEF AllocateObject, Goes, Sound, Ciphers
  <2>2. PICK freed \in Tees : /\ freed = ObjectFreed(c, t) /\ freed.objects = 0
                              /\ freed.operations = t.operations
                              /\ freed.keyed = t.keyed /\ freed.active = t.active
    BY <1>0, Freeing
  <2>3. PICK made \in Tees : /\ made = [freed EXCEPT !.objects = @ + 1]
                             /\ made.operations = freed.operations
                             /\ made.objects = freed.objects + 1
                             /\ made.keyed = freed.keyed /\ made.active = freed.active
    BY Allocating
  <2> DEFINE c2 == [c EXCEPT !.key_handle = c.key_size]
             c3 == [c EXCEPT !.key_handle = NULL]
  <2>4. \/ Becomes(s, "open", "dummy", c2, made)
        \/ Becomes(s, "open", "err", c3, freed)
    BY <1>0, <1>2, <2>1, <2>2, <2>3 DEF AllocateObject, Goes, Becomes
  <2>5. /\ c2 \in Ciphers /\ c2.key_handle = c.key_size /\ c2.op_handle = c.op_handle
        /\ c2.key_size = c.key_size
    BY <1>0, <2>1 DEF Ciphers, Handles
  <2>6. /\ c3 \in Ciphers /\ c3.key_handle = NULL /\ c3.op_handle = c.op_handle
        /\ c3.key_size = c.key_size
    BY <1>0, <2>1 DEF Ciphers, Handles
  <2>7. Sound("open", "dummy", c2, made)
    BY <1>0, <1>k, <2>1, <2>2, <2>3, <2>5 DEF Sound, Held, Phases, Statements
  <2>8. Sound("open", "err", c3, freed)
    BY <1>0, <1>k, <2>1, <2>2, <2>6 DEF Sound, Held, Phases, Statements
  <2>9. QED
    BY <2>4, <2>7, <2>8, OneSession
<1>3. CASE LoadDummyKey(s)
  <2> DEFINE t2 == [t EXCEPT !.keyed = TRUE]
  <2>1. w = "dummy" /\ phase[s] = "open" /\ c.op_handle # NULL /\ c.key_handle # NULL
    BY <1>0, <1>3 DEF LoadDummyKey, Goes, Sound
  <2>2. \/ Becomes(s, "open", "ready", c, t2)
        \/ Becomes(s, "open", "err", c, t)
    BY <1>0, <1>3, <2>1 DEF LoadDummyKey, Goes, Becomes
  <2>3. t2 \in Tees /\ t2.operations = t.operations /\ t2.objects = t.objects /\ t2.keyed
    BY <1>0 DEF Tees
  <2>4. Sound("open", "ready", c, t2) /\ Sound("open", "err", c, t)
    BY <1>0, <2>1, <2>3 DEF Sound, Held, Phases, Statements
  <2>5. QED
    BY <2>2, <2>4, OneSession
<1>4. CASE PrepareFails(s)
  <2> DEFINE c2 == [c EXCEPT !.op_handle = NULL, !.key_handle = NULL]
  <2>1. phase[s] = "open"
    BY <1>0, <1>4 DEF PrepareFails, Goes, Sound
  <2>2. Becomes(s, "open", "ready", c2, NothingAllocated)
    BY <1>0, <1>4, <1>f, <2>1 DEF PrepareFails, Goes, Becomes
  <2>3. c2 \in Ciphers /\ c2.op_handle = NULL /\ c2.key_handle = NULL
    BY <1>0 DEF Ciphers, Handles
  <2>4. QED
    BY <1>0, <2>1, <2>2, <2>3, EmptySound, OneSession
<1>5. QED
  BY <1>1, <1>2, <1>3, <1>4

LEMMA AesKept ==
  ASSUME AllSound, NEW s \in Sessions, AesStep(s)
  PROVE  AllSound'
<1> DEFINE c == sess[s]
           t == tee[s]
           w == at[s]
<1>0. /\ Sound(phase[s], w, c, t) /\ phase[s] \in Phases /\ w \in Statements
      /\ c \in Ciphers /\ t \in Tees
      /\ phase = [phase EXCEPT ![s] = phase[s]] /\ sess = [sess EXCEPT ![s] = c]
      /\ tee = [tee EXCEPT ![s] = t] /\ at = [at EXCEPT ![s] = w]
  BY DEF AllSound, Tables
<1>1. Phases = {"closed", "open", "dead"} /\ {"ready", "operation", "load"} \subseteq Statements
  BY DEF Phases, Statements
<1>2. CASE OpenSession(s)
  <2>1. t = NothingAllocated /\ w = "ready"
    BY <1>0, <1>2 DEF OpenSession, Sound
  <2>2. Becomes(s, "open", "ready", aes_cipher, NothingAllocated)
    BY <1>0, <1>2, <2>1 DEF OpenSession, Becomes
  <2>3. QED
    BY <1>1, <2>2, EmptySound, NewCipher, OneSession
<1>3. CASE CloseSession(s)
  <2>1. Released(c, t) = NothingAllocated
    BY <1>0, Freeing
  <2>2. Becomes(s, "closed", "ready", aes_cipher, NothingAllocated)
    BY <1>0, <1>3, <2>1 DEF CloseSession, Becomes
  <2>3. QED
    BY <1>1, <2>2, EmptySound, NewCipher, OneSession
<1>4. CASE Prepare(s) \/ PrepareRefused(s)
  <2>1. PICK size \in KeySizes : sess' = [sess EXCEPT ![s].key_size = size]
    BY <1>4 DEF Prepare, PrepareRefused
  <2> DEFINE c2 == [c EXCEPT !.key_size = size]
  <2>2. /\ w = "ready" /\ phase[s] = "open"
        /\ \/ Becomes(s, "open", "operation", c2, t)
           \/ Becomes(s, "open", "ready", c2, t)
    BY <1>0, <1>4, <2>1 DEF Prepare, PrepareRefused, Goes, Becomes
  <2>3. size # 0
    BY KeySizesAssumption
  <2>4. c2 \in Ciphers /\ c2.op_handle = c.op_handle /\ c2.key_handle = c.key_handle
        /\ c2.key_size = size
    BY <1>0 DEF Ciphers
  <2>5. Sound("open", "operation", c2, t) /\ Sound("open", "ready", c2, t)
    BY <1>0, <1>1, <2>2, <2>3, <2>4 DEF Sound
  <2>6. QED
    BY <2>2, <2>5, OneSession
<1>5. CASE AllocateOperation(s) \/ AllocateObject(s) \/ LoadDummyKey(s) \/ PrepareFails(s)
  BY <1>5, PrepareKept
<1>6. CASE SetKey(s)
  <2>1. w = "ready" /\ phase[s] = "open" /\ Becomes(s, "open", "load", c, t)
    BY <1>0, <1>6 DEF SetKey, Goes, Becomes
  <2>2. c.op_handle # NULL /\ c.key_handle # NULL
    BY <1>0, <1>6, <2>1 DEF SetKey, Sound, Held
  <2>3. c.key_size # 0
    BY <1>0, <2>1, <2>2 DEF Sound
  <2>4. Sound("open", "load", c, t)
    BY <1>0, <1>1, <2>1, <2>2, <2>3 DEF Sound
  <2>5. QED
    BY <2>1, <2>4, OneSession
<1>7. CASE KeyRefused(s)
  <2>1. w = "load" /\ phase[s] = "open" /\ Becomes(s, "open", "ready", c, t)
    BY <1>0, <1>7 DEF KeyRefused, Goes, Becomes, Sound
  <2>2. Sound("open", "ready", c, t)
    BY <1>0, <1>1, <2>1 DEF Sound, Held
  <2>3. QED
    BY <2>1, <2>2, OneSession
<1>8. CASE LoadKey(s)
  <2>1. w = "load" /\ phase[s] = "open" /\ t.keyed
    BY <1>0, <1>8 DEF LoadKey, Goes, Sound
  <2>2. PICK keyed \in BOOLEAN, spoilt \in BOOLEAN :
          /\ keyed \/ spoilt
          /\ Becomes(s, "open", "ready", c,
                     [t EXCEPT !.active = FALSE, !.keyed = keyed, !.spoilt = spoilt])
    <3>1. CASE tee' = [tee EXCEPT ![s].active = FALSE, ![s].spoilt = FALSE]
      <4>1. [t EXCEPT !.active = FALSE, !.spoilt = FALSE]
              = [t EXCEPT !.active = FALSE, !.keyed = TRUE, !.spoilt = FALSE]
        BY <1>0, <2>1 DEF Tees
      <4>2. Becomes(s, "open", "ready", c,
                    [t EXCEPT !.active = FALSE, !.keyed = TRUE, !.spoilt = FALSE])
        BY <1>0, <1>8, <2>1, <3>1, <4>1 DEF LoadKey, Goes, Becomes
      <4>3. QED
        BY <4>2
    <3>2. ASSUME NEW keyed \in BOOLEAN,
                 tee' = [tee EXCEPT ![s].active = FALSE, ![s].keyed = keyed,
                                    ![s].spoilt = TRUE]
          PROVE  Becomes(s, "open", "ready", c,
                         [t EXCEPT !.active = FALSE, !.keyed = keyed, !.spoilt = TRUE])
      BY <1>0, <1>8, <2>1, <3>2 DEF LoadKey, Goes, Becomes
    <3>3. QED
      BY <1>8, <3>1, <3>2 DEF LoadKey
  <2> DEFINE t2 == [t EXCEPT !.active = FALSE, !.keyed = keyed, !.spoilt = spoilt]
  <2>3. /\ t2 \in Tees /\ t2.operations = t.operations /\ t2.objects = t.objects
        /\ t2.keyed = keyed /\ t2.spoilt = spoilt /\ ~t2.active
    BY <1>0 DEF Tees
  <2>4. Sound("open", "ready", c, t2)
    BY <1>0, <1>1, <2>1, <2>2, <2>3 DEF Sound, Held
  <2>5. QED
    BY <2>2, <2>4, OneSession
<1>9. CASE SetIV(s)
  <2> DEFINE t2 == [t EXCEPT !.active = TRUE]
  <2>1. w = "ready" /\ Becomes(s, "open", "ready", c, t2)
    BY <1>0, <1>9 DEF SetIV, Becomes
  <2>2. t2 \in Tees /\ t2.operations = t.operations /\ t2.objects = t.objects
        /\ t2.keyed = t.keyed /\ t.keyed
    BY <1>0, <1>9 DEF Tees, SetIV
  <2>3. Sound("open", "ready", c, t2)
    BY <1>0, <1>1, <2>1, <2>2 DEF Sound
  <2>4. QED
    BY <2>1, <2>3, OneSession
<1>10. CASE Panic(s)
  <2>1. Becomes(s, "dead", "ready", aes_cipher, NothingAllocated)
    BY <1>10 DEF Panic, Becomes
  <2>2. QED
    BY <1>1, <2>1, EmptySound, NewCipher, OneSession
<1>11. CASE Forget(s)
  <2>1. w = "ready" /\ t = NothingAllocated
    BY <1>0, <1>11 DEF Forget, Sound
  <2>2. Becomes(s, "closed", "ready", c, t)
    BY <1>0, <1>11, <2>1 DEF Forget, Becomes
  <2>3. Sound("closed", "ready", c, t)
    BY <1>0, <1>1, <2>1 DEF Sound
  <2>4. QED
    BY <2>2, <2>3, OneSession
<1>12. QED
  BY <1>2, <1>3, <1>4, <1>5, <1>6, <1>7, <1>8, <1>9, <1>10, <1>11 DEF AesStep

-----------------------------------------------------------------------------
\* What IInv says of the storage
Stored == StorageTypeOK /\ Exclusive /\ Opened

Writing(o) == \E t \in Sessions :
                call[t] # Idle /\ call[t].object = o /\ call[t].command = "write"

LEMMA CallFields ==
  ASSUME NEW x \in Calls
  PROVE  /\ x # Idle /\ x.object \in Objects
         /\ x.command \in {"write", "read", "delete"}
         /\ x.command = "write" => x.data \in Data
<1>1. x # Idle
  BY StorageAssumption
<1>2. CASE x \in [command : {"write"}, object : Objects, data : Data]
  BY <1>1, <1>2
<1>3. CASE x \in [command : {"read", "delete"}, object : Objects]
  BY <1>1, <1>3
<1>4. QED
  BY <1>2, <1>3 DEF Calls

\* A command that returns closes its object.
LEMMA Returns ==
  ASSUME StorageTypeOK, Exclusive, NEW s \in Sessions, call' = [call EXCEPT ![s] = Idle]
  PROVE  /\ call' \in [Sessions -> Calls \cup {Idle}]
         /\ \A t \in Sessions : call'[t] # Idle => t # s /\ call'[t] = call[t]
         /\ \A t \in Sessions : t # s => call'[t] = call[t]
         /\ Exclusive'
<1>1. /\ call' \in [Sessions -> Calls \cup {Idle}]
      /\ \A t \in Sessions : call'[t] # Idle => t # s /\ call'[t] = call[t]
      /\ \A t \in Sessions : t # s => call'[t] = call[t]
  BY DEF StorageTypeOK
<1>2. Exclusive'
  BY <1>1 DEF Exclusive, SharesRead
<1>3. QED
  BY <1>1, <1>2

\* A command that begins has opened its object along with no other, or with
\* readers when it reads.
LEMMA Begins ==
  ASSUME StorageTypeOK, Exclusive, NEW s \in Sessions, NEW x \in Calls,
         MayOpen(x.command, x.object), call' = [call EXCEPT ![s] = x]
  PROVE  /\ call' \in [Sessions -> Calls \cup {Idle}] /\ call'[s] = x
         /\ \A t \in Sessions : t # s => call'[t] = call[t]
         /\ Exclusive'
<1>1. /\ call' \in [Sessions -> Calls \cup {Idle}] /\ call'[s] = x
      /\ \A t \in Sessions : t # s => call'[t] = call[t]
  BY DEF StorageTypeOK
<1>2. \A t \in Sessions : call[t] # Idle /\ call[t].object = x.object
        => SharesRead(x.command) /\ SharesRead(call[t].command)
  BY DEF MayOpen, OpenBy
<1>3. Exclusive'
  BY <1>1, <1>2 DEF Exclusive, SharesRead
<1>4. QED
  BY <1>1, <1>3

\* Only the session that writes or deletes an object has it open.
LEMMA Alone ==
  ASSUME Exclusive, NEW s \in Sessions, NEW t \in Sessions, t # s,
         call[s] # Idle, call[t] # Idle, call[s].command # "read"
  PROVE  call[t].object # call[s].object
  BY DEF Exclusive, SharesRead

\* A command that ends by changing the object that only it has open.
LEMMA Replaces ==
  ASSUME Stored, NEW s \in Sessions, call[s] # Idle, call[s].command # "read",
         NEW data \in Data \cup {Absent, Empty},
         store' = [store EXCEPT ![call[s].object] = data],
         call' = [call EXCEPT ![s] = Idle], UNCHANGED reply
  PROVE  Stored'
<1>1. StorageTypeOK /\ Exclusive /\ Opened
  BY DEF Stored
<1>2. StorageTypeOK' /\ Exclusive'
  BY <1>1, Returns DEF StorageTypeOK
<1>3. ASSUME NEW t \in Sessions, call'[t] # Idle
      PROVE  /\ t # s /\ call'[t] = call[t] /\ call[t].object # call[s].object
             /\ store'[call[t].object] = store[call[t].object]
  <2>1. t # s /\ call'[t] = call[t]
    BY <1>1, <1>3, Returns
  <2>2. call[t].object # call[s].object
    BY <1>1, <1>3, <2>1, Alone
  <2>3. call[t] \in Calls /\ call[t].object \in Objects
    BY <1>1, <1>3, <2>1, CallFields DEF StorageTypeOK
  <2>4. QED
    BY <1>1, <2>1, <2>2, <2>3 DEF StorageTypeOK
<1>4. Opened'
  BY <1>1, <1>3 DEF Opened
<1>5. QED
  BY <1>2, <1>4 DEF Stored

\* A READ ends; the store is as it was.
LEMMA LeavesStore ==
  ASSUME Stored, NEW s \in Sessions, call' = [call EXCEPT ![s] = Idle],
         UNCHANGED store, reply' \in [Sessions -> Data \cup {Empty, NoReply}]
  PROVE  Stored'
<1>1. StorageTypeOK /\ Exclusive /\ Opened
  BY DEF Stored
<1>2. StorageTypeOK' /\ Exclusive'
  BY <1>1, Returns DEF StorageTypeOK
<1>3. \A t \in Sessions : call'[t] # Idle => call'[t] = call[t]
  BY <1>1, Returns
<1>4. Opened'
  BY <1>1, <1>3 DEF Opened
<1>5. QED
  BY <1>2, <1>4 DEF Stored

LEMMA StorageKept ==
  ASSUME Stored, NEW s \in Sessions, StorageStep(s)
  PROVE  Stored'
<1>0. StorageTypeOK /\ Exclusive /\ Opened
  BY DEF Stored
<1>c. call[s] # Idle => call[s] \in Calls
  BY <1>0 DEF StorageTypeOK
<1>1. CASE Write(s)
  <2>1. call[s] # Idle /\ call[s].command = "write" /\ call[s].data \in Data
    BY <1>1, <1>c, CallFields DEF Write, Runs
  <2>2. QED
    BY <1>1, <2>1, Replaces DEF Write
<1>2. CASE WriteFails(s)
  BY <1>2, Replaces DEF WriteFails, Runs
<1>3. CASE Delete(s)
  <2>1. CASE store' = [store EXCEPT ![call[s].object] = Absent]
    BY <1>3, <2>1, Replaces DEF Delete, Runs
  <2>2. CASE UNCHANGED store
    BY <1>0, <1>3, <2>2, LeavesStore DEF Delete, StorageTypeOK
  <2>3. QED
    BY <1>3, <2>1, <2>2 DEF Delete
<1>4. CASE Read(s)
  <2>1. call[s] # Idle /\ call[s].command = "read" /\ call[s] \in Calls
    BY <1>4, <1>c DEF Read, Runs
  <2>2. store[call[s].object] \in Data \cup {Empty}
    BY <1>0, <2>1, CallFields DEF Opened, StorageTypeOK
  <2>3. reply' \in [Sessions -> Data \cup {Empty, NoReply}]
    BY <1>0, <1>4, <2>2 DEF Read, StorageTypeOK
  <2>4. QED
    BY <1>4, <2>3, LeavesStore DEF Read
<1>5. CASE ReadFails(s)
  BY <1>0, <1>5, LeavesStore DEF ReadFails, StorageTypeOK
<1>6. ASSUME NEW o \in Objects, NEW data \in Data, Create(s, o, data)
      PROVE  Stored'
  <2> DEFINE x == [command |-> "write", object |-> o, data |-> data]
  <2>1. x \in Calls /\ x.command = "write" /\ x.object = o
    BY DEF Calls
  <2>2. MayOpen(x.command, x.object) /\ call' = [call EXCEPT ![s] = x]
    BY <1>6 DEF Create
  <2>3. /\ call' \in [Sessions -> Calls \cup {Idle}] /\ call'[s] = x /\ Exclusive'
        /\ \A t \in Sessions : t # s => call'[t] = call[t]
    BY <1>0, <2>1, <2>2, Begins
  <2>4. /\ StorageTypeOK' /\ store'[o] = Empty
        /\ \A p \in Objects : p # o => store'[p] = store[p]
    BY <1>0, <1>6, <2>3 DEF StorageTypeOK, Create
  <2>5. ASSUME NEW t \in Sessions, t # s, call'[t] # Idle
        PROVE  call'[t] = call[t] /\ call[t].object \in Objects /\ call[t].object # o
    <3>1. call'[t] = call[t]
      BY <2>3, <2>5
    <3>2. call[t].object \in Objects
      BY <1>0, <2>5, <3>1, CallFields DEF StorageTypeOK
    <3>3. call[t].object # o
      BY <1>6, <2>5, <3>1 DEF Create, MayOpen, OpenBy, SharesRead
    <3>4. QED
      BY <3>1, <3>2, <3>3
  <2>6. Opened'
    BY <1>0, <2>1, <2>3, <2>4, <2>5 DEF Opened
  <2>7. QED
    BY <2>3, <2>4, <2>6 DEF Stored
<1>7. ASSUME NEW o \in Objects, NEW command \in {"read", "delete"}, Open(s, command, o)
      PROVE  Stored'
  <2> DEFINE x == [command |-> command, object |-> o]
  <2>1. x \in Calls /\ x.command = command /\ x.object = o
    BY DEF Calls
  <2>2. MayOpen(x.command, x.object) /\ call' = [call EXCEPT ![s] = x]
    BY <1>7 DEF Open
  <2>3. /\ call' \in [Sessions -> Calls \cup {Idle}] /\ call'[s] = x /\ Exclusive'
        /\ \A t \in Sessions : t # s => call'[t] = call[t]
    BY <1>0, <2>1, <2>2, Begins
  <2>4. StorageTypeOK' /\ store' = store /\ store[o] # Absent
    BY <1>0, <1>7, <2>3 DEF StorageTypeOK, Open
  <2>5. Opened'
    BY <1>0, <2>1, <2>3, <2>4 DEF Opened
  <2>6. QED
    BY <2>3, <2>4, <2>5 DEF Stored
<1>8. QED
  BY <1>1, <1>2, <1>3, <1>4, <1>5, <1>6, <1>7 DEF StorageStep

LEMMA CrashKept ==
  ASSUME AllSound, Stored, Crash
  PROVE  AllSound' /\ Stored'
<1>1. \A s \in Sessions : phase'[s] = "closed" /\ at'[s] = "ready" /\ sess'[s] = aes_cipher
                          /\ tee'[s] = NothingAllocated
  BY DEF Crash
<1>2. Sound("closed", "ready", aes_cipher, NothingAllocated)
  BY EmptySound, NewCipher DEF Phases
<1>3. Tables'
  BY <1>2 DEF Crash, Tables, Sound, Phases, Ciphers, Tees, Handles, Statements
<1>4. \A s \in Sessions : Sound(phase[s], at[s], sess[s], tee[s])'
  BY <1>1, <1>2 DEF Sound, Phases, Ciphers, Tees, Handles, Held, NothingAllocated, Statements
<1>5. \A s \in Sessions : call'[s] = Idle
  BY DEF Crash, StorageCrash
<1>6. StorageTypeOK'
  BY DEF Stored, Crash, StorageCrash, StorageTypeOK
<1>7. Exclusive' /\ Opened'
  BY <1>5 DEF Exclusive, Opened
<1>8. QED
  BY <1>3, <1>4, <1>6, <1>7 DEF AllSound, Stored

LEMMA InvParts == IInv <=> AllSound /\ Stored
  BY SoundSessions DEF IInv, TypeOK, Stored

LEMMA InitInv == Init => IInv
<1> SUFFICES ASSUME Init
             PROVE  AllSound /\ Stored
  BY InvParts
<1>1. \A s \in Sessions : Sound(phase[s], at[s], sess[s], tee[s])
  BY EmptySound, NewCipher DEF Init, AesInit, Phases
<1>2. Tables
  BY <1>1 DEF Init, AesInit, Tables, Phases, Sound
<1>3. StorageTypeOK /\ \A s \in Sessions : call[s] = Idle
  BY DEF Init, StorageInit, StorageTypeOK
<1>4. Exclusive /\ Opened
  BY <1>3 DEF Exclusive, Opened
<1>5. QED
  BY <1>1, <1>2, <1>3, <1>4 DEF AllSound, Stored

LEMMA StepInv == IInv /\ [Next]_vars => IInv'
<1> SUFFICES ASSUME AllSound, Stored, [Next]_vars
             PROVE  AllSound' /\ Stored'
  BY InvParts, PTL
<1>1. ASSUME NEW s \in Sessions, Cipher(s)
      PROVE  AllSound' /\ Stored'
  <2>1. AllSound'
    BY <1>1, AesKept DEF Cipher
  <2>2. Stored'
    BY <1>1 DEF Cipher, Stored, StorageTypeOK, Exclusive, Opened
  <2>3. QED
    BY <2>1, <2>2
<1>2. ASSUME NEW s \in Sessions, Storage(s)
      PROVE  AllSound' /\ Stored'
  <2>1. Stored'
    BY <1>2, StorageKept DEF Storage
  <2>2. AllSound'
    BY <1>2 DEF Storage, aesVars, AllSound, Tables, Sound
  <2>3. QED
    BY <2>1, <2>2
<1>3. CASE Crash
  BY <1>3, CrashKept
<1>4. CASE UNCHANGED vars
  BY <1>4 DEF vars, AllSound, Tables, Sound, Stored, StorageTypeOK, Exclusive, Opened
<1>5. QED
  BY <1>1, <1>2, <1>3, <1>4 DEF Next

-----------------------------------------------------------------------------
(* IInv is an inductive invariant: it adds to the checked invariants which *)
(* handles a session holds at each TEE call of alloc_resources and         *)
(* set_aes_key, and who may have an object of aes_ta.c's storage commands  *)
(* open at the same time.                                                  *)
THEOREM Invariant == Spec => []IInv
<1>1. QED
  BY InitInv, StepInv, PTL DEF Spec

(* The fields of struct aes_cipher, what the TEE counts for a session and  *)
(* the stored objects keep their types through every command of aes_ta.c.  *)
THEOREM TypeCorrect == Spec => []TypeOK
<1>1. IInv => TypeOK
  BY DEF IInv
<1>2. QED
  BY <1>1, Invariant, PTL

(* Whatever the commands, and whichever TEE calls of alloc_resources and   *)
(* set_aes_key fail, the TEE holds for a session exactly what its          *)
(* op_handle and key_handle stand for, at every call.                      *)
THEOREM NothingLeaks == Spec => []HandlesOwned
<1>1. IInv => HandlesOwned
  BY DEF IInv
<1>2. QED
  BY <1>1, Invariant, PTL

(* Between two commands the operation of a session has a key, so that      *)
(* set_aes_key may reset it, unless TEE_SetOperationKey has failed in the  *)
(* last set_aes_key that came that far; with a vector it always has one.   *)
THEOREM AlwaysKeyed == Spec => []OperationKeyed
<1>1. IInv => OperationKeyed
  BY DEF IInv
<1>2. QED
  BY <1>1, Invariant, PTL
-----------------------------------------------------------------------------
\* The refinement, object by object
Seen(o) == IF Writing(o) THEN Absent ELSE store[o]

LEMMA VisibleSeen == Visible = [o \in Objects |-> Seen(o)]
  BY DEF Visible, Seen, Writing, OpenBy, Runs

\* One object changes for the clients.
LEMMA SeenChange ==
  ASSUME NEW o \in Objects, NEW v, Seen(o)' = v,
         \A p \in Objects : p # o => Seen(p)' = Seen(p)
  PROVE  Visible' = [Visible EXCEPT ![o] = v]
<1>1. Visible' = [p \in Objects |-> Seen(p)']
  BY DEF Visible, Seen, Writing, OpenBy, Runs
<1>2. QED
  BY <1>1, VisibleSeen

LEMMA SeenSame ==
  ASSUME \A p \in Objects : Seen(p)' = Seen(p)
  PROVE  Visible' = Visible
<1>1. Visible' = [p \in Objects |-> Seen(p)']
  BY DEF Visible, Seen, Writing, OpenBy, Runs
<1>2. QED
  BY <1>1, VisibleSeen

\* A command of session s ends: nobody writes the object that it has changed,
\* and the writers of the other objects are as they were.
LEMMA WritersLeft ==
  ASSUME Stored, NEW s \in Sessions, call[s] # Idle, call' = [call EXCEPT ![s] = Idle],
         NEW o, o = call[s].object
  PROVE  /\ call[s].command # "read" => ~Writing(o)'
         /\ \A p \in Objects : p # o \/ call[s].command # "write"
                                 => (Writing(p)' <=> Writing(p))
<1>0. StorageTypeOK /\ Exclusive
  BY DEF Stored
<1>1. /\ \A t \in Sessions : call'[t] # Idle => t # s /\ call'[t] = call[t]
      /\ \A t \in Sessions : t # s => call'[t] = call[t]
  BY <1>0, Returns
<1>2. ASSUME call[s].command # "read"
      PROVE  ~Writing(o)'
  <2>1. \A t \in Sessions : t # s /\ call[t] # Idle => call[t].object # o
    BY <1>0, <1>2, Alone
  <2>2. QED
    BY <1>1, <2>1 DEF Writing
<1>3. \A p \in Objects : p # o \/ call[s].command # "write"
                           => (Writing(p)' <=> Writing(p))
  BY <1>1 DEF Writing
<1>4. QED
  BY <1>2, <1>3

\* A command that ends by changing its object changes it for the clients.
LEMMA EndSeen ==
  ASSUME Stored, NEW s \in Sessions, call[s] # Idle, call[s].command # "read",
         call' = [call EXCEPT ![s] = Idle], NEW o \in Objects, o = call[s].object,
         NEW v, store' = [store EXCEPT ![o] = v]
  PROVE  Visible' = [Visible EXCEPT ![o] = v]
<1>1. ~Writing(o)' /\ \A p \in Objects : p # o => (Writing(p)' <=> Writing(p))
  BY WritersLeft
<1>2. store'[o] = v /\ \A p \in Objects : p # o => store'[p] = store[p]
  BY DEF Stored, StorageTypeOK
<1>3. Seen(o)' = v
  BY <1>1, <1>2 DEF Seen
<1>4. \A p \in Objects : p # o => Seen(p)' = Seen(p)
  BY <1>1, <1>2 DEF Seen
<1>5. QED
  BY <1>3, <1>4, SeenChange

LEMMA EndSame ==
  ASSUME Stored, NEW s \in Sessions, call[s] # Idle, call[s].command # "write",
         call' = [call EXCEPT ![s] = Idle], UNCHANGED store
  PROVE  Visible' = Visible
<1>1. \A p \in Objects : Writing(p)' <=> Writing(p)
  BY WritersLeft
<1>2. QED
  BY <1>1, SeenSame DEF Seen

\* A WRITE takes its object away from the clients when it begins; the other
\* commands change nothing.
LEMMA BeginSeen ==
  ASSUME Stored, NEW s \in Sessions, call[s] = Idle, NEW x \in Calls,
         NEW o \in Objects, o = x.object, call' = [call EXCEPT ![s] = x],
         \A p \in Objects : p # o \/ x.command # "write" => store'[p] = store[p]
  PROVE  IF x.command = "write" THEN Visible' = [Visible EXCEPT ![o] = Absent]
                                ELSE Visible' = Visible
<1>1. /\ call'[s] = x /\ x # Idle
      /\ \A t \in Sessions : t # s => call'[t] = call[t]
  BY CallFields DEF Stored, StorageTypeOK
<1>2. CASE x.command = "write"
  <2>1. Writing(o)'
    BY <1>1, <1>2 DEF Writing
  <2>2. \A p \in Objects : p # o => (Writing(p)' <=> Writing(p))
    BY <1>1 DEF Writing
  <2>3. Seen(o)' = Absent /\ \A p \in Objects : p # o => Seen(p)' = Seen(p)
    BY <2>1, <2>2 DEF Seen
  <2>4. QED
    BY <1>2, <2>3, SeenChange
<1>3. CASE x.command # "write"
  <2>1. \A p \in Objects : Writing(p)' <=> Writing(p)
    BY <1>1, <1>3 DEF Writing
  <2>2. \A p \in Objects : Seen(p)' = Seen(p)
    BY <1>3, <2>1 DEF Seen
  <2>3. QED
    BY <1>3, <2>2, SeenSame
<1>4. QED
  BY <1>2, <1>3

LEMMA StorageSeen ==
  ASSUME Stored, NEW s \in Sessions, StorageStep(s)
  PROVE  Store!Next \/ (Visible' = Visible /\ reply' = reply)
<1>c. call[s] # Idle => call[s] \in Calls
  BY DEF Stored, StorageTypeOK
<1>1. CASE Write(s)
  <2>1. PICK o \in Objects : o = call[s].object
    BY <1>1, <1>c, CallFields DEF Write, Runs
  <2>2. PICK data \in Data : data = call[s].data
    BY <1>1, <1>c, CallFields DEF Write, Runs
  <2>3. Visible' = [Visible EXCEPT ![o] = data]
    BY <1>1, <2>1, <2>2, EndSeen DEF Write, Runs
  <2>4. Store!Put(o, data)
    BY <1>1, <2>3 DEF Write, Store!Put
  <2>5. QED
    BY <2>4 DEF Store!Next
<1>2. CASE WriteFails(s)
  <2>1. PICK o \in Objects : o = call[s].object
    BY <1>2, <1>c, CallFields DEF WriteFails, Runs
  <2>2. PICK left \in {Absent, Empty} : store' = [store EXCEPT ![o] = left]
    BY <1>2, <2>1 DEF WriteFails
  <2>3. Visible' = [Visible EXCEPT ![o] = left]
    BY <1>2, <2>1, <2>2, EndSeen DEF WriteFails, Runs
  <2>4. Visible[o] = Absent
    BY <1>2, <2>1, VisibleSeen DEF Seen, Writing, WriteFails, Runs
  <2>5. Store!Remove(o) \/ Store!Abandon(o)
    BY <1>2, <2>3, <2>4 DEF WriteFails, Store!Remove, Store!Abandon
  <2>6. QED
    BY <2>5 DEF Store!Next
<1>3. CASE Read(s)
  <2>1. PICK o \in Objects : o = call[s].object
    BY <1>3, <1>c, CallFields DEF Read, Runs
  <2>2. Visible' = Visible
    BY <1>3, EndSame DEF Read, Runs
  <2>3. ~Writing(o) /\ store[o] # Absent
    BY <1>3, <2>1 DEF Stored, Exclusive, Opened, Writing, SharesRead, Read, Runs
  <2>4. Visible[o] = store[o]
    BY <2>3, VisibleSeen DEF Seen
  <2>5. Store!Get(s, o)
    BY <1>3, <2>1, <2>2, <2>3, <2>4 DEF Read, Store!Get
  <2>6. QED
    BY <2>5 DEF Store!Next
<1>4. CASE ReadFails(s)
  BY <1>4, EndSame DEF ReadFails, Runs
<1>5. ASSUME call[s] = Idle, NEW o \in Objects, NEW data \in Data, Create(s, o, data)
      PROVE  Store!Next
  <2>1. PICK x \in Calls : x = [command |-> "write", object |-> o, data |-> data]
    BY DEF Calls
  <2>2. call' = [call EXCEPT ![s] = x] /\ \A p \in Objects : p # o => store'[p] = store[p]
    BY <1>5, <2>1 DEF Create, Stored, StorageTypeOK
  <2>3. x.command = "write" /\ o = x.object
    BY <2>1
  <2>4. Visible' = [Visible EXCEPT ![o] = Absent]
    BY <1>5, <2>2, <2>3, BeginSeen
  <2>5. Store!Remove(o)
    BY <1>5, <2>4 DEF Create, Store!Remove
  <2>6. QED
    BY <2>5 DEF Store!Next
<1>6. ASSUME call[s] = Idle, NEW o \in Objects, NEW command \in {"read", "delete"},
             Open(s, command, o)
      PROVE  Visible' = Visible /\ reply' = reply
  <2>1. PICK x \in Calls : x = [command |-> command, object |-> o]
    BY DEF Calls
  <2>2. x.command # "write" /\ o = x.object
    BY <2>1
  <2>3. call' = [call EXCEPT ![s] = x] /\ store' = store /\ reply' = reply
    BY <1>6, <2>1 DEF Open
  <2>4. QED
    BY <1>6, <2>2, <2>3, BeginSeen
<1>7. CASE Delete(s)
  <2>1. PICK o \in Objects : o = call[s].object
    BY <1>7, <1>c, CallFields DEF Delete, Runs
  <2>2. CASE store' = [store EXCEPT ![o] = Absent]
    <3>1. Visible' = [Visible EXCEPT ![o] = Absent]
      BY <1>7, <2>1, <2>2, EndSeen DEF Delete, Runs
    <3>2. Store!Remove(o)
      BY <1>7, <3>1 DEF Delete, Store!Remove
    <3>3. QED
      BY <3>2 DEF Store!Next
  <2>3. CASE UNCHANGED store
    BY <1>7, <2>3, EndSame DEF Delete, Runs
  <2>4. QED
    BY <1>7, <2>1, <2>2, <2>3 DEF Delete
<1>8. QED
  BY <1>1, <1>2, <1>3, <1>4, <1>5, <1>6, <1>7 DEF StorageStep

\* The objects that a crash leaves empty are those that were being written.
LEMMA CrashSeen ==
  ASSUME Stored, Crash
  PROVE  Store!Next
<1> DEFINE lost == {o \in Objects : Writing(o)}
<1>1. \A o \in Objects : Writing(o) => store[o] = Empty
  BY DEF Writing, Stored, Opened
<1>2. lost \in SUBSET {o \in Objects : Visible[o] = Absent}
  BY VisibleSeen DEF Seen
<1>3. \A o \in Objects : ~Writing(o)'
  BY DEF Writing, Crash, StorageCrash
<1>4. Visible' = [o \in Objects |-> Seen(o)']
  BY DEF Visible, Seen, Writing, OpenBy, Runs
<1>5. \A o \in Objects : Seen(o)' = IF o \in lost THEN Empty ELSE Visible[o]
  BY <1>1, <1>3, VisibleSeen DEF Seen, Crash, StorageCrash
<1>6. Visible' = [o \in Objects |-> IF o \in lost THEN Empty ELSE Visible[o]]
  BY <1>4, <1>5
<1>7. reply' = [s \in Sessions |-> NoReply]
  BY DEF Crash, StorageCrash
<1>8. Store!Crash
  BY <1>2, <1>6, <1>7 DEF Store!Crash
<1>9. QED
  BY <1>8 DEF Store!Next

(* The storage commands of aes_ta.c, each several TEE calls on an object   *)
(* shared with the other sessions, implement the atomic store: their steps *)
(* are one of its operations or change nothing that a client can see.      *)
THEOREM Implements == Spec => ImplementsStore
<1>1. Init => Store!Init
  BY DEF Init, StorageInit, Store!Init, Visible, OpenBy
<1>2. ASSUME Stored, [Next]_vars
      PROVE  [Store!Next]_Store!vars
  <2>1. ASSUME NEW s \in Sessions, Cipher(s)
        PROVE  Visible' = Visible /\ reply' = reply
    BY <2>1 DEF Cipher, Visible, OpenBy, Runs
  <2>2. ASSUME NEW s \in Sessions, Storage(s)
        PROVE  Store!Next \/ (Visible' = Visible /\ reply' = reply)
    BY <1>2, <2>2, StorageSeen DEF Storage
  <2>3. CASE Crash
    BY <1>2, <2>3, CrashSeen
  <2>4. CASE UNCHANGED vars
    BY <2>4 DEF vars, Visible, OpenBy, Runs, Store!vars
  <2>5. QED
    BY <1>2, <2>1, <2>2, <2>3, <2>4 DEF Next, Store!vars
<1>3. IInv => Stored
  BY InvParts
<1>4. QED
  BY <1>1, <1>2, <1>3, Invariant, PTL DEF Spec, ImplementsStore, Store!Spec
=============================================================================
