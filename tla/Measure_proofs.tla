--------------------------- MODULE Measure_proofs ---------------------------
(***************************************************************************)
(* For a ring of any size, any number of workers and of samples that main  *)
(* takes while they run: until one of those has met a worker's, the ring   *)
(* of measure.c holds the latest samples, and a flush writes them oldest   *)
(* first; afterwards the count is still no more than what was taken.       *)
(***************************************************************************)
EXTENDS Measure, SequenceTheorems, TLAPS

TypeOK ==
  /\ count \in Nat
  /\ samples \in [Slots -> [msg : Callers \cup {None}, tod : Nat]]
  /\ mutex \in Callers \cup {None}
  /\ clock \in Nat
  /\ phase \in {"alone", "running", "joined"}
  /\ pc \in [Callers -> {"idle", "slot", "stamp", "load", "store"}]
  /\ slot \in [Callers -> Slots]
  /\ tmp \in [Callers -> Nat]
  /\ calls \in [Callers -> Nat]
  /\ taken \in Seq(Nat)
  /\ raced \in BOOLEAN

\* A worker measures under the mutex while the workers run, and main without it;
\* when the two meet, raced says so.
OneAtATime ==
  \A p \in Callers : pc[p] # "idle" =>
    /\ p # main => phase = "running" /\ mutex = p
    /\ ~raced => \A q \in Callers : pc[q] # "idle" => q = p

\* What a caller has stamped and not yet counted
Behind(p) == IF pc[p] \in {"load", "store"} THEN 1 ELSE 0

\* The count, with what main and a worker are about to add to it, is never more
\* than what has been taken; a store is of a value that makes it no more.
Bounded ==
  \A t \in Threads :
    /\ count + Behind(t) + Behind(main) <= Len(taken)
    /\ pc[t] = "store" => tmp[t] + 1 + Behind(main) <= Len(taken)
    /\ pc[main] = "store" => tmp[main] + 1 + Behind(t) <= Len(taken)

\* Main alone, should there be no worker
BoundedMain ==
  /\ count + Behind(main) <= Len(taken)
  /\ pc[main] = "store" => tmp[main] + 1 <= Len(taken)

\* Without a race the count is behind by the sample that is being taken, from
\* its time stamp to the end of count++.
CountInv ==
  /\ \A p \in Callers : pc[p] \in {"load", "store"} => count + 1 = Len(taken)
  /\ (\A p \in Callers : pc[p] \notin {"load", "store"}) => count = Len(taken)
  /\ \A p \in Callers : /\ pc[p] = "stamp" => slot[p] = count % NR_SAMPLES
                        /\ pc[p] = "store" => tmp[p] = count

\* The latest samples, as many as there are or fit, are in the ring.
Kept == {k \in Nat : k < NR_SAMPLES /\ k < Len(taken)}
Ring == \A k \in Kept :
          samples[(Len(taken) - 1 - k) % NR_SAMPLES].tod = taken[Len(taken) - k]

IInv == /\ TypeOK /\ OneAtATime /\ Bounded /\ BoundedMain
        /\ ~raced => CountInv /\ Ring

-----------------------------------------------------------------------------
LEMMA RingSize == NR_SAMPLES \in Nat \ {0} /\ main \notin Threads /\ None \notin Callers
  BY MeasureAssumption DEF Callers

LEMMA ModSlot ==
  ASSUME NEW a \in Nat
  PROVE  a % NR_SAMPLES \in Slots
  BY RingSize DEF Slots

LEMMA Division ==
  ASSUME NEW a \in Int
  PROVE  \E q \in Int, r \in 0 .. NR_SAMPLES - 1 :
           a = NR_SAMPLES * q + r /\ r = a % NR_SAMPLES
<1>1. /\ a \div NR_SAMPLES \in Int /\ a % NR_SAMPLES \in 0 .. NR_SAMPLES - 1
      /\ a = NR_SAMPLES * (a \div NR_SAMPLES) + (a % NR_SAMPLES)
  BY RingSize
<1> QED
  BY <1>1

LEMMA Multiples ==
  ASSUME NEW d \in Int, NEW e \in Int, e = NR_SAMPLES * d, e < NR_SAMPLES,
         -NR_SAMPLES < e
  PROVE  d = 0 /\ e = 0
<1>1. NR_SAMPLES \in Nat /\ NR_SAMPLES > 0
  BY RingSize
<1>2. CASE d >= 1
  <2>1. NR_SAMPLES * d >= NR_SAMPLES
    BY <1>1, <1>2
  <2> QED
    BY <1>1, <2>1
<1>3. CASE d <= -1
  <2>1. NR_SAMPLES * d <= -NR_SAMPLES
    BY <1>1, <1>3
  <2> QED
    BY <1>1, <2>1
<1>4. CASE d = 0
  BY <1>1, <1>4
<1> QED
  BY <1>2, <1>3, <1>4

\* Numbers less than NR_SAMPLES apart are in different slots.
LEMMA OtherSlot ==
  ASSUME NEW a \in Int, NEW b \in Int, a # b, a - b < NR_SAMPLES, b - a < NR_SAMPLES
  PROVE  a % NR_SAMPLES # b % NR_SAMPLES
<1>1. PICK q \in Int, r \in 0 .. NR_SAMPLES - 1 :
        a = NR_SAMPLES * q + r /\ r = a % NR_SAMPLES
  BY Division
<1>2. PICK q2 \in Int, r2 \in 0 .. NR_SAMPLES - 1 :
        b = NR_SAMPLES * q2 + r2 /\ r2 = b % NR_SAMPLES
  BY Division
<1>3. SUFFICES ASSUME r = r2
               PROVE  FALSE
  BY <1>1, <1>2
<1>4. NR_SAMPLES \in Nat /\ a - b = NR_SAMPLES * (q - q2)
  BY <1>1, <1>2, <1>3, RingSize
<1>5. a - b = 0
  BY <1>4, Multiples
<1> QED
  BY <1>5

\* The same slot is NR_SAMPLES on.
LEMMA SameSlot ==
  ASSUME NEW a \in Int, NEW b \in Int, NEW z \in Int, a - b = NR_SAMPLES * z
  PROVE  a % NR_SAMPLES = b % NR_SAMPLES
<1>1. PICK q \in Int, r \in 0 .. NR_SAMPLES - 1 :
        a = NR_SAMPLES * q + r /\ r = a % NR_SAMPLES
  BY Division
<1>2. PICK q2 \in Int, r2 \in 0 .. NR_SAMPLES - 1 :
        b = NR_SAMPLES * q2 + r2 /\ r2 = b % NR_SAMPLES
  BY Division
<1>3. NR_SAMPLES \in Nat /\ r - r2 = NR_SAMPLES * (z - q + q2)
  <2>1. r - r2 = NR_SAMPLES * z - NR_SAMPLES * q + NR_SAMPLES * q2
    <3>1. PICK x \in Int, y \in Int, w \in Int :
            x = NR_SAMPLES * z /\ y = NR_SAMPLES * q /\ w = NR_SAMPLES * q2
      BY RingSize
    <3>2. a - b = x /\ a = y + r /\ b = w + r2 /\ r \in Int /\ r2 \in Int
      BY <1>1, <1>2, <3>1, RingSize
    <3>3. r - r2 = x - y + w
      BY <3>2
    <3> QED
      BY <3>1, <3>3
  <2>2. NR_SAMPLES * (z - q + q2) = NR_SAMPLES * z - NR_SAMPLES * q + NR_SAMPLES * q2
    BY RingSize
  <2> QED
    BY <2>1, <2>2, RingSize
<1>4. r - r2 = 0
  BY <1>3, Multiples
<1> QED
  BY <1>1, <1>2, <1>4

-----------------------------------------------------------------------------
\* Two callers in k2_measure at the same time are main and a worker, and raced
\* says that they are there.
LEMMA Exclusive ==
  ASSUME OneAtATime, NEW p \in Callers, NEW q \in Callers, pc[p] # "idle", pc[q] # "idle",
         p # q
  PROVE  raced /\ (p = main \/ q = main)
<1>1. p # main => mutex = p
  BY DEF OneAtATime
<1>2. q # main => mutex = q
  BY DEF OneAtATime
<1> QED
  BY <1>1, <1>2 DEF OneAtATime

LEMMA InitInv == Init => IInv
<1> SUFFICES ASSUME Init
             PROVE  IInv
  OBVIOUS
<1>1. 0 \in Slots /\ Len(<< >>) = 0 /\ << >> \in Seq(Nat)
  BY RingSize DEF Slots
<1>2. TypeOK
  BY <1>1 DEF Init, TypeOK, Blank
<1>3. OneAtATime /\ CountInv
  BY <1>1 DEF Init, OneAtATime, CountInv
<1>4. Bounded /\ BoundedMain
  BY <1>1 DEF Init, Bounded, BoundedMain, Behind, Callers
<1>5. Ring
  BY <1>1 DEF Init, Ring, Kept
<1> QED
  BY <1>2, <1>3, <1>4, <1>5 DEF IInv

LEMMA CallInv ==
  ASSUME IInv, NEW p \in Callers, Call(p)
  PROVE  IInv'
<1> USE DEF IInv
<1>1. /\ pc[p] = "idle" /\ pc' = [pc EXCEPT ![p] = "slot"]
      /\ calls' = [calls EXCEPT ![p] = @ + 1]
      /\ UNCHANGED <<count, samples, clock, phase, slot, tmp, taken, dump>>
      /\ p = main => mutex' = mutex
      /\ p # main => phase = "running" /\ mutex = None /\ mutex' = p
  BY RingSize DEF Call, Goto, TypeOK
<1>r. /\ raced' \in BOOLEAN /\ (raced => raced')
      /\ ~raced' => \A q \in Callers : p = main \/ q = main => pc[q] = "idle"
  BY DEF Call, Overlaps, TypeOK
<1>2. TypeOK'
  BY <1>1, <1>r DEF TypeOK
<1>n. /\ pc'[p] = "slot"
      /\ \A q \in Callers : q # p => pc'[q] = pc[q]
  BY <1>1 DEF TypeOK
<1>i. \A q \in Callers : q # p /\ pc[q] # "idle" => q = main \/ p = main
  BY <1>1, RingSize DEF OneAtATime
<1>3. OneAtATime'
  <2>1. ASSUME NEW q \in Callers, pc'[q] # "idle", q # main
        PROVE  phase = "running" /\ mutex' = q
    <3>1. CASE q = p
      BY <1>1, <2>1, <3>1
    <3>2. CASE q # p
      <4>1. phase = "running" /\ mutex = q
        BY <1>n, <2>1, <3>2 DEF OneAtATime
      <4> QED
        BY <1>1, <4>1, RingSize
    <3> QED
      BY <3>1, <3>2
  <2>2. ASSUME NEW q \in Callers, NEW u \in Callers, pc'[q] # "idle", pc'[u] # "idle",
               ~raced'
        PROVE  u = q
    <3>1. \A v \in Callers : v # p => pc'[v] = "idle"
      BY <1>i, <1>n, <1>r, <2>2
    <3> QED
      BY <2>2, <3>1
  <2> QED
    BY <1>1, <2>1, <2>2 DEF OneAtATime
<1>4. \A q \in Callers : Behind(q)' = Behind(q) /\ (pc'[q] = "store" => pc[q] = "store")
  BY <1>1, <1>n DEF Behind
<1>5. Bounded' /\ BoundedMain'
  BY <1>1, <1>4 DEF Bounded, BoundedMain, Callers
<1>6. ASSUME ~raced'
      PROVE  CountInv' /\ Ring'
  <2>1. CountInv /\ Ring
    BY <1>r, <1>6
  <2>2. CountInv'
    BY <1>1, <2>1 DEF CountInv, TypeOK
  <2>3. Ring'
    BY <1>1, <2>1 DEF Ring, Kept
  <2> QED
    BY <2>2, <2>3
<1> QED
  BY <1>2, <1>3, <1>5, <1>6

LEMMA TakeSlotInv ==
  ASSUME IInv, NEW p \in Callers, TakeSlot(p)
  PROVE  IInv'
<1> USE DEF IInv
<1> DEFINE j == count % NR_SAMPLES
<1>1. /\ pc[p] = "slot" /\ pc' = [pc EXCEPT ![p] = "stamp"]
      /\ slot' = [slot EXCEPT ![p] = j]
      /\ samples' = [samples EXCEPT ![j].msg = p]
      /\ UNCHANGED <<count, mutex, clock, phase, tmp, calls, taken, raced, dump>>
  BY DEF TakeSlot, Goto
<1>2. j \in Slots
  BY ModSlot DEF TypeOK
<1> HIDE DEF j
<1>3. /\ samples' \in [Slots -> [msg : Callers \cup {None}, tod : Nat]]
      /\ \A s \in Slots : samples'[s].tod = samples[s].tod
  BY <1>1, <1>2 DEF TypeOK
<1>4. TypeOK'
  BY <1>1, <1>2, <1>3 DEF TypeOK
<1>5. OneAtATime'
  BY <1>1 DEF OneAtATime, TypeOK
<1>b. \A q \in Callers : Behind(q)' = Behind(q) /\ (pc'[q] = "store" => pc[q] = "store")
  BY <1>1 DEF Behind, TypeOK
<1>c. Bounded' /\ BoundedMain'
  BY <1>1, <1>b DEF Bounded, BoundedMain, Callers
<1>6. ASSUME CountInv
      PROVE  CountInv'
  <2>1. /\ pc'[p] = "stamp"
        /\ \A q \in Callers : q # p => pc'[q] = pc[q] /\ slot'[q] = slot[q]
    BY <1>1 DEF TypeOK
  <2>2. slot'[p] = count % NR_SAMPLES
    BY <1>1 DEF TypeOK, j
  <2> QED
    BY <1>1, <1>6, <2>1, <2>2 DEF CountInv
<1>7. ASSUME Ring
      PROVE  Ring'
  <2>1. ASSUME NEW k \in Kept
        PROVE  samples'[(Len(taken) - 1 - k) % NR_SAMPLES].tod = taken[Len(taken) - k]
    <3>1. Len(taken) - 1 - k \in Nat
      BY DEF Kept, TypeOK
    <3> QED
      BY <1>3, <1>7, <3>1, ModSlot DEF Ring
  <2> QED
    BY <1>1, <2>1 DEF Ring, Kept
<1> QED
  BY <1>1, <1>4, <1>5, <1>c, <1>6, <1>7

\* The sample that is stamped becomes the latest; the slot it takes is that of
\* the sample NR_SAMPLES before it, if any.
LEMMA StampInv ==
  ASSUME IInv, NEW p \in Callers, Stamp(p)
  PROVE  IInv'
<1> USE DEF IInv
<1> DEFINE now == clock + 1
<1>1. /\ pc[p] = "stamp" /\ pc' = [pc EXCEPT ![p] = "load"]
      /\ clock' = now
      /\ samples' = [samples EXCEPT ![slot[p]].tod = now]
      /\ taken' = Append(taken, now)
      /\ UNCHANGED <<count, mutex, phase, slot, tmp, calls, raced, dump>>
  BY DEF Stamp, Goto
<1>2. now \in Nat /\ slot[p] \in Slots
  BY <1>1 DEF TypeOK
<1> HIDE DEF now
<1>3. /\ samples' \in [Slots -> [msg : Callers \cup {None}, tod : Nat]]
      /\ samples'[slot[p]].tod = now
      /\ \A s \in Slots : s # slot[p] => samples'[s].tod = samples[s].tod
  BY <1>1, <1>2 DEF TypeOK
<1>4. PICK n \in Nat : n = Len(taken)
  BY DEF TypeOK
<1>5. /\ taken' \in Seq(Nat) /\ Len(taken') = n + 1 /\ taken'[n + 1] = now
      /\ \A x \in 1 .. n : taken'[x] = taken[x]
  BY <1>1, <1>2, <1>4 DEF TypeOK
<1>8. TypeOK'
  BY <1>1, <1>2, <1>3, <1>5 DEF TypeOK
<1>9. OneAtATime'
  BY <1>1 DEF OneAtATime, TypeOK
<1>n. /\ pc'[p] = "load" /\ Behind(p) = 0 /\ Behind(p)' = 1
      /\ \A q \in Callers : q # p => pc'[q] = pc[q] /\ Behind(q)' = Behind(q)
      /\ \A q \in Callers : Behind(q) \in {0, 1}
  BY <1>1 DEF Behind, TypeOK
<1>c. Bounded' /\ BoundedMain'
  <2>1. \A q \in Callers : /\ Behind(q)' <= Behind(q) + 1
                           /\ pc'[q] = "store" => pc[q] = "store" /\ q # p
    BY <1>1, <1>n
  <2>2. ASSUME NEW t \in Threads
        PROVE  Behind(t)' + Behind(main)' <= Behind(t) + Behind(main) + 1
    BY <1>n, RingSize DEF Callers
  <2>3. count \in Nat /\ \A q \in Callers : tmp[q] \in Nat /\ tmp'[q] = tmp[q]
    BY <1>1 DEF TypeOK
  <2>4. Bounded'
    <3>1. ASSUME NEW t \in Threads
          PROVE  /\ count' + Behind(t)' + Behind(main)' <= n + 1
                 /\ pc'[t] = "store" => tmp'[t] + 1 + Behind(main)' <= n + 1
                 /\ pc'[main] = "store" => tmp'[main] + 1 + Behind(t)' <= n + 1
      <4>1. t \in Callers /\ main \in Callers
        BY DEF Callers
      <4>2. /\ count + Behind(t) + Behind(main) <= n
            /\ pc[t] = "store" => tmp[t] + 1 + Behind(main) <= n
            /\ pc[main] = "store" => tmp[main] + 1 + Behind(t) <= n
        BY <1>4 DEF Bounded
      <4>3. /\ Behind(t) \in {0, 1} /\ Behind(main) \in {0, 1}
            /\ Behind(t)' \in {0, 1} /\ Behind(main)' \in {0, 1}
        BY <1>n, <4>1
      <4> QED
        BY <1>1, <1>4, <2>1, <2>2, <2>3, <4>1, <4>2, <4>3
    <3> QED
      BY <1>5, <3>1 DEF Bounded
  <2>5. BoundedMain'
    <3>1. main \in Callers /\ Behind(main) \in {0, 1} /\ Behind(main)' \in {0, 1}
      BY <1>n DEF Callers
    <3> QED
      BY <1>1, <1>4, <1>5, <2>1, <2>3, <3>1 DEF BoundedMain
  <2> QED
    BY <2>4, <2>5
<1>d. ASSUME ~raced
      PROVE  CountInv' /\ Ring'
  <2>0. CountInv /\ Ring /\ slot[p] = count % NR_SAMPLES
    BY <1>1, <1>d DEF CountInv
  <2>6. \A q \in Callers : q # p => pc[q] = "idle" /\ pc'[q] = "idle"
    BY <1>1, <1>d, Exclusive DEF TypeOK
  <2>7. count = n
    BY <1>1, <1>4, <2>0, <2>6 DEF CountInv
  <2>8. CountInv'
    BY <1>1, <1>5, <2>0, <2>6, <2>7 DEF CountInv, TypeOK
  <2>9. Ring'
    <3>1. ASSUME NEW k \in Nat, k < NR_SAMPLES, k < n + 1
          PROVE  samples'[(n - k) % NR_SAMPLES].tod = taken'[n + 1 - k]
      <4>1. CASE k = 0
        BY <1>3, <1>5, <2>0, <2>7, <4>1
      <4>2. CASE k > 0
        <5>1. k - 1 \in Nat /\ k - 1 < NR_SAMPLES /\ k - 1 < n /\ n - k \in Nat
              /\ n - 1 - (k - 1) = n - k /\ n - (k - 1) = n + 1 - k /\ n + 1 - k \in 1 .. n
          BY <1>4, <3>1, <4>2, RingSize
        <5>2. samples[(n - k) % NR_SAMPLES].tod = taken[n + 1 - k]
          BY <1>4, <2>0, <5>1 DEF Ring, Kept
        <5>3. (n - k) % NR_SAMPLES # n % NR_SAMPLES
          <6>1. n - k \in Int /\ n \in Int /\ n - k # n
                /\ (n - k) - n < NR_SAMPLES /\ n - (n - k) < NR_SAMPLES
            BY <1>4, <3>1, <4>2, <5>1, RingSize
          <6> QED
            BY <6>1, OtherSlot
        <5>4. (n - k) % NR_SAMPLES \in Slots
          BY <5>1, ModSlot
        <5> QED
          BY <1>2, <1>3, <1>5, <2>0, <2>7, <5>1, <5>2, <5>3, <5>4
      <4> QED
        BY <3>1, <4>1, <4>2
    <3>2. ASSUME NEW k \in Kept'
          PROVE  samples'[(Len(taken') - 1 - k) % NR_SAMPLES].tod = taken'[Len(taken') - k]
      <4>1. k \in Nat /\ k < NR_SAMPLES /\ k < n + 1 /\ Len(taken') - 1 - k = n - k
            /\ Len(taken') - k = n + 1 - k
        BY <1>4, <1>5, <3>2 DEF Kept
      <4> QED
        BY <3>1, <4>1
    <3> QED
      BY <3>2 DEF Ring
  <2> QED
    BY <2>8, <2>9
<1> QED
  BY <1>1, <1>8, <1>9, <1>c, <1>d

LEMMA LoadCountInv ==
  ASSUME IInv, NEW p \in Callers, LoadCount(p)
  PROVE  IInv'
<1> USE DEF IInv
<1>1. /\ pc[p] = "load" /\ pc' = [pc EXCEPT ![p] = "store"]
      /\ tmp' = [tmp EXCEPT ![p] = count]
      /\ UNCHANGED <<count, samples, mutex, clock, phase, slot, calls, taken, raced, dump>>
  BY DEF LoadCount, Goto
<1>2. TypeOK' /\ OneAtATime'
  BY <1>1 DEF TypeOK, OneAtATime
<1>3. /\ Behind(p) = 1 /\ tmp'[p] = count /\ count \in Nat /\ Len(taken) \in Nat
      /\ \A q \in Callers : Behind(q)' = Behind(q) /\ Behind(q) \in {0, 1} /\ tmp[q] \in Nat
      /\ \A q \in Callers : q # p => tmp'[q] = tmp[q] /\ pc'[q] = pc[q]
  BY <1>1 DEF Behind, TypeOK
<1>4. Bounded'
  <2>1. ASSUME NEW t \in Threads
        PROVE  /\ count + Behind(t) + Behind(main) <= Len(taken)
               /\ pc'[t] = "store" => tmp'[t] + 1 + Behind(main) <= Len(taken)
               /\ pc'[main] = "store" => tmp'[main] + 1 + Behind(t) <= Len(taken)
    <3>1. t \in Callers /\ main \in Callers /\ t # main
      BY RingSize DEF Callers
    <3> QED
      BY <1>3, <3>1 DEF Bounded
  <2> QED
    BY <1>1, <1>3, <2>1 DEF Bounded, Callers
<1>5. BoundedMain'
  <2>1. main \in Callers
    BY DEF Callers
  <2> QED
    BY <1>1, <1>3, <2>1 DEF BoundedMain
<1>6. ASSUME CountInv
      PROVE  CountInv'
  BY <1>1, <1>6 DEF CountInv, TypeOK
<1>7. ASSUME Ring
      PROVE  Ring'
  BY <1>1, <1>7 DEF Ring, Kept
<1> QED
  BY <1>1, <1>2, <1>4, <1>5, <1>6, <1>7

LEMMA StoreCountInv ==
  ASSUME IInv, NEW p \in Callers, StoreCount(p)
  PROVE  IInv'
<1> USE DEF IInv
<1>1. /\ pc[p] = "store" /\ pc' = [pc EXCEPT ![p] = "idle"]
      /\ count' = tmp[p] + 1
      /\ p = main => mutex' = mutex
      /\ mutex' \in {mutex, None}
      /\ UNCHANGED <<samples, clock, phase, slot, tmp, calls, taken, raced, dump>>
  BY DEF StoreCount, Goto
<1>2. /\ pc'[p] = "idle" /\ Behind(p) = 1 /\ Behind(p)' = 0
      /\ \A q \in Callers : q # p => pc'[q] = pc[q] /\ Behind(q)' = Behind(q)
      /\ \A q \in Callers : Behind(q) \in {0, 1} /\ tmp[q] \in Nat
      /\ count \in Nat /\ Len(taken) \in Nat
  BY <1>1 DEF Behind, TypeOK
<1>3. TypeOK'
  BY <1>1 DEF TypeOK
<1>e. \A q \in Callers : q # p /\ q # main /\ pc[q] # "idle" => p = main
  BY <1>1, Exclusive
<1>4. OneAtATime'
  <2>1. ASSUME NEW q \in Callers, pc'[q] # "idle"
        PROVE  /\ q # main => phase' = "running" /\ mutex' = q
               /\ ~raced' => \A u \in Callers : pc'[u] # "idle" => u = q
    <3>1. q # p /\ pc[q] # "idle"
      BY <1>2, <2>1
    <3>2. q # main => phase' = "running" /\ mutex' = q
      BY <1>1, <1>e, <3>1 DEF OneAtATime
    <3>3. ~raced' => \A u \in Callers : pc'[u] # "idle" => u = q
      BY <1>1, <1>2, <3>1 DEF OneAtATime
    <3> QED
      BY <3>2, <3>3
  <2> QED
    BY <2>1 DEF OneAtATime
<1>5. Bounded'
  <2>1. ASSUME NEW t \in Threads
        PROVE  /\ count' + Behind(t)' + Behind(main)' <= Len(taken)
               /\ pc'[t] = "store" => tmp[t] + 1 + Behind(main)' <= Len(taken)
               /\ pc'[main] = "store" => tmp[main] + 1 + Behind(t)' <= Len(taken)
    <3>1. t \in Callers /\ main \in Callers /\ t # main
      BY RingSize DEF Callers
    <3>2. /\ count + Behind(t) + Behind(main) <= Len(taken)
          /\ pc[t] = "store" => tmp[t] + 1 + Behind(main) <= Len(taken)
          /\ pc[main] = "store" => tmp[main] + 1 + Behind(t) <= Len(taken)
      BY DEF Bounded
    <3>3. CASE p = t
      BY <1>1, <1>2, <3>1, <3>2, <3>3
    <3>4. CASE p = main
      BY <1>1, <1>2, <3>1, <3>2, <3>4
    <3>5. CASE p # t /\ p # main
      <4>1. pc[t] = "idle" /\ Behind(t) = 0 /\ p \in Threads
        BY <1>1, <1>e, <3>1, <3>5 DEF Behind, Callers
      <4>2. tmp[p] + 1 + Behind(main) <= Len(taken)
        BY <1>1, <4>1 DEF Bounded
      <4>3. /\ Behind(t)' = 0 /\ Behind(main)' = Behind(main) /\ pc'[main] = pc[main]
            /\ pc'[t] = "idle" /\ count' = tmp[p] + 1
        BY <1>1, <1>2, <3>1, <3>5, <4>1
      <4> QED
        BY <1>2, <3>1, <3>2, <4>1, <4>2, <4>3
    <3> QED
      BY <3>3, <3>4, <3>5
  <2> QED
    BY <1>1, <2>1 DEF Bounded
<1>6. BoundedMain'
  <2>0. main \in Callers
    BY DEF Callers
  <2>1. CASE p = main
    BY <1>1, <1>2, <2>0, <2>1 DEF BoundedMain
  <2>2. CASE p # main
    <3>1. /\ p \in Threads /\ tmp[p] + 1 + Behind(main) <= Len(taken)
      BY <1>1, <2>2 DEF Bounded, Callers
    <3>2. Behind(main)' = Behind(main) /\ pc'[main] = pc[main]
      BY <1>2, <2>0, <2>2
    <3> QED
      BY <1>1, <1>2, <3>1, <3>2 DEF BoundedMain
  <2> QED
    BY <2>1, <2>2
<1>7. ASSUME ~raced
      PROVE  CountInv' /\ Ring'
  <2>1. tmp[p] = count /\ count + 1 = Len(taken)
    BY <1>1, <1>7 DEF CountInv
  <2>2. \A q \in Callers : pc'[q] = "idle"
    BY <1>1, <1>2, <1>7, Exclusive
  <2>3. CountInv'
    BY <1>1, <2>1, <2>2 DEF CountInv
  <2>4. Ring'
    BY <1>1, <1>7 DEF Ring, Kept
  <2> QED
    BY <2>3, <2>4
<1> QED
  BY <1>1, <1>3, <1>4, <1>5, <1>6, <1>7

\* What main does between its samples, apart from launching the workers: no
\* caller is in k2_measure.
LEMMA MainInv ==
  ASSUME IInv, Launch \/ JoinAll \/ Flush \/ Clean
  PROVE  IInv'
<1> USE DEF IInv
<1>1. /\ \A p \in Callers : pc[p] = "idle" /\ pc'[p] = "idle"
      /\ UNCHANGED <<samples, mutex, clock, pc, slot, tmp>>
      /\ phase' \in {"alone", "running", "joined"}
  BY DEF Launch, JoinAll, Flush, Clean, OneAtATime, TypeOK, Callers
<1>2. calls' \in [Callers -> Nat]
  BY DEF Launch, JoinAll, Flush, Clean, TypeOK
<1>3. OneAtATime'
  BY <1>1 DEF OneAtATime
<1>b. /\ main \in Callers
      /\ \A p \in Callers : Behind(p) = 0 /\ Behind(p)' = 0
  BY <1>1 DEF Behind, Callers
<1>4. CASE Launch \/ JoinAll
  <2>1. UNCHANGED <<count, taken, raced>>
    BY <1>4 DEF Launch, JoinAll
  <2>2. TypeOK' /\ (CountInv => CountInv')
    BY <1>1, <1>2, <2>1 DEF TypeOK, CountInv
  <2>3. Ring => Ring'
    BY <1>1, <2>1 DEF Ring, Kept
  <2>4. Bounded' /\ BoundedMain'
    BY <1>1, <1>b, <2>1 DEF Bounded, BoundedMain, Callers
  <2> QED
    BY <1>3, <2>1, <2>2, <2>3, <2>4
<1>5. CASE Flush \/ Clean
  <2>0. << >> \in Seq(Nat) /\ Len(<< >>) = 0
    BY EmptySeq
  <2>1. count' = 0 /\ taken' = << >> /\ Len(taken') = 0 /\ taken' \in Seq(Nat) /\ raced' = FALSE
    BY <1>5, <2>0 DEF Flush, Clean
  <2>2. TypeOK' /\ CountInv'
    BY <1>1, <1>2, <2>1 DEF TypeOK, CountInv
  <2>3. Ring'
    BY <2>1 DEF Ring, Kept
  <2>4. Bounded' /\ BoundedMain'
    BY <1>1, <1>b, <2>1 DEF Bounded, BoundedMain, Callers
  <2> QED
    BY <1>3, <2>2, <2>3, <2>4
<1> QED
  BY <1>4, <1>5

LEMMA StepInv == IInv /\ [Next]_vars => IInv'
<1> SUFFICES ASSUME IInv, [Next]_vars
             PROVE  IInv'
  OBVIOUS
<1>1. CASE UNCHANGED vars
  <2>1. UNCHANGED <<count, samples, mutex, clock, phase, pc, slot, tmp, calls, taken, raced>>
    BY <1>1 DEF vars
  <2> QED
    BY <2>1 DEF IInv, TypeOK, OneAtATime, Bounded, BoundedMain, Behind, CountInv, Ring, Kept
<1> QED
  BY <1>1, CallInv, TakeSlotInv, StampInv, LoadCountInv, StoreCountInv, MainInv DEF Next

(* Until main's sample has met a worker's, the count is behind by the      *)
(* sample under way at most, and the ring holds the latest samples; after  *)
(* that, what is about to be stored in the count is still bounded by what  *)
(* has been taken.                                                         *)
THEOREM Invariant == Spec => []IInv
BY InitInv, StepInv, PTL DEF Spec

(* The comment in measure.c, "# of samples since last flush", bounds the   *)
(* count whatever main does, and is exact, with no sample in the ring      *)
(* missing or stale, until the sample that main takes without a lock while *)
(* the workers run meets one of theirs; for a ring of any size.            *)
THEOREM LatestInRing == Spec => []RingHoldsLatest
<1>1. IInv => RingHoldsLatest
  <2> SUFFICES ASSUME IInv, Quiet
               PROVE  /\ count <= Len(taken)
                      /\ ~raced =>
                           /\ count = Len(taken)
                           /\ \A k \in 0 .. DumpLength - 1 :
                                samples[(count - 1 - k) % NR_SAMPLES].tod
                                  = taken[Len(taken) - k]
    BY DEF RingHoldsLatest
  <2>1. count <= Len(taken)
    BY DEF IInv, BoundedMain, Behind, TypeOK, Quiet, Callers
  <2>2. ASSUME ~raced
        PROVE  /\ count = Len(taken)
               /\ \A k \in 0 .. DumpLength - 1 :
                    samples[(count - 1 - k) % NR_SAMPLES].tod = taken[Len(taken) - k]
    <3>1. count = Len(taken) /\ count \in Nat
      BY <2>2 DEF IInv, CountInv, Quiet, TypeOK
    <3>2. \A k \in 0 .. DumpLength - 1 : k \in Kept
      BY <3>1, RingSize DEF DumpLength, Kept
    <3> QED
      BY <2>2, <3>1, <3>2 DEF IInv, Ring
  <2> QED
    BY <2>1, <2>2
<1> QED
  BY <1>1, Invariant, PTL

-----------------------------------------------------------------------------
\* The k-th line of a flush
LEMMA DumpedLine ==
  ASSUME IInv, Quiet, ~raced, NEW k \in 1 .. DumpLength
  PROVE  samples[(DumpStart + k - 1) % NR_SAMPLES].tod
           = taken[Len(taken) - DumpLength + k]
<1>1. PICK n \in Nat : n = count /\ n = Len(taken)
  BY DEF IInv, CountInv, Quiet, TypeOK
<1> DEFINE l == DumpLength
           back == l - k
<1>2. /\ l \in Nat /\ l <= n /\ l <= NR_SAMPLES /\ k \in Nat /\ k >= 1 /\ k <= l
      /\ l = IF n > NR_SAMPLES THEN NR_SAMPLES ELSE n
  BY <1>1, RingSize DEF DumpLength
<1> HIDE DEF l
<1>3. /\ back \in Nat /\ back < NR_SAMPLES /\ back < n
      /\ n - back = n - l + k /\ n - 1 - back = n - l + k - 1
  BY <1>1, <1>2, RingSize
<1>4. samples[(n - l + k - 1) % NR_SAMPLES].tod = taken[n - l + k]
  BY <1>1, <1>3 DEF IInv, Ring, Kept
<1>5. (DumpStart + k - 1) % NR_SAMPLES = (n - l + k - 1) % NR_SAMPLES
  <2>1. CASE n > NR_SAMPLES
    <3>1. PICK q \in Int, r \in 0 .. NR_SAMPLES - 1 :
            n = NR_SAMPLES * q + r /\ r = n % NR_SAMPLES
      <4>1. n \in Int
        BY <1>1
      <4> QED
        BY <4>1, Division
    <3>2. DumpStart = r /\ l = NR_SAMPLES
      BY <1>1, <1>2, <2>1, <3>1 DEF DumpStart
    <3>3. (r + k - 1) - (n - NR_SAMPLES + k - 1) = NR_SAMPLES * (1 - q)
      <4>1. NR_SAMPLES * (1 - q) = NR_SAMPLES - NR_SAMPLES * q
        BY <3>1, RingSize
      <4>2. PICK x \in Int : x = NR_SAMPLES * q
        BY <3>1, RingSize
      <4>3. n = x + r /\ r \in Int
        BY <3>1, <4>2, RingSize
      <4>4. (r + k - 1) - (n - NR_SAMPLES + k - 1) = NR_SAMPLES - x
        BY <1>1, <1>2, <4>2, <4>3, RingSize
      <4> QED
        BY <4>1, <4>2, <4>4
    <3>4. r + k - 1 \in Int /\ n - NR_SAMPLES + k - 1 \in Int /\ 1 - q \in Int
      BY <1>1, <1>2, <3>1, RingSize
    <3>5. (r + k - 1) % NR_SAMPLES = (n - NR_SAMPLES + k - 1) % NR_SAMPLES
      BY <3>3, <3>4, SameSlot
    <3> QED
      BY <3>2, <3>5
  <2>2. CASE ~(n > NR_SAMPLES)
    <3>1. DumpStart = 0 /\ l = n
      BY <1>1, <1>2, <2>2 DEF DumpStart
    <3>2. 0 + k - 1 = n - n + k - 1
      BY <1>1, <1>2
    <3> QED
      BY <3>1, <3>2
  <2> QED
    BY <2>1, <2>2
<1> QED
  BY <1>1, <1>4, <1>5 DEF l

LEMMA FlushLatest ==
  ASSUME IInv, Flush, ~raced
  PROVE  dump' = SubSeq(taken, Len(taken) - Len(dump') + 1, Len(taken))
<1>1. Quiet
  BY DEF Flush, IInv, OneAtATime, Quiet, TypeOK, Callers
<1>2. PICK n \in Nat : n = Len(taken) /\ n = count
  BY <1>1 DEF IInv, CountInv, Quiet, TypeOK
<1>3. PICK l \in Nat : l = DumpLength /\ l <= n
  BY <1>2, RingSize DEF DumpLength
<1>4. dump' = [k \in 1 .. l |-> taken[n - l + k]]
  BY <1>1, <1>2, <1>3, DumpedLine DEF Flush
<1>5. \A k \in 1 .. n : taken[k] \in Nat
  <2>1. taken \in Seq(Nat)
    BY DEF IInv, TypeOK
  <2> QED
    BY <1>2, <2>1, ElementOfSeq
<1>6. \A k \in 1 .. l : taken[n - l + k] \in Nat
  BY <1>2, <1>3, <1>5
<1>7. dump' \in Seq(Nat) /\ Len(dump') = l
  <2>1. dump' \in [1 .. l -> Nat]
    BY <1>4, <1>6
  <2>2. dump' \in Seq(Nat)
    BY <1>3, <2>1, SeqDef
  <2>3. DOMAIN dump' = 1 .. l /\ DOMAIN dump' = 1 .. Len(dump') /\ Len(dump') \in Nat
    BY <2>1, <2>2, LenProperties
  <2> QED
    BY <1>3, <2>2, <2>3
<1> DEFINE tail == SubSeq(taken, n - l + 1, n)
<1>8. /\ n - l + 1 \in Int /\ \A k \in n - l + 1 .. n : taken[k] \in Nat
  BY <1>2, <1>3, <1>5
<1>9. /\ tail \in Seq(Nat)
      /\ Len(tail) = IF n - l + 1 <= n THEN n - (n - l + 1) + 1 ELSE 0
      /\ \A k \in 1 .. n - (n - l + 1) + 1 : tail[k] = taken[n - l + 1 + k - 1]
  BY <1>2, <1>8, SubSeqProperties
<1>10. Len(tail) = l
  BY <1>2, <1>3, <1>9
<1>11. ASSUME NEW k \in 1 .. l
       PROVE  dump'[k] = tail[k]
  <2>1. n - (n - l + 1) + 1 = l /\ n - l + 1 + k - 1 = n - l + k
    BY <1>2, <1>3
  <2> QED
    BY <1>4, <1>9, <1>11, <2>1
<1> HIDE DEF tail
<1>12. dump' = tail
  BY <1>7, <1>9, <1>10, <1>11, SeqEqual
<1> QED
  BY <1>2, <1>7, <1>12 DEF tail

\* A flush has as many lines as the count and the ring allow.
LEMMA FlushLength ==
  ASSUME IInv, Flush
  PROVE  Len(dump') <= Len(taken)
<1>1. count <= Len(taken) /\ count \in Nat /\ Len(taken) \in Nat
  BY DEF Flush, IInv, BoundedMain, Behind, TypeOK, Callers
<1>2. PICK l \in Nat : l = DumpLength /\ l <= count
  BY <1>1, RingSize DEF DumpLength
<1>3. \A k \in 1 .. l : (DumpStart + k - 1) % NR_SAMPLES \in Slots
  <2>1. DumpStart \in Nat
    BY <1>1, RingSize DEF DumpStart
  <2> QED
    BY <2>1, ModSlot
<1>4. dump' \in [1 .. l -> Nat]
  BY <1>2, <1>3 DEF Flush, IInv, TypeOK
<1>5. dump' \in Seq(Nat)
  BY <1>2, <1>4, SeqDef
<1>6. DOMAIN dump' = 1 .. l /\ DOMAIN dump' = 1 .. Len(dump') /\ Len(dump') \in Nat
  BY <1>4, <1>5, LenProperties
<1> QED
  BY <1>1, <1>2, <1>6

(* k2_measure_flush writes the latest samples, oldest first, wherever the  *)
(* ring has wrapped, until a race of main's with a worker, and never more  *)
(* lines than samples were taken.                                          *)
THEOREM FlushesLatest == Spec => DumpsLatest
<1>1. ASSUME IInv, [Next]_vars, dump' # dump
      PROVE  /\ Len(dump') <= Len(taken)
             /\ ~raced => dump' = SubSeq(taken, Len(taken) - Len(dump') + 1, Len(taken))
  <2>1. Flush
    BY <1>1 DEF Next, Call, TakeSlot, Stamp, LoadCount, StoreCount, Launch, JoinAll,
                Clean, vars
  <2> QED
    BY <1>1, <2>1, FlushLatest, FlushLength
<1>2. IInv /\ [Next]_vars =>
        [dump' # dump =>
           /\ Len(dump') <= Len(taken)
           /\ ~raced => dump' = SubSeq(taken, Len(taken) - Len(dump') + 1, Len(taken))]_vars
  BY <1>1
<1> QED
  BY <1>2, Invariant, PTL DEF Spec, DumpsLatest
=============================================================================
