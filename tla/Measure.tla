------------------------------ MODULE Measure ------------------------------
(***************************************************************************)
(* p2/exp2/measure.c: the tracepoint ring of the list and hash programs.   *)
(* Worker threads take their samples under mutexes[0]; main takes its own  *)
(* without a lock, before it launches the threads, while they run ("tr     *)
(* launched"), and after it has joined them, and dumps the ring at the     *)
(* end.  The steps of k2_measure are separate.                             *)
(***************************************************************************)
EXTENDS Integers, FiniteSets, Sequences

CONSTANTS NR_SAMPLES,   \* slots of the ring
          Threads,      \* the workers, two samples each
          MainSamples,  \* bound on the samples main takes while it is alone
          MainRunning,  \* samples main takes while the workers run
          main, None

ASSUME MeasureAssumption ==
  /\ NR_SAMPLES \in Nat \ {0} /\ MainSamples \in Nat /\ MainRunning \in Nat
  /\ main \notin Threads /\ None \notin Threads \cup {main}

VARIABLES count,        \* samples since the last flush
          samples,      \* slot -> [msg, tod]
          mutex,        \* who holds mutexes[0]
          clock,        \* gettimeofday, one unit per reading
          phase,        \* "alone" before the launch, "running", "joined"
          pc, slot, tmp,        \* of each caller: place in k2_measure, its i,
                                \* and the count it has loaded for count++
          calls,        \* caller -> calls of k2_measure made in this phase
          taken,        \* the samples since the last flush (history)
          raced,        \* since then a call of main's has overlapped a worker's
          dump          \* the last flush: the tod of each line

vars == <<count, samples, mutex, clock, phase, pc, slot, tmp, calls, taken, raced, dump>>

Callers == Threads \cup {main}
Slots   == 0 .. NR_SAMPLES - 1
Blank   == [msg |-> None, tod |-> 0]

Init ==
  /\ count = 0
  /\ samples = [s \in Slots |-> Blank]
  /\ mutex = None
  /\ clock = 0
  /\ phase = "alone"
  /\ pc = [p \in Callers |-> "idle"]
  /\ slot = [p \in Callers |-> 0]
  /\ tmp = [p \in Callers |-> 0]
  /\ calls = [p \in Callers |-> 0]
  /\ taken = << >> /\ raced = FALSE /\ dump = << >>

Goto(p, from, to) == pc[p] = from /\ pc' = [pc EXCEPT ![p] = to]

\* A call of p's begins in the middle of another, and main makes one of them.
Overlaps(p) == \E q \in Callers : pc[q] # "idle" /\ (p = main \/ q = main)

\* Mutant: a worker does not take the mutex.
Call_unlocked(p) ==
  /\ Goto(p, "idle", "slot")
  /\ IF p = main
     THEN calls[p] < IF phase = "running" THEN MainRunning ELSE MainSamples
     ELSE phase = "running" /\ calls[p] < 2
  /\ calls' = [calls EXCEPT ![p] = @ + 1]
  /\ raced' = (raced \/ Overlaps(p))
  /\ UNCHANGED <<count, samples, mutex, clock, phase, slot, tmp, taken, dump>>

\* A worker locks mutexes[0] around each of its two samples, main does not.
Call(p) ==
  /\ Goto(p, "idle", "slot")
  /\ IF p = main
     THEN /\ calls[p] < IF phase = "running" THEN MainRunning ELSE MainSamples
          /\ UNCHANGED mutex
     ELSE /\ phase = "running" /\ calls[p] < 2
          /\ mutex = None /\ mutex' = p
  /\ calls' = [calls EXCEPT ![p] = @ + 1]
  /\ raced' = (raced \/ Overlaps(p))
  /\ UNCHANGED <<count, samples, clock, phase, slot, tmp, taken, dump>>

\* i = count % NR_SAMPLES, samples[i].msg = msg
TakeSlot(p) ==
  /\ Goto(p, "slot", "stamp")
  /\ LET i == count % NR_SAMPLES
     IN  /\ slot' = [slot EXCEPT ![p] = i]
         /\ samples' = [samples EXCEPT ![i].msg = p]
  /\ UNCHANGED <<count, mutex, clock, phase, tmp, calls, taken, raced, dump>>

\* samples[i].tod = tod_us
Stamp(p) ==
  /\ Goto(p, "stamp", "load")
  /\ clock' = clock + 1
  /\ samples' = [samples EXCEPT ![slot[p]].tod = clock']
  /\ taken' = Append(taken, clock')
  /\ UNCHANGED <<count, mutex, phase, slot, tmp, calls, raced, dump>>

\* count++, as a load and a store
LoadCount(p) ==
  /\ Goto(p, "load", "store")
  /\ tmp' = [tmp EXCEPT ![p] = count]
  /\ UNCHANGED <<count, samples, mutex, clock, phase, slot, calls, taken, raced, dump>>

StoreCount(p) ==
  /\ Goto(p, "store", "idle")
  /\ count' = tmp[p] + 1
  /\ mutex' = IF p = main THEN mutex ELSE None
  /\ UNCHANGED <<samples, clock, phase, slot, tmp, calls, taken, raced, dump>>

\* main: pthread_create, pthread_join
Launch ==
  /\ phase = "alone" /\ pc[main] = "idle"
  /\ phase' = "running"
  /\ calls' = [p \in Callers |-> 0]
  /\ UNCHANGED <<count, samples, mutex, clock, pc, slot, tmp, taken, raced, dump>>

JoinAll ==
  /\ phase = "running" /\ pc[main] = "idle"
  /\ \A t \in Threads : pc[t] = "idle" /\ calls[t] = 2
  /\ phase' = "joined"
  /\ calls' = [p \in Callers |-> 0]
  /\ UNCHANGED <<count, samples, mutex, clock, pc, slot, tmp, taken, raced, dump>>

\* Mutant: the dump of a wrapped ring starts at slot 0.
DumpStart_zero == 0

\* Where the dump starts: at the oldest sample when the ring has wrapped.
DumpStart == IF count > NR_SAMPLES THEN count % NR_SAMPLES ELSE 0

DumpLength == IF count > NR_SAMPLES THEN NR_SAMPLES ELSE count

\* k2_measure_flush: the tod column of the lines dumped
Flush ==
  /\ phase # "running" /\ pc[main] = "idle"
  /\ dump' = [k \in 1 .. DumpLength |->
                samples[(DumpStart + k - 1) % NR_SAMPLES].tod]
  /\ count' = 0
  /\ taken' = << >> /\ raced' = FALSE
  /\ UNCHANGED <<samples, mutex, clock, phase, pc, slot, tmp, calls>>

\* k2_measure_clean
Clean ==
  /\ phase # "running" /\ pc[main] = "idle"
  /\ count' = 0
  /\ taken' = << >> /\ raced' = FALSE
  /\ UNCHANGED <<samples, mutex, clock, phase, pc, slot, tmp, calls, dump>>

Next == \/ \E p \in Callers : \/ Call(p) \/ TakeSlot(p) \/ Stamp(p)
                              \/ LoadCount(p) \/ StoreCount(p)
        \/ Launch \/ JoinAll \/ Flush \/ Clean

Spec == Init /\ [][Next]_vars

-----------------------------------------------------------------------------
Quiet == \A p \in Callers : pc[p] = "idle"

\* "count: # of samples since last flush", whenever nobody is in k2_measure.
SampleCount == Quiet => count = Len(taken)

\* The ring holds the latest samples, wherever it has wrapped: none is missing
\* and none is stale, unless the sample that main takes without a lock while
\* the workers run has met one of theirs.  Then samples are lost, but never
\* made up: the count is at most what has been taken.
RingHoldsLatest ==
  Quiet => /\ count <= Len(taken)
           /\ ~raced =>
                /\ count = Len(taken)
                /\ \A k \in 0 .. DumpLength - 1 :
                     samples[(count - 1 - k) % NR_SAMPLES].tod = taken[Len(taken) - k]

\* A flush dumps the latest samples since the last flush, oldest first: no
\* more than the ring holds and none from before; and if main has raced with
\* a worker, still no more lines than samples.
DumpsLatest ==
  [][dump' # dump =>
       /\ Len(dump') <= Len(taken)
       /\ ~raced => dump' = SubSeq(taken, Len(taken) - Len(dump') + 1, Len(taken))]_vars
=============================================================================
