--------------------------- MODULE AtomicCounter ---------------------------
(***************************************************************************)
(* What p2/exp1/counter.c promises when its additions are synchronized:    *)
(* one shared counter to which every thread adds +1 Iterations times and   *)
(* then -1 Iterations times, each addition a single step.                  *)
(***************************************************************************)
EXTENDS Integers

CONSTANTS Threads,      \* the numThreads threads that main creates
          Iterations    \* --iterations

VARIABLES the_counter,  \* the shared counter
          finished      \* thread -> how many of its additions took effect

vars == <<the_counter, finished>>

Additions == 2 * Iterations

\* The value of a thread's k-th addition, from 0: thread_func adds 1 in its
\* first loop and -1 in its second.
Value(k) == IF k < Iterations THEN 1 ELSE -1

Init == /\ the_counter = 0
        /\ finished = [t \in Threads |-> 0]

Add(t) == /\ finished[t] < Additions
          /\ the_counter' = the_counter + Value(finished[t])
          /\ finished' = [finished EXCEPT ![t] = @ + 1]

Next == \E t \in Threads : Add(t)

Spec == Init /\ [][Next]_vars

(***************************************************************************)
(* The additions that took effect, as sets of (thread, k) pairs: the +1s   *)
(* and the -1s.                                                            *)
(***************************************************************************)
Ups   == {a \in Threads \X (0 .. Iterations - 1) : a[2] < finished[a[1]]}
Downs == {a \in Threads \X (Iterations .. Additions - 1) : a[2] < finished[a[1]]}
=============================================================================
