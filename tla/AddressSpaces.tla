--------------------------- MODULE AddressSpaces ---------------------------
(***************************************************************************)
(* What the virtual memory of p1_6 promises its tasks: each has pages of   *)
(* its own, a new one is zero, a child starts with a copy of its parent's, *)
(* and nobody else's writes are ever seen.  Only when memory has run out   *)
(* may a child get less, or nothing: then it ends with its first fetch.    *)
(***************************************************************************)
CONSTANTS Tasks, root, UserPages, Words, Zero, Code,
          NoPage,        \* what is at an address that is not mapped
          Unborn, Ended  \* the space of a task before its fork, after its end

VARIABLES space,         \* task -> the contents of its pages
          full           \* memory has run out

vars == <<space, full>>

Alive(t)  == space[t] \notin {Unborn, Ended}
Mapped(t) == {va \in UserPages : Alive(t) /\ space[t][va] # NoPage}

Init ==
  /\ space = [t \in Tasks |->
                IF t = root THEN [va \in UserPages |-> NoPage] ELSE Unborn]
  /\ full \in BOOLEAN

\* The kernel loads the program into the first page of root.
Load(va) ==
  /\ Alive(root) /\ Mapped(root) = {}
  /\ space' = [space EXCEPT ![root][va] = Code]

Grow(t, va) ==
  /\ Alive(t) /\ va \notin Mapped(t)
  /\ space' = [space EXCEPT ![t][va] = Zero]

Write(t, va, value) ==
  /\ Alive(t) /\ va \in Mapped(t)
  /\ space' = [space EXCEPT ![t][va] = value]

Fork(parent, child, copied) ==
  /\ Alive(parent) /\ space[child] = Unborn
  /\ copied # Mapped(parent) => full'
  /\ space' = [space EXCEPT ![child] =
       IF copied = {} THEN Ended
       ELSE [va \in UserPages |-> IF va \in copied THEN space[parent][va] ELSE NoPage]]

End(t) ==
  /\ Alive(t)
  /\ space' = [space EXCEPT ![t] = Ended]

Next ==
  /\ full => full'
  /\ \/ UNCHANGED space
     \/ \E va \in UserPages : Load(va)
     \/ \E t \in Tasks, va \in UserPages :
          Grow(t, va) \/ \E value \in Words : Write(t, va, value)
     \/ \E parent, child \in Tasks :
          \E copied \in SUBSET Mapped(parent) : Fork(parent, child, copied)
     \/ \E t \in Tasks : End(t)

Spec == Init /\ [][Next]_vars
=============================================================================
