----------------------------- MODULE SortedList -----------------------------
(***************************************************************************)
(* p2/exp2/SortedList.c: a client of the lists, which inserts elements     *)
(* that are on no list and deletes any element it has inserted before,     *)
(* twice too.                                                              *)
(***************************************************************************)
EXTENDS ListHeap, SequencesExt

CONSTANTS Lists,        \* the list heads
          Elements      \* the elements; where their order matters, their keys

ASSUME ListsAssumption ==
  /\ IsFiniteSet(Lists \cup Elements) /\ Lists \cap Elements = {}
  /\ Uninit \notin Lists \cup Elements

VARIABLES heap,         \* [next, prev]: node -> node
          inserted,     \* the elements that have been inserted at least once
          ret           \* what the last SortedList_delete returned

vars == <<heap, inserted, ret>>

Nodes == Lists \cup Elements

-----------------------------------------------------------------------------
Init == heap = Fresh(Lists, Elements) /\ inserted = {} /\ ret = 0

OnSomeList == UNION {ToSet(Contents(heap, l)) : l \in Lists}

Insert(l, e) ==
  /\ e \notin OnSomeList
  /\ heap' = Linked(heap, l, e)
  /\ inserted' = inserted \cup {e}
  /\ UNCHANGED ret

\* Mutant: the error code of SortedList_length.
Delete_minus(e) ==
  /\ e \in inserted
  /\ IF Intact(heap, e)
     THEN heap' = Unlinked(heap, e) /\ ret' = 0
     ELSE ret' = -1 /\ UNCHANGED heap
  /\ UNCHANGED inserted

\* SortedList_delete
Delete(e) ==
  /\ e \in inserted
  /\ IF Intact(heap, e)
     THEN heap' = Unlinked(heap, e) /\ ret' = 0
     ELSE ret' = 1 /\ UNCHANGED heap
  /\ UNCHANGED inserted

Next == \/ \E l \in Lists, e \in Elements : Insert(l, e)
        \/ \E e \in Elements : Delete(e)

Spec == Init /\ [][Next]_vars

-----------------------------------------------------------------------------
TypeOK ==
  /\ heap \in [{"next", "prev"} -> [Nodes -> Nodes \cup {Uninit}]]
  /\ inserted \subseteq Elements
  /\ ret \in {0, 1}

\* The check that SortedList_delete makes before it unlinks tells an element
\* that is on a list from one that is not, whatever became of the neighbours
\* its stale pointers still name: a second deletion never damages a list.
DeleteTellsMembers ==
  \A e \in inserted : Intact(heap, e) <=> e \in OnSomeList

\* SortedList_length reports corruption of no list that was built by legal
\* calls, and counts every element of it.
LengthCounts == \A l \in Lists : Length(heap, l) = Len(Contents(heap, l))

\* SortedList.h: an insertion keeps the list "sorted in ascending order based
\* on associated keys".
StaysSorted == \A l \in Lists : LET s == Contents(heap, l) IN
                 \A j, k \in DOMAIN s : j < k => s[j] <= s[k]

Abstract == INSTANCE ElementLists
            WITH lists <- [l \in Lists |-> Contents(heap, l)]

\* The pointer operations are the operations on sequences of ElementLists.
ImplementsLists == Abstract!Spec
=============================================================================
