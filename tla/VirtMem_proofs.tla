--------------------------- MODULE VirtMem_proofs ---------------------------
(***************************************************************************)
(* For any memory, any table size and any number of tasks: the types of    *)
(* VirtMem, that a page has one holder at most, that none is lost, that    *)
(* user_pages stays within three entries, and that the tasks see the       *)
(* address spaces AddressSpaces promises.  IInv is about pages and calls;  *)
(* SInv, on top of it, about what the tables map and the pages contain.    *)
(***************************************************************************)
EXTENDS VirtMem, SequenceTheorems, TLAPS

\* t is in a call that allocates.
Walking(t) == pc[t] \in {"see", "mark", "walk"}

\* A page that is marked has been cleared.
Cleared ==
  \A p \in DOMAIN mem_map : mem_map[p] = 1 =>
    \A i \in 0 .. PTRS_PER_TABLE - 1 : table[p][i] \in 0 .. Len(mem_map)

\* One call at a time: either preemption is off or nobody else is left to run.
Undisturbed ==
  /\ \A t \in Tasks : Walking(t) =>
       /\ at[t].job = "fork" => cpu = t
       /\ at[t].job # "fork" => Alone(t)
       /\ \A u \in Tasks : Walking(u) => u = t
  /\ pc[root] = "kernel" => Alone(root)

\* Where a call is, and what it has.
CallOK(t) ==
  /\ at[t].job # "none" /\ at[t].rest # <<>>
  /\ at[t].level = TaskStruct => at[t].job = "fork"
  /\ at[t].level \in Pud .. Leaf =>
       at[t].table \in DOMAIN mem_map /\ mem_map[at[t].table] = 1
  /\ pc[t] = "see" => at[t].level <= Pte
  /\ pc[t] = "mark" =>
       /\ at[t].level <= Pte
       /\ at[t].page \in DOMAIN mem_map /\ mem_map[at[t].page] = 0
  /\ pc[t] = "walk" => at[t].level >= Pgd

CallsOK ==
  /\ \A t \in Tasks : Walking(t) => CallOK(t)
  /\ \A t \in Tasks : ~Walking(t) => at[t] = Idle
  /\ \A t \in Tasks : pc[t] = "user" => user_pages[t] # <<>>

\* Once page 0 has been taken for a table there is no page left, and no call
\* comes as far again.
OnceOnly ==
  page0 # 0 =>
    Unmarked = {} /\ \A t \in Tasks : Walking(t) => pc[t] = "see" /\ at[t].level <= UserPage

\* A task has as many pages as there were faults that succeeded, and one.
LengthOK(t) ==
  /\ Len(user_pages[t]) <= 3
  /\ Live(t) => Len(user_pages[t]) <= ind /\ Len(user_pages[t]) <= 2
  /\ pc[t] = "kernel" => user_pages[t] = <<>>
  /\ task[t] = 0 => user_pages[t] = <<>> /\ pc[t] = "none"

\* What is left of a call, and that a fork's child is not there yet.
RestOK(t) ==
  /\ at[t].job = "load" => user_pages[t] = <<>>
  /\ at[t].job # "fork" => at[t].dst = t /\ Len(at[t].rest) = 1
  /\ at[t].job = "fork" =>
       /\ at[t].dst # t /\ pc[at[t].dst] = "none"
       /\ (at[t].level = TaskStruct) <=> (task[at[t].dst] = 0)
       /\ Len(user_pages[at[t].dst]) + Len(at[t].rest) = Len(user_pages[t])

Lengths ==
  /\ ind >= 1
  /\ \A t \in Tasks : LengthOK(t)
  /\ \A t \in Tasks : Walking(t) => RestOK(t)

IInv == TypeOK /\ Cleared /\ PagesOwned /\ Undisturbed /\ CallsOK /\ Lengths /\ OnceOnly

-----------------------------------------------------------------------------
\* The record of a call, and the set at[t] is in.
Calls == [job : {"none", "load", "fault", "fork"}, dst : Tasks,
          rest : Seq(UserPages), level : TaskStruct .. Leaf,
          page : 0 .. Len(mem_map), table : 0 .. Len(mem_map),
          user : 0 .. Len(mem_map)]

LEMMA SpanType ==
  ASSUME NEW level
  PROVE  Span(level) \in Nat \ {0}
<1>1. PTRS_PER_TABLE \in Nat \ {0}
  BY MemoryAssumption
<1>2. \A m, n \in Nat \ {0} : m * n \in Nat \ {0}
  BY Z3
<1>3. QED
  BY <1>1, <1>2 DEF Span

\* An index is in the table.
LEMMA IndexType ==
  ASSUME NEW va \in UserPages, NEW level
  PROVE  Index(va, level) \in 0 .. PTRS_PER_TABLE - 1
<1>1. va \in Nat /\ PTRS_PER_TABLE \in Nat \ {0}
  BY MemoryAssumption
<1>2. va \div Span(level) \in Int
  BY <1>1, SpanType
<1>3. QED
  BY <1>1, <1>2 DEF Index

LEMMA IdleType ==
  ASSUME Len(mem_map) \in Nat
  PROVE  Idle \in Calls
  BY MemoryAssumption DEF Idle, Calls, TaskStruct, Leaf

LEMMA InitType == Init => TypeOK
<1> SUFFICES ASSUME Init PROVE TypeOK
  OBVIOUS
<1>1. PICK size \in Pages : mem_map = [p \in 1 .. size |-> IF p = 1 THEN 1 ELSE 0]
  BY DEF Init
<1>2. size \in Nat /\ size >= 1 /\ PAGING_PAGES \in Nat /\ size <= PAGING_PAGES
  BY MemoryAssumption DEF Pages
<1>3. mem_map \in Seq({0, 1}) /\ Len(mem_map) = size
  BY <1>1, <1>2
<1>4. at \in [Tasks -> Calls]
  BY <1>2, <1>3, IdleType DEF Init
<1>5. /\ table \in [Pages -> [0 .. PTRS_PER_TABLE - 1 -> 0 .. Junk]]
      /\ data \in [Pages -> Words \cup {Zero, Code, Stale, NoPage}]
  BY <1>2 DEF Init, Junk, NoEntry
<1>6. /\ task \in [Tasks -> 0 .. Len(mem_map)]
      /\ pgd \in [Tasks -> 0 .. Len(mem_map)]
  <2>1. {0, 1} \subseteq 0 .. Len(mem_map)
    BY <1>2, <1>3
  <2>2. task = [t \in Tasks |-> IF t = root THEN 1 ELSE 0] /\ pgd = [t \in Tasks |-> 0]
    BY DEF Init, NoEntry
  <2>3. QED
    BY <2>1, <2>2
<1>7. user_pages \in [Tasks -> Seq(UserPages)]
  <2>1. <<>> \in Seq(UserPages)
    OBVIOUS
  <2>2. user_pages = [t \in Tasks |-> <<>>]
    BY DEF Init
  <2>3. QED
    BY <2>1, <2>2
<1>8. /\ cpu \in Tasks \cup {Nobody} /\ halted \in BOOLEAN
      /\ pc \in [Tasks -> {"none", "kernel", "user", "see", "mark", "walk",
                            "failed", "hung", "zombie", "astray"}]
  BY DEF Init
<1>9. ind \in Nat /\ page0 \in 0 .. Len(mem_map)
  <2>1. ind = 1 /\ page0 = 0
    BY DEF Init
  <2>2. QED
    BY <1>2, <1>3, <2>1
<1>10. QED
  BY <1>2, <1>3, <1>4, <1>5, <1>6, <1>7, <1>8, <1>9 DEF TypeOK, Calls, Pages

-----------------------------------------------------------------------------
\* The pages there are.
LEMMA MapType ==
  ASSUME TypeOK
  PROVE  /\ Len(mem_map) \in Nat /\ DOMAIN mem_map = 1 .. Len(mem_map)
         /\ DOMAIN mem_map \subseteq Pages
<1>1. Len(mem_map) \in 1 .. PAGING_PAGES
  BY DEF TypeOK, Pages
<1>2. DOMAIN mem_map = 1 .. Len(mem_map)
  BY DEF TypeOK
<1>3. 1 .. Len(mem_map) \subseteq 1 .. PAGING_PAGES
  BY <1>1, MemoryAssumption
<1>4. QED
  BY <1>1, <1>2, <1>3, MemoryAssumption DEF Pages

\* What a call has, with its levels as numbers.
LEMMA CallType ==
  ASSUME TypeOK, NEW t \in Tasks
  PROVE  /\ at[t] \in Calls /\ at[t].level \in 0 .. 6
         /\ at[t].job \in {"none", "load", "fault", "fork"}
         /\ at[t].rest \in Seq(UserPages) /\ at[t].dst \in Tasks
         /\ at[t].page \in 0 .. Len(mem_map) /\ at[t].table \in 0 .. Len(mem_map)
         /\ at[t].user \in 0 .. Len(mem_map)
<1>1. at[t] \in Calls
  BY DEF TypeOK, Calls
<1>2. QED
  BY <1>1 DEF Calls, TaskStruct, Leaf

\* What Begin does to the types.
LEMMA BeginType ==
  ASSUME TypeOK, NEW t \in Tasks, NEW job \in {"load", "fault", "fork"},
         NEW dst \in Tasks, NEW rest \in Seq(UserPages),
         NEW level \in TaskStruct .. Leaf,
         Begin(t, job, dst, rest, level), cpu' \in Tasks \cup {Nobody}
  PROVE  TypeOK'
<1>1. Idle \in Calls
  BY IdleType DEF TypeOK, Pages
<1>2. [Idle EXCEPT !.job = job, !.dst = dst, !.rest = rest, !.level = level] \in Calls
  BY <1>1 DEF Calls
<1>3. at' \in [Tasks -> Calls]
  BY <1>2 DEF Begin, TypeOK, Calls
<1>4. QED
  BY <1>3 DEF Begin, TypeOK, Calls

LEMMA FinishType ==
  ASSUME TypeOK, NEW t \in Tasks, NEW where, NEW child,
         {where, child} \subseteq {"user", "hung", "astray"},
         Finish(t, where, child)
  PROVE  /\ at' \in [Tasks -> Calls]
         /\ pc' \in [Tasks -> {"none", "kernel", "user", "see", "mark", "walk",
                               "failed", "hung", "zombie", "astray"}]
         /\ cpu' \in Tasks \cup {Nobody}
<1>1. Idle \in Calls
  BY IdleType DEF TypeOK, Pages
<1>2. QED
  BY <1>1 DEF Finish, TypeOK, Calls

\* The scan returns a page that is there.
LEMMA SeeType ==
  ASSUME TypeOK, NEW t \in Tasks, See(t)
  PROVE  TypeOK'
<1>1. PICK p \in Unmarked : at' = [at EXCEPT ![t].page = p]
  BY DEF See
<1>2. p \in 0 .. Len(mem_map)
  BY <1>1, SMTT(30) DEF Unmarked, TypeOK
<1>3. at' \in [Tasks -> Calls]
  <2>1. at \in [Tasks -> Calls]
    BY DEF TypeOK, Calls
  <2>2. at' = [at EXCEPT ![t] = [at[t] EXCEPT !.page = p]]
    BY <1>1, <2>1
  <2>3. [at[t] EXCEPT !.page = p] \in Calls
    BY <1>2, CallType DEF Calls
  <2>4. QED
    BY <2>1, <2>2, <2>3
<1>4. pc' \in [Tasks -> {"none", "kernel", "user", "see", "mark", "walk",
                         "failed", "hung", "zombie", "astray"}]
  BY DEF See, TypeOK
<1>5. QED
  BY <1>3, <1>4 DEF See, TypeOK, Calls

\* Marking a page changes one element of mem_map.
LEMMA MarkedMap ==
  ASSUME TypeOK, NEW t \in Tasks, CallOK(t), pc[t] = "mark", Mark(t)
  PROVE  /\ mem_map' \in Seq({0, 1}) /\ Len(mem_map') = Len(mem_map)
         /\ DOMAIN mem_map' = DOMAIN mem_map /\ DOMAIN mem_map = 1 .. Len(mem_map)
         /\ DOMAIN mem_map \subseteq Pages
         /\ at[t].page \in 1 .. Len(mem_map)
         /\ mem_map'[at[t].page] = 1
         /\ \A p \in DOMAIN mem_map : p # at[t].page => mem_map'[p] = mem_map[p]
<1>1. mem_map \in Seq({0, 1}) /\ at[t].page \in 1 .. Len(mem_map)
  BY DEF TypeOK, CallOK
<1>2. mem_map' = [mem_map EXCEPT ![at[t].page] = 1]
  BY DEF Mark
<1>3. /\ mem_map' \in Seq({0, 1}) /\ Len(mem_map') = Len(mem_map)
      /\ \A j \in 1 .. Len(mem_map) :
           mem_map'[j] = IF j = at[t].page THEN 1 ELSE mem_map[j]
  BY <1>1, <1>2, ExceptSeq
<1>4. QED
  BY <1>1, <1>3, MapType

LEMMA MarkType ==
  ASSUME TypeOK, NEW t \in Tasks, CallOK(t), Mark(t)
  PROVE  TypeOK'
<1> DEFINE a == at[t]
           zero == [i \in 0 .. PTRS_PER_TABLE - 1 |-> NoEntry]
           cleared == [table EXCEPT ![a.page] = zero]
<1>0. pc[t] = "mark"
  BY DEF Mark
<1>1. /\ mem_map' \in Seq({0, 1}) /\ Len(mem_map') = Len(mem_map)
      /\ Len(mem_map) \in Nat
      /\ a.page \in 1 .. Len(mem_map) /\ a.page \in Pages
  BY <1>0, MarkedMap, SMTT(30) DEF TypeOK
<1>2. a \in Calls /\ a.level \in 0 .. 5
  BY <1>0 DEF TypeOK, Calls, CallOK, TaskStruct, Pte, Leaf
<1>3. data' \in [Pages -> Words \cup {Zero, Code, Stale, NoPage}]
  BY DEF Mark, TypeOK
<1>4. task' \in [Tasks -> 0 .. Len(mem_map)] /\ pgd' \in [Tasks -> 0 .. Len(mem_map)]
  BY <1>1, <1>2 DEF Mark, TypeOK, Calls
<1>5. table' \in [Pages -> [0 .. PTRS_PER_TABLE - 1 -> 0 .. Junk]]
  <2>1. Junk \in Nat /\ a.page \in 0 .. Junk /\ NoEntry \in 0 .. Junk
    BY <1>1, MemoryAssumption DEF Junk, Pages, NoEntry
  <2>2. cleared \in [Pages -> [0 .. PTRS_PER_TABLE - 1 -> 0 .. Junk]]
    BY <2>1 DEF TypeOK
  <2>3. CASE a.level \in Pud .. Pte
    <3>1. table' = [cleared EXCEPT ![a.table][Index(Head(a.rest), a.level)] = a.page]
      BY <2>3 DEF Mark
    <3>2. QED
      BY <2>1, <2>2, <3>1
  <2>4. CASE a.level \notin Pud .. Pte
    BY <2>2, <2>4 DEF Mark
  <2>5. QED
    BY <2>3, <2>4
<1>6. at' \in [Tasks -> Calls]
  <2>1. a.level + 1 \in TaskStruct .. Leaf
    BY <1>2 DEF TaskStruct, Leaf
  <2>2. at' = [at EXCEPT ![t] = [a EXCEPT !.level = a.level + 1, !.page = 0,
                                  !.user = IF a.level = UserPage THEN a.page ELSE a.user,
                                  !.table = IF a.level >= Pgd THEN a.page ELSE a.table]]
    BY DEF Mark, TypeOK
  <2>3. 0 \in 0 .. Len(mem_map) /\ a.page \in 0 .. Len(mem_map)
    BY <1>1
  <2>4. QED
    BY <1>2, <2>1, <2>2, <2>3 DEF TypeOK, Calls
<1>7. pc' \in [Tasks -> {"none", "kernel", "user", "see", "mark", "walk",
                         "failed", "hung", "zombie", "astray"}]
  BY DEF Mark, TypeOK
<1>8. QED
  BY <1>1, <1>3, <1>4, <1>5, <1>6, <1>7 DEF Mark, TypeOK, Calls

\* A table that is there is a page that is marked.
LEMMA EntryType ==
  ASSUME TypeOK, Cleared, PagesOwned, NEW t \in Tasks, CallOK(t),
         pc[t] = "walk", at[t].level < Leaf, ~Missing(t)
  PROVE  Entry(t) \in DOMAIN mem_map /\ mem_map[Entry(t)] = 1
<1> DEFINE a == at[t]
<1>1. a.level \in Pgd .. Pte
  BY CallType DEF CallOK, Pgd, Pte, Leaf
<1>2. DOMAIN mem_map = 1 .. Len(mem_map) /\ DOMAIN mem_map \subseteq Pages /\ Len(mem_map) \in Nat
  BY MapType
<1>3. CASE a.level = Pgd
  <2>1. <<"pgd", a.dst>> \in Slots /\ Held(<<"pgd", a.dst>>) = Entry(t)
    BY <1>3 DEF Slots, Held, Entry, TypeOK
  <2>2. Entry(t) \in 1 .. Len(mem_map)
    BY <1>2, <1>3 DEF Entry, Missing, NoEntry, TypeOK
  <2>3. QED
    BY <1>2, <2>1, <2>2 DEF PagesOwned
<1>4. CASE a.level # Pgd
  <2> DEFINE i == Index(Head(a.rest), a.level)
  <2>1. a.table \in DOMAIN mem_map /\ mem_map[a.table] = 1
    BY <1>1, <1>4 DEF CallOK, Pgd, Pud, Pte, Leaf
  <2>2. Head(a.rest) \in UserPages
    BY DEF CallOK, TypeOK
  <2>3. i \in 0 .. PTRS_PER_TABLE - 1
    BY <2>2, IndexType
  <2>4. Entry(t) = table[a.table][i] /\ Entry(t) # 0
    BY <1>4 DEF Entry, Missing, NoEntry
  <2>5. Entry(t) \in 1 .. Len(mem_map)
    BY <1>2, <2>1, <2>3, <2>4 DEF Cleared
  <2>6. <<"entry", a.table, i>> \in Slots /\ Held(<<"entry", a.table, i>>) = Entry(t)
    BY <1>2, <2>1, <2>3, <2>4 DEF Slots, Held
  <2>7. QED
    BY <1>2, <2>5, <2>6 DEF PagesOwned
<1>5. QED
  BY <1>3, <1>4

LEMMA DescendType ==
  ASSUME TypeOK, Cleared, PagesOwned, NEW t \in Tasks, CallOK(t), Descend(t)
  PROVE  TypeOK'
<1>1. Entry(t) \in 0 .. Len(mem_map)
  <2>1. Entry(t) \in DOMAIN mem_map
    BY EntryType DEF Descend
  <2>2. QED
    BY <2>1, MapType
<1>2. at[t].level + 1 \in TaskStruct .. Leaf
  <2>1. at[t].level \in 0 .. 6 /\ at[t].level < 6
    BY CallType DEF Descend, Leaf
  <2>2. QED
    BY <2>1 DEF TaskStruct, Leaf
<1>3. at' \in [Tasks -> Calls]
  <2>1. at \in [Tasks -> Calls]
    BY DEF TypeOK, Calls
  <2>2. at' = [at EXCEPT ![t] = [at[t] EXCEPT !.level = at[t].level + 1, !.table = Entry(t)]]
    BY <2>1 DEF Descend
  <2>3. [at[t] EXCEPT !.level = at[t].level + 1, !.table = Entry(t)] \in Calls
    <3>1. at[t] \in Calls
      BY CallType
    <3>2. QED
      BY <1>1, <1>2, <3>1 DEF Calls
  <2>4. QED
    BY <2>1, <2>2, <2>3
<1>4. QED
  BY <1>3 DEF Descend, TypeOK, Calls

\* A page that is put on the list of its task and filled
LEMMA RecordedType ==
  ASSUME TypeOK, NEW t \in Tasks, CallOK(t), Recorded(t)
  PROVE  /\ data' \in [Pages -> Words \cup {Zero, Code, Stale, NoPage}]
         /\ user_pages' \in [Tasks -> Seq(UserPages)]
         /\ ind' \in Nat
<1> DEFINE a  == at[t]
           va == Head(a.rest)
<1>1. va \in UserPages
  BY CallType DEF CallOK
<1>2. data' \in [Pages -> Words \cup {Zero, Code, Stale, NoPage}]
  <2>1. CASE a.job = "fork"
    <3>1. data' = [data EXCEPT ![a.user] = Content(t, va)]
      BY <2>1 DEF Recorded, Copied
    <3>2. Content(t, va) \in Words \cup {Zero, Code, Stale, NoPage}
      BY DEF Content, TypeOK
    <3>3. QED
      BY <3>1, <3>2 DEF TypeOK
  <2>2. CASE a.job # "fork"
    BY <2>2 DEF Recorded, TypeOK
  <2>3. QED
    BY <2>1, <2>2
<1>3. user_pages' \in [Tasks -> Seq(UserPages)]
  <2>1. user_pages' = [user_pages EXCEPT ![a.dst] = Append(user_pages[a.dst], va)]
    BY DEF Recorded
  <2>2. Append(user_pages[a.dst], va) \in Seq(UserPages)
    BY <1>1, CallType DEF TypeOK
  <2>3. QED
    BY <2>1, <2>2, CallType DEF TypeOK
<1>4. ind' \in Nat
  BY DEF Recorded, TypeOK
<1>5. QED
  BY <1>2, <1>3, <1>4

LEMMA EnterType ==
  ASSUME TypeOK, NEW t \in Tasks, CallOK(t), Enter(t)
  PROVE  TypeOK'
<1> DEFINE a  == at[t]
           va == Head(a.rest)
<1>0. at \in [Tasks -> Calls]
  BY DEF TypeOK, Calls
<1>1. va \in UserPages /\ Tail(a.rest) \in Seq(UserPages) /\ Len(a.rest) \in Nat
  BY CallType DEF CallOK
<1>2. table' \in [Pages -> [0 .. PTRS_PER_TABLE - 1 -> 0 .. Junk]]
  <2>1. a.user \in 0 .. Junk
    <3>1. a.user \in 0 .. Len(mem_map) /\ Len(mem_map) \in 1 .. PAGING_PAGES
      BY CallType DEF TypeOK, Pages
    <3>2. QED
      BY <3>1, MemoryAssumption DEF Junk
  <2>2. QED
    BY <2>1 DEF Enter, TypeOK
<1>6. /\ at' \in [Tasks -> Calls]
      /\ pc' \in [Tasks -> {"none", "kernel", "user", "see", "mark", "walk",
                            "failed", "hung", "zombie", "astray"}]
      /\ cpu' \in Tasks \cup {Nobody}
  <2>1. CASE Len(a.rest) > 1
    <3>1. at' = [at EXCEPT ![t] = [a EXCEPT !.rest = Tail(a.rest), !.level = UserPage,
                                            !.user = 0, !.table = 0]]
      BY <2>1, <1>0 DEF Enter
    <3>2. [a EXCEPT !.rest = Tail(a.rest), !.level = UserPage, !.user = 0, !.table = 0]
            \in Calls
      <4>1. a \in Calls /\ 0 \in 0 .. Len(mem_map) /\ UserPage \in TaskStruct .. Leaf
        BY CallType, MapType DEF UserPage, TaskStruct, Leaf
      <4>2. QED
        BY <1>1, <4>1 DEF Calls
    <3>3. QED
      BY <2>1, <3>1, <3>2, <1>0 DEF Enter, TypeOK
  <2>2. CASE ~(Len(a.rest) > 1)
    <3>1. \E where \in {"user", "hung"} : Finish(t, where, where)
      BY <2>2 DEF Enter
    <3>2. QED
      BY <3>1, FinishType
  <2>3. QED
    BY <2>1, <2>2
<1>7. QED
  BY <1>2, <1>6, RecordedType DEF Enter, TypeOK, Calls

LEMMA NoneLeftType ==
  ASSUME TypeOK, NEW t \in Tasks, NoneLeft(t)
  PROVE  TypeOK'
<1>1. /\ at' \in [Tasks -> Calls]
      /\ pc' \in [Tasks -> {"none", "kernel", "user", "see", "mark", "walk",
                            "failed", "hung", "zombie", "astray"}]
      /\ cpu' \in Tasks \cup {Nobody}
  <2>1. CASE /\ pc' = [pc EXCEPT ![t] = "failed"] /\ at' = [at EXCEPT ![t] = Idle]
             /\ UNCHANGED cpu
    <3>1. Idle \in Calls
      BY IdleType, MapType
    <3>2. QED
      BY <2>1, <3>1 DEF TypeOK, Calls
  <2>2. CASE \E where, child \in {"user", "hung", "astray"} : Finish(t, where, child)
    BY <2>2, FinishType DEF TypeOK
  <2>3. QED
    BY <2>1, <2>2 DEF NoneLeft
<1>2. QED
  BY <1>1 DEF NoneLeft, TypeOK, Calls

LEMMA WithoutTableType ==
  ASSUME TypeOK, NEW t \in Tasks, CallOK(t), WithoutTable(t)
  PROVE  TypeOK'
<1>1. CASE halted' = TRUE /\ UNCHANGED <<data, user_pages, ind, pc, at, cpu, page0>>
  BY <1>1 DEF WithoutTable, TypeOK
<1>2. CASE /\ page0' = at[t].user /\ Recorded(t) /\ UNCHANGED halted
           /\ \E where, child \in {"user", "hung", "astray"} : Finish(t, where, child)
  <2>1. page0' \in 0 .. Len(mem_map) /\ UNCHANGED <<mem_map, table, task, pgd>>
    BY <1>2, CallType DEF WithoutTable
  <2>2. /\ data' \in [Pages -> Words \cup {Zero, Code, Stale, NoPage}]
        /\ user_pages' \in [Tasks -> Seq(UserPages)]
        /\ ind' \in Nat
    BY <1>2, RecordedType
  <2>3. /\ at' \in [Tasks -> Calls]
        /\ pc' \in [Tasks -> {"none", "kernel", "user", "see", "mark", "walk",
                              "failed", "hung", "zombie", "astray"}]
        /\ cpu' \in Tasks \cup {Nobody}
    BY <1>2, FinishType
  <2>4. QED
    BY <1>2, <2>1, <2>2, <2>3 DEF TypeOK, Calls
<1>3. QED
  BY <1>1, <1>2, Zenon DEF WithoutTable

\* The actions of Next, each with its task.
LEMMA NextCases ==
  ASSUME Next
  PROVE  \/ MoveToUserMode
         \/ \E t \in Tasks :
              \/ \E va \in UserPages : Fault(t, va)
              \/ \E va \in UserPages, value \in Words : Write(t, va, value)
              \/ \E child \in Tasks : Fork(t, child)
              \/ Exit(t) \/ See(t) \/ Mark(t) \/ Descend(t)
              \/ NeedTable(t) \/ Enter(t) \/ NoneLeft(t) \/ WithoutTable(t)
  BY DEF Next

\* A task that takes a step of a call is in one.
LEMMA WalkingCall ==
  ASSUME CallsOK, NEW t \in Tasks, pc[t] \in {"see", "mark", "walk"}
  PROVE  Walking(t) /\ CallOK(t)
  BY DEF CallsOK, Walking

LEMMA NextType ==
  ASSUME IInv, Next
  PROVE  TypeOK'
<1> USE DEF IInv
<1>1. CASE MoveToUserMode
  <2>1. <<0>> \in Seq(UserPages) /\ root \in Tasks
    BY MemoryAssumption
  <2>2. UserPage \in TaskStruct .. Leaf
    BY DEF UserPage, TaskStruct, Leaf
  <2>3. Begin(root, "load", root, <<0>>, UserPage) /\ cpu' \in Tasks \cup {Nobody}
    BY <1>1 DEF MoveToUserMode, TypeOK
  <2>4. QED
    BY <2>1, <2>2, <2>3, BeginType
<1>2. CASE \E t \in Tasks, va \in UserPages : Fault(t, va)
  <2>1. PICK t \in Tasks, va \in UserPages : Fault(t, va)
    BY <1>2
  <2>2. <<va>> \in Seq(UserPages) /\ UserPage \in TaskStruct .. Leaf
    BY DEF UserPage, TaskStruct, Leaf
  <2>3. Begin(t, "fault", t, <<va>>, UserPage) /\ cpu' \in Tasks \cup {Nobody}
    BY <2>1 DEF Fault, TypeOK
  <2>4. QED
    BY <2>2, <2>3, BeginType
<1>3. CASE \E t, child \in Tasks : Fork(t, child)
  <2>1. PICK t \in Tasks, child \in Tasks : Fork(t, child)
    BY <1>3
  <2>2. user_pages[t] \in Seq(UserPages) /\ TaskStruct \in TaskStruct .. Leaf
    BY DEF TypeOK, TaskStruct, Leaf
  <2>3. Begin(t, "fork", child, user_pages[t], TaskStruct) /\ cpu' \in Tasks \cup {Nobody}
    BY <2>1 DEF Fork, Preempt_disable
  <2>4. QED
    BY <2>2, <2>3, BeginType
<1>4. CASE \E t \in Tasks, va \in UserPages, value \in Words : Write(t, va, value)
  BY <1>4, SMTT(30) DEF Write, TypeOK
<1>5. CASE \E t \in Tasks : Exit(t)
  BY <1>5 DEF Exit, TypeOK
<1>6. CASE \E t \in Tasks : NeedTable(t)
  BY <1>6 DEF NeedTable, TypeOK
<1>7. CASE \E t \in Tasks : See(t) \/ Mark(t) \/ Descend(t) \/ Enter(t)
                         \/ NoneLeft(t) \/ WithoutTable(t)
  <2>1. PICK t \in Tasks : See(t) \/ Mark(t) \/ Descend(t) \/ Enter(t)
                          \/ NoneLeft(t) \/ WithoutTable(t)
    BY <1>7
  <2>2. CallOK(t)
    BY <2>1, WalkingCall DEF See, Mark, Descend, Enter, NoneLeft, WithoutTable
  <2>3. QED
    BY <2>1, <2>2, SeeType, MarkType, DescendType, EnterType, NoneLeftType,
       WithoutTableType
<1>8. QED
  BY NextCases, <1>1, <1>2, <1>3, <1>4, <1>5, <1>6, <1>7

-----------------------------------------------------------------------------
\* Only Mark touches mem_map, and only Mark and Enter the tables.
LEMMA Untouched ==
  ASSUME Next, \A t \in Tasks : ~Mark(t)
  PROVE  UNCHANGED <<mem_map, task, pgd>> /\ ((\A t \in Tasks : ~Enter(t)) => UNCHANGED table)
  BY NextCases, ZenonT(30)
  DEF MoveToUserMode, Fault, Fork, Begin, Write, Exit, See, Descend, NeedTable,
      Enter, NoneLeft, WithoutTable

LEMMA NextCleared ==
  ASSUME IInv, Next
  PROVE  Cleared'
<1> USE DEF IInv
<1>1. ASSUME NEW t \in Tasks, Mark(t)
      PROVE  Cleared'
  <2> DEFINE a == at[t]
             cleared == [table EXCEPT ![a.page] = [i \in 0 .. PTRS_PER_TABLE - 1 |-> NoEntry]]
  <2>0. pc[t] = "mark" /\ CallOK(t)
    BY <1>1, WalkingCall DEF Mark
  <2>1. /\ Len(mem_map') = Len(mem_map) /\ DOMAIN mem_map' = DOMAIN mem_map
        /\ DOMAIN mem_map \subseteq Pages
        /\ a.page \in 0 .. Len(mem_map)
        /\ \A p \in DOMAIN mem_map : p # a.page => mem_map'[p] = mem_map[p]
    BY <1>1, <2>0, MarkedMap
  <2>2. SUFFICES ASSUME NEW p \in DOMAIN mem_map, mem_map'[p] = 1,
                        NEW i \in 0 .. PTRS_PER_TABLE - 1
                 PROVE  table'[p][i] \in 0 .. Len(mem_map)
    BY <2>1 DEF Cleared
  <2>3. cleared[p][i] \in 0 .. Len(mem_map)
    <3>1. CASE p = a.page
      BY <2>1, <3>1 DEF TypeOK, NoEntry
    <3>2. CASE p # a.page
      BY <2>1, <2>2, <3>2 DEF Cleared, TypeOK
    <3>3. QED
      BY <3>1, <3>2
  <2>4. cleared \in [Pages -> [0 .. PTRS_PER_TABLE - 1 -> 0 .. Junk]]
    <3>1. NoEntry \in 0 .. Junk
      BY MemoryAssumption DEF Junk, NoEntry
    <3>2. QED
      BY <3>1 DEF TypeOK
  <2>5. CASE a.level \in Pud .. Pte
    <3>1. table' = [cleared EXCEPT ![a.table][Index(Head(a.rest), a.level)] = a.page]
      BY <1>1, <2>5 DEF Mark
    <3>2. table'[p][i] \in {cleared[p][i], a.page}
      BY <2>1, <2>4, <3>1
    <3>3. QED
      BY <2>1, <2>3, <3>2
  <2>6. CASE a.level \notin Pud .. Pte
    BY <1>1, <2>3, <2>6 DEF Mark
  <2>7. QED
    BY <2>5, <2>6
<1>2. ASSUME NEW t \in Tasks, Enter(t), \A u \in Tasks : ~Mark(u)
      PROVE  Cleared'
  <2>1. /\ table' = [table EXCEPT ![at[t].table][Index(Head(at[t].rest), Leaf)] = at[t].user]
        /\ mem_map' = mem_map
    BY <1>2 DEF Enter
  <2>2. DOMAIN mem_map \subseteq Pages /\ at[t].user \in 0 .. Len(mem_map)
    BY MapType, CallType
  <2>3. \A p \in DOMAIN mem_map : \A i \in 0 .. PTRS_PER_TABLE - 1 :
          table'[p][i] \in {table[p][i], at[t].user}
    BY <2>1, <2>2, SMTT(30) DEF TypeOK
  <2>4. QED
    BY <2>1, <2>2, <2>3 DEF Cleared
<1>3. ASSUME \A t \in Tasks : ~Mark(t) /\ ~Enter(t)
      PROVE  Cleared'
  BY <1>3, Untouched DEF Cleared
<1>4. QED
  BY <1>1, <1>2, <1>3

-----------------------------------------------------------------------------
\* A step that gives at most one slot a new page, which no other has then,
\* keeps the pages apart.
LEMMA OneSlot ==
  ASSUME PagesOwned, DOMAIN mem_map' = DOMAIN mem_map,
         \A p \in DOMAIN mem_map : mem_map[p] = 1 => mem_map'[p] = 1,
         NEW new \in Slots,
         \A s \in Slots : s # new => \/ Held(s)' = Held(s)
                                     \/ Held(s)' \notin DOMAIN mem_map,
         Held(new)' \in DOMAIN mem_map =>
           /\ mem_map'[Held(new)'] = 1
           /\ \A s \in Slots : s # new => Held(s)' # Held(new)'
  PROVE  PagesOwned'
<1>1. Slots' = Slots
  BY DEF Slots
<1>2. SUFFICES ASSUME NEW s \in Slots, Held(s)' \in DOMAIN mem_map
               PROVE  /\ mem_map'[Held(s)'] = 1
                      /\ \A r \in Slots : Held(r)' = Held(s)' => r = s
  BY <1>1 DEF PagesOwned
<1>3. CASE s = new
  BY <1>2, <1>3
<1>4. CASE s # new
  <2>1. Held(s)' = Held(s) /\ mem_map[Held(s)] = 1
    BY <1>2, <1>4 DEF PagesOwned
  <2>2. ASSUME NEW r \in Slots, Held(r)' = Held(s)'
        PROVE  r = s
    <3>1. r # new
      BY <1>2, <1>4, <2>2
    <3>2. Held(r) = Held(s)
      BY <1>2, <2>1, <2>2, <3>1
    <3>3. QED
      BY <1>2, <2>1, <3>2 DEF PagesOwned
  <2>3. QED
    BY <1>2, <2>1, <2>2
<1>5. QED
  BY <1>3, <1>4

LEMMA NoSlot ==
  ASSUME PagesOwned, mem_map' = mem_map,
         \A s \in Slots : Held(s)' = Held(s) \/ Held(s)' \notin DOMAIN mem_map
  PROVE  PagesOwned'
<1>1. Slots' = Slots
  BY DEF Slots
<1>2. QED
  BY <1>1 DEF PagesOwned

\* The holders, by kind.
LEMMA SlotKinds ==
  ASSUME NEW s \in Slots
  PROVE  \/ \E t \in Tasks : s = <<"task_struct", t>> /\ Held(s) = task[t] /\ Held(s)' = task'[t]
         \/ \E t \in Tasks : s = <<"pgd", t>> /\ Held(s) = pgd[t] /\ Held(s)' = pgd'[t]
         \/ \E t \in Tasks : s = <<"new", t>> /\ Held(s) = at[t].user /\ Held(s)' = at'[t].user
         \/ \E p \in Pages, i \in 0 .. PTRS_PER_TABLE - 1 :
              s = <<"entry", p, i>> /\ Held(s) = table[p][i] /\ Held(s)' = table'[p][i]
         \/ s = <<"page", 0>> /\ Held(s) = page0 /\ Held(s)' = page0'
<1>1. ASSUME NEW t \in Tasks
      PROVE  /\ s = <<"task_struct", t>> => Held(s) = task[t] /\ Held(s)' = task'[t]
             /\ s = <<"pgd", t>> => Held(s) = pgd[t] /\ Held(s)' = pgd'[t]
             /\ s = <<"new", t>> => Held(s) = at[t].user /\ Held(s)' = at'[t].user
  BY DEF Held
<1>2. ASSUME NEW p \in Pages, NEW i \in 0 .. PTRS_PER_TABLE - 1, s = <<"entry", p, i>>
      PROVE  Held(s) = table[p][i] /\ Held(s)' = table'[p][i]
  BY <1>2 DEF Held
<1>3. s = <<"page", 0>> => Held(s) = page0 /\ Held(s)' = page0'
  BY DEF Held
<1>4. \/ \E t \in Tasks : s = <<"task_struct", t>> \/ s = <<"pgd", t>> \/ s = <<"new", t>>
      \/ \E p \in Pages, i \in 0 .. PTRS_PER_TABLE - 1 : s = <<"entry", p, i>>
      \/ s = <<"page", 0>>
  <2>1. CASE s \in {"task_struct", "pgd", "new"} \X Tasks
    BY <2>1
  <2>2. CASE s \in {"entry"} \X Pages \X (0 .. PTRS_PER_TABLE - 1)
    BY <2>2
  <2>3. CASE s = <<"page", 0>>
    BY <2>3
  <2> QED
    BY <2>1, <2>2, <2>3, Zenon DEF Slots
<1> QED
  BY <1>1, <1>2, <1>3, <1>4, Zenon

\* Steps that only drop pages from calls, or change no holder at all.
LEMMA KeepsOwned ==
  ASSUME PagesOwned, TypeOK, UNCHANGED <<mem_map, task, pgd, table, page0>>,
         \A t \in Tasks : at'[t].user = at[t].user \/ at'[t].user = 0
  PROVE  PagesOwned'
<1>1. 0 \notin DOMAIN mem_map
  BY MapType
<1>2. \A s \in Slots : Held(s)' = Held(s) \/ Held(s)' \notin DOMAIN mem_map
  BY <1>1, SlotKinds
<1>3. QED
  BY <1>2, NoSlot

LEMMA IdleUser ==
  ASSUME TypeOK, NEW t \in Tasks, at' = [at EXCEPT ![t] = Idle]
  PROVE  \A u \in Tasks : at'[u].user = at[u].user \/ at'[u].user = 0
  BY DEF TypeOK, Idle

LEMMA BeginUser ==
  ASSUME TypeOK, NEW t \in Tasks, NEW job, NEW dst, NEW rest, NEW level,
         Begin(t, job, dst, rest, level)
  PROVE  \A u \in Tasks : at'[u].user = at[u].user \/ at'[u].user = 0
<1>1. [Idle EXCEPT !.job = job, !.dst = dst, !.rest = rest, !.level = level].user = 0
  BY DEF Idle
<1>2. at' = [at EXCEPT ![t] = [Idle EXCEPT !.job = job, !.dst = dst,
                                           !.rest = rest, !.level = level]]
  BY DEF Begin
<1>3. \A u \in Tasks : at'[u] = IF u = t
                         THEN [Idle EXCEPT !.job = job, !.dst = dst,
                                           !.rest = rest, !.level = level]
                         ELSE at[u]
  BY <1>2 DEF TypeOK
<1>4. QED
  BY <1>1, <1>3

LEMMA MarkOwned ==
  ASSUME TypeOK, PagesOwned, NEW t \in Tasks, CallOK(t), Mark(t)
  PROVE  PagesOwned'
<1> DEFINE a == at[t]
           cleared == [table EXCEPT ![a.page] = [j \in 0 .. PTRS_PER_TABLE - 1 |-> NoEntry]]
           fits(new) == /\ new \in Slots
                        /\ Held(new)' = a.page
                        /\ \A s \in Slots : s # new => Held(s)' \in {Held(s), 0}
<1>0. pc[t] = "mark" /\ a.level \in 0 .. 5
  BY CallType DEF Mark, CallOK, Pte
<1>1. /\ DOMAIN mem_map' = DOMAIN mem_map /\ DOMAIN mem_map = 1 .. Len(mem_map)
      /\ a.page \in DOMAIN mem_map /\ a.page \in Pages /\ mem_map[a.page] = 0
      /\ mem_map'[a.page] = 1
      /\ \A p \in DOMAIN mem_map : mem_map[p] = 1 => mem_map'[p] = 1
  BY <1>0, MarkedMap DEF CallOK
<1>2. \A s \in Slots : Held(s) # a.page
  BY <1>1 DEF PagesOwned
<1>3. ASSUME NEW new, fits(new)
      PROVE  PagesOwned'
  <2>1. 0 \notin DOMAIN mem_map /\ a.page # 0
    BY <1>1, MapType
  <2>2. \A s \in Slots : s # new => Held(s)' # a.page
    BY <1>2, <1>3, <2>1
  <2>3. QED
    BY <1>1, <1>3, <2>1, <2>2, OneSlot
<1>4. at \in [Tasks -> Calls] /\ Head(a.rest) \in UserPages
  <2>1. at \in [Tasks -> Calls]
    BY DEF TypeOK, Calls
  <2>2. a.rest \in Seq(UserPages) /\ a.rest # <<>>
    BY CallType DEF CallOK
  <2>3. QED
    BY <2>1, <2>2
<1>5. PICK dst \in Tasks : dst = a.dst
  BY CallType
<1>6. \A u \in Tasks : at'[u].user = IF u = t /\ a.level = UserPage THEN a.page ELSE at[u].user
  BY <1>4 DEF Mark, Calls
<1>7. \A p \in Pages, j \in 0 .. PTRS_PER_TABLE - 1 : cleared[p][j] \in {table[p][j], 0}
  BY <1>1 DEF TypeOK, NoEntry
<1>13. /\ page0' = page0
       /\ task' = IF a.level = 0 THEN [task EXCEPT ![dst] = a.page] ELSE task
       /\ pgd' = IF a.level = 2 THEN [pgd EXCEPT ![dst] = a.page] ELSE pgd
       /\ table' = IF a.level \in 3 .. 5
                   THEN [cleared EXCEPT ![a.table][Index(Head(a.rest), a.level)] = a.page]
                   ELSE cleared
  BY <1>5 DEF Mark, TaskStruct, Pgd, Pud, Pte
<1>8. CASE a.level = 0
  <2>1. /\ page0' = page0 /\ task' = [task EXCEPT ![dst] = a.page] /\ pgd' = pgd /\ table' = cleared
        /\ \A u \in Tasks : at'[u].user = at[u].user
    BY <1>6, <1>8, <1>13 DEF UserPage
  <2>2. task'[dst] = a.page /\ \A u \in Tasks : u # dst => task'[u] = task[u]
    BY <2>1 DEF TypeOK
  <2>3. <<"task_struct", dst>> \in Slots
    BY DEF Slots
  <2>4. Held(<<"task_struct", dst>>)' = a.page
    BY <2>2 DEF Held
  <2>5. ASSUME NEW s \in Slots, s # <<"task_struct", dst>>
        PROVE  Held(s)' \in {Held(s), 0}
    BY <1>7, <2>1, <2>2, <2>5, SlotKinds
  <2>6. QED
    BY <1>3, <2>3, <2>4, <2>5
<1>9. CASE a.level = 1
  <2>1. /\ page0' = page0 /\ task' = task /\ pgd' = pgd /\ table' = cleared
        /\ at'[t].user = a.page
        /\ \A u \in Tasks : u # t => at'[u].user = at[u].user
    BY <1>6, <1>9, <1>13 DEF UserPage
  <2>3. <<"new", t>> \in Slots
    BY DEF Slots
  <2>4. Held(<<"new", t>>)' = a.page
    BY <2>1 DEF Held
  <2>5. ASSUME NEW s \in Slots, s # <<"new", t>>
        PROVE  Held(s)' \in {Held(s), 0}
    BY <1>7, <2>1, <2>5, SlotKinds
  <2>6. QED
    BY <1>3, <2>3, <2>4, <2>5
<1>10. CASE a.level = 2
  <2>1. /\ page0' = page0 /\ task' = task /\ pgd' = [pgd EXCEPT ![dst] = a.page] /\ table' = cleared
        /\ \A u \in Tasks : at'[u].user = at[u].user
    BY <1>6, <1>10, <1>13 DEF UserPage
  <2>2. pgd'[dst] = a.page /\ \A u \in Tasks : u # dst => pgd'[u] = pgd[u]
    BY <2>1 DEF TypeOK
  <2>3. <<"pgd", dst>> \in Slots
    BY DEF Slots
  <2>4. Held(<<"pgd", dst>>)' = a.page
    BY <2>2 DEF Held
  <2>5. ASSUME NEW s \in Slots, s # <<"pgd", dst>>
        PROVE  Held(s)' \in {Held(s), 0}
    BY <1>7, <2>1, <2>2, <2>5, SlotKinds
  <2>6. QED
    BY <1>3, <2>3, <2>4, <2>5
<1>11. CASE a.level \in 3 .. 5
  <2>0. PICK q \in Pages, i \in 0 .. PTRS_PER_TABLE - 1 :
               q = a.table /\ i = Index(Head(a.rest), a.level)
    <3>1. a.table \in DOMAIN mem_map
      BY <1>4, <1>11 DEF CallOK, Pud, Leaf
    <3>2. a.table \in Pages
      BY <1>4, <3>1, MapType
    <3>3. Index(Head(a.rest), a.level) \in 0 .. PTRS_PER_TABLE - 1
      BY <1>4, <1>11, IndexType
    <3> QED
      BY <3>2, <3>3
  <2>1. /\ page0' = page0 /\ task' = task /\ pgd' = pgd
        /\ table' = [cleared EXCEPT ![q][i] = a.page]
        /\ \A u \in Tasks : at'[u].user = at[u].user
    BY <1>6, <1>11, <1>13, <2>0 DEF UserPage
  <2>2. cleared \in [Pages -> [0 .. PTRS_PER_TABLE - 1 -> 0 .. Junk]]
    <3>1. NoEntry \in 0 .. Junk
      BY MemoryAssumption DEF Junk, NoEntry
    <3>2. QED
      BY <3>1 DEF TypeOK
  <2>3. /\ table'[q][i] = a.page
        /\ \A p \in Pages, j \in 0 .. PTRS_PER_TABLE - 1 :
             p # q \/ j # i => table'[p][j] = cleared[p][j]
    BY <2>1, <2>2
  <2>4. <<"entry", q, i>> \in Slots
    BY DEF Slots
  <2>5. Held(<<"entry", q, i>>)' = a.page
    BY <2>3 DEF Held
  <2>6. ASSUME NEW s \in Slots, s # <<"entry", q, i>>
        PROVE  Held(s)' \in {Held(s), 0}
    <3>1. CASE \E p \in Pages, j \in 0 .. PTRS_PER_TABLE - 1 :
                 s = <<"entry", p, j>> /\ Held(s) = table[p][j] /\ Held(s)' = table'[p][j]
      <4>1. PICK p \in Pages, j \in 0 .. PTRS_PER_TABLE - 1 :
                   s = <<"entry", p, j>> /\ Held(s) = table[p][j] /\ Held(s)' = table'[p][j]
        BY <3>1
      <4>2. p # q \/ j # i
        BY <2>6, <4>1
      <4>3. QED
        BY <1>7, <2>3, <4>1, <4>2
    <3>2. QED
      BY <2>1, <3>1, SlotKinds
  <2>7. QED
    BY <1>3, <2>4, <2>5, <2>6
<1>12. QED
  BY <1>0, <1>8, <1>9, <1>10, <1>11

LEMMA EnterOwned ==
  ASSUME TypeOK, PagesOwned, NEW t \in Tasks, CallOK(t), Enter(t)
  PROVE  PagesOwned'
<1> DEFINE a == at[t]
<1>0. a.level = Leaf /\ a.rest \in Seq(UserPages) /\ a.rest # <<>>
  BY CallType DEF Enter, CallOK
<1>1. Head(a.rest) \in UserPages
  BY <1>0
<1>2. PICK q \in Pages, i \in 0 .. PTRS_PER_TABLE - 1 :
             q = a.table /\ i = Index(Head(a.rest), Leaf)
  BY <1>0, <1>1, IndexType, MapType DEF CallOK, Pud, Leaf
<1>3. /\ table' = [table EXCEPT ![q][i] = a.user]
      /\ UNCHANGED <<mem_map, task, pgd, page0>>
  BY <1>2 DEF Enter
<1>4. /\ table'[q][i] = a.user
      /\ \A p \in Pages, j \in 0 .. PTRS_PER_TABLE - 1 :
           p # q \/ j # i => table'[p][j] = table[p][j]
  BY <1>3 DEF TypeOK
<1>5. at'[t].user = 0 /\ \A u \in Tasks : u # t => at'[u].user = at[u].user
  <2>1. at \in [Tasks -> Calls]
    BY DEF TypeOK, Calls
  <2>2. CASE at' = [at EXCEPT ![t] = Idle]
    BY <2>1, <2>2 DEF Idle
  <2>3. CASE at' = [at EXCEPT ![t].rest = Tail(a.rest), ![t].level = UserPage,
                              ![t].user = 0, ![t].table = 0]
    BY <2>1, <2>3 DEF Calls
  <2>4. QED
    BY <2>2, <2>3 DEF Enter, Finish
<1>6. a.user \in DOMAIN mem_map => mem_map[a.user] = 1 /\ \A s \in Slots : Held(s) = a.user => s = <<"new", t>>
  <2>1. <<"new", t>> \in Slots /\ Held(<<"new", t>>) = a.user
    BY DEF Slots, Held
  <2>2. QED
    BY <2>1 DEF PagesOwned
<1>7. 0 \notin DOMAIN mem_map
  BY MapType
<1>8. <<"entry", q, i>> \in Slots
  BY DEF Slots
<1>9. Held(<<"entry", q, i>>)' = a.user
  BY <1>4 DEF Held
<1>10. ASSUME NEW s \in Slots, s # <<"entry", q, i>>
       PROVE  /\ s = <<"new", t>> => Held(s)' = 0
              /\ s # <<"new", t>> => Held(s)' = Held(s)
  <2>1. CASE \E p \in Pages, j \in 0 .. PTRS_PER_TABLE - 1 :
               s = <<"entry", p, j>> /\ Held(s) = table[p][j] /\ Held(s)' = table'[p][j]
    <3>1. PICK p \in Pages, j \in 0 .. PTRS_PER_TABLE - 1 :
                 s = <<"entry", p, j>> /\ Held(s) = table[p][j] /\ Held(s)' = table'[p][j]
      BY <2>1
    <3>2. p # q \/ j # i
      BY <1>10, <3>1
    <3>3. QED
      BY <1>4, <3>1, <3>2
  <2>2. CASE \E u \in Tasks : s = <<"new", u>> /\ Held(s) = at[u].user /\ Held(s)' = at'[u].user
    BY <1>5, <2>2
  <2>3. CASE \/ \E u \in Tasks : s = <<"task_struct", u>> /\ Held(s) = task[u] /\ Held(s)' = task'[u]
             \/ \E u \in Tasks : s = <<"pgd", u>> /\ Held(s) = pgd[u] /\ Held(s)' = pgd'[u]
    BY <1>3, <2>3
  <2>4. CASE s = <<"page", 0>> /\ Held(s) = page0 /\ Held(s)' = page0'
    BY <1>3, <2>4
  <2> QED
    BY <2>1, <2>2, <2>3, <2>4, SlotKinds, Zenon
<1>11. ASSUME NEW s \in Slots, s # <<"entry", q, i>>
       PROVE  Held(s)' = Held(s) \/ Held(s)' \notin DOMAIN mem_map
  BY <1>7, <1>10, <1>11
<1>12. ASSUME a.user \in DOMAIN mem_map
       PROVE  /\ mem_map'[a.user] = 1
              /\ \A s \in Slots : s # <<"entry", q, i>> => Held(s)' # a.user
  BY <1>3, <1>6, <1>7, <1>10, <1>12
<1>13. QED
  BY <1>3, <1>8, <1>9, <1>11, <1>12, OneSlot

\* The page that a call has is the page entered in page 0.
LEMMA WithoutTableOwned ==
  ASSUME IInv, NEW t \in Tasks, WithoutTable(t)
  PROVE  PagesOwned'
<1>0. TypeOK /\ PagesOwned /\ UNCHANGED <<mem_map, task, pgd, table>>
  BY DEF IInv, WithoutTable
<1>1. CASE UNCHANGED <<at, page0>>
  BY <1>0, <1>1, KeepsOwned
<1>2. CASE page0' = at[t].user /\ at' = [at EXCEPT ![t] = Idle]
  <2>1. at'[t].user = 0 /\ \A u \in Tasks : u # t => at'[u].user = at[u].user
    BY <1>0, <1>2 DEF TypeOK, Idle
  <2>2. 0 \notin DOMAIN mem_map
    BY <1>0, MapType
  <2>3. <<"page", 0>> \in Slots /\ Held(<<"page", 0>>)' = at[t].user
    BY <1>2 DEF Slots, Held
  <2>4. ASSUME NEW s \in Slots, s # <<"page", 0>>
        PROVE  /\ s = <<"new", t>> => Held(s)' = 0
               /\ s # <<"new", t>> => Held(s)' = Held(s)
    BY <1>0, <2>1, <2>4, SlotKinds
  <2>5. at[t].user \in DOMAIN mem_map =>
          mem_map[at[t].user] = 1 /\ \A s \in Slots : Held(s) = at[t].user => s = <<"new", t>>
    <3>1. <<"new", t>> \in Slots /\ Held(<<"new", t>>) = at[t].user
      BY DEF Slots, Held
    <3>2. QED
      BY <1>0, <3>1 DEF PagesOwned
  <2>6. ASSUME NEW s \in Slots, s # <<"page", 0>>
        PROVE  Held(s)' = Held(s) \/ Held(s)' \notin DOMAIN mem_map
    BY <2>2, <2>4, <2>6
  <2>7. ASSUME at[t].user \in DOMAIN mem_map
        PROVE  /\ mem_map'[at[t].user] = 1
               /\ \A s \in Slots : s # <<"page", 0>> => Held(s)' # at[t].user
    BY <1>0, <2>2, <2>4, <2>5, <2>7
  <2>8. QED
    BY <1>0, <2>3, <2>6, <2>7, OneSlot
<1>3. QED
  BY <1>1, <1>2, Zenon DEF WithoutTable, Finish

LEMMA NextOwned ==
  ASSUME IInv, Next
  PROVE  PagesOwned'
<1> USE DEF IInv
<1>1. CASE MoveToUserMode
  <2>1. \A u \in Tasks : at'[u].user = at[u].user \/ at'[u].user = 0
    BY <1>1, BeginUser, MemoryAssumption DEF MoveToUserMode
  <2>2. QED
    BY <1>1, <2>1, KeepsOwned DEF MoveToUserMode, Begin
<1>2. CASE \E t \in Tasks, va \in UserPages : Fault(t, va)
  <2>1. PICK t \in Tasks, va \in UserPages : Fault(t, va)
    BY <1>2
  <2>2. Begin(t, "fault", t, <<va>>, UserPage)
    BY <2>1 DEF Fault
  <2>3. QED
    BY <2>2, BeginUser, KeepsOwned DEF Begin
<1>3. CASE \E t, child \in Tasks : Fork(t, child)
  <2>1. PICK t \in Tasks, child \in Tasks : Fork(t, child)
    BY <1>3
  <2>2. Begin(t, "fork", child, user_pages[t], TaskStruct)
    BY <2>1 DEF Fork
  <2>3. \A u \in Tasks : at'[u].user = at[u].user \/ at'[u].user = 0
    BY <2>2, BeginUser
  <2>4. QED
    BY <2>2, <2>3, KeepsOwned DEF Begin
<1>4. CASE \E t \in Tasks, va \in UserPages, value \in Words : Write(t, va, value)
  BY <1>4, KeepsOwned DEF Write
<1>5. CASE \E t \in Tasks : Exit(t)
  BY <1>5, KeepsOwned DEF Exit
<1>6. CASE \E t \in Tasks : NeedTable(t)
  BY <1>6, KeepsOwned DEF NeedTable
<1>7. CASE \E t \in Tasks : See(t) \/ Descend(t)
  <2>1. PICK t \in Tasks : See(t) \/ Descend(t)
    BY <1>7
  <2>2. at \in [Tasks -> Calls]
    BY DEF TypeOK, Calls
  <2>3. \A u \in Tasks : at'[u].user = at[u].user
    <3>1. CASE \E p : at' = [at EXCEPT ![t].page = p]
      BY <2>2, <3>1 DEF Calls
    <3>2. CASE \E l, q : at' = [at EXCEPT ![t].level = l, ![t].table = q]
      BY <2>2, <3>2 DEF Calls
    <3>3. QED
      BY <2>1, <3>1, <3>2 DEF See, Descend
  <2>4. UNCHANGED <<mem_map, task, pgd, table, page0>>
    BY <2>1 DEF See, Descend
  <2>5. QED
    BY <2>3, <2>4, KeepsOwned
<1>8. CASE \E t \in Tasks : NoneLeft(t)
  <2>1. PICK t \in Tasks : NoneLeft(t)
    BY <1>8
  <2>2. at' = [at EXCEPT ![t] = Idle]
    BY <2>1 DEF NoneLeft, Finish
  <2>3. \A u \in Tasks : at'[u].user = at[u].user \/ at'[u].user = 0
    BY <2>2, IdleUser
  <2>4. UNCHANGED <<mem_map, task, pgd, table, page0>>
    BY <2>1 DEF NoneLeft
  <2>5. QED
    BY <2>3, <2>4, KeepsOwned
<1>9. CASE \E t \in Tasks : Mark(t) \/ Enter(t)
  <2>1. PICK t \in Tasks : Mark(t) \/ Enter(t)
    BY <1>9
  <2>2. CallOK(t)
    BY <2>1, WalkingCall DEF Mark, Enter
  <2>3. QED
    BY <2>1, <2>2, MarkOwned, EnterOwned
<1>10. QED
  BY NextCases, <1>1, <1>2, <1>3, <1>4, <1>5, <1>6, <1>7, <1>8, <1>9, WithoutTableOwned

-----------------------------------------------------------------------------
\* While t can take a step, no other task is in a call.
LEMMA OthersOut ==
  ASSUME Undisturbed, TypeOK, NEW t \in Tasks, Runs(t), Live(t)
  PROVE  /\ \A u \in Tasks : u # t => ~Walking(u)
         /\ pc[root] = "kernel" => t = root
<1>1. ASSUME NEW u \in Tasks, u # t, Walking(u)
      PROVE  FALSE
  <2>1. CASE at[u].job = "fork"
    <3>1. cpu = u /\ Nobody \notin Tasks
      BY <1>1, <2>1, MemoryAssumption DEF Undisturbed, Nobody
    <3>2. QED
      BY <1>1, <3>1 DEF Runs
  <2>2. CASE at[u].job # "fork"
    BY <1>1, <2>2 DEF Undisturbed, Alone
  <2>3. QED
    BY <2>1, <2>2
<1>2. pc[root] = "kernel" => t = root
  BY MemoryAssumption DEF Undisturbed, Alone
<1>3. QED
  BY <1>1, <1>2

\* So a step of t leaves at most the call of t under way.
LEMMA KeepsUndisturbed ==
  ASSUME Undisturbed, TypeOK, NEW t \in Tasks, Runs(t), Live(t),
         \A u \in Tasks : u # t => pc'[u] = pc[u] \/ pc'[u] \in {"user", "hung", "astray"},
         pc'[t] # "kernel",
         pc'[t] \in {"see", "mark", "walk"} =>
           /\ \A u \in Tasks : u # t => pc'[u] = pc[u]
           /\ at'[t].job = "fork" => cpu' = t
           /\ at'[t].job # "fork" => Alone(t)
  PROVE  Undisturbed'
<1>1. \A u \in Tasks : u # t => ~Walking(u)'
  BY OthersOut DEF Walking
<1>2. pc'[root] # "kernel"
  BY OthersOut, MemoryAssumption
<1>3. ASSUME Walking(t)', at'[t].job # "fork"
      PROVE  Alone(t)'
  BY <1>3 DEF Walking, Alone, Live
<1>4. QED
  BY <1>1, <1>2, <1>3 DEF Undisturbed, Walking

LEMMA NextUndisturbed ==
  ASSUME IInv, Next
  PROVE  Undisturbed'
<1> USE DEF IInv
<1>0. at \in [Tasks -> Calls] /\ root \in Tasks
  BY MemoryAssumption DEF TypeOK, Calls
<1>1. CASE MoveToUserMode
  <2>1. /\ Runs(root) /\ Live(root) /\ Alone(root)
        /\ pc' = [pc EXCEPT ![root] = "see"]
    BY <1>1 DEF MoveToUserMode, Begin, Live, Undisturbed
  <2>2. at'[root].job = "load"
    BY <1>0, <1>1 DEF MoveToUserMode, Begin, Idle
  <2>3. QED
    BY <1>0, <2>1, <2>2, KeepsUndisturbed DEF TypeOK
<1>2. CASE \E t \in Tasks, va \in UserPages : Fault(t, va)
  <2>1. PICK t \in Tasks, va \in UserPages : Fault(t, va)
    BY <1>2
  <2>2. Runs(t) /\ Live(t) /\ Alone(t) /\ pc' = [pc EXCEPT ![t] = "see"]
    BY <2>1 DEF Fault, Begin, Live
  <2>3. at'[t].job = "fault"
    BY <1>0, <2>1 DEF Fault, Begin, Idle
  <2>4. QED
    BY <2>2, <2>3, KeepsUndisturbed DEF TypeOK
<1>3. CASE \E t, child \in Tasks : Fork(t, child)
  <2>1. PICK t \in Tasks, child \in Tasks : Fork(t, child)
    BY <1>3
  <2>2. Runs(t) /\ Live(t) /\ pc' = [pc EXCEPT ![t] = "see"] /\ cpu' = t
    BY <2>1 DEF Fork, Begin, Live, Preempt_disable
  <2>3. at'[t].job = "fork"
    BY <1>0, <2>1 DEF Fork, Begin, Idle
  <2>4. QED
    BY <2>2, <2>3, KeepsUndisturbed DEF TypeOK
<1>4. CASE \E t \in Tasks, va \in UserPages, value \in Words : Write(t, va, value)
  <2>1. PICK t \in Tasks, va \in UserPages, value \in Words : Write(t, va, value)
    BY <1>4
  <2>2. Runs(t) /\ Live(t) /\ pc' = pc /\ pc[t] = "user"
    BY <2>1 DEF Write, Live
  <2>3. QED
    BY <2>2, KeepsUndisturbed
<1>5. CASE \E t \in Tasks : Exit(t)
  <2>1. PICK t \in Tasks : Exit(t)
    BY <1>5
  <2>2. Runs(t) /\ Live(t) /\ pc' = [pc EXCEPT ![t] = "zombie"]
    BY <2>1 DEF Exit, Live
  <2>3. QED
    BY <2>2, KeepsUndisturbed DEF TypeOK
<1>6. ASSUME NEW t \in Tasks, Runs(t), Walking(t), cpu' = cpu, at'[t].job = at[t].job,
             \E label \in {"see", "mark", "walk"} : pc' = [pc EXCEPT ![t] = label]
      PROVE  Undisturbed'
  <2>1. Live(t)
    BY <1>6 DEF Walking, Live
  <2>2. /\ at[t].job = "fork" => cpu = t
        /\ at[t].job # "fork" => Alone(t)
    BY <1>6 DEF Undisturbed
  <2>3. QED
    BY <1>6, <2>1, <2>2, KeepsUndisturbed DEF TypeOK
<1>7. ASSUME NEW t \in Tasks, Runs(t), Walking(t),
             \A u \in Tasks : u # t => pc'[u] = pc[u] \/ pc'[u] \in {"user", "hung", "astray"},
             pc'[t] \in {"user", "hung", "astray", "failed"}
      PROVE  Undisturbed'
  <2>1. Live(t)
    BY <1>7 DEF Walking, Live
  <2>2. QED
    BY <1>7, <2>1, KeepsUndisturbed
<1>8. CASE \E t \in Tasks : See(t) \/ Mark(t) \/ Descend(t) \/ NeedTable(t)
  <2>1. PICK t \in Tasks : See(t) \/ Mark(t) \/ Descend(t) \/ NeedTable(t)
    BY <1>8
  <2>2. Runs(t) /\ Walking(t) /\ cpu' = cpu
    BY <2>1 DEF See, Mark, Descend, NeedTable, Walking
  <2>3. at'[t].job = at[t].job
    <3>1. CASE See(t)
      BY <1>0, <3>1 DEF See, Calls
    <3>2. CASE Mark(t)
      BY <1>0, <3>2 DEF Mark, Calls
    <3>3. CASE Descend(t)
      BY <1>0, <3>3 DEF Descend, Calls
    <3>4. CASE NeedTable(t)
      BY <3>4 DEF NeedTable
    <3>5. QED
      BY <2>1, <3>1, <3>2, <3>3, <3>4
  <2>4. \E label \in {"see", "mark", "walk"} : pc' = [pc EXCEPT ![t] = label]
    BY <2>1 DEF See, Mark, Descend, NeedTable, TypeOK
  <2>5. QED
    BY <1>6, <2>2, <2>3, <2>4
<1>9. CASE \E t \in Tasks : Enter(t) \/ NoneLeft(t) \/ WithoutTable(t)
  <2>1. PICK t \in Tasks : Enter(t) \/ NoneLeft(t) \/ WithoutTable(t)
    BY <1>9
  <2>2. Runs(t) /\ Walking(t)
    BY <2>1 DEF Enter, NoneLeft, WithoutTable, Walking
  <2>3. CASE \E where, child \in {"user", "hung", "astray"} : Finish(t, where, child)
    <3>1. PICK where \in {"user", "hung", "astray"},
              child \in {"user", "hung", "astray"} : Finish(t, where, child)
      BY <2>3
    <3>2. pc' = [pc EXCEPT ![t] = where, ![at[t].dst] = child] /\ at[t].dst \in Tasks
      BY <3>1, CallType DEF Finish
    <3>3. QED
      BY <1>7, <2>2, <3>2 DEF TypeOK
  <2>4. CASE pc' = [pc EXCEPT ![t] = "failed"]
    BY <1>7, <2>2, <2>4 DEF TypeOK
  <2>5. CASE UNCHANGED <<pc, at, cpu>>
    <3>1. pc' = [pc EXCEPT ![t] = pc[t]] /\ pc[t] \in {"see", "mark", "walk"}
      BY <2>2, <2>5 DEF TypeOK, Walking
    <3>2. QED
      BY <1>6, <2>2, <2>5, <3>1
  <2>6. CASE Enter(t) /\ Len(at[t].rest) > 1
    <3>1. /\ at' = [at EXCEPT ![t].rest = Tail(at[t].rest), ![t].level = UserPage,
                              ![t].user = 0, ![t].table = 0]
          /\ pc' = [pc EXCEPT ![t] = "see"] /\ cpu' = cpu
      BY <2>6 DEF Enter
    <3>2. at'[t].job = at[t].job
      BY <1>0, <3>1 DEF Calls
    <3>3. QED
      BY <1>6, <2>2, <3>1, <3>2
  <2>7. QED
    BY <2>1, <2>3, <2>4, <2>5, <2>6 DEF Enter, NoneLeft, WithoutTable
<1>10. QED
  BY NextCases, <1>1, <1>2, <1>3, <1>4, <1>5, <1>8, <1>9

-----------------------------------------------------------------------------
\* A step of t that changes no other task, unless it ends a fork.
LEMMA KeepsCalls ==
  ASSUME IInv, NEW t \in Tasks, Runs(t), Live(t),
         \A u \in Tasks : u # t =>
           /\ at'[u] = at[u]
           /\ pc'[u] = pc[u] \/ pc'[u] \in {"user", "hung", "astray"}
           /\ pc'[u] = "user" => user_pages'[u] # <<>>,
         Walking(t)' => CallOK(t)',
         ~Walking(t)' => at'[t] = Idle,
         pc'[t] = "user" => user_pages'[t] # <<>>
  PROVE  CallsOK'
<1>1. Undisturbed /\ TypeOK /\ CallsOK
  BY DEF IInv
<1>2. \A u \in Tasks : u # t => ~Walking(u) /\ ~Walking(u)' /\ at[u] = Idle
  BY <1>1, OthersOut DEF Walking, CallsOK
<1>3. Idle' = Idle
  BY DEF Idle
<1>4. QED
  BY <1>2, <1>3 DEF CallsOK

\* What a step of t has to show about the lengths: t and, in a fork, dst.
LEMMA KeepsLengths ==
  ASSUME IInv, NEW t \in Tasks, Runs(t), Live(t), NEW dst \in Tasks,
         ind' \in Nat, ind' >= ind,
         \A u \in Tasks : u # t =>
           /\ u # dst => /\ pc'[u] = pc[u] /\ user_pages'[u] = user_pages[u]
                         /\ task'[u] = task[u]
           /\ pc'[u] = pc[u] \/ pc'[u] \in {"user", "hung", "astray"},
         Walking(t)' => RestOK(t)',
         LengthOK(t)', LengthOK(dst)'
  PROVE  Lengths'
<1>1. Undisturbed /\ TypeOK /\ Lengths
  BY DEF IInv
<1>2. \A u \in Tasks : u # t => ~Walking(u) /\ ~Walking(u)'
  BY <1>1, OthersOut DEF Walking
<1>3. ind \in Nat
  BY <1>1 DEF TypeOK
<1>4. ASSUME NEW u \in Tasks, u \notin {t, dst}
      PROVE  LengthOK(u)'
  <2>1. LengthOK(u)
    BY <1>1 DEF Lengths
  <2>2. pc'[u] = pc[u] /\ user_pages'[u] = user_pages[u] /\ task'[u] = task[u]
    BY <1>4
  <2>3. Len(user_pages[u]) \in Nat
    BY <1>1 DEF TypeOK
  <2>4. Live(u)' => Live(u)
    BY <2>2 DEF Live
  <2>5. Live(u)' => Len(user_pages'[u]) <= ind' /\ Len(user_pages'[u]) <= 2
    BY <1>3, <2>1, <2>2, <2>3, <2>4 DEF LengthOK
  <2>6. QED
    BY <2>1, <2>2, <2>5 DEF LengthOK
<1>5. ind' >= 1
  BY <1>1, <1>3 DEF Lengths
<1>6. \A u \in Tasks : Walking(u)' => RestOK(u)'
  BY <1>2
<1>7. QED
  BY <1>4, <1>5, <1>6 DEF Lengths

LEMMA BeginOK ==
  ASSUME IInv, NEW t \in Tasks, NEW job \in {"load", "fault", "fork"},
         NEW dst \in Tasks, NEW rest \in Seq(UserPages), rest # <<>>,
         NEW level \in {TaskStruct, UserPage}, level = TaskStruct => job = "fork",
         Runs(t), pc[t] \in {"kernel", "user"},
         Begin(t, job, dst, rest, level),
         job = "load" => user_pages[t] = <<>>,
         job # "fork" => dst = t /\ Len(rest) = 1,
         job = "fork" => /\ task[dst] = 0 /\ level = TaskStruct
                         /\ Len(rest) = Len(user_pages[t])
  PROVE  CallsOK' /\ Lengths'
<1> DEFINE call == [Idle EXCEPT !.job = job, !.dst = dst, !.rest = rest, !.level = level]
<1>0. TypeOK /\ Lengths /\ CallsOK /\ Live(t)
  BY DEF IInv, Live
<1>1. /\ pc' = [pc EXCEPT ![t] = "see"] /\ at' = [at EXCEPT ![t] = call]
      /\ UNCHANGED <<mem_map, user_pages, task, ind>>
  BY DEF Begin
<1>2. /\ call.job = job /\ call.dst = dst /\ call.rest = rest /\ call.level = level
      /\ level \in {0, 1}
  BY DEF Idle, TaskStruct, UserPage
<1>3. /\ at'[t] = call /\ pc'[t] = "see"
      /\ \A u \in Tasks : u # t => at'[u] = at[u] /\ pc'[u] = pc[u]
  BY <1>0, <1>1 DEF TypeOK
<1>4. CallsOK'
  <2>1. CallOK(t)'
    BY <1>2, <1>3 DEF CallOK, TaskStruct, UserPage, Pgd, Pud, Pte, Leaf
  <2>2. \A u \in Tasks : pc'[u] = "user" => user_pages'[u] # <<>>
    BY <1>0, <1>1, <1>3 DEF CallsOK
  <2>3. Walking(t)'
    BY <1>3 DEF Walking
  <2>4. QED
    BY <1>0, <1>3, <2>1, <2>2, <2>3, KeepsCalls
<1>5. Lengths'
  <2>1. LengthOK(t) /\ LengthOK(dst)
    BY <1>0 DEF Lengths
  <2>2. job = "fork" => dst # t /\ pc[dst] = "none" /\ user_pages[dst] = <<>>
    BY <2>1 DEF LengthOK
  <2>3. Live(t)' /\ task[t] # 0
    BY <1>3, <2>1 DEF Live, LengthOK
  <2>4. LengthOK(t)'
    BY <1>0, <1>1, <1>3, <2>1, <2>3 DEF LengthOK
  <2>5. RestOK(t)'
    <3>1. /\ job = "load" => user_pages'[t] = <<>>
          /\ job # "fork" => dst = t /\ Len(rest) = 1
          /\ job = "fork" =>
               /\ dst # t /\ pc'[dst] = "none"
               /\ level = TaskStruct <=> task'[dst] = 0
               /\ Len(user_pages'[dst]) + Len(rest) = Len(user_pages'[t])
      <4>1. Len(user_pages[t]) \in Nat /\ Len(<<>>) = 0
        BY <1>0 DEF TypeOK
      <4>2. QED
        BY <1>1, <1>3, <2>2, <4>1
    <3>2. QED
      BY <1>2, <1>3, <3>1 DEF RestOK
  <2>6. dst # t => LengthOK(dst)'
    <3>1. dst # t => ~Live(dst)'
      BY <1>3, <2>2 DEF Live
    <3>2. QED
      BY <1>1, <1>3, <2>1, <2>2, <3>1 DEF LengthOK
  <2>7. QED
    BY <1>0, <1>1, <1>3, <2>4, <2>5, <2>6, KeepsLengths DEF TypeOK
<1>6. QED
  BY <1>4, <1>5

\* A step on the way: the call of t goes on, and no page is entered yet.
LEMMA OnTheWayOK ==
  ASSUME IInv, NEW t \in Tasks, Runs(t), Walking(t), UNCHANGED <<user_pages, ind>>,
         NEW dst \in Tasks, dst = at[t].dst,
         pc'[t] \in {"see", "mark", "walk"},
         at'[t].job = at[t].job, at'[t].dst = at[t].dst, at'[t].rest = at[t].rest,
         \A u \in Tasks : u # t => at'[u] = at[u] /\ pc'[u] = pc[u],
         \A u \in Tasks : u # dst => task'[u] = task[u],
         task[dst] # 0 => task'[dst] # 0,
         at[t].job = "fork" => (at'[t].level = TaskStruct <=> task'[dst] = 0),
         CallOK(t)'
  PROVE  CallsOK' /\ Lengths'
<1>0. TypeOK /\ Lengths /\ CallsOK /\ Live(t)
  BY DEF IInv, Live, Walking
<1>1. CallsOK'
  <2>1. \A u \in Tasks : pc'[u] = "user" => user_pages'[u] # <<>>
    BY <1>0 DEF CallsOK
  <2>2. Walking(t)'
    BY DEF Walking
  <2>3. QED
    BY <1>0, <2>1, <2>2, KeepsCalls
<1>2. LengthOK(t) /\ LengthOK(dst) /\ RestOK(t)
  BY <1>0 DEF Lengths
<1>3. task[t] # 0 /\ task'[t] # 0
  BY <1>0, <1>2 DEF LengthOK, Walking
<1>4. LengthOK(t)'
  BY <1>0, <1>2, <1>3 DEF LengthOK
<1>5. RestOK(t)'
  BY <1>0, <1>2 DEF RestOK
<1>6. LengthOK(dst)'
  <2>1. dst # t => pc[dst] = "none"
    BY <1>2 DEF RestOK
  <2>2. CASE dst # t
    <3>1. pc'[dst] = "none" /\ ~Live(dst)'
      BY <2>1, <2>2 DEF Live
    <3>2. QED
      BY <1>2, <2>1, <3>1 DEF LengthOK
  <2>3. CASE dst = t
    BY <1>4, <2>3
  <2>4. QED
    BY <2>2, <2>3
<1>7. Lengths'
  <2>1. ind \in Nat /\ ind' \in Nat /\ ind' >= ind
    BY <1>0 DEF TypeOK
  <2>2. QED
    BY <1>0, <1>4, <1>5, <1>6, <2>1, KeepsLengths
<1>8. QED
  BY <1>1, <1>7

LEMMA SeeOK ==
  ASSUME IInv, NEW t \in Tasks, See(t)
  PROVE  CallsOK' /\ Lengths'
<1>0. /\ TypeOK /\ Lengths /\ CallOK(t) /\ Runs(t) /\ Walking(t)
      /\ at \in [Tasks -> Calls] /\ pc[t] = "see"
  BY WalkingCall DEF IInv, See, TypeOK, Calls
<1>1. PICK p \in Unmarked : at' = [at EXCEPT ![t].page = p]
  BY DEF See
<1>2. /\ pc' = [pc EXCEPT ![t] = "mark"]
      /\ UNCHANGED <<mem_map, user_pages, task, ind>>
  BY DEF See
<1>3. /\ at'[t].page = p /\ at'[t].job = at[t].job /\ at'[t].dst = at[t].dst
      /\ at'[t].rest = at[t].rest /\ at'[t].level = at[t].level
      /\ at'[t].table = at[t].table
      /\ pc'[t] = "mark" /\ \A u \in Tasks : u # t => at'[u] = at[u] /\ pc'[u] = pc[u]
  BY <1>0, <1>1, <1>2 DEF TypeOK, Calls
<1>4. CallOK(t)'
  BY <1>0, <1>2, <1>3 DEF CallOK, Unmarked
<1>5. PICK dst \in Tasks : dst = at[t].dst
  BY <1>0, CallType
<1>6. RestOK(t)
  BY <1>0 DEF Lengths
<1>7. QED
  BY <1>0, <1>2, <1>3, <1>4, <1>5, <1>6, OnTheWayOK DEF RestOK

LEMMA MarkOK ==
  ASSUME IInv, NEW t \in Tasks, Mark(t)
  PROVE  CallsOK' /\ Lengths'
<1> DEFINE a == at[t]
<1>0. /\ TypeOK /\ Lengths /\ CallOK(t) /\ Runs(t) /\ Walking(t)
      /\ at \in [Tasks -> Calls] /\ pc[t] = "mark"
  BY WalkingCall DEF IInv, Mark, TypeOK, Calls
<1>1. /\ at' = [at EXCEPT ![t].level = a.level + 1, ![t].page = 0,
                          ![t].user = IF a.level = UserPage THEN a.page ELSE a.user,
                          ![t].table = IF a.level >= Pgd THEN a.page ELSE a.table]
      /\ pc' = [pc EXCEPT ![t] = IF a.level = TaskStruct THEN "see" ELSE "walk"]
      /\ task' = IF a.level = TaskStruct THEN [task EXCEPT ![a.dst] = a.page] ELSE task
      /\ UNCHANGED <<user_pages, ind>>
  BY DEF Mark
<1>2. /\ at'[t].job = a.job /\ at'[t].dst = a.dst /\ at'[t].rest = a.rest
      /\ at'[t].level = a.level + 1
      /\ at'[t].table = IF a.level >= Pgd THEN a.page ELSE a.table
      /\ \A u \in Tasks : u # t => at'[u] = at[u]
  BY <1>0, <1>1 DEF Calls
<1>3. /\ pc'[t] = IF a.level = TaskStruct THEN "see" ELSE "walk"
      /\ \A u \in Tasks : u # t => pc'[u] = pc[u]
  BY <1>0, <1>1 DEF TypeOK
<1>4. /\ a.level \in 0 .. 5 /\ a.dst \in Tasks
      /\ a.page \in DOMAIN mem_map' /\ mem_map'[a.page] = 1 /\ a.page # 0
  <2>1. a.level \in 0 .. 5 /\ a.dst \in Tasks
    BY <1>0, CallType DEF CallOK, Pte
  <2>2. DOMAIN mem_map' = 1 .. Len(mem_map) /\ a.page \in 1 .. Len(mem_map) /\ mem_map'[a.page] = 1
    BY <1>0, MarkedMap
  <2>3. QED
    BY <2>1, <2>2, <1>0, MapType
<1>5. CallOK(t)'
  BY <1>0, <1>2, <1>3, <1>4
  DEF CallOK, TaskStruct, Pgd, Pud, Pte, Leaf
<1>6. RestOK(t)
  BY <1>0 DEF Lengths
<1>7. PICK dst \in Tasks : dst = a.dst
  BY <1>4
<1>8. /\ \A u \in Tasks : u # dst => task'[u] = task[u]
      /\ task[dst] # 0 => task'[dst] # 0
  BY <1>0, <1>1, <1>4, <1>7 DEF TypeOK
<1>9. a.job = "fork" => (at'[t].level # TaskStruct /\ task'[dst] # 0)
  <2>1. at'[t].level # TaskStruct
    BY <1>2, <1>4 DEF TaskStruct
  <2>2. a.job = "fork" => task'[dst] # 0
    BY <1>0, <1>1, <1>4, <1>6, <1>7 DEF TypeOK, RestOK
  <2>3. QED
    BY <2>1, <2>2
<1>10. a.job = "fork" => (at'[t].level = TaskStruct <=> task'[dst] = 0)
  BY <1>9, Zenon
<1>11. pc'[t] \in {"see", "mark", "walk"}
  BY <1>3
<1>12. UNCHANGED <<user_pages, ind>>
  BY <1>1
<1>13. QED
  BY <1>0, <1>2, <1>3, <1>5, <1>7, <1>8, <1>10, <1>11, <1>12, OnTheWayOK

LEMMA DescendOK ==
  ASSUME IInv, NEW t \in Tasks, Descend(t)
  PROVE  CallsOK' /\ Lengths'
<1>0. /\ TypeOK /\ Lengths /\ Cleared /\ PagesOwned /\ CallOK(t) /\ Runs(t) /\ Walking(t)
      /\ at \in [Tasks -> Calls] /\ pc[t] = "walk"
  BY WalkingCall DEF IInv, Descend, TypeOK, Calls
<1>1. /\ at' = [at EXCEPT ![t].level = at[t].level + 1, ![t].table = Entry(t)]
      /\ UNCHANGED <<mem_map, user_pages, task, ind, pc>>
  BY DEF Descend
<1>2. /\ at'[t].job = at[t].job /\ at'[t].dst = at[t].dst /\ at'[t].rest = at[t].rest
      /\ at'[t].level = at[t].level + 1 /\ at'[t].table = Entry(t)
      /\ \A u \in Tasks : u # t => at'[u] = at[u]
  BY <1>0, <1>1 DEF Calls
<1>3. at[t].level \in 2 .. 5
  <2>1. at[t].level \in 0 .. 6 /\ at[t].level < 6
    BY <1>0, CallType DEF Descend, Leaf
  <2>2. at[t].level >= 2
    BY <1>0 DEF CallOK, Pgd
  <2>3. QED
    BY <2>1, <2>2
<1>4. Entry(t) \in DOMAIN mem_map /\ mem_map[Entry(t)] = 1
  BY <1>0, EntryType DEF Descend
<1>5. CallOK(t)'
  BY <1>0, <1>1, <1>2, <1>3, <1>4 DEF CallOK, TaskStruct, Pgd, Pud, Pte, Leaf
<1>6. PICK dst \in Tasks : dst = at[t].dst
  BY <1>0, CallType
<1>7. RestOK(t)
  BY <1>0 DEF Lengths
<1>8. at[t].job = "fork" => (at'[t].level = TaskStruct <=> task'[dst] = 0)
  BY <1>1, <1>2, <1>3, <1>6, <1>7 DEF RestOK, TaskStruct
<1>9. QED
  BY <1>0, <1>1, <1>2, <1>5, <1>6, <1>8, OnTheWayOK

\* A call that waits for a page, or that the kernel no longer follows.
LEMMA NeedTableOK ==
  ASSUME IInv, NEW t \in Tasks, Runs(t), Walking(t),
         UNCHANGED <<mem_map, user_pages, task, ind, at>>,
         \/ pc' = pc
         \/ pc[t] = "walk" /\ at[t].level < Leaf /\ pc' = [pc EXCEPT ![t] = "see"]
  PROVE  CallsOK' /\ Lengths'
<1>0. TypeOK /\ Lengths /\ CallOK(t)
  BY WalkingCall DEF IInv, Walking
<1>1. \A u \in Tasks : u # t => pc'[u] = pc[u]
  BY <1>0 DEF TypeOK
<1>2. pc'[t] = pc[t] \/ (pc'[t] = "see" /\ at[t].level <= Pte)
  <2>1. at[t].level \in 0 .. 6
    BY <1>0, CallType
  <2>2. at[t].level < Leaf => at[t].level <= Pte
    BY <2>1 DEF Leaf, Pte
  <2>3. QED
    BY <1>0, <2>2 DEF TypeOK
<1>3. CallOK(t)'
  BY <1>0, <1>2 DEF CallOK
<1>4. PICK dst \in Tasks : dst = at[t].dst
  BY <1>0, CallType
<1>5. RestOK(t)
  BY <1>0 DEF Lengths
<1>6. QED
  BY <1>1, <1>2, <1>3, <1>4, <1>5, OnTheWayOK DEF RestOK, Walking

\* The end of a call: t and, after a fork, the child run on or hang.
LEMMA FinishOK ==
  ASSUME IInv, NEW t \in Tasks, Runs(t), Walking(t),
         NEW dst \in Tasks, dst = at[t].dst, NEW where, NEW child,
         where \in {"user", "hung", "astray"}, child \in {"user", "hung", "astray"},
         Finish(t, where, child), task' = task, task[dst] # 0,
         \A u \in Tasks : u # dst => user_pages'[u] = user_pages[u],
         ind' \in Nat, ind' >= ind, Len(user_pages'[dst]) <= 3,
         dst = t => where = child,
         child = "user" => /\ Len(user_pages'[dst]) <= 2 /\ Len(user_pages'[dst]) <= ind'
                           /\ user_pages'[dst] # <<>>,
         dst # t => user_pages[t] # <<>>
  PROVE  CallsOK' /\ Lengths'
<1>0. TypeOK /\ Lengths /\ CallsOK /\ Live(t) /\ at \in [Tasks -> Calls]
  BY DEF IInv, Live, Walking, TypeOK, Calls
<1>1. /\ pc' = [pc EXCEPT ![t] = where, ![dst] = child]
      /\ at' = [at EXCEPT ![t] = Idle]
  BY DEF Finish
<1>2. /\ pc'[t] = where /\ pc'[dst] = child
      /\ \A u \in Tasks : u # t /\ u # dst => pc'[u] = pc[u]
  BY <1>0, <1>1 DEF TypeOK
<1>3. at'[t] = Idle /\ \A u \in Tasks : u # t => at'[u] = at[u]
  BY <1>0, <1>1
<1>4. ~Walking(t)'
  BY <1>2 DEF Walking
<1>5. CallsOK'
  <2>1. \A u \in Tasks : pc'[u] = "user" => user_pages'[u] # <<>>
    <3>1. \A u \in Tasks : u # t /\ u # dst /\ pc'[u] = "user" => user_pages'[u] # <<>>
      BY <1>0, <1>2 DEF CallsOK
    <3>2. QED
      BY <1>2, <3>1
  <2>2. \A u \in Tasks : u # t => pc'[u] = pc[u] \/ pc'[u] \in {"user", "hung", "astray"}
    BY <1>2
  <2>3. QED
    BY <1>0, <1>3, <1>4, <2>1, <2>2, KeepsCalls
<1>6. LengthOK(dst)'
  BY <1>2 DEF LengthOK, Live
<1>7. LengthOK(t)'
  <2>1. CASE dst = t
    BY <1>6, <2>1
  <2>2. CASE dst # t
    <3>0. LengthOK(t) /\ user_pages'[t] = user_pages[t]
      BY <1>0, <2>2 DEF Lengths
    <3>1. LengthOK(t) /\ user_pages'[t] = user_pages[t] /\ Len(user_pages[t]) \in Nat
          /\ ind \in Nat
      BY <1>0, <3>0 DEF TypeOK
    <3>2. task[t] # 0
      BY <3>1 DEF LengthOK, Walking
    <3>3. Len(user_pages'[t]) <= 3 /\ Len(user_pages'[t]) <= ind' /\ Len(user_pages'[t]) <= 2
      BY <1>0, <3>1 DEF LengthOK
    <3>4. QED
      BY <1>2, <3>2, <3>3 DEF LengthOK
  <2>3. QED
    BY <2>1, <2>2
<1>8. QED
  BY <1>0, <1>2, <1>4, <1>5, <1>6, <1>7, KeepsLengths

LEMMA EnterOK ==
  ASSUME IInv, NEW t \in Tasks, Enter(t)
  PROVE  CallsOK' /\ Lengths'
<1> DEFINE a  == at[t]
           va == Head(a.rest)
<1>0. /\ TypeOK /\ Lengths /\ CallsOK /\ CallOK(t) /\ Runs(t) /\ Walking(t) /\ Live(t)
      /\ at \in [Tasks -> Calls] /\ pc[t] = "walk" /\ a.level = Leaf
  BY WalkingCall DEF IInv, Enter, Live, TypeOK, Calls
<1>1. PICK dst \in Tasks : dst = a.dst
  BY <1>0, CallType
<1>2. /\ RestOK(t) /\ LengthOK(t) /\ LengthOK(dst)
      /\ a.job \in {"none", "load", "fault", "fork"} /\ a.job # "none"
      /\ a.rest \in Seq(UserPages) /\ a.rest # <<>> /\ va \in UserPages
      /\ Tail(a.rest) \in Seq(UserPages) /\ Len(Tail(a.rest)) = Len(a.rest) - 1
      /\ Len(a.rest) \in Nat /\ Len(a.rest) >= 1
  <2>1. a.rest \in Seq(UserPages) /\ a.rest # <<>> /\ a.job \in {"none", "load", "fault", "fork"}
    BY <1>0, CallType DEF CallOK
  <2>2. RestOK(t) /\ LengthOK(t) /\ LengthOK(dst) /\ a.job # "none"
    BY <1>0 DEF Lengths, CallOK
  <2>3. QED
    BY <2>1, <2>2
<1>3. /\ UNCHANGED <<mem_map, task>>
      /\ user_pages' = [user_pages EXCEPT ![dst] = Append(user_pages[dst], va)]
      /\ ind' = IF a.job = "fault" THEN ind + 1 ELSE ind
  BY <1>1 DEF Enter, Recorded
<1>4. /\ user_pages[dst] \in Seq(UserPages) /\ Len(user_pages[dst]) \in Nat
      /\ user_pages[t] \in Seq(UserPages) /\ Len(user_pages[t]) \in Nat
      /\ user_pages'[dst] = Append(user_pages[dst], va)
      /\ \A u \in Tasks : u # dst => user_pages'[u] = user_pages[u]
  <2>1. user_pages \in [Tasks -> Seq(UserPages)]
    BY <1>0 DEF TypeOK
  <2>2. user_pages[dst] \in Seq(UserPages) /\ user_pages[t] \in Seq(UserPages)
    BY <2>1
  <2>3. /\ user_pages'[dst] = Append(user_pages[dst], va)
        /\ \A u \in Tasks : u # dst => user_pages'[u] = user_pages[u]
    BY <1>3, <2>1
  <2>4. QED
    BY <2>2, <2>3
<1>5. Len(user_pages'[dst]) = Len(user_pages[dst]) + 1 /\ user_pages'[dst] # <<>>
  BY <1>2, <1>4
<1>6. /\ ind \in Nat /\ ind >= 1 /\ ind' \in Nat /\ ind' >= ind
      /\ Len(user_pages[t]) <= 2 /\ Len(user_pages[t]) <= ind
  <2>1. ind \in Nat /\ ind >= 1
    BY <1>0 DEF TypeOK, Lengths
  <2>2. Len(user_pages[t]) <= 2 /\ Len(user_pages[t]) <= ind
    BY <1>0, <1>2 DEF LengthOK
  <2>3. QED
    BY <1>3, <2>1, <2>2
<1>7. task[dst] # 0
  <2>1. CASE a.job = "fork"
    BY <1>0, <1>1, <1>2, <2>1 DEF RestOK, Leaf, TaskStruct
  <2>2. CASE a.job # "fork"
    BY <1>0, <1>1, <1>2, <2>2 DEF RestOK, LengthOK, Walking
  <2>3. QED
    BY <2>1, <2>2
<1>8. a.job = "fork" => /\ dst # t /\ pc[dst] = "none"
                        /\ Len(user_pages[dst]) + Len(a.rest) = Len(user_pages[t])
  BY <1>1, <1>2 DEF RestOK
<1>9. a.job # "fork" => dst = t /\ Len(a.rest) = 1
  BY <1>1, <1>2 DEF RestOK
\* The lengths: of what is left, of the pages of dst, and of those of t.
<1>10. PICK l \in Nat : l = Len(a.rest) /\ l >= 1
  BY <1>2
<1>11. PICK tail \in Seq(UserPages) : tail = Tail(a.rest) /\ Len(tail) = l - 1
  BY <1>2, <1>10
<1>12. PICK m, n \in Nat : m = Len(user_pages[dst]) /\ n = Len(user_pages[t])
  BY <1>4
<1>13. Len(user_pages'[dst]) = m + 1
  BY <1>5, <1>12
<1>14. n <= 2 /\ n <= ind
  BY <1>6, <1>12
<1>15. a.job = "fork" => m + l = n
  BY <1>8, <1>12, <1>10
<1>16. CASE Len(a.rest) > 1
  <2>0. l > 1
    BY <1>16, <1>10
  <2>1. a.job = "fork" /\ ind' = ind
    <3>1. a.job = "fork"
      <4>1. SUFFICES ASSUME a.job # "fork" PROVE FALSE
        OBVIOUS
      <4>2. l = 1
        BY <1>9, <1>10, <4>1
      <4>3. QED
        BY <2>0, <4>2
    <3>2. QED
      BY <1>3, <3>1
  <2>2. /\ at' = [at EXCEPT ![t].rest = Tail(a.rest), ![t].level = UserPage,
                            ![t].user = 0, ![t].table = 0]
        /\ pc' = [pc EXCEPT ![t] = "see"]
    BY <1>16 DEF Enter
  <2>3. /\ at'[t].job = a.job /\ at'[t].dst = dst /\ at'[t].rest = Tail(a.rest)
        /\ at'[t].level = UserPage
        /\ \A u \in Tasks : u # t => at'[u] = at[u]
    BY <1>0, <1>1, <2>2 DEF Calls
  <2>4. pc'[t] = "see" /\ \A u \in Tasks : u # t => pc'[u] = pc[u]
    BY <1>0, <2>2 DEF TypeOK
  <2>5. Tail(a.rest) # <<>>
    <3>1. Len(tail) # 0
      BY <1>11, <2>0
    <3>2. Len(<<>>) = 0
      OBVIOUS
    <3>3. QED
      BY <1>11, <3>1, <3>2
  <2>6. CallOK(t)'
    BY <2>1, <2>3, <2>4, <2>5 DEF CallOK, TaskStruct, UserPage, Pgd, Pud, Pte, Leaf
  <2>7. Walking(t)'
    BY <2>4 DEF Walking
  <2>8. \A u \in Tasks : pc'[u] = "user" => user_pages'[u] # <<>>
    BY <1>0, <1>4, <1>5, <2>4 DEF CallsOK
  <2>9. CallsOK'
    BY <1>0, <2>3, <2>4, <2>6, <2>7, <2>8, KeepsCalls
  <2>10. RestOK(t)'
    <3>1. dst # t /\ pc'[dst] = "none" /\ UserPage # TaskStruct /\ task'[dst] # 0
      BY <1>3, <1>7, <1>8, <2>1, <2>4 DEF UserPage, TaskStruct
    <3>2. m + l = n
      BY <1>15, <2>1
    <3>3. Len(user_pages'[t]) = n
      BY <1>4, <1>8, <1>12, <2>1
    <3>4. Len(user_pages'[dst]) + Len(tail) = Len(user_pages'[t])
      <4>1. (m + 1) + (l - 1) = n
        BY <3>2
      <4>2. QED
        BY <1>13, <1>11, <3>3, <4>1, Zenon
    <3>5. QED
      BY <1>11, <2>1, <2>3, <3>1, <3>4 DEF RestOK
  <2>11. LengthOK(t)'
    BY <1>0, <1>2, <1>3, <1>4, <1>6, <1>8, <2>1, <2>4 DEF LengthOK, Walking
  <2>12. LengthOK(dst)'
    <3>1. pc'[dst] = "none" /\ ~Live(dst)' /\ task'[dst] # 0
      BY <1>3, <1>7, <1>8, <2>1, <2>4 DEF Live
    <3>2. m + l = n
      BY <1>15, <2>1
    <3>3. Len(user_pages'[dst]) <= 3
      BY <1>13, <1>14, <1>10, <3>2
    <3>4. QED
      BY <3>1, <3>3 DEF LengthOK
  <2>13. Lengths'
    BY <1>0, <1>3, <1>4, <1>6, <2>1, <2>4, <2>10, <2>11, <2>12, KeepsLengths
  <2>14. QED
    BY <2>9, <2>13
<1>17. CASE ~(Len(a.rest) > 1)
  <2>1. PICK where \in {"user", "hung"} :
          /\ Finish(t, where, where)
          /\ a.job = "fault" /\ ind' > 2 => where = "hung"
    BY <1>17 DEF Enter, TooManyFaults
  <2>2. CASE a.job = "fork"
    <3>0. m + l = n
      BY <1>15, <2>2
    <3>1. Len(user_pages'[dst]) <= n /\ user_pages[t] # <<>>
      <4>1. Len(user_pages'[dst]) <= n /\ n # 0
        BY <1>13, <1>10, <3>0
      <4>2. Len(<<>>) = 0
        OBVIOUS
      <4>3. QED
        BY <1>12, <4>1, <4>2
    <3>2. /\ Len(user_pages'[dst]) <= 3 /\ Len(user_pages'[dst]) <= 2
          /\ Len(user_pages'[dst]) <= ind'
      BY <1>6, <1>13, <1>14, <3>1
    <3>3. QED
      BY <1>0, <1>1, <1>3, <1>4, <1>5, <1>6, <1>7, <2>1, <3>1, <3>2, FinishOK, ZenonT(60)
  <2>3. CASE a.job = "fault"
    <3>1. dst = t /\ ind' = ind + 1
      BY <1>3, <1>9, <2>3
    <3>2. Len(user_pages'[dst]) <= 3
      BY <1>4, <1>5, <1>6, <3>1
    <3>3. where = "user" => Len(user_pages'[dst]) <= 2 /\ Len(user_pages'[dst]) <= ind'
      BY <1>4, <1>5, <1>6, <2>1, <2>3, <3>1
    <3>4. QED
      BY <1>0, <1>1, <1>3, <1>4, <1>5, <1>6, <1>7, <2>1, <3>1, <3>2, <3>3, FinishOK
  <2>4. CASE a.job = "load"
    <3>1. dst = t /\ user_pages[t] = <<>>
      BY <1>2, <1>9, <2>4 DEF RestOK
    <3>2. Len(user_pages'[dst]) = 1
      BY <1>5, <3>1
    <3>3. /\ Len(user_pages'[dst]) <= 3 /\ Len(user_pages'[dst]) <= 2
          /\ Len(user_pages'[dst]) <= ind'
      BY <1>6, <3>2
    <3>4. QED
      BY <1>0, <1>1, <1>3, <1>4, <1>5, <1>6, <1>7, <2>1, <3>1, <3>3, FinishOK
  <2>5. QED
    BY <1>2, <2>2, <2>3, <2>4
<1>18. QED
  BY <1>16, <1>17

LEMMA NoneLeftOK ==
  ASSUME IInv, NEW t \in Tasks, NoneLeft(t)
  PROVE  CallsOK' /\ Lengths'
<1>0. /\ TypeOK /\ Lengths /\ CallsOK /\ CallOK(t) /\ Runs(t) /\ Walking(t) /\ Live(t)
      /\ at \in [Tasks -> Calls] /\ pc[t] = "see"
  BY WalkingCall DEF IInv, NoneLeft, Live, TypeOK, Calls
<1>1. PICK dst \in Tasks : dst = at[t].dst
  BY <1>0, CallType
<1>2. RestOK(t) /\ LengthOK(t) /\ LengthOK(dst)
  BY <1>0 DEF Lengths
<1>3. UNCHANGED <<mem_map, user_pages, ind, task>>
  BY DEF NoneLeft
<1>4. /\ ind \in Nat /\ user_pages \in [Tasks -> Seq(UserPages)]
      /\ user_pages[t] \in Seq(UserPages) /\ user_pages[dst] \in Seq(UserPages)
  BY <1>0 DEF TypeOK
<1>5. task[t] # 0
  BY <1>0, <1>2 DEF LengthOK, Walking
<1>6. CASE /\ pc' = [pc EXCEPT ![t] = "failed"]
           /\ at' = [at EXCEPT ![t] = Idle]
  <2>1. pc'[t] = "failed" /\ \A u \in Tasks : u # t => pc'[u] = pc[u]
    BY <1>0, <1>6 DEF TypeOK
  <2>2. at'[t] = Idle /\ \A u \in Tasks : u # t => at'[u] = at[u]
    BY <1>0, <1>6
  <2>3. ~Walking(t)' /\ \A u \in Tasks : pc'[u] = "user" => user_pages'[u] # <<>>
    BY <1>0, <1>3, <2>1 DEF Walking, CallsOK
  <2>4. CallsOK'
    BY <1>0, <2>1, <2>2, <2>3, KeepsCalls
  <2>5. LengthOK(t)'
    BY <1>0, <1>2, <1>3, <1>5, <2>1 DEF LengthOK
  <2>6. Lengths'
    BY <1>0, <1>3, <1>4, <2>1, <2>3, <2>5, KeepsLengths
  <2>7. QED
    BY <2>4, <2>6
<1>7. CASE at[t].level = UserPage /\ at[t].job # "fork" /\ Finish(t, "hung", "hung")
  <2>1. dst = t /\ Len(user_pages'[t]) <= 3
    BY <1>1, <1>2, <1>3, <1>7 DEF RestOK, LengthOK
  <2>2. Finish(t, "hung", "hung") /\ task' = task /\ ind' = ind /\ user_pages' = user_pages
    BY <1>3, <1>7
  <2>3. ind' \in Nat /\ ind' >= ind
    BY <1>4, <2>2
  <2>4. task[dst] # 0 /\ Len(user_pages'[dst]) <= 3
    BY <1>5, <2>1
  <2>5. QED
    BY <1>0, <1>1, <2>1, <2>2, <2>3, <2>4, FinishOK
<1>8. CASE /\ at[t].level = UserPage /\ at[t].job = "fork"
           /\ Finish(t, "user", IF user_pages[at[t].dst] = <<>> THEN "hung" ELSE "user")
  <2>1. PICK child \in {"user", "hung"} :
          /\ Finish(t, "user", child)
          /\ child = "user" => user_pages[dst] # <<>>
    BY <1>1, <1>8
  <2>2. dst # t /\ task[dst] # 0 /\ Len(user_pages[dst]) + Len(at[t].rest) = Len(user_pages[t])
    <3>1. dst # t /\ Len(user_pages[dst]) + Len(at[t].rest) = Len(user_pages[t])
      BY <1>1, <1>2, <1>8 DEF RestOK
    <3>2. at[t].level # TaskStruct
      BY <1>8 DEF UserPage, TaskStruct
    <3>3. task[dst] # 0
      BY <1>1, <1>2, <1>8, <3>2 DEF RestOK
    <3>4. QED
      BY <3>1, <3>3
  <2>3. PICK l \in Nat : l = Len(at[t].rest) /\ l >= 1
    <3>1. at[t].rest \in Seq(UserPages) /\ at[t].rest # <<>>
      BY <1>0, CallType DEF CallOK
    <3>2. QED
      BY <3>1
  <2>4. PICK m, n \in Nat : m = Len(user_pages[dst]) /\ n = Len(user_pages[t])
    BY <1>4
  <2>5. n <= 2 /\ n <= ind
    BY <1>0, <1>2, <2>4 DEF LengthOK
  <2>6. m + l = n
    BY <2>2, <2>3, <2>4
  <2>7. m <= 3 /\ m <= 2 /\ m <= ind /\ n # 0
    BY <1>4, <2>3, <2>5, <2>6
  <2>8. user_pages[t] # <<>>
    <3>1. Len(<<>>) = 0
      OBVIOUS
    <3>2. QED
      BY <2>4, <2>7, <3>1
  <2>9. /\ Len(user_pages'[dst]) <= 3 /\ Len(user_pages'[dst]) <= 2
        /\ Len(user_pages'[dst]) <= ind'
    BY <1>3, <2>4, <2>7
  <2>10. QED
    BY <1>0, <1>1, <1>3, <1>4, <2>1, <2>2, <2>8, <2>9, FinishOK
<1>9. QED
  BY <1>6, <1>7, <1>8 DEF NoneLeft

LEMMA WithoutTableOK ==
  ASSUME IInv, NEW t \in Tasks, WithoutTable(t)
  PROVE  CallsOK' /\ Lengths'
<1> DEFINE a == at[t]
<1>0. /\ TypeOK /\ Lengths /\ CallsOK /\ CallOK(t) /\ Runs(t) /\ Walking(t)
      /\ pc[t] = "see" /\ a.level >= Pgd
  BY WalkingCall DEF IInv, WithoutTable
<1>1. PICK dst \in Tasks : dst = a.dst
  BY <1>0, CallType
<1>2. /\ RestOK(t) /\ LengthOK(t) /\ LengthOK(dst)
      /\ a.job \in {"none", "load", "fault", "fork"} /\ a.job # "none"
  BY <1>0, CallType DEF Lengths, CallOK
<1>3. UNCHANGED <<mem_map, task>>
  BY DEF WithoutTable
<1>4. CASE UNCHANGED <<user_pages, ind, pc, at>>
  BY <1>0, <1>3, <1>4, NeedTableOK
<1>5. CASE Recorded(t) /\ \E where, child \in {"user", "hung", "astray"} :
             /\ Finish(t, where, child)
             /\ a.job # "fork" => where = child /\ where # "user"
             /\ child # "user"
  <2>0. PICK where \in {"user", "hung", "astray"}, child \in {"user", "hung", "astray"} :
          /\ Finish(t, where, child)
          /\ a.job # "fork" => where = child /\ where # "user"
          /\ child # "user"
    BY <1>5
  <2>1. PICK va \in UserPages : va = Head(a.rest)
    BY <1>0, CallType DEF CallOK
  <2>2. /\ user_pages' = [user_pages EXCEPT ![dst] = Append(user_pages[dst], va)]
        /\ ind' = IF a.job = "fault" THEN ind + 1 ELSE ind
    BY <1>1, <1>5, <2>1 DEF Recorded
  <2>3. /\ ind \in Nat /\ user_pages \in [Tasks -> Seq(UserPages)]
        /\ user_pages[t] \in Seq(UserPages) /\ user_pages[dst] \in Seq(UserPages)
    BY <1>0 DEF TypeOK
  <2>4. /\ user_pages'[dst] = Append(user_pages[dst], va)
        /\ \A u \in Tasks : u # dst => user_pages'[u] = user_pages[u]
    BY <2>2, <2>3
  <2>5. PICK m, n, l \in Nat : /\ m = Len(user_pages[dst]) /\ n = Len(user_pages[t])
                             /\ l = Len(a.rest) /\ l >= 1
    <3>1. a.rest \in Seq(UserPages) /\ a.rest # <<>>
      BY <1>0, CallType DEF CallOK
    <3>2. Len(a.rest) \in Nat /\ Len(a.rest) >= 1
      BY <3>1
    <3>3. QED
      BY <2>3, <3>2
  <2>6. Len(user_pages'[dst]) = m + 1
    BY <2>3, <2>4, <2>5
  <2>7. ind' \in Nat /\ ind' >= ind
    BY <2>2, <2>3
  <2>8. n <= 2
    BY <1>0, <1>2, <2>5 DEF LengthOK, Live, Walking
  <2>9. CASE a.job = "fork"
    <3>1. dst # t /\ m + l = n /\ (a.level = TaskStruct <=> task[dst] = 0)
      BY <1>1, <1>2, <2>5, <2>9 DEF RestOK
    <3>2. task[dst] # 0
      BY <1>0, <3>1 DEF Pgd, TaskStruct
    <3>3. m + 1 <= 3 /\ n # 0
      <4>1. m + l = n /\ l >= 1
        BY <2>5, <3>1
      <4>2. QED
        BY <2>8, <4>1
    <3>4. user_pages[t] # <<>>
      <4>1. Len(<<>>) = 0
        OBVIOUS
      <4>2. QED
        BY <2>5, <3>3, <4>1
    <3>5. Len(user_pages'[dst]) <= 3
      BY <2>6, <3>3
    <3>6. QED
      BY <1>0, <1>1, <1>3, <2>0, <2>4, <2>7, <3>1, <3>2, <3>4, <3>5, FinishOK
  <2>10. CASE a.job # "fork"
    <3>1. dst = t /\ task[dst] # 0
      BY <1>0, <1>1, <1>2, <2>10 DEF RestOK, LengthOK, Walking
    <3>2. m + 1 <= 3
      BY <2>5, <2>8, <3>1
    <3>3. Len(user_pages'[dst]) <= 3
      BY <2>6, <3>2
    <3>4. QED
      BY <1>0, <1>1, <1>3, <2>0, <2>4, <2>7, <2>10, <3>1, <3>3, FinishOK
  <2>11. QED
    BY <2>9, <2>10
<1>6. QED
  BY <1>4, <1>5 DEF WithoutTable

\* Steps outside of a call: a write, and the end of a task.
LEMMA OutsideOK ==
  ASSUME IInv, NEW t \in Tasks, Runs(t), pc[t] \in {"user", "failed"},
         UNCHANGED <<mem_map, user_pages, ind, task, at>>,
         pc' = pc \/ pc' = [pc EXCEPT ![t] = "zombie"]
  PROVE  CallsOK' /\ Lengths'
<1>0. TypeOK /\ Lengths /\ CallsOK /\ Live(t) /\ ~Walking(t)
  BY DEF IInv, Live, Walking
<1>1. /\ \A u \in Tasks : u # t => pc'[u] = pc[u]
      /\ pc'[t] = pc[t] \/ pc'[t] = "zombie"
  BY <1>0 DEF TypeOK
<1>2. ~Walking(t)' /\ at'[t] = Idle /\ \A u \in Tasks : pc'[u] = "user" => user_pages'[u] # <<>>
  BY <1>0, <1>1 DEF Walking, CallsOK
<1>3. CallsOK'
  BY <1>0, <1>1, <1>2, KeepsCalls
<1>4. LengthOK(t)'
  BY <1>0, <1>1 DEF Lengths, LengthOK, Live
<1>5. ind \in Nat /\ ind' \in Nat /\ ind' >= ind
  BY <1>0 DEF TypeOK
<1>6. Lengths'
  BY <1>0, <1>1, <1>2, <1>4, <1>5, KeepsLengths
<1>7. QED
  BY <1>3, <1>6

LEMMA NextCalls ==
  ASSUME IInv, Next
  PROVE  CallsOK' /\ Lengths'
<1>0. TypeOK /\ Lengths /\ CallsOK /\ root \in Tasks
  BY MemoryAssumption DEF IInv
<1>1. CASE MoveToUserMode
  <2>1. <<0>> \in Seq(UserPages) /\ <<0>> # <<>> /\ Len(<<0>>) = 1
    BY MemoryAssumption
  <2>2. user_pages[root] = <<>>
    BY <1>0, <1>1 DEF MoveToUserMode, Lengths, LengthOK
  <2>3. UserPage \in {TaskStruct, UserPage} /\ UserPage # TaskStruct
    BY DEF UserPage, TaskStruct
  <2>4. Runs(root) /\ pc[root] = "kernel" /\ Begin(root, "load", root, <<0>>, UserPage)
    BY <1>1 DEF MoveToUserMode
  <2>5. QED
    BY <1>0, <2>1, <2>2, <2>3, <2>4, BeginOK
<1>2. CASE \E t \in Tasks, va \in UserPages : Fault(t, va)
  <2>1. PICK t \in Tasks, va \in UserPages : Fault(t, va)
    BY <1>2
  <2>2. <<va>> \in Seq(UserPages) /\ <<va>> # <<>> /\ Len(<<va>>) = 1
    OBVIOUS
  <2>3. UserPage \in {TaskStruct, UserPage} /\ UserPage # TaskStruct
    BY DEF UserPage, TaskStruct
  <2>4. Runs(t) /\ pc[t] = "user" /\ Begin(t, "fault", t, <<va>>, UserPage)
    BY <2>1 DEF Fault
  <2>5. QED
    BY <1>0, <2>2, <2>3, <2>4, BeginOK
<1>3. CASE \E t, child \in Tasks : Fork(t, child)
  <2>1. PICK t \in Tasks, child \in Tasks : Fork(t, child)
    BY <1>3
  <2>2. /\ Runs(t) /\ pc[t] = "user" /\ task[child] = 0
        /\ Begin(t, "fork", child, user_pages[t], TaskStruct)
    BY <2>1 DEF Fork
  <2>3. user_pages[t] \in Seq(UserPages) /\ user_pages[t] # <<>>
    BY <1>0, <2>2 DEF TypeOK, CallsOK
  <2>4. PICK pages \in Seq(UserPages) : pages = user_pages[t]
    BY <2>3
  <2>5. TaskStruct \in {TaskStruct, UserPage} /\ Len(pages) = Len(user_pages[t])
    BY <2>4
  <2>6. Begin(t, "fork", child, pages, TaskStruct) /\ pages # <<>>
    BY <2>2, <2>3, <2>4
  <2>7. QED
    BY <2>2, <2>5, <2>6, BeginOK
<1>4. CASE \E t \in Tasks, va \in UserPages, value \in Words : Write(t, va, value)
  <2>1. PICK t \in Tasks, va \in UserPages, value \in Words : Write(t, va, value)
    BY <1>4
  <2>2. /\ Runs(t) /\ pc[t] = "user" /\ pc' = pc
        /\ UNCHANGED <<mem_map, user_pages, ind, task, at>>
    BY <2>1 DEF Write
  <2>3. QED
    BY <2>2, OutsideOK
<1>5. CASE \E t \in Tasks : Exit(t)
  <2>1. PICK t \in Tasks : Exit(t)
    BY <1>5
  <2>2. /\ Runs(t) /\ pc[t] \in {"user", "failed"} /\ pc' = [pc EXCEPT ![t] = "zombie"]
        /\ UNCHANGED <<mem_map, user_pages, ind, task, at>>
    BY <2>1 DEF Exit
  <2>3. QED
    BY <2>2, OutsideOK
<1>6. CASE \E t \in Tasks : NeedTable(t)
  <2>1. PICK t \in Tasks : NeedTable(t)
    BY <1>6
  <2>2. /\ Runs(t) /\ Walking(t) /\ UNCHANGED <<mem_map, user_pages, task, ind, at>>
        /\ pc[t] = "walk" /\ at[t].level < Leaf /\ pc' = [pc EXCEPT ![t] = "see"]
    BY <2>1 DEF NeedTable, Walking
  <2>3. QED
    BY <2>2, NeedTableOK
<1>7. QED
  BY NextCases, <1>1, <1>2, <1>3, <1>4, <1>5, <1>6,
     SeeOK, MarkOK, DescendOK, EnterOK, NoneLeftOK, WithoutTableOK

-----------------------------------------------------------------------------
\* Page 0 is taken for a table when no page is left, by the one call there is;
\* the calls after it get no page.
LEMMA NextOnce ==
  ASSUME IInv, Next
  PROVE  OnceOnly'
<1>0. OnceOnly /\ TypeOK /\ Undisturbed /\ at \in [Tasks -> Calls]
  BY DEF IInv, TypeOK, Calls
<1>1. ASSUME UNCHANGED <<mem_map, page0>>,
             \A u \in Tasks : Walking(u)' =>
               \/ Walking(u) /\ pc'[u] = pc[u] /\ at'[u] = at[u]
               \/ pc'[u] = "see" /\ at'[u].level <= UserPage
      PROVE  OnceOnly'
  BY <1>0, <1>1 DEF OnceOnly, Unmarked
<1>2. ASSUME page0 = 0, page0' = page0
      PROVE  OnceOnly'
  BY <1>2 DEF OnceOnly
<1>3. ASSUME NEW t \in Tasks, NEW job, NEW dst, NEW rest,
             NEW level \in {TaskStruct, UserPage}, Begin(t, job, dst, rest, level)
      PROVE  OnceOnly'
  <2> DEFINE call == [Idle EXCEPT !.job = job, !.dst = dst, !.rest = rest, !.level = level]
  <2>1. /\ pc' = [pc EXCEPT ![t] = "see"] /\ at' = [at EXCEPT ![t] = call]
        /\ UNCHANGED <<mem_map, page0>>
    BY <1>3 DEF Begin
  <2>2. call.level <= UserPage
    BY DEF Idle, TaskStruct, UserPage
  <2>3. /\ pc'[t] = "see" /\ at'[t].level <= UserPage
        /\ \A u \in Tasks : u # t => at'[u] = at[u] /\ pc'[u] = pc[u]
    BY <1>0, <2>1, <2>2 DEF TypeOK
  <2>4. QED
    BY <1>1, <2>1, <2>3 DEF Walking
<1>4. ASSUME NEW t \in Tasks, at' = [at EXCEPT ![t] = Idle] \/ at' = at,
             UNCHANGED <<mem_map, page0>>, pc'[t] \notin {"see", "mark", "walk"},
             \A u \in Tasks : pc'[u] = pc[u] \/ pc'[u] \notin {"see", "mark", "walk"}
      PROVE  OnceOnly'
  BY <1>0, <1>1, <1>4 DEF Walking
<1>5. CASE MoveToUserMode \/ \E t \in Tasks :
             \/ \E va \in UserPages : Fault(t, va)
             \/ \E child \in Tasks : Fork(t, child)
  <2>1. UserPage \in {TaskStruct, UserPage} /\ TaskStruct \in {TaskStruct, UserPage}
    OBVIOUS
  <2>2. CASE MoveToUserMode
    <3>1. Begin(root, "load", root, <<0>>, UserPage) /\ root \in Tasks
      BY <2>2, MemoryAssumption DEF MoveToUserMode
    <3>2. QED
      BY <1>3, <2>1, <3>1
  <2>3. CASE \E t \in Tasks, va \in UserPages : Fault(t, va)
    <3>1. PICK t \in Tasks, va \in UserPages : Begin(t, "fault", t, <<va>>, UserPage)
      BY <2>3 DEF Fault
    <3>2. QED
      BY <1>3, <2>1, <3>1
  <2>4. CASE \E t \in Tasks, child \in Tasks : Fork(t, child)
    <3>1. PICK t \in Tasks, child \in Tasks :
            Begin(t, "fork", child, user_pages[t], TaskStruct)
      BY <2>4 DEF Fork
    <3>2. QED
      BY <1>3, <2>1, <3>1
  <2>5. QED
    BY <1>5, <2>2, <2>3, <2>4
<1>6. CASE \E t \in Tasks, va \in UserPages, value \in Words : Write(t, va, value)
  BY <1>1, <1>6 DEF Write, Walking
<1>7. CASE \E t \in Tasks : Exit(t)
  <2>1. PICK t \in Tasks : Exit(t)
    BY <1>7
  <2>2. /\ pc' = [pc EXCEPT ![t] = "zombie"] /\ UNCHANGED <<mem_map, page0, at>>
    BY <2>1 DEF Exit
  <2>3. pc'[t] = "zombie" /\ \A u \in Tasks : u # t => pc'[u] = pc[u]
    BY <1>0, <2>2 DEF TypeOK
  <2>4. QED
    BY <1>4, <2>2, <2>3
<1>8. CASE \E t \in Tasks : See(t) \/ Mark(t) \/ Descend(t) \/ NeedTable(t) \/ Enter(t)
  <2>1. PICK t \in Tasks : See(t) \/ Mark(t) \/ Descend(t) \/ NeedTable(t) \/ Enter(t)
    BY <1>8
  <2>2. Walking(t) /\ (pc[t] = "see" => Unmarked # {}) /\ page0' = page0
    BY <2>1 DEF See, Mark, Descend, NeedTable, Enter, Walking
  <2>3. QED
    BY <1>0, <1>2, <2>2 DEF OnceOnly
<1>9. ASSUME NEW t \in Tasks, NEW where, NEW child,
             {where, child} \subseteq {"user", "hung", "astray"}, Finish(t, where, child)
      PROVE  /\ at' = [at EXCEPT ![t] = Idle]
             /\ pc'[t] \notin {"see", "mark", "walk"}
             /\ \A u \in Tasks : pc'[u] = pc[u] \/ pc'[u] \notin {"see", "mark", "walk"}
  BY <1>0, <1>9 DEF Finish, TypeOK
<1>10. CASE \E t \in Tasks : NoneLeft(t)
  <2>1. PICK t \in Tasks : NoneLeft(t)
    BY <1>10
  <2>2. UNCHANGED <<mem_map, page0>>
    BY <2>1 DEF NoneLeft
  <2>3. CASE pc' = [pc EXCEPT ![t] = "failed"] /\ at' = [at EXCEPT ![t] = Idle]
    BY <1>0, <1>4, <2>2, <2>3 DEF TypeOK
  <2>4. CASE \E where, child \in {"user", "hung", "astray"} : Finish(t, where, child)
    BY <1>4, <1>9, <2>2, <2>4
  <2>5. QED
    BY <2>1, <2>3, <2>4 DEF NoneLeft
<1>11. CASE \E t \in Tasks : WithoutTable(t)
  <2>1. PICK t \in Tasks : WithoutTable(t)
    BY <1>11
  <2>2. Runs(t) /\ Live(t) /\ Unmarked = {} /\ mem_map' = mem_map
    BY <2>1 DEF WithoutTable, Live
  <2>3. CASE UNCHANGED <<pc, at, page0>>
    BY <1>1, <2>2, <2>3 DEF Walking
  <2>4. CASE \E where, child \in {"user", "hung", "astray"} : Finish(t, where, child)
    <3>1. \A u \in Tasks : ~Walking(u)'
      BY <1>0, <1>9, <2>2, <2>4, OthersOut DEF Walking
    <3>2. QED
      BY <2>2, <3>1 DEF OnceOnly, Unmarked
  <2>5. QED
    BY <2>1, <2>3, <2>4 DEF WithoutTable
<1>12. QED
  BY NextCases, <1>5, <1>6, <1>7, <1>8, <1>10, <1>11

-----------------------------------------------------------------------------
LEMMA InitIInv == Init => IInv
<1> SUFFICES ASSUME Init PROVE IInv
  OBVIOUS
<1>1. TypeOK
  BY InitType
<1>2. PICK size \in Pages : mem_map = [p \in 1 .. size |-> IF p = 1 THEN 1 ELSE 0]
  BY DEF Init
<1>3. /\ size \in Nat /\ size >= 1 /\ DOMAIN mem_map = 1 .. size
      /\ size <= PAGING_PAGES /\ PAGING_PAGES \in Nat
      /\ \A p \in DOMAIN mem_map : mem_map[p] = 1 <=> p = 1
  BY <1>2, MemoryAssumption DEF Pages
<1>4. Len(mem_map) = size
  BY <1>1, <1>3, MapType
<1>5. /\ \A t \in Tasks : task[t] = IF t = root THEN 1 ELSE 0
      /\ \A t \in Tasks : pgd[t] = 0 /\ at[t] = Idle /\ at[t].user = 0
      /\ \A t \in Tasks : user_pages[t] = <<>>
      /\ \A t \in Tasks : pc[t] = IF t = root THEN "kernel" ELSE "none"
      /\ ind = 1
  BY DEF Init, NoEntry, Idle
<1>6. \A p \in Pages, i \in 0 .. PTRS_PER_TABLE - 1 :
        table[p][i] = IF p = 1 THEN 0 ELSE Junk
  BY DEF Init, NoEntry
<1>7. Cleared
  <2>1. 1 \in Pages /\ 0 \in 0 .. size
    BY <1>3 DEF Pages
  <2>2. QED
    BY <1>3, <1>4, <1>6, <2>1 DEF Cleared
<1>8. PagesOwned
  <2>1. Junk \notin DOMAIN mem_map /\ 0 \notin DOMAIN mem_map /\ mem_map[1] = 1
    BY <1>3 DEF Junk
  <2>2. \A s \in Slots : Held(s) \in DOMAIN mem_map =>
          s = <<"task_struct", root>> /\ Held(s) = 1
    <3>1. SUFFICES ASSUME NEW s \in Slots, Held(s) \in DOMAIN mem_map
                   PROVE  s = <<"task_struct", root>> /\ Held(s) = 1
      OBVIOUS
    <3>2. page0 = 0
      BY DEF Init
    <3>3. CASE \/ \E t \in Tasks : s = <<"pgd", t>> /\ Held(s) = pgd[t]
               \/ \E t \in Tasks : s = <<"new", t>> /\ Held(s) = at[t].user
               \/ \E p \in Pages, i \in 0 .. PTRS_PER_TABLE - 1 : Held(s) = table[p][i]
               \/ Held(s) = page0
      BY <1>5, <1>6, <2>1, <3>1, <3>2, <3>3
    <3>4. CASE \E t \in Tasks : s = <<"task_struct", t>> /\ Held(s) = task[t]
      BY <1>5, <2>1, <3>1, <3>4
    <3>5. QED
      BY <3>3, <3>4, SlotKinds, Zenon
  <2>3. QED
    BY <2>1, <2>2 DEF PagesOwned
<1>9. Undisturbed
  BY <1>5, MemoryAssumption DEF Undisturbed, Walking, Alone, Live
<1>10. CallsOK
  BY <1>5 DEF CallsOK, Walking
<1>11. Lengths
  <2>1. \A t \in Tasks : LengthOK(t)
    <3>1. Len(<<>>) = 0
      OBVIOUS
    <3>2. QED
      BY <1>5, <3>1 DEF LengthOK
  <2>2. \A t \in Tasks : ~Walking(t)
    BY <1>5 DEF Walking
  <2>3. QED
    BY <1>5, <2>1, <2>2 DEF Lengths
<1>12. OnceOnly
  BY DEF Init, OnceOnly
<1>13. QED
  BY <1>1, <1>7, <1>8, <1>9, <1>10, <1>11, <1>12 DEF IInv

LEMMA StutterIInv ==
  ASSUME IInv, UNCHANGED vars
  PROVE  IInv'
<1> USE DEF IInv
<1>1. TypeOK'
  BY DEF vars, TypeOK
<1>2. Cleared' /\ PagesOwned'
  BY DEF vars, Cleared, PagesOwned, Slots, Held
<1>3. Undisturbed'
  BY DEF vars, Undisturbed, Walking, Alone, Live
<1>4. CallsOK'
  BY DEF vars, CallsOK, CallOK, Walking
<1>5. Lengths'
  BY DEF vars, Lengths, LengthOK, RestOK, Walking, Live
<1>6. OnceOnly'
  BY DEF vars, OnceOnly, Unmarked, Walking
<1>7. QED
  BY <1>1, <1>2, <1>3, <1>4, <1>5, <1>6

-----------------------------------------------------------------------------
\* IInv is an inductive invariant of the memory system of p1_6: get_free_page,
\* map_page, do_mem_abort and copy_virt_memory keep it, for any constants.
THEOREM Invariant == Spec => []IInv
<1>1. Init => IInv
  BY InitIInv
<1>2. IInv /\ [Next]_vars => IInv'
  BY NextType, NextCleared, NextOwned, NextUndisturbed, NextCalls, NextOnce,
     StutterIInv DEF IInv
<1>3. QED
  BY <1>1, <1>2, PTL DEF Spec

\* The state of p1_6's memory keeps its types.
THEOREM TypeCorrect == Spec => []TypeOK
  BY Invariant, PTL DEF IInv

\* No page has two holders, whenever a timer interrupt comes: the test and the
\* mark of get_free_page never let two calls have the same page.
THEOREM Ownership == Spec => []PagesOwned
  BY Invariant, PTL DEF IInv

\* map_page never writes past the end of mm.user_pages, whatever the memory
\* and however many tasks, if it has room for three pages; it has sixteen.
THEOREM UserPagesInBounds ==
  ASSUME MAX_PROCESS_PAGES >= 3
  PROVE  Spec => []UserPagesFit
<1>1. IInv => UserPagesFit
  <2>1. IInv => \A t \in Tasks : Len(user_pages[t]) <= 3 /\ Len(user_pages[t]) \in Nat
    BY DEF IInv, Lengths, LengthOK, TypeOK
  <2>2. QED
    BY <2>1, MemoryAssumption DEF UserPagesFit
<1>2. QED
  BY <1>1, Invariant, PTL

-----------------------------------------------------------------------------
\* Where the walk for va through the tables of u gets to: the table that it
\* indexes at a level, and below Leaf the page of va.
Reached(u, va, level) ==
  IF level = Pud          THEN pgd[u]
  ELSE IF level = Pud + 1 THEN Below(pgd[u], va, Pud)
  ELSE IF level = Pte     THEN Below(Below(pgd[u], va, Pud), va, Pud + 1)
  ELSE IF level = Leaf    THEN Below(Below(Below(pgd[u], va, Pud), va, Pud + 1), va, Pte)
  ELSE Translated(u, va)

HasPage(u, va) == \E i \in DOMAIN user_pages[u] : user_pages[u][i] = va

\* What a task that hangs or is astray sees is not followed.
Followed(u) == pc[u] \notin {"hung", "astray"}

\* The tables map pages in user_pages only, which has each once, and all of
\* them unless one has been entered in page 0.
Maps ==
  \A u \in Tasks :
    /\ \A i, j \in DOMAIN user_pages[u] : user_pages[u][i] = user_pages[u][j] => i = j
    /\ \A va \in UserPages :
         /\ Translated(u, va) # NoEntry => HasPage(u, va)
         /\ Followed(u) /\ HasPage(u, va) => Translated(u, va) # NoEntry

\* A call is where the walk for its page is, and needs a table where there is
\* none; its user page is clear.
WalkOK(t) ==
  LET a == at[t]  va == Head(at[t].rest)
  IN  /\ ~HasPage(a.dst, va)
      /\ a.level \in Pud .. Leaf => a.table = Reached(a.dst, va, a.level)
      /\ pc[t] # "walk" /\ a.level >= Pgd => Reached(a.dst, va, a.level + 1) = NoEntry
      /\ IF a.level >= Pgd THEN a.user # 0 /\ data[a.user] = Zero ELSE a.user = 0

\* A fork has copied the pages that the child has, and the others are left.
CopyOK(t) ==
  at[t].job = "fork" =>
    /\ user_pages[t] = user_pages[at[t].dst] \o at[t].rest
    /\ \A va \in UserPages : HasPage(at[t].dst, va) => Content(at[t].dst, va) = Content(t, va)

Walks == \A t \in Tasks : Walking(t) => WalkOK(t) /\ CopyOK(t)

\* What is in memory is never what stands for a page not there.
Filled == \A p \in Pages : data[p] # NoPage

\* A page that is not marked has never been used.
Fresh ==
  \A p \in DOMAIN mem_map : mem_map[p] = 0 =>
    \A i \in 0 .. PTRS_PER_TABLE - 1 : table[p][i] = Junk

SInv == Maps /\ Walks /\ Filled /\ Fresh /\ NoPageLost

-----------------------------------------------------------------------------
\* Division, for the indices of the four levels.
LEMMA SmallMultiple ==
  ASSUME NEW d \in Nat \ {0}, NEW e \in Int, d * e < d, -d < d * e
  PROVE  e = 0
<1>1. CASE e >= 1
  <2>1. d * e >= d
    BY <1>1
  <2> QED
    BY <2>1
<1>2. CASE e <= -1
  <2>1. d * e <= -d
    BY <1>2
  <2> QED
    BY <2>1
<1> QED
  BY <1>1, <1>2

LEMMA Quotient ==
  ASSUME NEW d \in Nat \ {0}, NEW q \in Int, NEW r \in 0 .. d - 1,
         NEW a \in Int, a = d * q + r
  PROVE  a \div d = q
<1>1. PICK p \in Int, s \in 0 .. d - 1 : a = d * p + s /\ p = a \div d
  OBVIOUS
<1>2. q - p \in Int /\ d * (q - p) = s - r
  BY <1>1
<1>3. d * (q - p) < d /\ -d < d * (q - p)
  BY <1>2
<1>4. q - p = 0
  BY <1>2, <1>3, SmallMultiple
<1> QED
  BY <1>1, <1>4

LEMMA Twice ==
  ASSUME NEW a \in Nat, NEW b \in Nat \ {0}, NEW c \in Nat \ {0}
  PROVE  a \div (b * c) = (a \div b) \div c
<1>1. PICK q \in Int, r \in 0 .. b - 1 : a = b * q + r /\ q = a \div b
  OBVIOUS
<1>2. PICK s \in Int, w \in 0 .. c - 1 : q = c * s + w /\ s = q \div c
  OBVIOUS
<1>3. b * c \in Nat \ {0}
  BY Z3
<1>4. a = (b * c) * s + (b * w + r)
  <2>1. b * (c * s + w) = (b * c) * s + b * w
    OBVIOUS
  <2>2. b * q = (b * c) * s + b * w
    BY <1>2, <2>1
  <2>3. b * q \in Int /\ (b * c) * s \in Int /\ b * w \in Int
    OBVIOUS
  <2>4. \A x, y, z \in Int : x = y + z => x + r = y + (z + r)
    OBVIOUS
  <2> QED
    BY <1>1, <2>2, <2>3, <2>4
<1>5. b * w + r \in 0 .. b * c - 1
  <2>1. b * (w + 1) <= b * c /\ b * w >= 0
    OBVIOUS
  <2>2. b * (w + 1) = b * w + b
    OBVIOUS
  <2> QED
    BY <1>3, <2>1, <2>2
<1>6. a \div (b * c) = s
  BY <1>3, <1>4, <1>5, Quotient
<1> QED
  BY <1>1, <1>2, <1>6

LEMMA DivMod ==
  ASSUME NEW d \in Nat \ {0}, NEW n \in Nat
  PROVE  /\ n \div d \in Nat /\ n % d \in 0 .. d - 1
         /\ \E q \in Nat, r \in 0 .. d - 1 :
              n = d * q + r /\ q = n \div d /\ r = n % d
<1>1. /\ n \div d \in Int /\ n % d \in 0 .. d - 1
      /\ n = (d * (n \div d)) + (n % d)
  OBVIOUS
<1>2. n \div d >= 0
  OBVIOUS
<1> QED
  BY <1>1, <1>2

LEMMA SameDigit ==
  ASSUME NEW P \in Nat \ {0}, NEW m \in Nat, NEW n \in Nat,
         m \div P = n \div P, m % P = n % P
  PROVE  m = n
<1>1. m = (P * (m \div P)) + (m % P) /\ n = (P * (n \div P)) + (n % P)
  BY DivMod
<1> QED
  BY <1>1

\* Two numbers below P * P * P * P with the same four digits are the same.
LEMMA Digits ==
  ASSUME NEW P \in Nat \ {0}, NEW a \in Nat, NEW b \in Nat,
         a < P * P * P * P, b < P * P * P * P,
         a % P = b % P, (a \div P) % P = (b \div P) % P,
         (a \div (P * P)) % P = (b \div (P * P)) % P,
         (a \div (P * P * P)) % P = (b \div (P * P * P)) % P
  PROVE  a = b
<1>1. P * P \in Nat \ {0} /\ P * P * P \in Nat \ {0}
  BY Z3
<1>2. ASSUME NEW n \in Nat
      PROVE  n \div P \in Nat
  BY DivMod
<1>3. ASSUME NEW n \in Nat
      PROVE  /\ n \div (P * P) = (n \div P) \div P
             /\ n \div (P * P * P) = (n \div (P * P)) \div P
  BY <1>1, Twice
<1>4. ASSUME NEW n \in Nat, n < P * P * P * P
      PROVE  n \div (P * P * P) \in 0 .. P - 1
  <2>1. PICK q \in Nat, r \in 0 .. P * P * P - 1 :
               n = (P * P * P) * q + r /\ q = n \div (P * P * P)
    BY <1>1, DivMod
  <2>2. CASE q >= P
    <3>1. (P * P * P) * q >= (P * P * P) * P
      BY <1>1, <2>2
    <3> QED
      BY <1>1, <1>4, <2>1, <3>1
  <2> QED
    BY <2>1, <2>2
<1>5. a \div (P * P * P) = b \div (P * P * P)
  <2>1. \A n \in 0 .. P - 1 : n % P = n
    OBVIOUS
  <2> QED
    BY <1>4, <2>1
<1>6. a \div (P * P) = b \div (P * P)
  <2>1. a \div (P * P) \in Nat /\ b \div (P * P) \in Nat
    BY <1>1, DivMod
  <2>2. (a \div (P * P)) \div P = (b \div (P * P)) \div P
    BY <1>3, <1>5
  <2> QED
    BY <2>1, <2>2, SameDigit
<1>7. a \div P = b \div P
  <2>1. (a \div P) \div P = (b \div P) \div P
    BY <1>3, <1>6
  <2> QED
    BY <1>2, <2>1, SameDigit
<1> QED
  BY <1>7, SameDigit

\* The four indices of a page tell it from every other.
LEMMA SameIndices ==
  ASSUME NEW va \in UserPages, NEW vb \in UserPages,
         \A level \in 3 .. 6 : Index(va, level) = Index(vb, level)
  PROVE  va = vb
<1> DEFINE P == PTRS_PER_TABLE
<1>1. /\ P \in Nat \ {0} /\ va \in Nat /\ vb \in Nat
      /\ va < P * P * P * P /\ vb < P * P * P * P
  BY MemoryAssumption
<1>2. \A n \in Nat : n \div 1 = n
  OBVIOUS
<1>3. /\ va % P = vb % P
      /\ (va \div P) % P = (vb \div P) % P
      /\ (va \div (P * P)) % P = (vb \div (P * P)) % P
      /\ (va \div (P * P * P)) % P = (vb \div (P * P * P)) % P
  <2>1. \A level \in 3 .. 6 :
          (va \div Span(level)) % P = (vb \div Span(level)) % P
    BY DEF Index
  <2>2. Span(6) = 1 /\ Span(5) = P /\ Span(4) = P * P /\ Span(3) = P * P * P
    BY DEF Span, Leaf, Pte, Pud
  <2> QED
    BY <1>1, <1>2, <2>1, <2>2
<1> HIDE DEF P
<1> QED
  BY <1>1, <1>3, Digits

-----------------------------------------------------------------------------
\* The walk goes down one level at a time.
LEMMA ReachedStep ==
  ASSUME NEW u, NEW va, NEW level \in 3 .. 6
  PROVE  /\ Reached(u, va, level + 1) = Below(Reached(u, va, level), va, level)
         /\ Reached(u, va, level + 1)' = Below(Reached(u, va, level), va, level)'
<1>1. level \in {3, 4, 5, 6}
  OBVIOUS
<1> QED
  BY <1>1 DEF Reached, Translated, Pud, Pte, Leaf

LEMMA ReachedEnds ==
  ASSUME NEW u, NEW va
  PROVE  /\ Reached(u, va, 3) = pgd[u] /\ Reached(u, va, 3)' = pgd'[u]
         /\ Reached(u, va, 7) = Translated(u, va)
         /\ Reached(u, va, 7)' = Translated(u, va)'
  BY DEF Reached, Pud, Pte, Leaf

\* A property of level 3 that the next level inherits is one of all levels.
LEMMA AllLevels ==
  ASSUME NEW S, 3 \in S, \A level \in 3 .. 6 : level \in S => level + 1 \in S
  PROVE  3 .. 7 \subseteq S
<1>1. 4 \in S
  BY 3 + 1 = 4
<1>2. 5 \in S
  BY <1>1, 4 + 1 = 5
<1>3. 6 \in S
  BY <1>2, 5 + 1 = 6
<1>4. 7 \in S
  BY <1>3, 6 + 1 = 7
<1>5. 3 .. 7 = {3, 4, 5, 6, 7}
  OBVIOUS
<1> QED
  BY <1>1, <1>2, <1>3, <1>4, <1>5

\* The step of a walk: from a table to the entry that holds what it leads to.
LEMMA StepEntry ==
  ASSUME TypeOK, NEW u \in Tasks, NEW va \in UserPages, NEW level \in 3 .. 6,
         Reached(u, va, level + 1) # 0
  PROVE  /\ Reached(u, va, level) \in Pages
         /\ Index(va, level) \in 0 .. PTRS_PER_TABLE - 1
         /\ Reached(u, va, level + 1) = table[Reached(u, va, level)][Index(va, level)]
         /\ <<"entry", Reached(u, va, level), Index(va, level)>> \in Slots
         /\ Held(<<"entry", Reached(u, va, level), Index(va, level)>>)
               = Reached(u, va, level + 1)
<1>1. Index(va, level) \in 0 .. PTRS_PER_TABLE - 1
  BY IndexType
<1>2. /\ Reached(u, va, level) \in Pages
      /\ Reached(u, va, level + 1) = table[Reached(u, va, level)][Index(va, level)]
  BY ReachedStep DEF Below, NoEntry
<1> QED
  BY <1>1, <1>2 DEF Slots, Held

\* A walk meets pages that are marked, or ends with an empty word.
LEMMA ReachedMarked ==
  ASSUME TypeOK, Cleared, PagesOwned,
         NEW u \in Tasks, NEW va \in UserPages, NEW level \in 3 .. 7
  PROVE  /\ Reached(u, va, level) \in 0 .. Len(mem_map)
         /\ Reached(u, va, level) # 0 =>
              /\ Reached(u, va, level) \in DOMAIN mem_map
              /\ Reached(u, va, level) \in Pages
              /\ mem_map[Reached(u, va, level)] = 1
<1> DEFINE Good(n) == n # 0 => n \in DOMAIN mem_map /\ mem_map[n] = 1
           S == {n \in 3 .. 7 : Reached(u, va, n) \in 0 .. Len(mem_map)
                                 /\ Good(Reached(u, va, n))}
<1>1. DOMAIN mem_map = 1 .. Len(mem_map) /\ Len(mem_map) \in Nat /\ DOMAIN mem_map \subseteq Pages
  BY MapType
<1>2. 3 \in S
  <2>1. pgd[u] \in 0 .. Len(mem_map)
    BY DEF TypeOK
  <2>2. <<"pgd", u>> \in Slots /\ Held(<<"pgd", u>>) = pgd[u]
    BY DEF Slots, Held
  <2>3. Good(pgd[u])
    BY <1>1, <2>1, <2>2 DEF PagesOwned
  <2> QED
    BY <2>1, <2>3, ReachedEnds
<1>3. ASSUME NEW n \in 3 .. 6, n \in S
      PROVE  n + 1 \in S
  <2>1. CASE Reached(u, va, n + 1) = 0
    BY <1>1, <2>1
  <2>2. CASE Reached(u, va, n + 1) # 0
    <3> DEFINE q == Reached(u, va, n)
               i == Index(va, n)
    <3>1. /\ q \in Pages /\ i \in 0 .. PTRS_PER_TABLE - 1
          /\ Reached(u, va, n + 1) = table[q][i]
          /\ <<"entry", q, i>> \in Slots /\ Held(<<"entry", q, i>>) = Reached(u, va, n + 1)
      BY <2>2, StepEntry
    <3>2. q # 0
      BY <3>1 DEF Pages
    <3>3. q \in DOMAIN mem_map /\ mem_map[q] = 1
      BY <1>3, <3>2
    <3>4. Reached(u, va, n + 1) \in 0 .. Len(mem_map)
      BY <3>1, <3>3 DEF Cleared
    <3>5. Reached(u, va, n + 1) \in DOMAIN mem_map
      BY <1>1, <2>2, <3>4
    <3>6. mem_map[Reached(u, va, n + 1)] = 1
      BY <3>1, <3>5 DEF PagesOwned
    <3> QED
      BY <3>4, <3>5, <3>6
  <2> QED
    BY <2>1, <2>2
<1> HIDE DEF S
<1>4. level \in S
  BY <1>2, <1>3, AllLevels
<1> QED
  BY <1>1, <1>4 DEF S

\* Two walks that meet in a page are walks of one task, have come equally far
\* and the same way.
Same(u, va, n, v, vb, m) ==
  /\ n = m /\ u = v
  /\ \A level \in 3 .. 6 : level < n => Index(va, level) = Index(vb, level)

LEMMA HigherWalksMeet ==
  ASSUME TypeOK, Cleared, PagesOwned, NEW n \in 3 .. 7
  PROVE  \A u, v \in Tasks, va, vb \in UserPages, m \in n .. 7 :
           Reached(u, va, n) = Reached(v, vb, m) /\ Reached(u, va, n) # 0
             => Same(u, va, n, v, vb, m)
<1> DEFINE Meet(k) ==
             \A u, v \in Tasks, va, vb \in UserPages, m \in k .. 7 :
               Reached(u, va, k) = Reached(v, vb, m) /\ Reached(u, va, k) # 0
                 => Same(u, va, k, v, vb, m)
           S == {k \in 3 .. 7 : Meet(k)}
<1>1. 3 \in S
  <2>1. ASSUME NEW u \in Tasks, NEW v \in Tasks, NEW va \in UserPages, NEW vb \in UserPages,
               NEW m \in 3 .. 7, Reached(u, va, 3) = Reached(v, vb, m), Reached(u, va, 3) # 0
        PROVE  Same(u, va, 3, v, vb, m)
    <3>1. /\ <<"pgd", u>> \in Slots /\ Held(<<"pgd", u>>) = Reached(u, va, 3)
          /\ <<"pgd", v>> \in Slots /\ Held(<<"pgd", v>>) = Reached(v, vb, 3)
      BY ReachedEnds DEF Slots, Held
    <3>2. Reached(u, va, 3) \in DOMAIN mem_map
      BY <2>1, ReachedMarked
    <3>3. CASE m = 3
      <4>1. <<"pgd", v>> = <<"pgd", u>>
        BY <2>1, <3>1, <3>2, <3>3 DEF PagesOwned
      <4> QED
        BY <3>3, <4>1 DEF Same
    <3>4. CASE m # 3
      <4>1. PICK l \in 3 .. 6 : m = l + 1
        <5>1. m - 1 \in 3 .. 6 /\ m = (m - 1) + 1
          BY <3>4
        <5> QED
          BY <5>1
      <4>2. /\ <<"entry", Reached(v, vb, l), Index(vb, l)>> \in Slots
            /\ Held(<<"entry", Reached(v, vb, l), Index(vb, l)>>) = Reached(v, vb, m)
        BY <2>1, <4>1, StepEntry
      <4>3. <<"entry", Reached(v, vb, l), Index(vb, l)>> = <<"pgd", u>>
        BY <2>1, <3>1, <3>2, <4>2 DEF PagesOwned
      <4> QED
        BY <4>3
    <3> QED
      BY <3>3, <3>4
  <2> QED
    BY <2>1
<1>2. ASSUME NEW k \in 3 .. 6, k \in S
      PROVE  k + 1 \in S
  <2>1. ASSUME NEW u \in Tasks, NEW v \in Tasks, NEW va \in UserPages, NEW vb \in UserPages,
               NEW m \in k + 1 .. 7, Reached(u, va, k + 1) = Reached(v, vb, m),
               Reached(u, va, k + 1) # 0
        PROVE  Same(u, va, k + 1, v, vb, m)
    <3>1. PICK l \in 3 .. 6 : m = l + 1 /\ l \in k .. 7
      <4>1. m - 1 \in 3 .. 6 /\ m = (m - 1) + 1 /\ m - 1 \in k .. 7
        OBVIOUS
      <4> QED
        BY <4>1
    <3>2. /\ <<"entry", Reached(u, va, k), Index(va, k)>> \in Slots
          /\ Held(<<"entry", Reached(u, va, k), Index(va, k)>>) = Reached(u, va, k + 1)
          /\ Reached(u, va, k) \in Pages
      BY <2>1, StepEntry
    <3>3. /\ <<"entry", Reached(v, vb, l), Index(vb, l)>> \in Slots
          /\ Held(<<"entry", Reached(v, vb, l), Index(vb, l)>>) = Reached(v, vb, m)
      BY <2>1, <3>1, StepEntry
    <3>4. Reached(u, va, k + 1) \in DOMAIN mem_map
      <4>1. k + 1 \in 3 .. 7
        OBVIOUS
      <4> QED
        BY <2>1, <4>1, ReachedMarked
    <3>5. <<"entry", Reached(u, va, k), Index(va, k)>> = <<"entry", Reached(v, vb, l), Index(vb, l)>>
      BY <2>1, <3>2, <3>3, <3>4 DEF PagesOwned
    <3>6. /\ Reached(u, va, k) = Reached(v, vb, l) /\ Reached(u, va, k) # 0
          /\ Index(va, k) = Index(vb, l)
      BY <3>2, <3>5 DEF Pages
    <3>7. Same(u, va, k, v, vb, l)
      BY <1>2, <3>1, <3>6
    <3>8. \A level \in 3 .. 6 : level < k + 1 => level < k \/ level = k
      OBVIOUS
    <3> QED
      BY <3>1, <3>6, <3>7, <3>8 DEF Same
  <2>2. k + 1 \in 3 .. 7
    OBVIOUS
  <2> QED
    BY <2>1, <2>2
<1> HIDE DEF S
<1>3. n \in S
  BY <1>1, <1>2, AllLevels
<1> QED
  BY <1>3 DEF S

LEMMA WalksMeet ==
  ASSUME TypeOK, Cleared, PagesOwned, NEW n \in 3 .. 7, NEW m \in 3 .. 7,
         NEW u \in Tasks, NEW v \in Tasks, NEW va \in UserPages, NEW vb \in UserPages,
         Reached(u, va, n) = Reached(v, vb, m), Reached(u, va, n) # 0
  PROVE  Same(u, va, n, v, vb, m)
<1>1. CASE n <= m
  <2>1. m \in n .. 7
    BY <1>1
  <2> QED
    BY <2>1, HigherWalksMeet
<1>2. CASE m <= n
  <2>1. n \in m .. 7
    BY <1>2
  <2>2. Same(v, vb, m, u, va, n)
    BY <2>1, HigherWalksMeet
  <2> QED
    BY <2>2 DEF Same
<1> QED
  BY <1>1, <1>2

\* No two pages of user memory are one.
LEMMA OwnPage ==
  ASSUME TypeOK, Cleared, PagesOwned,
         NEW u \in Tasks, NEW v \in Tasks, NEW va \in UserPages, NEW vb \in UserPages,
         Translated(u, va) = Translated(v, vb), Translated(u, va) # 0
  PROVE  u = v /\ va = vb
<1>1. Same(u, va, 7, v, vb, 7)
  BY WalksMeet, ReachedEnds
<1>2. \A level \in 3 .. 6 : Index(va, level) = Index(vb, level)
  BY <1>1 DEF Same
<1> QED
  BY <1>1, <1>2, SameIndices DEF Same

-----------------------------------------------------------------------------
\* Walks before and after a step.
LEMMA KeepsReached ==
  ASSUME NEW u, NEW va, UNCHANGED <<table, pgd>>
  PROVE  \A n : Reached(u, va, n)' = Reached(u, va, n)
  BY DEF Reached, Translated, Below

\* A walk is the same down to a level that no changed word leads to.
LEMMA KeepsWalk ==
  ASSUME NEW u \in Tasks, NEW va \in UserPages, NEW n \in 3 .. 7, pgd'[u] = pgd[u],
         \A level \in 3 .. 6 : level < n /\ Reached(u, va, level) \in Pages =>
           table'[Reached(u, va, level)][Index(va, level)]
             = table[Reached(u, va, level)][Index(va, level)]
  PROVE  Reached(u, va, n)' = Reached(u, va, n)
<1> DEFINE S == {k \in 3 .. 7 : k <= n => Reached(u, va, k)' = Reached(u, va, k)}
<1>1. 3 \in S
  BY ReachedEnds
<1>2. ASSUME NEW k \in 3 .. 6, k \in S
      PROVE  k + 1 \in S
  <2>1. k + 1 \in 3 .. 7 /\ (k + 1 <= n => k < n /\ k <= n)
    OBVIOUS
  <2>2. CASE k + 1 <= n
    <3>1. Reached(u, va, k)' = Reached(u, va, k)
      BY <1>2, <2>1, <2>2
    <3>2. Below(Reached(u, va, k), va, k)' = Below(Reached(u, va, k), va, k)
      BY <2>1, <2>2, <3>1 DEF Below, Index, Span, Pages
    <3> QED
      BY <2>1, <3>2, ReachedStep
  <2> QED
    BY <2>1, <2>2
<1> HIDE DEF S
<1>3. n \in S
  BY <1>1, <1>2, AllLevels
<1> QED
  BY <1>3 DEF S

\* Below an empty word there is nothing.
LEMMA DeadEnd ==
  ASSUME NEW u \in Tasks, NEW va \in UserPages, NEW n \in 3 .. 7
  PROVE  /\ Reached(u, va, n) = 0 => Translated(u, va) = 0
         /\ Reached(u, va, n)' = 0 => Translated(u, va)' = 0
<1> DEFINE S == {k \in 3 .. 7 : k >= n => /\ Reached(u, va, n) = 0 => Reached(u, va, k) = 0
                                          /\ Reached(u, va, n)' = 0 => Reached(u, va, k)' = 0}
<1>1. 3 \in S
  <2>1. 3 >= n => n = 3
    OBVIOUS
  <2> QED
    BY <2>1
<1>2. ASSUME NEW k \in 3 .. 6, k \in S
      PROVE  k + 1 \in S
  <2>1. k + 1 \in 3 .. 7 /\ (k + 1 >= n => k >= n \/ k + 1 = n)
    OBVIOUS
  <2>2. /\ Reached(u, va, k) = 0 => Reached(u, va, k + 1) = 0
        /\ Reached(u, va, k)' = 0 => Reached(u, va, k + 1)' = 0
    <3>1. 0 \notin Pages
      BY DEF Pages
    <3> QED
      BY <3>1, ReachedStep DEF Below, NoEntry, Pages
  <2> QED
    BY <1>2, <2>1, <2>2
<1> HIDE DEF S
<1>3. 7 \in S
  BY <1>1, <1>2, AllLevels
<1> QED
  BY <1>3, ReachedEnds DEF S

\* What is in a call that takes steps.
LEMMA CallFacts ==
  ASSUME IInv, Walks, NEW t \in Tasks, Walking(t)
  PROVE  /\ CallOK(t) /\ WalkOK(t) /\ CopyOK(t) /\ RestOK(t)
         /\ TypeOK /\ Cleared /\ PagesOwned
         /\ at \in [Tasks -> Calls] /\ at[t].level \in 0 .. 6 /\ at[t].dst \in Tasks
         /\ at[t].rest \in Seq(UserPages) /\ at[t].rest # <<>>
         /\ Head(at[t].rest) \in UserPages
         /\ at[t].table \in 0 .. Len(mem_map) /\ at[t].user \in 0 .. Len(mem_map)
<1>1. TypeOK /\ Cleared /\ PagesOwned /\ CallOK(t) /\ WalkOK(t) /\ CopyOK(t) /\ RestOK(t)
  BY DEF IInv, CallsOK, Lengths, Walks
<1>2. at[t].rest \in Seq(UserPages) /\ at[t].rest # <<>>
  BY <1>1, CallType DEF CallOK
<1>3. Head(at[t].rest) \in UserPages
  BY <1>2
<1>4. at \in [Tasks -> Calls]
  BY <1>1 DEF TypeOK, Calls
<1> QED
  BY <1>1, <1>2, <1>3, <1>4, CallType

\* The words that Mark changes: those of the page, which it clears, and the
\* one that the page is for.
LEMMA MarkTables ==
  ASSUME IInv, Walks, NEW t \in Tasks, Mark(t)
  PROVE  LET a == at[t] IN
         /\ a.page \in DOMAIN mem_map /\ a.page \in Pages /\ mem_map[a.page] = 0
         /\ a.level \in 0 .. 5
         /\ \A i \in 0 .. PTRS_PER_TABLE - 1 : table'[a.page][i] = 0
         /\ a.level = 2 => pgd'[a.dst] = a.page
         /\ \A u \in Tasks : a.level # 2 \/ u # a.dst => pgd'[u] = pgd[u]
         /\ a.level \in 3 .. 5 =>
              /\ a.table \in Pages /\ a.table # a.page
              /\ table'[a.table][Index(Head(a.rest), a.level)] = a.page
         /\ \A q \in Pages, i \in 0 .. PTRS_PER_TABLE - 1 :
              /\ q # a.page
              /\ ~(a.level \in 3 .. 5 /\ q = a.table /\ i = Index(Head(a.rest), a.level))
              => table'[q][i] = table[q][i]
<1> DEFINE a == at[t]
           cleared == [table EXCEPT ![a.page] = [j \in 0 .. PTRS_PER_TABLE - 1 |-> NoEntry]]
<1>1. pc[t] = "mark" /\ Walking(t)
  BY DEF Mark, Walking
<1>2. /\ CallOK(t) /\ TypeOK /\ a.level \in 0 .. 6 /\ Head(a.rest) \in UserPages
      /\ a.dst \in Tasks
  BY <1>1, CallFacts
<1>3. /\ a.page \in DOMAIN mem_map /\ a.page \in Pages /\ mem_map[a.page] = 0
      /\ a.level \in 0 .. 5
  BY <1>1, <1>2, MapType DEF CallOK, Pte
<1>4. /\ pgd' = IF a.level = 2 THEN [pgd EXCEPT ![a.dst] = a.page] ELSE pgd
      /\ table' = IF a.level \in 3 .. 5
                  THEN [cleared EXCEPT ![a.table][Index(Head(a.rest), a.level)] = a.page]
                  ELSE cleared
  BY DEF Mark, Pgd, Pud, Pte
<1>5. /\ pgd \in [Tasks -> 0 .. Len(mem_map)]
      /\ cleared \in [Pages -> [0 .. PTRS_PER_TABLE - 1 -> 0 .. Junk]]
      /\ \A j \in 0 .. PTRS_PER_TABLE - 1 : cleared[a.page][j] = 0
      /\ \A q \in Pages : q # a.page => cleared[q] = table[q]
  <2>1. 0 \in 0 .. Junk
    BY MemoryAssumption DEF Junk
  <2> QED
    BY <1>2, <1>3, <2>1 DEF TypeOK, NoEntry
<1>6. ASSUME a.level \in 3 .. 5
      PROVE  /\ a.table \in Pages /\ a.table # a.page
             /\ Index(Head(a.rest), a.level) \in 0 .. PTRS_PER_TABLE - 1
  BY <1>2, <1>3, <1>6, MapType, IndexType DEF CallOK, Pud, Leaf
<1>7. CASE a.level \in 3 .. 5
  <2> DEFINE i0 == Index(Head(a.rest), a.level)
  <2>1. table' = [cleared EXCEPT ![a.table][i0] = a.page] /\ pgd' = pgd
    BY <1>4, <1>7
  <2> HIDE DEF i0
  <2>2. /\ i0 \in 0 .. PTRS_PER_TABLE - 1
        /\ table'[a.table][i0] = a.page
        /\ \A q \in Pages, i \in 0 .. PTRS_PER_TABLE - 1 :
             ~(q = a.table /\ i = i0) => table'[q][i] = cleared[q][i]
    BY <1>5, <1>6, <1>7, <2>1 DEF i0
  <2>3. \A j \in 0 .. PTRS_PER_TABLE - 1 : table'[a.page][j] = 0
    BY <1>3, <1>5, <1>6, <1>7, <2>2
  <2>4. \A q \in Pages, i \in 0 .. PTRS_PER_TABLE - 1 :
          /\ q # a.page
          /\ ~(q = a.table /\ i = i0)
          => table'[q][i] = table[q][i]
    BY <1>5, <2>2
  <2>5. a.table \in Pages /\ a.table # a.page /\ a.level # 2
    BY <1>6, <1>7
  <2> HIDE DEF cleared
  <2> QED
    BY <1>3, <1>7, <2>1, <2>2, <2>3, <2>4, <2>5, ZenonT(60) DEF i0
<1>8. CASE a.level \notin 3 .. 5
  BY <1>2, <1>3, <1>4, <1>5, <1>8
<1> QED
  BY <1>7, <1>8

\* A page that Mark hands out changes no translation, and the walk of the call
\* leads to it.
LEMMA MarkWalks ==
  ASSUME IInv, Walks, NEW t \in Tasks, Mark(t),
         NEW dst, NEW vb, NEW L, NEW q0, NEW page,
         dst = at[t].dst, vb = Head(at[t].rest), L = at[t].level,
         q0 = at[t].table, page = at[t].page
  PROVE  /\ \A u \in Tasks, va \in UserPages : Translated(u, va)' = Translated(u, va)
         /\ L \in 2 .. 5 => Reached(dst, vb, L + 1)' = page
<1> DEFINE Hit(u, va, l) == L \in 3 .. 5 /\ Reached(u, va, l) = q0
                            /\ Index(va, l) = Index(vb, L)
<1>1. /\ TypeOK /\ Cleared /\ PagesOwned /\ WalkOK(t) /\ CallOK(t)
      /\ dst \in Tasks /\ vb \in UserPages /\ pc[t] = "mark"
  BY CallFacts DEF Mark, Walking
<1>2. /\ page \in DOMAIN mem_map /\ page \in Pages /\ mem_map[page] = 0
      /\ L \in 0 .. 5
      /\ \A i \in 0 .. PTRS_PER_TABLE - 1 : table'[page][i] = 0
      /\ L = 2 => pgd'[dst] = page
      /\ \A u \in Tasks : L # 2 \/ u # dst => pgd'[u] = pgd[u]
      /\ L \in 3 .. 5 => /\ q0 \in Pages /\ q0 # page
                         /\ table'[q0][Index(vb, L)] = page
      /\ \A q \in Pages, i \in 0 .. PTRS_PER_TABLE - 1 :
           /\ q # page
           /\ ~(L \in 3 .. 5 /\ q = q0 /\ i = Index(vb, L))
           => table'[q][i] = table[q][i]
  BY MarkTables
<1>3. /\ L \in 3 .. 5 => q0 = Reached(dst, vb, L)
      /\ L \in 2 .. 5 => Reached(dst, vb, L + 1) = 0
  BY <1>1, <1>2 DEF WalkOK, Pud, Leaf, Pgd, NoEntry
<1>4. ASSUME NEW u \in Tasks, NEW va \in UserPages, NEW n \in 3 .. 7
      PROVE  Reached(u, va, n) # page
  <2>1. Reached(u, va, n) # 0 => mem_map[Reached(u, va, n)] = 1
    BY <1>1, ReachedMarked
  <2> QED
    BY <1>2, <2>1 DEF Pages
<1>5. \A va \in UserPages, l \in 3 .. 6 : Index(va, l) \in 0 .. PTRS_PER_TABLE - 1
  BY IndexType
<1>6. ASSUME NEW u \in Tasks, NEW va \in UserPages, NEW n \in 3 .. 7, L # 2 \/ u # dst,
             \A l \in 3 .. 6 : l < n => ~Hit(u, va, l)
      PROVE  Reached(u, va, n)' = Reached(u, va, n)
  <2>1. pgd'[u] = pgd[u]
    BY <1>2, <1>6
  <2>2. ASSUME NEW l \in 3 .. 6, l < n, Reached(u, va, l) \in Pages
        PROVE  table'[Reached(u, va, l)][Index(va, l)] = table[Reached(u, va, l)][Index(va, l)]
    <3>1. l \in 3 .. 7
      OBVIOUS
    <3>2. Reached(u, va, l) # page /\ Index(va, l) \in 0 .. PTRS_PER_TABLE - 1
      BY <1>4, <1>5, <3>1
    <3>3. ~(L \in 3 .. 5 /\ Reached(u, va, l) = q0 /\ Index(va, l) = Index(vb, L))
      BY <1>6, <2>2
    <3> HIDE DEF Hit
    <3> QED
      BY <1>2, <2>2, <3>2, <3>3
  <2> HIDE DEF Hit
  <2> QED
    BY <2>1, <2>2, KeepsWalk
<1>7. ASSUME NEW u \in Tasks, NEW va \in UserPages, NEW l \in 3 .. 6,
             l + 1 \in 3 .. 6, Reached(u, va, l + 1)' = page
      PROVE  Translated(u, va)' = 0
  <2>1. Reached(u, va, (l + 1) + 1)' = Below(Reached(u, va, l + 1), va, l + 1)'
    BY <1>7, ReachedStep
  <2>2. Below(Reached(u, va, l + 1), va, l + 1)' = table'[page][Index(va, l + 1)]
    BY <1>2, <1>7 DEF Below, Index, Span, Pages
  <2>3. table'[page][Index(va, l + 1)] = 0
    BY <1>2, <1>5, <1>7
  <2>4. (l + 1) + 1 \in 3 .. 7
    BY <1>7
  <2> QED
    BY <2>1, <2>2, <2>3, <2>4, DeadEnd
<1>8. CASE L \in 0 .. 1
  <2>1. ASSUME NEW u \in Tasks, NEW va \in UserPages
        PROVE  Translated(u, va)' = Translated(u, va)
    <3>1. Reached(u, va, 7)' = Reached(u, va, 7)
      BY <1>6, <1>8
    <3> QED
      BY <3>1, ReachedEnds
  <2> QED
    BY <1>8, <2>1
<1>9. CASE L = 2
  <2>1. ASSUME NEW u \in Tasks, NEW va \in UserPages
        PROVE  Translated(u, va)' = Translated(u, va)
    <3>1. CASE u # dst
      <4>1. Reached(u, va, 7)' = Reached(u, va, 7)
        BY <1>6, <1>9, <3>1
      <4> QED
        BY <4>1, ReachedEnds
    <3>2. CASE u = dst
      <4>1. Reached(u, va, 3) = 0
        BY <1>3, <1>9, <3>2, ReachedEnds
      <4>2. Translated(u, va) = 0
        BY <4>1, DeadEnd
      <4>3. Reached(u, va, 3)' = page
        BY <1>2, <1>9, <3>2, ReachedEnds
      <4>4. Reached(u, va, 3 + 1)' = Below(Reached(u, va, 3), va, 3)'
        BY ReachedStep
      <4>5. Below(Reached(u, va, 3), va, 3)' = table'[page][Index(va, 3)]
        BY <1>2, <4>3 DEF Below, Index, Span, Pages
      <4>6. Reached(u, va, 4)' = 0
        BY <1>2, <1>5, <4>4, <4>5
      <4>7. Translated(u, va)' = 0
        BY <4>6, DeadEnd
      <4> QED
        BY <4>2, <4>7
    <3> QED
      BY <3>1, <3>2
  <2>2. Reached(dst, vb, 2 + 1)' = page
    BY <1>1, <1>2, <1>9, ReachedEnds
  <2> QED
    BY <1>9, <2>1, <2>2
<1>10. CASE L \in 3 .. 5
  <2>0. L \in 3 .. 6 /\ L \in 3 .. 7 /\ L # 2 /\ L + 1 \in 3 .. 6 /\ q0 # 0
    BY <1>2, <1>10 DEF Pages
  <2>1. ASSUME NEW u \in Tasks, NEW va \in UserPages, NEW l \in 3 .. 6, Hit(u, va, l)
        PROVE  l = L /\ u = dst
    <3>1. Reached(u, va, l) = Reached(dst, vb, L) /\ Reached(u, va, l) # 0 /\ l \in 3 .. 7
      BY <1>3, <2>0, <2>1
    <3>2. Same(u, va, l, dst, vb, L)
      BY <1>1, <2>0, <3>1, WalksMeet
    <3> QED
      BY <3>2 DEF Same
  <2>2. ASSUME NEW u \in Tasks, NEW va \in UserPages, Hit(u, va, L)
        PROVE  /\ Reached(u, va, L + 1)' = page
               /\ Reached(u, va, L + 1) = 0
    <3>1. \A l \in 3 .. 6 : l < L => ~Hit(u, va, l)
      BY <2>0, <2>1
    <3>2. Reached(u, va, L)' = Reached(u, va, L)
      BY <1>6, <2>0, <3>1
    <3>3. /\ Reached(u, va, L + 1) = Below(Reached(u, va, L), va, L)
          /\ Reached(u, va, L + 1)' = Below(Reached(u, va, L), va, L)'
      BY <2>0, ReachedStep
    <3>4. Reached(u, va, L) = q0 /\ Index(va, L) = Index(vb, L)
      BY <2>2
    <3>5. Below(Reached(u, va, L), va, L) = table[q0][Index(vb, L)]
      BY <1>2, <1>10, <3>4 DEF Below
    <3>6. Below(Reached(u, va, L), va, L)' = table'[Reached(u, va, L)'][Index(va, L)]
      BY <1>2, <1>10, <3>2, <3>4 DEF Below, Index, Span, Pages
    <3>7. Reached(dst, vb, L + 1) = table[q0][Index(vb, L)]
      <4>1. Reached(dst, vb, L + 1) = Below(Reached(dst, vb, L), vb, L)
        BY <2>0, ReachedStep
      <4> QED
        BY <1>2, <1>3, <1>10, <4>1 DEF Below
    <3>8. table[q0][Index(vb, L)] = 0
      BY <1>2, <1>3, <1>10, <3>7
    <3>9. table'[q0][Index(vb, L)] = page
      BY <1>2, <1>10
    <3> QED
      BY <3>2, <3>3, <3>4, <3>5, <3>6, <3>8, <3>9
  <2>3. Reached(dst, vb, L + 1)' = page
    <3>1. Hit(dst, vb, L)
      BY <1>3, <1>10
    <3> QED
      BY <1>1, <2>2, <3>1
  <2>4. ASSUME NEW u \in Tasks, NEW va \in UserPages
        PROVE  Translated(u, va)' = Translated(u, va)
    <3>1. CASE Hit(u, va, L)
      <4>1. Reached(u, va, L + 1)' = page /\ Reached(u, va, L + 1) = 0
        BY <2>2, <3>1
      <4>2. L + 1 \in 3 .. 7
        BY <2>0
      <4>3. Translated(u, va) = 0
        BY <4>1, <4>2, DeadEnd
      <4>4. Translated(u, va)' = 0
        BY <1>7, <2>0, <4>1
      <4> QED
        BY <4>3, <4>4
    <3>2. CASE ~Hit(u, va, L)
      <4>1. \A l \in 3 .. 6 : l < 7 => ~Hit(u, va, l)
        BY <2>1, <3>2
      <4>2. Reached(u, va, 7)' = Reached(u, va, 7)
        BY <1>6, <2>0, <4>1
      <4> QED
        BY <4>2, ReachedEnds
    <3> QED
      BY <3>1, <3>2
  <2> QED
    BY <1>10, <2>3, <2>4
<1> QED
  BY <1>2, <1>8, <1>9, <1>10

\* The page that a call has yet to enter is in no task's memory.
LEMMA NewUnseen ==
  ASSUME IInv, NEW t \in Tasks, NEW page, page = at[t].user, page \in DOMAIN mem_map
  PROVE  /\ mem_map[page] = 1
         /\ \A u \in Tasks, va \in UserPages : Translated(u, va) # page
<1>0. /\ TypeOK /\ Cleared /\ PagesOwned /\ page # 0
      /\ page \in DOMAIN mem_map
  BY MapType DEF IInv
<1>1. <<"new", t>> \in Slots /\ Held(<<"new", t>>) = page
  BY DEF Slots, Held
<1>2. ASSUME NEW u \in Tasks, NEW va \in UserPages, Translated(u, va) = page
      PROVE  FALSE
  <2>1. Reached(u, va, 6 + 1) = page /\ 6 \in 3 .. 6
    BY <1>2, ReachedEnds
  <2>2. /\ <<"entry", Reached(u, va, 6), Index(va, 6)>> \in Slots
        /\ Held(<<"entry", Reached(u, va, 6), Index(va, 6)>>) = page
    BY <1>0, <2>1, StepEntry
  <2>3. <<"entry", Reached(u, va, 6), Index(va, 6)>> = <<"new", t>>
    BY <1>0, <1>1, <2>2 DEF PagesOwned
  <2> QED
    BY <2>3
<1> QED
  BY <1>0, <1>1, <1>2 DEF PagesOwned

\* Enter maps the page it is for, and changes no other translation.
LEMMA EnterWalks ==
  ASSUME IInv, Walks, Maps, NEW t \in Tasks, Enter(t),
         NEW dst, NEW vb, NEW page,
         dst = at[t].dst, vb = Head(at[t].rest), page = at[t].user
  PROVE  /\ Translated(dst, vb) = 0 /\ Translated(dst, vb)' = page
         /\ page \in DOMAIN mem_map /\ page \in Pages /\ mem_map[page] = 1 /\ data[page] = Zero
         /\ \A u \in Tasks, va \in UserPages : Translated(u, va) # page
         /\ \A u \in Tasks, va \in UserPages :
              u # dst \/ va # vb => Translated(u, va)' = Translated(u, va)
<1>1. /\ TypeOK /\ Cleared /\ PagesOwned /\ WalkOK(t) /\ CallOK(t)
      /\ dst \in Tasks /\ vb \in UserPages /\ pc[t] = "walk"
      /\ at[t].level = 6 /\ page \in 0 .. Len(mem_map)
  BY CallFacts DEF Enter, Walking, Leaf
<1>2. page # 0 /\ data[page] = Zero /\ ~HasPage(dst, vb)
  BY <1>1 DEF WalkOK, Pgd
<1>3. PICK q0 \in Pages : q0 = at[t].table /\ q0 = Reached(dst, vb, 6)
  BY <1>1, MapType DEF WalkOK, CallOK, Pud, Leaf
<1>4. PICK i0 \in 0 .. PTRS_PER_TABLE - 1 : i0 = Index(vb, 6)
  BY <1>1, IndexType
<1>5. /\ table'[q0][i0] = page /\ pgd' = pgd
      /\ \A q \in Pages, i \in 0 .. PTRS_PER_TABLE - 1 :
           q # q0 \/ i # i0 => table'[q][i] = table[q][i]
  <2>1. /\ table' = [table EXCEPT ![at[t].table][Index(Head(at[t].rest), 6)] = at[t].user]
        /\ pgd' = pgd
    BY DEF Enter, Leaf
  <2>2. table' = [table EXCEPT ![q0][i0] = page] /\ pgd' = pgd
    BY <1>3, <1>4, <2>1
  <2> QED
    BY <1>1, <2>2 DEF TypeOK
<1>6. page \in DOMAIN mem_map /\ page \in Pages
  BY <1>1, <1>2, MapType
<1>7. /\ mem_map[page] = 1 /\ \A u \in Tasks, va \in UserPages : Translated(u, va) # page
  BY <1>6, NewUnseen
<1>8. Translated(dst, vb) = 0
  BY <1>1, <1>2 DEF Maps, NoEntry
<1>9. ASSUME NEW u \in Tasks, NEW va \in UserPages, NEW l \in 3 .. 6, Reached(u, va, l) = q0
      PROVE  Same(u, va, l, dst, vb, 6)
  <2>1. l \in 3 .. 7 /\ 6 \in 3 .. 7 /\ q0 # 0
    BY DEF Pages
  <2> QED
    BY <1>1, <1>3, <1>9, <2>1, WalksMeet
<1>10. ASSUME NEW u \in Tasks, NEW va \in UserPages
       PROVE  Reached(u, va, 6)' = Reached(u, va, 6)
  <2>1. ASSUME NEW l \in 3 .. 6, l < 6, Reached(u, va, l) \in Pages
        PROVE  table'[Reached(u, va, l)][Index(va, l)] = table[Reached(u, va, l)][Index(va, l)]
    <3>1. Reached(u, va, l) # q0
      BY <1>9, <2>1 DEF Same
    <3>2. Index(va, l) \in 0 .. PTRS_PER_TABLE - 1
      BY IndexType
    <3> QED
      BY <1>5, <2>1, <3>1, <3>2
  <2>2. pgd'[u] = pgd[u] /\ 6 \in 3 .. 7
    BY <1>5
  <2> QED
    BY <2>1, <2>2, KeepsWalk
<1>11. ASSUME NEW u \in Tasks, NEW va \in UserPages
       PROVE  /\ Translated(u, va) = Below(Reached(u, va, 6), va, 6)
              /\ Translated(u, va)' = IF Reached(u, va, 6) \in Pages
                                      THEN table'[Reached(u, va, 6)][Index(va, 6)] ELSE 0
  <2>1. 6 \in 3 .. 6 /\ 6 + 1 = 7
    OBVIOUS
  <2>2. /\ Reached(u, va, 7) = Below(Reached(u, va, 6), va, 6)
        /\ Reached(u, va, 7)' = Below(Reached(u, va, 6), va, 6)'
    BY <2>1, ReachedStep
  <2>3. Below(Reached(u, va, 6), va, 6)'
          = IF Reached(u, va, 6) \in Pages
            THEN table'[Reached(u, va, 6)][Index(va, 6)] ELSE 0
    BY <1>10 DEF Below, Index, Span, Pages, NoEntry
  <2> QED
    BY <2>2, <2>3, ReachedEnds
<1>12. Translated(dst, vb)' = page
  BY <1>1, <1>3, <1>4, <1>5, <1>11
<1>13. ASSUME NEW u \in Tasks, NEW va \in UserPages, u # dst \/ va # vb
       PROVE  Translated(u, va)' = Translated(u, va)
  <2>1. Index(va, 6) \in 0 .. PTRS_PER_TABLE - 1
    BY IndexType
  <2>2. ~(Reached(u, va, 6) = q0 /\ Index(va, 6) = i0)
    <3>1. SUFFICES ASSUME Reached(u, va, 6) = q0, Index(va, 6) = i0
                   PROVE  FALSE
      OBVIOUS
    <3>2. Same(u, va, 6, dst, vb, 6)
      BY <1>9, <3>1
    <3>3. \A level \in 3 .. 6 : level < 6 \/ level = 6
      OBVIOUS
    <3>4. \A level \in 3 .. 6 : Index(va, level) = Index(vb, level)
      BY <1>4, <3>1, <3>2, <3>3 DEF Same
    <3> QED
      BY <1>1, <1>13, <3>2, <3>4, SameIndices DEF Same
  <2>3. Reached(u, va, 6) \in Pages =>
          table'[Reached(u, va, 6)][Index(va, 6)] = table[Reached(u, va, 6)][Index(va, 6)]
    BY <1>5, <2>1, <2>2
  <2> QED
    BY <1>11, <2>3 DEF Below, NoEntry
<1> QED
  BY <1>2, <1>6, <1>7, <1>8, <1>12, <1>13

-----------------------------------------------------------------------------
\* Steps that leave the tables alone, and forget no page.
LEMMA KeepsSpaces ==
  ASSUME SInv, IInv, UNCHANGED <<mem_map, table, task, pgd, user_pages, page0>>,
         \A u \in Tasks : Followed(u)' => Followed(u),
         \A p \in Pages : data'[p] # NoPage,
         \A u \in Tasks : at'[u].user = at[u].user \/ at[u].user = 0
  PROVE  /\ Maps' /\ Filled' /\ Fresh' /\ NoPageLost'
         /\ \A u \in Tasks, va \in UserPages : Translated(u, va)' = Translated(u, va)
         /\ \A u, va : HasPage(u, va)' = HasPage(u, va)
<1>1. \A u \in Tasks, va \in UserPages : Translated(u, va)' = Translated(u, va)
  BY DEF Translated, Below
<1>2. \A u, va : HasPage(u, va)' = HasPage(u, va)
  BY DEF HasPage
<1>3. Maps'
  BY <1>1, <1>2 DEF SInv, Maps
<1>4. Filled' /\ Fresh'
  BY DEF SInv, Filled, Fresh
<1>5. NoPageLost'
  <2>1. SUFFICES ASSUME NEW p \in DOMAIN mem_map, mem_map[p] = 1
                 PROVE  \E s \in Slots : Held(s)' = p
    BY DEF NoPageLost, Slots
  <2>2. PICK s \in Slots : Held(s) = p
    BY <2>1 DEF SInv, NoPageLost
  <2>3. p # 0
    BY <2>1, MapType DEF IInv
  <2>4. Held(s)' = Held(s)
    BY <2>2, <2>3, SlotKinds
  <2> QED
    BY <2>2, <2>4
<1> QED
  BY <1>1, <1>2, <1>3, <1>4, <1>5

\* Only the call of the task that takes the step has to be looked at.
LEMMA KeepsWalks ==
  ASSUME IInv, NEW t \in Tasks, Runs(t), Live(t),
         \A u \in Tasks : u # t => pc'[u] = pc[u] \/ pc'[u] \in {"user", "hung", "astray"},
         Walking(t)' => WalkOK(t)' /\ CopyOK(t)'
  PROVE  Walks'
<1>1. \A u \in Tasks : u # t => ~Walking(u)
  BY OthersOut DEF IInv
<1>2. \A u \in Tasks : u # t => ~Walking(u)'
  BY <1>1 DEF Walking
<1> QED
  BY <1>2 DEF Walks

\* A call begins with nothing but the pages it is for, which are not there.
LEMMA BeginSpaces ==
  ASSUME IInv, SInv, NEW t \in Tasks, Runs(t), Live(t), ~Walking(t),
         NEW job, NEW dst \in Tasks, NEW rest, NEW level \in {TaskStruct, UserPage},
         Begin(t, job, dst, rest, level), ~HasPage(dst, Head(rest)),
         job = "fork" => rest = user_pages[t] /\ user_pages[dst] = <<>>
  PROVE  SInv'
<1>1. /\ pc' = [pc EXCEPT ![t] = "see"]
      /\ at' = [at EXCEPT ![t] = [Idle EXCEPT !.job = job, !.dst = dst,
                                              !.rest = rest, !.level = level]]
      /\ UNCHANGED <<mem_map, table, data, task, pgd, user_pages, ind, page0, halted>>
  BY DEF Begin
<1>2. /\ \A u \in Tasks : u # t => at'[u] = at[u] /\ pc'[u] = pc[u]
      /\ at'[t] = [Idle EXCEPT !.job = job, !.dst = dst, !.rest = rest, !.level = level]
  BY <1>1 DEF IInv, TypeOK
<1>3. /\ at'[t].user = 0 /\ at'[t].job = job /\ at'[t].dst = dst
      /\ at'[t].rest = rest /\ at'[t].level = level
  BY <1>2 DEF Idle
<1>4. at[t].user = 0
  BY DEF IInv, CallsOK, Idle
<1>5. /\ Maps' /\ Filled' /\ Fresh' /\ NoPageLost'
      /\ \A u, va : HasPage(u, va)' = HasPage(u, va)
  <2>1. \A u \in Tasks : Followed(u)' => Followed(u)
    BY <1>2 DEF Followed, Live
  <2> QED
    BY <1>1, <1>2, <1>3, <1>4, <2>1, KeepsSpaces DEF SInv, Filled
<1>7. WalkOK(t)'
  <2>1. ~HasPage(at[t].dst, Head(at[t].rest))'
    BY <1>1, <1>3 DEF HasPage
  <2>2. ~(at'[t].level \in Pud .. Leaf) /\ ~(at'[t].level >= Pgd)
    BY <1>3 DEF Pgd, Pud, Leaf, TaskStruct, UserPage
  <2> QED
    BY <1>3, <2>1, <2>2 DEF WalkOK
<1>8. CopyOK(t)'
  <2>1. SUFFICES ASSUME job = "fork"
                 PROVE  /\ user_pages[t] = user_pages[dst] \o rest
                        /\ \A va \in UserPages : ~HasPage(dst, va)
    BY <1>1, <1>3, <1>5 DEF CopyOK, HasPage
  <2>2. user_pages[t] \in Seq(UserPages)
    BY DEF IInv, TypeOK
  <2> QED
    BY <2>1, <2>2 DEF HasPage
<1>9. Walks'
  BY <1>2, <1>7, <1>8, KeepsWalks
<1> QED
  BY <1>5, <1>9 DEF SInv

LEMMA MoveSpaces ==
  ASSUME IInv, SInv, MoveToUserMode
  PROVE  SInv'
<1>1. /\ root \in Tasks /\ Runs(root) /\ pc[root] = "kernel" /\ Live(root) /\ ~Walking(root)
      /\ Begin(root, "load", root, <<0>>, UserPage)
  BY MemoryAssumption DEF MoveToUserMode, Live, Walking
<1>2. user_pages[root] = <<>>
  BY <1>1 DEF IInv, Lengths, LengthOK
<1>3. ~HasPage(root, Head(<<0>>))
  BY <1>2 DEF HasPage
<1> QED
  BY <1>1, <1>3, BeginSpaces

LEMMA FaultSpaces ==
  ASSUME IInv, SInv, NEW t \in Tasks, NEW va \in UserPages, Fault(t, va)
  PROVE  SInv'
<1>1. /\ Runs(t) /\ pc[t] = "user" /\ Live(t) /\ ~Walking(t)
      /\ Begin(t, "fault", t, <<va>>, UserPage)
  BY DEF Fault, Live, Walking
<1>2. ~HasPage(t, Head(<<va>>))
  BY DEF Fault, SInv, Maps, Followed
<1> QED
  BY <1>1, <1>2, BeginSpaces

LEMMA ForkSpaces ==
  ASSUME IInv, SInv, NEW t \in Tasks, NEW child \in Tasks, Fork(t, child)
  PROVE  SInv'
<1>1. /\ Runs(t) /\ pc[t] = "user" /\ Live(t) /\ ~Walking(t) /\ task[child] = 0
      /\ Begin(t, "fork", child, user_pages[t], TaskStruct)
  BY DEF Fork, Live, Walking
<1>2. user_pages[child] = <<>>
  BY <1>1 DEF IInv, Lengths, LengthOK
<1>3. ~HasPage(child, Head(user_pages[t]))
  BY <1>2 DEF HasPage
<1> QED
  BY <1>1, <1>2, <1>3, BeginSpaces

LEMMA WriteSpaces ==
  ASSUME IInv, SInv, NEW t \in Tasks, NEW va \in UserPages, NEW value \in Words,
         Write(t, va, value)
  PROVE  SInv'
<1>1. /\ Runs(t) /\ Live(t) /\ ~Walking(t)
      /\ UNCHANGED <<mem_map, table, task, pgd, user_pages, ind, pc, at, cpu, page0, halted>>
  BY DEF Write, Live, Walking
<1>2. \A p \in Pages : data'[p] # NoPage
  <2>1. value # NoPage
    BY MemoryAssumption
  <2>2. data' = [data EXCEPT ![Translated(t, va)] = value]
    BY DEF Write
  <2>3. \A p \in Pages : data[p] # NoPage
    BY DEF SInv, Filled
  <2>4. DOMAIN data = Pages
    BY DEF IInv, TypeOK
  <2> QED
    BY <2>1, <2>2, <2>3, <2>4
<1>3. Maps' /\ Filled' /\ Fresh' /\ NoPageLost'
  BY <1>1, <1>2, KeepsSpaces DEF Followed
<1>4. Walks'
  BY <1>1, KeepsWalks DEF Walking
<1> QED
  BY <1>3, <1>4 DEF SInv

LEMMA ExitSpaces ==
  ASSUME IInv, SInv, NEW t \in Tasks, Exit(t)
  PROVE  SInv'
<1>1. /\ Runs(t) /\ Live(t) /\ ~Walking(t) /\ pc' = [pc EXCEPT ![t] = "zombie"]
      /\ UNCHANGED <<mem_map, table, data, task, pgd, user_pages, ind, at, page0, halted>>
  BY DEF Exit, Live, Walking
<1>3. pc'[t] = "zombie" /\ \A u \in Tasks : u # t => pc'[u] = pc[u]
  BY <1>1 DEF IInv, TypeOK
<1>2. Maps' /\ Filled' /\ Fresh' /\ NoPageLost'
  BY <1>1, <1>3, KeepsSpaces DEF SInv, Filled, Followed, Live
<1>4. Walks'
  BY <1>1, <1>3, KeepsWalks DEF Walking
<1> QED
  BY <1>2, <1>4 DEF SInv

\* What WalkOK and CopyOK say of the next state, for a call given by its parts.
LEMMA WalkLater ==
  ASSUME NEW t, NEW dst, NEW va, NEW l,
         dst = at'[t].dst, va = Head(at'[t].rest), l = at'[t].level,
         ~HasPage(dst, va)',
         l \in Pud .. Leaf => at'[t].table = Reached(dst, va, l)',
         pc'[t] # "walk" /\ l >= Pgd => Reached(dst, va, l + 1)' = NoEntry,
         IF l >= Pgd THEN at'[t].user # 0 /\ data'[at'[t].user] = Zero ELSE at'[t].user = 0
  PROVE  WalkOK(t)'
<1>1. HasPage(at[t].dst, Head(at[t].rest))' = HasPage(dst, va)'
  BY DEF HasPage
<1>2. Reached(at[t].dst, Head(at[t].rest), at[t].level)' = Reached(dst, va, l)'
  BY DEF Reached, Translated, Below
<1>3. Reached(at[t].dst, Head(at[t].rest), at[t].level + 1)' = Reached(dst, va, l + 1)'
  BY DEF Reached, Translated, Below
<1> QED
  BY <1>1, <1>2, <1>3 DEF WalkOK

LEMMA CopyLater ==
  ASSUME NEW t, NEW dst, NEW rest, dst = at'[t].dst, rest = at'[t].rest,
         at'[t].job = "fork" =>
           /\ user_pages'[t] = user_pages'[dst] \o rest
           /\ \A va \in UserPages : HasPage(dst, va)' => Content(dst, va)' = Content(t, va)'
  PROVE  CopyOK(t)'
<1>1. ASSUME NEW va
      PROVE  /\ HasPage(at[t].dst, va)' = HasPage(dst, va)'
             /\ Content(at[t].dst, va)' = Content(dst, va)'
  <2>1. HasPage(at[t].dst, va)' = HasPage(dst, va)'
    BY DEF HasPage
  <2>2. Translated(at[t].dst, va)' = Translated(dst, va)'
    BY DEF Translated, Below
  <2> QED
    BY <2>1, <2>2 DEF Content
<1> QED
  BY <1>1 DEF CopyOK

\* A step of a call that touches no memory.
LEMMA OnTheWaySpaces ==
  ASSUME IInv, SInv, NEW t \in Tasks, Runs(t), Walking(t),
         UNCHANGED <<mem_map, table, data, task, pgd, user_pages, page0>>,
         \A u \in Tasks : u # t => pc'[u] = pc[u] /\ at'[u] = at[u],
         at'[t].job = at[t].job, at'[t].dst = at[t].dst, at'[t].rest = at[t].rest,
         at'[t].user = at[t].user,
         (at'[t].level >= Pgd) <=> (at[t].level >= Pgd),
         LET dst == at[t].dst  va == Head(at[t].rest) IN
           /\ at'[t].level \in Pud .. Leaf => at'[t].table = Reached(dst, va, at'[t].level)
           /\ pc'[t] # "walk" /\ at'[t].level >= Pgd =>
                \A n : n = at'[t].level + 1 => Reached(dst, va, n) = NoEntry
  PROVE  SInv'
<1>1. /\ Maps' /\ Filled' /\ Fresh' /\ NoPageLost'
      /\ \A u \in Tasks, va \in UserPages : Translated(u, va)' = Translated(u, va)
  <2>1. \A u \in Tasks : Followed(u)' => Followed(u)
    BY DEF Followed, Walking
  <2> QED
    BY <2>1, KeepsSpaces DEF SInv, Filled
<1>2. /\ TypeOK /\ CallOK(t) /\ WalkOK(t) /\ CopyOK(t) /\ RestOK(t)
      /\ at[t].dst \in Tasks /\ Head(at[t].rest) \in UserPages
  BY CallFacts DEF SInv
<1>3. PICK dst, va : dst = at[t].dst /\ va = Head(at[t].rest)
  OBVIOUS
<1>4. \A n : Reached(dst, va, n)' = Reached(dst, va, n)
  BY KeepsReached
<1>5. WalkOK(t)'
  <2>1. PICK l : l = at'[t].level
    OBVIOUS
  <2>2. ~HasPage(dst, va)'
    BY <1>2, <1>3 DEF WalkOK, HasPage
  <2> QED
    BY <1>2, <1>3, <1>4, <2>1, <2>2, WalkLater DEF WalkOK
<1>6. CopyOK(t)'
  <2>1. PICK rest : rest = at[t].rest
    OBVIOUS
  <2>2. ASSUME at[t].job = "fork", NEW vb \in UserPages, HasPage(dst, vb)'
        PROVE  Content(dst, vb)' = Content(t, vb)'
    <3>1. HasPage(dst, vb)
      BY <2>2 DEF HasPage
    <3>2. Content(dst, vb) = Content(t, vb)
      BY <1>2, <1>3, <2>2, <3>1 DEF CopyOK
    <3> QED
      BY <1>1, <1>2, <1>3, <3>2 DEF Content
  <2>3. at[t].job = "fork" => user_pages[t] = user_pages[dst] \o rest
    BY <1>2, <1>3, <2>1 DEF CopyOK
  <2> QED
    BY <1>3, <2>1, <2>2, <2>3, CopyLater
<1>7. Walks'
  BY <1>5, <1>6, KeepsWalks DEF Live, Walking
<1> QED
  BY <1>1, <1>7 DEF SInv

\* The word that a walk looks at is the next step of the walk for its page.
LEMMA EntryReached ==
  ASSUME IInv, Walks, NEW t \in Tasks, pc[t] = "walk", at[t].level < Leaf,
         NEW n, n = at[t].level + 1
  PROVE  n \in 3 .. 6 /\ Entry(t) = Reached(at[t].dst, Head(at[t].rest), n)
<1> DEFINE a == at[t]
<1>1. /\ TypeOK /\ CallOK(t) /\ WalkOK(t) /\ a.level \in 0 .. 6
  BY CallFacts DEF Walking
<1>2. a.level \in 2 .. 5 /\ n \in 3 .. 6
  BY <1>1 DEF CallOK, Pgd, Leaf
<1>3. CASE a.level = 2
  BY <1>2, <1>3, ReachedEnds DEF Entry, Pgd
<1>4. CASE a.level \in 3 .. 5
  <2>1. a.table \in Pages /\ a.table = Reached(a.dst, Head(a.rest), a.level)
    BY <1>1, <1>4, MapType DEF CallOK, WalkOK, Pud, Leaf
  <2>2. Reached(a.dst, Head(a.rest), n) = Below(a.table, Head(a.rest), a.level)
    BY <1>4, <2>1, ReachedStep
  <2> QED
    BY <1>2, <1>4, <2>1, <2>2 DEF Below, Entry, Pgd
<1> QED
  BY <1>2, <1>3, <1>4

LEMMA SeeSpaces ==
  ASSUME IInv, SInv, NEW t \in Tasks, See(t)
  PROVE  SInv'
<1>1. /\ Runs(t) /\ Walking(t) /\ pc[t] = "see" /\ pc' = [pc EXCEPT ![t] = "mark"]
      /\ UNCHANGED <<mem_map, table, data, task, pgd, user_pages, page0>>
      /\ \E p \in Unmarked : at' = [at EXCEPT ![t].page = p]
  BY DEF See, Walking
<1>2. /\ at \in [Tasks -> Calls] /\ WalkOK(t) /\ CallOK(t) /\ at[t].level \in 0 .. 6
  BY <1>1, CallFacts DEF SInv
<1>3. /\ at'[t].job = at[t].job /\ at'[t].dst = at[t].dst /\ at'[t].rest = at[t].rest
      /\ at'[t].user = at[t].user /\ at'[t].level = at[t].level /\ at'[t].table = at[t].table
      /\ \A u \in Tasks : u # t => at'[u] = at[u]
  BY <1>1, <1>2 DEF Calls
<1>4. \A u \in Tasks : u # t => pc'[u] = pc[u]
  BY <1>1 DEF IInv, TypeOK
<1>5. /\ at[t].level \in Pud .. Leaf => at[t].table = Reached(at[t].dst, Head(at[t].rest), at[t].level)
      /\ at[t].level >= Pgd => Reached(at[t].dst, Head(at[t].rest), at[t].level + 1) = NoEntry
  BY <1>1, <1>2 DEF WalkOK
<1> QED
  BY <1>1, <1>3, <1>4, <1>5, OnTheWaySpaces

LEMMA NeedTableSpaces ==
  ASSUME IInv, SInv, NEW t \in Tasks, NeedTable(t)
  PROVE  SInv'
<1>1. /\ Runs(t) /\ Walking(t) /\ pc[t] = "walk" /\ at[t].level < Leaf /\ Entry(t) = NoEntry
      /\ UNCHANGED <<mem_map, table, data, task, pgd, user_pages, at, page0>>
      /\ pc' = [pc EXCEPT ![t] = "see"]
  BY DEF NeedTable, Walking, Missing
<1>2. WalkOK(t)
  BY <1>1, CallFacts DEF SInv
<1>3. \A u \in Tasks : u # t => pc'[u] = pc[u]
  BY <1>1 DEF IInv, TypeOK
<1>4. \A n : n = at[t].level + 1 => Reached(at[t].dst, Head(at[t].rest), n) = NoEntry
  BY <1>1, EntryReached DEF SInv
<1>5. at[t].level \in Pud .. Leaf => at[t].table = Reached(at[t].dst, Head(at[t].rest), at[t].level)
  BY <1>2 DEF WalkOK
<1> QED
  BY <1>1, <1>3, <1>4, <1>5, OnTheWaySpaces

LEMMA DescendSpaces ==
  ASSUME IInv, SInv, NEW t \in Tasks, Descend(t)
  PROVE  SInv'
<1>1. /\ Runs(t) /\ Walking(t) /\ pc[t] = "walk" /\ at[t].level < Leaf
      /\ UNCHANGED <<mem_map, table, data, task, pgd, user_pages, pc, page0>>
      /\ at' = [at EXCEPT ![t].level = at[t].level + 1, ![t].table = Entry(t)]
  BY DEF Descend, Walking
<1>2. at \in [Tasks -> Calls] /\ at[t].level \in 0 .. 6
  BY <1>1, CallFacts DEF SInv
<1>3. /\ at'[t].job = at[t].job /\ at'[t].dst = at[t].dst /\ at'[t].rest = at[t].rest
      /\ at'[t].user = at[t].user /\ at'[t].level = at[t].level + 1 /\ at'[t].table = Entry(t)
      /\ \A u \in Tasks : u # t => at'[u] = at[u]
  BY <1>1, <1>2 DEF Calls
<1>4. PICK n : n = at[t].level + 1
  OBVIOUS
<1>5. n \in 3 .. 6 /\ Entry(t) = Reached(at[t].dst, Head(at[t].rest), n)
  BY <1>1, <1>4, EntryReached DEF SInv
<1>6. (n >= Pgd) <=> (at[t].level >= Pgd)
  BY <1>2, <1>4, <1>5 DEF Pgd
<1> QED
  BY <1>1, <1>3, <1>4, <1>5, <1>6, OnTheWaySpaces

LEMMA NoneLeftSpaces ==
  ASSUME IInv, SInv, NEW t \in Tasks, NoneLeft(t)
  PROVE  SInv'
<1>1. /\ Runs(t) /\ Walking(t) /\ Live(t) /\ pc[t] = "see"
      /\ UNCHANGED <<mem_map, table, data, task, pgd, user_pages, ind, page0>>
  BY DEF NoneLeft, Walking, Live
<1>2. /\ TypeOK /\ at \in [Tasks -> Calls] /\ WalkOK(t) /\ at[t].dst \in Tasks
      /\ at[t].level <= UserPage /\ RestOK(t)
  BY <1>1, CallFacts DEF SInv, NoneLeft, TaskStruct, UserPage
<1>3. at[t].user = 0
  BY <1>2, CallType DEF WalkOK, Pgd, UserPage
<1>4. /\ at' = [at EXCEPT ![t] = Idle]
      /\ \/ pc' = [pc EXCEPT ![t] = "failed"]
         \/ at[t].job # "fork" /\ pc' = [pc EXCEPT ![t] = "hung", ![at[t].dst] = "hung"]
         \/ /\ at[t].job = "fork"
            /\ pc' = [pc EXCEPT ![t] = "user", ![at[t].dst] =
                                  IF user_pages[at[t].dst] = <<>> THEN "hung" ELSE "user"]
  BY DEF NoneLeft, Finish
<1>5. \A u \in Tasks : at'[u].user = at[u].user \/ at[u].user = 0
  BY <1>2, <1>3, <1>4
<1>6. /\ \A u \in Tasks : u # t => pc'[u] = pc[u] \/ pc'[u] \in {"user", "hung", "astray"}
      /\ ~Walking(t)'
  BY <1>2, <1>4 DEF TypeOK, Walking
<1>7. \A u \in Tasks : Followed(u)' => Followed(u)
  <2>1. at[t].job = "fork" => pc[at[t].dst] = "none"
    BY <1>2 DEF RestOK
  <2> QED
    BY <1>1, <1>2, <1>4, <2>1 DEF TypeOK, Followed
<1>8. Walks'
  BY <1>1, <1>6, KeepsWalks
<1>9. Maps' /\ Filled' /\ Fresh' /\ NoPageLost'
  BY <1>1, <1>5, <1>7, KeepsSpaces DEF SInv, Filled
<1> QED
  BY <1>8, <1>9 DEF SInv

\* A page that is handed out is held at once, and no other is let go.
LEMMA MarkLosesNone ==
  ASSUME IInv, SInv, NEW t \in Tasks, Mark(t)
  PROVE  NoPageLost'
<1> DEFINE a == at[t]
<1>1. /\ TypeOK /\ Cleared /\ CallOK(t) /\ WalkOK(t) /\ RestOK(t) /\ pc[t] = "mark"
      /\ at \in [Tasks -> Calls] /\ a.dst \in Tasks /\ Head(a.rest) \in UserPages
  BY CallFacts DEF SInv, Mark, Walking
<1>2. PICK dst, vb, L, q0, page : /\ dst = a.dst /\ vb = Head(a.rest) /\ L = a.level
                                  /\ q0 = a.table /\ page = a.page
  OBVIOUS
<1>3. /\ page \in DOMAIN mem_map /\ page \in Pages /\ mem_map[page] = 0
      /\ L \in 0 .. 5
      /\ L = 2 => pgd'[dst] = page
      /\ \A u \in Tasks : L # 2 \/ u # dst => pgd'[u] = pgd[u]
      /\ L \in 3 .. 5 => q0 \in Pages /\ table'[q0][Index(vb, L)] = page
      /\ \A q \in Pages, i \in 0 .. PTRS_PER_TABLE - 1 :
           /\ q # page
           /\ ~(L \in 3 .. 5 /\ q = q0 /\ i = Index(vb, L))
           => table'[q][i] = table[q][i]
  BY <1>2, MarkTables DEF SInv
<1>4. /\ mem_map' = [mem_map EXCEPT ![page] = 1]
      /\ task' = IF L = 0 THEN [task EXCEPT ![dst] = page] ELSE task
  BY <1>2 DEF Mark, TaskStruct
<1>5. /\ at'[t].user = IF L = 1 THEN page ELSE a.user
      /\ \A u \in Tasks : u # t => at'[u].user = at[u].user
  BY <1>1, <1>2 DEF Mark, Calls, UserPage
<1>6. /\ DOMAIN mem_map' = DOMAIN mem_map
      /\ \A p \in DOMAIN mem_map : mem_map'[p] = 1 => p = page \/ mem_map[p] = 1
      /\ \A p \in DOMAIN mem_map : p # 0 /\ p # Junk
  <2>1. \A p \in DOMAIN mem_map : p # 0 /\ p # Junk
    BY <1>1, MapType, MemoryAssumption DEF Junk, Pages
  <2> QED
    BY <1>1, <1>3, <1>4, <2>1, MapType
<1>7. \E s \in Slots : Held(s)' = page
  <2>1. CASE L = 0
    <3>1. <<"task_struct", dst>> \in Slots /\ Held(<<"task_struct", dst>>)' = page
      BY <1>1, <1>2, <1>4, <2>1 DEF Slots, Held, TypeOK
    <3> QED
      BY <3>1
  <2>2. CASE L = 1
    <3>1. <<"new", t>> \in Slots /\ Held(<<"new", t>>)' = page
      BY <1>5, <2>2 DEF Slots, Held
    <3> QED
      BY <3>1
  <2>3. CASE L = 2
    <3>1. <<"pgd", dst>> \in Slots /\ Held(<<"pgd", dst>>)' = page
      BY <1>1, <1>2, <1>3, <2>3 DEF Slots, Held
    <3> QED
      BY <3>1
  <2>4. CASE L \in 3 .. 5
    <3>1. PICK i \in 0 .. PTRS_PER_TABLE - 1 : i = Index(vb, L)
      BY <1>1, <1>2, IndexType
    <3>2. <<"entry", q0, i>> \in Slots /\ Held(<<"entry", q0, i>>)' = page
      BY <1>3, <2>4, <3>1 DEF Slots, Held
    <3> QED
      BY <3>2
  <2> QED
    BY <1>3, <2>1, <2>2, <2>3, <2>4
<1>8. ASSUME NEW s \in Slots, Held(s) \in DOMAIN mem_map, mem_map[Held(s)] = 1
      PROVE  Held(s)' = Held(s)
  <2>1. CASE \E u \in Tasks : s = <<"task_struct", u>> /\ Held(s) = task[u] /\ Held(s)' = task'[u]
    <3>1. PICK u \in Tasks : s = <<"task_struct", u>> /\ Held(s) = task[u] /\ Held(s)' = task'[u]
      BY <2>1
    <3>2. L = 0 => task[dst] = 0
      BY <1>1, <1>2 DEF CallOK, RestOK, TaskStruct
    <3>3. task[u] # 0
      BY <1>6, <1>8, <3>1
    <3> QED
      BY <1>1, <1>4, <3>1, <3>2, <3>3 DEF TypeOK
  <2>2. CASE \E u \in Tasks : s = <<"pgd", u>> /\ Held(s) = pgd[u] /\ Held(s)' = pgd'[u]
    <3>1. PICK u \in Tasks : s = <<"pgd", u>> /\ Held(s) = pgd[u] /\ Held(s)' = pgd'[u]
      BY <2>2
    <3>2. L = 2 => pgd[dst] = 0
      <4>1. L = 2 => Reached(dst, vb, 3) = 0
        BY <1>1, <1>2 DEF WalkOK, Pgd, NoEntry
      <4> QED
        BY <4>1, ReachedEnds
    <3>3. pgd[u] # 0
      BY <1>6, <1>8, <3>1
    <3> QED
      BY <1>3, <3>1, <3>2, <3>3
  <2>3. CASE \E u \in Tasks : s = <<"new", u>> /\ Held(s) = at[u].user /\ Held(s)' = at'[u].user
    <3>1. PICK u \in Tasks : s = <<"new", u>> /\ Held(s) = at[u].user /\ Held(s)' = at'[u].user
      BY <2>3
    <3>2. L = 1 => a.user = 0
      BY <1>1, <1>2 DEF WalkOK, Pgd
    <3>3. at[u].user # 0
      BY <1>6, <1>8, <3>1
    <3> QED
      BY <1>5, <3>1, <3>2, <3>3
  <2>4. CASE \E q \in Pages, i \in 0 .. PTRS_PER_TABLE - 1 :
               s = <<"entry", q, i>> /\ Held(s) = table[q][i] /\ Held(s)' = table'[q][i]
    <3>1. PICK q \in Pages, i \in 0 .. PTRS_PER_TABLE - 1 :
                 s = <<"entry", q, i>> /\ Held(s) = table[q][i] /\ Held(s)' = table'[q][i]
      BY <2>4
    <3>2. q # page
      BY <1>3, <1>6, <1>8, <3>1 DEF SInv, Fresh
    <3>3. ASSUME L \in 3 .. 5, q = q0, i = Index(vb, L)
          PROVE  FALSE
      <4>1. q0 = Reached(dst, vb, L) /\ Reached(dst, vb, L + 1) = 0
        BY <1>1, <1>2, <3>3 DEF WalkOK, Pgd, Pud, Leaf, NoEntry
      <4>2. Reached(dst, vb, L + 1) = table[q0][i]
        BY <3>3, <4>1, ReachedStep DEF Below
      <4> QED
        BY <1>6, <1>8, <3>1, <3>3, <4>1, <4>2
    <3> QED
      BY <1>3, <3>1, <3>2, <3>3
  <2>5. CASE s = <<"page", 0>> /\ Held(s) = page0 /\ Held(s)' = page0'
    BY <2>5 DEF Mark
  <2> QED
    BY <2>1, <2>2, <2>3, <2>4, <2>5, SlotKinds, Zenon
<1>9. ASSUME NEW p \in DOMAIN mem_map, mem_map'[p] = 1
      PROVE  \E s \in Slots : Held(s)' = p
  <2>1. CASE p = page
    BY <1>7, <2>1
  <2>2. CASE mem_map[p] = 1
    <3>1. PICK s \in Slots : Held(s) = p
      BY <2>2 DEF SInv, NoPageLost
    <3> QED
      BY <1>8, <2>2, <3>1
  <2> QED
    BY <1>6, <1>9, <2>1, <2>2
<1> QED
  BY <1>6, <1>9 DEF NoPageLost, Slots

\* A page that is not marked is nobody's memory: what Mark clears is not seen.
LEMMA MarkContents ==
  ASSUME IInv, SInv, NEW t \in Tasks, Mark(t), NEW u \in Tasks, NEW va \in UserPages
  PROVE  Content(u, va)' = Content(u, va)
<1>1. PICK page : page = at[t].page
  OBVIOUS
<1>2. /\ page \in DOMAIN mem_map /\ page \in Pages /\ mem_map[page] = 0
      /\ data' = [data EXCEPT ![page] = Zero]
  BY <1>1, MarkTables DEF SInv, Mark
<1>3. Translated(u, va)' = Translated(u, va)
  BY MarkWalks DEF SInv
<1>4. Translated(u, va) # page
  <2>1. 7 \in 3 .. 7 /\ page # 0
    BY <1>2 DEF Pages
  <2>2. Reached(u, va, 7) # 0 => mem_map[Reached(u, va, 7)] = 1
    BY <2>1, ReachedMarked DEF IInv
  <2> QED
    BY <1>2, <2>1, <2>2, ReachedEnds
<1>5. \A p \in Pages : p # page => data'[p] = data[p]
  BY <1>2 DEF IInv, TypeOK
<1> QED
  BY <1>3, <1>4, <1>5 DEF Content, Pages

LEMMA MarkSpaces ==
  ASSUME IInv, SInv, NEW t \in Tasks, Mark(t)
  PROVE  SInv'
<1> DEFINE a == at[t]
<1>1. /\ TypeOK /\ Cleared /\ PagesOwned /\ CallOK(t) /\ WalkOK(t) /\ CopyOK(t)
      /\ Runs(t) /\ pc[t] = "mark" /\ Live(t)
      /\ at \in [Tasks -> Calls] /\ a.dst \in Tasks /\ Head(a.rest) \in UserPages
      /\ a.user \in 0 .. Len(mem_map)
  BY CallFacts DEF SInv, Mark, Walking, Live
<1>2. PICK dst, vb, L, q0, page : /\ dst = a.dst /\ vb = Head(a.rest) /\ L = a.level
                                  /\ q0 = a.table /\ page = a.page
  OBVIOUS
<1>3. /\ page \in DOMAIN mem_map /\ page \in Pages /\ mem_map[page] = 0
      /\ L \in 0 .. 5
      /\ \A q \in Pages, i \in 0 .. PTRS_PER_TABLE - 1 :
           /\ q # page
           /\ ~(L \in 3 .. 5 /\ q = q0 /\ i = Index(vb, L))
           => table'[q][i] = table[q][i]
  BY <1>2, MarkTables DEF SInv
<1>4. /\ \A u \in Tasks, va \in UserPages : Translated(u, va)' = Translated(u, va)
      /\ L \in 2 .. 5 => Reached(dst, vb, L + 1)' = page
  BY <1>2, MarkWalks DEF SInv
<1>5. /\ mem_map' = [mem_map EXCEPT ![page] = 1]
      /\ data' = [data EXCEPT ![page] = Zero]
      /\ UNCHANGED user_pages
      /\ pc' = [pc EXCEPT ![t] = IF L = 0 THEN "see" ELSE "walk"]
  BY <1>2 DEF Mark, TaskStruct
<1>6. /\ at'[t].level = L + 1 /\ at'[t].job = a.job /\ at'[t].dst = dst /\ at'[t].rest = a.rest
      /\ at'[t].user = IF L = 1 THEN page ELSE a.user
      /\ at'[t].table = IF L >= 2 THEN page ELSE q0
      /\ \A u \in Tasks : u # t => at'[u] = at[u]
  BY <1>1, <1>2 DEF Mark, Calls, UserPage, Pgd
<1>7. Maps'
  <2>1. \A u \in Tasks : u # t => pc'[u] = pc[u]
    BY <1>1, <1>5 DEF TypeOK
  <2>2. \A u \in Tasks : Followed(u)' => Followed(u)
    BY <1>1, <2>1 DEF Followed
  <2> QED
    BY <1>4, <1>5, <2>2 DEF SInv, Maps, HasPage
<1>8. /\ \A p \in Pages : p # page => data'[p] = data[p]
      /\ data'[page] = Zero /\ Zero # NoPage
  BY <1>1, <1>3, <1>5, MemoryAssumption DEF TypeOK
<1>9. Filled'
  BY <1>8 DEF SInv, Filled
<1>10. Fresh'
  <2>1. SUFFICES ASSUME NEW p \in DOMAIN mem_map, mem_map'[p] = 0,
                        NEW i \in 0 .. PTRS_PER_TABLE - 1
                 PROVE  table'[p][i] = Junk
    BY <1>5 DEF Fresh, Junk
  <2>2. p # page /\ mem_map[p] = 0 /\ p \in Pages
    BY <1>1, <1>3, <1>5, <2>1, MapType
  <2>3. L \in 3 .. 5 => q0 # p
    BY <1>1, <1>2, <2>2 DEF CallOK, Pud, Leaf
  <2> QED
    BY <1>3, <2>2, <2>3 DEF SInv, Fresh
<1>11. \A u \in Tasks, va \in UserPages : Content(u, va)' = Content(u, va)
  BY MarkContents
<1>12. CopyOK(t)'
  <2>1. PICK rest : rest = a.rest
    OBVIOUS
  <2>2. ASSUME a.job = "fork", NEW va \in UserPages, HasPage(dst, va)'
        PROVE  Content(dst, va)' = Content(t, va)'
    <3>1. HasPage(dst, va)
      BY <1>5, <2>2 DEF HasPage
    <3>2. Content(dst, va) = Content(t, va)
      BY <1>1, <1>2, <2>2, <3>1 DEF CopyOK
    <3> QED
      BY <1>1, <1>2, <1>11, <3>2
  <2>3. a.job = "fork" => user_pages'[t] = user_pages'[dst] \o rest
    BY <1>1, <1>2, <1>5, <2>1 DEF CopyOK
  <2>4. at'[t].job = "fork" =>
          /\ user_pages'[t] = user_pages'[dst] \o rest
          /\ \A va \in UserPages : HasPage(dst, va)' => Content(dst, va)' = Content(t, va)'
    BY <1>6, <2>2, <2>3
  <2>5. dst = at'[t].dst /\ rest = at'[t].rest
    BY <1>6, <2>1
  <2> QED
    BY <2>4, <2>5, CopyLater
<1>13. WalkOK(t)'
  <2>1. ~HasPage(dst, vb)'
    BY <1>1, <1>2, <1>5 DEF WalkOK, HasPage
  <2>2. vb = Head(at'[t].rest)
    BY <1>2, <1>6
  <2>3. PICK l : l = L + 1 /\ l \in 1 .. 6
    BY <1>3
  <2>4. l \in Pud .. Leaf => at'[t].table = Reached(dst, vb, l)'
    BY <1>3, <1>4, <1>6, <2>3 DEF Pud, Leaf
  <2>5. l >= Pgd => pc'[t] = "walk"
    BY <1>1, <1>3, <1>5, <2>3 DEF Pgd, TypeOK
  <2>6. IF l >= Pgd THEN at'[t].user # 0 /\ data'[at'[t].user] = Zero ELSE at'[t].user = 0
    <3>1. CASE L = 0
      BY <1>1, <1>2, <1>6, <2>3, <3>1 DEF WalkOK, Pgd
    <3>2. CASE L = 1
      BY <1>3, <1>6, <1>8, <2>3, <3>2 DEF Pgd, Pages
    <3>3. CASE L \in 2 .. 5
      <4>1. a.user # 0 /\ data[a.user] = Zero
        BY <1>1, <1>2, <3>3 DEF WalkOK, Pgd
      <4>2. a.user \in Pages
        BY <1>1, <4>1, MapType
      <4>3. data'[a.user] = Zero
        BY <1>8, <4>1, <4>2
      <4> QED
        BY <1>6, <2>3, <3>3, <4>1, <4>3 DEF Pgd
    <3> QED
      BY <1>3, <3>1, <3>2, <3>3
  <2> QED
    BY <1>6, <2>1, <2>2, <2>3, <2>4, <2>5, <2>6, WalkLater
<1>14. Walks'
  <2>1. \A u \in Tasks : u # t => pc'[u] = pc[u]
    BY <1>1, <1>5 DEF TypeOK
  <2> QED
    BY <1>1, <1>12, <1>13, <2>1, KeepsWalks
<1> QED
  BY <1>7, <1>9, <1>10, <1>14, MarkLosesNone DEF SInv

\* A sequence and the rest of one.
LEMMA Shift ==
  ASSUME NEW r \in Seq(UserPages), NEW s \in Seq(UserPages), s # <<>>
  PROVE  /\ r \o s = Append(r, Head(s)) \o Tail(s)
         /\ (r \o s)[Len(r) + 1] = Head(s) /\ Len(r) + 1 \in DOMAIN (r \o s)
         /\ \A i \in 1 .. Len(r) : i \in DOMAIN (r \o s) /\ (r \o s)[i] = r[i]
         /\ Tail(s) # <<>> => /\ (r \o s)[Len(r) + 2] = Head(Tail(s))
                              /\ Len(r) + 2 \in DOMAIN (r \o s)
<1>1. /\ Len(r \o s) = Len(r) + Len(s) /\ Len(s) \in Nat \ {0} /\ Len(r) \in Nat
      /\ \A i \in 1 .. Len(r) + Len(s) :
           (r \o s)[i] = IF i <= Len(r) THEN r[i] ELSE s[i - Len(r)]
  OBVIOUS
<1>2. /\ Tail(s) \in Seq(UserPages) /\ Len(Tail(s)) = Len(s) - 1
      /\ \A i \in 1 .. Len(s) - 1 : Tail(s)[i] = s[i + 1]
      /\ Head(s) = s[1] /\ Head(s) \in UserPages
  OBVIOUS
<1>3. /\ Append(r, Head(s)) \in Seq(UserPages) /\ Len(Append(r, Head(s))) = Len(r) + 1
      /\ \A i \in 1 .. Len(r) + 1 :
           Append(r, Head(s))[i] = IF i <= Len(r) THEN r[i] ELSE s[1]
  BY <1>2
<1>4. r \o s = Append(r, Head(s)) \o Tail(s)
  <2> DEFINE x == Append(r, Head(s))
             y == Tail(s)
  <2>1. /\ x \o y \in Seq(UserPages) /\ Len(x \o y) = Len(x) + Len(y)
        /\ \A i \in 1 .. Len(x) + Len(y) :
             (x \o y)[i] = IF i <= Len(x) THEN x[i] ELSE y[i - Len(x)]
    BY <1>2, <1>3
  <2>2. r \o s \in Seq(UserPages)
    OBVIOUS
  <2>3. Len(x \o y) = Len(r \o s)
    BY <1>1, <1>2, <1>3, <2>1
  <2>4. ASSUME NEW i \in 1 .. Len(r \o s)
        PROVE  (x \o y)[i] = (r \o s)[i]
    <3>1. (x \o y)[i] = IF i <= Len(r) + 1 THEN x[i] ELSE y[i - (Len(r) + 1)]
      BY <1>1, <1>2, <1>3, <2>1
    <3>2. CASE i <= Len(r) + 1
      BY <1>1, <1>3, <3>1, <3>2
    <3>3. CASE i > Len(r) + 1
      <4>1. i - (Len(r) + 1) \in 1 .. Len(s) - 1 /\ (i - (Len(r) + 1)) + 1 = i - Len(r)
        BY <1>1, <3>3
      <4>2. y[i - (Len(r) + 1)] = s[i - Len(r)]
        BY <1>2, <4>1
      <4> HIDE DEF x, y
      <4> QED
        BY <1>1, <3>1, <3>3, <4>2
    <3> QED
      BY <1>1, <3>2, <3>3
  <2> HIDE DEF x, y
  <2>5. x \o y = r \o s
    BY <2>1, <2>2, <2>3, <2>4, SeqEqual
  <2> QED
    BY <2>5 DEF x, y
<1>5. DOMAIN (r \o s) = 1 .. Len(r) + Len(s)
  BY <1>1
<1>6. Tail(s) # <<>> => Head(Tail(s)) = s[2] /\ Len(s) >= 2
  BY <1>2
<1> QED
  BY <1>1, <1>2, <1>4, <1>5, <1>6

\* What recording a page does to the pages a task has and to memory.
LEMMA RecordedFacts ==
  ASSUME IInv, SInv, NEW t \in Tasks, Walking(t), at[t].level >= Pgd, Recorded(t),
         NEW dst \in Tasks, NEW vb \in UserPages, NEW page, NEW job,
         dst = at[t].dst, vb = Head(at[t].rest), page = at[t].user, job = at[t].job
  PROVE  /\ user_pages'[dst] = Append(user_pages[dst], vb)
         /\ \A u \in Tasks : u # dst => user_pages'[u] = user_pages[u]
         /\ \A u \in Tasks : \A va : HasPage(u, va)' <=> HasPage(u, va) \/ (u = dst /\ va = vb)
         /\ \A u \in Tasks : \A i, j \in DOMAIN user_pages'[u] :
              user_pages'[u][i] = user_pages'[u][j] => i = j
         /\ ~HasPage(dst, vb) /\ page \in Pages /\ page \in DOMAIN mem_map
         /\ \A p \in Pages : p # page => data'[p] = data[p]
         /\ data'[page] = IF job = "load" THEN Code
                          ELSE IF job = "fork" THEN Content(t, vb) ELSE Zero
         /\ data'[page] # NoPage
         /\ job = "fork" => t # dst /\ HasPage(t, vb) /\ Content(t, vb) # NoPage
<1>1. /\ TypeOK /\ Cleared /\ PagesOwned /\ CallOK(t) /\ WalkOK(t) /\ CopyOK(t) /\ RestOK(t)
      /\ at[t].rest \in Seq(UserPages) /\ at[t].rest # <<>> /\ page \in 0 .. Len(mem_map)
  BY CallFacts DEF SInv
<1>2. page \in DOMAIN mem_map /\ page \in Pages /\ data[page] = Zero
  BY <1>1, MapType DEF WalkOK
<1>3. /\ user_pages' = [user_pages EXCEPT ![dst] = Append(user_pages[dst], vb)]
      /\ data' = IF job = "load" THEN [data EXCEPT ![page] = Code]
                 ELSE IF job = "fork" THEN [data EXCEPT ![page] = Content(t, vb)] ELSE data
  BY DEF Recorded, Copied
<1>4. /\ user_pages'[dst] = Append(user_pages[dst], vb)
      /\ \A u \in Tasks : u # dst => user_pages'[u] = user_pages[u]
      /\ \A u \in Tasks : user_pages[u] \in Seq(UserPages)
  BY <1>1, <1>3 DEF TypeOK
<1>5. ASSUME NEW u \in Tasks, NEW va
      PROVE  HasPage(u, va)' <=> HasPage(u, va) \/ (u = dst /\ va = vb)
  <2>1. CASE u # dst
    BY <1>4, <2>1 DEF HasPage
  <2>2. CASE u = dst
    <3> DEFINE up == user_pages[dst]
    <3>1. /\ DOMAIN Append(up, vb) = 1 .. Len(up) + 1 /\ DOMAIN up = 1 .. Len(up)
          /\ \A i \in 1 .. Len(up) : Append(up, vb)[i] = up[i]
          /\ Append(up, vb)[Len(up) + 1] = vb /\ Len(up) \in Nat
      BY <1>4
    <3>2. \A i \in 1 .. Len(up) + 1 : i \in 1 .. Len(up) \/ i = Len(up) + 1
      BY <3>1
    <3>3. 1 .. Len(up) \subseteq 1 .. Len(up) + 1 /\ Len(up) + 1 \in 1 .. Len(up) + 1
      BY <3>1
    <3> HIDE DEF up
    <3>4. HasPage(u, va) <=> \E i \in 1 .. Len(up) : up[i] = va
      BY <2>2, <3>1 DEF HasPage, up
    <3>5. HasPage(u, va)' <=> \E i \in 1 .. Len(up) + 1 : Append(up, vb)[i] = va
      BY <1>4, <2>2, <3>1 DEF HasPage, up
    <3> QED
      BY <2>2, <3>1, <3>2, <3>3, <3>4, <3>5
  <2> QED
    BY <2>1, <2>2
<1>6. ~HasPage(dst, vb)
  BY <1>1 DEF WalkOK
<1>7. ASSUME job = "fork"
      PROVE  t # dst /\ HasPage(t, vb) /\ Content(t, vb) # NoPage
  <2>1. t # dst /\ user_pages[t] = user_pages[dst] \o at[t].rest
    BY <1>1, <1>7 DEF RestOK, CopyOK
  <2>2. HasPage(t, vb)
    <3>1. PICK r \in Seq(UserPages), s \in Seq(UserPages) :
                 r = user_pages[dst] /\ s = at[t].rest /\ s # <<>>
      BY <1>1, <1>4
    <3>2. (r \o s)[Len(r) + 1] = Head(s) /\ Len(r) + 1 \in DOMAIN (r \o s)
      BY <3>1, Shift
    <3>3. user_pages[t] = r \o s /\ Head(s) = vb
      BY <2>1, <3>1
    <3> QED
      BY <3>2, <3>3 DEF HasPage
  <2>3. Translated(t, vb) # 0
    BY <2>2 DEF SInv, Maps, NoEntry, Followed, Walking
  <2>4. Translated(t, vb) \in Pages
    <3>1. 7 \in 3 .. 7
      OBVIOUS
    <3>2. Reached(t, vb, 7) = Translated(t, vb)
      BY ReachedEnds
    <3>3. Reached(t, vb, 7) # 0 => Reached(t, vb, 7) \in Pages
      BY <1>1, <3>1, ReachedMarked
    <3> QED
      BY <2>3, <3>2, <3>3
  <2> QED
    BY <2>1, <2>2, <2>4 DEF Content, SInv, Filled
<1>8. /\ \A p \in Pages : p # page => data'[p] = data[p]
      /\ data'[page] = IF job = "load" THEN Code
                       ELSE IF job = "fork" THEN Content(t, vb) ELSE Zero
  BY <1>1, <1>2, <1>3 DEF TypeOK
<1>9. data'[page] # NoPage
  BY <1>7, <1>8, MemoryAssumption
<1>10. ASSUME NEW u \in Tasks, NEW i \in DOMAIN user_pages'[u], NEW j \in DOMAIN user_pages'[u],
             user_pages'[u][i] = user_pages'[u][j]
      PROVE  i = j
  <2>1. CASE u # dst
    BY <1>4, <1>10, <2>1 DEF SInv, Maps
  <2>2. CASE u = dst
    <3> DEFINE up == user_pages[dst]
    <3>1. /\ up \in Seq(UserPages) /\ DOMAIN up = 1 .. Len(up) /\ Len(up) \in Nat
          /\ DOMAIN Append(up, vb) = 1 .. Len(up) + 1
          /\ \A k \in 1 .. Len(up) : Append(up, vb)[k] = up[k]
          /\ Append(up, vb)[Len(up) + 1] = vb
      BY <1>4
    <3>2. /\ i \in 1 .. Len(up) \/ i = Len(up) + 1
          /\ j \in 1 .. Len(up) \/ j = Len(up) + 1
      <4>1. \A m \in Nat : \A k \in 1 .. m + 1 : k \in 1 .. m \/ k = m + 1
        OBVIOUS
      <4>2. i \in 1 .. Len(up) + 1 /\ j \in 1 .. Len(up) + 1
        BY <1>4, <1>10, <2>2, <3>1
      <4> QED
        BY <3>1, <4>1, <4>2, Zenon
    <3>3. \A k \in 1 .. Len(up) : up[k] # vb
      BY <1>6, <3>1 DEF HasPage
    <3>4. \A k, l \in 1 .. Len(up) : up[k] = up[l] => k = l
      BY <3>1 DEF SInv, Maps
    <3> HIDE DEF up
    <3>5. Append(up, vb)[i] = Append(up, vb)[j]
      BY <1>4, <1>10, <2>2 DEF up
    <3> QED
      BY <3>1, <3>2, <3>3, <3>4, <3>5
  <2> QED
    BY <2>1, <2>2
<1> QED
  BY <1>2, <1>4, <1>5, <1>6, <1>7, <1>8, <1>9, <1>10

\* What Enter does to the pages a task has and to what they contain.
LEMMA EnterFacts ==
  ASSUME IInv, SInv, NEW t \in Tasks, Enter(t),
         NEW dst \in Tasks, NEW vb \in UserPages, NEW page, NEW job,
         dst = at[t].dst, vb = Head(at[t].rest), page = at[t].user, job = at[t].job
  PROVE  /\ user_pages'[dst] = Append(user_pages[dst], vb)
         /\ \A u \in Tasks : u # dst => user_pages'[u] = user_pages[u]
         /\ \A u \in Tasks : \A va : HasPage(u, va)' <=> HasPage(u, va) \/ (u = dst /\ va = vb)
         /\ ~HasPage(dst, vb) /\ page \in Pages
         /\ \A p \in Pages : p # page => data'[p] = data[p]
         /\ data'[page] = IF job = "load" THEN Code
                          ELSE IF job = "fork" THEN Content(t, vb) ELSE Zero
         /\ data'[page] # NoPage
         /\ job = "fork" => t # dst /\ HasPage(t, vb) /\ Content(t, vb) # NoPage
         /\ \A u \in Tasks, va \in UserPages :
              u # dst \/ va # vb => Content(u, va)' = Content(u, va)
         /\ Content(dst, vb)' = data'[page] /\ Content(dst, vb) = NoPage
<1>1. Walking(t) /\ at[t].level >= Pgd /\ Recorded(t)
  BY DEF Enter, Walking, Pgd, Leaf
<1>2. /\ Translated(dst, vb) = 0 /\ Translated(dst, vb)' = page
      /\ page \in DOMAIN mem_map /\ page \in Pages /\ mem_map[page] = 1 /\ data[page] = Zero
      /\ \A u \in Tasks, va \in UserPages : Translated(u, va) # page
      /\ \A u \in Tasks, va \in UserPages :
           u # dst \/ va # vb => Translated(u, va)' = Translated(u, va)
  BY EnterWalks DEF SInv
<1>3. /\ user_pages'[dst] = Append(user_pages[dst], vb)
      /\ \A u \in Tasks : u # dst => user_pages'[u] = user_pages[u]
      /\ \A u \in Tasks : \A va : HasPage(u, va)' <=> HasPage(u, va) \/ (u = dst /\ va = vb)
      /\ ~HasPage(dst, vb) /\ page \in Pages
      /\ \A p \in Pages : p # page => data'[p] = data[p]
      /\ data'[page] = IF job = "load" THEN Code
                       ELSE IF job = "fork" THEN Content(t, vb) ELSE Zero
      /\ data'[page] # NoPage
      /\ job = "fork" => t # dst /\ HasPage(t, vb) /\ Content(t, vb) # NoPage
  BY <1>1, RecordedFacts
<1>4. ASSUME NEW u \in Tasks, NEW va \in UserPages, u # dst \/ va # vb
       PROVE  Content(u, va)' = Content(u, va)
  <2>1. Translated(u, va)' = Translated(u, va) /\ Translated(u, va) # page
    BY <1>2, <1>4
  <2> QED
    BY <1>3, <2>1 DEF Content, Pages
<1>5. Content(dst, vb)' = data'[page] /\ Content(dst, vb) = NoPage
  BY <1>2 DEF Content, Pages
<1> QED
  BY <1>3, <1>4, <1>5

LEMMA EnterLosesNone ==
  ASSUME IInv, SInv, NEW t \in Tasks, Enter(t)
  PROVE  NoPageLost' /\ Fresh'
<1> DEFINE a == at[t]
<1>1. /\ TypeOK /\ CallOK(t) /\ WalkOK(t) /\ a.level = 6
      /\ at \in [Tasks -> Calls] /\ a.dst \in Tasks /\ Head(a.rest) \in UserPages
  BY CallFacts DEF SInv, Enter, Walking, Leaf
<1>2. PICK dst \in Tasks, vb \in UserPages, page \in 0 .. Len(mem_map) :
             dst = a.dst /\ vb = Head(a.rest) /\ page = a.user
  BY <1>1, CallType
<1>3. Translated(dst, vb) = 0 /\ page \in DOMAIN mem_map
  BY <1>2, EnterWalks DEF SInv
<1>4. PICK q \in Pages, i \in 0 .. PTRS_PER_TABLE - 1 :
             q = a.table /\ i = Index(vb, 6) /\ q = Reached(dst, vb, 6) /\ mem_map[q] = 1
  BY <1>1, <1>2, IndexType, MapType DEF CallOK, WalkOK, Pud, Leaf
<1>5. table' = [table EXCEPT ![q][i] = page] /\ UNCHANGED <<mem_map, task, pgd>>
  BY <1>2, <1>4 DEF Enter, Leaf
<1>6. /\ table'[q][i] = page
      /\ \A p \in Pages, j \in 0 .. PTRS_PER_TABLE - 1 :
           p # q \/ j # i => table'[p][j] = table[p][j]
  BY <1>1, <1>5 DEF TypeOK
<1>7. table[q][i] = 0
  <2>1. 6 \in 3 .. 6 /\ 6 + 1 = 7
    OBVIOUS
  <2>2. Reached(dst, vb, 7) = Below(q, vb, 6)
    BY <1>4, <2>1, ReachedStep
  <2> QED
    BY <1>3, <1>4, <2>2, ReachedEnds DEF Below
<1>8. \A u \in Tasks : u # t => at'[u].user = at[u].user
  BY <1>1 DEF Enter, Finish
<1>9. Fresh'
  BY <1>1, <1>4, <1>5, <1>6, MapType DEF SInv, Fresh, Junk
<1>10. <<"entry", q, i>> \in Slots /\ Held(<<"entry", q, i>>)' = page
  BY <1>6 DEF Slots, Held
<1>11. ASSUME NEW p \in DOMAIN mem_map, mem_map[p] = 1
       PROVE  \E s \in Slots : Held(s)' = p
  <2>1. PICK s \in Slots : Held(s) = p
    BY <1>11 DEF SInv, NoPageLost
  <2>2. p # 0
    BY <1>1, <1>11, MapType
  <2>3. CASE p = page
    BY <1>10, <2>3
  <2>4. CASE p # page
    <3>1. CASE \E u \in Tasks : s = <<"new", u>> /\ Held(s) = at[u].user /\ Held(s)' = at'[u].user
      <4>1. Held(s)' = Held(s)
        BY <1>2, <1>8, <2>1, <2>4, <3>1
      <4> QED
        BY <2>1, <4>1
    <3>2. CASE \E k \in Pages, j \in 0 .. PTRS_PER_TABLE - 1 :
                 s = <<"entry", k, j>> /\ Held(s) = table[k][j] /\ Held(s)' = table'[k][j]
      <4>1. Held(s)' = Held(s)
        BY <1>6, <1>7, <2>1, <2>2, <3>2
      <4> QED
        BY <2>1, <4>1
    <3>3. CASE \/ \E u \in Tasks : s = <<"task_struct", u>> /\ Held(s) = task[u] /\ Held(s)' = task'[u]
               \/ \E u \in Tasks : s = <<"pgd", u>> /\ Held(s) = pgd[u] /\ Held(s)' = pgd'[u]
      BY <1>5, <2>1, <3>3
    <3>4. CASE s = <<"page", 0>> /\ Held(s) = page0 /\ Held(s)' = page0'
      BY <2>1, <3>4 DEF Enter
    <3> QED
      BY <3>1, <3>2, <3>3, <3>4, SlotKinds, Zenon
  <2> QED
    BY <2>3, <2>4
<1> QED
  BY <1>5, <1>9, <1>11 DEF NoPageLost, Slots

LEMMA EnterSpaces ==
  ASSUME IInv, SInv, NEW t \in Tasks, Enter(t)
  PROVE  SInv'
<1> DEFINE a == at[t]
<1>1. /\ TypeOK /\ CallOK(t) /\ WalkOK(t) /\ CopyOK(t) /\ RestOK(t) /\ Live(t) /\ Runs(t)
      /\ at \in [Tasks -> Calls] /\ a.dst \in Tasks /\ Head(a.rest) \in UserPages
      /\ a.rest \in Seq(UserPages) /\ a.rest # <<>>
      /\ \A u \in Tasks : user_pages[u] \in Seq(UserPages)
  BY CallFacts DEF SInv, Enter, Walking, Live, TypeOK
<1>2. PICK dst \in Tasks, vb \in UserPages, rest \in Seq(UserPages),
           page \in 0 .. Len(mem_map), job \in {"none", "load", "fault", "fork"} :
             /\ dst = a.dst /\ vb = Head(rest) /\ page = a.user
             /\ rest = a.rest /\ rest # <<>> /\ job = a.job
  BY <1>1, CallType
<1>3. /\ user_pages'[dst] = Append(user_pages[dst], vb)
      /\ \A u \in Tasks : u # dst => user_pages'[u] = user_pages[u]
      /\ \A u \in Tasks : \A va : HasPage(u, va)' <=> HasPage(u, va) \/ (u = dst /\ va = vb)
      /\ ~HasPage(dst, vb) /\ page \in Pages
      /\ \A p \in Pages : p # page => data'[p] = data[p]
      /\ data'[page] # NoPage
      /\ job = "fork" => t # dst /\ data'[page] = Content(t, vb)
      /\ \A u \in Tasks, va \in UserPages :
           u # dst \/ va # vb => Content(u, va)' = Content(u, va)
      /\ Content(dst, vb)' = data'[page]
  BY <1>2, EnterFacts, SMTT(30)
<1>4. /\ Translated(dst, vb)' = page
      /\ \A u \in Tasks, va \in UserPages :
           u # dst \/ va # vb => Translated(u, va)' = Translated(u, va)
  BY <1>2, EnterWalks DEF SInv
<1>5. Maps'
  <2>1. \A u \in Tasks : Followed(u)' => Followed(u)
    <3>1. \A u \in Tasks : u # t /\ u # dst => pc'[u] = pc[u]
      BY <1>1, <1>2 DEF Enter, Finish, TypeOK
    <3>2. dst # t => pc[dst] = "none"
      BY <1>1, <1>2 DEF RestOK
    <3>3. pc[t] = "walk"
      BY DEF Enter
    <3> QED
      BY <3>1, <3>2, <3>3 DEF Followed
  <2>2. ASSUME NEW u \in Tasks, NEW va \in UserPages
        PROVE  /\ (Translated(u, va) # NoEntry)' => HasPage(u, va)'
               /\ Followed(u)' /\ HasPage(u, va)' => (Translated(u, va) # NoEntry)'
    BY <1>3, <1>4, <2>1 DEF SInv, Maps, NoEntry, Pages
  <2>3. \A u \in Tasks : \A i, j \in DOMAIN user_pages'[u] :
          user_pages'[u][i] = user_pages'[u][j] => i = j
    <3>1. Walking(t) /\ at[t].level >= Pgd /\ Recorded(t)
      BY DEF Enter, Walking, Pgd, Leaf
    <3> QED
      BY <1>2, <3>1, RecordedFacts
  <2> QED
    BY <2>2, <2>3 DEF Maps
<1>6. Filled'
  BY <1>3 DEF SInv, Filled
<1>7. NoPageLost' /\ Fresh'
  BY EnterLosesNone
<1>8. CASE Len(rest) > 1
  <2>1. job = "fork" /\ dst # t /\ user_pages[t] = user_pages[dst] \o rest
    <3>1. job = "fork"
      <4>1. job # "fork" => Len(rest) = 1
        BY <1>1, <1>2 DEF RestOK
      <4>2. Len(rest) \in Nat
        OBVIOUS
      <4>3. PICK n \in Nat : n = Len(rest)
        BY <4>2, Zenon
      <4>4. Len(rest) # 1
        <5>1. n > 1
          BY <1>8, <4>3, Zenon
        <5>2. n # 1
          BY <5>1
        <5> QED
          BY <4>3, <5>2, Zenon
      <4> QED
        BY <4>1, <4>4, Zenon
    <3>2. dst # t
      BY <1>1, <1>2, <3>1 DEF RestOK
    <3>3. user_pages[t] = user_pages[dst] \o rest
      BY <1>1, <1>2, <3>1 DEF CopyOK
    <3> QED
      BY <3>1, <3>2, <3>3
  <2>2. /\ at' = [at EXCEPT ![t].rest = Tail(rest), ![t].level = UserPage,
                            ![t].user = 0, ![t].table = 0]
        /\ pc' = [pc EXCEPT ![t] = "see"]
    BY <1>2, <1>8 DEF Enter
  <2>3. /\ at'[t].rest = Tail(rest) /\ at'[t].level = 1 /\ at'[t].user = 0
        /\ at'[t].dst = dst /\ at'[t].job = job
    BY <1>1, <1>2, <2>2 DEF Calls, UserPage
  <2>4. /\ \A u \in Tasks : u # t => pc'[u] = pc[u]
    BY <1>1, <2>2 DEF TypeOK
  <2>5. PICK up \in Seq(UserPages), tail \in Seq(UserPages), va \in UserPages :
          up = user_pages[dst] /\ tail = Tail(rest) /\ va = Head(tail) /\ tail # <<>>
    <3>1. Tail(rest) \in Seq(UserPages) /\ Len(Tail(rest)) = Len(rest) - 1 /\ Len(rest) \in Nat
      BY <1>2
    <3>2. Len(Tail(rest)) # 0
      BY <1>8, <3>1
    <3>3. Tail(rest) # <<>>
      BY <3>2, EmptySeq
    <3>4. Head(Tail(rest)) \in UserPages
      BY <3>1, <3>3
    <3> QED
      BY <1>1, <3>1, <3>3, <3>4
  <2>6. tail \in Seq(UserPages) /\ tail # <<>> /\ Len(up) \in Nat
    BY <2>5
  <2>7. /\ up \o rest = Append(up, vb) \o tail
        /\ (up \o rest)[Len(up) + 1] = vb /\ (up \o rest)[Len(up) + 2] = va
        /\ Len(up) + 1 \in DOMAIN (up \o rest) /\ Len(up) + 2 \in DOMAIN (up \o rest)
        /\ \A i \in 1 .. Len(up) : i \in DOMAIN (up \o rest) /\ (up \o rest)[i] = up[i]
    BY <1>2, <2>5, <2>6, Shift, ZenonT(40)
  <2>8. \A i, j \in DOMAIN (up \o rest) : (up \o rest)[i] = (up \o rest)[j] => i = j
    <3>1. \A i, j \in DOMAIN user_pages[t] : user_pages[t][i] = user_pages[t][j] => i = j
      BY DEF SInv, Maps
    <3>2. user_pages[t] = up \o rest
      BY <2>1, <2>5
    <3> QED
      BY <3>1, <3>2
  <2>9. ~HasPage(dst, va)'
    <3> DEFINE s == up \o rest
    <3> HIDE DEF s
    <3>0. /\ s[Len(up) + 1] = vb /\ s[Len(up) + 2] = va
          /\ Len(up) + 1 \in DOMAIN s /\ Len(up) + 2 \in DOMAIN s
          /\ \A i \in 1 .. Len(up) : i \in DOMAIN s /\ s[i] = up[i]
          /\ \A i, j \in DOMAIN s : s[i] = s[j] => i = j
      BY <2>7, <2>8 DEF s
    <3>1. va # vb
      BY <2>6, <3>0
    <3>2. \A i \in 1 .. Len(up) : up[i] # va
      BY <2>6, <3>0
    <3>3. ~HasPage(dst, va)
      BY <2>5, <3>2, SMTT(30) DEF HasPage
    <3> QED
      BY <1>3, <3>1, <3>3
  <2>10. WalkOK(t)'
    <3>1. 1 = at'[t].level /\ va = Head(at'[t].rest) /\ dst = at'[t].dst
      BY <2>3, <2>5
    <3>2. ~(1 \in Pud .. Leaf) /\ ~(1 >= Pgd)
      BY DEF Pud, Leaf, Pgd
    <3> QED
      BY <2>3, <2>9, <3>1, <3>2, WalkLater
  <2>11. user_pages'[t] = user_pages'[dst] \o tail
    BY <1>3, <2>1, <2>5, <2>7
  <2>12. ASSUME NEW vc \in UserPages, HasPage(dst, vc)'
         PROVE  Content(dst, vc)' = Content(t, vc)'
    <3>1. Content(t, vc)' = Content(t, vc)
      BY <1>3, <2>1
    <3>2. CASE vc = vb
      BY <1>3, <2>1, <3>1, <3>2
    <3>3. CASE vc # vb
      <4>1. HasPage(dst, vc) /\ Content(dst, vc)' = Content(dst, vc)
        BY <1>3, <2>12, <3>3
      <4>2. Content(dst, vc) = Content(t, vc)
        BY <1>1, <1>2, <2>1, <4>1 DEF CopyOK
      <4> QED
        BY <3>1, <4>1, <4>2
    <3> QED
      BY <3>2, <3>3
  <2>13. CopyOK(t)'
    <3>1. dst = at'[t].dst /\ tail = at'[t].rest
      BY <2>3, <2>5
    <3> QED
      BY <2>11, <2>12, <3>1, CopyLater
  <2>14. Walks'
    BY <1>1, <2>4, <2>10, <2>13, KeepsWalks
  <2> QED
    BY <1>5, <1>6, <1>7, <2>14 DEF SInv
<1>9. CASE ~(Len(rest) > 1)
  <2>1. \/ pc' = [pc EXCEPT ![t] = "hung", ![dst] = "hung"]
        \/ pc' = [pc EXCEPT ![t] = "user", ![dst] = "user"]
    BY <1>2, <1>9 DEF Enter, Finish
  <2>2. /\ \A u \in Tasks : u # t => pc'[u] = pc[u] \/ pc'[u] \in {"user", "hung", "astray"}
        /\ ~Walking(t)'
    BY <1>1, <2>1 DEF TypeOK, Walking
  <2>3. Walks'
    BY <1>1, <2>2, KeepsWalks
  <2> QED
    BY <1>5, <1>6, <1>7, <2>3 DEF SInv
<1> QED
  BY <1>8, <1>9

\* A user page that is entered in page 0 is found there, and no task has it
\* in its tables; its task is not followed any more.
LEMMA WithoutTableSpaces ==
  ASSUME IInv, SInv, NEW t \in Tasks, WithoutTable(t)
  PROVE  SInv'
<1> DEFINE a == at[t]
<1>1. /\ Runs(t) /\ Walking(t) /\ Live(t) /\ pc[t] = "see" /\ a.level >= Pgd
      /\ UNCHANGED <<mem_map, table, task, pgd>>
  BY DEF WithoutTable, Walking, Live
<1>2. /\ TypeOK /\ at \in [Tasks -> Calls] /\ WalkOK(t) /\ RestOK(t) /\ CopyOK(t)
      /\ a.level \in 0 .. 6
  BY <1>1, CallFacts DEF SInv
<1>3. PICK dst \in Tasks, vb \in UserPages, page \in {a.user}, job \in {a.job} :
        dst = a.dst /\ vb = Head(a.rest) /\ page = a.user /\ job = a.job
  BY <1>1, CallFacts DEF SInv
<1>4. CASE UNCHANGED <<data, user_pages, pc, at, page0>>
  <2>1. /\ a.level \in Pud .. Leaf => a.table = Reached(a.dst, Head(a.rest), a.level)
        /\ Reached(a.dst, Head(a.rest), a.level + 1) = NoEntry
    BY <1>1, <1>2 DEF WalkOK
  <2> QED
    BY <1>1, <1>4, <2>1, OnTheWaySpaces
<1>5. CASE /\ page0' = page /\ Recorded(t)
           /\ \E where \in {"user", "hung", "astray"}, child \in {"hung", "astray"} :
                Finish(t, where, child)
  <2>1. /\ \A u \in Tasks : \A va : HasPage(u, va)' <=> HasPage(u, va) \/ (u = dst /\ va = vb)
        /\ \A u \in Tasks : \A i, j \in DOMAIN user_pages'[u] :
             user_pages'[u][i] = user_pages'[u][j] => i = j
        /\ page \in DOMAIN mem_map
        /\ \A p \in Pages : p # page => data'[p] = data[p]
        /\ data'[page] # NoPage
    BY <1>1, <1>3, <1>5, RecordedFacts
  <2>2. PICK where \in {"user", "hung", "astray"}, child \in {"hung", "astray"} :
          Finish(t, where, child)
    BY <1>5
  <2>3. /\ pc' = [pc EXCEPT ![t] = where, ![dst] = child]
        /\ at' = [at EXCEPT ![t] = Idle]
    BY <1>3, <2>2 DEF Finish
  <2>4. /\ pc'[dst] = child /\ \A u \in Tasks : u # t /\ u # dst => pc'[u] = pc[u]
        /\ dst # t => pc'[t] = where
        /\ \A u \in Tasks : u # t => at'[u] = at[u]
    BY <1>2, <2>3 DEF TypeOK
  <2>5. \A u \in Tasks : Followed(u)' => Followed(u) /\ u # dst
    BY <1>1, <2>4 DEF Followed
  <2>6. \A u \in Tasks, va \in UserPages : Translated(u, va)' = Translated(u, va)
    BY <1>1 DEF Translated, Below
  <2>7. Maps'
    <3>1. ASSUME NEW u \in Tasks, NEW va \in UserPages
          PROVE  /\ (Translated(u, va) # NoEntry)' => HasPage(u, va)'
                 /\ Followed(u)' /\ HasPage(u, va)' => (Translated(u, va) # NoEntry)'
      BY <2>1, <2>5, <2>6 DEF SInv, Maps, NoEntry
    <3> QED
      BY <2>1, <3>1 DEF Maps
  <2>8. Filled' /\ Fresh'
    BY <1>1, <2>1 DEF SInv, Filled, Fresh
  <2>9. Walks'
    <3>1. ~Walking(t)' /\ \A u \in Tasks : u # t => pc'[u] = pc[u] \/ pc'[u] \in {"user", "hung", "astray"}
      BY <2>4 DEF Walking
    <3> QED
      BY <1>1, <3>1, KeepsWalks
  <2>10. page0 = 0
    <3>1. ~(a.level <= UserPage)
      BY <1>1, <1>2 DEF Pgd, UserPage
    <3> QED
      BY <1>1, <3>1 DEF IInv, OnceOnly
  <2>11. ASSUME NEW p \in DOMAIN mem_map, mem_map[p] = 1
         PROVE  \E s \in Slots : Held(s)' = p
    <3>1. PICK s \in Slots : Held(s) = p
      BY <2>11 DEF SInv, NoPageLost
    <3>2. p # 0
      BY <1>2, <2>11, MapType
    <3>3. CASE p = page
      <4>1. <<"page", 0>> \in Slots /\ Held(<<"page", 0>>)' = page0'
        BY DEF Slots, Held
      <4> QED
        BY <1>5, <3>3, <4>1
    <3>4. CASE p # page
      <4>1. Held(s)' = Held(s)
        <5>1. CASE \E u \in Tasks : s = <<"new", u>> /\ Held(s) = at[u].user /\ Held(s)' = at'[u].user
          BY <1>3, <2>4, <3>1, <3>4, <5>1
        <5>2. CASE s = <<"page", 0>> /\ Held(s) = page0 /\ Held(s)' = page0'
          BY <2>10, <3>1, <3>2, <5>2
        <5>3. CASE \/ \E u \in Tasks : s = <<"task_struct", u>> /\ Held(s) = task[u] /\ Held(s)' = task'[u]
                   \/ \E u \in Tasks : s = <<"pgd", u>> /\ Held(s) = pgd[u] /\ Held(s)' = pgd'[u]
                   \/ \E k \in Pages, j \in 0 .. PTRS_PER_TABLE - 1 :
                        s = <<"entry", k, j>> /\ Held(s) = table[k][j] /\ Held(s)' = table'[k][j]
          BY <1>1, <5>3
        <5> QED
          BY <5>1, <5>2, <5>3, SlotKinds, Zenon
      <4> QED
        BY <3>1, <4>1
    <3> QED
      BY <3>3, <3>4
  <2>12. NoPageLost'
    BY <1>1, <2>11 DEF NoPageLost, Slots
  <2> QED
    BY <2>7, <2>8, <2>9, <2>12 DEF SInv
<1>6. QED
  BY <1>3, <1>4, <1>5 DEF WithoutTable


-----------------------------------------------------------------------------
LEMMA NextSInv ==
  ASSUME IInv, SInv, Next
  PROVE  SInv'
<1>1. CASE MoveToUserMode
  BY <1>1, MoveSpaces
<1>2. ASSUME NEW t \in Tasks,
             \/ \E va \in UserPages : Fault(t, va)
             \/ \E va \in UserPages, value \in Words : Write(t, va, value)
             \/ \E child \in Tasks : Fork(t, child)
             \/ Exit(t) \/ See(t) \/ Mark(t) \/ Descend(t)
             \/ NeedTable(t) \/ Enter(t) \/ NoneLeft(t) \/ WithoutTable(t)
      PROVE  SInv'
  BY <1>2, FaultSpaces, WriteSpaces, ForkSpaces, ExitSpaces, SeeSpaces, MarkSpaces,
     DescendSpaces, NeedTableSpaces, EnterSpaces, NoneLeftSpaces,
     WithoutTableSpaces
<1> QED
  BY <1>1, <1>2, NextCases

LEMMA StutterSInv ==
  ASSUME SInv, UNCHANGED vars
  PROVE  SInv'
<1>1. /\ UNCHANGED <<mem_map, table, data, task, pgd, user_pages, pc, at, page0>>
  BY DEF vars
<1>2. \A u, va : Translated(u, va)' = Translated(u, va)
  BY <1>1 DEF Translated, Below
<1>3. \A u, va : Content(u, va)' = Content(u, va)
  BY <1>1, <1>2 DEF Content
<1>4. \A u, va : HasPage(u, va)' = HasPage(u, va)
  BY <1>1 DEF HasPage
<1>5. Maps' /\ Filled' /\ Fresh' /\ NoPageLost'
  BY <1>1, <1>2, <1>4 DEF SInv, Maps, Filled, Fresh, NoPageLost, Slots, Held,
     Followed
<1>6. ASSUME NEW t \in Tasks, Walking(t)'
      PROVE  WalkOK(t)' /\ CopyOK(t)'
  <2>1. WalkOK(t) /\ CopyOK(t)
    BY <1>1, <1>6 DEF SInv, Walks, Walking
  <2>2. PICK dst, va, l, rest : dst = at[t].dst /\ va = Head(at[t].rest) /\ l = at[t].level
                                /\ rest = at[t].rest
    OBVIOUS
  <2>3. \A n : Reached(dst, va, n)' = Reached(dst, va, n)
    BY <1>1, KeepsReached
  <2>4. WalkOK(t)'
    BY <1>1, <1>4, <2>1, <2>2, <2>3, WalkLater DEF WalkOK
  <2>5. CopyOK(t)'
    BY <1>1, <1>3, <1>4, <2>1, <2>2, CopyLater DEF CopyOK
  <2> QED
    BY <2>4, <2>5
<1> QED
  BY <1>5, <1>6 DEF SInv, Walks

LEMMA InitSInv == Init => SInv
<1> SUFFICES ASSUME Init PROVE SInv
  OBVIOUS
<1>1. /\ \A t \in Tasks : pgd[t] = 0 /\ user_pages[t] = <<>>
      /\ \A t \in Tasks : pc[t] = IF t = root THEN "kernel" ELSE "none"
      /\ \A p \in Pages : data[p] = IF p = 1 THEN Zero ELSE Stale
      /\ \A p \in Pages, i \in 0 .. PTRS_PER_TABLE - 1 :
           table[p][i] = IF p = 1 THEN NoEntry ELSE Junk
      /\ task[root] = 1 /\ root \in Tasks
  BY MemoryAssumption DEF Init, NoEntry
<1>2. PICK size \in Pages : mem_map = [p \in 1 .. size |-> IF p = 1 THEN 1 ELSE 0]
  BY DEF Init
<1>3. /\ DOMAIN mem_map \subseteq Pages
      /\ \A p \in DOMAIN mem_map : mem_map[p] = 1 <=> p = 1
  BY <1>2, MemoryAssumption DEF Pages
<1>4. \A u \in Tasks, va \in UserPages : Translated(u, va) = NoEntry
  <2>1. 0 \notin Pages /\ NoEntry = 0
    BY DEF Pages, NoEntry
  <2> QED
    BY <1>1, <2>1 DEF Translated, Below
<1>5. \A u \in Tasks : \A va : ~HasPage(u, va)
  BY <1>1 DEF HasPage
<1>6. Maps
  BY <1>1, <1>4, <1>5 DEF Maps
<1>7. Walks
  BY <1>1 DEF Walks, Walking
<1>8. Filled
  BY <1>1, MemoryAssumption DEF Filled
<1>9. Fresh
  BY <1>1, <1>3 DEF Fresh
<1>10. NoPageLost
  <2>1. <<"task_struct", root>> \in Slots /\ Held(<<"task_struct", root>>) = 1
    BY <1>1 DEF Slots, Held
  <2> QED
    BY <1>3, <2>1 DEF NoPageLost
<1> QED
  BY <1>6, <1>7, <1>8, <1>9, <1>10 DEF SInv

\* The address spaces of p1_6 are what user_pages says: the tables map its
\* pages and no others, a walk of map_page is where it should be however it is
\* interrupted, and a fork has copied what it has passed.
THEOREM SpacesInvariant == Spec => [](IInv /\ SInv)
<1>1. Init => SInv
  BY InitSInv
<1>2. IInv /\ SInv /\ [Next]_vars => SInv'
  BY NextSInv, StutterSInv
<1> QED
  BY <1>1, <1>2, Invariant, PTL DEF Spec

\* Whichever page is refused, p1_6's kernel can find each page it has marked:
\* map_page never enters a page over another one, in a table or in the page 0
\* that it takes for one.
THEOREM NothingLost == Spec => []NoPageLost
  BY SpacesInvariant, PTL DEF SInv

-----------------------------------------------------------------------------
\* The refinement: what the tasks see is what AddressSpaces promises.
Seen == [t \in Tasks |-> Space(t)]

LEMMA SpaceNow ==
  ASSUME NEW t
  PROVE  /\ pc[t] = "none" => Space(t) = Unborn
         /\ pc[t] \in {"hung", "zombie", "astray"} => Space(t) = Ended
         /\ Live(t) => Space(t) = [va \in UserPages |-> Content(t, va)]
  BY DEF Space, Live

LEMMA SpaceLater ==
  ASSUME NEW t
  PROVE  /\ pc'[t] = "none" => Space(t)' = Unborn
         /\ pc'[t] \in {"hung", "zombie", "astray"} => Space(t)' = Ended
         /\ Live(t)' => Space(t)' = [va \in UserPages |-> Content(t, va)']
  BY DEF Space, Live

LEMMA AliveOnes ==
  ASSUME IInv, NEW t \in Tasks, Live(t)
  PROVE  Space(t) \notin {Unborn, Ended} /\ Seen[t] = Space(t)
<1>1. \A va \in UserPages : Content(t, va) \in Words \cup {Zero, Code, Stale, NoPage}
  BY DEF IInv, TypeOK, Content
<1>2. Space(t) \in [UserPages -> Words \cup {Zero, Code, Stale, NoPage}]
  BY <1>1, SpaceNow
<1> QED
  BY <1>2, MemoryAssumption DEF Seen

\* What a task sees at an address is what the page in user_pages has.
LEMMA MappedOnes ==
  ASSUME IInv, SInv, NEW t \in Tasks, NEW va \in UserPages
  PROVE  /\ Content(t, va) # NoPage <=> Translated(t, va) \in Pages
         /\ Content(t, va) # NoPage => HasPage(t, va)
         /\ Live(t) => (Content(t, va) # NoPage <=> HasPage(t, va))
<1>1. Translated(t, va) # 0 => Translated(t, va) \in Pages
  <2>1. 7 \in 3 .. 7
    OBVIOUS
  <2> QED
    BY <2>1, ReachedMarked, ReachedEnds DEF IInv
<1>2. /\ Translated(t, va) # 0 => HasPage(t, va)
      /\ Live(t) => (Translated(t, va) # 0 <=> HasPage(t, va))
  BY DEF SInv, Maps, NoEntry, Live, Followed
<1>3. 0 \notin Pages
  BY DEF Pages
<1> QED
  BY <1>1, <1>2, <1>3 DEF Content, SInv, Filled

\* A space whose task goes on and whose contents stay is the same.
LEMMA SameSpace ==
  ASSUME NEW u \in Tasks, pc'[u] = pc[u] \/ (Live(u) /\ Live(u)'),
         \A va \in UserPages : Content(u, va)' = Content(u, va)
  PROVE  Space(u)' = Space(u)
<1>1. CASE pc'[u] = pc[u]
  BY <1>1 DEF Space
<1>2. CASE Live(u) /\ Live(u)'
  BY <1>2, SpaceNow, SpaceLater
<1> QED
  BY <1>1, <1>2

LEMMA SeenChanges ==
  ASSUME NEW t \in Tasks, NEW x, \A u \in Tasks : u # t => Space(u)' = Space(u),
         Space(t)' = x
  PROVE  Seen' = [Seen EXCEPT ![t] = x]
  BY DEF Seen

LEMMA PageChanges ==
  ASSUME NEW t \in Tasks, NEW va \in UserPages, NEW x,
         \A u \in Tasks : u # t => Space(u)' = Space(u),
         Live(t), Live(t)', Content(t, va)' = x,
         \A vb \in UserPages : vb # va => Content(t, vb)' = Content(t, vb)
  PROVE  Seen' = [Seen EXCEPT ![t][va] = x]
<1>1. Space(t)' = [Space(t) EXCEPT ![va] = x]
  BY SpaceNow, SpaceLater
<1>2. Seen' = [Seen EXCEPT ![t] = [Space(t) EXCEPT ![va] = x]]
  BY <1>1, SeenChanges
<1>3. Seen[t] = Space(t)
  BY DEF Seen
<1> QED
  BY <1>2, <1>3

\* Memory that has run out stays so.
LEMMA FullStays ==
  ASSUME IInv, [Next]_vars
  PROVE  Unmarked = {} => Unmarked' = {}
<1>1. \/ UNCHANGED mem_map
      \/ \E t \in Tasks : mem_map' = [mem_map EXCEPT ![at[t].page] = 1]
  BY ZenonT(40) DEF Next, vars, MoveToUserMode, Fault, Fork, Write, Exit, See, Mark, Descend, NeedTable,
         Enter, NoneLeft, WithoutTable, Begin
<1>2. CASE UNCHANGED mem_map
  BY <1>2 DEF Unmarked
<1>3. CASE \E t \in Tasks : mem_map' = [mem_map EXCEPT ![at[t].page] = 1]
  BY <1>3 DEF Unmarked
<1> QED
  BY <1>1, <1>2, <1>3

\* The steps of AddressSpaces, by what is seen.
LEMMA SpaceStutters ==
  ASSUME \A u \in Tasks : Space(u)' = Space(u), Unmarked = {} => Unmarked' = {}
  PROVE  Spaces!Next
<1>1. [t \in Tasks |-> Space(t)]' = [t \in Tasks |-> Space(t)]
  OBVIOUS
<1> QED
  BY <1>1 DEF Spaces!Next

LEMMA SpaceEnds ==
  ASSUME IInv, NEW t \in Tasks, Live(t), pc'[t] \in {"hung", "zombie", "astray"},
         \A u \in Tasks : u # t => Space(u)' = Space(u), Unmarked = {} => Unmarked' = {}
  PROVE  Spaces!Next
<1>1. Seen' = [Seen EXCEPT ![t] = Ended]
  BY SpaceLater, SeenChanges
<1>2. Spaces!End(t)
  BY <1>1, AliveOnes DEF Spaces!End, Spaces!Alive, Seen
<1> QED
  BY <1>2 DEF Spaces!Next

LEMMA SpaceForks ==
  ASSUME IInv, SInv, NEW t \in Tasks, NEW child \in Tasks, Live(t), pc[child] = "none",
         \A u \in Tasks : u # child => Space(u)' = Space(u),
         NEW copied \in SUBSET UserPages, \A va \in copied : HasPage(t, va),
         copied # {va \in UserPages : HasPage(t, va)} => Unmarked' = {},
         IF copied = {} THEN pc'[child] \in {"hung", "astray"} ELSE pc'[child] = "user",
         copied # {} =>
           \A va \in UserPages :
             Content(child, va)' = IF va \in copied THEN Content(t, va) ELSE NoPage,
         Unmarked = {} => Unmarked' = {}
  PROVE  Spaces!Next
<1>1. /\ Space(t) \notin {Unborn, Ended} /\ Seen[t] = Space(t)
      /\ Space(t) = [va \in UserPages |-> Content(t, va)]
  BY AliveOnes, SpaceNow
<1>2. Spaces!Mapped(t) = {va \in UserPages : HasPage(t, va)}
  BY <1>1, MappedOnes DEF Spaces!Mapped, Spaces!Alive, Seen
<1>3. Seen[child] = Unborn
  BY SpaceNow DEF Seen
<1>4. copied \in SUBSET Spaces!Mapped(t)
  BY <1>2
<1>5. Space(child)' = IF copied = {} THEN Ended
                      ELSE [va \in UserPages |-> IF va \in copied THEN Seen[t][va] ELSE NoPage]
  <2>1. CASE copied = {}
    BY <2>1, SpaceLater
  <2>2. CASE copied # {}
    <3>1. Space(child)' = [va \in UserPages |-> Content(child, va)']
      BY <2>2, SpaceLater DEF Live
    <3> QED
      BY <1>1, <2>2, <3>1
  <2> QED
    BY <2>1, <2>2
<1>6. Seen' = [Seen EXCEPT ![child] =
                 IF copied = {} THEN Ended
                 ELSE [va \in UserPages |-> IF va \in copied THEN Seen[t][va] ELSE NoPage]]
  BY <1>5, SeenChanges
<1>7. Spaces!Fork(t, child, copied)
  BY <1>1, <1>2, <1>3, <1>6 DEF Spaces!Fork, Spaces!Alive, Seen
<1> QED
  BY <1>4, <1>7 DEF Spaces!Next

\* The beginning of a call and the steps of a walk are not seen.
LEMMA UnseenSteps ==
  ASSUME IInv, NEW t \in Tasks, Live(t), Live(t)', UNCHANGED <<mem_map, table, data, pgd>>,
         \A u \in Tasks : u # t => pc'[u] = pc[u]
  PROVE  Spaces!Next
<1>1. \A u \in Tasks, va \in UserPages : Content(u, va)' = Content(u, va)
  BY DEF Content, Translated, Below
<1>2. \A u \in Tasks : Space(u)' = Space(u)
  BY <1>1, SameSpace
<1>3. Unmarked' = Unmarked
  BY DEF Unmarked
<1> QED
  BY <1>2, <1>3, SpaceStutters

LEMMA BeginUnseen ==
  ASSUME IInv, NEW t \in Tasks, Live(t), NEW job, NEW dst, NEW rest, NEW level,
         Begin(t, job, dst, rest, level)
  PROVE  Spaces!Next
<1>1. /\ pc'[t] = "see" /\ \A u \in Tasks : u # t => pc'[u] = pc[u]
      /\ UNCHANGED <<mem_map, table, data, pgd>>
  BY DEF Begin, IInv, TypeOK
<1>2. Live(t)'
  BY <1>1 DEF Live
<1> QED
  BY <1>1, <1>2, UnseenSteps

LEMMA OnTheWayUnseen ==
  ASSUME IInv, NEW t \in Tasks, See(t) \/ Descend(t) \/ NeedTable(t)
  PROVE  Spaces!Next
<1>1. /\ Live(t) /\ UNCHANGED <<mem_map, table, data, pgd>>
      /\ pc' = pc \/ pc' = [pc EXCEPT ![t] = "mark"] \/ pc' = [pc EXCEPT ![t] = "see"]
  BY DEF See, Descend, NeedTable, Live
<1>2. Live(t)' /\ \A u \in Tasks : u # t => pc'[u] = pc[u]
  BY <1>1 DEF IInv, TypeOK, Live
<1> QED
  BY <1>1, <1>2, UnseenSteps

LEMMA MarkUnseen ==
  ASSUME IInv, SInv, NEW t \in Tasks, Mark(t), Unmarked = {} => Unmarked' = {}
  PROVE  Spaces!Next
<1>1. /\ pc[t] = "mark"
      /\ pc' = [pc EXCEPT ![t] = IF at[t].level = TaskStruct THEN "see" ELSE "walk"]
  BY DEF Mark
<1>2. Live(t) /\ Live(t)' /\ \A u \in Tasks : u # t => pc'[u] = pc[u]
  BY <1>1 DEF IInv, TypeOK, Live
<1>3. \A u \in Tasks : Space(u)' = Space(u)
  BY <1>2, MarkContents, SameSpace
<1> QED
  BY <1>3, SpaceStutters

LEMMA ExitSeen ==
  ASSUME IInv, NEW t \in Tasks, Exit(t)
  PROVE  Spaces!Next
<1>1. /\ Live(t) /\ pc' = [pc EXCEPT ![t] = "zombie"]
      /\ UNCHANGED <<mem_map, table, data, pgd>>
  BY DEF Exit, Live
<1>2. pc'[t] = "zombie" /\ \A u \in Tasks : u # t => pc'[u] = pc[u]
  BY <1>1 DEF IInv, TypeOK
<1>3. \A u \in Tasks, va \in UserPages : Content(u, va)' = Content(u, va)
  BY <1>1 DEF Content, Translated, Below
<1>4. \A u \in Tasks : u # t => Space(u)' = Space(u)
  BY <1>2, <1>3, SameSpace
<1>5. Unmarked' = Unmarked
  BY <1>1 DEF Unmarked
<1> QED
  BY <1>1, <1>2, <1>4, <1>5, SpaceEnds

\* A write is seen by its task alone: nobody else's tables lead to the page.
LEMMA WriteSeen ==
  ASSUME IInv, SInv, NEW t \in Tasks, NEW va \in UserPages, NEW value \in Words,
         Write(t, va, value)
  PROVE  Spaces!Next
<1>1. PICK page : page = Translated(t, va)
  OBVIOUS
<1>2. /\ Live(t) /\ Live(t)' /\ page \in Pages /\ data' = [data EXCEPT ![page] = value]
      /\ UNCHANGED <<mem_map, table, pgd, pc>>
  BY <1>1 DEF Write, Live
<1>3. \A u \in Tasks, vb \in UserPages : Translated(u, vb)' = Translated(u, vb)
  BY <1>2 DEF Translated, Below
<1>4. data'[page] = value /\ \A p \in Pages : p # page => data'[p] = data[p]
  BY <1>2 DEF IInv, TypeOK
<1>5. Content(t, va)' = value
  BY <1>1, <1>2, <1>3, <1>4 DEF Content
<1>6. ASSUME NEW u \in Tasks, NEW vb \in UserPages, u # t \/ vb # va
      PROVE  Content(u, vb)' = Content(u, vb)
  <2>1. page # 0
    BY <1>2 DEF Pages
  <2>2. Translated(u, vb) # page
    BY <1>1, <1>6, <2>1, OwnPage DEF IInv
  <2> QED
    BY <1>3, <1>4, <2>2 DEF Content, Pages
<1>7. \A u \in Tasks : u # t => Space(u)' = Space(u)
  BY <1>2, <1>6, SameSpace
<1>8. Seen' = [Seen EXCEPT ![t][va] = value]
  BY <1>2, <1>5, <1>6, <1>7, PageChanges
<1>9. Unmarked' = Unmarked
  BY <1>2 DEF Unmarked
<1>10. Content(t, va) # NoPage
  BY <1>1, <1>2, MappedOnes
<1>11. /\ Space(t) \notin {Unborn, Ended} /\ Seen[t] = Space(t)
       /\ Space(t) = [vb \in UserPages |-> Content(t, vb)]
  BY <1>2, AliveOnes, SpaceNow
<1>12. Spaces!Write(t, va, value)
  BY <1>8, <1>10, <1>11 DEF Spaces!Write, Spaces!Mapped, Spaces!Alive, Seen
<1> QED
  BY <1>9, <1>12 DEF Spaces!Next

Among(s, va) == \E i \in DOMAIN s : s[i] = va

LEMMA InBoth ==
  ASSUME NEW r \in Seq(UserPages), NEW s \in Seq(UserPages), NEW va
  PROVE  Among(r \o s, va) <=> Among(r, va) \/ Among(s, va)
<1>1. /\ r \o s \in Seq(UserPages) /\ Len(r) \in Nat /\ Len(s) \in Nat
      /\ Len(r \o s) = Len(r) + Len(s)
      /\ \A i \in 1 .. Len(r) : (r \o s)[i] = r[i]
      /\ \A i \in 1 .. Len(s) : (r \o s)[Len(r) + i] = s[i]
  OBVIOUS
<1>2. /\ DOMAIN r = 1 .. Len(r) /\ DOMAIN s = 1 .. Len(s)
      /\ DOMAIN (r \o s) = 1 .. (Len(r) + Len(s))
  BY <1>1
<1> DEFINE w == r \o s
           m == Len(r)
           n == Len(s)
<1>3. /\ m \in Nat /\ n \in Nat /\ \A i \in 1 .. m : w[i] = r[i]
      /\ \A i \in 1 .. n : w[m + i] = s[i]
      /\ DOMAIN r = 1 .. m /\ DOMAIN s = 1 .. n /\ DOMAIN w = 1 .. (m + n)
  BY <1>1, <1>2
<1> HIDE DEF w, m, n
<1>4. ASSUME NEW i \in 1 .. (m + n), w[i] = va
      PROVE  (\E j \in 1 .. m : r[j] = va) \/ (\E j \in 1 .. n : s[j] = va)
  <2>1. CASE i <= m
    BY <1>3, <1>4, <2>1
  <2>2. CASE i > m
    <3>1. PICK j \in 1 .. n : i = m + j
      <4>1. i - m \in 1 .. n /\ i = m + (i - m)
        BY <1>3, <2>2
      <4> QED
        BY <4>1
    <3> QED
      BY <1>3, <1>4, <3>1
  <2> QED
    BY <1>3, <2>1, <2>2
<1>5. ASSUME NEW j \in 1 .. m, r[j] = va
      PROVE  \E i \in 1 .. (m + n) : w[i] = va
  <2>1. j \in 1 .. (m + n)
    BY <1>3
  <2> QED
    BY <1>3, <1>5, <2>1
<1>6. ASSUME NEW j \in 1 .. n, s[j] = va
      PROVE  \E i \in 1 .. (m + n) : w[i] = va
  <2>1. m + j \in 1 .. (m + n)
    BY <1>3
  <2> QED
    BY <1>3, <1>6, <2>1
<1>7. (\E i \in DOMAIN w : w[i] = va)
        <=> (\E i \in DOMAIN r : r[i] = va) \/ (\E i \in DOMAIN s : s[i] = va)
  BY <1>3, <1>4, <1>5, <1>6, Zenon
<1> QED
  BY <1>7 DEF w, Among

\* The parent has the pages that are copied and those that are to be.
LEMMA ParentHas ==
  ASSUME IInv, Walks, NEW t \in Tasks, Walking(t), NEW dst, NEW rest,
         dst = at[t].dst, rest = at[t].rest, at[t].job = "fork", NEW va
  PROVE  HasPage(t, va) <=> HasPage(dst, va) \/ Among(rest, va)
<1>1. /\ dst \in Tasks /\ rest \in Seq(UserPages) /\ CopyOK(t)
      /\ user_pages[dst] \in Seq(UserPages)
  BY CallFacts DEF IInv, TypeOK
<1>2. user_pages[t] = user_pages[dst] \o rest
  BY <1>1 DEF CopyOK
<1>3. PICK up \in Seq(UserPages), left \in Seq(UserPages) : up = user_pages[dst] /\ left = rest
  BY <1>1
<1>4. Among(up \o left, va) <=> Among(up, va) \/ Among(left, va)
  BY InBoth, Zenon
<1> QED
  BY <1>2, <1>3, <1>4 DEF HasPage, Among

\* A call that ends for want of a page
LEMMA NoneLeftSeen ==
  ASSUME IInv, SInv, NEW t \in Tasks, NoneLeft(t)
  PROVE  Spaces!Next
<1>1. /\ Walking(t) /\ Live(t) /\ Unmarked = {}
      /\ UNCHANGED <<mem_map, table, data, task, pgd, user_pages, ind>>
  BY DEF NoneLeft, Walking, Live
<1>2. PICK dst \in Tasks : dst = at[t].dst
  BY <1>1, CallFacts DEF SInv
<1>3. RestOK(t) /\ CopyOK(t)
  BY <1>1, CallFacts DEF SInv
<1>4. \A u \in Tasks, va \in UserPages : Content(u, va)' = Content(u, va)
  BY <1>1 DEF Content, Translated, Below
<1>5. Unmarked' = Unmarked
  BY <1>1 DEF Unmarked
<1>6. CASE pc' = [pc EXCEPT ![t] = "failed"]
  <2>1. Live(t)' /\ \A u \in Tasks : u # t => pc'[u] = pc[u]
    BY <1>1, <1>6 DEF IInv, TypeOK, Live
  <2> QED
    BY <1>1, <2>1, UnseenSteps
<1>7. CASE at[t].job # "fork" /\ pc' = [pc EXCEPT ![t] = "hung", ![dst] = "hung"]
  <2>1. dst = t
    BY <1>2, <1>3, <1>7 DEF RestOK
  <2>2. pc'[t] = "hung" /\ \A u \in Tasks : u # t => pc'[u] = pc[u]
    BY <1>7, <2>1 DEF IInv, TypeOK
  <2>3. \A u \in Tasks : u # t => Space(u)' = Space(u)
    BY <1>4, <2>2, SameSpace
  <2> QED
    BY <1>1, <1>5, <2>2, <2>3, SpaceEnds
<1>8. CASE /\ at[t].job = "fork"
           /\ pc' = [pc EXCEPT ![t] = "user",
                               ![dst] = IF user_pages[dst] = <<>> THEN "hung" ELSE "user"]
  <2>1. dst # t /\ pc[dst] = "none"
    BY <1>2, <1>3, <1>8 DEF RestOK
  <2>2. /\ pc'[t] = "user" /\ pc'[dst] = IF user_pages[dst] = <<>> THEN "hung" ELSE "user"
        /\ \A u \in Tasks : u # t /\ u # dst => pc'[u] = pc[u]
    BY <1>8, <2>1 DEF IInv, TypeOK
  <2>3. \A u \in Tasks : u # dst => Space(u)' = Space(u)
    BY <1>1, <1>4, <2>2, SameSpace DEF Live
  <2> DEFINE copied == {va \in UserPages : HasPage(dst, va)}
  <2>4. (user_pages[dst] = <<>>) <=> (copied = {})
    <3>1. user_pages[dst] \in Seq(UserPages)
      BY DEF IInv, TypeOK
    <3>2. CASE user_pages[dst] # <<>>
      <4>1. 1 \in DOMAIN user_pages[dst] /\ user_pages[dst][1] \in UserPages
        BY <3>1, <3>2
      <4> QED
        BY <3>2, <4>1 DEF HasPage
    <3>3. CASE user_pages[dst] = <<>>
      BY <3>3 DEF HasPage
    <3> QED
      BY <3>2, <3>3
  <2>5. ASSUME NEW va \in UserPages
        PROVE  /\ va \in copied => HasPage(t, va)
               /\ Content(dst, va)' = IF va \in copied THEN Content(t, va) ELSE NoPage
    <3>1. HasPage(dst, va) => HasPage(t, va)
      BY <1>1, <1>2, <1>8, ParentHas DEF SInv
    <3>2. HasPage(dst, va) => Content(dst, va) = Content(t, va)
      BY <1>2, <1>3, <1>8 DEF CopyOK
    <3>3. ~HasPage(dst, va) => Content(dst, va) = NoPage
      BY MappedOnes
    <3> QED
      BY <1>4, <3>1, <3>2, <3>3
  <2>6. copied \in SUBSET UserPages
    OBVIOUS
  <2>7. \A va \in copied : HasPage(t, va)
    BY <2>5
  <2>8. IF copied = {} THEN pc'[dst] \in {"hung", "astray"} ELSE pc'[dst] = "user"
    BY <2>2, <2>4
  <2> HIDE DEF copied
  <2> QED
    BY <1>1, <1>5, <2>1, <2>3, <2>5, <2>6, <2>7, <2>8, SpaceForks
<1> QED
  BY <1>2, <1>6, <1>7, <1>8 DEF NoneLeft, Finish

\* A call that takes page 0 for a table: nobody else sees the page that it
\* enters there, and its task, or a fork's child, is given up.
LEMMA WithoutTableSeen ==
  ASSUME IInv, SInv, NEW t \in Tasks, WithoutTable(t)
  PROVE  Spaces!Next
<1>1. /\ Walking(t) /\ Live(t) /\ Unmarked = {} /\ at[t].level >= Pgd
      /\ UNCHANGED <<mem_map, table, task, pgd>>
  BY DEF WithoutTable, Walking, Live
<1>2. PICK dst \in Tasks, vb \in UserPages, page \in {at[t].user}, job \in {at[t].job} :
        dst = at[t].dst /\ vb = Head(at[t].rest) /\ page = at[t].user /\ job = at[t].job
  BY <1>1, CallFacts DEF SInv
<1>3. RestOK(t)
  BY <1>1, CallFacts DEF SInv
<1>4. Unmarked' = Unmarked
  BY <1>1 DEF Unmarked
<1>5. CASE UNCHANGED <<pc, data>>
  BY <1>1, <1>5, UnseenSteps DEF Live
<1>6. CASE /\ Recorded(t)
           /\ \/ at[t].job = "fork" /\ Finish(t, "user", "astray")
              \/ /\ at[t].job # "fork"
                 /\ Finish(t, "hung", "hung") \/ Finish(t, "astray", "astray")
  <2>1. ASSUME NEW u \in Tasks, NEW va \in UserPages
        PROVE  Content(u, va)' = Content(u, va)
    <3>1. /\ page \in DOMAIN mem_map /\ \A p \in Pages : p # page => data'[p] = data[p]
      BY <1>1, <1>2, <1>6, RecordedFacts
    <3>2. Translated(u, va) # page
      BY <1>2, <3>1, NewUnseen
    <3>3. Translated(u, va)' = Translated(u, va)
      BY <1>1 DEF Translated, Below
    <3> QED
      BY <3>1, <3>2, <3>3 DEF Content, Pages
  <2>2. CASE job = "fork"
    <3>1. pc' = [pc EXCEPT ![t] = "user", ![dst] = "astray"] /\ dst # t /\ pc[dst] = "none"
      BY <1>2, <1>3, <1>6, <2>2 DEF Finish, RestOK
    <3>2. /\ pc'[t] = "user" /\ pc'[dst] = "astray"
          /\ \A u \in Tasks : u # t /\ u # dst => pc'[u] = pc[u]
      BY <3>1 DEF IInv, TypeOK
    <3>3. \A u \in Tasks : u # dst => Space(u)' = Space(u)
      BY <1>1, <2>1, <3>2, SameSpace DEF Live
    <3> DEFINE copied == {va \in UserPages : FALSE}
    <3>4. copied = {} /\ copied \in SUBSET UserPages
      OBVIOUS
    <3> HIDE DEF copied
    <3> QED
      BY <1>1, <1>4, <3>1, <3>2, <3>3, <3>4, SpaceForks
  <2>3. CASE job # "fork"
    <3>1. /\ dst = t
          /\ \E where \in {"hung", "astray"} : pc' = [pc EXCEPT ![t] = where, ![t] = where]
      BY <1>2, <1>3, <1>6, <2>3 DEF Finish, RestOK
    <3>2. /\ pc'[t] \in {"hung", "zombie", "astray"} /\ \A u \in Tasks : u # t => pc'[u] = pc[u]
      BY <3>1 DEF IInv, TypeOK
    <3>3. \A u \in Tasks : u # t => Space(u)' = Space(u)
      BY <2>1, <3>2, SameSpace
    <3> QED
      BY <1>1, <1>4, <3>2, <3>3, SpaceEnds
  <2> QED
    BY <2>2, <2>3
<1> QED
  BY <1>5, <1>6 DEF WithoutTable

\* Only root is ever loaded.
Loads == \A t \in Tasks : at[t].job = "load" => t = root

LEMMA KeepsLoads ==
  ASSUME TypeOK, Loads, NEW t \in Tasks, at'[t].job = at[t].job \/ at'[t].job # "load",
         \A u \in Tasks : u # t => at'[u] = at[u]
  PROVE  Loads'
  BY DEF Loads

LEMMA NextLoads ==
  ASSUME IInv, Loads, Next
  PROVE  Loads'
<1>1. TypeOK /\ at \in [Tasks -> Calls] /\ Idle.job = "none" /\ root \in Tasks
  BY MemoryAssumption DEF IInv, TypeOK, Calls, Idle
<1>2. CASE MoveToUserMode
  BY <1>1, <1>2 DEF MoveToUserMode, Begin, Idle, Loads
<1>3. ASSUME NEW t \in Tasks,
             \/ \E va \in UserPages : Fault(t, va)
             \/ \E child \in Tasks : Fork(t, child)
      PROVE  Loads'
  <2>1. ASSUME NEW job, job # "load", NEW dst, NEW rest, NEW level,
               Begin(t, job, dst, rest, level)
        PROVE  Loads'
    <3>1. at'[t].job = job /\ \A u \in Tasks : u # t => at'[u] = at[u]
      BY <1>1, <2>1 DEF Begin, Idle
    <3> QED
      BY <1>1, <2>1, <3>1, KeepsLoads
  <2> QED
    BY <1>3, <2>1 DEF Fault, Fork
<1>4. ASSUME NEW t \in Tasks,
             \/ \E va \in UserPages, value \in Words : Write(t, va, value)
             \/ Exit(t) \/ NeedTable(t)
      PROVE  Loads'
  BY <1>4 DEF Write, Exit, NeedTable, Loads
<1>5. ASSUME NEW t \in Tasks, See(t) \/ Mark(t) \/ Descend(t)
      PROVE  Loads'
  <2>1. at'[t].job = at[t].job /\ \A u \in Tasks : u # t => at'[u] = at[u]
    BY <1>1, <1>5 DEF See, Mark, Descend, Calls
  <2> QED
    BY <1>1, <2>1, KeepsLoads
<1>6. ASSUME NEW t \in Tasks, Enter(t) \/ NoneLeft(t) \/ WithoutTable(t)
      PROVE  Loads'
  <2>1. \/ at' = [at EXCEPT ![t] = Idle]
        \/ UNCHANGED at
        \/ at' = [at EXCEPT ![t].rest = Tail(at[t].rest), ![t].level = UserPage,
                            ![t].user = 0, ![t].table = 0]
    BY <1>6 DEF Enter, NoneLeft, WithoutTable, Finish
  <2>2. /\ at'[t].job = at[t].job \/ at'[t].job = "none"
        /\ \A u \in Tasks : u # t => at'[u] = at[u]
    BY <1>1, <2>1 DEF Calls
  <2> QED
    BY <1>1, <2>2, KeepsLoads
<1> QED
  BY <1>2, <1>3, <1>4, <1>5, <1>6, NextCases

\* A page that is entered: the program's, a new one, or a copy
LEMMA EnterSeen ==
  ASSUME IInv, SInv, Loads, NEW t \in Tasks, Enter(t), Unmarked = {} => Unmarked' = {}
  PROVE  Spaces!Next
<1>1. /\ Walking(t) /\ Live(t) /\ RestOK(t) /\ CallOK(t) /\ CopyOK(t) /\ TypeOK
      /\ at[t].dst \in Tasks /\ Head(at[t].rest) \in UserPages
      /\ at[t].rest \in Seq(UserPages) /\ at[t].rest # <<>>
  BY CallFacts DEF SInv, Enter, Walking, Live
<1>2. PICK dst \in Tasks, vb \in UserPages, rest \in Seq(UserPages),
           page \in 0 .. Len(mem_map), job \in {"none", "load", "fault", "fork"} :
             /\ dst = at[t].dst /\ vb = Head(rest) /\ page = at[t].user
             /\ rest = at[t].rest /\ rest # <<>> /\ job = at[t].job
  BY <1>1, CallType
<1>3. /\ ~HasPage(dst, vb)
      /\ data'[page] = IF job = "load" THEN Code
                       ELSE IF job = "fork" THEN Content(t, vb) ELSE Zero
      /\ \A u \in Tasks, va \in UserPages :
           u # dst \/ va # vb => Content(u, va)' = Content(u, va)
      /\ Content(dst, vb)' = data'[page]
  BY <1>2, EnterFacts
<1>4. /\ job # "none"
      /\ job # "fork" => dst = t /\ Len(rest) = 1
      /\ job = "load" => user_pages[t] = <<>>
      /\ job = "fork" => dst # t /\ pc[dst] = "none"
  BY <1>1, <1>2 DEF CallOK, RestOK
<1>5. job \in {"none", "load", "fault", "fork"}
  BY <1>1, <1>2, CallType
<1>6. \A u \in Tasks : u # dst /\ (pc'[u] = pc[u] \/ (Live(u) /\ Live(u)'))
                         => Space(u)' = Space(u)
  BY <1>3, SameSpace
<1>7. CASE Len(rest) > 1
  <2>1. pc' = [pc EXCEPT ![t] = "see"]
    BY <1>2, <1>7 DEF Enter
  <2>2. Live(t)' /\ \A u \in Tasks : u # t => pc'[u] = pc[u]
    BY <1>1, <2>1 DEF TypeOK, Live
  <2>3. dst # t /\ pc[dst] = "none"
    <3>1. PICK n \in Nat : n = Len(rest)
      BY <1>2
    <3>2. n > 1
      BY <1>7, <3>1, Zenon
    <3>3. n # 1
      BY <3>2
    <3> QED
      BY <1>4, <3>1, <3>3, Zenon
  <2>4. Space(dst)' = Space(dst)
    BY <2>2, <2>3, SpaceNow, SpaceLater
  <2>5. \A u \in Tasks : Space(u)' = Space(u)
    BY <1>1, <1>6, <2>2, <2>4
  <2> QED
    BY <2>5, SpaceStutters
<1>8. CASE ~(Len(rest) > 1) /\ job # "fork"
  <2>1. dst = t
    BY <1>4, <1>8
  <2>2. \/ job = "fault" /\ pc' = [pc EXCEPT ![t] = "hung", ![t] = "hung"]
        \/ pc' = [pc EXCEPT ![t] = "user", ![t] = "user"]
    BY <1>2, <1>8, <2>1 DEF Enter, Finish
  <2>3. /\ (pc'[t] = "hung" /\ job = "fault") \/ pc'[t] = "user"
        /\ \A u \in Tasks : u # t => pc'[u] = pc[u]
    BY <1>1, <2>2 DEF TypeOK
  <2>4. \A u \in Tasks : u # t => Space(u)' = Space(u)
    BY <1>6, <2>1, <2>3
  <2>5. CASE pc'[t] = "hung"
    BY <1>1, <2>4, <2>5, SpaceEnds
  <2>6. CASE pc'[t] = "user"
    <3>1. Live(t)'
      BY <2>6 DEF Live
    <3>2. PICK x : x = data'[page]
      OBVIOUS
    <3>3. Seen' = [Seen EXCEPT ![t][vb] = x]
      <4>1. Content(t, vb)' = x /\ \A va \in UserPages : va # vb => Content(t, va)' = Content(t, va)
        BY <1>3, <2>1, <3>2
      <4> QED
        BY <1>1, <2>4, <3>1, <4>1, PageChanges
    <3>4. /\ Space(t) \notin {Unborn, Ended} /\ Seen[t] = Space(t)
          /\ Space(t) = [va \in UserPages |-> Content(t, va)]
      BY <1>1, AliveOnes, SpaceNow
    <3>5. Spaces!Mapped(t) = {va \in UserPages : HasPage(t, va)}
      BY <1>1, <3>4, MappedOnes DEF Spaces!Mapped, Spaces!Alive, Seen
    <3>6. CASE job = "load"
      <4>1. t = root
        BY <1>2, <3>6 DEF Loads
      <4>2. Spaces!Mapped(root) = {}
        BY <1>4, <3>5, <3>6, <4>1 DEF HasPage
      <4>3. x = Code
        BY <1>3, <3>2, <3>6
      <4>4. Spaces!Load(vb)
        BY <3>3, <3>4, <4>1, <4>2, <4>3 DEF Spaces!Load, Spaces!Alive, Seen
      <4> QED
        BY <4>4 DEF Spaces!Next
    <3>7. CASE job = "fault"
      <4>1. vb \notin Spaces!Mapped(t)
        BY <1>3, <2>1, <3>5
      <4>2. x = Zero
        BY <1>3, <3>2, <3>7
      <4>3. Spaces!Grow(t, vb)
        BY <3>3, <3>4, <4>1, <4>2 DEF Spaces!Grow, Spaces!Alive, Seen
      <4> QED
        BY <4>3 DEF Spaces!Next
    <3> QED
      BY <1>4, <1>5, <1>8, <3>6, <3>7
  <2> QED
    BY <2>3, <2>5, <2>6
<1>9. CASE ~(Len(rest) > 1) /\ job = "fork"
  <2>1. dst # t /\ pc[dst] = "none"
    BY <1>4, <1>9
  <2>2. pc' = [pc EXCEPT ![t] = "user", ![dst] = "user"]
    BY <1>2, <1>9 DEF Enter, Finish
  <2>3. /\ pc'[t] = "user" /\ pc'[dst] = "user"
        /\ \A u \in Tasks : u # t /\ u # dst => pc'[u] = pc[u]
    BY <1>1, <2>1, <2>2 DEF TypeOK
  <2>4. \A u \in Tasks : u # dst => Space(u)' = Space(u)
    BY <1>1, <1>6, <2>3 DEF Live
  <2>5. \A va : Among(rest, va) <=> va = vb
    <3>1. Len(rest) = 1
      <4>1. PICK n \in Nat : n = Len(rest) /\ n # 0
        BY <1>2, EmptySeq
      <4>2. ~(n > 1)
        BY <1>9, <4>1, Zenon
      <4> QED
        BY <4>1, <4>2
    <3>2. DOMAIN rest = 1 .. 1 /\ rest[1] = vb
      BY <1>2, <3>1
    <3> QED
      BY <3>2 DEF Among
  <2>6. \A va : HasPage(t, va) <=> HasPage(dst, va) \/ va = vb
    BY <1>1, <1>2, <1>9, <2>5, ParentHas DEF SInv
  <2> DEFINE copied == {va \in UserPages : HasPage(t, va)}
  <2>7. ASSUME NEW va \in UserPages
        PROVE  Content(dst, va)' = IF va \in copied THEN Content(t, va) ELSE NoPage
    <3>1. CASE va = vb
      BY <1>3, <1>9, <2>6, <3>1
    <3>2. CASE va # vb
      <4>1. Content(dst, va)' = Content(dst, va)
        BY <1>3, <3>2
      <4>2. HasPage(dst, va) => Content(dst, va) = Content(t, va)
        BY <1>1, <1>2, <1>9 DEF CopyOK
      <4>3. ~HasPage(dst, va) => Content(dst, va) = NoPage
        BY MappedOnes
      <4> QED
        BY <2>6, <3>2, <4>1, <4>2, <4>3
    <3> QED
      BY <3>1, <3>2
  <2>8. copied # {} /\ copied \in SUBSET UserPages /\ \A va \in copied : HasPage(t, va)
    BY <2>6
  <2>9. copied = {va \in UserPages : HasPage(t, va)}
    OBVIOUS
  <2>10. IF copied = {} THEN pc'[dst] \in {"hung", "astray"} ELSE pc'[dst] = "user"
    BY <2>3, <2>8
  <2> HIDE DEF copied
  <2> QED
    BY <1>1, <2>1, <2>4, <2>7, <2>8, <2>9, <2>10, SpaceForks
<1> QED
  BY <1>7, <1>8, <1>9

LEMMA InitSeen == Init => Spaces!Init
<1> SUFFICES ASSUME Init PROVE Spaces!Init
  OBVIOUS
<1>1. \A t \in Tasks, va \in UserPages : Content(t, va) = NoPage
  <2>1. 0 \notin Pages /\ NoEntry = 0 /\ \A t \in Tasks : pgd[t] = 0
    BY DEF Pages, NoEntry, Init
  <2> QED
    BY <2>1, Zenon DEF Content, Translated, Below
<1>2. \A t \in Tasks : pc[t] = IF t = root THEN "kernel" ELSE "none"
  BY DEF Init
<1>3. \A t \in Tasks :
        Space(t) = IF t = root THEN [va \in UserPages |-> NoPage] ELSE Unborn
  BY <1>1, <1>2, SpaceNow DEF Live
<1> QED
  BY <1>3 DEF Spaces!Init

LEMMA NextSeen ==
  ASSUME IInv, SInv, Loads, [Next]_vars
  PROVE  [Spaces!Next]_(Spaces!vars)
<1>1. Unmarked = {} => Unmarked' = {}
  BY FullStays
<1>2. CASE MoveToUserMode
  <2>1. root \in Tasks /\ Live(root) /\ Begin(root, "load", root, <<0>>, UserPage)
    BY <1>2, MemoryAssumption DEF MoveToUserMode, Live
  <2> QED
    BY <2>1, BeginUnseen
<1>3. ASSUME NEW t \in Tasks,
             \/ \E va \in UserPages : Fault(t, va)
             \/ \E child \in Tasks : Fork(t, child)
      PROVE  Spaces!Next
  <2>1. Live(t)
    BY <1>3 DEF Fault, Fork, Live
  <2> QED
    BY <1>3, <2>1, BeginUnseen DEF Fault, Fork
<1>4. ASSUME NEW t \in Tasks,
             \/ \E va \in UserPages, value \in Words : Write(t, va, value)
             \/ Exit(t) \/ See(t) \/ Mark(t) \/ Descend(t)
             \/ NeedTable(t) \/ Enter(t) \/ NoneLeft(t) \/ WithoutTable(t)
      PROVE  Spaces!Next
  BY <1>1, <1>4, WriteSeen, ExitSeen, OnTheWayUnseen, MarkUnseen, EnterSeen, NoneLeftSeen,
     WithoutTableSeen
<1>5. CASE UNCHANGED vars
  <2>1. \A t \in Tasks : Space(t)' = Space(t)
    BY <1>5 DEF vars, Space, Content, Translated, Below
  <2> QED
    BY <1>1, <2>1, SpaceStutters
<1> QED
  BY <1>2, <1>3, <1>4, <1>5, NextCases

\* p1_6 gives its tasks address spaces: each has memory of its own, a copy at
\* a fork, and zeroes for a new page, whatever the memory, the tables and the
\* number of tasks, and whenever a timer interrupt comes.
THEOREM ImplementsThem == Spec => ImplementsSpaces
<1>1. Init => Loads
  BY DEF Init, Loads, Idle
<1>2. IInv /\ Loads /\ [Next]_vars => Loads'
  <2>1. IInv /\ Loads /\ UNCHANGED vars => Loads'
    BY DEF vars, Loads
  <2> QED
    BY <2>1, NextLoads
<1>3. Spec => []Loads
  BY <1>1, <1>2, Invariant, PTL DEF Spec
<1>4. Init => Spaces!Init
  BY InitSeen
<1>5. IInv /\ SInv /\ Loads /\ [Next]_vars => [Spaces!Next]_(Spaces!vars)
  BY NextSeen
<1> QED
  BY <1>3, <1>4, <1>5, SpacesInvariant, PTL DEF Spec, ImplementsSpaces, Spaces!Spec

=============================================================================
