------------------------------- MODULE ListX -------------------------------
(***************************************************************************)
(* The circular doubly linked lists of headers/listx.h, pointer by         *)
(* pointer.  A memory m holds the next and prev of every struct list_head; *)
(* a list is known by its sentinel, itself such a struct.                  *)
(***************************************************************************)
EXTENDS Integers, FiniteSets, Sequences

\* INIT_LIST_HEAD
InitListHead(m, n) ==
  [next |-> [m.next EXCEPT ![n] = n], prev |-> [m.prev EXCEPT ![n] = n]]

\* __list_add: its four assignments, two of each field, in its order.
ListInsert(m, new, before, after) ==
  [next |-> [m.next EXCEPT ![new] = after, ![before] = new],
   prev |-> [m.prev EXCEPT ![after] = new, ![new] = before]]

ListAdd(m, new, head) == ListInsert(m, new, head, m.next[head])
ListAddTail(m, new, head) == ListInsert(m, new, m.prev[head], head)

\* Mutant of ListDel: the removed element keeps its links.
ListCut(m, entry) ==
  [next |-> [m.next EXCEPT ![m.prev[entry]] = m.next[entry]],
   prev |-> [m.prev EXCEPT ![m.next[entry]] = m.prev[entry]]]

\* list_del: __list_del, and the entry is left as an empty list.
ListDel(m, entry) ==
  [next |-> [m.next EXCEPT ![m.prev[entry]] = m.next[entry], ![entry] = entry],
   prev |-> [m.prev EXCEPT ![m.next[entry]] = m.prev[entry], ![entry] = entry]]

ListEmpty(m, head) == m.next[head] = head

\* The elements list_for_each_entry visits, in its order.  A walk that does
\* not come back to its head is cut off after as many steps as there are
\* structs.
Elements(m, head) ==
  LET size == Cardinality(DOMAIN m.next)
      From[k \in 0..size] == [n \in DOMAIN m.next |->
        IF k = 0 \/ n = head THEN <<>> ELSE <<n>> \o From[k-1][m.next[n]]]
  IN  From[size][m.next[head]]

----------------------------------------------------------------------------

Memories(Nodes) == [next : [Nodes -> Nodes], prev : [Nodes -> Nodes]]

\* An element in no list, and a list without elements.
Alone(m, n) == m.next[n] = n /\ m.prev[n] = n

\* Following a link and coming back leads to where one started.
Circular(m) ==
  \A n \in DOMAIN m.next : m.prev[m.next[n]] = n /\ m.next[m.prev[n]] = n
============================================================================
