-------------------------------- MODULE Asl --------------------------------
(***************************************************************************)
(* The active semaphore list of phase1/asl.c, pointer by pointer: a list   *)
(* of descriptors in order of their keys, a free list of descriptors, and  *)
(* in each descriptor a list of processes linked through the same p_list   *)
(* as the other queues.  The callers are any of the nucleus's: they never  *)
(* insert a process that is in a list already.                             *)
(***************************************************************************)
EXTENDS ListX

CONSTANTS
  Pcbs,      \* the process control blocks
  PoolSize,  \* the entries of semd_table; MAXPROC in the code
  Keys,      \* addresses of semaphores
  NULL       \* the null pointer

ASSUME PcbsAssumption == IsFiniteSet(Pcbs)
ASSUME PoolAssumption == PoolSize \in Nat \ {0}
ASSUME KeysAssumption == Keys \subseteq Nat

Semds == 1..PoolSize

ASSUME NullAssumption == NULL \notin Pcbs \cup Keys \cup Semds

\* The list_head structs: one in each PCB, two in each descriptor, and the
\* sentinels of the two lists of descriptors.
PList(p) == <<"p_list", p>>
SLink(d) == <<"s_link", d>>
SProcq(d) == <<"s_procq", d>>
SemdH == <<"semd_h", NULL>>
SemdFreeH == <<"semdFree_h", NULL>>
Structs ==
  {PList(p) : p \in Pcbs} \cup {SLink(d) : d \in Semds}
    \cup {SProcq(d) : d \in Semds} \cup {SemdH, SemdFreeH}

\* container_of
Container(n) == n[2]

VARIABLES
  links,   \* next and prev of all structs
  key,     \* s_key
  semAdd,  \* p_semAdd
  result   \* what the last operation returned

vars == <<links, key, semAdd, result>>

----------------------------------------------------------------------------

\* What a list contains, in order: descriptors or processes.
Contents(head) ==
  LET structs == Elements(links, head)
  IN  [i \in 1..Len(structs) |-> Container(structs[i])]

\* The first descriptor of semd_h whose key is k or above, NULL if none is.
FirstFrom(k) ==
  LET active == Contents(SemdH)
      reached == {i \in 1..Len(active) : key[active[i]] >= k}
  IN  IF reached = {} THEN NULL
      ELSE active[CHOOSE i \in reached : \A j \in reached : i <= j]

\* getSemd: the search ends at the first key that is not below k.
GetSemd(k) ==
  LET d == FirstFrom(k)
  IN  IF d # NULL /\ key[d] = k THEN d ELSE NULL

\* Mutant of Linked: a new descriptor is put last whatever its key.
LinkedLast(m, d, k) == ListAddTail(m, SLink(d), SemdH)

\* The insertion of d into semd_h, before the first greater key.  No key
\* equals k, or insertBlocked would have found it.
Linked(m, d, k) ==
  LET iter == FirstFrom(k)
  IN  ListAddTail(m, SLink(d), IF iter = NULL THEN SemdH ELSE SLink(iter))

\* Mutant of Queued: the last to come is the first in the queue.
QueuedFirst(m, p, d) == ListAdd(m, PList(p), SProcq(d))

\* The process p at the tail of the queue of d.
Queued(m, p, d) == ListAddTail(m, PList(p), SProcq(d))

\* After a process has left d: a descriptor without processes goes to the
\* head of the free list.
Retired(m, d) ==
  IF ListEmpty(m, SProcq(d))
  THEN ListAdd(ListDel(m, SLink(d)), SLink(d), SemdFreeH)
  ELSE m

----------------------------------------------------------------------------
(* Operations *)

\* insertBlocked; result tells whether the pool of descriptors was exhausted.
InsertBlocked(k, p) ==
  \/ /\ GetSemd(k) # NULL
     /\ Alone(links, PList(p))
     /\ links' = Queued(links, p, GetSemd(k))
     /\ semAdd' = [semAdd EXCEPT ![p] = k]
     /\ result' = FALSE
     /\ UNCHANGED key
  \/ /\ GetSemd(k) = NULL /\ ~ListEmpty(links, SemdFreeH)
     /\ Alone(links, PList(p))
     /\ LET d == Container(links.next[SemdFreeH])
            taken == InitListHead(ListDel(links, SLink(d)), SProcq(d))
        IN  /\ links' = Queued(Linked(taken, d, k), p, d)
            /\ key' = [key EXCEPT ![d] = k]
     /\ semAdd' = [semAdd EXCEPT ![p] = k]
     /\ result' = FALSE
  \/ /\ GetSemd(k) = NULL /\ ListEmpty(links, SemdFreeH)
     /\ result' = TRUE
     /\ UNCHANGED <<links, key, semAdd>>

\* removeBlocked
RemoveBlocked(k) ==
  \/ /\ GetSemd(k) # NULL
     /\ LET d == GetSemd(k)
            first == links.next[SProcq(d)]
        IN  /\ links' = Retired(ListDel(links, first), d)
            /\ result' = Container(first)
     /\ UNCHANGED <<key, semAdd>>
  \/ /\ GetSemd(k) = NULL
     /\ result' = NULL
     /\ UNCHANGED <<links, key, semAdd>>

\* The descriptor in whose queue outBlocked looks for p, and whether p is
\* there.  p_semAdd may be that of an earlier wait.
Named(p) == IF semAdd[p] = NULL THEN NULL ELSE GetSemd(semAdd[p])
Found(p) ==
  /\ Named(p) # NULL
  /\ LET waiting == Contents(SProcq(Named(p)))
     IN  \E i \in 1..Len(waiting) : waiting[i] = p

\* outBlocked
OutBlocked(p) ==
  \/ /\ Found(p)
     /\ links' = Retired(ListDel(links, PList(p)), Named(p))
     /\ result' = p
     /\ UNCHANGED <<key, semAdd>>
  \/ /\ ~Found(p)
     /\ result' = NULL
     /\ UNCHANGED <<links, key, semAdd>>

\* headBlocked
HeadBlocked(k) ==
  /\ result' = IF GetSemd(k) = NULL THEN NULL
               ELSE Container(links.next[SProcq(GetSemd(k))])
  /\ UNCHANGED <<links, key, semAdd>>

----------------------------------------------------------------------------

\* initASL: list_add puts the last descriptor of the table first.
Init ==
  /\ LET single == [next |-> [n \in Structs |-> n],
                    prev |-> [n \in Structs |-> n]]
         Freed[d \in 0..PoolSize] ==
           IF d = 0 THEN single ELSE ListAdd(Freed[d-1], SLink(d), SemdFreeH)
     IN  links = Freed[PoolSize]
  /\ key = [d \in Semds |-> NULL]
  /\ semAdd = [p \in Pcbs |-> NULL]
  /\ result = NULL

Next ==
  \/ \E k \in Keys, p \in Pcbs : InsertBlocked(k, p)
  \/ \E k \in Keys : RemoveBlocked(k) \/ HeadBlocked(k)
  \/ \E p \in Pcbs : OutBlocked(p)

Spec == Init /\ [][Next]_vars

----------------------------------------------------------------------------
(* Properties *)

\* No operation breaks a list of any other: everywhere next and prev undo
\* each other, although descriptors and processes change lists all the time.
LinksIntact == Circular(links)

\* Every descriptor is in one of the two lists, and is in semd_h exactly when
\* processes wait in it; there the keys ascend, so that the early end of
\* getSemd's search misses none and no key has two descriptors.
DescriptorsInOrder ==
  LET active == Contents(SemdH)
      unused == Contents(SemdFreeH)
      In(d, list) == \E i \in 1..Len(list) : list[i] = d
  IN  /\ \A d \in Semds :
           /\ In(d, active) = ~In(d, unused)
           /\ In(d, active) = ~ListEmpty(links, SProcq(d))
      /\ \A i, j \in 1..Len(active) :
           i < j => key[active[i]] < key[active[j]]

\* The queue of key k, found without relying on the order of semd_h.
QueueOf(k) ==
  LET active == Contents(SemdH)
      named == {i \in 1..Len(active) : key[active[i]] = k}
  IN  IF named = {} THEN <<>>
      ELSE Contents(SProcq(active[CHOOSE i \in named : TRUE]))

Map == INSTANCE BlockedQueues WITH queue <- [k \in Keys |-> QueueOf(k)]

\* Through all this linking and unlinking the callers see a map from
\* semaphores to queues, first come, first served.
IsMapOfQueues == Map!Spec
============================================================================
