--------------------------- MODULE BlockedQueues ---------------------------
(***************************************************************************)
(* What the active semaphore list promises its callers: a map from the key *)
(* of a semaphore to the queue of the processes blocked on it, in order of *)
(* arrival, with at most PoolSize queues in use.                           *)
(***************************************************************************)
EXTENDS Integers, FiniteSets, Sequences

CONSTANTS Keys, Pcbs, PoolSize, NULL

VARIABLES
  queue,    \* the processes blocked on each key
  result    \* what the last operation returned

vars == <<queue, result>>

Blocked(p) == \E k \in Keys : \E i \in 1..Len(queue[k]) : queue[k][i] = p

InUse == {k \in Keys : queue[k] # <<>>}

\* A process is put last, unless that takes a queue too many.
Insert(k, p) ==
  \/ /\ k \in InUse \/ Cardinality(InUse) < PoolSize
     /\ ~Blocked(p)
     /\ queue' = [queue EXCEPT ![k] = Append(@, p)]
     /\ result' = FALSE
  \/ /\ k \notin InUse /\ Cardinality(InUse) = PoolSize
     /\ result' = TRUE
     /\ UNCHANGED queue

\* The first process leaves; NULL when there is none.
Remove(k) ==
  \/ /\ k \in InUse
     /\ queue' = [queue EXCEPT ![k] = Tail(@)]
     /\ result' = Head(queue[k])
  \/ k \notin InUse /\ result' = NULL /\ UNCHANGED queue

\* A process leaves the middle of the queue it is in.
Out(p) ==
  \/ \E k \in Keys : \E i \in 1..Len(queue[k]) :
       /\ queue[k][i] = p
       /\ queue' = [queue EXCEPT ![k] =
                      SubSeq(@, 1, i-1) \o SubSeq(@, i+1, Len(@))]
       /\ result' = p
  \/ ~Blocked(p) /\ result' = NULL /\ UNCHANGED queue

Peek(k) ==
  /\ result' = IF k \in InUse THEN Head(queue[k]) ELSE NULL
  /\ UNCHANGED queue

Init == queue = [k \in Keys |-> <<>>] /\ result = NULL

Next ==
  \/ \E k \in Keys, p \in Pcbs : Insert(k, p)
  \/ \E k \in Keys : Remove(k) \/ Peek(k)
  \/ \E p \in Pcbs : Out(p)

Spec == Init /\ [][Next]_vars
============================================================================
