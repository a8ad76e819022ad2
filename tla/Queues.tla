------------------------------ MODULE Queues ------------------------------
(***************************************************************************)
(* The process queues of phase1/pcb.c as pure operators.  A queue is the   *)
(* sequence of the processes linked through p_list from its sentinel, head *)
(* first; the pointers themselves are abstracted.                          *)
(***************************************************************************)
EXTENDS Integers, FiniteSets, SequencesExt

\* Mutant of InsertProcQ: >= for >, ahead of the processes of equal priority.
InsertBeforeEquals(prio, q, p) ==
  LET notHigher == {i \in 1..Len(q) : prio[p] >= prio[q[i]]}
  IN  IF notHigher = {} THEN Append(q, p) ELSE InsertAt(q, Min(notHigher), p)

\* Mutant of InsertProcQ: the priority is ignored.
InsertLast(prio, q, p) == Append(q, p)

\* insertProcQ: p goes before the first process of lower priority, and to the
\* tail when there is none.  prio maps a process to its p_prio.
InsertProcQ(prio, q, p) ==
  LET lower == {i \in 1..Len(q) : prio[p] > prio[q[i]]}
  IN  IF lower = {} THEN Append(q, p) ELSE InsertAt(q, Min(lower), p)

\* The queue left when outProcQ has taken every process of K out of q.
Without(q, K) ==
  LET Left[i \in 0..Len(q)] ==
        IF i = 0 THEN <<>>
        ELSE IF q[i] \in K THEN Left[i-1] ELSE Append(Left[i-1], q[i])
  IN  Left[Len(q)]

\* The queue after insertProcQ of the processes of w, one after the other.
InsertEach(prio, q, w) ==
  LET Into[i \in 0..Len(w)] ==
        IF i = 0 THEN q ELSE InsertProcQ(prio, Into[i-1], w[i])
  IN  Into[Len(w)]

\* q holds no process twice.
NoRepetition(q) == \A i, j \in 1..Len(q) : q[i] = q[j] => i = j

\* q is in descending order of priority.
Sorted(prio, q) ==
  \A i, j \in 1..Len(q) : i < j => prio[q[i]] >= prio[q[j]]
============================================================================
