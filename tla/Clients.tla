------------------------------ MODULE Clients ------------------------------
(***************************************************************************)
(* The nucleus under the disciplines its clients may follow, with the      *)
(* fairness of the hardware.  The nucleus enforces none of the             *)
(* disciplines; phase2/p2test.c leaves working devices alone: its          *)
(* processes print under the mutex sem_term_mut, and those it terminates   *)
(* are blocked elsewhere.                                                  *)
(***************************************************************************)
EXTENDS Nucleus

\* Fairness of the hardware.  scheduler() reloads the time slice at every
\* dispatch, so it runs out only for a process that keeps the CPU; the
\* interval timer and the devices are not disturbed by the scheduling.
Hardware ==
  /\ \A p \in Pcbs : WF_vars(current = p /\ HandlePLT)
  /\ WF_vars(HandlePseudoClock)
  /\ \A d \in Devices : WF_vars(HandleDevice(d))

----------------------------------------------------------------------------
(* Disciplines *)

\* While a device works nobody asks it for a second operation.
OneOperation == \A d \in busy \cap busy' : Len(semq'[d]) <= Len(semq[d])

\* While a device works its queue is left alone: nobody asks for a second
\* operation and the process that waits for the first is not terminated.
DeviceLeftAlone == \A d \in busy \cap busy' : semq'[d] = semq[d]

OneOperationSpec == Init /\ [][Next /\ OneOperation]_vars

CarefulSpec == Init /\ [][Next /\ DeviceLeftAlone]_vars /\ Hardware

FairSpec == Spec /\ Hardware

\* No process calls YIELD.
NoYieldSpec == Init /\ [][Call \/ Interrupt \/ Stopped]_vars /\ Hardware

----------------------------------------------------------------------------
(* Properties *)

\* Without YIELD the ready queue is ordered by priority, so that scheduler()
\* dispatches a process of the highest priority there is.
SortedReady == Sorted(prio, ready)

\* Round-robin: a ready process that no process outranks gets the CPU.  It
\* holds if all priorities are equal, and if nobody calls YIELD.
TopPriorityServed ==
  \A p \in Pcbs :
    (p \in Range(ready) /\ \A r \in Prios : prio[p] >= r)
      ~> (current = p \/ p \in free)

\* Who waits for a device or for the clock is woken and gets the CPU.
SoftWaiterServed ==
  \A p \in Pcbs : p \in Waiters(SoftSems) ~> (current = p \/ p \in free)

\* A working device has one waiter and an idle one none, and the value of the
\* semaphore says so: handleDevice's V finds the process it is for.
DeviceHandshake ==
  \A d \in Devices :
    /\ sem[d] = -Len(semq[d])
    /\ IF d \in busy THEN Len(semq[d]) = 1 ELSE semq[d] = <<>>

\* The processor waits only for an interrupt that wakes a process: the clock's,
\* or the end of an operation under way, finds the value of its semaphore
\* below zero and a process in its queue.  A completion without its waiter, or
\* a waiter counted twice, would leave scheduler() in WAIT for ever.
WaitEnds ==
  cpu = "waiting" =>
    \E s \in busy \cup {Clock} : sem[s] < 0 /\ semq[s] # <<>>

\* A process that waits for a device waits for an operation under way: the
\* consistency that the cleanup of terminateProcessTree is said to maintain.
IOWaiterHasOperation == \A d \in Devices : semq[d] # <<>> => d \in busy
============================================================================
