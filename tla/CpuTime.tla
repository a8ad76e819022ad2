------------------------------ MODULE CpuTime ------------------------------
(***************************************************************************)
(* The accounting of CPU time, composed with the nucleus: p_time and       *)
(* p_start, charged by updateCpuTime() in some of the handlers, by GETTIME *)
(* on its own, and restarted by the dispatch in scheduler().  The time a   *)
(* handler itself takes is left out.                                       *)
(***************************************************************************)
EXTENDS Nucleus

CONSTANT MaxTime   \* bound of this model: the clock and p_time stop there

ASSUME MaxTimeAssumption == MaxTime \in Nat

VARIABLES
  now,      \* the TOD clock: external
  pStart,   \* p_start
  pTime,    \* p_time
  ran,      \* history: how long each process has had the CPU
  asked     \* history: the processes that have called GETTIME

times == <<pStart, pTime>>
timedVars == <<vars, now, pStart, pTime, ran, asked>>

----------------------------------------------------------------------------

\* Mutant of UpdateCpuTime: the operands of the difference swapped.
ChargeBackwards ==
  /\ pTime' = IF current = NULL THEN pTime
              ELSE [pTime EXCEPT ![current] = @ + (pStart - now)]
  /\ pStart' = now

\* Mutant of UpdateCpuTime: p_start is reset before the difference is taken.
ResetFirst == pTime' = pTime /\ pStart' = now

\* updateCpuTime: the running process is charged for the time since p_start,
\* which starts again; after WAIT there is nobody to charge.
UpdateCpuTime ==
  /\ pTime' = IF current = NULL THEN pTime
              ELSE [pTime EXCEPT ![current] = @ + (now - pStart)]
  /\ pStart' = now

\* Mutant of NoUpdate: the dispatch does not restart p_start.
DispatchWithout == UNCHANGED times

\* A handler that does not charge: p_start starts again if it ends in the
\* dispatch of another process.
NoUpdate ==
  /\ pTime' = pTime
  /\ pStart' = IF current' # current /\ current' # NULL THEN now ELSE pStart

\* allocPcb gives the new process a p_time of 0.
NewProcess ==
  LET new == free \ free'
  IN  /\ pTime' = [p \in Pcbs |-> IF p \in new THEN 0 ELSE pTime[p]]
      /\ ran' = [p \in Pcbs |-> IF p \in new THEN 0 ELSE ran[p]]
      /\ asked' = asked \ new
      /\ UNCHANGED pStart

\* GETTIME: charges like updateCpuTime, and leaves p_start.
GetCPUTime ==
  /\ Running
  /\ pTime[current] + (now - pStart) <= 2 * MaxTime
  /\ pTime' = [pTime EXCEPT ![current] = @ + (now - pStart)]
  /\ asked' = asked \cup {current}
  /\ UNCHANGED <<vars, now, pStart, ran>>

\* Time passes, for the running process or for nobody.
Tick ==
  /\ Interruptible
  /\ now < MaxTime
  /\ now' = now + 1
  /\ ran' = IF current = NULL THEN ran ELSE [ran EXCEPT ![current] = @ + 1]
  /\ UNCHANGED <<vars, pStart, pTime, asked>>

\* The handlers that call updateCpuTime() before they give the CPU away, and
\* the clock's, which always does.
Charging ==
  \/ \E s \in UserSems : Passeren(s) /\ sem'[s] < 0
  \/ \E d \in Devices : DoIO(d)
  \/ WaitForClock
  \/ Yield
  \/ HandlePLT
  \/ HandlePseudoClock
  \/ \E d \in Devices : HandleDevice(d) /\ current # NULL

\* Those that do not: calls that return, terminations, and the end of an
\* operation during WAIT.
NotCharging ==
  \/ \E s \in UserSems : Passeren(s) /\ sem'[s] >= 0
  \/ \E s \in UserSems : Verhogen(s)
  \/ TerminateProcess
  \/ PassUpOrDie
  \/ \E d \in Devices : HandleDevice(d) /\ current = NULL
  \/ Stopped

----------------------------------------------------------------------------

\* scheduler() has set p_start when main()'s first process runs.
TimedInit ==
  /\ Init
  /\ now = 0
  /\ pStart = 0
  /\ pTime = [p \in Pcbs |-> 0]
  /\ ran = [p \in Pcbs |-> 0]
  /\ asked = {}

TimedNext ==
  \/ Charging /\ UpdateCpuTime /\ UNCHANGED <<now, ran, asked>>
  \/ NotCharging /\ NoUpdate /\ UNCHANGED <<now, ran, asked>>
  \/ CreateProcess /\ NewProcess /\ UNCHANGED now
  \/ GetCPUTime
  \/ Tick

TimedSpec == TimedInit /\ [][TimedNext]_timedVars

----------------------------------------------------------------------------
(* Properties *)

TimedTypeOK ==
  /\ now \in Nat
  /\ pStart \in Nat
  /\ pTime \in [Pcbs -> Nat]
  /\ ran \in [Pcbs -> Nat]
  /\ asked \in SUBSET Pcbs

\* What p has been charged, or will be when it gives the CPU away.
Charged(p) == pTime[p] + IF p = current THEN now - pStart ELSE 0

\* However handlers that charge, handlers that do not and idle times
\* alternate, no time a process has the CPU gets lost: it is charged at least
\* for all of it.
NothingLost == \A p \in Live : Charged(p) >= ran[p]

\* And a process that has never called GETTIME is charged for nothing else:
\* neither for the others' time nor for the processor's in WAIT.
ChargedExactly == \A p \in Live \ asked : Charged(p) = ran[p]

\* Nobody has had more CPU time than real time has gone by, as the test of
\* GETTIME in p2test.c demands.
NoMoreCpuThanRealTime == \A p \in Live : pTime[p] <= now
============================================================================
