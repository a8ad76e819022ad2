------------------------------ MODULE Nucleus ------------------------------
(***************************************************************************)
(* The nucleus of phase 2: the scheduler, the ten system calls, the "pass  *)
(* up or die" of the other exceptions and the interrupt handlers, above    *)
(* the PCBs, the process tree and the semaphore queues of phase 1.         *)
(*                                                                         *)
(* There is one CPU and the handlers run with interrupts disabled, so each *)
(* handler, with the scheduler() it may end in, is one action.  What       *)
(* interleaves is the order in which the running process calls the nucleus *)
(* and the devices and the timers interrupt it.                            *)
(***************************************************************************)
EXTENDS Queues

CONSTANTS
  Pcbs,       \* the entries of pcbFree_table: MAXPROC of them
  UserSems,   \* semaphores of the processes, passed by address to P and V
  Devices,    \* the 48 device semaphores; a terminal has two of them
  Clock,      \* the last element of deviceSemaphores, the pseudo-clock's
  Prios,      \* the priorities given to CREATEPROCESS
  NULL,       \* the null pointer
  MaxSem      \* bound of this model: no semaphore is raised above it

Sems == UserSems \cup Devices \cup {Clock}

\* Semaphores of the array deviceSemaphores, counted in softBlockCount.
SoftSems == Devices \cup {Clock}

ASSUME PcbsAssumption == IsFiniteSet(Pcbs) /\ Pcbs # {} /\ NULL \notin Pcbs
ASSUME SemsAssumption ==
  /\ IsFiniteSet(Sems)
  /\ UserSems \cap Devices = {} /\ Clock \notin UserSems \cup Devices
  /\ NULL \notin Sems
ASSUME PriosAssumption == Prios \subseteq Int /\ 0 \in Prios
ASSUME MaxSemAssumption == MaxSem \in Nat

VARIABLES
  ready,            \* readyQueue
  current,          \* currentProcess
  free,             \* the PCBs on pcbFree_h
  parent,           \* p_parent, of which the p_child lists are the inverse
  prio,             \* p_prio
  support,          \* whether p_supportStruct is there
  semAdd,           \* p_semAdd, which outlives the wait it was set for
  sem,              \* the value of each semaphore
  semq,             \* its s_procq; empty when the ASL has no such descriptor
  processCount, softBlockCount,
  cpu,              \* what the processor does between two handlers
  busy              \* devices that carry out a command: external

vars == <<ready, current, free, parent, prio, support, semAdd, sem, semq,
          processCount, softBlockCount, cpu, busy>>

CpuStates == {"running", "waiting", "halted", "panic", "spin"}

TypeOK ==
  /\ ready \in Seq(Pcbs)
  /\ current \in Pcbs \cup {NULL}
  /\ free \in SUBSET Pcbs
  /\ parent \in [Pcbs -> Pcbs \cup {NULL}]
  /\ prio \in [Pcbs -> Prios]
  /\ support \in [Pcbs -> BOOLEAN]
  /\ semAdd \in [Pcbs -> Sems \cup {NULL}]
  /\ sem \in [Sems -> Int]
  /\ semq \in [Sems -> Seq(Pcbs)]
  /\ processCount \in Nat
  /\ softBlockCount \in Nat
  /\ cpu \in CpuStates
  /\ busy \in SUBSET Devices

----------------------------------------------------------------------------
(* The process tree *)

\* t and its progeny: the least set that has t and the children of its
\* elements.
Subtree(t) ==
  {p \in Pcbs : \A S \in SUBSET Pcbs :
     (t \in S /\ \A c \in Pcbs : parent[c] \in S => c \in S) => p \in S}

\* The process TerminateProcess reaches by following p_parent from p.
Root(p) == CHOOSE r \in Pcbs : p \in Subtree(r) /\ parent[r] = NULL

----------------------------------------------------------------------------
(* The scheduler *)

\* Mutant of IdleState: the deadlock test before the test for no process.
PanicFirst(processes, softBlocked) ==
  CASE softBlocked = 0                    -> "panic"
    [] softBlocked > 0 /\ processes = 0   -> "halted"
    [] softBlocked > 0 /\ processes > 0   -> "waiting"
    [] OTHER                              -> "spin"

\* scheduler() when the ready queue is empty: HALT, PANIC, WAIT, or none of
\* the three, and then it loops with interrupts disabled.
IdleState(processes, softBlocked) ==
  CASE processes = 0                     -> "halted"
    [] processes > 0 /\ softBlocked = 0  -> "panic"
    [] processes > 0 /\ softBlocked > 0  -> "waiting"
    [] OTHER                             -> "spin"

\* scheduler() called with the ready queue q, after the counters' updates.
Schedule(q) ==
  \/ /\ q # <<>>
     /\ current' = Head(q)
     /\ ready' = Tail(q)
     /\ cpu' = "running"
  \/ /\ q = <<>>
     /\ current' = NULL
     /\ ready' = <<>>
     /\ cpu' = IdleState(processCount', softBlockCount')

\* The end of an interrupt handler: back to the interrupted process, or to
\* the scheduler if the processor was in WAIT.
Resume(q) ==
  \/ /\ current # NULL
     /\ ready' = q
     /\ UNCHANGED <<current, cpu>>
  \/ /\ current = NULL
     /\ Schedule(q)

----------------------------------------------------------------------------
(* The active semaphore list *)

\* Mutant of SemdPool: a table one descriptor short.
ShortPool == Cardinality(Pcbs) - 1

\* semd_table has as many descriptors as there are PCBs.
SemdPool == Cardinality(Pcbs)
Active == {s \in Sems : semq[s] # <<>>}

\* Mutant of InsertBlocked: the queue is ordered by priority.
InsertBlockedByPriority(s, p) ==
  /\ semq' = [semq EXCEPT ![s] = InsertProcQ(prio, @, p)]
  /\ semAdd' = [semAdd EXCEPT ![p] = s]

\* insertBlocked(s, p) refuses when s needs a descriptor and none is free.
\* Its callers ignore that result.
InsertBlocked(s, p) ==
  IF semq[s] = <<>> /\ Cardinality(Active) >= SemdPool
  THEN UNCHANGED <<semq, semAdd>>
  ELSE /\ semq' = [semq EXCEPT ![s] = Append(@, p)]
       /\ semAdd' = [semAdd EXCEPT ![p] = s]

\* removeBlocked(s) followed by insertProcQ into the ready queue.
ReadyWithHead(s) == InsertProcQ(prio, ready, Head(semq[s]))

----------------------------------------------------------------------------
(* System calls of the running process *)

Running == cpu = "running"

\* CREATEPROCESS.  allocPcb resets a PCB's fields; without a free one the
\* caller gets -1.
CreateProcess ==
  /\ Running
  /\ \/ /\ free = {}
        /\ UNCHANGED vars
     \/ \E p \in free, pr \in Prios, sup \in BOOLEAN :
          /\ free' = free \ {p}
          /\ prio' = [prio EXCEPT ![p] = pr]
          /\ support' = [support EXCEPT ![p] = sup]
          /\ semAdd' = [semAdd EXCEPT ![p] = NULL]
          /\ parent' = [parent EXCEPT ![p] = current]
          /\ ready' = InsertProcQ(prio', ready, p)
          /\ processCount' = processCount + 1
          /\ UNCHANGED <<current, sem, semq, softBlockCount, cpu, busy>>

\* Of the processes K that terminateProcessTree frees, those it finds blocked
\* on s: neither the running process nor in the ready queue, and p_semAdd is s.
BlockedIn(K, s) ==
  {p \in K : p # current /\ p \notin Range(ready) /\ semAdd[p] = s}

\* Mutant of Refund: the semaphore is not adjusted.
NoRefund(K, s) == 0

\* The units that the waiters of s among K give back to it.
Refund(K, s) == Cardinality(BlockedIn(K, s))

\* Mutant of SoftKilled: the comparison with the array's start is dropped.
AnyKilled(K) == UNION {BlockedIn(K, s) : s \in Sems}

\* Mutant of SoftKilled: < for <=, which misses the clock.
DeviceKilled(K) == UNION {BlockedIn(K, s) : s \in Devices}

\* The processes of K that softBlockCount counts.
SoftKilled(K) == UNION {BlockedIn(K, s) : s \in SoftSems}

\* Mutant of Unlinked: removeChild leaves p_parent as it is.
StillLinked(K) == parent

\* The tree without K: outChild and removeChild have cut each of its links.
Unlinked(K) == [p \in Pcbs |-> IF p \in K THEN NULL ELSE parent[p]]

\* outChild and terminateProcessTree on the subtree K, all but the ready queue
\* and the running process.
Kill(K) ==
  /\ sem' = [s \in Sems |-> sem[s] + Refund(K, s)]
  /\ semq' = [s \in Sems |-> Without(semq[s], BlockedIn(K, s))]
  /\ softBlockCount' = softBlockCount - Cardinality(SoftKilled(K))
  /\ parent' = Unlinked(K)
  /\ free' = free \cup K
  /\ processCount' = processCount - Cardinality(K)

\* The termination of a found target, and what follows it: the caller goes
\* on, unless it is gone.
Terminate(t) ==
  /\ Kill(Subtree(t))
  /\ \/ /\ current \in Subtree(t)
        /\ Schedule(Without(ready, Subtree(t)))
     \/ /\ current \notin Subtree(t)
        /\ ready' = Without(ready, Subtree(t))
        /\ UNCHANGED <<current, cpu>>
  /\ UNCHANGED <<prio, support, semAdd, busy>>

\* TERMPROCESS: the target is any process of the tree, the caller and its
\* ancestors included, or a pid that is none and is ignored.
TerminateProcess ==
  /\ Running
  /\ \/ UNCHANGED vars
     \/ \E t \in Subtree(Root(current)) : Terminate(t)

\* PASSEREN
Passeren(s) ==
  /\ Running
  /\ sem' = [sem EXCEPT ![s] = @ - 1]
  /\ UNCHANGED <<processCount, softBlockCount>>
  /\ \/ /\ sem'[s] >= 0
        /\ UNCHANGED <<ready, current, semAdd, semq, cpu>>
     \/ /\ sem'[s] < 0
        /\ InsertBlocked(s, current)
        /\ Schedule(ready)
  /\ UNCHANGED <<free, parent, prio, support, busy>>

\* VERHOGEN.  MaxSem bounds the value.
Verhogen(s) ==
  /\ Running
  /\ sem[s] < MaxSem
  /\ sem' = [sem EXCEPT ![s] = @ + 1]
  /\ \/ /\ sem'[s] <= 0 /\ semq[s] # <<>>
        /\ semq' = [semq EXCEPT ![s] = Tail(@)]
        /\ ready' = ReadyWithHead(s)
     \/ /\ sem'[s] > 0 \/ semq[s] = <<>>
        /\ UNCHANGED <<semq, ready>>
  /\ UNCHANGED <<current, free, parent, prio, support, semAdd>>
  /\ UNCHANGED <<processCount, softBlockCount, cpu, busy>>

\* What DOIO and CLOCKWAIT share: the caller always blocks on s.
SoftBlock(s) ==
  /\ sem' = [sem EXCEPT ![s] = @ - 1]
  /\ InsertBlocked(s, current)
  /\ softBlockCount' = softBlockCount + 1
  /\ UNCHANGED processCount
  /\ Schedule(ready)
  /\ UNCHANGED <<free, parent, prio, support>>

\* Completions of d that woke nobody: the distance of the value from the
\* number of waiters.
Drift(d) == sem[d] + Len(semq[d])

\* DOIO.  A command written to a device at work is not a second operation.
\* MaxSem bounds the drift.
DoIO(d) ==
  /\ Running
  /\ Drift(d) < MaxSem
  /\ SoftBlock(d)
  /\ busy' = busy \cup {d}

\* CLOCKWAIT
WaitForClock ==
  /\ Running
  /\ SoftBlock(Clock)
  /\ UNCHANGED busy

\* YIELD: to the tail of the ready queue, whatever the priority.
Yield ==
  /\ Running
  /\ UNCHANGED <<processCount, softBlockCount>>
  /\ Schedule(Append(ready, current))
  /\ UNCHANGED <<free, parent, prio, support, semAdd, sem, semq, busy>>

\* Traps, TLB exceptions, unknown system calls and those of user mode: up to
\* the support level, or the end of the process and its progeny.
PassUpOrDie ==
  /\ Running
  /\ \/ /\ support[current]
        /\ UNCHANGED vars
     \/ /\ ~support[current]
        /\ Kill(Subtree(current))
        /\ Schedule(Without(ready, Subtree(current)))
        /\ UNCHANGED <<prio, support, semAdd, busy>>

----------------------------------------------------------------------------
(* Interrupts, taken while a process runs or the processor is in WAIT *)

Interruptible == cpu \in {"running", "waiting"}

\* Mutant of HandlePLT: the timer is reloaded and the process goes on.
ReloadOnly ==
  /\ Running
  /\ UNCHANGED vars

\* The end of the time slice.  WAIT masks this timer, so a process runs.
HandlePLT ==
  /\ Running
  /\ UNCHANGED <<processCount, softBlockCount>>
  /\ Schedule(InsertProcQ(prio, ready, current))
  /\ UNCHANGED <<free, parent, prio, support, semAdd, sem, semq, busy>>

\* Mutant of Released: the semaphore is raised in the loop's condition,
\* which leaves the last waiter.
ReleasedButLast ==
  IF -sem[Clock] <= Len(semq[Clock])
  THEN -sem[Clock] - 1 ELSE Len(semq[Clock]) - 1

\* How many turns of handlePseudoClock's loop find a process to release.
Released ==
  IF -sem[Clock] <= Len(semq[Clock]) THEN -sem[Clock] ELSE Len(semq[Clock])

\* The pseudo-clock tick: the loop raises the semaphore to zero and releases
\* a process each time.
HandlePseudoClock ==
  /\ Interruptible
  /\ \/ /\ sem[Clock] < 0
        /\ sem' = [sem EXCEPT ![Clock] = 0]
        /\ semq' = [semq EXCEPT ![Clock] = SubSeq(@, Released + 1, Len(@))]
        /\ softBlockCount' = softBlockCount - Released
        /\ UNCHANGED processCount
        /\ Resume(InsertEach(prio, ready, SubSeq(semq[Clock], 1, Released)))
     \/ /\ sem[Clock] >= 0
        /\ UNCHANGED <<sem, semq, softBlockCount, processCount>>
        /\ Resume(ready)
  /\ UNCHANGED <<free, parent, prio, support, semAdd, busy>>

\* Mutant of WakesWaiter: < for <=.
WakesAllButLast(d) == sem[d] + 1 < 0

\* The test of handleDevice after the V on d.
WakesWaiter(d) == sem[d] + 1 <= 0

\* The completion of d's operation: acknowledged, and a V on its semaphore.
HandleDevice(d) ==
  /\ Interruptible
  /\ d \in busy
  /\ busy' = busy \ {d}
  /\ sem' = [sem EXCEPT ![d] = @ + 1]
  /\ UNCHANGED processCount
  /\ \/ /\ WakesWaiter(d) /\ semq[d] # <<>>
        /\ semq' = [semq EXCEPT ![d] = Tail(@)]
        /\ softBlockCount' = softBlockCount - 1
        /\ Resume(ReadyWithHead(d))
     \/ /\ ~WakesWaiter(d) \/ semq[d] = <<>>
        /\ UNCHANGED <<semq, softBlockCount>>
        /\ Resume(ready)
  /\ UNCHANGED <<free, parent, prio, support, semAdd>>

\* After HALT or PANIC the machine stays as it is.
Stopped ==
  /\ cpu \in {"halted", "panic"}
  /\ UNCHANGED vars

----------------------------------------------------------------------------

\* main(): one process, of priority 0 and without support structure, which
\* the first call of scheduler() has dispatched.  The processes' semaphores
\* have the values the program gives them.
Init ==
  /\ current \in Pcbs
  /\ ready = <<>>
  /\ free = Pcbs \ {current}
  /\ parent = [p \in Pcbs |-> NULL]
  /\ prio = [p \in Pcbs |-> 0]
  /\ support = [p \in Pcbs |-> FALSE]
  /\ semAdd = [p \in Pcbs |-> NULL]
  /\ sem \in [Sems -> 0..MaxSem] /\ \A s \in SoftSems : sem[s] = 0
  /\ semq = [s \in Sems |-> <<>>]
  /\ processCount = 1
  /\ softBlockCount = 0
  /\ cpu = "running"
  /\ busy = {}

\* The running process calls the nucleus, or raises an exception.
Call ==
  \/ CreateProcess
  \/ TerminateProcess
  \/ \E s \in UserSems : Passeren(s)
  \/ \E s \in UserSems : Verhogen(s)
  \/ \E d \in Devices : DoIO(d)
  \/ WaitForClock
  \/ PassUpOrDie

Interrupt ==
  \/ HandlePLT
  \/ HandlePseudoClock
  \/ \E d \in Devices : HandleDevice(d)

Next == Call \/ Yield \/ Interrupt \/ Stopped

Spec == Init /\ [][Next]_vars
----------------------------------------------------------------------------
(* Safety *)

Live == Pcbs \ free

\* The processes blocked on a semaphore of T.
Waiters(T) == UNION {Range(semq[s]) : s \in T}

\* Every PCB is in exactly one place: the free list, the ready queue, the CPU
\* or the queue of the one semaphore its p_semAdd names.  The links of a
\* process are reused for all these lists, so a PCB in two of them corrupts
\* both, and one in none is lost.
OnePlace ==
  /\ NoRepetition(ready) /\ \A s \in Sems : NoRepetition(semq[s])
  /\ free \cap Range(ready) = {}
  /\ current \notin free \cup Range(ready)
  /\ \A s \in Sems : \A p \in Range(semq[s]) :
       p \notin free \cup Range(ready) /\ p # current /\ semAdd[p] = s
  /\ Live \subseteq Range(ready) \cup {current} \cup Waiters(Sems)

\* The counters scheduler() decides by are the numbers they stand for:
\* the processes alive, and those blocked on a device or on the clock.
CountersExact ==
  /\ processCount = Cardinality(Live)
  /\ softBlockCount = Cardinality(Waiters(SoftSems))

\* The value of a semaphore and its queue agree: a negative value counts the
\* waiters of a process semaphore or of the clock, whose value never exceeds
\* zero; a device's may lag behind its queue by completions that woke nobody,
\* but counts no process that is not in it.
SemaphoreAgrees ==
  /\ \A s \in UserSems \cup {Clock} :
       Len(semq[s]) = IF sem[s] < 0 THEN -sem[s] ELSE 0
  /\ sem[Clock] <= 0
  /\ \A d \in Devices : Drift(d) >= 0

\* The processes alive form one tree: no freed PCB has a parent or children,
\* and as long as there are processes one root reaches them all.  TERMPROCESS
\* relies on it to find any pid, and to walk up without meeting a cycle.
FamilyTree ==
  /\ \A p \in free : parent[p] = NULL
  /\ \A p \in Pcbs : parent[p] \notin free
  /\ Live # {} =>
       \E r \in Live : parent[r] = NULL /\ Subtree(r) = Live

\* The processor halts when no process is left, panics when all of them wait
\* for one another, waits only while one is blocked on a device or on the
\* clock, and never loops in scheduler(); while it runs it runs a process.
\* Whether that one will be woken depends on the clients: see WaitEnds.
StopJustified ==
  /\ cpu = "running" <=> current # NULL
  /\ cpu # "running" => ready = <<>>
  /\ cpu = "halted" <=> Live = {}
  /\ cpu = "panic" => Live = Waiters(UserSems)
  /\ cpu = "waiting" => Waiters(SoftSems) # {}
  /\ cpu # "spin"

\* The processes in front of p in q.
Ahead(p, q) ==
  {q[i] : i \in {k \in 1..Len(q) : \E j \in k+1..Len(q) : q[j] = p}}

\* Semaphores are first come, first served: whatever the priorities, nobody
\* comes in front of a waiter, and who is woken while p goes on waiting had
\* been in front of it.
NoOvertaking ==
  [][\A s \in Sems : \A p \in Range(semq[s]) \cap Range(semq'[s]) :
       /\ Ahead(p, semq'[s]) \subseteq Ahead(p, semq[s])
       /\ Range(semq[s]) \ (Range(semq'[s]) \cup free')
            \subseteq Ahead(p, semq[s])]_vars
============================================================================
