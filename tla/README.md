# A TLA+ model of the PandOSsh nucleus

The repository is a small operating-system kernel for the emulated µRISCV
machine: level 2 (`phase1/`, process control blocks, process tree and active
semaphore list) and level 3 (`phase2/`, the nucleus: scheduler, ten system
calls, exceptions and interrupts). This directory holds TLA+ specifications of
it, the TLC configurations that check them and TLAPS proofs about them.

## Inventory

| part | state | operations | modelled in |
|---|---|---|---|
| Lists (`listx.h`) | `next`, `prev` | `list_add`, `list_add_tail`, `list_del`, iteration | `ListX` |
| Process queues (`pcb.c:66-134`) | lists linked through `p_list` | `insertProcQ` (by priority), `removeProcQ`, `outProcQ` | `Queues` |
| PCB allocation (`pcb.c:7-63`) | `pcbFree_h`, `next_pid` | `allocPcb`, `freePcb` | `Tree`, `Nucleus` |
| Process tree (`pcb.c:136-177`) | `p_parent`, `p_child`, `p_sib` | `insertChild`, `removeChild`, `outChild` | `Tree`, `Nucleus` |
| Active semaphore list (`asl.c`) | `semd_h` sorted by key, `semdFree_h`, `s_procq` | `insertBlocked`, `removeBlocked`, `outBlocked`, `headBlocked` | `Asl`, `Nucleus` |
| Boot (`initial.c`) | all globals | `main` | `Init` of `Nucleus` |
| Scheduler (`scheduler.c`) | `readyQueue`, `currentProcess`, `processCount`, `softBlockCount` | `scheduler` | `Nucleus`, `CpuTime` |
| System calls (`syscalls.c`) | semaphores, counters, tree | ten calls, `findPcbByPid`, `terminateProcessTree` | `Nucleus`, `Tree`, `CpuTime`, `DeviceRegisters` |
| Interrupts (`interrupts.c`) | `deviceSemaphores` | `handlePLT`, `handlePseudoClock`, `handleDevice` | `Nucleus`, `DeviceRegisters` |
| Device registers (`interrupts.c`, `syscalls.c`) | status and command words, bitmap | index of a semaphore, acknowledgement | `DeviceRegisters` |
| Exceptions (`exceptions.c`, `traps.c`, `tlb.c`) | support structures | `passUpOrDie` | `Nucleus` |
| CPU time (`utils.c`) | `p_start`, `p_time` | `updateCpuTime`, GETTIME | `CpuTime` |
| Test of phase 2 (`p2test.c`) | its semaphores, pids, `p1p2synch` | its 18 processes | `P2Test` |
| Kernel log (`klog.c`) | circular buffer | `klog_print*` | no |

How they interact: all handlers change `readyQueue`, the ASL and the two counters
and end in `scheduler()` or in a return to the interrupted process; devices and
timers act between handlers; a PCB goes through the free list, the ready queue,
the CPU and the ASL by one and the same pair of links.

What is hard to get right in it:

* the code infers where a PCB is from `p_semAdd`, which is never cleared;
* `scheduler()` chooses between HALT, PANIC and WAIT by two counters updated by
  hand in seven handlers;
* terminating a subtree touches all lists at once, in the middle of other
  processes' waits and of device operations, and cuts the tree it walks;
* a device works on while its waiter is terminated;
* a semaphore's index is computed in two ways, when an operation begins and when
  it ends, and a terminal is two devices behind one interrupt;
* priorities, YIELD and time slices all reorder the ready queue;
* some handlers charge the running process for its time, and some do not.

## Modules

* `Queues` - `insertProcQ`, `outProcQ` and the loop of `handlePseudoClock` as
  operators on sequences (a list, head first).
* `Nucleus` - the nucleus. One action per handler: interrupts are disabled while
  a handler runs, and there is one CPU, so a handler with the `scheduler()` it
  ends in is one atomic step. The variables are the globals of `initial.c`, the
  PCB fields as functions of the PCB, and the ASL as a map from a semaphore to
  its value and its queue (`s_procq`; empty for a semaphore that has no
  descriptor). `cpu` is what the processor does after the handler. `busy` is the
  environment: the devices that carry out a command.
* `Clients` - the nucleus with the fairness of the hardware and with the
  disciplines under which its clients get service.
* `ListX` - the lists of `listx.h`, pointer by pointer, as operators on a memory
  of `next` and `prev` links; an element is known by its `list_head`.
* `Asl` - `asl.c` over `ListX`: `semd_h`, `semdFree_h`, the queues, keys and
  `p_semAdd`. It implements `BlockedQueues`, the map from a semaphore to a queue
  that `Nucleus` uses: `Map` maps its state, `IsMapOfQueues` is the refinement.
* `Tree` - the free list, pids and tree of `pcb.c` over `ListX`, the recursive
  search `findPcbByPid`, and the recursion of `terminateProcessTree` one call at
  a time (`calls` is its stack). It implements `ProcessFamily`, in which a
  termination takes a process and its progeny in one step.
* `CpuTime` - extends `Nucleus` with `p_start` and `p_time`: every action of the
  nucleus is in `Charging` or `NotCharging`, by whether its handler calls
  `updateCpuTime`. `ran` and `asked` are history.
* `DeviceRegisters` - one I/O operation by addresses: `DevIndex` is DOIO's
  computation, `SemIndex` and `ServedHalf` those of `handleDevice`. All the 40
  devices are there; a terminal has two halves.
* `P2Test` - the 18 processes of `p2test.c` as programs of instructions that are
  actions of `Nucleus`, interleaved by the local timer and the terminal.
* `MC*` - small instances for TLC. `*Proofs` - lemmas and theorems, checked by
  TLAPS.

Correspondence, where it is not by name:

| model | code |
|---|---|
| `Schedule(q)` | `scheduler()`, called with `readyQueue` = q |
| `Resume(q)` | end of an interrupt handler: `LDST` of the interrupted process or `scheduler()` |
| `Terminate(t)`, `Kill(K)` | `outChild` and `terminateProcessTree` of t, of the subtree K |
| `Subtree`, `Root` | the recursion over `p_child`, the walk up `p_parent` |
| `InsertBlocked` (`Nucleus`) | `insertBlocked`, with the refusal its callers ignore |
| `PassUpOrDie` | traps, TLB exceptions, user-mode and unknown system calls |
| `Drift(d)` | completions of d that woke nobody |
| `Retired` (`Asl`) | the end of `removeBlocked` and `outBlocked`: an empty descriptor is freed |
| `Descend`, `Return` (`Tree`) | a turn of the loop of `terminateProcessTree`, and its end |
| `Elements`, `Root`, `FindPcbByPid` (`ListX`, `Tree`) | the walk over a list, the walk up `p_parent`, the search down the children, see below |
| `NoUpdate` (`CpuTime`) | a handler without `updateCpuTime`; `p_start` set by the dispatch |
| `Part`, `P8Round` (`P2Test`) | stretches of the function `test` |

Abstracted in `Nucleus`: pointers, register contents, the order of the free list
(any free PCB may be allocated, and PCBs are interchangeable), pids (TERMPROCESS
names any process of the tree, or none), the order of siblings; `Asl` and `Tree`
have the pointers, the order and the pids. GETSUPPORTPTR and GETPROCESSID change
nothing and are left out.

The walks of the code have no bound of their own. In the model each is a recursive
function of the number of steps (nested calls, for `findPcbByPid`) that are left:
as many as there are structs for a list, as there are PCBs for the tree. A walk
that ran into a cycle would be cut off there, with a wrong result that the
properties see; `ElementsOfList` and `PidsFoundHolds` say that none is.

Assumed of the processes: they run with interrupts enabled, touch a semaphore
only by P and V once the program has started, and do not use the address of a
device semaphore in P and V. Assumed of a device: a command written while it
works does not start a second operation. Assumed of the callers of `asl.c`: they
do not insert a process that is in a list, as `OnePlace` shows of the nucleus.
`CpuTime` leaves out the time a handler takes itself.

`P2Test` leaves out saved states, delay loops and the tests of elapsed time; a
message is one character, and a loop goes round twice (p8 is incarnated twice, as
p4 is in the code). A time slice is long enough for one instruction. Two
assumptions on the timing of the test are definitions of the module:

* `IntervalIsLong` - the pseudo-clock ticks only when nobody is ready. p5 waits
  for the clock to be "reasonably sure" p4 and its offspring are dead.
* `P8rootEnds` - p8root is not preempted between its V on `sem_endp8` and its
  TERMPROCESS. Without it TLC finds `NoTestFails` violated: p1 resets
  `sem_blkp8` while the leaves of the first incarnation are in its queue, their
  termination raises it above zero, and the leaves of the second do not block.
  It is a race of the test, not of the nucleus.

## Runs

| run | instance | question |
|---|---|---|
| `nucleus_safety` | 3 PCBs, 1 process semaphore, 1 device, clock, priorities 0 and 1 | are the counters, the places of the PCBs, the tree and the semaphores right through all handlers, and the stops justified; is nobody overtaken on a semaphore |
| `careful_io` | 3 PCBs, equal priorities, fairness, `DeviceLeftAlone` | does each completion find its waiter, does WAIT end, and does each waiter and each ready process get the CPU |
| `priority` | 3 PCBs, priorities 0 and 1, fairness, no YIELD | is the ready queue ordered and the top priority served |
| `asl` | 3 processes, 3 keys, 2 descriptors | do the pointer lists implement a map of queues, the pool's end included |
| `tree` | 4 PCBs, pids to 6 | do links, parents and pids agree; does the recursion implement one-step termination, within bounds and to its end |
| `cpu_time` | 2 PCBs, a semaphore, a device, clock to 3 | is time lost, or charged to somebody else |
| `device_registers` | 2 processes, all 48 semaphores | do beginning and end of an operation meet, and is every one answered |
| `p2test` | 4 instances of the test, 8 PCBs | does the test, preempted wherever its two assumptions on time allow, pass and end, and never stop with everybody waiting |
| `yield_starves` | as `priority`, with YIELD | violates `TopPriorityServed` |
| `kill_during_io` | 2 PCBs, 1 device, `OneOperation` | violates `IOWaiterHasOperation` |
| `gettime` | 2 PCBs, clock to 2 | violates `NoMoreCpuThanRealTime` |
| `failed_transmission` | 2 processes, a transmission error | violates `ResultIsFinal` |

Bounds. `MaxSem` bounds the initial value and the V of a process semaphore, and
the drift of a device semaphore; in `p2test` it is 3, the value the test reaches.
Three PCBs give a running process with two others in any pair of places, three
queues and a semaphore with two waiters, and a chain or two siblings in the tree.
Two priorities are enough for an order and for equals in it. In `asl` the pool is
smaller than the keys in use, a key can be put before, between and after others,
and the third process meets an exhausted pool. In `tree` four PCBs give siblings
with progeny and six pids a reused PCB; `MaxPid` is the end of the creations. In
`cpu_time` three units of time are one for each of two turns and one idle.
`device_registers` needs no bound but the two processes: one at each half of a
terminal, or two devices on one or two lines. The four instances of `p2test`
together start every process of the test; with 8 PCBs p4 to p10 run together, and
p1 waits for p5 while they do. What is split off are p2 and p3, which have ended
before the next processes are started, the two processes of other priorities,
which share only the terminal and its mutex, and the family of p8, which the code
starts after p5 has ended; p9 and p10, if still alive by then, share only the
terminal with it.
Symmetry of PCBs is used where no liveness is checked.

Fairness. `Hardware` in `Clients`: weak fairness of the interval timer and of each
device, which nothing the nucleus does stops. The local timer is reloaded at each
dispatch (`scheduler.c:18`), so it is fair only to a process that keeps the CPU:
one weak fairness condition for each process. Nothing is assumed of what processes
call. `Tree`: the processor goes on with a termination it has begun
(`WF(Termination)`). `DeviceRegisters`: each device completes, and the pending
interrupts of a line are served; lower lines come first in the code, but each is
served once and nothing new is asked while an interrupt is pending. `P2Test`: the
processor executes, the terminal completes, the clock ticks; the local timer needs
no fairness for the test to end. `TestEnds` allows for any number of preemptions where the two assumptions do.

Refinement. `asl` checks `Map!Spec`. `ProcessFamily!Spec` is in two properties of
`tree`: its steps are `IsFamily`, and that an asked termination happens is in
`Terminates`. `Tree` keeps `before`, the family when the termination was asked for, as what is to be seen
from outside until the recursion is over.

## Findings

* `yield_starves`: `Yield` appends the caller to the ready queue whatever its
  priority (`syscalls.c:432`), but `insertProcQ` puts a preempted process in front
  of all those of lower priority. After a high-priority process yielded behind a
  low-priority one, another high-priority process is dispatched again at the end
  of each of its slices. `README.md:31` promises round-robin.
* `kill_during_io`: `terminateProcessTree` adjusts the semaphore of a killed
  waiter also for a device (`syscalls.c:173`); the completion of its operation
  adjusts it again (`interrupts.c:143`). From then on the value is one too high and
  a single waiter is not woken by its completion: `scheduler()` is left in WAIT for
  an interrupt that wakes nobody, which `StopJustified` allows and `WaitEnds`
  does not. `Documentation.md:22` promises consistency.
* `gettime`: GETTIME adds the time since `p_start` to `p_time` and leaves
  `p_start` (`syscalls.c:356`), so the interval is charged again by the next GETTIME
  or `updateCpuTime`. The test prints "error: more cpu time than real time" of such
  a time (`p2test.c:406`); it calls GETTIME only when little has been charged.
* `failed_transmission`: `handleDevice` takes an interrupt of a terminal for the
  transmitter's only if its status is 5 (`interrupts.c:127`). A transmission that
  ends with an error is served as a reception: a reader is woken with the status of
  a receiver that is still busy. `Documentation.md:26` calls the two "independent
  sub-devices", `Documentation.md:27` promises "independent synchronization".

## Proofs

TLAPS proves the following for any finite set of PCBs, semaphores and devices, any
set of integer priorities that has 0, and any `MaxSem` and `MaxTime`. The
assumptions are the named `ASSUME`s of the modules: the PCBs are finite, at least
one, and none is the null pointer; process semaphores, devices and clock are
different; the null pointer is no process, no status code and no address of a
semaphore, which in `Asl` is an integer; there is at least one descriptor. They
are what the tables of the code give; TLC evaluates them in every run.

| theorem | of | property | module |
|---|---|---|---|
| `Invariance` | `Nucleus` | `IInv`, the inductive invariant | `NucleusProofs` |
| `TypeCorrect` | `Nucleus` | `TypeOK` | `NucleusProofs` |
| `PcbInOnePlace` | `Nucleus` | `OnePlace` | `NucleusProofs` |
| `CountersAreExact` | `Nucleus` | `CountersExact` | `NucleusProofs` |
| `ProcessesAreATree` | `Nucleus` | `FamilyTree` | `NucleusProofs` |
| `StopsAreJustified` | `Nucleus` | `StopJustified` | `NucleusProofs` |
| `PoolSuffices` | `Nucleus` | a descriptor is free while a process runs | `NucleusProofs` |
| `SemaphoresAgree` | `Nucleus` | `SemaphoreAgrees` | `ClientsProofs` |
| `NobodyOvertakes` | `Nucleus` | `NoOvertaking` | `ClientsProofs` |
| `ReadyIsSorted` | `Clients`, no YIELD | `SortedReady` | `ClientsProofs` |
| `DevicesAndWaitersAgree` | `Clients`, devices left alone | `DeviceHandshake` | `ClientsProofs` |
| `WaitsEnd` | `Clients`, devices left alone | `WaitEnds` | `ClientsProofs` |
| `AccountingTypeCorrect` | `CpuTime` | `TimedTypeOK` | `CpuTimeProofs` |
| `NoTimeIsLost` | `CpuTime` | `NothingLost` | `CpuTimeProofs` |
| `ChargesAreExact` | `CpuTime` | `ChargedExactly` | `CpuTimeProofs` |
| `OperationsMeet` | `DeviceRegisters`, no failures | `OperationsMatchWaiters` | `DeviceRegistersProofs` |
| `ResultsAreFinal` | `DeviceRegisters`, no failures | `ResultIsFinal` | `DeviceRegistersProofs` |
| `IndicesAgree`, `IndicesDiffer` | `DeviceRegisters` | the two computations of an index are one injection | `DeviceRegistersProofs` |
| `TestIsSound` | `P2Test` | `TestInv`, the inductive invariant of the test | `P2TestProofs` |
| `TestsPass` | `P2Test` | `NoTestFails` | `P2TestProofs` |
| `TestNeverPanics` | `P2Test` | `NeverPanics`: the processor never panics | `P2TestProofs` |
| `TestLeavesTerminal` | `P2Test` | `LeavesTerminalAlone` | `P2TestProofs` |
| `TestServesTerminal` | `P2Test` | `DeviceHandshake`, while there are processes | `P2TestProofs` |
| `TestKeepsNucleus` | `P2Test` | the invariants of the nucleus | `P2TestProofs` |
| `MessagesDoNotMix` | `P2Test` | mutual exclusion of `print()` | `P2TestProofs` |
| `InsertProcQResult`, `WithoutResult`, `WithoutKeeps`, `InsertEachResult` | `Queues` | what each operation does to a queue | `ListsProofs` |
| `InsertionKeepsLists`, `AdditionKeepsLists`, `RemovalKeepsLists` | `ListX` | `Circular` is kept by each list operation | `ListsProofs` |
| `ElementsOfList` | `ListX` | a walk visits the elements of a list, and ends | `ListsProofs` |
| `InsertionInserts`, `RemovalRemoves`, `ListOperations` | `ListX` | what each operation does to all lists of a memory | `ListsProofs` |
| `IInvHolds` | `Asl` | `IInv` of `AslProofs` | `AslProofs` |
| `LinksIntactHolds` | `Asl` | `LinksIntact` | `AslProofs` |
| `DescriptorsInOrderHolds` | `Asl` | `DescriptorsInOrder` | `AslProofs` |
| `MapImplemented` | `Asl` | `IsMapOfQueues`, the refinement | `AslProofs` |
| `IInvHolds` | `Tree` | `IInv` of `TreeProofs` | `TreeProofs` |
| `TypeCorrect` | `Tree` | `TypeOK` | `TreeProofs` |
| `TreeConsistentHolds` | `Tree` | `TreeConsistent` | `TreeProofs` |
| `PidsFoundHolds` | `Tree` | `PidsFound` | `TreeProofs` |
| `FamilyImplemented` | `Tree` | `IsFamily`, the refinement | `TreeProofs` |
| `RecursionIsBounded` | `Tree` | `RecursionBounded` | `TreeProofs` |

None of the nucleus's properties is inductive alone. `IInv` is the conjunction of
`TypeOK`, `OnePlace`, `CountersExact`, `FamilyTree` and `CpuAgrees`, and each
needs another:

* `OnePlace` needs the tree: what TERMPROCESS frees is found along it, and only
  because the root it climbs to is alive are all of its targets.
* `OnePlace` needs itself to show that the pool never runs out: each active
  semaphore has a waiter of its own, and the running process is not one of them,
  so there are fewer active semaphores than PCBs (`AslNeverFull`). Without it
  `insertBlocked` could refuse, and the caller would be in no list.
* `CountersExact` needs `OnePlace`: the test by which `terminateProcessTree`
  finds the blocked (not running, not in the ready queue, `p_semAdd` = s) finds
  exactly the members of s's queue (`BlockedAreWaiters`).
* `TypeOK` needs `CountersExact`: a counter stays a natural number because it is
  a cardinality.
* `CpuAgrees` says what `scheduler()` leaves: with it a running processor has a
  current process, which every call relies on, and `StopJustified` follows.

On top of `IInv` come further inductions, each with its own step for each handler:

* `SemaphoreAgrees`: what `terminateProcessTree` adds to a value is what it takes
  from its queue.
* `NoOvertaking`: who blocks goes behind all others, who is woken was in front of
  them, and `outProcQ` leaves those it does not take in their order
  (`WithoutKeeps`); whoever else leaves a queue has been terminated.
* `SortedReady`: `insertProcQ` keeps an ordered queue in order (`SortedInsert`: the
  new process goes before the first lower one, and those behind are lower still),
  and so do `outProcQ` and the dispatch. YIELD is the one call with no such step.
* `DeviceHandshake`: a device that is left alone while it works is asked only when
  it has no waiter, is woken for exactly one, and no termination finds a process
  blocked on it (`KillLeavesDevices`). The run `kill_during_io` is what happens
  without that assumption. `WaitEnds` follows from it, from `SemaphoreAgrees` for the
  clock, and from the counters: WAIT means that somebody is blocked on one of them.
* `TInv` in `CpuTimeProofs`: a handler that charges moves the running time into
  `p_time` and changes nothing in the sum (`ChargingStep`); one that does not
  leaves the CPU with the same process, or that process is gone, or nobody had it
  (`Uncharged`). This is why the handlers without `updateCpuTime` lose nothing.

For the registers, `IndicesAgree` is arithmetic on addresses and `IndicesDiffer`
makes every queue belong to one device; the invariant is then `OperationsMatchWaiters`
with the types. With `Failures` not empty neither theorem holds.

The pointer modules are proved from one notion, `Holds(m, Nodes, L)` of
`ListsProofs`: the memory m, all of whose links undo each other, has at each
head h of the domain of L the list L[h]; no struct is in two lists, and one that
is in none is alone. `Circular` is too weak for an induction: it says nothing of
which list a struct is in, and `list_del` of a struct in the wrong list keeps it.
`ListOperations` says of every operation what it makes of `Holds`, on all lists
at once, and from there the proofs are about sequences and no longer about links.

* `IInv` of `AslProofs` is `Holds` with `Fits`: descriptors only in `semd_h` and
  `semdFree_h`, processes only in queues, a queue is empty exactly if its
  descriptor is free, keys ascend, and `p_semAdd` is the key of the queue the
  process is in. `DescriptorsInOrder` is not inductive without `p_semAdd`, by
  which `outBlocked` finds its descriptor, nor without the order, by which
  `getSemd` ends its search. For `MapImplemented` each call is a step of
  `BlockedQueues`, and a call that the full pool refuses is its refusal.
* `IInv` of `TreeProofs` is `Holds` with `Linked` (a process is in the child list
  of its `p_parent` and in no other; a free PCB has neither), `Numbered` (no two
  processes have one pid, a parent's is lower than its child's, older children's
  lower than younger ones') and `Rooted` (who has no parent is either the first
  process or has a call of the recursion under way). That pids grow along the tree
  is what makes it one: there is no cycle, so the walk to the root ends within
  `MaxProc` steps and the way down to a process is no longer. Unlike
  `TreeConsistent` it holds in the middle of a termination too.
* `FamilyInv`, for `FamilyImplemented`, relates the tree that is left to `before`
  while the recursion is under way: those no longer alive are of the progeny, as
  are those with a call, and the others have the parents they had. When the last
  call returns nobody of the progeny is left: a child's parent would be alive.
* `RecursionIsBounded`: the calls under way are for different processes, all alive
  (`Rooted`), so there are no more of them; a call adds one, a return takes a
  process and a call away. This is the part of `Terminates` without fairness.

The test is proved under its two assumptions on time, for every set `Instances` of its processes, so for the whole
test that `p2test.c` is and for each part of it, and for any number of PCBs that
suffices. The programs are long, and p1's depends on the instance, so the proofs do
not look into them at each step. `Lawful(q, S)` says once of each program S which
instructions may stand where: who may raise or lower a semaphore, and at which
instruction; who starts whom; what follows a start; how a program ends. For p1 it
is put together from its parts (`Segment`). `StepView` then makes every step of the
test one of four kinds: an interrupt, an instruction of the running process, the
start of a process, and a termination with all it takes along. `TestInv` is made of:

* `Sound`: the invariants of the nucleus, and `Kin`: each process has the parent,
  the priority and the support structure that its function gets. `NucleusKept`: a
  step is one of the nucleus but for p1's `Reset`, which stores into semaphores
  that the nucleus maintains. It is harmless because of `Root8` and `Reset8`: p1
  waits until p8root, not preempted there, has exited, and nobody is left to wait on
  them. This is where `P8rootEnds` is needed.
* `Single`, `Waits`: each function has one process, and who waits has just executed
  what makes it wait. So a semaphore and the position of the one process that uses
  it determine each other: `TestSem`, `SemS`, `StartP2`, `Synch`, `Ends`.
* `PrintsAlone`: who is inside `print()` has the mutex, and waits while the terminal
  works.
* `Peace4`, `Leaves8`: the two incarnations of p4, p4b going on only when p4 is gone,
  and p8root with its four leaves: the values of their semaphores by how far each
  of them has come. `Peace4` is where `IntervalIsLong` is needed: p5's tick finds p4 gone.
  They show that nobody exits while a descendant waits for the terminal (`ExitsLast`).
* `Created`, `StartP3`, `Order`: a pid is stored before anybody checks it. p2 waits
  until p1 has stored its pid, and p3 for a tick; for p4, p4b, p8root and p9 it is
  only the order of the ready queue: a new process has the priority of its parent,
  and stays behind it until the parent has stored the pid. That `scheduler()`,
  `insertProcQ` and `outProcQ` keep that order through preemptions is `LineView`.

Passing its tests is one half of the test, not to stop before its end the other:
`TestNeverPanics`. `Progress`, inductive together with `TestInv`, says of every wait
that what ends it is still to come:

* `MutexHeld`: the mutex is free or somebody is inside `print()`, and nobody dies
  there but at p1's end (`PrinterSurvives`).
* `Enders`, `End8`: a process that p1 waits for, or is going to, is alive and has not
  raised its semaphore yet, or the unit is there. `Lets1`, `Lets2`: p1 does not wait
  for `sem_blkp4`, nor p2 for `sem_startp2`, once it has been raised.
* `Tells5`: the same of p5, which waits for p4; `Kids8`: p8root's children and their
  leaves are alive as long as p8root waits for the leaves.

They rest on the order of p1's calls (`Prepared`, `Ordered`, shown part by part as
`Lawful` is). In a panic everybody waits at a semaphore of a process, so nobody is
inside `print()` and nobody waits for the mutex (`PanicStuck`). By `Lowers` p1 can
only be at the end of p2, p3, p5 or p8root; that process is alive, and waits as well;
so it waits for the next one, and the last of the chain cannot wait for anything
(`NotAllStuck`). `TestEnds`, that the test also comes to its end, adds fairness and
is model-checked.

Before the lists, `ListsProofs` has the facts about queues: `insertProcQ`, `outProcQ`
and the loop of the clock handler add or remove exactly the processes they are given and
repeat nobody. `NucleusProofs` has those about the parts of a handler
(`scheduler()`, the tree, blocking, waking), then one lemma for each handler and
the theorems. TLC checked each inductive invariant on the instance of
its run before it was proved.

The induction theorems of the library take an operator as a parameter, which the
provers cannot instantiate. The recursive functions of the model have a number
as their argument, so their facts go through `SetInduction`, where the induction
is over a set. Only model-checked is liveness under fairness, which is out of the
prover's reach: `TopPriorityServed`, `SoftWaiterServed`, `OperationAnswered`,
`Terminates` and `TestEnds`.

## Not modelled

* `klog.c`: nothing in the repository calls it, and it keeps no state of the
  nucleus.
* `p1test.c`: one fixed sequence of calls of phase 1. `asl` and `tree` run every
  sequence up to their bounds, the full pool and the empty free list included.
* The tests of elapsed time in `p2test.c`, whose outcome depends on the speed of
  the machine. `CpuTime` has GETTIME.
* The build files, the register conventions, the contents of
  saved states, and the set-up of the pass-up vector.
* The end of the counters: `next_pid` and `cpu_t` are signed and overflow after
  2^31 creations or microseconds; `MaxPid` and `MaxTime` stop well before.
