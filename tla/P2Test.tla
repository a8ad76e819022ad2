------------------------------- MODULE P2Test -------------------------------
(***************************************************************************)
(* The processes of phase2/p2test.c on the nucleus: the programs as lists  *)
(* of what they ask of the nucleus and of the variables they share, run    *)
(* under every order of preemptions and interrupts that IntervalIsLong and *)
(* P8rootEnds, two assumptions on time, allow.  A process is named by its  *)
(* function, p4b being the second incarnation of p4.  Saved states, delay  *)
(* loops and tests of the time are left out, a message is one character    *)
(* long, and a loop goes round twice.                                      *)
(***************************************************************************)
EXTENDS Nucleus

CONSTANT Instances   \* sets of processes; one at a time is tested

Leaves == 1..4
Leaf == <<"p8leaf1", "p8leaf2", "p8leaf3", "p8leaf4">>
EndCreate == <<"endcreate0", "endcreate1", "endcreate2", "endcreate3">>
P8Family == {"p8root", "child1", "child2"} \cup Range(Leaf)
Processes ==
  {"p1", "p2", "p3", "hp_p1", "hp_p2", "p4", "p4b", "p5", "p6", "p7", "p9",
   "p10"} \cup P8Family

P8Sems == {"sem_blkp8", "sem_endp8"} \cup Range(EndCreate)
TestSems ==
  {"sem_term_mut", "sem_testsem", "sem_startp2", "s", "sem_endp2",
   "sem_endp3", "sem_blkp4", "sem_synp4", "sem_endp4", "sem_endp5",
   "sem_blkp9"} \cup P8Sems

Term0 == "term0"

ASSUME TestAssumption ==
  /\ Instances \subseteq SUBSET Processes
  /\ \A S \in Instances : Cardinality(S) <= Cardinality(Pcbs)
  /\ TestSems \subseteq UserSems /\ Devices = {Term0}

VARIABLES
  instance,  \* the processes of this test; p1 leaves the others out
  runs,      \* the process each PCB has been allocated for
  pc,        \* the instruction it is about to execute
  stored,    \* the processes whose pid has been stored, and "p1p2synch"
  fresh,     \* whether the running process has done nothing since dispatch
  failed     \* whether the test has found an error

testVars == <<vars, instance, runs, pc, stored, fresh, failed>>

----------------------------------------------------------------------------
(* Instructions *)

P(s) == <<"PASSEREN", s>>
V(s) == <<"VERHOGEN", s>>
Start(q) == <<"CREATEPROCESS", q>>
Exit == <<"TERMPROCESS", "self">>
KillParent == <<"TERMPROCESS", "parent">>
WriteChar == <<"DOIO", Term0>>
AwaitClock == <<"CLOCKWAIT", "once">>
AwaitAgain == <<"CLOCKWAIT", "maybe">>  \* a second turn of a loop of waits
YieldCpu == <<"YIELD", "once">>
Trap == <<"trap", "up or die">>         \* a fault, or a call not the nucleus's
Store(x) == <<"store", x>>              \* a pid that CREATEPROCESS returned
Check(x) == <<"check", x>>
CheckSem(s, n) == <<"value", s, n>>
Reset == <<"store", "P8Sems">>

\* Mutant of Message: print() without its mutex.
BareMessage == <<WriteChar>>

\* print()
Message == <<P("sem_term_mut"), WriteChar, V("sem_term_mut")>>

----------------------------------------------------------------------------
(* Programs *)

\* A part of p1's program that is there if its processes are.
Part(S, program) == IF S \subseteq instance THEN program ELSE <<>>

P8Round ==
  <<Reset, Start("p8root"), Store("p8root"), P("sem_endp8")>>

P1 ==
  <<V("sem_testsem"), V("sem_testsem"), V("sem_testsem"),
    CheckSem("sem_testsem", 3), P("sem_testsem"), P("sem_testsem"),
    P("sem_testsem"), CheckSem("sem_testsem", 0)>> \o Message
  \o Part({"p2"}, <<Start("p2"), Store("p2")>> \o Message
       \o <<V("sem_startp2"), P("sem_endp2"), Check("p1p2synch")>>)
  \o Part({"p3"}, <<Start("p3"), Store("p3")>> \o Message
       \o <<P("sem_endp3")>>)
  \o Part({"hp_p1"}, <<Start("hp_p1")>>)
  \o Part({"hp_p2"}, <<Start("hp_p2")>>)
  \o Part({"p4"}, <<Start("p4"), Store("p4")>>)
  \o Part({"p5"}, <<Start("p5")>>)
  \o Part({"p6"}, <<Start("p6")>>)
  \o Part({"p7"}, <<Start("p7")>>)
  \o Part({"p9"}, <<Start("p9"), Store("p9")>>)
  \o Part({"p4", "p5"}, <<P("sem_endp5")>> \o Message \o <<P("sem_blkp4")>>)
  \o Part(P8Family, P8Round \o P8Round)
  \o Message \o <<Trap>>

\* Mutant of P2: p1 is woken before p1p2synch is set.
P2WakesFirst ==
  <<P("sem_startp2")>> \o Message \o <<Check("p2")>>
  \o <<V("s"), P("s"), CheckSem("s", 0), V("s"), P("s"), CheckSem("s", 0)>>
  \o Message \o Message
  \o <<V("sem_endp2"), Store("p1p2synch"), Exit>>

\* The test of GETTIME, between the last two messages, is in CpuTime.
P2 ==
  <<P("sem_startp2")>> \o Message \o <<Check("p2")>>
  \o <<V("s"), P("s"), CheckSem("s", 0), V("s"), P("s"), CheckSem("s", 0)>>
  \o Message \o Message
  \o <<Store("p1p2synch"), V("sem_endp2"), Exit>>

P3 ==
  <<AwaitClock, AwaitAgain>> \o Message \o <<AwaitClock, AwaitClock>>
  \o Message \o <<Check("p3"), V("sem_endp3"), Exit>>

\* Mutant of P4: the second incarnation is not waited for.
P4WithoutWait ==
  Message \o <<Check("p4"), V("sem_synp4"), P("sem_blkp4"), P("sem_synp4"),
               Start("p4b"), Store("p4b"), V("sem_endp4"), Exit>>

P4 ==
  Message \o <<Check("p4"), V("sem_synp4"), P("sem_blkp4"), P("sem_synp4"),
               Start("p4b"), Store("p4b"), P("sem_synp4")>>
  \o Message \o <<V("sem_endp4"), Exit>>

\* The same function; as long as it lives p4 keeps p4b from going on.
P4b ==
  Message \o <<Check("p4b"), V("sem_synp4"), P("sem_blkp4"), P("sem_synp4")>>

\* p5, its handlers p5gen, p5mm and p5sys, and p5a and p5b in between: a bus
\* error, a TLB fault, an access in user mode, a call not the nucleus's.
P5 ==
  Message \o <<Trap>> \o Message \o <<Trap>> \o Message \o Message
  \o <<Trap>> \o Message \o <<Trap>> \o Message
  \o <<P("sem_endp4"), AwaitClock, AwaitAgain, V("sem_blkp4"),
       V("sem_endp5"), Exit>>

P6 == Message \o <<Trap>>
P7 == Message \o <<Trap>>

P8root ==
  Message \o <<Start("child1"), Start("child2")>>
  \o [n \in Leaves |-> P(EndCreate[n])] \o <<V("sem_endp8"), Exit>>

Child(m, n) ==
  Message \o <<Check("p8root"), Start(Leaf[m]), Start(Leaf[n]),
               P("sem_blkp8")>>

\* Mutant of P8leaf: a leaf says that it is there before it prints.
P8leafReportsFirst(n) == <<V(EndCreate[n])>> \o Message \o <<P("sem_blkp8")>>

P8leaf(n) == Message \o <<V(EndCreate[n]), P("sem_blkp8")>>

P9 == Message \o <<Start("p10"), P("sem_blkp9")>>
P10 == Message \o <<Check("p9"), KillParent>>
HpP1 == Message \o <<YieldCpu, YieldCpu>> \o Message \o <<Exit>>
HpP2 == Message \o <<YieldCpu>> \o Message \o <<Exit>>

Program(q) ==
  CASE q = "p1" -> P1 [] q = "p2" -> P2 [] q = "p3" -> P3
    [] q = "p4" -> P4 [] q = "p4b" -> P4b [] q = "p5" -> P5
    [] q = "p6" -> P6 [] q = "p7" -> P7 [] q = "p9" -> P9 [] q = "p10" -> P10
    [] q = "hp_p1" -> HpP1 [] q = "hp_p2" -> HpP2 [] q = "p8root" -> P8root
    [] q = "child1" -> Child(1, 2) [] q = "child2" -> Child(3, 4)
    [] OTHER -> P8leaf(CHOOSE n \in Leaves : Leaf[n] = q)

Priority(q) == CASE q = "hp_p1" -> 10 [] q = "hp_p2" -> 1 [] OTHER -> 0

----------------------------------------------------------------------------
(* Execution *)

\* The running process is about to execute i.
At(i) ==
  /\ Running
  /\ pc[current] <= Len(Program(runs[current]))
  /\ Program(runs[current])[pc[current]] = i

Advance == pc' = [pc EXCEPT ![current] = @ + 1]

\* After an instruction the process has done something in its time slice,
\* unless another one, or itself again, has been dispatched.
Done(dispatched) ==
  /\ fresh' = (dispatched \/ current' # current)
  /\ UNCHANGED <<instance, failed>>

\* The running process executes the system call i, which is A.
SystemCall(i, A) ==
  At(i) /\ A /\ Advance /\ Done(FALSE) /\ UNCHANGED <<runs, stored>>

CallPasseren == \E s \in UserSems : SystemCall(P(s), Passeren(s))
CallVerhogen == \E s \in UserSems : SystemCall(V(s), Verhogen(s))
CallDoIO == SystemCall(WriteChar, DoIO(Term0))
CallClockWait ==
  \E i \in {AwaitClock, AwaitAgain} : SystemCall(i, WaitForClock)
NoSecondWait == SystemCall(AwaitAgain, UNCHANGED vars)
CallTerminate ==
  \/ SystemCall(Exit, Terminate(current))
  \/ SystemCall(KillParent, Terminate(parent[current]))
TakeTrap == SystemCall(Trap, PassUpOrDie)

CallYield ==
  /\ At(YieldCpu) /\ Yield /\ Advance /\ Done(TRUE)
  /\ UNCHANGED <<runs, stored>>

\* Any free PCB will do.  The variable for the pid of q still holds another
\* one, until the caller stores what it gets.
CallCreate ==
  \E q \in Processes :
    /\ At(Start(q)) /\ free # {}
    /\ LET p == CHOOSE f \in free : TRUE
       IN  /\ CreateProcess
           /\ free' = free \ {p}
           /\ prio'[p] = Priority(q) /\ support'[p] = (q = "p5")
           /\ runs' = [runs EXCEPT ![p] = q]
           /\ pc' = [pc EXCEPT ![current] = @ + 1, ![p] = 1]
    /\ stored' = stored \ {q}
    /\ Done(FALSE)

StoreValue ==
  /\ \E x \in Processes \cup {"p1p2synch"} :
       At(Store(x)) /\ stored' = stored \cup {x}
  /\ UNCHANGED <<vars, runs>>
  /\ Advance /\ Done(FALSE)

ResetSems ==
  /\ At(Reset)
  /\ sem' = [s \in Sems |-> IF s \in P8Sems THEN 0 ELSE sem[s]]
  /\ UNCHANGED <<ready, current, free, parent, prio, support, semAdd, semq>>
  /\ UNCHANGED <<processCount, softBlockCount, cpu, busy>>
  /\ Advance /\ Done(FALSE)
  /\ UNCHANGED <<runs, stored>>

\* A test in a program; it fails if a variable has not its value yet.
CheckValue ==
  /\ \/ \E x \in Processes \cup {"p1p2synch"} :
          At(Check(x)) /\ failed' = (x \notin stored)
     \/ \E s \in UserSems, n \in {0, 3} :
          At(CheckSem(s, n)) /\ failed' = (sem[s] # n)
  /\ Advance /\ fresh' = FALSE
  /\ UNCHANGED <<vars, instance, runs, stored>>

Execute ==
  CallPasseren \/ CallVerhogen \/ CallDoIO \/ CallClockWait \/ NoSecondWait
    \/ CallTerminate \/ TakeTrap \/ CallYield \/ CallCreate \/ StoreValue
    \/ ResetSems \/ CheckValue

\* Two assumptions of the test on the time it has.  The interval of the
\* clock suffices for all that the ready processes have to do: p5 waits half
\* of one to be "reasonably sure p4 and its offspring are dead".  And p8root,
\* once it has told p1 that it ends, ends before p1 resets the semaphores.
IntervalIsLong == current = NULL
P8rootEnds == runs[current] = "p8root" => ~At(Exit)

\* A time slice is long enough for an instruction.
Preempt == ~fresh /\ HandlePLT /\ P8rootEnds
ClockTick == IntervalIsLong /\ HandlePseudoClock

Interrupted ==
  /\ Preempt \/ ClockTick \/ HandleDevice(Term0)
  /\ fresh' = (fresh \/ current' # current)
  /\ UNCHANGED <<instance, runs, pc, stored, failed>>

TestInit ==
  /\ sem = [s \in Sems |-> IF s \in {"sem_term_mut", "sem_blkp4"}
                           THEN 1 ELSE 0]
  /\ current = CHOOSE p \in Pcbs : TRUE
  /\ Init
  /\ instance \in Instances
  /\ runs = [p \in Pcbs |-> "p1"]
  /\ pc = [p \in Pcbs |-> 1]
  /\ stored = {}
  /\ fresh = TRUE
  /\ failed = FALSE

TestNext == Execute \/ Interrupted \/ (Stopped /\ UNCHANGED testVars)

\* The processor executes, the device works, and the clock ticks.
TestSpec ==
  /\ TestInit /\ [][TestNext]_testVars
  /\ WF_testVars(Execute)
  /\ WF_testVars(ClockTick /\ Interrupted)
  /\ WF_testVars(HandleDevice(Term0) /\ Interrupted)

----------------------------------------------------------------------------
(* Properties *)

\* Wherever the processes are preempted within the two assumptions on time,
\* no test of a pid, of a semaphore or of the order of p1 and p2 fails, and no
\* process runs on past the end of its function.
NoTestFails ==
  /\ ~failed
  /\ Running => pc[current] <= Len(Program(runs[current]))

\* Wherever the processes are preempted within the two assumptions on time,
\* the processor never panics: the processes never all wait at semaphores that
\* only another of them could raise, as they would if one died with the mutex.
NeverPanics == cpu # "panic"

\* The test comes to its end: p1's last fault terminates all processes that
\* are left, and the machine halts; it does not panic, and waits for nothing.
TestEnds == <>[](cpu = "halted" /\ Live = {})

\* The test keeps the discipline under which devices serve everybody: until
\* p1's death ends everything, nobody asks a working terminal for a second
\* character, and nobody is terminated while the terminal works for it.
LeavesTerminalAlone ==
  [][Live' # {} => \A d \in busy \cap busy' : semq'[d] = semq[d]]_testVars
============================================================================
