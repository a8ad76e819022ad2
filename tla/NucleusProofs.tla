---------------------------- MODULE NucleusProofs ----------------------------
(***************************************************************************)
(* Invariants of the nucleus for any number of PCBs, semaphores, devices   *)
(* and priorities: the inductive invariant IInv, that each handler keeps   *)
(* it, and the safety properties that follow from it.                      *)
(***************************************************************************)
EXTENDS Nucleus, ListsProofs

\* What scheduler() leaves: with a process on the CPU it runs, and without
\* one the ready queue is empty and the counters chose the processor's state.
CpuAgrees ==
  /\ cpu = "running" <=> current # NULL
  /\ cpu # "running" =>
       ready = <<>> /\ cpu = IdleState(processCount, softBlockCount)

\* The inductive invariant.  The places need the tree, since a process is
\* found to be terminated along it; the counters need the places; the type of
\* the counters needs what they count.
IInv == TypeOK /\ OnePlace /\ CountersExact /\ FamilyTree /\ CpuAgrees

\* OnePlace of a ready queue, running process, free list, queues and p_semAdd.
Placed(q, c, F, Q, A) ==
  /\ NoRepetition(q) /\ \A s \in Sems : NoRepetition(Q[s])
  /\ F \cap Range(q) = {}
  /\ c \notin F \cup Range(q)
  /\ \A s \in Sems : \A p \in Range(Q[s]) :
       p \notin F \cup Range(q) /\ p # c /\ A[p] = s
  /\ Pcbs \ F \subseteq Range(q) \cup {c} \cup UNION {Range(Q[s]) : s \in Sems}

\* OnePlace says Placed of the current state's lists.
LEMMA OnePlaceIsPlaced == OnePlace <=> Placed(ready, current, free, semq, semAdd)
BY DEF OnePlace, Placed, Live, Waiters

\* OnePlace says Placed of the next state's lists.
LEMMA OnePlaceIsPlacedNext ==
  OnePlace' <=> Placed(ready', current', free', semq', semAdd')
BY DEF OnePlace, Placed, Live, Waiters

----------------------------------------------------------------------------
(* The scheduler *)

\* scheduler() takes the head of the ready queue or stops, and every other
\* process stays where it is.
LEMMA ScheduleResult ==
  ASSUME NEW q \in Seq(Pcbs), NEW F \in SUBSET Pcbs, NEW Q, NEW A,
         Placed(q, NULL, F, Q, A), Schedule(q),
         processCount' \in Nat, softBlockCount' \in Nat
  PROVE  /\ ready' \in Seq(Pcbs) /\ current' \in Pcbs \cup {NULL}
         /\ cpu' \in CpuStates
         /\ CpuAgrees'
         /\ Placed(ready', current', F, Q, A)
<1>1. CASE q # <<>>
  <2>1. current' = Head(q) /\ ready' = Tail(q) /\ cpu' = "running"
    BY <1>1 DEF Schedule
  <2>2. /\ Head(q) \in Pcbs /\ Head(q) \in Range(q) /\ Tail(q) \in Seq(Pcbs)
        /\ Range(q) = Range(Tail(q)) \cup {Head(q)}
        /\ NoRepetition(Tail(q)) /\ Head(q) \notin Range(Tail(q))
    BY <1>1, TailResult DEF Placed
  <2>3. Placed(Tail(q), Head(q), F, Q, A)
    <3>1. NoRepetition(Tail(q)) /\ \A s \in Sems : NoRepetition(Q[s])
      BY <2>2 DEF Placed
    <3>2. F \cap Range(Tail(q)) = {} /\ Head(q) \notin F \cup Range(Tail(q))
      BY <2>2 DEF Placed
    <3>3. ASSUME NEW s \in Sems, NEW p \in Range(Q[s])
          PROVE  p \notin F \cup Range(Tail(q)) /\ p # Head(q) /\ A[p] = s
      BY <2>2 DEF Placed
    <3>4. Pcbs \ F \subseteq Range(Tail(q)) \cup {Head(q)} \cup UNION {Range(Q[s]) : s \in Sems}
      <4>1. Pcbs \ F \subseteq Range(q) \cup {NULL} \cup UNION {Range(Q[s]) : s \in Sems}
        BY DEF Placed
      <4>2. NULL \notin Pcbs
        BY PcbsAssumption
      <4> QED BY <2>2, <4>1, <4>2
    <3> QED BY <3>1, <3>2, <3>3, <3>4 DEF Placed
  <2>4. CpuAgrees'
    BY <2>1, <2>2, PcbsAssumption DEF CpuAgrees
  <2> QED BY <2>1, <2>2, <2>3, <2>4 DEF CpuStates
<1>2. CASE q = <<>>
  <2>1. /\ current' = NULL /\ ready' = <<>>
        /\ cpu' = IdleState(processCount', softBlockCount')
    BY <1>2 DEF Schedule
  <2>2. cpu' \in CpuStates \ {"running"}
    BY <2>1 DEF IdleState, CpuStates
  <2>3. CpuAgrees'
    BY <2>1, <2>2 DEF CpuAgrees
  <2>4. <<>> \in Seq(Pcbs)
    OBVIOUS
  <2> QED BY <1>2, <2>1, <2>2, <2>3, <2>4
<1> QED BY <1>1, <1>2

\* The same for the end of an interrupt handler.
LEMMA ResumeResult ==
  ASSUME NEW q \in Seq(Pcbs), NEW F \in SUBSET Pcbs, NEW Q, NEW A,
         Placed(q, current, F, Q, A), Resume(q),
         current \in Pcbs \cup {NULL}, cpu \in CpuStates, CpuAgrees,
         processCount' \in Nat, softBlockCount' \in Nat
  PROVE  /\ ready' \in Seq(Pcbs) /\ current' \in Pcbs \cup {NULL}
         /\ cpu' \in CpuStates
         /\ CpuAgrees'
         /\ Placed(ready', current', F, Q, A)
<1>1. CASE current # NULL
  <2>1. ready' = q /\ current' = current /\ cpu' = cpu
    BY <1>1 DEF Resume
  <2>2. CpuAgrees'
    BY <1>1, <2>1 DEF CpuAgrees
  <2> QED BY <2>1, <2>2
<1>2. CASE current = NULL
  <2>1. Schedule(q) /\ Placed(q, NULL, F, Q, A)
    BY <1>2 DEF Resume
  <2> QED BY <2>1, ScheduleResult
<1> QED BY <1>1, <1>2

----------------------------------------------------------------------------
(* The process tree *)

\* The children of S's processes are in S, for the parents given by par.
ClosedUnder(par, S) == \A c \in Pcbs : par[c] \in S => c \in S

\* Subtree and FamilyTree for the parents given by par and the free list F.
Below(par, t) ==
  {p \in Pcbs : \A S \in SUBSET Pcbs : (t \in S /\ ClosedUnder(par, S)) => p \in S}

OneTree(par, F) ==
  /\ \A p \in F : par[p] = NULL
  /\ \A p \in Pcbs : par[p] \notin F
  /\ Pcbs \ F # {} =>
       \E r \in Pcbs \ F : par[r] = NULL /\ Below(par, r) = Pcbs \ F

\* Subtree and FamilyTree are Below and OneTree of the current parents.
LEMMA FamilyTreeIsOneTree ==
  /\ \A t : Subtree(t) = Below(parent, t)
  /\ FamilyTree <=> OneTree(parent, free)
<1>1. \A t : Subtree(t) = Below(parent, t)
  BY DEF Subtree, Below, ClosedUnder
<1> QED BY <1>1 DEF FamilyTree, OneTree, Live

\* FamilyTree says OneTree of the next state's parents and free list.
LEMMA FamilyTreeIsOneTreeNext == FamilyTree' <=> OneTree(parent', free')
<1>1. \A t : Subtree(t)' = Below(parent', t)
  BY DEF Subtree, Below, ClosedUnder
<1> QED BY <1>1 DEF FamilyTree, OneTree, Live

\* A subtree has its root, is closed, and is in every closed set with its root.
LEMMA BelowResult ==
  ASSUME NEW par, NEW t \in Pcbs
  PROVE  /\ t \in Below(par, t)
         /\ Below(par, t) \in SUBSET Pcbs
         /\ ClosedUnder(par, Below(par, t))
         /\ \A S \in SUBSET Pcbs :
              t \in S /\ ClosedUnder(par, S) => Below(par, t) \subseteq S
<1>1. t \in Below(par, t) /\ Below(par, t) \in SUBSET Pcbs
  BY DEF Below
<1>2. ASSUME NEW c \in Pcbs, par[c] \in Below(par, t) PROVE c \in Below(par, t)
  <2> SUFFICES ASSUME NEW S \in SUBSET Pcbs, t \in S, ClosedUnder(par, S)
               PROVE  c \in S
    BY DEF Below
  <2>1. par[c] \in S
    BY <1>2 DEF Below
  <2> QED BY <2>1 DEF ClosedUnder
<1>3. ClosedUnder(par, Below(par, t))
  BY <1>2 DEF ClosedUnder
<1>4. \A S \in SUBSET Pcbs :
        t \in S /\ ClosedUnder(par, S) => Below(par, t) \subseteq S
  BY DEF Below
<1> QED BY <1>1, <1>3, <1>4

\* No live process is a descendant of a free PCB or has one below it.
LEMMA LiveClosed ==
  ASSUME NEW par, NEW F \in SUBSET Pcbs, OneTree(par, F)
  PROVE  /\ ClosedUnder(par, Pcbs \ F)
         /\ \A t \in Pcbs \ F : Below(par, t) \subseteq Pcbs \ F
<1>1. ClosedUnder(par, Pcbs \ F)
  BY PcbsAssumption DEF ClosedUnder, OneTree
<1> QED BY <1>1, BelowResult

\* insertChild makes a new process p a child of the live process c.
LEMMA InsertChildKeepsTree ==
  ASSUME NEW par \in [Pcbs -> Pcbs \cup {NULL}], NEW F \in SUBSET Pcbs,
         OneTree(par, F), NEW p \in F, NEW c \in Pcbs \ F
  PROVE  OneTree([par EXCEPT ![p] = c], F \ {p})
<1> DEFINE new == [par EXCEPT ![p] = c]
           L == Pcbs \ F
           L2 == Pcbs \ (F \ {p})
<1>1. /\ new[p] = c /\ \A x \in Pcbs \ {p} : new[x] = par[x]
      /\ par[p] = NULL /\ NULL \notin Pcbs
  BY PcbsAssumption DEF OneTree
<1>2. L2 = L \cup {p}
  OBVIOUS
<1> HIDE DEF new
<1>3. \A x \in F \ {p} : new[x] = NULL
  BY <1>1 DEF OneTree
<1>4. \A x \in Pcbs : new[x] \notin F \ {p}
  BY <1>1 DEF OneTree
<1>5. PICK r \in L : par[r] = NULL /\ Below(par, r) = L
  BY DEF OneTree
<1>6. ASSUME NEW S \in SUBSET Pcbs, r \in S, ClosedUnder(new, S)
      PROVE  L2 \subseteq S
  <2>1. ClosedUnder(par, S)
    BY <1>1, <1>6 DEF ClosedUnder
  <2>2. L \subseteq S
    BY <1>5, <1>6, <2>1, BelowResult
  <2>3. p \in S
    BY <1>1, <1>6, <2>2 DEF ClosedUnder
  <2> QED BY <1>2, <2>2, <2>3
<1>7. ClosedUnder(new, L2)
  <2> SUFFICES ASSUME NEW x \in Pcbs, new[x] \in L2 PROVE x \in L2
    BY DEF ClosedUnder
  <2>1. CASE x = p
    BY <1>2, <2>1
  <2>2. CASE x # p
    <3>1. par[x] \in L
      BY <1>1, <1>2, <2>2 DEF OneTree
    <3> QED BY <1>2, <3>1, LiveClosed DEF ClosedUnder
  <2> QED BY <2>1, <2>2
<1>8. Below(new, r) = L2
  <2>1. Below(new, r) \subseteq L2
    BY <1>2, <1>7, BelowResult
  <2>2. L2 \subseteq Below(new, r)
    BY <1>6, BelowResult
  <2> QED BY <2>1, <2>2
<1>9. new[r] = NULL /\ r \in L2
  BY <1>1, <1>2, <1>5
<1> QED BY <1>3, <1>4, <1>8, <1>9 DEF OneTree, new

\* Cutting off and freeing the subtree of a live process t leaves one tree.
LEMMA KillKeepsTree ==
  ASSUME NEW par \in [Pcbs -> Pcbs \cup {NULL}], NEW F \in SUBSET Pcbs,
         OneTree(par, F), NEW t \in Pcbs \ F
  PROVE  LET K == Below(par, t)
         IN  OneTree([p \in Pcbs |-> IF p \in K THEN NULL ELSE par[p]], F \cup K)
<1> DEFINE K == Below(par, t)
           new == [p \in Pcbs |-> IF p \in K THEN NULL ELSE par[p]]
           L == Pcbs \ F
           L2 == Pcbs \ (F \cup K)
<1>1. /\ t \in K /\ K \subseteq L /\ K \in SUBSET Pcbs
      /\ \A x \in Pcbs : par[x] \in K => x \in K
  BY BelowResult, LiveClosed DEF ClosedUnder
<1>2. /\ \A x \in K : new[x] = NULL
      /\ \A x \in Pcbs \ K : new[x] = par[x]
      /\ NULL \notin Pcbs
  BY <1>1, PcbsAssumption
<1>3. \A S \in SUBSET Pcbs : t \in S /\ ClosedUnder(par, S) => K \subseteq S
  BY BelowResult
<1> HIDE DEF K, new
<1>4. \A x \in F \cup K : new[x] = NULL
  BY <1>2 DEF OneTree
<1>5. \A x \in Pcbs : new[x] \notin F \cup K
  BY <1>1, <1>2 DEF OneTree
<1>6. PICK r \in L : par[r] = NULL /\ Below(par, r) = L
  BY DEF OneTree
<1>7. ASSUME L2 # {} PROVE r \in L2
  <2>1. SUFFICES ASSUME r \in K PROVE FALSE
    BY <1>6
  <2>2. ClosedUnder(par, K) /\ K \in SUBSET Pcbs
    BY <1>1 DEF ClosedUnder
  <2>3. L \subseteq K
    BY <1>6, <2>1, <2>2, BelowResult
  <2> QED BY <1>7, <2>3
<1>8. ASSUME NEW S \in SUBSET Pcbs, r \in S, ClosedUnder(new, S)
      PROVE  L2 \subseteq S
  <2>1. ClosedUnder(par, S \cup K)
    BY <1>1, <1>2, <1>8 DEF ClosedUnder
  <2>2. S \cup K \in SUBSET Pcbs
    BY <1>1
  <2>3. L \subseteq S \cup K
    BY <1>6, <1>8, <2>1, <2>2, BelowResult
  <2> QED BY <2>3
<1>9. ClosedUnder(new, L2)
  <2> SUFFICES ASSUME NEW x \in Pcbs, new[x] \in L2 PROVE x \in L2
    BY DEF ClosedUnder
  <2>1. x \notin K /\ par[x] \in L
    BY <1>2
  <2>2. x \in L
    BY <2>1, LiveClosed DEF ClosedUnder
  <2> QED BY <2>1, <2>2
<1>10. Below(new, r) = L2 \/ L2 = {}
  <2> SUFFICES ASSUME L2 # {} PROVE Below(new, r) = L2
    OBVIOUS
  <2>1. Below(new, r) \subseteq L2
    BY <1>7, <1>9, BelowResult
  <2>2. L2 \subseteq Below(new, r)
    BY <1>8, BelowResult
  <2> QED BY <2>1, <2>2
<1>11. L2 # {} => new[r] = NULL /\ r \in L2
  BY <1>2, <1>6, <1>7
<1>12. OneTree(new, F \cup K)
  BY <1>4, <1>5, <1>10, <1>11 DEF OneTree
<1> QED BY <1>12 DEF K, new

----------------------------------------------------------------------------
(* The queues of the semaphores *)

\* Waiters of the queues Q.
In(Q, T) == UNION {Range(Q[s]) : s \in T}

\* The processes blocked anywhere are PCBs, and so finite in number.
LEMMA WaitersFinite ==
  ASSUME NEW Q \in [Sems -> Seq(Pcbs)], NEW T \in SUBSET Sems
  PROVE  In(Q, T) \in SUBSET Pcbs /\ IsFiniteSet(In(Q, T)) /\ Cardinality(In(Q, T)) \in Nat
<1>1. \A s \in T : Range(Q[s]) \subseteq Pcbs
  BY RangeOfSeq
<1>2. In(Q, T) \in SUBSET Pcbs
  BY <1>1 DEF In
<1> QED BY <1>2, PcbsAssumption, FS_Subset, FS_CardinalityType

\* The pool of descriptors cannot run out while a process runs, so that
\* insertBlocked does not refuse it: each active semaphore has a process of
\* its own, and there is the running one besides.
THEOREM AslNeverFull ==
  ASSUME TypeOK, OnePlace, current # NULL
  PROVE  IsFiniteSet(Active) /\ Cardinality(Active) < SemdPool
<1> DEFINE first == [s \in Active |-> Head(semq[s])]
           Others == Pcbs \ {current}
<1>1. IsFiniteSet(Active)
  BY SemsAssumption, FS_Subset DEF Active
<1>2. current \in Pcbs
  BY DEF TypeOK
<1>3. IsFiniteSet(Others) /\ Cardinality(Others) = SemdPool - 1
  BY <1>2, PcbsAssumption, FS_RemoveElement DEF SemdPool
<1>4. ASSUME NEW s \in Active
      PROVE  /\ first[s] \in Range(semq[s]) /\ first[s] \in Pcbs
             /\ first[s] # current /\ semAdd[first[s]] = s
  <2>1. s \in Sems /\ semq[s] \in Seq(Pcbs) /\ semq[s] # <<>>
    BY DEF Active, TypeOK
  <2>2. first[s] \in Pcbs /\ first[s] \in Range(semq[s])
    BY <2>1, TailResult
  <2> QED BY <2>1, <2>2 DEF OnePlace
<1>5. first \in Injection(Active, Others)
  <2>1. first \in [Active -> Others]
    BY <1>4
  <2>2. \A a, b \in Active : first[a] = first[b] => a = b
    BY <1>4
  <2> QED BY <2>1, <2>2 DEF Injection, IsInjective
<1>6. Cardinality(Active) <= Cardinality(Others)
  BY <1>3, <1>5, FS_Injection
<1>7. Cardinality(Active) \in Nat /\ SemdPool \in Nat
  BY <1>1, PcbsAssumption, FS_CardinalityType DEF SemdPool
<1> QED BY <1>1, <1>3, <1>6, <1>7

\* Blocking the running process c on s.
LEMMA BlockResult ==
  ASSUME NEW q \in Seq(Pcbs), NEW F \in SUBSET Pcbs,
         NEW Q \in [Sems -> Seq(Pcbs)], NEW A \in [Pcbs -> Sems \cup {NULL}],
         NEW c \in Pcbs, NEW s \in Sems, Placed(q, c, F, Q, A)
  PROVE  LET Q2 == [Q EXCEPT ![s] = Append(@, c)]
             A2 == [A EXCEPT ![c] = s]
         IN  /\ Q2 \in [Sems -> Seq(Pcbs)] /\ A2 \in [Pcbs -> Sems \cup {NULL}]
             /\ Placed(q, NULL, F, Q2, A2)
             /\ \A T \in SUBSET Sems :
                  In(Q2, T) = IF s \in T THEN In(Q, T) \cup {c} ELSE In(Q, T)
             /\ \A T \in SUBSET Sems : c \notin In(Q, T)
<1> DEFINE Q2 == [Q EXCEPT ![s] = Append(@, c)]
           A2 == [A EXCEPT ![c] = s]
<1>1. Q2 \in [Sems -> Seq(Pcbs)] /\ A2 \in [Pcbs -> Sems \cup {NULL}]
  BY AppendResult
<1>2. \A t \in Sems : c \notin Range(Q[t]) /\ Range(Q[t]) \subseteq Pcbs
  BY RangeOfSeq DEF Placed
<1>3. /\ Range(Q2[s]) = Range(Q[s]) \cup {c} /\ NoRepetition(Q2[s])
      /\ \A t \in Sems \ {s} : Q2[t] = Q[t]
  BY <1>2, AppendResult DEF Placed
<1>4. A2[c] = s /\ \A p \in Pcbs \ {c} : A2[p] = A[p]
  OBVIOUS
<1> HIDE DEF Q2, A2
<1>5. \A t \in Sems : Range(Q2[t]) = IF t = s THEN Range(Q[t]) \cup {c} ELSE Range(Q[t])
  BY <1>3
<1>6. Placed(q, NULL, F, Q2, A2)
  <2>1. NoRepetition(q) /\ \A t \in Sems : NoRepetition(Q2[t])
    BY <1>3 DEF Placed
  <2>2. F \cap Range(q) = {} /\ NULL \notin F \cup Range(q)
    BY PcbsAssumption, RangeOfSeq DEF Placed
  <2>3. ASSUME NEW t \in Sems, NEW p \in Range(Q2[t])
        PROVE  p \notin F \cup Range(q) /\ p # NULL /\ A2[p] = t
    <3>1. CASE p = c
      <4>1. t = s
        BY <1>2, <1>5, <3>1
      <4> QED BY <1>4, <3>1, <4>1, PcbsAssumption DEF Placed
    <3>2. CASE p # c
      <4>1. p \in Range(Q[t]) /\ p \in Pcbs
        BY <1>2, <1>5, <3>2
      <4> QED BY <1>4, <3>2, <4>1, PcbsAssumption DEF Placed
    <3> QED BY <3>1, <3>2
  <2>4. Pcbs \ F \subseteq Range(q) \cup {NULL} \cup In(Q2, Sems)
    <3>1. Pcbs \ F \subseteq Range(q) \cup {c} \cup In(Q, Sems)
      BY DEF Placed, In
    <3>2. In(Q, Sems) \cup {c} \subseteq In(Q2, Sems)
      BY <1>3 DEF In
    <3> QED BY <3>1, <3>2
  <2> QED BY <2>1, <2>2, <2>3, <2>4 DEF Placed, In
<1>7. ASSUME NEW T \in SUBSET Sems
      PROVE  /\ In(Q2, T) = IF s \in T THEN In(Q, T) \cup {c} ELSE In(Q, T)
             /\ c \notin In(Q, T)
  <2>1. c \notin In(Q, T)
    BY <1>2 DEF In
  <2>2. ASSUME NEW x
        PROVE  x \in In(Q2, T) <=> x \in In(Q, T) \/ (s \in T /\ x = c)
    <3>1. x \in In(Q2, T) <=> \E t \in T : x \in Range(Q2[t])
      BY DEF In
    <3>2. x \in In(Q, T) <=> \E t \in T : x \in Range(Q[t])
      BY DEF In
    <3>3. \A t \in T : x \in Range(Q2[t]) <=> x \in Range(Q[t]) \/ (t = s /\ x = c)
      BY <1>5
    <3> HIDE DEF In
    <3> QED BY <3>1, <3>2, <3>3
  <2> QED BY <2>1, <2>2
<1> QED BY <1>1, <1>6, <1>7 DEF Q2, A2

\* The waiters of the devices and of the clock that are left without K.
LEMMA RemovedWaiters ==
  ASSUME NEW Q, NEW K, NEW Q2,
         \A s \in SoftSems : Range(Q2[s]) = Range(Q[s]) \ K
  PROVE  In(Q2, SoftSems) = In(Q, SoftSems) \ K
<1>1. ASSUME NEW x
      PROVE  x \in In(Q2, SoftSems) <=> x \in In(Q, SoftSems) /\ x \notin K
  <2>1. x \in In(Q2, SoftSems) <=> \E s \in SoftSems : x \in Range(Q2[s])
    BY DEF In
  <2>2. x \in In(Q, SoftSems) <=> \E s \in SoftSems : x \in Range(Q[s])
    BY DEF In
  <2> HIDE DEF In
  <2> QED BY <2>1, <2>2
<1> QED BY <1>1

\* The processes W move from s's queue to the ready queue: q and Q become r
\* and Q2.
Moved(q, Q, s, W, r, Q2) ==
  /\ NoRepetition(r) /\ Range(r) = Range(q) \cup W
  /\ NoRepetition(Q2[s])
  /\ Range(Q[s]) = W \cup Range(Q2[s]) /\ W \cap Range(Q2[s]) = {}
  /\ \A t \in Sems \ {s} : Q2[t] = Q[t]

\* Waking the processes W leaves each process in one place.
LEMMA WakeResult ==
  ASSUME NEW q \in Seq(Pcbs), NEW F \in SUBSET Pcbs, NEW c \in Pcbs \cup {NULL},
         NEW Q \in [Sems -> Seq(Pcbs)], NEW A, NEW s \in Sems,
         Placed(q, c, F, Q, A),
         NEW W, NEW r \in Seq(Pcbs), NEW Q2 \in [Sems -> Seq(Pcbs)],
         Moved(q, Q, s, W, r, Q2)
  PROVE  Placed(r, c, F, Q2, A)
<1> USE DEF Moved
<1>2. \A p \in W : p \notin F \cup Range(q) /\ p # c /\ A[p] = s
  BY DEF Placed
<1>3. \A t \in Sems : Range(Q2[t]) = Range(Q[t]) \ W
  <2>1. ASSUME NEW t \in Sems \ {s} PROVE Range(Q2[t]) = Range(Q[t]) \ W
    <3>1. Range(Q[t]) \cap W = {}
      BY <1>2 DEF Placed
    <3> QED BY <3>1
  <2> QED BY <2>1
<1>4. Placed(r, c, F, Q2, A)
  <2>1. NoRepetition(r) /\ \A t \in Sems : NoRepetition(Q2[t])
    BY DEF Placed
  <2>2. F \cap Range(r) = {} /\ c \notin F \cup Range(r)
    BY <1>2 DEF Placed
  <2>3. ASSUME NEW t \in Sems, NEW p \in Range(Q2[t])
        PROVE  p \notin F \cup Range(r) /\ p # c /\ A[p] = t
    BY <1>3 DEF Placed
  <2>4. Pcbs \ F \subseteq Range(r) \cup {c} \cup In(Q2, Sems)
    <3>1. Pcbs \ F \subseteq Range(q) \cup {c} \cup In(Q, Sems)
      BY DEF Placed, In
    <3>2. In(Q, Sems) \subseteq In(Q2, Sems) \cup W
      BY <1>3 DEF In
    <3> QED BY <3>1, <3>2
  <2> QED BY <2>1, <2>2, <2>3, <2>4 DEF Placed, In
<1> QED BY <1>4

----------------------------------------------------------------------------
(* The end of a process and of its progeny *)

\* A process to be terminated that is neither running nor ready is in the
\* queue of the semaphore its p_semAdd names: that test of
\* terminateProcessTree finds exactly the blocked ones.
LEMMA BlockedAreWaiters ==
  ASSUME IInv, NEW K, K \subseteq Live
  PROVE  /\ \A s \in Sems : BlockedIn(K, s) = K \cap Range(semq[s])
         /\ SoftKilled(K) = K \cap In(semq, SoftSems)
<1>1. ASSUME NEW s \in Sems, NEW p
      PROVE  p \in BlockedIn(K, s) <=> p \in K \cap Range(semq[s])
  <2>1. p \in K \cap Range(semq[s]) => p \in BlockedIn(K, s)
    BY DEF IInv, OnePlace, BlockedIn
  <2>2. ASSUME p \in BlockedIn(K, s) PROVE p \in K \cap Range(semq[s])
    <3>1. p \in K /\ p # current /\ p \notin Range(ready) /\ semAdd[p] = s
      BY <2>2 DEF BlockedIn
    <3>2. p \in Waiters(Sems)
      BY <3>1 DEF IInv, OnePlace
    <3>3. PICK u \in Sems : p \in Range(semq[u])
      BY <3>2 DEF Waiters
    <3>4. semAdd[p] = u
      BY <3>3 DEF IInv, OnePlace
    <3> QED BY <3>1, <3>3, <3>4
  <2> QED BY <2>1, <2>2
<1>2. \A s \in Sems : BlockedIn(K, s) = K \cap Range(semq[s])
  BY <1>1
<1>3. SoftSems \subseteq Sems
  BY DEF SoftSems, Sems
<1>4. SoftKilled(K) = K \cap In(semq, SoftSems)
  <2>1. ASSUME NEW p PROVE p \in SoftKilled(K) <=> p \in K \cap In(semq, SoftSems)
    <3>1. p \in SoftKilled(K) <=> \E s \in SoftSems : p \in BlockedIn(K, s)
      BY DEF SoftKilled
    <3>2. p \in In(semq, SoftSems) <=> \E s \in SoftSems : p \in Range(semq[s])
      BY DEF In
    <3>3. \A s \in SoftSems : p \in BlockedIn(K, s) <=> p \in K \cap Range(semq[s])
      BY <1>1, <1>3
    <3> HIDE DEF In, SoftKilled, BlockedIn
    <3> QED BY <3>1, <3>2, <3>3
  <2> QED BY <2>1
<1> QED BY <1>2, <1>4

\* r, d and Q2 are the ready queue q, the running process c and the queues Q
\* without the processes K.
Cleared(q, c, Q, K, r, d, Q2) ==
  /\ r = Without(q, K)
  /\ d = IF c \in K THEN NULL ELSE c
  /\ \A s \in Sems : Q2[s] = Without(Q[s], K \cap Range(Q[s]))

\* Taking the processes K out of the ready queue, off the CPU and out of the
\* semaphores' queues, and putting them on the free list.
LEMMA RemoveResult ==
  ASSUME NEW q \in Seq(Pcbs), NEW F \in SUBSET Pcbs, NEW c \in Pcbs \cup {NULL},
         NEW Q \in [Sems -> Seq(Pcbs)], NEW A, Placed(q, c, F, Q, A),
         NEW K \in SUBSET Pcbs, NEW r, NEW d, NEW Q2,
         Cleared(q, c, Q, K, r, d, Q2)
  PROVE  /\ r \in Seq(Pcbs)
         /\ Placed(r, d, F \cup K, Q2, A)
<1>1. r \in Seq(Pcbs) /\ Range(r) = Range(q) \ K /\ NoRepetition(r)
  BY WithoutResult DEF Placed, Cleared
<1>2. ASSUME NEW s \in Sems
      PROVE  /\ Q2[s] \in Seq(Pcbs) /\ NoRepetition(Q2[s])
             /\ Range(Q2[s]) = Range(Q[s]) \ K
  <2> DEFINE B == K \cap Range(Q[s])
  <2>1. Q2[s] = Without(Q[s], B)
    BY DEF Cleared
  <2>2. Q[s] \in Seq(Pcbs) /\ NoRepetition(Q[s])
    BY DEF Placed
  <2>3. Range(Q[s]) \ B = Range(Q[s]) \ K
    OBVIOUS
  <2> HIDE DEF B
  <2> QED BY <2>1, <2>2, <2>3, WithoutResult
<1>4. NULL \notin Pcbs
  BY PcbsAssumption
<1>5. Placed(r, d, F \cup K, Q2, A)
  <2>1. NoRepetition(r) /\ \A s \in Sems : NoRepetition(Q2[s])
    BY <1>1, <1>2
  <2>2. (F \cup K) \cap Range(r) = {} /\ d \notin (F \cup K) \cup Range(r)
    <3>1. NULL \notin Range(r)
      BY <1>1, <1>4, RangeOfSeq
    <3> QED BY <1>1, <1>4, <3>1 DEF Placed, Cleared
  <2>3. ASSUME NEW s \in Sems, NEW p \in Range(Q2[s])
        PROVE  p \notin (F \cup K) \cup Range(r) /\ p # d /\ A[p] = s
    <3>1. p \in Range(Q[s]) /\ p \notin K /\ p \in Pcbs
      BY <1>2, RangeOfSeq
    <3> QED BY <1>1, <1>4, <3>1 DEF Placed, Cleared
  <2>4. Pcbs \ (F \cup K) \subseteq Range(r) \cup {d} \cup In(Q2, Sems)
    <3>1. Pcbs \ F \subseteq Range(q) \cup {c} \cup In(Q, Sems)
      BY DEF Placed, In
    <3>2. In(Q, Sems) \ K \subseteq In(Q2, Sems)
      BY <1>2 DEF In
    <3> QED BY <1>1, <3>1, <3>2 DEF Cleared
  <2> QED BY <2>1, <2>2, <2>3, <2>4 DEF Placed, In
<1> QED BY <1>1, <1>5

\* Terminating a live process t and its progeny: the counters go on counting
\* the processes that are left, and the tree and the places stay in order.
LEMMA KillResult ==
  ASSUME IInv, NEW t \in Live, Kill(Subtree(t)), UNCHANGED <<prio, support, semAdd, busy>>
  PROVE  LET K == Subtree(t)
             r == Without(ready, K)
             d == IF current \in K THEN NULL ELSE current
         IN  /\ K \subseteq Live /\ K \in SUBSET Pcbs
             /\ r \in Seq(Pcbs)
             /\ free' \in SUBSET Pcbs /\ parent' \in [Pcbs -> Pcbs \cup {NULL}]
             /\ sem' \in [Sems -> Int] /\ semq' \in [Sems -> Seq(Pcbs)]
             /\ Placed(r, d, free', semq', semAdd')
             /\ OneTree(parent', free')
             /\ processCount' \in Nat /\ processCount' = Cardinality(Pcbs \ free')
             /\ softBlockCount' \in Nat
             /\ softBlockCount' = Cardinality(In(semq', SoftSems))
<1> DEFINE K == Subtree(t)
           r == Without(ready, K)
           d == IF current \in K THEN NULL ELSE current
<1>1. /\ ready \in Seq(Pcbs) /\ current \in Pcbs \cup {NULL} /\ free \in SUBSET Pcbs
      /\ parent \in [Pcbs -> Pcbs \cup {NULL}] /\ semq \in [Sems -> Seq(Pcbs)]
      /\ sem \in [Sems -> Int] /\ processCount \in Nat /\ softBlockCount \in Nat
  BY DEF IInv, TypeOK
<1>2. OneTree(parent, free) /\ Below(parent, t) = K
  BY FamilyTreeIsOneTree DEF IInv
<1>3. t \in Pcbs /\ t \in Pcbs \ free
  BY DEF Live
<1>4. K \subseteq Live /\ K \in SUBSET Pcbs
  <2>1. Below(parent, t) \subseteq Pcbs \ free
    BY <1>1, <1>2, <1>3, LiveClosed
  <2>2. K \subseteq Pcbs \ free
    BY <1>2, <2>1
  <2> HIDE DEF K
  <2> QED BY <2>2 DEF Live
<1>5. /\ sem' = [s \in Sems |-> sem[s] + Refund(K, s)]
      /\ semq' = [s \in Sems |-> Without(semq[s], BlockedIn(K, s))]
      /\ softBlockCount' = softBlockCount - Cardinality(SoftKilled(K))
      /\ parent' = [p \in Pcbs |-> IF p \in K THEN NULL ELSE parent[p]]
      /\ free' = free \cup K
      /\ processCount' = processCount - Cardinality(K)
  BY DEF Kill, Unlinked
<1>6. OneTree(parent', free')
  <2>1. OneTree([p \in Pcbs |-> IF p \in Below(parent, t) THEN NULL ELSE parent[p]],
                free \cup Below(parent, t))
    BY <1>1, <1>2, <1>3, KillKeepsTree
  <2> HIDE DEF K
  <2> QED BY <1>2, <1>5, <2>1
<1>7. /\ \A s \in Sems : BlockedIn(K, s) = K \cap Range(semq[s])
      /\ SoftKilled(K) = K \cap In(semq, SoftSems)
  BY <1>4, BlockedAreWaiters
<1> HIDE DEF K
<1>8. free' \in SUBSET Pcbs /\ parent' \in [Pcbs -> Pcbs \cup {NULL}]
  BY <1>1, <1>4, <1>5
<1>9. sem' \in [Sems -> Int]
  <2>1. ASSUME NEW s \in Sems PROVE sem[s] + Refund(K, s) \in Int
    <3>1. IsFiniteSet(BlockedIn(K, s))
      BY <1>4, <1>7, PcbsAssumption, FS_Subset
    <3>2. Refund(K, s) \in Nat
      BY <3>1, FS_CardinalityType DEF Refund
    <3> QED BY <1>1, <3>2
  <2> QED BY <1>5, <2>1
<1>10. \A s \in Sems : semq'[s] = Without(semq[s], K \cap Range(semq[s]))
  BY <1>5, <1>7
<1>11. Placed(ready, current, free, semq, semAdd)
  BY OnePlaceIsPlaced DEF IInv
<1>12. /\ r \in Seq(Pcbs) /\ semq' \in [Sems -> Seq(Pcbs)]
       /\ Placed(r, d, free', semq', semAdd')
       /\ In(semq', SoftSems) = In(semq, SoftSems) \ K
  <2>1. /\ r \in Seq(Pcbs) /\ \A s \in Sems : semq'[s] \in Seq(Pcbs)
        /\ Placed(r, d, free \cup K, semq', semAdd)
        /\ In(semq', SoftSems) = In(semq, SoftSems) \ K
    <3>1. Cleared(ready, current, semq, K, r, d, semq')
      BY <1>10 DEF Cleared
    <3> HIDE DEF r, d
    <3>2. /\ ready \in Seq(Pcbs) /\ free \in SUBSET Pcbs
          /\ current \in Pcbs \cup {NULL} /\ semq \in [Sems -> Seq(Pcbs)]
      BY <1>1
    <3>3. K \in SUBSET Pcbs
      BY <1>4
    <3>4. r \in Seq(Pcbs)
      BY ONLY <1>11, <3>1, <3>2, <3>3, RemoveResult
    <3>5. Placed(r, d, free \cup K, semq', semAdd)
      BY ONLY <1>11, <3>1, <3>2, <3>3, RemoveResult
    <3>6. \A s \in Sems : semq'[s] \in Seq(Pcbs) /\ Range(semq'[s]) = Range(semq[s]) \ K
      <4>1. ASSUME NEW Q \in Seq(Pcbs), NEW R, R = Without(Q, K \cap Range(Q))
            PROVE  R \in Seq(Pcbs) /\ Range(R) = Range(Q) \ K
        <5>1. R \in Seq(Pcbs) /\ Range(R) = Range(Q) \ (K \cap Range(Q))
          BY <4>1, WithoutResult
        <5> QED BY <5>1
      <4> QED BY <1>1, <1>10, <4>1
    <3>7. SoftSems \subseteq Sems
      BY DEF SoftSems, Sems
    <3>8. In(semq', SoftSems) = In(semq, SoftSems) \ K
      BY ONLY <3>6, <3>7, RemovedWaiters
    <3> QED BY <3>4, <3>5, <3>6, <3>8
  <2>2. semAdd' = semAdd
    OBVIOUS
  <2>3. semq' = [s \in Sems |-> semq'[s]]
    BY <1>5
  <2>4. semq' \in [Sems -> Seq(Pcbs)]
    BY <2>1, <2>3
  <2> QED BY <1>5, <2>1, <2>2, <2>4
<1>13. processCount' \in Nat /\ processCount' = Cardinality(Pcbs \ free')
  <2>1. Pcbs \ free' = Live \ K /\ Live \cap K = K
    BY <1>4, <1>5 DEF Live
  <2>2. IsFiniteSet(Live)
    BY PcbsAssumption, FS_Subset DEF Live
  <2>3. /\ IsFiniteSet(Live \ K)
        /\ Cardinality(Live \ K) = Cardinality(Live) - Cardinality(Live \cap K)
    BY <2>2, FS_Difference
  <2>4. processCount = Cardinality(Live)
    BY DEF IInv, CountersExact
  <2>5. Cardinality(Live \ K) \in Nat
    BY <2>3, FS_CardinalityType
  <2> QED BY <1>5, <2>1, <2>3, <2>4, <2>5
<1>14. softBlockCount' \in Nat /\ softBlockCount' = Cardinality(In(semq', SoftSems))
  <2>1. SoftSems \in SUBSET Sems
    BY DEF SoftSems, Sems
  <2>2. IsFiniteSet(In(semq, SoftSems))
    BY <1>1, <2>1, WaitersFinite
  <2>3. /\ IsFiniteSet(In(semq, SoftSems) \ K)
        /\ Cardinality(In(semq, SoftSems) \ K)
             = Cardinality(In(semq, SoftSems)) - Cardinality(In(semq, SoftSems) \cap K)
    BY <2>2, FS_Difference
  <2>4. softBlockCount = Cardinality(In(semq, SoftSems))
    BY DEF IInv, CountersExact, Waiters, In
  <2>5. Cardinality(In(semq, SoftSems) \ K) \in Nat
    BY <2>3, FS_CardinalityType
  <2>6. In(semq, SoftSems) \cap K = SoftKilled(K)
    BY <1>7
  <2>7. In(semq', SoftSems) = In(semq, SoftSems) \ K
    BY <1>12, <2>1
  <2> HIDE DEF In, SoftKilled
  <2> QED BY <1>5, <2>3, <2>4, <2>5, <2>6, <2>7
<1> QED BY <1>4, <1>6, <1>8, <1>9, <1>12, <1>13, <1>14 DEF K

----------------------------------------------------------------------------
(* Each handler keeps the invariant *)

\* The invariant's parts, in the form the lemmas above take them.
LEMMA Unpacked ==
  ASSUME IInv
  PROVE  /\ ready \in Seq(Pcbs) /\ current \in Pcbs \cup {NULL} /\ free \in SUBSET Pcbs
         /\ parent \in [Pcbs -> Pcbs \cup {NULL}] /\ prio \in [Pcbs -> Prios]
         /\ support \in [Pcbs -> BOOLEAN] /\ semAdd \in [Pcbs -> Sems \cup {NULL}]
         /\ sem \in [Sems -> Int] /\ semq \in [Sems -> Seq(Pcbs)]
         /\ processCount \in Nat /\ softBlockCount \in Nat
         /\ cpu \in CpuStates /\ busy \in SUBSET Devices
         /\ Placed(ready, current, free, semq, semAdd)
         /\ processCount = Cardinality(Pcbs \ free)
         /\ softBlockCount = Cardinality(In(semq, SoftSems))
         /\ OneTree(parent, free)
         /\ CpuAgrees
BY OnePlaceIsPlaced, FamilyTreeIsOneTree
   DEF IInv, TypeOK, CountersExact, Live, Waiters, In

\* The same of the next state.
LEMMA Packed ==
  ASSUME TypeOK', Placed(ready', current', free', semq', semAdd'),
         processCount' = Cardinality(Pcbs \ free'),
         softBlockCount' = Cardinality(In(semq', SoftSems)),
         OneTree(parent', free'), CpuAgrees'
  PROVE  IInv'
<1>1. CountersExact'
  BY DEF CountersExact, Live, Waiters, In
<1> QED BY <1>1, OnePlaceIsPlacedNext, FamilyTreeIsOneTreeNext DEF IInv

\* insertProcQ of a PCB in a queue of PCBs.
LEMMA InsertResult ==
  ASSUME NEW P, NEW q \in Seq(Pcbs), NEW x \in Pcbs, NEW r, r = InsertProcQ(P, q, x)
  PROVE  /\ r \in Seq(Pcbs) /\ Range(r) = Range(q) \cup {x}
         /\ NoRepetition(q) /\ x \notin Range(q) => NoRepetition(r)
<1>1. /\ InsertProcQ(P, q, x) \in Seq(Pcbs)
      /\ Range(InsertProcQ(P, q, x)) = Range(q) \cup {x}
      /\ NoRepetition(q) /\ x \notin Range(q) => NoRepetition(InsertProcQ(P, q, x))
  BY ONLY q \in Seq(Pcbs), x \in Pcbs, InsertProcQResult
<1> QED BY <1>1

\* insertProcQ of each of the PCBs w in a queue of PCBs.
LEMMA InsertEachOfPcbs ==
  ASSUME NEW P, NEW q \in Seq(Pcbs), NEW w \in Seq(Pcbs),
         NEW W, W = Range(w), NEW r, r = InsertEach(P, q, w),
         NoRepetition(q), NoRepetition(w), Range(q) \cap W = {}
  PROVE  r \in Seq(Pcbs) /\ Range(r) = Range(q) \cup W /\ NoRepetition(r)
<1>1. /\ InsertEach(P, q, w) \in Seq(Pcbs)
      /\ Range(InsertEach(P, q, w)) = Range(q) \cup Range(w)
      /\ NoRepetition(q) /\ NoRepetition(w) /\ Range(q) \cap Range(w) = {}
           => NoRepetition(InsertEach(P, q, w))
  BY ONLY q \in Seq(Pcbs), w \in Seq(Pcbs), InsertEachResult
<1> QED BY <1>1

\* A running processor has a live process.
LEMMA RunningLive ==
  ASSUME IInv, Running
  PROVE  current \in Pcbs /\ current \in Live
BY DEF IInv, TypeOK, OnePlace, CpuAgrees, Running, Live

\* Freeing a subtree, and the scheduler if the running process is in it.
LEMMA KillStep ==
  ASSUME IInv, Running, NEW t \in Live, Kill(Subtree(t)),
         UNCHANGED <<prio, support, semAdd, busy>>,
         \/ current \in Subtree(t) /\ Schedule(Without(ready, Subtree(t)))
         \/ /\ current \notin Subtree(t)
            /\ ready' = Without(ready, Subtree(t)) /\ UNCHANGED <<current, cpu>>
  PROVE  IInv'
<1> DEFINE K == Subtree(t)
           r == Without(ready, K)
           d == IF current \in K THEN NULL ELSE current
<1>1. /\ r \in Seq(Pcbs)
      /\ free' \in SUBSET Pcbs /\ parent' \in [Pcbs -> Pcbs \cup {NULL}]
      /\ sem' \in [Sems -> Int] /\ semq' \in [Sems -> Seq(Pcbs)]
      /\ Placed(r, d, free', semq', semAdd')
      /\ OneTree(parent', free')
      /\ processCount' \in Nat /\ processCount' = Cardinality(Pcbs \ free')
      /\ softBlockCount' \in Nat
      /\ softBlockCount' = Cardinality(In(semq', SoftSems))
  BY KillResult
<1>2. \/ current \in K /\ Schedule(r)
      \/ current \notin K /\ ready' = r /\ UNCHANGED <<current, cpu>>
  OBVIOUS
<1>3. current \in K => d = NULL
  OBVIOUS
<1>4. current \notin K => d = current
  OBVIOUS
<1> HIDE DEF K, r, d
<1>5. /\ ready' \in Seq(Pcbs) /\ current' \in Pcbs \cup {NULL} /\ cpu' \in CpuStates
      /\ CpuAgrees' /\ Placed(ready', current', free', semq', semAdd')
  <2>1. CASE current \in K
    <3>1. Schedule(r) /\ Placed(r, NULL, free', semq', semAdd')
      BY <1>1, <1>2, <1>3, <2>1
    <3> QED BY <1>1, <3>1, ScheduleResult
  <2>2. CASE current \notin K
    <3>1. ready' = r /\ current' = current /\ cpu' = cpu /\ d = current
      BY <1>2, <1>4, <2>2
    <3>2. current # NULL /\ cpu = "running" /\ current \in Pcbs
      BY Unpacked, RunningLive, PcbsAssumption DEF Running
    <3>3. CpuAgrees'
      BY <3>1, <3>2 DEF CpuAgrees
    <3> QED BY <1>1, <3>1, <3>2, <3>3 DEF CpuStates
  <2> QED BY <2>1, <2>2
<1>6. /\ prio' \in [Pcbs -> Prios] /\ support' \in [Pcbs -> BOOLEAN]
      /\ semAdd' \in [Pcbs -> Sems \cup {NULL}] /\ busy' \in SUBSET Devices
  BY Unpacked
<1>7. TypeOK'
  BY <1>1, <1>5, <1>6 DEF TypeOK
<1> QED BY <1>1, <1>5, <1>7, Packed

\* A step that changes nothing.
LEMMA StutterStep ==
  ASSUME IInv, UNCHANGED vars
  PROVE  IInv'
<1>1. TypeOK' /\ CpuAgrees'
  BY DEF IInv, TypeOK, CpuAgrees, vars
<1>2. /\ ready' = ready /\ current' = current /\ free' = free /\ parent' = parent
      /\ semAdd' = semAdd /\ semq' = semq
      /\ processCount' = processCount /\ softBlockCount' = softBlockCount
  BY DEF vars
<1> QED BY <1>1, <1>2, Unpacked, Packed

\* The pids TERMPROCESS looks for are those of live processes: the root it
\* climbs to is alive, and so is what is below it.
LEMMA TargetsLive ==
  ASSUME IInv, Running
  PROVE  Subtree(Root(current)) \subseteq Live
<1>1. current \in Pcbs /\ current \in Live
  BY RunningLive
<1>2. OneTree(parent, free) /\ free \in SUBSET Pcbs
  BY Unpacked
<1>3. \A x : Subtree(x) = Below(parent, x)
  BY FamilyTreeIsOneTree
<1>4. PICK r \in Live : parent[r] = NULL /\ Subtree(r) = Live
  BY <1>1 DEF IInv, FamilyTree
<1>5. \E r1 \in Pcbs : current \in Subtree(r1) /\ parent[r1] = NULL
  BY <1>1, <1>4 DEF Live
<1> DEFINE R == Root(current)
<1>6. R \in Pcbs /\ current \in Subtree(R)
  BY <1>5 DEF Root
<1> HIDE DEF R
<1>7. R \in Live
  <2> SUFFICES ASSUME R \in free PROVE FALSE
    BY <1>6 DEF Live
  <2>1. {R} \in SUBSET Pcbs /\ R \in {R} /\ ClosedUnder(parent, {R})
    BY <1>2, <1>6 DEF OneTree, ClosedUnder
  <2>2. Below(parent, R) \subseteq {R}
    BY <1>6, <2>1, BelowResult
  <2>3. current = R
    BY <1>3, <1>6, <2>2
  <2> QED BY <1>1, <2>3 DEF Live
<1>8. Below(parent, R) \subseteq Pcbs \ free
  BY <1>2, <1>7, LiveClosed DEF Live
<1> QED BY <1>3, <1>8 DEF Live, R

\* TERMPROCESS of any process of the tree, or of a pid that is none.
LEMMA TerminateProcessStep ==
  ASSUME IInv, TerminateProcess
  PROVE  IInv'
<1>1. CASE UNCHANGED vars
  BY <1>1, StutterStep
<1>2. CASE \E t \in Subtree(Root(current)) : Terminate(t)
  <2>1. Running
    BY DEF TerminateProcess
  <2>2. PICK t \in Subtree(Root(current)) : Terminate(t)
    BY <1>2
  <2>3. t \in Live
    BY <2>1, TargetsLive
  <2> QED BY <2>1, <2>2, <2>3, KillStep DEF Terminate
<1> QED BY <1>1, <1>2 DEF TerminateProcess

\* The death of a process without support structure, and of its progeny.
LEMMA PassUpOrDieStep ==
  ASSUME IInv, PassUpOrDie
  PROVE  IInv'
<1>1. CASE UNCHANGED vars
  BY <1>1, StutterStep
<1>2. CASE /\ Kill(Subtree(current))
           /\ Schedule(Without(ready, Subtree(current)))
           /\ UNCHANGED <<prio, support, semAdd, busy>>
  <2>1. Running /\ current \in Live
    BY RunningLive DEF PassUpOrDie
  <2>2. current \in Subtree(current)
    BY <2>1, FamilyTreeIsOneTree, BelowResult DEF Live
  <2> QED BY <1>2, <2>1, <2>2, KillStep
<1> QED BY <1>1, <1>2 DEF PassUpOrDie

\* CREATEPROCESS, with a free PCB or without one.
LEMMA CreateProcessStep ==
  ASSUME IInv, CreateProcess
  PROVE  IInv'
<1>1. CASE UNCHANGED vars
  BY <1>1, StutterStep
<1>2. CASE \E p \in free, pr \in Prios, sup \in BOOLEAN :
          /\ free' = free \ {p}
          /\ prio' = [prio EXCEPT ![p] = pr]
          /\ support' = [support EXCEPT ![p] = sup]
          /\ semAdd' = [semAdd EXCEPT ![p] = NULL]
          /\ parent' = [parent EXCEPT ![p] = current]
          /\ ready' = InsertProcQ(prio', ready, p)
          /\ processCount' = processCount + 1
          /\ UNCHANGED <<current, sem, semq, softBlockCount, cpu, busy>>
  <2>1. PICK p \in free, pr \in Prios, sup \in BOOLEAN :
          /\ free' = free \ {p}
          /\ prio' = [prio EXCEPT ![p] = pr]
          /\ support' = [support EXCEPT ![p] = sup]
          /\ semAdd' = [semAdd EXCEPT ![p] = NULL]
          /\ parent' = [parent EXCEPT ![p] = current]
          /\ ready' = InsertProcQ(prio', ready, p)
          /\ processCount' = processCount + 1
          /\ UNCHANGED <<current, sem, semq, softBlockCount, cpu, busy>>
    BY <1>2
  <2>2. current \in Pcbs /\ current \in Pcbs \ free
    BY RunningLive DEF CreateProcess, Live
  <2>3. /\ ready \in Seq(Pcbs) /\ free \in SUBSET Pcbs /\ p \in Pcbs
        /\ Placed(ready, current, free, semq, semAdd)
        /\ OneTree(parent, free) /\ parent \in [Pcbs -> Pcbs \cup {NULL}]
    BY Unpacked
  <2>4. p \notin Range(ready) /\ NoRepetition(ready)
    BY <2>3 DEF Placed
  <2>5. /\ ready' \in Seq(Pcbs) /\ Range(ready') = Range(ready) \cup {p}
        /\ NoRepetition(ready')
    <3>1. ready' = InsertProcQ(prio', ready, p)
      BY <2>1
    <3>2. ready \in Seq(Pcbs) /\ p \in Pcbs
      BY <2>3
    <3> QED BY ONLY <2>4, <3>1, <3>2, InsertResult
  <2>6. TypeOK'
    BY <2>1, <2>2, <2>5, Unpacked DEF TypeOK
  <2>7. OneTree(parent', free')
    BY <2>1, <2>2, <2>3, InsertChildKeepsTree
  <2>8. processCount' = Cardinality(Pcbs \ free')
    <3>1. Pcbs \ free' = (Pcbs \ free) \cup {p} /\ p \notin Pcbs \ free
      BY <2>1, <2>3
    <3>2. IsFiniteSet(Pcbs \ free)
      BY PcbsAssumption, FS_Subset
    <3>3. Cardinality((Pcbs \ free) \cup {p}) = Cardinality(Pcbs \ free) + 1
      BY <3>1, <3>2, FS_AddElement
    <3>4. processCount = Cardinality(Pcbs \ free)
      BY Unpacked
    <3> QED BY <2>1, <3>1, <3>3, <3>4
  <2>9. softBlockCount' = Cardinality(In(semq', SoftSems))
    BY <2>1, Unpacked
  <2>10. CpuAgrees'
    BY <2>1, Unpacked, PcbsAssumption DEF CpuAgrees, CreateProcess, Running
  <2>11. Placed(ready', current', free', semq', semAdd')
    <3>1. /\ free' = free \ {p} /\ current' = current /\ semq' = semq
          /\ semAdd \in [Pcbs -> Sems \cup {NULL}]
          /\ semAdd' = [semAdd EXCEPT ![p] = NULL]
      BY <2>1, Unpacked
    <3>2. \A s \in Sems : p \notin Range(semq[s]) /\ Range(semq[s]) \subseteq Pcbs
      BY <2>3, Unpacked, RangeOfSeq DEF Placed
    <3>3. \A x \in Pcbs \ {p} : semAdd'[x] = semAdd[x]
      BY <3>1
    <3>4. NoRepetition(ready') /\ \A s \in Sems : NoRepetition(semq'[s])
      BY <2>3, <2>5, <3>1 DEF Placed
    <3>5. free' \cap Range(ready') = {} /\ current' \notin free' \cup Range(ready')
      BY <2>2, <2>3, <2>5, <3>1 DEF Placed
    <3>6. ASSUME NEW s \in Sems, NEW x \in Range(semq'[s])
          PROVE  x \notin free' \cup Range(ready') /\ x # current' /\ semAdd'[x] = s
      BY <2>3, <2>5, <3>1, <3>2, <3>3 DEF Placed
    <3>7. Pcbs \ free' \subseteq Range(ready') \cup {current'} \cup In(semq', Sems)
      <4>1. Pcbs \ free \subseteq Range(ready) \cup {current} \cup In(semq, Sems)
        BY <2>3 DEF Placed, In
      <4> QED BY <2>5, <3>1, <4>1
    <3> QED BY <3>4, <3>5, <3>6, <3>7 DEF Placed, In
  <2> QED BY <2>6, <2>7, <2>8, <2>9, <2>10, <2>11, Packed
<1> QED BY <1>1, <1>2 DEF CreateProcess

\* The running process joins the ready queue, at the place that the insertion
\* q2 gives it, and the scheduler takes the head.
LEMMA RequeueStep ==
  ASSUME IInv, Running, NEW q2 \in Seq(Pcbs), Schedule(q2),
         Range(q2) = Range(ready) \cup {current}, NoRepetition(q2),
         UNCHANGED <<processCount, softBlockCount>>,
         UNCHANGED <<free, parent, prio, support, semAdd, sem, semq, busy>>
  PROVE  IInv'
<1>1. current \in Pcbs /\ NULL \notin Pcbs
  BY RunningLive, PcbsAssumption
<1>2. Placed(ready, current, free, semq, semAdd) /\ semq \in [Sems -> Seq(Pcbs)]
  BY Unpacked
<1>3. Placed(q2, NULL, free, semq, semAdd)
  <2>1. NoRepetition(q2) /\ \A s \in Sems : NoRepetition(semq[s])
    BY <1>2 DEF Placed
  <2>2. free \cap Range(q2) = {} /\ NULL \notin free \cup Range(q2)
    BY <1>1, <1>2, Unpacked, RangeOfSeq DEF Placed
  <2>3. ASSUME NEW s \in Sems, NEW x \in Range(semq[s])
        PROVE  x \notin free \cup Range(q2) /\ x # NULL /\ semAdd[x] = s
    <3>1. x \in Pcbs
      BY <1>2, RangeOfSeq
    <3> QED BY <1>1, <1>2, <3>1 DEF Placed
  <2>4. Pcbs \ free \subseteq Range(q2) \cup {NULL} \cup In(semq, Sems)
    <3>1. Pcbs \ free \subseteq Range(ready) \cup {current} \cup In(semq, Sems)
      BY <1>2 DEF Placed, In
    <3> QED BY <3>1
  <2> QED BY <2>1, <2>2, <2>3, <2>4 DEF Placed, In
<1>4. processCount' \in Nat /\ softBlockCount' \in Nat /\ free \in SUBSET Pcbs
  BY Unpacked
<1>5. /\ ready' \in Seq(Pcbs) /\ current' \in Pcbs \cup {NULL} /\ cpu' \in CpuStates
      /\ CpuAgrees' /\ Placed(ready', current', free, semq, semAdd)
  BY <1>3, <1>4, ScheduleResult
<1>6. TypeOK'
  BY <1>5, Unpacked DEF TypeOK
<1> QED BY <1>5, <1>6, Unpacked, Packed

\* YIELD.
LEMMA YieldStep ==
  ASSUME IInv, Yield
  PROVE  IInv'
<1> DEFINE q2 == Append(ready, current)
<1>1. Running /\ current \in Pcbs /\ ready \in Seq(Pcbs)
  BY Unpacked, RunningLive DEF Yield
<1>2. current \notin Range(ready) /\ NoRepetition(ready)
  BY Unpacked DEF Placed
<1>3. q2 \in Seq(Pcbs) /\ Range(q2) = Range(ready) \cup {current} /\ NoRepetition(q2)
  BY <1>1, <1>2, AppendResult
<1>4. /\ Schedule(q2) /\ UNCHANGED <<processCount, softBlockCount>>
      /\ UNCHANGED <<free, parent, prio, support, semAdd, sem, semq, busy>>
  BY DEF Yield
<1> HIDE DEF q2
<1> QED BY <1>1, <1>3, <1>4, RequeueStep

\* The end of a time slice.
LEMMA HandlePLTStep ==
  ASSUME IInv, HandlePLT
  PROVE  IInv'
<1> DEFINE q2 == InsertProcQ(prio, ready, current)
<1>1. Running /\ current \in Pcbs /\ ready \in Seq(Pcbs)
  BY Unpacked, RunningLive DEF HandlePLT
<1>2. current \notin Range(ready) /\ NoRepetition(ready)
  BY Unpacked DEF Placed
<1>3. q2 = InsertProcQ(prio, ready, current)
  OBVIOUS
<1>4. /\ Schedule(q2) /\ UNCHANGED <<processCount, softBlockCount>>
      /\ UNCHANGED <<free, parent, prio, support, semAdd, sem, semq, busy>>
  BY DEF HandlePLT
<1> HIDE DEF q2
<1>5. q2 \in Seq(Pcbs) /\ Range(q2) = Range(ready) \cup {current} /\ NoRepetition(q2)
  BY ONLY <1>1, <1>2, <1>3, InsertResult
<1> QED BY <1>1, <1>4, <1>5, RequeueStep

\* Blocking the running process on s and the scheduler: the descriptor is
\* there, so insertBlocked does what its callers count on.
LEMMA BlockStep ==
  ASSUME IInv, Running, NEW s \in Sems, InsertBlocked(s, current), Schedule(ready),
         sem' \in [Sems -> Int], busy' \in SUBSET Devices,
         UNCHANGED <<free, parent, prio, support, processCount>>,
         softBlockCount' = softBlockCount + IF s \in SoftSems THEN 1 ELSE 0
  PROVE  IInv'
<1> DEFINE Q2 == [semq EXCEPT ![s] = Append(@, current)]
           A2 == [semAdd EXCEPT ![current] = s]
<1>1. current \in Pcbs /\ current # NULL
  BY RunningLive, PcbsAssumption
<1>2. Cardinality(Active) < SemdPool /\ IsFiniteSet(Active)
  BY <1>1, AslNeverFull DEF IInv
<1>3. Cardinality(Active) \in Nat /\ SemdPool \in Nat
  BY <1>2, PcbsAssumption, FS_CardinalityType DEF SemdPool
<1>4. semq' = Q2 /\ semAdd' = A2
  BY <1>2, <1>3 DEF InsertBlocked
<1>5. /\ ready \in Seq(Pcbs) /\ free \in SUBSET Pcbs
      /\ semq \in [Sems -> Seq(Pcbs)] /\ semAdd \in [Pcbs -> Sems \cup {NULL}]
      /\ Placed(ready, current, free, semq, semAdd)
  BY Unpacked
<1>6. /\ Q2 \in [Sems -> Seq(Pcbs)] /\ A2 \in [Pcbs -> Sems \cup {NULL}]
      /\ Placed(ready, NULL, free, Q2, A2)
      /\ \A T \in SUBSET Sems :
           In(Q2, T) = IF s \in T THEN In(semq, T) \cup {current} ELSE In(semq, T)
      /\ \A T \in SUBSET Sems : current \notin In(semq, T)
  BY <1>1, <1>5, BlockResult
<1> HIDE DEF Q2, A2
<1>7. SoftSems \in SUBSET Sems
  BY DEF SoftSems, Sems
<1>8. /\ softBlockCount = Cardinality(In(semq, SoftSems)) /\ softBlockCount \in Nat
      /\ IsFiniteSet(In(semq, SoftSems))
  BY <1>5, <1>7, Unpacked, WaitersFinite
<1>9. softBlockCount' \in Nat /\ softBlockCount' = Cardinality(In(Q2, SoftSems))
  <2>1. CASE s \in SoftSems
    <3>1. In(Q2, SoftSems) = In(semq, SoftSems) \cup {current}
      BY <1>6, <1>7, <2>1
    <3>2. Cardinality(In(semq, SoftSems) \cup {current}) = Cardinality(In(semq, SoftSems)) + 1
      BY <1>6, <1>7, <1>8, FS_AddElement
    <3> QED BY <1>8, <2>1, <3>1, <3>2
  <2>2. CASE s \notin SoftSems
    <3>1. In(Q2, SoftSems) = In(semq, SoftSems)
      BY <1>6, <1>7, <2>2
    <3> QED BY <1>8, <2>2, <3>1
  <2> QED BY <2>1, <2>2
<1>10. processCount' \in Nat
  BY Unpacked
<1>11. /\ ready' \in Seq(Pcbs) /\ current' \in Pcbs \cup {NULL} /\ cpu' \in CpuStates
       /\ CpuAgrees' /\ Placed(ready', current', free, Q2, A2)
  BY <1>5, <1>6, <1>9, <1>10, ScheduleResult
<1>12. TypeOK'
  BY <1>4, <1>6, <1>9, <1>11, Unpacked DEF TypeOK
<1>13. /\ processCount' = Cardinality(Pcbs \ free') /\ OneTree(parent', free')
       /\ Placed(ready', current', free', semq', semAdd')
       /\ softBlockCount' = Cardinality(In(semq', SoftSems))
  BY <1>4, <1>9, <1>11, Unpacked
<1> QED BY <1>11, <1>12, <1>13, Packed

\* PASSEREN, whether or not the caller blocks.
LEMMA PasserenStep ==
  ASSUME IInv, NEW s \in UserSems, Passeren(s)
  PROVE  IInv'
<1>1. Running /\ s \in Sems /\ s \notin SoftSems
  BY SemsAssumption DEF Passeren, Sems, SoftSems
<1>2. /\ sem' = [sem EXCEPT ![s] = @ - 1] /\ sem \in [Sems -> Int]
      /\ UNCHANGED <<processCount, softBlockCount>>
      /\ UNCHANGED <<free, parent, prio, support, busy>>
  BY Unpacked DEF Passeren
<1>3. sem' \in [Sems -> Int] /\ busy' \in SUBSET Devices
  BY <1>1, <1>2, Unpacked
<1>4. CASE UNCHANGED <<ready, current, semAdd, semq, cpu>>
  <2>1. TypeOK' /\ CpuAgrees'
    BY <1>2, <1>3, <1>4, Unpacked DEF TypeOK, CpuAgrees
  <2> QED BY <1>2, <1>4, <2>1, Unpacked, Packed
<1>5. CASE InsertBlocked(s, current) /\ Schedule(ready)
  <2>1. softBlockCount' = softBlockCount + IF s \in SoftSems THEN 1 ELSE 0
    BY <1>1, <1>2, Unpacked
  <2> QED BY <1>1, <1>2, <1>3, <1>5, <2>1, BlockStep
<1> QED BY <1>4, <1>5 DEF Passeren

\* The part that DOIO and CLOCKWAIT share: the caller is counted and blocked.
LEMMA SoftBlockStep ==
  ASSUME IInv, Running, NEW s \in SoftSems, SoftBlock(s), busy' \in SUBSET Devices
  PROVE  IInv'
<1>1. s \in Sems
  BY DEF Sems, SoftSems
<1>2. /\ sem' = [sem EXCEPT ![s] = @ - 1] /\ sem \in [Sems -> Int]
      /\ InsertBlocked(s, current) /\ Schedule(ready)
      /\ UNCHANGED <<free, parent, prio, support, processCount>>
      /\ softBlockCount' = softBlockCount + 1
  BY Unpacked DEF SoftBlock
<1>3. sem' \in [Sems -> Int]
  BY <1>1, <1>2
<1>4. softBlockCount' = softBlockCount + IF s \in SoftSems THEN 1 ELSE 0
  BY <1>2
<1> QED BY <1>1, <1>2, <1>3, <1>4, BlockStep

\* DOIO.
LEMMA DoIOStep ==
  ASSUME IInv, NEW d \in Devices, DoIO(d)
  PROVE  IInv'
<1>1. Running /\ SoftBlock(d) /\ d \in SoftSems
  BY DEF DoIO, SoftSems
<1>2. busy' \in SUBSET Devices
  BY Unpacked DEF DoIO
<1> QED BY <1>1, <1>2, SoftBlockStep

\* CLOCKWAIT.
LEMMA WaitForClockStep ==
  ASSUME IInv, WaitForClock
  PROVE  IInv'
<1>1. Running /\ SoftBlock(Clock) /\ Clock \in SoftSems
  BY DEF WaitForClock, SoftSems
<1>2. busy' \in SUBSET Devices
  BY Unpacked DEF WaitForClock
<1> QED BY <1>1, <1>2, SoftBlockStep

\* A V that wakes nobody.
LEMMA RaiseStep ==
  ASSUME IInv, Resume(ready), sem' \in [Sems -> Int], busy' \in SUBSET Devices,
         UNCHANGED <<semq, softBlockCount, processCount>>,
         UNCHANGED <<free, parent, prio, support, semAdd>>
  PROVE  IInv'
<1>1. /\ ready \in Seq(Pcbs) /\ free \in SUBSET Pcbs
      /\ current \in Pcbs \cup {NULL} /\ cpu \in CpuStates /\ CpuAgrees
      /\ Placed(ready, current, free, semq, semAdd)
      /\ processCount' \in Nat /\ softBlockCount' \in Nat
  BY Unpacked
<1>2. /\ ready' \in Seq(Pcbs) /\ current' \in Pcbs \cup {NULL} /\ cpu' \in CpuStates
      /\ CpuAgrees' /\ Placed(ready', current', free, semq, semAdd)
  BY <1>1, ResumeResult
<1>3. TypeOK'
  BY <1>2, Unpacked DEF TypeOK
<1> QED BY <1>2, <1>3, Unpacked, Packed

\* A V, or a tick, that moves the processes W from the head of s's queue to
\* the ready queue.
LEMMA WakeStep ==
  ASSUME IInv, NEW s \in Sems, NEW W, NEW r \in Seq(Pcbs),
         Moved(ready, semq, s, W, r, semq'), semq' \in [Sems -> Seq(Pcbs)],
         Resume(r),
         sem' \in [Sems -> Int], busy' \in SUBSET Devices,
         UNCHANGED <<free, parent, prio, support, semAdd, processCount>>,
         softBlockCount' = softBlockCount - IF s \in SoftSems THEN Cardinality(W) ELSE 0
  PROVE  IInv'
<1>1. /\ ready \in Seq(Pcbs) /\ free \in SUBSET Pcbs
      /\ current \in Pcbs \cup {NULL} /\ cpu \in CpuStates /\ CpuAgrees
      /\ semq \in [Sems -> Seq(Pcbs)]
      /\ Placed(ready, current, free, semq, semAdd)
  BY Unpacked
<1>2. Placed(r, current, free, semq', semAdd)
  BY <1>1, WakeResult
<1>3. SoftSems \in SUBSET Sems
  BY DEF SoftSems, Sems
<1>4. In(semq', SoftSems) = In(semq, SoftSems) \ W
  <2>1. \A x \in W : semAdd[x] = s
    BY <1>1 DEF Placed, Moved
  <2>2. ASSUME NEW t \in SoftSems PROVE Range(semq'[t]) = Range(semq[t]) \ W
    <3>1. CASE t = s
      BY <3>1 DEF Moved
    <3>2. CASE t # s
      <4>1. semq'[t] = semq[t]
        BY <1>3, <3>2 DEF Moved
      <4>2. Range(semq[t]) \cap W = {}
        BY <1>1, <1>3, <2>1, <3>2 DEF Placed
      <4> QED BY <4>1, <4>2
    <3> QED BY <3>1, <3>2
  <2> QED BY ONLY <2>2, RemovedWaiters
<1>5. /\ softBlockCount = Cardinality(In(semq, SoftSems)) /\ softBlockCount \in Nat
      /\ IsFiniteSet(In(semq, SoftSems))
      /\ Cardinality(In(semq', SoftSems)) \in Nat
  BY <1>1, <1>3, Unpacked, WaitersFinite
<1>6. softBlockCount' \in Nat /\ softBlockCount' = Cardinality(In(semq', SoftSems))
  <2>2. Cardinality(In(semq, SoftSems) \ W)
          = Cardinality(In(semq, SoftSems)) - Cardinality(In(semq, SoftSems) \cap W)
    BY <1>5, FS_Difference
  <2>3. CASE s \in SoftSems
    <3>1. W \subseteq In(semq, SoftSems)
      BY <2>3 DEF In, Moved
    <3>2. In(semq, SoftSems) \cap W = W
      BY <3>1
    <3> QED BY <1>5, <1>4, <2>2, <2>3, <3>2
  <2>4. CASE s \notin SoftSems
    <3>1. \A x \in W : semAdd[x] = s
      BY <1>1 DEF Placed, Moved
    <3>2. \A t \in SoftSems : Range(semq[t]) \cap W = {}
      BY <1>1, <1>3, <2>4, <3>1 DEF Placed
    <3>3. In(semq, SoftSems) \cap W = {}
      BY <3>2 DEF In
    <3>4. Cardinality(In(semq, SoftSems) \cap W) = 0
      BY <3>3, FS_EmptySet
    <3> QED BY <1>5, <1>4, <2>2, <2>4, <3>4
  <2> QED BY <2>3, <2>4
<1>7. processCount' \in Nat
  BY Unpacked
<1>8. /\ ready' \in Seq(Pcbs) /\ current' \in Pcbs \cup {NULL} /\ cpu' \in CpuStates
      /\ CpuAgrees' /\ Placed(ready', current', free, semq', semAdd)
  BY <1>1, <1>2, <1>6, <1>7, ResumeResult
<1>9. TypeOK'
  BY <1>6, <1>8, Unpacked DEF TypeOK
<1> QED BY <1>6, <1>8, <1>9, Unpacked, Packed

\* removeBlocked of the head of s's queue and its insertion in the ready queue.
LEMMA HeadReady ==
  ASSUME IInv, NEW s \in Sems, semq[s] # <<>>, semq' = [semq EXCEPT ![s] = Tail(@)],
         NEW h, h = Head(semq[s]), NEW r, r = ReadyWithHead(s)
  PROVE  /\ r \in Seq(Pcbs) /\ semq' \in [Sems -> Seq(Pcbs)]
         /\ Moved(ready, semq, s, {h}, r, semq')
<1>1. semq[s] \in Seq(Pcbs) /\ NoRepetition(semq[s]) /\ semq \in [Sems -> Seq(Pcbs)]
  BY Unpacked DEF Placed
<1>2. /\ h \in Pcbs /\ h \in Range(semq[s]) /\ Tail(semq[s]) \in Seq(Pcbs)
      /\ Range(semq[s]) = Range(Tail(semq[s])) \cup {h}
      /\ NoRepetition(Tail(semq[s])) /\ h \notin Range(Tail(semq[s]))
  BY <1>1, TailResult
<1>3. ready \in Seq(Pcbs) /\ NoRepetition(ready) /\ h \notin Range(ready)
  BY <1>2, Unpacked DEF Placed
<1>4. r = InsertProcQ(prio, ready, h)
  BY DEF ReadyWithHead
<1>5. r \in Seq(Pcbs) /\ Range(r) = Range(ready) \cup {h} /\ NoRepetition(r)
  BY ONLY <1>2, <1>3, <1>4, InsertResult
<1>6. semq'[s] = Tail(semq[s]) /\ semq' \in [Sems -> Seq(Pcbs)]
  BY <1>1, <1>2
<1> QED BY <1>1, <1>2, <1>5, <1>6 DEF Moved

\* VERHOGEN, whether or not it wakes a process.
LEMMA VerhogenStep ==
  ASSUME IInv, NEW s \in UserSems, Verhogen(s)
  PROVE  IInv'
<1>1. Running /\ s \in Sems /\ s \notin SoftSems
  BY SemsAssumption DEF Verhogen, Sems, SoftSems
<1>2. /\ sem' = [sem EXCEPT ![s] = @ + 1] /\ sem \in [Sems -> Int]
      /\ UNCHANGED <<current, free, parent, prio, support, semAdd>>
      /\ UNCHANGED <<processCount, softBlockCount, cpu, busy>>
  BY Unpacked DEF Verhogen
<1>3. sem' \in [Sems -> Int] /\ busy' \in SUBSET Devices
  BY <1>1, <1>2, Unpacked
<1>4. current # NULL
  BY <1>1, RunningLive, PcbsAssumption
<1>5. CASE UNCHANGED <<semq, ready>>
  <2>1. Resume(ready)
    BY <1>2, <1>4, <1>5 DEF Resume
  <2> QED BY <1>2, <1>3, <1>5, <2>1, RaiseStep
<1>6. CASE /\ semq[s] # <<>> /\ semq' = [semq EXCEPT ![s] = Tail(@)]
           /\ ready' = ReadyWithHead(s)
  <2> DEFINE h == Head(semq[s])
             r == ReadyWithHead(s)
  <2>1. Resume(r)
    BY <1>2, <1>4, <1>6 DEF Resume
  <2>2. h = Head(semq[s]) /\ r = ReadyWithHead(s)
    OBVIOUS
  <2> HIDE DEF h, r
  <2>3. /\ r \in Seq(Pcbs) /\ semq' \in [Sems -> Seq(Pcbs)]
        /\ Moved(ready, semq, s, {h}, r, semq')
    BY <1>1, <1>6, <2>2, HeadReady
  <2>4. softBlockCount' = softBlockCount - IF s \in SoftSems THEN Cardinality({h}) ELSE 0
    BY <1>1, <1>2, Unpacked
  <2> QED BY <1>1, <1>2, <1>3, <2>1, <2>3, <2>4, WakeStep
<1> QED BY <1>5, <1>6 DEF Verhogen

\* The completion of an operation, whether or not anybody waits for it.
LEMMA HandleDeviceStep ==
  ASSUME IInv, NEW d \in Devices, HandleDevice(d)
  PROVE  IInv'
<1>1. d \in Sems /\ d \in SoftSems
  BY DEF Sems, SoftSems
<1>2. /\ sem' = [sem EXCEPT ![d] = @ + 1] /\ sem \in [Sems -> Int]
      /\ busy' = busy \ {d} /\ busy \in SUBSET Devices
      /\ UNCHANGED processCount /\ UNCHANGED <<free, parent, prio, support, semAdd>>
  BY Unpacked DEF HandleDevice
<1>3. sem' \in [Sems -> Int] /\ busy' \in SUBSET Devices
  BY <1>1, <1>2
<1>4. CASE UNCHANGED <<semq, softBlockCount>> /\ Resume(ready)
  BY <1>2, <1>3, <1>4, RaiseStep
<1>5. CASE /\ semq[d] # <<>> /\ semq' = [semq EXCEPT ![d] = Tail(@)]
           /\ softBlockCount' = softBlockCount - 1 /\ Resume(ReadyWithHead(d))
  <2> DEFINE h == Head(semq[d])
             r == ReadyWithHead(d)
  <2>1. h = Head(semq[d]) /\ r = ReadyWithHead(d) /\ Resume(r)
    BY <1>5
  <2> HIDE DEF h, r
  <2>2. /\ r \in Seq(Pcbs) /\ semq' \in [Sems -> Seq(Pcbs)]
        /\ Moved(ready, semq, d, {h}, r, semq')
    BY <1>1, <1>5, <2>1, HeadReady
  <2>3. softBlockCount' = softBlockCount - IF d \in SoftSems THEN Cardinality({h}) ELSE 0
    BY <1>1, <1>5, FS_Singleton
  <2> QED BY <1>1, <1>2, <1>3, <2>1, <2>2, <2>3, WakeStep
<1> QED BY <1>4, <1>5 DEF HandleDevice

\* The pseudo-clock tick, which releases the waiters one by one.
LEMMA HandlePseudoClockStep ==
  ASSUME IInv, HandlePseudoClock
  PROVE  IInv'
<1>1. Clock \in Sems /\ Clock \in SoftSems
  BY DEF Sems, SoftSems
<1>2. /\ UNCHANGED processCount /\ UNCHANGED <<free, parent, prio, support, semAdd, busy>>
      /\ busy' \in SUBSET Devices /\ sem \in [Sems -> Int]
  BY Unpacked DEF HandlePseudoClock
<1>3. CASE UNCHANGED <<sem, semq, softBlockCount>> /\ Resume(ready)
  BY <1>2, <1>3, RaiseStep
<1>4. CASE /\ sem[Clock] < 0
           /\ sem' = [sem EXCEPT ![Clock] = 0]
           /\ semq' = [semq EXCEPT ![Clock] = SubSeq(@, Released + 1, Len(@))]
           /\ softBlockCount' = softBlockCount - Released
           /\ Resume(InsertEach(prio, ready, SubSeq(semq[Clock], 1, Released)))
  <2> DEFINE q == semq[Clock]
             n == Released
             w == SubSeq(q, 1, n)
             b == SubSeq(q, n + 1, Len(q))
             r == InsertEach(prio, ready, w)
             W == Range(w)
  <2>1. q \in Seq(Pcbs) /\ NoRepetition(q) /\ sem[Clock] \in Int
    BY <1>1, <1>2, Unpacked DEF Placed
  <2>2. n \in 0..Len(q)
    BY <1>4, <2>1 DEF Released
  <2>3. /\ w \in Seq(Pcbs) /\ Len(w) = n /\ b \in Seq(Pcbs)
        /\ Range(q) = W \cup Range(b)
        /\ NoRepetition(w) /\ NoRepetition(b) /\ W \cap Range(b) = {}
    <3> HIDE DEF n, q
    <3> QED BY <2>1, <2>2, CutResult
  <2>4. /\ Resume(r) /\ softBlockCount' = softBlockCount - n
        /\ semq' = [semq EXCEPT ![Clock] = b] /\ semq \in [Sems -> Seq(Pcbs)]
        /\ sem' \in [Sems -> Int]
    BY <1>1, <1>2, <1>4, Unpacked
  <2>5. r = InsertEach(prio, ready, w) /\ W = Range(w) /\ q = semq[Clock]
    OBVIOUS
  <2> HIDE DEF q, n, w, b, r, W
  <2>6. ready \in Seq(Pcbs) /\ NoRepetition(ready) /\ Range(ready) \cap W = {}
    BY <1>1, <2>3, <2>5, Unpacked DEF Placed
  <2>7. r \in Seq(Pcbs) /\ Range(r) = Range(ready) \cup W /\ NoRepetition(r)
    BY ONLY <2>3, <2>5, <2>6, InsertEachOfPcbs
  <2>8. semq' \in [Sems -> Seq(Pcbs)] /\ semq'[Clock] = b
    BY <1>1, <2>3, <2>4
  <2>9. Moved(ready, semq, Clock, W, r, semq')
    BY <1>1, <2>3, <2>4, <2>5, <2>7, <2>8 DEF Moved
  <2>10. Cardinality(W) = n
    BY <2>3, <2>5, QueueCardinality
  <2>11. softBlockCount' = softBlockCount - IF Clock \in SoftSems THEN Cardinality(W) ELSE 0
    BY <1>1, <2>4, <2>10
  <2> QED BY <1>1, <1>2, <2>4, <2>7, <2>8, <2>9, <2>11, WakeStep
<1> QED BY <1>3, <1>4 DEF HandlePseudoClock

----------------------------------------------------------------------------
(* The invariant and what follows from it *)

\* main() establishes the invariant.
LEMMA InitIInv == Init => IInv
<1> SUFFICES ASSUME Init PROVE IInv
  OBVIOUS
<1>1. /\ current \in Pcbs /\ ready = <<>> /\ free = Pcbs \ {current}
      /\ parent = [p \in Pcbs |-> NULL] /\ semq = [s \in Sems |-> <<>>]
      /\ processCount = 1 /\ softBlockCount = 0 /\ cpu = "running"
  BY DEF Init
<1>2. NULL \notin Pcbs
  BY PcbsAssumption
<1>3. Range(<<>>) = {} /\ NoRepetition(<<>>)
  BY DEF Range, NoRepetition
<1>4. TypeOK
  <2>1. sem \in [Sems -> Int]
    BY MaxSemAssumption DEF Init
  <2>2. /\ prio \in [Pcbs -> Prios] /\ support \in [Pcbs -> BOOLEAN]
        /\ semAdd \in [Pcbs -> Sems \cup {NULL}] /\ busy \in SUBSET Devices
    BY PriosAssumption DEF Init
  <2>3. semq \in [Sems -> Seq(Pcbs)] /\ ready \in Seq(Pcbs)
    BY <1>1
  <2> QED BY <1>1, <2>1, <2>2, <2>3 DEF TypeOK, CpuStates
<1>5. OnePlace
  BY <1>1, <1>2, <1>3 DEF OnePlace, Live
<1>6. CountersExact
  <2>1. Live = {current}
    BY <1>1 DEF Live
  <2>2. Waiters(SoftSems) = {}
    BY <1>1, <1>3 DEF Waiters, SoftSems, Sems
  <2> QED BY <1>1, <2>1, <2>2, FS_Singleton, FS_EmptySet DEF CountersExact
<1>7. FamilyTree
  <2>1. Live = {current}
    BY <1>1 DEF Live
  <2>2. {current} \in SUBSET Pcbs /\ ClosedUnder(parent, {current})
    BY <1>1, <1>2 DEF ClosedUnder
  <2>3. current \in Below(parent, current) /\ Below(parent, current) \subseteq {current}
    BY <1>1, <2>2, BelowResult
  <2>4. Subtree(current) = Live
    BY <2>1, <2>3, FamilyTreeIsOneTree
  <2> QED BY <1>1, <1>2, <2>1, <2>4 DEF FamilyTree
<1>8. CpuAgrees
  BY <1>1, <1>2 DEF CpuAgrees
<1> QED BY <1>4, <1>5, <1>6, <1>7, <1>8 DEF IInv

\* Every handler keeps the invariant.
LEMMA NextIInv == IInv /\ [Next]_vars => IInv'
<1> SUFFICES ASSUME IInv, [Next]_vars PROVE IInv'
  OBVIOUS
<1>1. CASE CreateProcess
  BY <1>1, CreateProcessStep
<1>2. CASE TerminateProcess
  BY <1>2, TerminateProcessStep
<1>3. CASE \E s \in UserSems : Passeren(s)
  BY <1>3, PasserenStep
<1>4. CASE \E s \in UserSems : Verhogen(s)
  BY <1>4, VerhogenStep
<1>5. CASE \E d \in Devices : DoIO(d)
  BY <1>5, DoIOStep
<1>6. CASE WaitForClock
  BY <1>6, WaitForClockStep
<1>7. CASE PassUpOrDie
  BY <1>7, PassUpOrDieStep
<1>8. CASE Yield
  BY <1>8, YieldStep
<1>9. CASE HandlePLT
  BY <1>9, HandlePLTStep
<1>10. CASE HandlePseudoClock
  BY <1>10, HandlePseudoClockStep
<1>11. CASE \E d \in Devices : HandleDevice(d)
  BY <1>11, HandleDeviceStep
<1>12. CASE Stopped \/ UNCHANGED vars
  BY <1>12, StutterStep DEF Stopped
<1> QED BY <1>1, <1>2, <1>3, <1>4, <1>5, <1>6, <1>7, <1>8, <1>9, <1>10, <1>11, <1>12
        DEF Next, Call, Interrupt

\* The invariant holds in every state the nucleus reaches.
THEOREM Invariance == Spec => []IInv
BY InitIInv, NextIInv, PTL DEF Spec

\* The variables keep their types; in particular neither counter goes below
\* zero, whatever is terminated and whatever completes.
THEOREM TypeCorrect == Spec => []TypeOK
<1>1. IInv => TypeOK
  BY DEF IInv
<1> QED BY <1>1, Invariance, PTL

\* While a process runs there is a free semaphore descriptor: insertBlocked,
\* whose result PASSEREN, DOIO and CLOCKWAIT ignore, never refuses a caller.
THEOREM PoolSuffices == Spec => [](current # NULL => Cardinality(Active) < SemdPool)
<1>1. IInv => (current # NULL => Cardinality(Active) < SemdPool)
  BY AslNeverFull DEF IInv
<1> QED BY <1>1, Invariance, PTL

\* No PCB is ever lost, or in two of the lists that share its links.
THEOREM PcbInOnePlace == Spec => []OnePlace
<1>1. IInv => OnePlace
  BY DEF IInv
<1> QED BY <1>1, Invariance, PTL

\* The counters that decide between HALT, PANIC and WAIT are exact.
THEOREM CountersAreExact == Spec => []CountersExact
<1>1. IInv => CountersExact
  BY DEF IInv
<1> QED BY <1>1, Invariance, PTL

\* The processes alive are always one tree.
THEOREM ProcessesAreATree == Spec => []FamilyTree
<1>1. IInv => FamilyTree
  BY DEF IInv
<1> QED BY <1>1, Invariance, PTL

\* Whenever the processor is not running the processes explain why.
LEMMA StopsFollow == IInv => StopJustified
<1> SUFFICES ASSUME IInv PROVE StopJustified
  OBVIOUS
<1>1. /\ processCount \in Nat /\ softBlockCount \in Nat /\ CpuAgrees
      /\ cpu \in CpuStates /\ semq \in [Sems -> Seq(Pcbs)] /\ free \in SUBSET Pcbs
  BY Unpacked
<1>2. processCount = Cardinality(Live) /\ softBlockCount = Cardinality(Waiters(SoftSems))
  BY DEF IInv, CountersExact
<1>3. IsFiniteSet(Live) /\ IsFiniteSet(Waiters(SoftSems))
  <2>1. SoftSems \in SUBSET Sems
    BY DEF SoftSems, Sems
  <2>2. Waiters(SoftSems) = In(semq, SoftSems)
    BY DEF Waiters, In
  <2> QED BY <1>1, <2>1, <2>2, WaitersFinite, PcbsAssumption, FS_Subset DEF Live
<1>4. /\ processCount = 0 <=> Live = {}
      /\ softBlockCount = 0 <=> Waiters(SoftSems) = {}
  BY <1>2, <1>3, FS_EmptySet
<1>5. CASE cpu = "running"
  <2>1. current # NULL /\ current \in Live
    BY <1>5, RunningLive DEF IInv, CpuAgrees, Running
  <2> QED BY <1>5, <2>1 DEF StopJustified
<1>6. CASE cpu # "running"
  <2>1. current = NULL /\ ready = <<>> /\ cpu = IdleState(processCount, softBlockCount)
    BY <1>1, <1>6 DEF CpuAgrees
  <2>2. /\ cpu = "halted" <=> processCount = 0
        /\ cpu = "panic" => processCount > 0 /\ softBlockCount = 0
        /\ cpu = "waiting" => softBlockCount > 0
        /\ cpu # "spin"
    BY <1>1, <2>1 DEF IdleState
  <2>3. ASSUME cpu = "panic" PROVE Live = Waiters(UserSems)
    <3>1. Waiters(SoftSems) = {}
      BY <1>4, <2>2, <2>3
    <3>2. Waiters(Sems) = Waiters(UserSems)
      BY <3>1 DEF Waiters, Sems, SoftSems
    <3>3. Range(ready) = {} /\ NULL \notin Live
      BY <2>1, PcbsAssumption DEF Range, Live
    <3>4. Live \subseteq Waiters(Sems)
      BY <2>1, <3>3 DEF IInv, OnePlace
    <3>5. Waiters(UserSems) \subseteq Live
      <4>1. \A s \in UserSems : Range(semq[s]) \subseteq Pcbs /\ Range(semq[s]) \cap free = {}
        BY <1>1, RangeOfSeq DEF IInv, OnePlace, Sems
      <4> QED BY <4>1 DEF Waiters, Live
    <3> QED BY <3>2, <3>4, <3>5
  <2> QED BY <1>4, <1>6, <2>1, <2>2, <2>3 DEF StopJustified
<1> QED BY <1>5, <1>6

\* The processor stops, panics and waits only when it should, and scheduler()
\* never falls through its three tests into an endless loop.
THEOREM StopsAreJustified == Spec => []StopJustified
BY StopsFollow, Invariance, PTL
============================================================================
