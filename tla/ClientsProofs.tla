--------------------------- MODULE ClientsProofs ---------------------------
(***************************************************************************)
(* The semaphores of the nucleus: their values agree with their queues,    *)
(* through every call, interrupt and termination, and nobody is overtaken  *)
(* in a queue.  And invariants under a discipline of the clients: the      *)
(* ready queue is ordered when nobody calls YIELD; devices and their       *)
(* waiters agree, and WAIT has an end, when working devices are left       *)
(* alone.                                                                  *)
(***************************************************************************)
EXTENDS Clients, NucleusProofs

----------------------------------------------------------------------------
(* Values and queues *)

\* SemaphoreAgrees of one semaphore s, of value v, with n processes waiting.
Right(s, v, n) ==
  /\ s \in UserSems \cup {Clock} => n = IF v < 0 THEN -v ELSE 0
  /\ s = Clock => v <= 0
  /\ s \in Devices => v + n >= 0

\* SemaphoreAgrees says Right of every semaphore, now and in the next state.
LEMMA AgreesEach ==
  /\ SemaphoreAgrees <=> \A s \in Sems : Right(s, sem[s], Len(semq[s]))
  /\ SemaphoreAgrees' <=> \A s \in Sems : Right(s, sem'[s], Len(semq'[s]))
<1>1. SemaphoreAgrees <=> \A s \in Sems : Right(s, sem[s], Len(semq[s]))
  BY DEF SemaphoreAgrees, Right, Drift, Sems
<1>2. SemaphoreAgrees' <=> \A s \in Sems : Right(s, sem'[s], Len(semq'[s]))
  BY DEF SemaphoreAgrees, Right, Drift, Sems
<1> QED BY <1>1, <1>2

\* A step that gives one semaphore the value v and the queue q.
LEMMA OneChanged ==
  ASSUME IInv, SemaphoreAgrees, NEW s \in Sems, NEW v, NEW q,
         sem' = [sem EXCEPT ![s] = v], semq' = [semq EXCEPT ![s] = q],
         Right(s, v, Len(q))
  PROVE  SemaphoreAgrees'
<1>1. sem \in [Sems -> Int] /\ semq \in [Sems -> Seq(Pcbs)]
  BY Unpacked
<1>2. \A t \in Sems : Right(t, sem[t], Len(semq[t]))
  BY AgreesEach
<1>3. ASSUME NEW t \in Sems PROVE Right(t, sem'[t], Len(semq'[t]))
  <2>1. CASE t = s
    BY <1>1, <2>1
  <2>2. CASE t # s
    <3>1. sem'[t] = sem[t] /\ semq'[t] = semq[t]
      BY <1>1, <2>2
    <3> QED BY <1>2, <3>1
  <2> QED BY <2>1, <2>2
<1> QED BY <1>3, AgreesEach

\* A step that leaves values and queues alone.
LEMMA NoneChanged ==
  ASSUME SemaphoreAgrees, UNCHANGED <<sem, semq>>
  PROVE  SemaphoreAgrees'
BY DEF SemaphoreAgrees, Drift

\* terminateProcessTree gives each semaphore as many units as it takes waiters.
LEMMA KillAgrees ==
  ASSUME IInv, SemaphoreAgrees, NEW t \in Live, Kill(Subtree(t))
  PROVE  SemaphoreAgrees'
<1> DEFINE K == Subtree(t)
<1>1. /\ sem \in [Sems -> Int] /\ semq \in [Sems -> Seq(Pcbs)] /\ free \in SUBSET Pcbs
      /\ Placed(ready, current, free, semq, semAdd) /\ OneTree(parent, free)
  BY Unpacked
<1>2. K \subseteq Live
  <2>1. t \in Pcbs \ free /\ Subtree(t) = Below(parent, t)
    BY FamilyTreeIsOneTree DEF Live
  <2>2. Below(parent, t) \subseteq Pcbs \ free
    BY <1>1, <2>1, LiveClosed
  <2> QED BY <2>1, <2>2 DEF Live
<1>3. /\ sem' = [s \in Sems |-> sem[s] + Refund(K, s)]
      /\ semq' = [s \in Sems |-> Without(semq[s], BlockedIn(K, s))]
  BY DEF Kill
<1> HIDE DEF K
<1>4. \A s \in Sems : BlockedIn(K, s) = K \cap Range(semq[s])
  BY <1>2, BlockedAreWaiters
<1>5. ASSUME NEW s \in Sems PROVE Right(s, sem'[s], Len(semq'[s]))
  <2> DEFINE q == semq[s]
             B == BlockedIn(K, s)
             q2 == Without(q, B)
             v == sem[s]
             n == Cardinality(B)
  <2>1. q \in Seq(Pcbs) /\ NoRepetition(q) /\ v \in Int /\ Right(s, v, Len(q))
    BY <1>1, AgreesEach DEF Placed
  <2>2. sem'[s] = v + n /\ semq'[s] = q2
    BY <1>3 DEF Refund
  <2>3. B = K \cap Range(q)
    BY <1>4
  <2>4. q2 = Without(q, B) /\ n = Cardinality(B)
    OBVIOUS
  <2> HIDE DEF q, B, q2, v, n
  <2>5. q2 \in Seq(Pcbs) /\ Range(q2) = Range(q) \ B /\ NoRepetition(q2)
    BY <2>1, <2>4, WithoutResult
  <2>6. IsFiniteSet(Range(q)) /\ Cardinality(Range(q)) = Len(q)
    BY <2>1, QueueCardinality
  <2>7. Cardinality(Range(q2)) = Len(q2)
    BY <2>5, QueueCardinality
  <2>8. Cardinality(Range(q) \ B) = Cardinality(Range(q)) - Cardinality(Range(q) \cap B)
    BY <2>6, FS_Difference
  <2>9. Range(q) \cap B = B /\ IsFiniteSet(B)
    BY <2>3, <2>6, FS_Subset
  <2>10. Len(q2) = Len(q) - n
    BY <2>4, <2>5, <2>6, <2>7, <2>8, <2>9
  <2>11. n \in Nat /\ Len(q2) \in Nat /\ Len(q) \in Nat
    BY <2>1, <2>4, <2>5, <2>9, FS_CardinalityType, LenProperties
  <2>12. Right(s, v + n, Len(q2))
    BY <2>1, <2>10, <2>11, SemsAssumption DEF Right
  <2> QED BY <2>2, <2>12
<1> QED BY <1>5, AgreesEach

\* The running process joins the tail of s's queue: insertBlocked finds room.
LEMMA BlockAppends ==
  ASSUME IInv, Running, NEW s \in Sems, InsertBlocked(s, current)
  PROVE  /\ semq' = [semq EXCEPT ![s] = Append(semq[s], current)]
         /\ Len(Append(semq[s], current)) = Len(semq[s]) + 1
<1>1. current \in Pcbs /\ current # NULL
  BY RunningLive, PcbsAssumption
<1>2. Cardinality(Active) < SemdPool /\ IsFiniteSet(Active)
  BY <1>1, AslNeverFull DEF IInv
<1>3. Cardinality(Active) \in Nat /\ SemdPool \in Nat
  BY <1>2, PcbsAssumption, FS_CardinalityType DEF SemdPool
<1>4. semq[s] \in Seq(Pcbs)
  BY Unpacked
<1>5. Len(Append(semq[s], current)) = Len(semq[s]) + 1
  BY <1>1, <1>4, AppendResult
<1> QED BY <1>2, <1>3, <1>5 DEF InsertBlocked

\* The value, the length and the rightness of one semaphore of this state.
LEMMA OneRight ==
  ASSUME IInv, SemaphoreAgrees, NEW s \in Sems
  PROVE  /\ sem[s] \in Int /\ semq[s] \in Seq(Pcbs) /\ Len(semq[s]) \in Nat
         /\ semq = [semq EXCEPT ![s] = semq[s]]
         /\ Right(s, sem[s], Len(semq[s]))
<1>1. sem \in [Sems -> Int] /\ semq \in [Sems -> Seq(Pcbs)]
  BY Unpacked
<1>2. semq[s] \in Seq(Pcbs)
  BY <1>1
<1>3. Len(semq[s]) \in Nat
  BY <1>2, LenProperties
<1> QED BY <1>1, <1>2, <1>3, AgreesEach

\* The tail of a queue that is not empty is one shorter.
LEMMA TailShorter ==
  ASSUME IInv, NEW s \in Sems, semq[s] # <<>>
  PROVE  Len(Tail(semq[s])) = Len(semq[s]) - 1 /\ Len(semq[s]) > 0
<1>1. semq[s] \in Seq(Pcbs)
  BY Unpacked
<1> QED BY <1>1, TailResult, EmptySeq, LenProperties

\* PASSEREN.
LEMMA PasserenAgrees ==
  ASSUME IInv, SemaphoreAgrees, NEW s \in UserSems, Passeren(s)
  PROVE  SemaphoreAgrees'
<1> DEFINE v == sem[s]
           n == Len(semq[s])
<1>1. s \in Sems /\ s \notin Devices /\ s # Clock
  BY SemsAssumption DEF Sems
<1>2. v \in Int /\ n \in Nat /\ Right(s, v, n) /\ semq = [semq EXCEPT ![s] = semq[s]]
  BY <1>1, OneRight
<1>3. sem' = [sem EXCEPT ![s] = v - 1] /\ Running /\ sem'[s] = v - 1
  BY <1>1, Unpacked DEF Passeren
<1>4. CASE sem'[s] >= 0 /\ semq' = semq
  <2>1. Right(s, v - 1, n)
    BY <1>1, <1>2, <1>3, <1>4 DEF Right
  <2>2. semq' = [semq EXCEPT ![s] = semq[s]]
    BY <1>2, <1>4
  <2> QED BY <1>1, <1>3, <2>1, <2>2, OneChanged
<1>5. CASE sem'[s] < 0 /\ InsertBlocked(s, current)
  <2> DEFINE q == Append(semq[s], current)
  <2>1. semq' = [semq EXCEPT ![s] = q] /\ Len(q) = n + 1
    BY <1>1, <1>3, <1>5, BlockAppends
  <2>2. Right(s, v - 1, n + 1)
    BY <1>1, <1>2, <1>3, <1>5 DEF Right
  <2> QED BY <1>1, <1>3, <2>1, <2>2, OneChanged
<1> QED BY <1>4, <1>5 DEF Passeren

\* DOIO and CLOCKWAIT.
LEMMA SoftBlockAgrees ==
  ASSUME IInv, SemaphoreAgrees, Running, NEW s \in SoftSems, SoftBlock(s)
  PROVE  SemaphoreAgrees'
<1> DEFINE v == sem[s]
           n == Len(semq[s])
           q == Append(semq[s], current)
<1>1. s \in Sems /\ s \notin UserSems
  BY SemsAssumption DEF Sems, SoftSems
<1>2. v \in Int /\ n \in Nat /\ Right(s, v, n)
  BY <1>1, OneRight
<1>3. sem' = [sem EXCEPT ![s] = v - 1] /\ InsertBlocked(s, current)
  BY DEF SoftBlock
<1>4. semq' = [semq EXCEPT ![s] = q] /\ Len(q) = n + 1
  BY <1>1, <1>3, BlockAppends
<1>5. Right(s, v - 1, n + 1)
  BY <1>1, <1>2 DEF Right
<1> QED BY <1>1, <1>3, <1>4, <1>5, OneChanged

\* VERHOGEN.
LEMMA VerhogenAgrees ==
  ASSUME IInv, SemaphoreAgrees, NEW s \in UserSems, Verhogen(s)
  PROVE  SemaphoreAgrees'
<1> DEFINE v == sem[s]
           n == Len(semq[s])
<1>1. s \in Sems /\ s \notin Devices /\ s # Clock
  BY SemsAssumption DEF Sems
<1>2. v \in Int /\ n \in Nat /\ Right(s, v, n) /\ semq = [semq EXCEPT ![s] = semq[s]]
  BY <1>1, OneRight
<1>3. sem' = [sem EXCEPT ![s] = v + 1] /\ sem'[s] = v + 1
  BY <1>1, Unpacked DEF Verhogen
<1>4. CASE sem'[s] <= 0 /\ semq[s] # <<>> /\ semq' = [semq EXCEPT ![s] = Tail(@)]
  <2> DEFINE q == Tail(semq[s])
  <2>1. semq' = [semq EXCEPT ![s] = q] /\ Len(q) = n - 1 /\ n > 0
    BY <1>1, <1>4, TailShorter
  <2>2. Right(s, v + 1, n - 1)
    BY <1>1, <1>2, <1>3, <1>4, <2>1 DEF Right
  <2> QED BY <1>1, <1>3, <2>1, <2>2, OneChanged
<1>5. CASE (sem'[s] > 0 \/ semq[s] = <<>>) /\ semq' = semq
  <2>1. v >= 0 /\ n = 0
    <3>1. semq[s] = <<>> => n = 0
      OBVIOUS
    <3>2. n = IF v < 0 THEN -v ELSE 0
      BY <1>2 DEF Right
    <3> QED BY <1>2, <1>3, <1>5, <3>1, <3>2
  <2>2. Right(s, v + 1, n)
    BY <1>1, <1>2, <2>1 DEF Right
  <2>3. semq' = [semq EXCEPT ![s] = semq[s]]
    BY <1>2, <1>5
  <2> QED BY <1>1, <1>3, <2>2, <2>3, OneChanged
<1> QED BY <1>4, <1>5 DEF Verhogen

\* The completion of an operation.
LEMMA HandleDeviceAgrees ==
  ASSUME IInv, SemaphoreAgrees, NEW d \in Devices, HandleDevice(d)
  PROVE  SemaphoreAgrees'
<1> DEFINE v == sem[d]
           n == Len(semq[d])
<1>1. d \in Sems /\ d \notin UserSems \cup {Clock}
  BY SemsAssumption DEF Sems
<1>2. v \in Int /\ n \in Nat /\ Right(d, v, n) /\ semq = [semq EXCEPT ![d] = semq[d]]
  BY <1>1, OneRight
<1>3. sem' = [sem EXCEPT ![d] = v + 1]
  BY DEF HandleDevice
<1>4. CASE semq[d] # <<>> /\ semq' = [semq EXCEPT ![d] = Tail(@)]
  <2> DEFINE q == Tail(semq[d])
  <2>1. semq' = [semq EXCEPT ![d] = q] /\ Len(q) = n - 1
    BY <1>1, <1>4, TailShorter
  <2>2. Right(d, v + 1, n - 1)
    BY <1>1, <1>2 DEF Right
  <2> QED BY <1>1, <1>3, <2>1, <2>2, OneChanged
<1>5. CASE semq' = semq
  <2>1. Right(d, v + 1, n)
    BY <1>1, <1>2 DEF Right
  <2>2. semq' = [semq EXCEPT ![d] = semq[d]]
    BY <1>2, <1>5
  <2> QED BY <1>1, <1>3, <2>1, <2>2, OneChanged
<1> QED BY <1>4, <1>5 DEF HandleDevice

\* The pseudo-clock tick leaves nobody waiting.
LEMMA HandlePseudoClockAgrees ==
  ASSUME IInv, SemaphoreAgrees, HandlePseudoClock
  PROVE  SemaphoreAgrees'
<1>1. Clock \in Sems /\ Clock \notin Devices
  BY SemsAssumption DEF Sems
<1>2. CASE UNCHANGED <<sem, semq>>
  BY <1>2, NoneChanged
<1>3. CASE /\ sem[Clock] < 0
           /\ sem' = [sem EXCEPT ![Clock] = 0]
           /\ semq' = [semq EXCEPT ![Clock] = SubSeq(@, Released + 1, Len(@))]
  <2> DEFINE q == semq[Clock]
             b == SubSeq(q, Released + 1, Len(q))
  <2>1. sem[Clock] \in Int /\ q \in Seq(Pcbs) /\ Len(q) \in Nat
        /\ Right(Clock, sem[Clock], Len(q))
    BY <1>1, OneRight
  <2>2. Len(q) = -sem[Clock]
    BY <1>3, <2>1 DEF Right
  <2>3. Released = Len(q)
    BY <2>1, <2>2 DEF Released
  <2>4. Len(b) = 0
    <3> DEFINE n == Released
    <3>1. n \in 0..Len(q) /\ n = Len(q)
      BY <2>1, <2>3
    <3> HIDE DEF n, q
    <3>2. Len(SubSeq(q, n + 1, Len(q))) = Len(q) - n
      BY <2>1, <3>1, CutResult
    <3> QED BY <2>1, <3>1, <3>2 DEF n
  <2>5. semq' = [semq EXCEPT ![Clock] = b]
    BY <1>3
  <2> HIDE DEF q, b
  <2>6. Right(Clock, 0, Len(b))
    BY <1>1, <2>4 DEF Right
  <2> QED BY <1>1, <1>3, <2>5, <2>6, OneChanged
<1> QED BY <1>2, <1>3 DEF HandlePseudoClock

\* Every handler keeps values and queues in agreement.
LEMMA NextAgrees == IInv /\ SemaphoreAgrees /\ [Next]_vars => SemaphoreAgrees'
<1> SUFFICES ASSUME IInv, SemaphoreAgrees, [Next]_vars PROVE SemaphoreAgrees'
  OBVIOUS
<1>1. CASE CreateProcess
  BY <1>1, NoneChanged DEF CreateProcess, vars
<1>2. CASE TerminateProcess
  <2>1. Subtree(Root(current)) \subseteq Live
    BY <1>2, TargetsLive DEF TerminateProcess
  <2>2. UNCHANGED vars \/ \E t \in Live : Kill(Subtree(t))
    BY <1>2, <2>1 DEF TerminateProcess, Terminate
  <2> QED BY <2>2, KillAgrees, NoneChanged DEF vars
<1>3. CASE \E s \in UserSems : Passeren(s)
  BY <1>3, PasserenAgrees
<1>4. CASE \E s \in UserSems : Verhogen(s)
  BY <1>4, VerhogenAgrees
<1>5. CASE \E d \in Devices : DoIO(d)
  BY <1>5, SoftBlockAgrees DEF DoIO, SoftSems
<1>6. CASE WaitForClock
  BY <1>6, SoftBlockAgrees DEF WaitForClock, SoftSems
<1>7. CASE PassUpOrDie
  <2>1. current \in Live
    BY <1>7, RunningLive DEF PassUpOrDie
  <2>2. UNCHANGED vars \/ Kill(Subtree(current))
    BY <1>7 DEF PassUpOrDie
  <2> QED BY <2>1, <2>2, KillAgrees, NoneChanged DEF vars
<1>8. CASE Yield \/ HandlePLT \/ Stopped \/ UNCHANGED vars
  BY <1>8, NoneChanged DEF Yield, HandlePLT, Stopped, vars
<1>9. CASE HandlePseudoClock
  BY <1>9, HandlePseudoClockAgrees
<1>10. CASE \E d \in Devices : HandleDevice(d)
  BY <1>10, HandleDeviceAgrees
<1> QED BY <1>1, <1>2, <1>3, <1>4, <1>5, <1>6, <1>7, <1>8, <1>9, <1>10
        DEF Next, Call, Interrupt

\* main() starts with empty queues and no negative value.
LEMMA InitAgrees == Init => SemaphoreAgrees
<1> SUFFICES ASSUME Init PROVE SemaphoreAgrees
  OBVIOUS
<1>1. ASSUME NEW s \in Sems PROVE Right(s, sem[s], Len(semq[s]))
  <2>1. semq[s] = <<>> /\ sem[s] \in 0..MaxSem /\ (s \in SoftSems => sem[s] = 0)
    BY DEF Init
  <2>2. Len(<<>>) = 0
    OBVIOUS
  <2> QED BY <2>1, <2>2, MaxSemAssumption DEF Right, SoftSems
<1> QED BY <1>1, AgreesEach

\* A negative value is the number of waiters of a process semaphore or of the
\* clock, and whoever the value of a device counts is in its queue, even after
\* processes were terminated while they waited.
THEOREM SemaphoresAgree == Spec => []SemaphoreAgrees
<1>1. Init => IInv /\ SemaphoreAgrees
  BY InitIInv, InitAgrees
<1>2. IInv /\ SemaphoreAgrees /\ [Next]_vars => (IInv /\ SemaphoreAgrees)'
  BY NextIInv, NextAgrees
<1> QED BY <1>1, <1>2, PTL DEF Spec

----------------------------------------------------------------------------
(* First come, first served *)

\* NoOvertaking of one semaphore, whose queue q becomes r while the processes
\* of F are freed.
Fair(q, r, F) ==
  \A p \in Range(q) \cap Range(r) :
    /\ Ahead(p, r) \subseteq Ahead(p, q)
    /\ Range(q) \ (Range(r) \cup F) \subseteq Ahead(p, q)

\* A queue that keeps its order overtakes nobody.
LEMMA KeepsAhead ==
  ASSUME NEW q, NEW r, Len(q) \in Nat, Keeps(r, q), NEW p
  PROVE  Ahead(p, r) \subseteq Ahead(p, q)
<1> SUFFICES ASSUME NEW x \in Ahead(p, r) PROVE x \in Ahead(p, q)
  OBVIOUS
<1>1. PICK i \in 1..Len(r) : x = r[i] /\ \E j \in i+1..Len(r) : r[j] = p
  BY DEF Ahead
<1>2. PICK j \in i+1..Len(r) : r[j] = p
  BY <1>1
<1>3. j \in 1..Len(r) /\ i < j
  BY <1>1, <1>2
<1>4. PICK k \in 1..Len(q), l \in 1..Len(q) : k < l /\ q[k] = r[i] /\ q[l] = r[j]
  BY <1>3 DEF Keeps
<1>5. l \in k+1..Len(q)
  BY <1>4
<1> QED BY <1>1, <1>2, <1>4, <1>5 DEF Ahead

\* A queue that does not change.
LEMMA SameFair == ASSUME NEW q, NEW F PROVE Fair(q, q, F)
BY DEF Fair

\* A process of the queue in none of its last places.
LEMMA AppendFair ==
  ASSUME NEW q \in Seq(Pcbs), NEW c \in Pcbs, c \notin Range(q), NEW F
  PROVE  Fair(q, Append(q, c), F)
<1> DEFINE r == Append(q, c)
<1>1. /\ Len(q) \in Nat /\ Len(r) = Len(q) + 1 /\ r[Len(q)+1] = c
      /\ \A i \in 1..Len(q) : r[i] = q[i]
  BY AppendProperties, LenProperties
<1>2. Range(r) = Range(q) \cup {c}
  BY AppendResult
<1> HIDE DEF r
<1>3. ASSUME NEW p \in Range(q), NEW x \in Ahead(p, r) PROVE x \in Ahead(p, q)
  <2>1. PICK i \in 1..Len(r) : x = r[i] /\ \E j \in i+1..Len(r) : r[j] = p
    BY DEF Ahead
  <2>2. PICK j \in i+1..Len(r) : r[j] = p
    BY <2>1
  <2>3. j # Len(q) + 1
    BY <1>1, <2>2
  <2>4. j \in i+1..Len(q) /\ j \in 1..Len(q) /\ i \in 1..Len(q)
    BY <1>1, <2>1, <2>2, <2>3
  <2> QED BY <1>1, <2>1, <2>2, <2>4 DEF Ahead
<1> QED BY <1>2, <1>3 DEF Fair, r

\* r is q without its first n processes.
Rest(r, q, n) ==
  Len(r) = Len(q) - n /\ \A i \in 1..Len(r) : r[i] = q[i+n]

\* Those that leave were in front of those that stay.
LEMMA RestFair ==
  ASSUME NEW q \in Seq(Pcbs), NEW r \in Seq(Pcbs), NEW n \in 0..Len(q),
         Rest(r, q, n), NEW F
  PROVE  Fair(q, r, F)
<1>1. /\ Len(q) \in Nat /\ Len(r) \in Nat /\ Len(r) = Len(q) - n /\ n \in Nat
      /\ \A i \in 1..Len(r) : r[i] = q[i+n] /\ i+n \in 1..Len(q)
  BY LenProperties DEF Rest
<1>2. Range(q) = {q[i] : i \in 1..Len(q)} /\ Range(r) = {r[i] : i \in 1..Len(r)}
  BY RangeEquality
<1>3. Keeps(r, q)
  <2>1. ASSUME NEW i \in 1..Len(r), NEW j \in 1..Len(r), i < j
        PROVE  \E k, l \in 1..Len(q) : k < l /\ q[k] = r[i] /\ q[l] = r[j]
    <3>1. /\ i+n \in 1..Len(q) /\ j+n \in 1..Len(q) /\ i+n < j+n
          /\ q[i+n] = r[i] /\ q[j+n] = r[j]
      BY <1>1, <2>1
    <3> QED BY <3>1
  <2> QED BY <2>1 DEF Keeps
<1>4. ASSUME NEW p \in Range(r), NEW x \in Range(q), x \notin Range(r)
      PROVE  x \in Ahead(p, q)
  <2>1. PICK i \in 1..Len(q) : x = q[i]
    BY <1>2
  <2>2. PICK j \in 1..Len(r) : p = r[j]
    BY <1>2
  <2>3. i <= n
    <3>1. SUFFICES ASSUME i > n PROVE FALSE
      BY <1>1, <2>1
    <3>2. i-n \in 1..Len(r) /\ (i-n)+n = i
      BY <1>1, <2>1, <3>1
    <3>3. r[i-n] = q[i]
      BY <1>1, <3>2
    <3> QED BY <1>2, <1>4, <2>1, <3>2, <3>3
  <2>4. j+n \in i+1..Len(q) /\ q[j+n] = p
    BY <1>1, <2>1, <2>2, <2>3
  <2> QED BY <2>1, <2>4 DEF Ahead
<1> QED BY <1>1, <1>3, <1>4, KeepsAhead DEF Fair

\* Waking the first waiter.
LEMMA TailFair ==
  ASSUME NEW q \in Seq(Pcbs), q # <<>>, NEW F
  PROVE  Fair(q, Tail(q), F)
<1>1. /\ Len(q) \in Nat /\ Len(q) # 0 /\ Tail(q) \in Seq(Pcbs)
      /\ Len(Tail(q)) = Len(q) - 1
      /\ \A i \in 1..Len(Tail(q)) : Tail(q)[i] = q[i+1]
  BY HeadTailProperties, LenProperties, EmptySeq
<1>2. Rest(Tail(q), q, 1) /\ 1 \in 0..Len(q)
  BY <1>1 DEF Rest
<1> QED BY <1>1, <1>2, RestFair

\* Terminating some of the waiters.
LEMMA WithoutFair ==
  ASSUME NEW q \in Seq(Pcbs), NEW B, NEW F, B \subseteq F
  PROVE  Fair(q, Without(q, B), F)
<1>1. Range(Without(q, B)) = Range(q) \ B
  BY WithoutResult
<1>2. Keeps(Without(q, B), q)
  BY WithoutKeeps
<1>3. Len(q) \in Nat
  BY LenProperties
<1> QED BY <1>1, <1>2, <1>3, KeepsAhead DEF Fair

\* A step that changes the queue of one semaphore.
LEMMA OneFair ==
  ASSUME IInv, NEW s \in Sems, NEW r, semq' = [semq EXCEPT ![s] = r],
         Fair(semq[s], r, free')
  PROVE  \A t \in Sems : Fair(semq[t], semq'[t], free')
<1>1. semq \in [Sems -> Seq(Pcbs)]
  BY Unpacked
<1>2. ASSUME NEW t \in Sems PROVE Fair(semq[t], semq'[t], free')
  <2>1. CASE t = s
    <3>1. semq'[t] = r
      BY <1>1, <2>1
    <3> QED BY <2>1, <3>1
  <2>2. CASE t # s
    <3>1. semq'[t] = semq[t]
      BY <1>1, <2>2
    <3> QED BY <3>1, SameFair
  <2> QED BY <2>1, <2>2
<1> QED BY <1>2

\* The running process blocks: it was in no queue.
LEMMA BlockFair ==
  ASSUME IInv, Running, NEW s \in Sems, InsertBlocked(s, current)
  PROVE  \A t \in Sems : Fair(semq[t], semq'[t], free')
<1>1. semq[s] \in Seq(Pcbs) /\ current \in Pcbs
  BY Unpacked, RunningLive
<1>2. current \notin Range(semq[s])
  BY Unpacked DEF Placed
<1>3. Fair(semq[s], Append(semq[s], current), free')
  BY <1>1, <1>2, AppendFair
<1>4. semq' = [semq EXCEPT ![s] = Append(semq[s], current)]
  BY BlockAppends
<1> QED BY <1>3, <1>4, OneFair

\* The first waiter is woken.
LEMMA WakeFair ==
  ASSUME IInv, NEW s \in Sems, semq[s] # <<>>, semq' = [semq EXCEPT ![s] = Tail(semq[s])]
  PROVE  \A t \in Sems : Fair(semq[t], semq'[t], free')
<1>1. semq[s] \in Seq(Pcbs)
  BY Unpacked
<1>2. Fair(semq[s], Tail(semq[s]), free')
  BY <1>1, TailFair
<1> QED BY <1>2, OneFair

\* A subtree is terminated: whoever leaves a queue is freed.
LEMMA KillFair ==
  ASSUME IInv, NEW K, Kill(K)
  PROVE  \A t \in Sems : Fair(semq[t], semq'[t], free')
<1>1. free' = free \cup K /\ \A s \in Sems : semq'[s] = Without(semq[s], BlockedIn(K, s))
  BY DEF Kill
<1>2. ASSUME NEW s \in Sems PROVE Fair(semq[s], semq'[s], free')
  <2>1. BlockedIn(K, s) \subseteq free'
    BY <1>1 DEF BlockedIn
  <2>2. semq[s] \in Seq(Pcbs)
    BY Unpacked
  <2>3. Fair(semq[s], Without(semq[s], BlockedIn(K, s)), free')
    BY <2>1, <2>2, WithoutFair
  <2> QED BY <1>1, <2>3
<1> QED BY <1>2

\* The clock's tick.
LEMMA ClockFair ==
  ASSUME IInv, HandlePseudoClock
  PROVE  \A t \in Sems : Fair(semq[t], semq'[t], free')
<1>1. CASE semq' = semq
  BY <1>1, SameFair
<1>2. CASE /\ sem[Clock] < 0
           /\ semq' = [semq EXCEPT ![Clock] = SubSeq(@, Released + 1, Len(@))]
  <2> DEFINE q == semq[Clock]
             r == SubSeq(q, Released + 1, Len(q))
  <2>1. Clock \in Sems
    BY DEF Sems
  <2>2. q \in Seq(Pcbs) /\ sem[Clock] \in Int /\ Len(q) \in Nat
    BY <2>1, Unpacked, LenProperties
  <2>3. Released \in 0..Len(q)
    BY <1>2, <2>2 DEF Released
  <2>4. semq' = [semq EXCEPT ![Clock] = r]
    BY <1>2
  <2>5. PICK n \in 0..Len(q) : n = Released
    BY <2>3
  <2>6. r \in Seq(Pcbs) /\ Rest(r, q, n)
    <3>1. r = SubSeq(q, n+1, Len(q))
      BY <2>5
    <3> HIDE DEF q, r
    <3>2. r \in Seq(Pcbs) /\ Len(r) = Len(q) - n
      BY <2>2, <3>1, CutResult
    <3>3. \A i \in 1..Len(r) : r[i] = q[i+n]
      BY <2>2, <3>1, <3>2
    <3> QED BY <3>2, <3>3 DEF Rest
  <2>7. Fair(q, r, free')
    <3> HIDE DEF q, r
    <3> QED BY <2>2, <2>6, RestFair
  <2> HIDE DEF r
  <2> QED BY <2>1, <2>4, <2>7, OneFair
<1> QED BY <1>1, <1>2 DEF HandlePseudoClock

\* No step of the nucleus lets anybody overtake.
LEMMA NextFair ==
  ASSUME IInv, [Next]_vars
  PROVE  \A t \in Sems : Fair(semq[t], semq'[t], free')
<1>1. CASE semq' = semq
  BY <1>1, SameFair
<1>2. CASE TerminateProcess
  BY <1>1, <1>2, KillFair DEF TerminateProcess, Terminate, vars
<1>3. CASE PassUpOrDie
  BY <1>1, <1>3, KillFair DEF PassUpOrDie, vars
<1>4. ASSUME NEW s \in UserSems, Passeren(s)
      PROVE  \A t \in Sems : Fair(semq[t], semq'[t], free')
  <2>1. s \in Sems /\ Running /\ (semq' = semq \/ InsertBlocked(s, current))
    BY <1>4 DEF Passeren, Sems
  <2> QED BY <1>1, <2>1, BlockFair
<1>5. ASSUME NEW s \in SoftSems, Running, SoftBlock(s)
      PROVE  \A t \in Sems : Fair(semq[t], semq'[t], free')
  <2>1. s \in Sems /\ InsertBlocked(s, current)
    BY <1>5 DEF SoftBlock, Sems, SoftSems
  <2> QED BY <1>5, <2>1, BlockFair
<1>6. CASE (\E d \in Devices : DoIO(d)) \/ WaitForClock
  BY <1>5, <1>6 DEF DoIO, WaitForClock, SoftSems
<1>7. ASSUME NEW s \in UserSems, Verhogen(s)
      PROVE  \A t \in Sems : Fair(semq[t], semq'[t], free')
  <2>1. s \in Sems /\ \/ semq' = semq
                      \/ semq[s] # <<>> /\ semq' = [semq EXCEPT ![s] = Tail(semq[s])]
    BY <1>7 DEF Verhogen, Sems
  <2> QED BY <1>1, <2>1, WakeFair
<1>8. ASSUME NEW d \in Devices, HandleDevice(d)
      PROVE  \A t \in Sems : Fair(semq[t], semq'[t], free')
  <2>1. d \in Sems /\ \/ semq' = semq
                      \/ semq[d] # <<>> /\ semq' = [semq EXCEPT ![d] = Tail(semq[d])]
    BY <1>8 DEF HandleDevice, Sems
  <2> QED BY <1>1, <2>1, WakeFair
<1>9. CASE CreateProcess \/ Yield \/ HandlePLT \/ Stopped \/ UNCHANGED vars
  <2>1. semq' = semq
    BY <1>9 DEF CreateProcess, Yield, HandlePLT, Stopped, vars
  <2> QED BY <1>1, <2>1
<1>10. CASE HandlePseudoClock
  BY <1>10, ClockFair
<1> QED BY <1>2, <1>3, <1>4, <1>6, <1>7, <1>8, <1>9, <1>10 DEF Next, Call, Interrupt

\* Semaphores are first come, first served, whatever the priorities and
\* whoever is terminated in the middle of a queue.
THEOREM NobodyOvertakes == Spec => NoOvertaking
<1>1. IInv /\ [Next]_vars =>
        [\A s \in Sems : \A p \in Range(semq[s]) \cap Range(semq'[s]) :
           /\ Ahead(p, semq'[s]) \subseteq Ahead(p, semq[s])
           /\ Range(semq[s]) \ (Range(semq'[s]) \cup free')
                \subseteq Ahead(p, semq[s])]_vars
  BY NextFair DEF Fair
<1> QED BY <1>1, Invariance, PTL DEF Spec, NoOvertaking

----------------------------------------------------------------------------
(* The ready queue without YIELD *)

\* p_prio is an integer.
LEMMA PrioTyped == ASSUME IInv PROVE prio \in [Pcbs -> Int] /\ ready \in Seq(Pcbs)
BY Unpacked, PriosAssumption

\* The head of an ordered queue is dispatched, and the rest is in order.
LEMMA ScheduleSorted ==
  ASSUME NEW q \in Seq(Pcbs), Sorted(prio, q), Schedule(q), prio' = prio
  PROVE  SortedReady'
<1>1. CASE q # <<>> /\ ready' = Tail(q)
  BY <1>1, SortedTail DEF SortedReady
<1>2. CASE ready' = <<>>
  <2>1. Sorted(prio', <<>>)
    BY DEF Sorted
  <2> QED BY <1>2, <2>1 DEF SortedReady
<1> QED BY <1>1, <1>2 DEF Schedule

\* An interrupt handler leaves an ordered queue to the process it goes back to
\* or to the scheduler.
LEMMA ResumeSorted ==
  ASSUME NEW q \in Seq(Pcbs), Sorted(prio, q), Resume(q), prio' = prio
  PROVE  SortedReady'
BY ScheduleSorted DEF Resume, SortedReady

\* A ready queue that does not change.
LEMMA SameSorted ==
  ASSUME SortedReady, ready' = ready, prio' = prio
  PROVE  SortedReady'
BY DEF SortedReady

\* The end of some processes.
LEMMA KillSorted ==
  ASSUME IInv, SortedReady, prio' = prio, NEW K,
         \/ Schedule(Without(ready, K))
         \/ ready' = Without(ready, K)
  PROVE  SortedReady'
<1>1. Without(ready, K) \in Seq(Pcbs) /\ Sorted(prio, Without(ready, K))
  BY PrioTyped, WithoutResult, SortedWithout DEF SortedReady
<1> QED BY <1>1, ScheduleSorted DEF SortedReady

\* A process created, or woken by a V, takes its place by priority.
LEMMA CreateProcessSorted ==
  ASSUME IInv, SortedReady, CreateProcess
  PROVE  SortedReady'
<1>1. CASE UNCHANGED vars
  BY <1>1, SameSorted DEF vars
<1>2. ASSUME NEW p \in free, NEW pr \in Prios, prio' = [prio EXCEPT ![p] = pr],
             ready' = InsertProcQ(prio', ready, p)
      PROVE  SortedReady'
  <2>1. /\ p \in Pcbs /\ prio \in [Pcbs -> Int] /\ ready \in Seq(Pcbs)
        /\ pr \in Int /\ p \notin Range(ready)
    BY PrioTyped, PriosAssumption, Unpacked DEF Placed
  <2>2. prio' \in [Pcbs -> Int]
    BY <1>2, <2>1
  <2>3. \A i \in 1..Len(ready) : prio'[ready[i]] = prio[ready[i]]
    <3>1. \A i \in 1..Len(ready) : ready[i] \in Pcbs /\ ready[i] \in Range(ready)
      BY <2>1, ElementOfSeq, RangeEquality
    <3> QED BY <1>2, <2>1, <3>1
  <2>4. Sorted(prio', ready)
    BY <2>3 DEF SortedReady, Sorted
  <2>5. Sorted(prio', InsertProcQ(prio', ready, p))
    BY <2>1, <2>2, <2>4, SortedInsert
  <2> QED BY <1>2, <2>5 DEF SortedReady
<1> QED BY <1>1, <1>2 DEF CreateProcess

LEMMA WakeSorted ==
  ASSUME IInv, SortedReady, NEW s \in Sems, semq[s] # <<>>
  PROVE  ReadyWithHead(s) \in Seq(Pcbs) /\ Sorted(prio, ReadyWithHead(s))
<1>1. semq[s] \in Seq(Pcbs)
  BY Unpacked
<1>2. Head(semq[s]) \in Pcbs
  BY <1>1, TailResult
<1> QED BY <1>2, PrioTyped, InsertProcQResult, SortedInsert DEF ReadyWithHead, SortedReady

\* The interrupt handlers.
LEMMA InterruptSorted ==
  ASSUME IInv, SortedReady, Interrupt
  PROVE  SortedReady'
<1>1. prio \in [Pcbs -> Int] /\ ready \in Seq(Pcbs) /\ Sorted(prio, ready)
  BY PrioTyped DEF SortedReady
<1>2. CASE HandlePLT
  <2>1. current \in Pcbs
    BY <1>2, RunningLive DEF HandlePLT
  <2>2. /\ InsertProcQ(prio, ready, current) \in Seq(Pcbs)
        /\ Sorted(prio, InsertProcQ(prio, ready, current))
    BY <1>1, <2>1, InsertProcQResult, SortedInsert
  <2> QED BY <1>2, <2>2, ScheduleSorted DEF HandlePLT
<1>3. CASE HandlePseudoClock
  <2>1. prio' = prio
    BY <1>3 DEF HandlePseudoClock
  <2>2. CASE Resume(ready)
    BY <1>1, <2>1, <2>2, ResumeSorted
  <2>3. CASE sem[Clock] < 0 /\ Resume(InsertEach(prio, ready, SubSeq(semq[Clock], 1, Released)))
    <3> DEFINE w == SubSeq(semq[Clock], 1, Released)
    <3>1. Clock \in Sems
      BY DEF Sems
    <3>2. semq[Clock] \in Seq(Pcbs) /\ sem[Clock] \in Int /\ Len(semq[Clock]) \in Nat
      BY <3>1, Unpacked, LenProperties
    <3>3. Released \in 0..Len(semq[Clock])
      BY <2>3, <3>2 DEF Released
    <3>4. w \in Seq(Pcbs)
      BY <3>2, <3>3, CutResult
    <3> HIDE DEF w
    <3>5. InsertEach(prio, ready, w) \in Seq(Pcbs) /\ Sorted(prio, InsertEach(prio, ready, w))
      BY <1>1, <3>4, InsertEachResult, SortedInsertEach
    <3>6. Resume(InsertEach(prio, ready, w))
      BY <2>3 DEF w
    <3> QED BY <2>1, <3>5, <3>6, ResumeSorted
  <2> QED BY <1>3, <2>2, <2>3 DEF HandlePseudoClock
<1>4. CASE \E d \in Devices : HandleDevice(d)
  <2>1. PICK d \in Devices : HandleDevice(d)
    BY <1>4
  <2>2. prio' = prio /\ d \in Sems
    BY <2>1 DEF HandleDevice, Sems
  <2>3. CASE semq[d] # <<>> /\ Resume(ReadyWithHead(d))
    BY <2>2, <2>3, WakeSorted, ResumeSorted
  <2>4. CASE Resume(ready)
    BY <1>1, <2>2, <2>4, ResumeSorted
  <2> QED BY <2>1, <2>3, <2>4 DEF HandleDevice
<1> QED BY <1>2, <1>3, <1>4 DEF Interrupt

\* The system calls but YIELD, and the other exceptions.
LEMMA CallSorted ==
  ASSUME IInv, SortedReady, Call
  PROVE  SortedReady'
<1>1. prio \in [Pcbs -> Int] /\ ready \in Seq(Pcbs) /\ Sorted(prio, ready)
  BY PrioTyped DEF SortedReady
<1>2. CASE CreateProcess
  BY <1>2, CreateProcessSorted
<1>3. CASE TerminateProcess
  <2>1. CASE UNCHANGED vars
    BY <2>1, SameSorted DEF vars
  <2>2. ASSUME NEW t, Terminate(t) PROVE SortedReady'
    BY <2>2, KillSorted DEF Terminate
  <2> QED BY <1>3, <2>1, <2>2 DEF TerminateProcess
<1>4. CASE PassUpOrDie
  <2>1. CASE UNCHANGED vars
    BY <2>1, SameSorted DEF vars
  <2>2. CASE Schedule(Without(ready, Subtree(current))) /\ prio' = prio
    BY <2>2, KillSorted
  <2> QED BY <1>4, <2>1, <2>2 DEF PassUpOrDie
<1>5. ASSUME NEW s, Passeren(s) PROVE SortedReady'
  <2>1. prio' = prio
    BY <1>5 DEF Passeren
  <2> QED BY <1>1, <1>5, <2>1, ScheduleSorted, SameSorted DEF Passeren
<1>6. ASSUME NEW s \in UserSems, Verhogen(s) PROVE SortedReady'
  <2>1. prio' = prio /\ s \in Sems
    BY <1>6 DEF Verhogen, Sems
  <2>2. CASE semq[s] # <<>> /\ ready' = ReadyWithHead(s)
    BY <2>1, <2>2, WakeSorted DEF SortedReady
  <2>3. CASE ready' = ready
    BY <2>1, <2>3, SameSorted
  <2> QED BY <1>6, <2>2, <2>3 DEF Verhogen
<1>7. ASSUME NEW d, DoIO(d) PROVE SortedReady'
  <2>1. prio' = prio /\ Schedule(ready)
    BY <1>7 DEF DoIO, SoftBlock
  <2> QED BY <1>1, <2>1, ScheduleSorted
<1>8. CASE WaitForClock
  <2>1. prio' = prio /\ Schedule(ready)
    BY <1>8 DEF WaitForClock, SoftBlock
  <2> QED BY <1>1, <2>1, ScheduleSorted
<1> QED BY <1>2, <1>3, <1>4, <1>5, <1>6, <1>7, <1>8 DEF Call

\* Without YIELD the scheduler always dispatches a process of the highest
\* priority there is in the ready queue.
THEOREM ReadyIsSorted == NoYieldSpec => []SortedReady
<1>1. Init => IInv /\ SortedReady
  <2>1. Init => SortedReady
    BY DEF Init, SortedReady, Sorted
  <2> QED BY <2>1, InitIInv
<1>2. IInv /\ SortedReady /\ [Call \/ Interrupt \/ Stopped]_vars => IInv' /\ SortedReady'
  <2> SUFFICES ASSUME IInv, SortedReady, [Call \/ Interrupt \/ Stopped]_vars
               PROVE  IInv' /\ SortedReady'
    OBVIOUS
  <2>1. IInv'
    BY NextIInv DEF Next
  <2>2. CASE Stopped \/ UNCHANGED vars
    BY <2>1, <2>2, SameSorted DEF Stopped, vars
  <2>3. CASE Call
    BY <2>1, <2>3, CallSorted
  <2>4. CASE Interrupt
    BY <2>1, <2>4, InterruptSorted
  <2> QED BY <2>1, <2>2, <2>3, <2>4
<1> QED BY <1>1, <1>2, PTL DEF NoYieldSpec

----------------------------------------------------------------------------
(* Devices that are left alone *)

\* DeviceHandshake of one device: its value, its waiters, and whether it works.
Shake(v, n, working) == v + n = 0 /\ n = IF working THEN 1 ELSE 0

\* What DeviceHandshake says of a device is Shake.
LEMMA ShakeMeans ==
  ASSUME NEW v \in Int, NEW q \in Seq(Pcbs), NEW working
  PROVE  (v = -Len(q) /\ IF working THEN Len(q) = 1 ELSE q = <<>>)
           <=> Shake(v, Len(q), working)
<1> DEFINE n == Len(q)
<1>1. n \in Nat /\ (q = <<>> <=> n = 0)
  BY EmptySeq, LenProperties
<1> HIDE DEF n
<1>2. v = -n <=> v + n = 0
  BY <1>1
<1>3. (v = -n /\ IF working THEN n = 1 ELSE q = <<>>) <=> Shake(v, n, working)
  BY <1>1, <1>2 DEF Shake
<1> QED BY <1>3 DEF n

\* DeviceHandshake says Shake of every device.
LEMMA HandshakeEach ==
  ASSUME IInv
  PROVE  DeviceHandshake <=> \A d \in Devices : Shake(sem[d], Len(semq[d]), d \in busy)
<1>1. \A d \in Devices : sem[d] \in Int /\ semq[d] \in Seq(Pcbs)
  BY DEF IInv, TypeOK, Sems
<1>2. \A d \in Devices :
        (sem[d] = -Len(semq[d]) /\ IF d \in busy THEN Len(semq[d]) = 1 ELSE semq[d] = <<>>)
          <=> Shake(sem[d], Len(semq[d]), d \in busy)
  BY <1>1, ShakeMeans
<1> QED BY <1>2 DEF DeviceHandshake

\* And so it does in the next state.
LEMMA HandshakeEachNext ==
  ASSUME IInv'
  PROVE  DeviceHandshake' <=> \A d \in Devices : Shake(sem'[d], Len(semq'[d]), d \in busy')
<1>1. \A d \in Devices : sem'[d] \in Int /\ semq'[d] \in Seq(Pcbs)
  BY DEF IInv, TypeOK, Sems
<1>2. \A d \in Devices :
        (sem'[d] = -Len(semq'[d]) /\ IF d \in busy' THEN Len(semq'[d]) = 1 ELSE semq'[d] = <<>>)
          <=> Shake(sem'[d], Len(semq'[d]), d \in busy')
  BY <1>1, ShakeMeans
<1> QED BY <1>2 DEF DeviceHandshake

\* The device d and what it is worth are as they were.
Same(d) == sem'[d] = sem[d] /\ semq'[d] = semq[d] /\ (d \in busy' <=> d \in busy)

\* A termination that leaves working devices alone finds no process blocked on
\* a device, as idle devices have no waiters.
LEMMA KillLeavesDevices ==
  ASSUME IInv, DeviceHandshake, DeviceLeftAlone, NEW t \in Live, Kill(Subtree(t)),
         busy' = busy, NEW d \in Devices
  PROVE  Same(d)
<1> DEFINE K == Subtree(t)
           B == BlockedIn(K, d)
           q == semq[d]
<1>1. d \in Sems /\ q \in Seq(Pcbs) /\ sem[d] \in Int
  BY DEF IInv, TypeOK, Sems
<1>2. K \subseteq Live
  <2>1. t \in Pcbs \ free /\ Subtree(t) = Below(parent, t) /\ OneTree(parent, free)
    BY FamilyTreeIsOneTree, Unpacked DEF Live
  <2>2. Below(parent, t) \subseteq Pcbs \ free
    BY <2>1, Unpacked, LiveClosed
  <2> QED BY <2>1, <2>2 DEF Live
<1>3. sem'[d] = sem[d] + Cardinality(B) /\ semq'[d] = Without(q, B)
  BY <1>1 DEF Kill, Refund
<1> HIDE DEF K
<1>4. B = K \cap Range(q)
  BY <1>1, <1>2, BlockedAreWaiters
<1> HIDE DEF B
<1>5. Range(semq'[d]) = Range(q) \ B
  BY <1>1, <1>3, WithoutResult
<1>6. semq'[d] = q
  <2>1. CASE d \in busy
    BY <2>1 DEF DeviceLeftAlone
  <2>2. CASE d \notin busy
    <3>1. q = <<>>
      BY <2>2 DEF DeviceHandshake
    <3>2. Range(q) = {}
      BY <3>1 DEF Range
    <3>3. semq'[d] \in Seq(Pcbs) /\ Range(semq'[d]) = {}
      BY <1>1, <1>3, <1>5, <3>2, WithoutResult
    <3>4. Len(semq'[d]) = 0
      <4> DEFINE r == semq'[d]
      <4>1. r \in Seq(Pcbs) /\ Range(r) = {}
        BY <3>3
      <4> HIDE DEF r
      <4>2. Len(r) \in Nat /\ \A i \in 1..Len(r) : r[i] \in Range(r)
        <5>1. Range(r) = {r[i] : i \in 1..Len(r)}
          BY <4>1, RangeEquality
        <5>2. Len(r) \in Nat
          BY <4>1, LenProperties
        <5> QED BY <5>1, <5>2
      <4>3. 1..Len(r) = {}
        BY <4>1, <4>2
      <4>4. Len(r) = 0
        BY <4>2, <4>3
      <4> QED BY <4>4 DEF r
    <3> QED BY <3>1, <3>3, <3>4, EmptySeq
  <2> QED BY <2>1, <2>2
<1>7. B = {}
  BY <1>4, <1>5, <1>6
<1>8. sem'[d] = sem[d]
  BY <1>1, <1>3, <1>7, FS_EmptySet
<1> QED BY <1>6, <1>8 DEF Same

\* DOIO on a device that is left alone while it works finds it idle.
LEMMA DoIOShakes ==
  ASSUME IInv, DeviceHandshake, DeviceLeftAlone, NEW d \in Devices, DoIO(d),
         NEW e \in Devices
  PROVE  Same(e) \/ Shake(sem'[e], Len(semq'[e]), e \in busy')
<1>1. d \in Sems /\ e \in Sems /\ semq \in [Sems -> Seq(Pcbs)] /\ sem \in [Sems -> Int]
  BY Unpacked DEF Sems
<1>2. /\ Running /\ InsertBlocked(d, current) /\ busy' = busy \cup {d}
      /\ sem' = [sem EXCEPT ![d] = sem[d] - 1]
  BY DEF DoIO, SoftBlock
<1>3. /\ semq' = [semq EXCEPT ![d] = Append(semq[d], current)]
      /\ Len(Append(semq[d], current)) = Len(semq[d]) + 1
  BY <1>1, <1>2, BlockAppends
<1>4. CASE e # d
  BY <1>1, <1>2, <1>3, <1>4 DEF Same
<1>5. CASE e = d
  <2>1. sem[d] \in Int /\ Len(semq[d]) \in Nat /\ semq'[d] = Append(semq[d], current)
    BY <1>1, <1>3, LenProperties
  <2>2. d \notin busy
    <3>1. Len(semq'[d]) # Len(semq[d])
      <4> DEFINE n == Len(semq[d])
                 n2 == Len(semq'[d])
      <4>1. n \in Nat /\ n2 = n + 1
        BY <1>3, <2>1
      <4> HIDE DEF n, n2
      <4>2. n2 # n
        BY <4>1
      <4> QED BY <4>2 DEF n, n2
    <3>2. semq'[d] # semq[d]
      BY <3>1
    <3> QED BY <1>2, <3>2 DEF DeviceLeftAlone
  <2>3. Shake(sem[d], Len(semq[d]), FALSE)
    <3>1. Shake(sem[d], Len(semq[d]), d \in busy)
      BY HandshakeEach
    <3> QED BY <2>2, <3>1 DEF Shake
  <2>4. sem[d] + Len(semq[d]) = 0 /\ Len(semq[d]) = 0
    BY <2>3 DEF Shake
  <2>5. sem'[d] = sem[d] - 1 /\ Len(semq'[d]) = Len(semq[d]) + 1 /\ d \in busy'
    BY <1>1, <1>2, <1>3
  <2> DEFINE n == Len(semq[d])
             v == sem[d]
             n2 == Len(semq'[d])
             v2 == sem'[d]
  <2>6. v \in Int /\ n \in Nat /\ v + n = 0 /\ n = 0 /\ v2 = v - 1 /\ n2 = n + 1
    BY <2>1, <2>4, <2>5
  <2> HIDE DEF n, v, n2, v2
  <2>7. v2 + n2 = 0 /\ n2 = 1
    BY <2>6
  <2>8. Shake(v2, n2, d \in busy')
    BY <2>5, <2>7 DEF Shake
  <2> QED BY <1>5, <2>8 DEF n2, v2
<1> QED BY <1>4, <1>5

\* The completion of an operation wakes the one process that waits for it.
LEMMA HandleDeviceShakes ==
  ASSUME IInv, DeviceHandshake, NEW d \in Devices, HandleDevice(d), NEW e \in Devices
  PROVE  Same(e) \/ Shake(sem'[e], Len(semq'[e]), e \in busy')
<1>1. d \in Sems /\ e \in Sems /\ semq \in [Sems -> Seq(Pcbs)] /\ sem \in [Sems -> Int]
  BY Unpacked DEF Sems
<1>2. d \in busy /\ busy' = busy \ {d} /\ sem' = [sem EXCEPT ![d] = sem[d] + 1]
  BY DEF HandleDevice
<1> DEFINE n == Len(semq[d])
           v == sem[d]
<1>3. v \in Int /\ n \in Nat /\ v + n = 0 /\ n = 1 /\ semq[d] # <<>>
  <2>1. Shake(v, n, TRUE)
    BY <1>2, HandshakeEach
  <2>2. n = 1 /\ v + n = 0 /\ v \in Int
    BY <1>1, <2>1 DEF Shake
  <2>3. semq[d] # <<>>
    BY <1>2 DEF DeviceHandshake
  <2> QED BY <2>2, <2>3
<1> HIDE DEF n, v
<1>4. WakesWaiter(d)
  <2>1. v + 1 <= 0
    BY <1>3
  <2> QED BY <2>1 DEF WakesWaiter, v
<1>5. semq' = [semq EXCEPT ![d] = Tail(semq[d])]
  BY <1>3, <1>4 DEF HandleDevice
<1>6. CASE e # d
  BY <1>1, <1>2, <1>5, <1>6 DEF Same
<1>7. CASE e = d
  <2>1. Len(semq'[d]) = n - 1
    BY <1>1, <1>3, <1>5, TailShorter DEF n
  <2>2. sem'[d] = v + 1 /\ d \notin busy'
    BY <1>1, <1>2 DEF v
  <2>3. (v + 1) + (n - 1) = 0 /\ n - 1 = 0
    BY <1>3
  <2> QED BY <1>7, <2>1, <2>2, <2>3 DEF Shake
<1> QED BY <1>6, <1>7

\* The handlers that touch no device.
LEMMA OthersLeaveDevices ==
  ASSUME IInv, NEW d \in Devices,
         \/ CreateProcess \/ WaitForClock \/ Yield \/ HandlePLT \/ HandlePseudoClock
         \/ Stopped \/ UNCHANGED vars
         \/ \E s \in UserSems : Passeren(s)
         \/ \E s \in UserSems : Verhogen(s)
  PROVE  Same(d)
<1>1. d \in Sems /\ d \notin UserSems /\ d # Clock /\ Clock \in Sems /\ UserSems \subseteq Sems
  BY SemsAssumption DEF Sems
<1>2. semq \in [Sems -> Seq(Pcbs)] /\ sem \in [Sems -> Int]
  BY Unpacked
<1>3. ASSUME NEW s \in Sems, s # d, InsertBlocked(s, current)
      PROVE  semq'[d] = semq[d]
  BY <1>1, <1>2, <1>3 DEF InsertBlocked
<1>4. CASE CreateProcess \/ Yield \/ HandlePLT \/ Stopped \/ UNCHANGED vars
  BY <1>4 DEF CreateProcess, Yield, HandlePLT, Stopped, vars, Same
<1>5. CASE WaitForClock
  <2>1. sem' = [sem EXCEPT ![Clock] = @ - 1] /\ busy' = busy /\ InsertBlocked(Clock, current)
    BY <1>5 DEF WaitForClock, SoftBlock
  <2> QED BY <1>1, <1>2, <1>3, <2>1 DEF Same
<1>6. CASE HandlePseudoClock
  <2>1. busy' = busy /\ sem'[d] = sem[d] /\ semq'[d] = semq[d]
    BY <1>1, <1>2, <1>6 DEF HandlePseudoClock
  <2> QED BY <2>1 DEF Same
<1>7. ASSUME NEW s \in UserSems, Passeren(s) PROVE Same(d)
  <2>1. sem' = [sem EXCEPT ![s] = @ - 1] /\ busy' = busy
    BY <1>7 DEF Passeren
  <2>2. semq' = semq \/ InsertBlocked(s, current)
    BY <1>7 DEF Passeren
  <2> QED BY <1>1, <1>2, <1>3, <2>1, <2>2 DEF Same
<1>8. ASSUME NEW s \in UserSems, Verhogen(s) PROVE Same(d)
  <2>1. sem' = [sem EXCEPT ![s] = @ + 1] /\ busy' = busy
    BY <1>8 DEF Verhogen
  <2>2. semq' = semq \/ semq' = [semq EXCEPT ![s] = Tail(@)]
    BY <1>8 DEF Verhogen
  <2> QED BY <1>1, <1>2, <2>1, <2>2 DEF Same
<1> QED BY <1>4, <1>5, <1>6, <1>7, <1>8

\* Every step that leaves working devices alone leaves each device as it was,
\* or in order.
LEMMA NextShakes ==
  ASSUME IInv, DeviceHandshake, [Next /\ DeviceLeftAlone]_vars, NEW e \in Devices
  PROVE  Same(e) \/ Shake(sem'[e], Len(semq'[e]), e \in busy')
<1>1. CASE /\ DeviceLeftAlone
           /\ TerminateProcess
  <2>1. CASE UNCHANGED vars
    BY <2>1, OthersLeaveDevices
  <2>2. ASSUME NEW t \in Subtree(Root(current)), Terminate(t) PROVE Same(e)
    <3>1. t \in Live
      BY <1>1, TargetsLive DEF TerminateProcess
    <3> QED BY <1>1, <2>2, <3>1, KillLeavesDevices DEF Terminate
  <2> QED BY <1>1, <2>1, <2>2 DEF TerminateProcess
<1>2. CASE DeviceLeftAlone /\ PassUpOrDie
  <2>1. CASE UNCHANGED vars
    BY <2>1, OthersLeaveDevices
  <2>2. CASE Kill(Subtree(current)) /\ busy' = busy
    <3>1. current \in Live
      BY <1>2, RunningLive DEF PassUpOrDie
    <3> QED BY <1>2, <2>2, <3>1, KillLeavesDevices
  <2> QED BY <1>2, <2>1, <2>2 DEF PassUpOrDie
<1>3. CASE DeviceLeftAlone /\ \E d \in Devices : DoIO(d)
  BY <1>3, DoIOShakes
<1>4. CASE \E d \in Devices : HandleDevice(d)
  BY <1>4, HandleDeviceShakes
<1>5. CASE \/ CreateProcess \/ WaitForClock \/ Yield \/ HandlePLT \/ HandlePseudoClock
           \/ Stopped \/ UNCHANGED vars
           \/ \E s \in UserSems : Passeren(s)
           \/ \E s \in UserSems : Verhogen(s)
  BY <1>5, OthersLeaveDevices
<1> QED BY <1>1, <1>2, <1>3, <1>4, <1>5 DEF Next, Call, Interrupt

\* As long as working devices are left alone, the completion of an operation
\* finds the value of its semaphore and the one waiter that it is for.
THEOREM DevicesAndWaitersAgree == CarefulSpec => []DeviceHandshake
<1>1. Init => IInv /\ DeviceHandshake
  <2> SUFFICES ASSUME Init PROVE IInv /\ DeviceHandshake
    OBVIOUS
  <2>1. IInv
    BY InitIInv
  <2>2. \A d \in Devices : sem[d] = 0 /\ semq[d] = <<>> /\ d \notin busy
    BY DEF Init, Sems, SoftSems
  <2>3. \A d \in Devices : Shake(sem[d], Len(semq[d]), d \in busy)
    BY <2>2 DEF Shake
  <2> QED BY <2>1, <2>3, HandshakeEach
<1>2. IInv /\ DeviceHandshake /\ [Next /\ DeviceLeftAlone]_vars => IInv' /\ DeviceHandshake'
  <2> SUFFICES ASSUME IInv, DeviceHandshake, [Next /\ DeviceLeftAlone]_vars
               PROVE  IInv' /\ DeviceHandshake'
    OBVIOUS
  <2>1. IInv'
    BY NextIInv
  <2>2. ASSUME NEW e \in Devices PROVE Shake(sem'[e], Len(semq'[e]), e \in busy')
    <3>1. Same(e) \/ Shake(sem'[e], Len(semq'[e]), e \in busy')
      BY NextShakes
    <3>2. Shake(sem[e], Len(semq[e]), e \in busy)
      BY HandshakeEach
    <3> QED BY <3>1, <3>2 DEF Same
  <2> QED BY <2>1, <2>2, HandshakeEachNext
<1> QED BY <1>1, <1>2, PTL DEF CarefulSpec

\* Who waits for the clock or a device waits where the next interrupt of it
\* finds a value below zero: WAIT has an end.
LEMMA WaitsFollow ==
  ASSUME IInv, SemaphoreAgrees, DeviceHandshake
  PROVE  WaitEnds
<1> SUFFICES ASSUME cpu = "waiting"
             PROVE  \E s \in busy \cup {Clock} : sem[s] < 0 /\ semq[s] # <<>>
  BY DEF WaitEnds
<1>1. PICK s \in SoftSems : Range(semq[s]) # {}
  <2>1. Waiters(SoftSems) # {}
    BY StopsFollow DEF StopJustified
  <2> QED BY <2>1 DEF Waiters
<1>2. s \in Sems /\ sem[s] \in Int /\ semq[s] \in Seq(Pcbs)
  BY Unpacked DEF SoftSems, Sems
<1> DEFINE n == Len(semq[s])
<1>3. n \in Nat /\ n # 0 /\ semq[s] # <<>>
  <2>1. semq[s] # <<>>
    BY <1>1 DEF Range
  <2> QED BY <1>2, <2>1, EmptySeq, LenProperties
<1>4. CASE s = Clock
  <2>1. n = IF sem[s] < 0 THEN -sem[s] ELSE 0
    BY <1>4 DEF SemaphoreAgrees
  <2> HIDE DEF n
  <2>2. sem[s] < 0
    BY <1>3, <2>1
  <2> QED BY <1>3, <1>4, <2>2
<1>5. CASE s \in Devices
  <2>1. sem[s] = -n /\ s \in busy
    BY <1>3, <1>5 DEF DeviceHandshake
  <2> HIDE DEF n
  <2>2. sem[s] < 0
    BY <1>2, <1>3, <2>1
  <2> QED BY <1>3, <2>1, <2>2
<1> QED BY <1>4, <1>5 DEF SoftSems

\* As long as working devices are left alone, the processor waits only for an
\* interrupt that wakes a process.
THEOREM WaitsEnd == CarefulSpec => []WaitEnds
<1>1. Init => IInv /\ SemaphoreAgrees
  BY InitIInv, InitAgrees
<1>2. IInv /\ SemaphoreAgrees /\ [Next /\ DeviceLeftAlone]_vars
        => IInv' /\ SemaphoreAgrees'
  BY NextIInv, NextAgrees
<1>3. IInv /\ SemaphoreAgrees /\ DeviceHandshake => WaitEnds
  BY WaitsFollow
<1> QED BY <1>1, <1>2, <1>3, DevicesAndWaitersAgree, PTL DEF CarefulSpec
============================================================================
