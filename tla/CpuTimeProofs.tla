--------------------------- MODULE CpuTimeProofs ---------------------------
(***************************************************************************)
(* The accounting of CPU time loses nothing, and charges a process that    *)
(* does not call GETTIME exactly the time it has had the CPU.              *)
(***************************************************************************)
EXTENDS CpuTime, NucleusProofs

\* The inductive invariant: that of the nucleus, and p_start is not in the
\* future.
TInv ==
  /\ IInv
  /\ TimedTypeOK /\ pStart <= now
  /\ NothingLost /\ ChargedExactly

\* The accounting's part of it, in the next state.
LEMMA Accounted ==
  ASSUME IInv', now' \in Nat, pStart' \in Nat, pTime' \in [Pcbs -> Nat],
         ran' \in [Pcbs -> Nat], asked' \in SUBSET Pcbs, pStart' <= now',
         \A p \in Live' : /\ Charged(p)' >= ran'[p]
                          /\ p \notin asked' => Charged(p)' = ran'[p]
  PROVE  TInv'
<1>1. TimedTypeOK'
  BY DEF TimedTypeOK
<1>2. NothingLost'
  BY DEF NothingLost
<1>3. ChargedExactly'
  BY DEF ChargedExactly
<1> QED BY <1>1, <1>2, <1>3 DEF TInv

\* What the invariant says of one process.
LEMMA Accounts ==
  ASSUME TInv
  PROVE  /\ now \in Nat /\ pStart \in Nat /\ pTime \in [Pcbs -> Nat]
         /\ ran \in [Pcbs -> Nat] /\ asked \in SUBSET Pcbs /\ pStart <= now
         /\ free \in SUBSET Pcbs /\ current \in Pcbs \cup {NULL}
         /\ NULL \notin Pcbs /\ current \notin free
         /\ \A p \in Live : /\ Charged(p) >= ran[p]
                            /\ p \notin asked => Charged(p) = ran[p]
<1>1. free \in SUBSET Pcbs /\ current \in Pcbs \cup {NULL} /\ current \notin free
  BY DEF TInv, IInv, TypeOK, OnePlace
<1>2. \A p \in Live : /\ Charged(p) >= ran[p]
                      /\ p \notin asked => Charged(p) = ran[p]
  BY DEF TInv, NothingLost, ChargedExactly
<1> QED BY <1>1, <1>2, PcbsAssumption DEF TInv, TimedTypeOK

----------------------------------------------------------------------------

\* updateCpuTime moves the running time of the process into p_time, whoever
\* runs afterwards.
LEMMA ChargingStep ==
  ASSUME TInv, IInv', Charging, UpdateCpuTime, UNCHANGED <<now, ran, asked>>
  PROVE  TInv'
<1>1. free' = free
  BY DEF Charging, Passeren, DoIO, WaitForClock, Yield, HandlePLT, HandlePseudoClock,
         HandleDevice, SoftBlock
<1>2. pStart' = now /\ now' = now /\ ran' = ran /\ asked' = asked
  BY DEF UpdateCpuTime
<1>3. pTime' = IF current = NULL THEN pTime
               ELSE [pTime EXCEPT ![current] = pTime[current] + (now - pStart)]
  BY DEF UpdateCpuTime
<1>4. pTime' \in [Pcbs -> Nat]
  BY <1>3, Accounts
<1>5. ASSUME NEW p \in Live' PROVE p \in Live /\ Charged(p)' = Charged(p)
  <2>1. p \in Live /\ p \in Pcbs /\ p # NULL
    BY <1>1, <1>5, Accounts DEF Live
  <2>2. Charged(p)' = pTime'[p]
    BY <1>2, <1>4, <2>1, Accounts DEF Charged
  <2>3. pTime'[p] = pTime[p] + (IF p = current THEN now - pStart ELSE 0)
    BY <1>3, <2>1, Accounts
  <2> QED BY <2>1, <2>2, <2>3 DEF Charged
<1> QED BY <1>2, <1>4, <1>5, Accounts, Accounted

\* Where a handler that does not charge leaves the CPU: with the process that
\* had it, or that process is gone, or there was none.
LEMMA Uncharged ==
  ASSUME TInv, NotCharging
  PROVE  /\ current' = current \/ current = NULL \/ current \in free'
         /\ free \subseteq free'
<1>1. CASE \E s \in UserSems : Passeren(s) /\ sem'[s] >= 0
  <2>1. PICK s \in UserSems : Passeren(s) /\ sem'[s] >= 0
    BY <1>1
  <2>2. sem'[s] \in Int
    <3>1. sem \in [Sems -> Int] /\ s \in Sems
      BY DEF TInv, IInv, TypeOK, Sems
    <3> QED BY <2>1, <3>1 DEF Passeren
  <2>3. current' = current /\ free' = free
    BY <2>1, <2>2 DEF Passeren
  <2> QED BY <2>3
<1>2. CASE \E s \in UserSems : Verhogen(s)
  BY <1>2 DEF Verhogen
<1>3. ASSUME NEW t, Terminate(t) PROVE /\ current' = current \/ current \in free'
                                       /\ free \subseteq free'
  BY <1>3 DEF Terminate, Kill
<1>4. CASE TerminateProcess
  BY <1>3, <1>4 DEF TerminateProcess, vars
<1>5. CASE PassUpOrDie
  <2>1. CASE support[current] /\ UNCHANGED vars
    BY <2>1 DEF vars
  <2>2. CASE Kill(Subtree(current))
    <3>1. free' = free \cup Subtree(current)
      BY <2>2 DEF Kill
    <3>2. current \in Pcbs
      BY <1>5, RunningLive DEF TInv, PassUpOrDie
    <3>3. current \in Subtree(current)
      BY <3>2, BelowResult, FamilyTreeIsOneTree
    <3> QED BY <3>1, <3>3
  <2> QED BY <1>5, <2>1, <2>2 DEF PassUpOrDie
<1>6. CASE \E d \in Devices : HandleDevice(d) /\ current = NULL
  BY <1>6 DEF HandleDevice
<1>7. CASE Stopped
  BY <1>7 DEF Stopped, vars
<1> QED BY <1>1, <1>2, <1>4, <1>5, <1>6, <1>7 DEF NotCharging

\* A handler that does not charge leaves every process its running time.
LEMMA NotChargingStep ==
  ASSUME TInv, IInv', NotCharging, NoUpdate, UNCHANGED <<now, ran, asked>>
  PROVE  TInv'
<1>1. pTime' = pTime /\ now' = now /\ ran' = ran /\ asked' = asked
  BY DEF NoUpdate
<1>2. pStart' = IF current' # current /\ current' # NULL THEN now ELSE pStart
  BY DEF NoUpdate
<1>3. pStart' \in Nat /\ pStart' <= now'
  BY <1>1, <1>2, Accounts
<1>4. ASSUME NEW p \in Live' PROVE p \in Live /\ Charged(p)' = Charged(p)
  <2>1. p \in Live /\ p \in Pcbs /\ p # NULL /\ p \notin free'
    BY <1>4, Uncharged, Accounts DEF Live
  <2>2. Charged(p)' = pTime[p] + (IF p = current' THEN now - pStart' ELSE 0)
    BY <1>1 DEF Charged
  <2>3. CASE current' = current
    BY <1>2, <2>1, <2>2, <2>3 DEF Charged
  <2>4. CASE current' # current
    <3>1. p # current
      BY <2>1, <2>4, Uncharged
    <3>2. p = current' => now - pStart' = 0
      BY <1>2, <2>1, <2>4, Accounts
    <3> QED BY <2>1, <2>2, <3>1, <3>2 DEF Charged
  <2> QED BY <2>1, <2>3, <2>4
<1> QED BY <1>1, <1>3, <1>4, Accounts, Accounted

\* A new process has had no CPU time and is charged none.
LEMMA NewProcessStep ==
  ASSUME TInv, IInv', CreateProcess, NewProcess, UNCHANGED now
  PROVE  TInv'
<1> DEFINE new == free \ free'
<1>1. /\ pTime' = [p \in Pcbs |-> IF p \in new THEN 0 ELSE pTime[p]]
      /\ ran' = [p \in Pcbs |-> IF p \in new THEN 0 ELSE ran[p]]
      /\ asked' = asked \ new
      /\ pStart' = pStart /\ now' = now
  BY DEF NewProcess
<1>2. current' = current /\ current \notin new
  BY Accounts DEF CreateProcess, vars
<1>3. pTime' \in [Pcbs -> Nat] /\ ran' \in [Pcbs -> Nat] /\ asked' \in SUBSET Pcbs
  BY <1>1, Accounts
<1>4. ASSUME NEW p \in Live' PROVE /\ Charged(p)' >= ran'[p]
                                   /\ p \notin asked' => Charged(p)' = ran'[p]
  <2>1. p \in Pcbs /\ p \notin free'
    BY <1>4, Accounts DEF Live
  <2>2. CASE p \in new
    <3>1. Charged(p)' = 0 /\ ran'[p] = 0
      BY <1>1, <1>2, <2>1, <2>2 DEF Charged
    <3> QED BY <3>1
  <2>3. CASE p \notin new
    <3>1. p \in Live
      BY <2>1, <2>3 DEF Live
    <3>2. Charged(p)' = Charged(p) /\ ran'[p] = ran[p] /\ (p \in asked' <=> p \in asked)
      BY <1>1, <1>2, <2>1, <2>3 DEF Charged
    <3> QED BY <3>1, <3>2, Accounts
  <2> QED BY <2>2, <2>3
<1> QED BY <1>1, <1>3, <1>4, Accounts, Accounted

\* GETTIME charges its caller more than it has run, if anything.
LEMMA GetCPUTimeStep ==
  ASSUME TInv, IInv', GetCPUTime
  PROVE  TInv'
<1>1. /\ pTime' = [pTime EXCEPT ![current] = pTime[current] + (now - pStart)]
      /\ asked' = asked \cup {current}
      /\ now' = now /\ pStart' = pStart /\ ran' = ran
      /\ free' = free /\ current' = current
  BY DEF GetCPUTime, vars
<1>2. current \in Pcbs
  BY RunningLive DEF TInv, GetCPUTime
<1>3. pTime' \in [Pcbs -> Nat] /\ asked' \in SUBSET Pcbs
  BY <1>1, <1>2, Accounts
<1>4. ASSUME NEW p \in Live' PROVE /\ Charged(p)' >= ran'[p]
                                   /\ p \notin asked' => Charged(p)' = ran'[p]
  <2>1. p \in Live /\ p \in Pcbs
    BY <1>1, <1>4, Accounts DEF Live
  <2>2. CASE p # current
    <3>1. Charged(p)' = Charged(p) /\ ran'[p] = ran[p] /\ (p \in asked' <=> p \in asked)
      BY <1>1, <2>1, <2>2, Accounts DEF Charged
    <3> QED BY <2>1, <3>1, Accounts
  <2>3. CASE p = current
    <3>1. Charged(p)' = (pTime[p] + (now - pStart)) + (now - pStart)
      BY <1>1, <1>2, <2>3, Accounts DEF Charged
    <3>2. Charged(p) = pTime[p] + (now - pStart)
      BY <2>3 DEF Charged
    <3>3. pTime[p] \in Nat /\ ran[p] \in Nat /\ now - pStart \in Nat /\ Charged(p) >= ran[p]
      BY <2>1, Accounts
    <3>4. Charged(p)' >= ran[p]
      BY <3>1, <3>2, <3>3
    <3> QED BY <1>1, <2>3, <3>4
  <2> QED BY <2>2, <2>3
<1> QED BY <1>1, <1>3, <1>4, Accounts, Accounted

\* A unit of time counts for the running process and for nobody else.
LEMMA TickStep ==
  ASSUME TInv, IInv', Tick
  PROVE  TInv'
<1>1. /\ now' = now + 1 /\ pStart' = pStart /\ pTime' = pTime /\ asked' = asked
      /\ free' = free /\ current' = current
  BY DEF Tick, vars
<1>2. ran' = IF current = NULL THEN ran ELSE [ran EXCEPT ![current] = ran[current] + 1]
  BY DEF Tick
<1>3. ran' \in [Pcbs -> Nat]
  BY <1>2, Accounts
<1>4. ASSUME NEW p \in Live' PROVE /\ Charged(p)' >= ran'[p]
                                   /\ p \notin asked' => Charged(p)' = ran'[p]
  <2>1. p \in Live /\ p \in Pcbs /\ p # NULL
    BY <1>1, <1>4, Accounts DEF Live
  <2>2. CASE p # current
    <3>1. Charged(p)' = Charged(p) /\ ran'[p] = ran[p]
      BY <1>1, <1>2, <2>1, <2>2, Accounts DEF Charged
    <3> QED BY <1>1, <2>1, <3>1, Accounts
  <2>3. CASE p = current
    <3>1. Charged(p)' = pTime[p] + ((now + 1) - pStart)
      BY <1>1, <2>3 DEF Charged
    <3>5. Charged(p) = pTime[p] + (now - pStart)
      BY <2>3 DEF Charged
    <3>2. ran'[p] = ran[p] + 1
      BY <1>2, <2>1, <2>3, Accounts
    <3>3. pTime[p] \in Nat /\ ran[p] \in Nat
      BY <2>1, Accounts
    <3>4. Charged(p)' = Charged(p) + 1 /\ Charged(p) \in Int
      BY <3>1, <3>3, <3>5, Accounts
    <3> HIDE DEF Charged
    <3> QED BY <1>1, <2>1, <3>2, <3>3, <3>4, Accounts
  <2> QED BY <2>2, <2>3
<1> QED BY <1>1, <1>3, <1>4, Accounts, Accounted

----------------------------------------------------------------------------

LEMMA InitTInv == TimedInit => TInv
<1> SUFFICES ASSUME TimedInit PROVE TInv
  OBVIOUS
<1>1. IInv
  BY InitIInv DEF TimedInit
<1>2. /\ now = 0 /\ pStart = 0 /\ asked = {}
      /\ pTime = [p \in Pcbs |-> 0] /\ ran = [p \in Pcbs |-> 0]
  BY DEF TimedInit
<1>3. \A p \in Live : Charged(p) = 0 /\ ran[p] = 0
  BY <1>2 DEF Charged, Live
<1>4. NothingLost /\ ChargedExactly
  BY <1>3 DEF NothingLost, ChargedExactly
<1> QED BY <1>1, <1>2, <1>4 DEF TInv, TimedTypeOK

\* Every step with the accounting is a step of the nucleus, or leaves it.
LEMMA NextTInv == TInv /\ [TimedNext]_timedVars => TInv'
<1> SUFFICES ASSUME TInv, [TimedNext]_timedVars PROVE TInv'
  OBVIOUS
<1>1. [Next]_vars
  <2>1. Charging => Next
    BY DEF Charging, Next, Call, Interrupt
  <2>2. NotCharging => Next
    BY DEF NotCharging, Next, Call, Interrupt
  <2>3. CreateProcess => Next
    BY DEF Next, Call
  <2>4. GetCPUTime \/ Tick \/ UNCHANGED timedVars => UNCHANGED vars
    BY DEF GetCPUTime, Tick, timedVars
  <2> QED BY <2>1, <2>2, <2>3, <2>4 DEF TimedNext
<1>2. IInv'
  BY <1>1, NextIInv DEF TInv
<1>3. CASE Charging /\ UpdateCpuTime /\ UNCHANGED <<now, ran, asked>>
  BY <1>2, <1>3, ChargingStep
<1>4. CASE NotCharging /\ NoUpdate /\ UNCHANGED <<now, ran, asked>>
  BY <1>2, <1>4, NotChargingStep
<1>5. CASE CreateProcess /\ NewProcess /\ UNCHANGED now
  BY <1>2, <1>5, NewProcessStep
<1>6. CASE GetCPUTime
  BY <1>2, <1>6, GetCPUTimeStep
<1>7. CASE Tick
  BY <1>2, <1>7, TickStep
<1>8. CASE UNCHANGED timedVars
  <2>1. /\ now' = now /\ pStart' = pStart /\ pTime' = pTime /\ ran' = ran /\ asked' = asked
        /\ free' = free /\ current' = current
    BY <1>8 DEF timedVars, vars
  <2>2. ASSUME NEW p PROVE Charged(p)' = Charged(p)
    BY <2>1 DEF Charged
  <2>3. Live' = Live
    BY <2>1 DEF Live
  <2> QED BY <1>2, <2>1, <2>2, <2>3, Accounts, Accounted
<1> QED BY <1>3, <1>4, <1>5, <1>6, <1>7, <1>8 DEF TimedNext

\* The accounting keeps its types: no process is ever charged a negative time.
THEOREM AccountingTypeCorrect == TimedSpec => []TimedTypeOK
<1>1. TInv => TimedTypeOK
  BY DEF TInv
<1> QED BY <1>1, InitTInv, NextTInv, PTL DEF TimedSpec

\* Whatever handlers end its turns on the CPU, a process is charged for all of
\* them.
THEOREM NoTimeIsLost == TimedSpec => []NothingLost
<1>1. TInv => NothingLost
  BY DEF TInv
<1> QED BY <1>1, InitTInv, NextTInv, PTL DEF TimedSpec

\* A process that has not called GETTIME is charged for nothing else.
THEOREM ChargesAreExact == TimedSpec => []ChargedExactly
<1>1. TInv => ChargedExactly
  BY DEF TInv
<1> QED BY <1>1, InitTInv, NextTInv, PTL DEF TimedSpec
============================================================================
