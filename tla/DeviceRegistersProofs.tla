----------------------- MODULE DeviceRegistersProofs -----------------------
(***************************************************************************)
(* Proofs about DeviceRegisters: the two ways to a semaphore's index meet, *)
(* and, as long as no transmission fails, an operation, its interrupt and  *)
(* its waiter belong together.                                             *)
(***************************************************************************)
EXTENDS DeviceRegisters, TLAPS

\* DOIO and handleDevice compute the same index for each of the 48 halves,
\* within the array deviceSemaphores.
THEOREM IndicesAgree ==
  ASSUME NEW h \in Halves
  PROVE  /\ DevIndex(CommandAddr(h)) = SemIndex(h)
         /\ SemIndex(h) \in Indices
<1>1. CASE h[3] = "first"
  <2> DEFINE l == h[1]
             n == h[2]
  <2>1. l \in 3..7 /\ n \in 0..7
    BY DEF Halves, Lines, Numbers
  <2>2. CommandAddr(h) = \h10000054 + (l - 3) * \h80 + n * \h10 + \h4
    BY <1>1 DEF CommandAddr, DevAddrBase, START_DEVREG
  <2>3. CommandAddr(h) - START_DEVREG = (l - 3) * 128 + n * 16 + 4
    BY <2>1, <2>2 DEF START_DEVREG
  <2> HIDE DEF l, n
  <2> DEFINE offset == CommandAddr(h) - START_DEVREG
  <2>4. offset = 16 * ((l - 3) * 8 + n) + 4
    BY <2>1, <2>3
  <2> HIDE DEF offset
  <2>5. offset \div 16 = (l - 3) * 8 + n /\ offset % 16 = 4
    BY <2>1, <2>4
  <2>6. DevIndex(CommandAddr(h)) = (l - 3) * 8 + n
    BY <2>5 DEF DevIndex, offset
  <2>7. SemIndex(h) = (l - 3) * 8 + n
    BY <1>1, <2>1 DEF SemIndex, l, n
  <2> QED BY <2>1, <2>6, <2>7 DEF Indices
<1>2. CASE h[3] = "transm"
  <2> DEFINE n == h[2]
  <2>1. h[1] = 7 /\ n \in 0..7
    BY <1>2 DEF Halves, Lines, Numbers, Terminal
  <2>2. CommandAddr(h) - START_DEVREG = 4 * 128 + n * 16 + 12
    BY <1>2, <2>1 DEF CommandAddr, DevAddrBase, START_DEVREG
  <2> HIDE DEF n
  <2> DEFINE offset == CommandAddr(h) - START_DEVREG
  <2>4. offset = 16 * (32 + n) + 12
    BY <2>1, <2>2
  <2> HIDE DEF offset
  <2>5. offset \div 16 = 32 + n /\ offset % 16 = 12
    BY <2>1, <2>4
  <2>6. DevIndex(CommandAddr(h)) = 40 + n
    BY <2>1, <2>5 DEF DevIndex, offset
  <2>7. SemIndex(h) = 40 + n
    BY <1>2, <2>1 DEF SemIndex, n
  <2> QED BY <2>1, <2>6, <2>7 DEF Indices
<1> QED BY <1>1, <1>2 DEF Halves

\* No two halves share a semaphore.
THEOREM IndicesDiffer ==
  ASSUME NEW g \in Halves, NEW h \in Halves, SemIndex(g) = SemIndex(h)
  PROVE  g = h
<1>1. /\ g = <<g[1], g[2], g[3]>> /\ h = <<h[1], h[2], h[3]>>
      /\ g[1] \in 3..7 /\ h[1] \in 3..7 /\ g[2] \in 0..7 /\ h[2] \in 0..7
      /\ g[3] \in {"first", "transm"} /\ h[3] \in {"first", "transm"}
      /\ (g[1] # 7 => g[3] = "first") /\ (h[1] # 7 => h[3] = "first")
  BY DEF Halves, Lines, Numbers, Terminal
<1>2. g[3] = h[3] /\ g[1] = h[1] /\ g[2] = h[2]
  <2>1. CASE g[3] = "first" /\ h[3] = "first"
    <3>1. (g[1] - 3) * 8 + g[2] = (h[1] - 3) * 8 + h[2]
      BY <1>1, <2>1 DEF SemIndex
    <3> QED BY <1>1, <2>1, <3>1
  <2>2. CASE g[3] = "transm" /\ h[3] = "transm"
    BY <1>1, <2>2 DEF SemIndex
  <2>3. CASE g[3] = "transm" /\ h[3] = "first"
    <3>1. (7 - 3) * 8 + g[2] + 8 = (h[1] - 3) * 8 + h[2]
      BY <1>1, <2>3 DEF SemIndex
    <3> QED BY <1>1, <3>1
  <2>4. CASE g[3] = "first" /\ h[3] = "transm"
    <3>1. (7 - 3) * 8 + h[2] + 8 = (g[1] - 3) * 8 + g[2]
      BY <1>1, <2>4 DEF SemIndex
    <3> QED BY <1>1, <3>1
  <2> QED BY <1>1, <2>1, <2>2, <2>3, <2>4
<1> QED BY <1>1, <1>2

----------------------------------------------------------------------------
(* The inductive invariant *)

Codes == {Ready, Busy, Done} \cup Failures

TypeOK ==
  /\ status \in [Halves -> Codes]
  /\ pending \in SUBSET Halves
  /\ sem \in [Indices -> Int]
  /\ queue \in [Indices -> Seq(Procs)]
  /\ asked \in [Procs -> Halves]
  /\ got \in [Procs -> Codes \cup {NULL}]

\* Without failures an interrupt is pending exactly where the status says so:
\* it is what leads handleDevice to the right half of a terminal.
PendingIsDone == \A h \in Halves : h \in pending <=> status[h] = Done

Mine(h) == {p \in Procs : got[p] = NULL /\ asked[p] = h}

\* OperationsMatchWaiters of one half.
Matched(h) ==
  /\ sem[SemIndex(h)] + Len(queue[SemIndex(h)]) = 0
  /\ status[h] = Busy \/ h \in pending =>
       \E p \in Mine(h) : Mine(h) = {p} /\ queue[SemIndex(h)] = <<p>>
  /\ ~(status[h] = Busy \/ h \in pending) =>
       Mine(h) = {} /\ queue[SemIndex(h)] = <<>>

IInv ==
  /\ TypeOK
  /\ PendingIsDone
  /\ \A h \in Halves : Matched(h)
  /\ ResultIsFinal

LEMMA MatchedIsMatch ==
  (\A h \in Halves : Matched(h)) <=> OperationsMatchWaiters
BY DEF Matched, Mine, OperationsMatchWaiters

LEMMA InitIInv == Init => IInv
<1> SUFFICES ASSUME Init PROVE IInv
  OBVIOUS
<1>1. \A h \in Halves : SemIndex(h) \in Indices
  BY IndicesAgree
<1>2. <<Terminal, 0, "transm">> \in Halves
  BY DEF Halves, Lines, Numbers, Terminal
<1>3. TypeOK
  BY <1>2 DEF Init, TypeOK, Codes
<1>4. PendingIsDone
  BY DEF Init, PendingIsDone, Ready, Done
<1>5. \A h \in Halves : Matched(h)
  <2> SUFFICES ASSUME NEW h \in Halves PROVE Matched(h)
    OBVIOUS
  <2>1. sem[SemIndex(h)] = 0 /\ queue[SemIndex(h)] = <<>>
    BY <1>1 DEF Init
  <2>2. status[h] # Busy /\ h \notin pending
    BY DEF Init, Ready, Busy
  <2>3. Mine(h) = {}
    BY NullAssumption DEF Init, Mine
  <2>4. sem[SemIndex(h)] + Len(queue[SemIndex(h)]) = 0
    BY <2>1
  <2> QED BY <2>1, <2>2, <2>3, <2>4 DEF Matched
<1>6. ResultIsFinal
  BY DEF Init, ResultIsFinal
<1> QED BY <1>3, <1>4, <1>5, <1>6 DEF IInv

\* A half whose registers and processes a step leaves alone stays matched.
LEMMA OthersStayMatched ==
  ASSUME NEW h \in Halves, Matched(h),
         sem'[SemIndex(h)] = sem[SemIndex(h)],
         queue'[SemIndex(h)] = queue[SemIndex(h)],
         status'[h] = status[h], h \in pending' <=> h \in pending,
         Mine(h)' = Mine(h)
  PROVE  Matched(h)'
BY DEF Matched

LEMMA DoIOStep ==
  ASSUME IInv, NEW p \in Procs, NEW h \in Halves, DoIO(p, h)
  PROVE  IInv'
<1> DEFINE i == SemIndex(h)
<1>1. i = DevIndex(CommandAddr(h)) /\ i \in Indices
  BY IndicesAgree
<1> HIDE DEF i
<1>2. /\ pending = {} /\ got[p] # NULL /\ status[h] # Busy
      /\ sem' = [sem EXCEPT ![i] = @ - 1]
      /\ queue' = [queue EXCEPT ![i] = Append(@, p)]
      /\ status' = [status EXCEPT ![h] = Busy]
      /\ asked' = [asked EXCEPT ![p] = h]
      /\ got' = [got EXCEPT ![p] = NULL]
      /\ pending' = pending
  BY <1>1 DEF DoIO
<1>3. TypeOK /\ PendingIsDone /\ ResultIsFinal /\ Matched(h)
  BY DEF IInv
<1>4. TypeOK'
  <2>1. queue' \in [Indices -> Seq(Procs)]
    BY <1>1, <1>2, <1>3 DEF TypeOK
  <2>2. sem' \in [Indices -> Int]
    BY <1>1, <1>2, <1>3 DEF TypeOK
  <2> QED BY <1>2, <1>3, <2>1, <2>2 DEF TypeOK, Codes
<1>5. PendingIsDone'
  BY <1>2, <1>3 DEF PendingIsDone, TypeOK, Busy, Done
<1>6. ResultIsFinal'
  BY <1>2, <1>3 DEF ResultIsFinal, TypeOK
<1>7. Matched(h)'
  <2>1. Mine(h) = {} /\ queue[i] = <<>> /\ sem[i] + Len(queue[i]) = 0
    BY <1>2, <1>3 DEF Matched, i
  <2>2. queue'[i] = <<p>> /\ sem'[i] + 1 = 0
    BY <1>1, <1>2, <1>3, <2>1 DEF TypeOK
  <2>3. Mine(h)' = {p}
    BY <1>2, <1>3, <2>1 DEF Mine, TypeOK
  <2>4. status'[h] = Busy
    BY <1>2, <1>3 DEF TypeOK
  <2> QED BY <2>2, <2>3, <2>4 DEF Matched, i
<1>8. ASSUME NEW g \in Halves, g # h PROVE Matched(g)'
  <2>1. SemIndex(g) \in Indices /\ SemIndex(g) # i
    BY <1>8, IndicesAgree, IndicesDiffer DEF i
  <2>2. sem'[SemIndex(g)] = sem[SemIndex(g)]
        /\ queue'[SemIndex(g)] = queue[SemIndex(g)]
    BY <1>2, <1>3, <2>1 DEF TypeOK
  <2>3. status'[g] = status[g]
    BY <1>2, <1>3, <1>8 DEF TypeOK
  <2>4. Mine(g)' = Mine(g)
    BY <1>2, <1>3, <1>8 DEF Mine, TypeOK
  <2> QED BY <1>2, <2>2, <2>3, <2>4, OthersStayMatched DEF IInv
<1> QED BY <1>4, <1>5, <1>6, <1>7, <1>8 DEF IInv

LEMMA CompleteStep ==
  ASSUME Failures = {}, IInv, NEW h \in Halves, Complete(h)
  PROVE  IInv'
<1>1. /\ status[h] = Busy
      /\ status' = [status EXCEPT ![h] = Done]
      /\ pending' = pending \cup {h}
      /\ UNCHANGED <<sem, queue, asked, got>>
  BY DEF Complete
<1>2. TypeOK /\ PendingIsDone /\ ResultIsFinal
  BY DEF IInv
<1>3. TypeOK'
  BY <1>1, <1>2 DEF TypeOK, Codes
<1>4. PendingIsDone'
  BY <1>1, <1>2 DEF PendingIsDone, TypeOK
<1>5. ResultIsFinal'
  BY <1>1, <1>2 DEF ResultIsFinal
<1>6. \A g \in Halves : Mine(g)' = Mine(g)
  BY <1>1 DEF Mine
<1>7. Matched(h)'
  BY <1>1, <1>6 DEF Matched, IInv
<1>8. ASSUME NEW g \in Halves, g # h PROVE Matched(g)'
  <2>1. status'[g] = status[g] /\ (g \in pending' <=> g \in pending)
    BY <1>1, <1>2, <1>8 DEF TypeOK
  <2> QED BY <1>1, <1>6, <2>1, OthersStayMatched DEF IInv
<1> QED BY <1>3, <1>4, <1>5, <1>7, <1>8 DEF IInv

\* The half that handleDevice serves is one whose interrupt is pending.
LEMMA ServedIsPending ==
  ASSUME IInv, NEW line \in Lines, \E h \in pending : h[1] = line
  PROVE  ServedHalf(line) \in pending
<1>1. TypeOK /\ PendingIsDone
  BY DEF IInv
<1> DEFINE n == DevNo(line)
           found == {k \in Numbers : \E h \in pending : h[1] = line /\ h[2] = k}
<1>2. found \in SUBSET (0..7) /\ found # {}
  BY <1>1 DEF TypeOK, Halves, Numbers
<1>3. \E k \in found : \A j \in found : k <= j
  <2> HIDE DEF found
  <2> SUFFICES ASSUME \A k \in found : \E j \in found : j < k PROVE FALSE
    BY <1>2
  <2>0. 0 \notin found
    BY <1>2
  <2>1. 1 \notin found
    BY <1>2, <2>0
  <2>2. 2 \notin found
    BY <1>2, <2>0, <2>1
  <2>3. 3 \notin found
    BY <1>2, <2>0, <2>1, <2>2
  <2>4. \A k \in found : k > 3
    BY <1>2, <2>0, <2>1, <2>2, <2>3
  <2>5. 4 \notin found
    BY <1>2, <2>4
  <2>6. 5 \notin found
    BY <1>2, <2>4, <2>5
  <2>7. 6 \notin found
    BY <1>2, <2>4, <2>5, <2>6
  <2>8. \A k \in found : k > 6
    BY <1>2, <2>4, <2>5, <2>6, <2>7
  <2>9. PICK k \in found : TRUE
    BY <1>2
  <2>10. PICK j \in found : j < k
    BY <2>9
  <2>11. j \in 0..7 /\ k \in 0..7 /\ j > 6 /\ k > 6
    BY <1>2, <2>8
  <2> QED BY <2>10, <2>11
<1>4. \E k \in Numbers : /\ \E h \in pending : h[1] = line /\ h[2] = k
                        /\ \A h \in pending : h[1] = line => k <= h[2]
  BY <1>1, <1>3 DEF TypeOK, Halves
<1>5. n \in Numbers /\ \E h \in pending : h[1] = line /\ h[2] = n
  BY <1>4 DEF DevNo
<1> HIDE DEF n
<1>6. PICK h \in pending : h[1] = line /\ h[2] = n
  BY <1>5
<1>7. h \in Halves /\ h = <<line, n, h[3]>> /\ h[3] \in {"first", "transm"}
      /\ (line # Terminal => h[3] = "first")
  BY <1>1, <1>6 DEF TypeOK, Halves
<1>8. CASE line = Terminal
  <2>1. <<line, n, "transm">> \in Halves
    BY <1>5, <1>8 DEF Halves
  <2>2. CASE status[<<line, n, "transm">>] = Done
    BY <1>1, <1>8, <2>1, <2>2 DEF ServedHalf, PendingIsDone, n
  <2>3. CASE status[<<line, n, "transm">>] # Done
    <3>1. h[3] = "first"
      BY <1>1, <1>6, <1>7, <2>3 DEF PendingIsDone
    <3> QED BY <1>6, <1>7, <1>8, <2>3, <3>1 DEF ServedHalf, n
  <2> QED BY <2>2, <2>3
<1>9. CASE line # Terminal
  BY <1>6, <1>7, <1>9 DEF ServedHalf, n
<1> QED BY <1>8, <1>9

LEMMA HandleDeviceStep ==
  ASSUME IInv, NEW line \in Lines, HandleDevice(line)
  PROVE  IInv'
<1>1. TypeOK /\ PendingIsDone /\ ResultIsFinal
  BY DEF IInv
<1>2. PICK h \in Halves : h = ServedHalf(line) /\ h \in pending
  BY <1>1, ServedIsPending DEF HandleDevice, TypeOK
<1> DEFINE i == SemIndex(h)
<1>3. /\ status' = [status EXCEPT ![h] = IF @ = Busy THEN Busy ELSE Ready]
      /\ pending' = pending \ {h}
      /\ sem' = [sem EXCEPT ![i] = @ + 1]
      /\ \/ /\ sem'[i] <= 0 /\ queue[i] # <<>>
            /\ queue' = [queue EXCEPT ![i] = Tail(@)]
            /\ got' = [got EXCEPT ![Head(queue[i])] = status[h]]
         \/ /\ sem'[i] > 0 \/ queue[i] = <<>>
            /\ UNCHANGED <<queue, got>>
      /\ asked' = asked
  BY <1>2 DEF HandleDevice
<1>4. i \in Indices /\ status[h] = Done /\ Matched(h)
  BY <1>1, <1>2, IndicesAgree DEF PendingIsDone, IInv
<1>5. PICK p \in Procs : Mine(h) = {p} /\ queue[i] = <<p>> /\ sem[i] + 1 = 0
  <2>1. PICK p \in Mine(h) : Mine(h) = {p} /\ queue[i] = <<p>>
    BY <1>2, <1>4 DEF Matched
  <2>2. p \in Procs /\ sem[i] + Len(queue[i]) = 0
    BY <1>4 DEF Matched, Mine
  <2>3. Len(queue[i]) = 1
    BY <2>1
  <2> QED BY <2>1, <2>2, <2>3
<1> HIDE DEF i
<1>6. sem'[i] = 0 /\ queue[i] # <<>> /\ Head(queue[i]) = p
      /\ Tail(queue[i]) = <<>>
  BY <1>1, <1>3, <1>4, <1>5 DEF TypeOK
<1>7. /\ queue' = [queue EXCEPT ![i] = <<>>]
      /\ got' = [got EXCEPT ![p] = Done]
      /\ status' = [status EXCEPT ![h] = Ready]
  <2>1. queue' = [queue EXCEPT ![i] = Tail(@)] /\ got' = [got EXCEPT ![p] = Done]
    BY <1>3, <1>4, <1>6
  <2>2. queue' = [queue EXCEPT ![i] = <<>>]
    BY <1>1, <1>4, <1>6, <2>1 DEF TypeOK
  <2>3. status[h] # Busy
    BY <1>4 DEF Busy, Done
  <2> QED BY <1>1, <1>2, <1>3, <2>1, <2>2, <2>3 DEF TypeOK
<1>8. TypeOK'
  <2>1. queue' \in [Indices -> Seq(Procs)]
    BY <1>1, <1>4, <1>7 DEF TypeOK
  <2>2. sem' \in [Indices -> Int]
    BY <1>1, <1>3, <1>4 DEF TypeOK
  <2>3. got' \in [Procs -> Codes \cup {NULL}]
        /\ status' \in [Halves -> Codes]
    BY <1>1, <1>5, <1>7 DEF TypeOK, Codes
  <2> QED BY <1>1, <1>3, <2>1, <2>2, <2>3 DEF TypeOK
<1>9. PendingIsDone'
  BY <1>1, <1>2, <1>3, <1>7 DEF PendingIsDone, TypeOK, Ready, Done
<1>10. ResultIsFinal'
  BY <1>1, <1>5, <1>7 DEF ResultIsFinal, TypeOK
<1>11. Done # NULL
  BY NullAssumption
<1>12. Matched(h)'
  <2>1. Mine(h)' = {}
    BY <1>1, <1>3, <1>5, <1>7, <1>11 DEF Mine, TypeOK
  <2>2. queue'[i] = <<>> /\ sem'[i] = 0 /\ h \notin pending'
        /\ status'[h] # Busy
    BY <1>1, <1>2, <1>3, <1>4, <1>6, <1>7 DEF TypeOK, Ready, Busy
  <2>3. sem'[i] + Len(queue'[i]) = 0
    BY <2>2
  <2> QED BY <2>1, <2>2, <2>3 DEF Matched, i
<1>13. ASSUME NEW g \in Halves, g # h PROVE Matched(g)'
  <2>1. SemIndex(g) \in Indices /\ SemIndex(g) # i
    BY <1>2, <1>13, IndicesAgree, IndicesDiffer DEF i
  <2>2. sem'[SemIndex(g)] = sem[SemIndex(g)]
        /\ queue'[SemIndex(g)] = queue[SemIndex(g)]
    BY <1>1, <1>3, <1>7, <2>1 DEF TypeOK
  <2>3. status'[g] = status[g] /\ (g \in pending' <=> g \in pending)
    BY <1>1, <1>3, <1>7, <1>13 DEF TypeOK
  <2>4. p \in Mine(h)
    BY <1>5
  <2>5. Mine(g)' = Mine(g)
    BY <1>1, <1>3, <1>7, <1>11, <1>13, <2>4 DEF Mine, TypeOK
  <2> QED BY <2>2, <2>3, <2>5, OthersStayMatched DEF IInv
<1> QED BY <1>8, <1>9, <1>10, <1>12, <1>13 DEF IInv

LEMMA NextIInv == Failures = {} /\ IInv /\ [Next]_vars => IInv'
<1> SUFFICES ASSUME Failures = {}, IInv, [Next]_vars PROVE IInv'
  OBVIOUS
<1>1. CASE \E p \in Procs, h \in Halves : DoIO(p, h)
  BY <1>1, DoIOStep
<1>2. CASE \E h \in Halves : Complete(h)
  BY <1>2, CompleteStep
<1>3. CASE \E line \in Lines : HandleDevice(line)
  BY <1>3, HandleDeviceStep
<1>4. CASE UNCHANGED vars
  BY <1>4 DEF vars, IInv, TypeOK, PendingIsDone, Matched, Mine, ResultIsFinal
<1> QED BY <1>1, <1>2, <1>3, <1>4 DEF Next

\* With any number of processes, if transmissions succeed: the index computed
\* when an operation begins and the one computed when it ends meet, and the
\* process in the queue is the one that asked.
THEOREM OperationsMeet ==
  ASSUME Failures = {}
  PROVE  Spec => []OperationsMatchWaiters
<1>1. Init => IInv
  BY InitIInv
<1>2. IInv /\ [Next]_vars => IInv'
  BY NextIInv
<1>3. IInv => OperationsMatchWaiters
  BY MatchedIsMatch DEF IInv
<1> QED BY <1>1, <1>2, <1>3, PTL DEF Spec

\* And no process is woken before its operation has ended.
THEOREM ResultsAreFinal ==
  ASSUME Failures = {}
  PROVE  Spec => []ResultIsFinal
<1>1. Init => IInv
  BY InitIInv
<1>2. IInv /\ [Next]_vars => IInv'
  BY NextIInv
<1>3. IInv => ResultIsFinal
  BY DEF IInv
<1> QED BY <1>1, <1>2, <1>3, PTL DEF Spec
============================================================================
