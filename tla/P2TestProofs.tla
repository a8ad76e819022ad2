---------------------------- MODULE P2TestProofs ----------------------------
(***************************************************************************)
(* The test of phase 2, in every instance and with any number of PCBs: the *)
(* nucleus's invariants hold in it, no test of it fails, its processes     *)
(* never wait all for one another, and it leaves a working terminal alone. *)
(*                                                                         *)
(* The proofs know a program by what its instructions may be (Lawful), and *)
(* a step by one of four kinds (StepView): an interrupt, an instruction of *)
(* the running process, the start of a process, and a termination.         *)
(***************************************************************************)
EXTENDS P2Test, ClientsProofs

----------------------------------------------------------------------------
(* The programs *)

\* The processes whose pid is stored.
Recorded == {"p2", "p3", "p4", "p4b", "p8root", "p9"}
Children == {"child1", "child2"}
LeafSet == {"p8leaf1", "p8leaf2", "p8leaf3", "p8leaf4"}

\* What p1 starts.
ByP1 == {"p2", "p3", "hp_p1", "hp_p2", "p4", "p5", "p6", "p7", "p9", "p8root"}

\* Instruction k of q's program may start r.
Makes(q, k, r) ==
  \/ q = "p1" /\ r \in ByP1
  \/ q = "p4" /\ k = 8 /\ r = "p4b"
  \/ q = "p9" /\ k = 4 /\ r = "p10"
  \/ q = "p8root" /\ <<k, r>> \in {<<4, "child1">>, <<5, "child2">>}
  \/ q = "child1" /\ <<k, r>> \in {<<5, "p8leaf1">>, <<6, "p8leaf2">>}
  \/ q = "child2" /\ <<k, r>> \in {<<5, "p8leaf3">>, <<6, "p8leaf4">>}

\* Instruction k of q's program S may be V(s).
Raises(q, S, k, s) ==
  \/ s = "sem_term_mut" /\ k > 1 /\ S[k-1] = WriteChar
  \/ s = "sem_testsem" /\ q = "p1" /\ k <= 3
  \/ s = "sem_startp2" /\ q = "p1" /\ \E j \in 1..k-1 : S[j] = Store("p2")
  \/ s = "s" /\ q = "p2" /\ k \in {6, 9}
  \/ s = "sem_endp2" /\ q = "p2" /\ k = 19
  \/ s = "sem_endp3" /\ q = "p3"
  \/ s = "sem_synp4" /\ q \in {"p4", "p4b"} /\ k = 5
  \/ s = "sem_endp4" /\ q = "p4" /\ k = 14
  \/ s = "sem_blkp4" /\ q = "p5" /\ k = 26
  \/ s = "sem_endp5" /\ q = "p5" /\ k = 27
  \/ s = "sem_endp8" /\ q = "p8root" /\ k = 10
  \/ k = 4 /\ \/ s = "endcreate0" /\ q = "p8leaf1"
              \/ s = "endcreate1" /\ q = "p8leaf2"
              \/ s = "endcreate2" /\ q = "p8leaf3"
              \/ s = "endcreate3" /\ q = "p8leaf4"

\* Instruction k of q's program S may be P(s).
Lowers(q, S, k, s) ==
  \/ s = "sem_term_mut"
  \/ s = "sem_testsem" /\ q = "p1" /\ k \in 5..7
  \/ s = "sem_startp2" /\ q = "p2" /\ k = 1
  \/ s = "s" /\ q = "p2" /\ k \in {7, 10}
  \/ s \in {"sem_endp2", "sem_endp3", "sem_endp5", "sem_endp8"} /\ q = "p1"
  \/ s = "sem_synp4" /\ q = "p4" /\ k \in {7, 10}
  \/ s = "sem_synp4" /\ q = "p4b" /\ k = 7
  \/ s = "sem_blkp4" /\ q \in {"p4", "p4b"} /\ k = 6
  \/ s = "sem_blkp4" /\ q = "p1" /\ k > 1 /\ \E j \in 1..k-1 : S[j] = P("sem_endp5")
  \/ s = "sem_endp4" /\ q = "p5" /\ k = 23
  \/ s = "sem_blkp8" /\ q \in Children /\ k = 7
  \/ s = "sem_blkp8" /\ q \in LeafSet /\ k = 5
  \/ s = "sem_blkp9" /\ q = "p9" /\ k = 5
  \/ q = "p8root" /\ \/ s = "endcreate0" /\ k = 6
                     \/ s = "endcreate1" /\ k = 7
                     \/ s = "endcreate2" /\ k = 8
                     \/ s = "endcreate3" /\ k = 9

\* Instruction k of q's program S may be Start(r): the only one, but for
\* p8root, and followed by the store of the pid.
Starts(q, S, k, r) ==
  /\ Makes(q, k, r)
  /\ r # "p8root" => \A j \in 1..Len(S) : S[j] = Start(r) => j = k
  /\ r = "p8root" => k > 1 /\ S[k-1] = Reset
  /\ r \in Recorded => k < Len(S) /\ S[k+1] = Store(r)

\* Instruction k of q's program S may be Store(x).
Stores(q, S, k, x) ==
  \/ x \in Recorded /\ k > 1 /\ S[k-1] = Start(x)
     /\ (x = "p8root" => k < Len(S) /\ S[k+1] = P("sem_endp8"))
  \/ x = "p1p2synch" /\ q = "p2" /\ k = 18
  \/ x = "P8Sems" /\ q = "p1"

\* Instruction k of q's program S may be Check(x).
Checks(q, S, k, x) ==
  \/ x = "p1p2synch" /\ q = "p1" /\ k > 1 /\ S[k-1] = P("sem_endp2")
  \/ x = "p2" /\ q = "p2" /\ k = 5
  \/ x = "p3" /\ q = "p3" /\ k = 11
  \/ x \in {"p4", "p4b"} /\ q = x /\ k = 4
  \/ x = "p8root" /\ q \in Children /\ k = 4
  \/ x = "p9" /\ q = "p10" /\ k = 4

\* Instruction k of q's program may be CheckSem(s, n).
ChecksSem(q, k, s, n) ==
  \/ s = "sem_testsem" /\ q = "p1" /\ <<k, n>> \in {<<4, 3>>, <<8, 0>>}
  \/ s = "s" /\ q = "p2" /\ k \in {8, 11} /\ n = 0

\* The processes that print one message, at their beginning.
Short == {"p4b", "p9", "p10", "p8root"} \cup Children \cup LeafSet
Leaving == {"p2", "p3", "p4", "p5", "p8root", "hp_p1", "hp_p2"}

\* What the last instruction of q's program may be.
Final(q, i) ==
  \/ i \in {Exit, KillParent, P("sem_blkp8"), P("sem_blkp9")}
  \/ i = Trap /\ q # "p5"
  \/ i = P("sem_synp4") /\ q = "p4b"

RightSems(q, S) ==
  \A k \in 1..Len(S) : \A s :
    /\ S[k] = V(s) => Raises(q, S, k, s)
    /\ S[k] = P(s) => Lowers(q, S, k, s)

RightStarts(q, S) ==
  \A k \in 1..Len(S) : \A r : S[k] = Start(r) => Starts(q, S, k, r)

RightValues(q, S) ==
  \A k \in 1..Len(S) :
    /\ \A x : S[k] = Store(x) => Stores(q, S, k, x)
    /\ \A x : S[k] = Check(x) => Checks(q, S, k, x)
    /\ \A s, n : S[k] = CheckSem(s, n) => ChecksSem(q, k, s, n)

RightWaits(q, S) ==
  \A k \in 1..Len(S) :
    /\ S[k] = WriteChar => k > 1 /\ S[k-1] = P("sem_term_mut")
    /\ S[k] = WriteChar /\ q \in Short => k = 2
    /\ S[k] \in {AwaitClock, AwaitAgain} => q \in {"p3", "p5"}

RightEnds(q, S) ==
  /\ \A k \in 1..Len(S) :
       /\ S[k] = Exit => q \in Leaving /\ k = Len(S)
       /\ S[k] = KillParent => q = "p10" /\ k = Len(S)
       /\ S[k] = Trap => q = "p5" \/ (q \in {"p1", "p6", "p7"} /\ k = Len(S))
  /\ Len(S) > 0 /\ Final(q, S[Len(S)])

\* What the invariants need to know of q's program S.
Lawful(q, S) ==
  /\ Len(S) \in Nat /\ RightSems(q, S) /\ RightStarts(q, S)
  /\ RightValues(q, S) /\ RightWaits(q, S) /\ RightEnds(q, S)

Opcode(i) == i[1]
Operand(i) == i[2]

\* Instructions differ where their fields do.
LEMMA Fields ==
  /\ \A s : Opcode(P(s)) = "PASSEREN" /\ Operand(P(s)) = s
  /\ \A s : Opcode(V(s)) = "VERHOGEN" /\ Operand(V(s)) = s
  /\ \A q : Opcode(Start(q)) = "CREATEPROCESS" /\ Operand(Start(q)) = q
  /\ \A x : Opcode(Store(x)) = "store" /\ Operand(Store(x)) = x
  /\ \A x : Opcode(Check(x)) = "check" /\ Operand(Check(x)) = x
  /\ \A s, n : /\ Opcode(CheckSem(s, n)) = "value"
               /\ Operand(CheckSem(s, n)) = s /\ CheckSem(s, n)[3] = n
  /\ Opcode(Exit) = "TERMPROCESS" /\ Operand(Exit) = "self"
  /\ Opcode(KillParent) = "TERMPROCESS" /\ Operand(KillParent) = "parent"
  /\ Opcode(WriteChar) = "DOIO"
  /\ Opcode(AwaitClock) = "CLOCKWAIT" /\ Opcode(AwaitAgain) = "CLOCKWAIT"
  /\ Operand(AwaitClock) = "once" /\ Operand(AwaitAgain) = "maybe"
  /\ Opcode(YieldCpu) = "YIELD" /\ Opcode(Trap) = "trap"
  /\ Reset = Store("P8Sems")
BY DEF Opcode, Operand, P, V, Start, Store, Check, CheckSem, Exit, KillParent,
       WriteChar, AwaitClock, AwaitAgain, YieldCpu, Trap, Reset

\* The instructions of p2, one by one.
LEMMA P2Text ==
  /\ Len(P2) = 20 /\ P2[1] = P("sem_startp2") /\ P2[2] = P("sem_term_mut")
  /\ P2[3] = WriteChar /\ P2[4] = V("sem_term_mut") /\ P2[5] = Check("p2")
  /\ P2[6] = V("s") /\ P2[7] = P("s") /\ P2[8] = CheckSem("s", 0)
  /\ P2[9] = V("s") /\ P2[10] = P("s") /\ P2[11] = CheckSem("s", 0)
  /\ P2[12] = P("sem_term_mut") /\ P2[13] = WriteChar
  /\ P2[14] = V("sem_term_mut") /\ P2[15] = P("sem_term_mut")
  /\ P2[16] = WriteChar /\ P2[17] = V("sem_term_mut")
  /\ P2[18] = Store("p1p2synch") /\ P2[19] = V("sem_endp2") /\ P2[20] = Exit
BY DEF P2, Message

\* No instruction of p2 is out of its place.
LEMMA P2IsLawful == Lawful("p2", P2)
<1> DEFINE S == P2
<1>1. /\ Len(S) = 20 /\ S[1] = P("sem_startp2") /\ S[2] = P("sem_term_mut")
      /\ S[3] = WriteChar /\ S[4] = V("sem_term_mut") /\ S[5] = Check("p2")
      /\ S[6] = V("s") /\ S[7] = P("s") /\ S[8] = CheckSem("s", 0)
      /\ S[9] = V("s") /\ S[10] = P("s") /\ S[11] = CheckSem("s", 0)
      /\ S[12] = P("sem_term_mut") /\ S[13] = WriteChar
      /\ S[14] = V("sem_term_mut") /\ S[15] = P("sem_term_mut")
      /\ S[16] = WriteChar /\ S[17] = V("sem_term_mut")
      /\ S[18] = Store("p1p2synch") /\ S[19] = V("sem_endp2") /\ S[20] = Exit
  BY P2Text
<1> HIDE DEF S
<1>2. RightSems("p2", S)
  BY <1>1, Fields DEF RightSems, Raises, Lowers, Children, LeafSet
<1>3. RightStarts("p2", S)
  BY <1>1, Fields DEF RightStarts, Starts, Makes, ByP1, Recorded
<1>4. RightValues("p2", S)
  BY <1>1, Fields DEF RightValues, Stores, Checks, ChecksSem, Recorded, Children
<1>5. RightWaits("p2", S)
  BY <1>1, Fields DEF RightWaits, Short, Children, LeafSet
<1>6. RightEnds("p2", S)
  BY <1>1, Fields DEF RightEnds, Leaving, Final
<1> QED BY <1>1, <1>2, <1>3, <1>4, <1>5, <1>6 DEF Lawful, S

\* The instructions of p3, one by one.
LEMMA P3Text ==
  /\ Len(P3) = 13 /\ P3[1] = AwaitClock /\ P3[2] = AwaitAgain
  /\ P3[3] = P("sem_term_mut") /\ P3[4] = WriteChar
  /\ P3[5] = V("sem_term_mut") /\ P3[6] = AwaitClock /\ P3[7] = AwaitClock
  /\ P3[8] = P("sem_term_mut") /\ P3[9] = WriteChar
  /\ P3[10] = V("sem_term_mut") /\ P3[11] = Check("p3")
  /\ P3[12] = V("sem_endp3") /\ P3[13] = Exit
BY DEF P3, Message

\* No instruction of p3 is out of its place.
LEMMA P3IsLawful == Lawful("p3", P3)
<1> DEFINE S == P3
<1>1. /\ Len(S) = 13 /\ S[1] = AwaitClock /\ S[2] = AwaitAgain
      /\ S[3] = P("sem_term_mut") /\ S[4] = WriteChar
      /\ S[5] = V("sem_term_mut") /\ S[6] = AwaitClock /\ S[7] = AwaitClock
      /\ S[8] = P("sem_term_mut") /\ S[9] = WriteChar
      /\ S[10] = V("sem_term_mut") /\ S[11] = Check("p3")
      /\ S[12] = V("sem_endp3") /\ S[13] = Exit
  BY P3Text
<1> HIDE DEF S
<1>2. RightSems("p3", S)
  BY <1>1, Fields DEF RightSems, Raises, Lowers, Children, LeafSet
<1>3. RightStarts("p3", S)
  BY <1>1, Fields DEF RightStarts, Starts, Makes, ByP1, Recorded
<1>4. RightValues("p3", S)
  BY <1>1, Fields DEF RightValues, Stores, Checks, ChecksSem, Recorded, Children
<1>5. RightWaits("p3", S)
  BY <1>1, Fields DEF RightWaits, Short, Children, LeafSet
<1>6. RightEnds("p3", S)
  BY <1>1, Fields DEF RightEnds, Leaving, Final
<1> QED BY <1>1, <1>2, <1>3, <1>4, <1>5, <1>6 DEF Lawful, S

\* The instructions of p4, one by one.
LEMMA P4Text ==
  /\ Len(P4) = 15 /\ P4[1] = P("sem_term_mut") /\ P4[2] = WriteChar
  /\ P4[3] = V("sem_term_mut") /\ P4[4] = Check("p4")
  /\ P4[5] = V("sem_synp4") /\ P4[6] = P("sem_blkp4")
  /\ P4[7] = P("sem_synp4") /\ P4[8] = Start("p4b") /\ P4[9] = Store("p4b")
  /\ P4[10] = P("sem_synp4") /\ P4[11] = P("sem_term_mut")
  /\ P4[12] = WriteChar /\ P4[13] = V("sem_term_mut")
  /\ P4[14] = V("sem_endp4") /\ P4[15] = Exit
BY DEF P4, Message

\* No instruction of p4 is out of its place.
LEMMA P4IsLawful == Lawful("p4", P4)
<1> DEFINE S == P4
<1>1. /\ Len(S) = 15 /\ S[1] = P("sem_term_mut") /\ S[2] = WriteChar
      /\ S[3] = V("sem_term_mut") /\ S[4] = Check("p4") /\ S[5] = V("sem_synp4")
      /\ S[6] = P("sem_blkp4") /\ S[7] = P("sem_synp4") /\ S[8] = Start("p4b")
      /\ S[9] = Store("p4b") /\ S[10] = P("sem_synp4")
      /\ S[11] = P("sem_term_mut") /\ S[12] = WriteChar
      /\ S[13] = V("sem_term_mut") /\ S[14] = V("sem_endp4") /\ S[15] = Exit
  BY P4Text
<1> HIDE DEF S
<1>2. RightSems("p4", S)
  BY <1>1, Fields DEF RightSems, Raises, Lowers, Children, LeafSet
<1>3. RightStarts("p4", S)
  BY <1>1, Fields DEF RightStarts, Starts, Makes, ByP1, Recorded
<1>4. RightValues("p4", S)
  BY <1>1, Fields DEF RightValues, Stores, Checks, ChecksSem, Recorded, Children
<1>5. RightWaits("p4", S)
  BY <1>1, Fields DEF RightWaits, Short, Children, LeafSet
<1>6. RightEnds("p4", S)
  BY <1>1, Fields DEF RightEnds, Leaving, Final
<1> QED BY <1>1, <1>2, <1>3, <1>4, <1>5, <1>6 DEF Lawful, S

\* The instructions of p4b, one by one.
LEMMA P4bText ==
  /\ Len(P4b) = 7 /\ P4b[1] = P("sem_term_mut") /\ P4b[2] = WriteChar
  /\ P4b[3] = V("sem_term_mut") /\ P4b[4] = Check("p4b")
  /\ P4b[5] = V("sem_synp4") /\ P4b[6] = P("sem_blkp4")
  /\ P4b[7] = P("sem_synp4")
BY DEF P4b, Message

\* No instruction of p4b is out of its place.
LEMMA P4bIsLawful == Lawful("p4b", P4b)
<1> DEFINE S == P4b
<1>1. /\ Len(S) = 7 /\ S[1] = P("sem_term_mut") /\ S[2] = WriteChar
      /\ S[3] = V("sem_term_mut") /\ S[4] = Check("p4b")
      /\ S[5] = V("sem_synp4") /\ S[6] = P("sem_blkp4") /\ S[7] = P("sem_synp4")
  BY P4bText
<1> HIDE DEF S
<1>2. RightSems("p4b", S)
  BY <1>1, Fields DEF RightSems, Raises, Lowers, Children, LeafSet
<1>3. RightStarts("p4b", S)
  BY <1>1, Fields DEF RightStarts, Starts, Makes, ByP1, Recorded
<1>4. RightValues("p4b", S)
  BY <1>1, Fields DEF RightValues, Stores, Checks, ChecksSem, Recorded, Children
<1>5. RightWaits("p4b", S)
  BY <1>1, Fields DEF RightWaits, Short, Children, LeafSet
<1>6. RightEnds("p4b", S)
  BY <1>1, Fields DEF RightEnds, Leaving, Final
<1> QED BY <1>1, <1>2, <1>3, <1>4, <1>5, <1>6 DEF Lawful, S

\* The instructions of p5, one by one.
LEMMA P5Text ==
  /\ Len(P5) = 28 /\ P5[1] = P("sem_term_mut") /\ P5[2] = WriteChar
  /\ P5[3] = V("sem_term_mut") /\ P5[4] = Trap /\ P5[5] = P("sem_term_mut")
  /\ P5[6] = WriteChar /\ P5[7] = V("sem_term_mut") /\ P5[8] = Trap
  /\ P5[9] = P("sem_term_mut") /\ P5[10] = WriteChar
  /\ P5[11] = V("sem_term_mut") /\ P5[12] = P("sem_term_mut")
  /\ P5[13] = WriteChar /\ P5[14] = V("sem_term_mut") /\ P5[15] = Trap
  /\ P5[16] = P("sem_term_mut") /\ P5[17] = WriteChar
  /\ P5[18] = V("sem_term_mut") /\ P5[19] = Trap
  /\ P5[20] = P("sem_term_mut") /\ P5[21] = WriteChar
  /\ P5[22] = V("sem_term_mut") /\ P5[23] = P("sem_endp4")
  /\ P5[24] = AwaitClock /\ P5[25] = AwaitAgain /\ P5[26] = V("sem_blkp4")
  /\ P5[27] = V("sem_endp5") /\ P5[28] = Exit
BY DEF P5, Message

\* No instruction of p5 is out of its place.
LEMMA P5IsLawful == Lawful("p5", P5)
<1> DEFINE S == P5
<1>1. /\ Len(S) = 28 /\ S[1] = P("sem_term_mut") /\ S[2] = WriteChar
      /\ S[3] = V("sem_term_mut") /\ S[4] = Trap /\ S[5] = P("sem_term_mut")
      /\ S[6] = WriteChar /\ S[7] = V("sem_term_mut") /\ S[8] = Trap
      /\ S[9] = P("sem_term_mut") /\ S[10] = WriteChar
      /\ S[11] = V("sem_term_mut") /\ S[12] = P("sem_term_mut")
      /\ S[13] = WriteChar /\ S[14] = V("sem_term_mut") /\ S[15] = Trap
      /\ S[16] = P("sem_term_mut") /\ S[17] = WriteChar
      /\ S[18] = V("sem_term_mut") /\ S[19] = Trap /\ S[20] = P("sem_term_mut")
      /\ S[21] = WriteChar /\ S[22] = V("sem_term_mut")
      /\ S[23] = P("sem_endp4") /\ S[24] = AwaitClock /\ S[25] = AwaitAgain
      /\ S[26] = V("sem_blkp4") /\ S[27] = V("sem_endp5") /\ S[28] = Exit
  BY P5Text
<1> HIDE DEF S
<1>2. RightSems("p5", S)
  BY <1>1, Fields DEF RightSems, Raises, Lowers, Children, LeafSet
<1>3. RightStarts("p5", S)
  BY <1>1, Fields DEF RightStarts, Starts, Makes, ByP1, Recorded
<1>4. RightValues("p5", S)
  BY <1>1, Fields DEF RightValues, Stores, Checks, ChecksSem, Recorded, Children
<1>5. RightWaits("p5", S)
  BY <1>1, Fields DEF RightWaits, Short, Children, LeafSet
<1>6. RightEnds("p5", S)
  BY <1>1, Fields DEF RightEnds, Leaving, Final
<1> QED BY <1>1, <1>2, <1>3, <1>4, <1>5, <1>6 DEF Lawful, S

\* The instructions of p6, one by one.
LEMMA P6Text ==
  /\ Len(P6) = 4 /\ P6[1] = P("sem_term_mut") /\ P6[2] = WriteChar
  /\ P6[3] = V("sem_term_mut") /\ P6[4] = Trap
BY DEF P6, Message

\* No instruction of p6 is out of its place.
LEMMA P6IsLawful == Lawful("p6", P6)
<1> DEFINE S == P6
<1>1. /\ Len(S) = 4 /\ S[1] = P("sem_term_mut") /\ S[2] = WriteChar
      /\ S[3] = V("sem_term_mut") /\ S[4] = Trap
  BY P6Text
<1> HIDE DEF S
<1>2. RightSems("p6", S)
  BY <1>1, Fields DEF RightSems, Raises, Lowers, Children, LeafSet
<1>3. RightStarts("p6", S)
  BY <1>1, Fields DEF RightStarts, Starts, Makes, ByP1, Recorded
<1>4. RightValues("p6", S)
  BY <1>1, Fields DEF RightValues, Stores, Checks, ChecksSem, Recorded, Children
<1>5. RightWaits("p6", S)
  BY <1>1, Fields DEF RightWaits, Short, Children, LeafSet
<1>6. RightEnds("p6", S)
  BY <1>1, Fields DEF RightEnds, Leaving, Final
<1> QED BY <1>1, <1>2, <1>3, <1>4, <1>5, <1>6 DEF Lawful, S

\* The instructions of p7, one by one.
LEMMA P7Text ==
  /\ Len(P7) = 4 /\ P7[1] = P("sem_term_mut") /\ P7[2] = WriteChar
  /\ P7[3] = V("sem_term_mut") /\ P7[4] = Trap
BY DEF P7, Message

\* No instruction of p7 is out of its place.
LEMMA P7IsLawful == Lawful("p7", P7)
<1> DEFINE S == P7
<1>1. /\ Len(S) = 4 /\ S[1] = P("sem_term_mut") /\ S[2] = WriteChar
      /\ S[3] = V("sem_term_mut") /\ S[4] = Trap
  BY P7Text
<1> HIDE DEF S
<1>2. RightSems("p7", S)
  BY <1>1, Fields DEF RightSems, Raises, Lowers, Children, LeafSet
<1>3. RightStarts("p7", S)
  BY <1>1, Fields DEF RightStarts, Starts, Makes, ByP1, Recorded
<1>4. RightValues("p7", S)
  BY <1>1, Fields DEF RightValues, Stores, Checks, ChecksSem, Recorded, Children
<1>5. RightWaits("p7", S)
  BY <1>1, Fields DEF RightWaits, Short, Children, LeafSet
<1>6. RightEnds("p7", S)
  BY <1>1, Fields DEF RightEnds, Leaving, Final
<1> QED BY <1>1, <1>2, <1>3, <1>4, <1>5, <1>6 DEF Lawful, S

\* The instructions of p8root, one by one.
LEMMA P8rootText ==
  /\ Len(P8root) = 11 /\ P8root[1] = P("sem_term_mut")
  /\ P8root[2] = WriteChar /\ P8root[3] = V("sem_term_mut")
  /\ P8root[4] = Start("child1") /\ P8root[5] = Start("child2")
  /\ P8root[6] = P("endcreate0") /\ P8root[7] = P("endcreate1")
  /\ P8root[8] = P("endcreate2") /\ P8root[9] = P("endcreate3")
  /\ P8root[10] = V("sem_endp8") /\ P8root[11] = Exit
BY DEF P8root, Message, EndCreate, Leaves

\* No instruction of p8root is out of its place.
LEMMA P8rootIsLawful == Lawful("p8root", P8root)
<1> DEFINE S == P8root
<1>1. /\ Len(S) = 11 /\ S[1] = P("sem_term_mut") /\ S[2] = WriteChar
      /\ S[3] = V("sem_term_mut") /\ S[4] = Start("child1")
      /\ S[5] = Start("child2") /\ S[6] = P("endcreate0")
      /\ S[7] = P("endcreate1") /\ S[8] = P("endcreate2")
      /\ S[9] = P("endcreate3") /\ S[10] = V("sem_endp8") /\ S[11] = Exit
  BY P8rootText
<1> HIDE DEF S
<1>2. RightSems("p8root", S)
  BY <1>1, Fields DEF RightSems, Raises, Lowers, Children, LeafSet
<1>3. RightStarts("p8root", S)
  BY <1>1, Fields DEF RightStarts, Starts, Makes, ByP1, Recorded
<1>4. RightValues("p8root", S)
  BY <1>1, Fields DEF RightValues, Stores, Checks, ChecksSem, Recorded, Children
<1>5. RightWaits("p8root", S)
  BY <1>1, Fields DEF RightWaits, Short, Children, LeafSet
<1>6. RightEnds("p8root", S)
  BY <1>1, Fields DEF RightEnds, Leaving, Final
<1> QED BY <1>1, <1>2, <1>3, <1>4, <1>5, <1>6 DEF Lawful, S

\* The instructions of child1, one by one.
LEMMA Child1Text ==
  /\ Len(Child(1, 2)) = 7 /\ Child(1, 2)[1] = P("sem_term_mut")
  /\ Child(1, 2)[2] = WriteChar /\ Child(1, 2)[3] = V("sem_term_mut")
  /\ Child(1, 2)[4] = Check("p8root") /\ Child(1, 2)[5] = Start("p8leaf1")
  /\ Child(1, 2)[6] = Start("p8leaf2") /\ Child(1, 2)[7] = P("sem_blkp8")
BY DEF Child, Message, Leaf

\* No instruction of child1 is out of its place.
LEMMA Child1IsLawful == Lawful("child1", Child(1, 2))
<1> DEFINE S == Child(1, 2)
<1>1. /\ Len(S) = 7 /\ S[1] = P("sem_term_mut") /\ S[2] = WriteChar
      /\ S[3] = V("sem_term_mut") /\ S[4] = Check("p8root")
      /\ S[5] = Start("p8leaf1") /\ S[6] = Start("p8leaf2")
      /\ S[7] = P("sem_blkp8")
  BY Child1Text
<1> HIDE DEF S
<1>2. RightSems("child1", S)
  BY <1>1, Fields DEF RightSems, Raises, Lowers, Children, LeafSet
<1>3. RightStarts("child1", S)
  BY <1>1, Fields DEF RightStarts, Starts, Makes, ByP1, Recorded
<1>4. RightValues("child1", S)
  BY <1>1, Fields DEF RightValues, Stores, Checks, ChecksSem, Recorded, Children
<1>5. RightWaits("child1", S)
  BY <1>1, Fields DEF RightWaits, Short, Children, LeafSet
<1>6. RightEnds("child1", S)
  BY <1>1, Fields DEF RightEnds, Leaving, Final
<1> QED BY <1>1, <1>2, <1>3, <1>4, <1>5, <1>6 DEF Lawful, S

\* The instructions of child2, one by one.
LEMMA Child2Text ==
  /\ Len(Child(3, 4)) = 7 /\ Child(3, 4)[1] = P("sem_term_mut")
  /\ Child(3, 4)[2] = WriteChar /\ Child(3, 4)[3] = V("sem_term_mut")
  /\ Child(3, 4)[4] = Check("p8root") /\ Child(3, 4)[5] = Start("p8leaf3")
  /\ Child(3, 4)[6] = Start("p8leaf4") /\ Child(3, 4)[7] = P("sem_blkp8")
BY DEF Child, Message, Leaf

\* No instruction of child2 is out of its place.
LEMMA Child2IsLawful == Lawful("child2", Child(3, 4))
<1> DEFINE S == Child(3, 4)
<1>1. /\ Len(S) = 7 /\ S[1] = P("sem_term_mut") /\ S[2] = WriteChar
      /\ S[3] = V("sem_term_mut") /\ S[4] = Check("p8root")
      /\ S[5] = Start("p8leaf3") /\ S[6] = Start("p8leaf4")
      /\ S[7] = P("sem_blkp8")
  BY Child2Text
<1> HIDE DEF S
<1>2. RightSems("child2", S)
  BY <1>1, Fields DEF RightSems, Raises, Lowers, Children, LeafSet
<1>3. RightStarts("child2", S)
  BY <1>1, Fields DEF RightStarts, Starts, Makes, ByP1, Recorded
<1>4. RightValues("child2", S)
  BY <1>1, Fields DEF RightValues, Stores, Checks, ChecksSem, Recorded, Children
<1>5. RightWaits("child2", S)
  BY <1>1, Fields DEF RightWaits, Short, Children, LeafSet
<1>6. RightEnds("child2", S)
  BY <1>1, Fields DEF RightEnds, Leaving, Final
<1> QED BY <1>1, <1>2, <1>3, <1>4, <1>5, <1>6 DEF Lawful, S

\* The instructions of p8leaf1, one by one.
LEMMA P8leaf1Text ==
  /\ Len(P8leaf(1)) = 5 /\ P8leaf(1)[1] = P("sem_term_mut")
  /\ P8leaf(1)[2] = WriteChar /\ P8leaf(1)[3] = V("sem_term_mut")
  /\ P8leaf(1)[4] = V("endcreate0") /\ P8leaf(1)[5] = P("sem_blkp8")
BY DEF P8leaf, Message, EndCreate

\* No instruction of p8leaf1 is out of its place.
LEMMA P8leaf1IsLawful == Lawful("p8leaf1", P8leaf(1))
<1> DEFINE S == P8leaf(1)
<1>1. /\ Len(S) = 5 /\ S[1] = P("sem_term_mut") /\ S[2] = WriteChar
      /\ S[3] = V("sem_term_mut") /\ S[4] = V("endcreate0")
      /\ S[5] = P("sem_blkp8")
  BY P8leaf1Text
<1> HIDE DEF S
<1>2. RightSems("p8leaf1", S)
  BY <1>1, Fields DEF RightSems, Raises, Lowers, Children, LeafSet
<1>3. RightStarts("p8leaf1", S)
  BY <1>1, Fields DEF RightStarts, Starts, Makes, ByP1, Recorded
<1>4. RightValues("p8leaf1", S)
  BY <1>1, Fields DEF RightValues, Stores, Checks, ChecksSem, Recorded, Children
<1>5. RightWaits("p8leaf1", S)
  BY <1>1, Fields DEF RightWaits, Short, Children, LeafSet
<1>6. RightEnds("p8leaf1", S)
  BY <1>1, Fields DEF RightEnds, Leaving, Final
<1> QED BY <1>1, <1>2, <1>3, <1>4, <1>5, <1>6 DEF Lawful, S

\* The instructions of p8leaf2, one by one.
LEMMA P8leaf2Text ==
  /\ Len(P8leaf(2)) = 5 /\ P8leaf(2)[1] = P("sem_term_mut")
  /\ P8leaf(2)[2] = WriteChar /\ P8leaf(2)[3] = V("sem_term_mut")
  /\ P8leaf(2)[4] = V("endcreate1") /\ P8leaf(2)[5] = P("sem_blkp8")
BY DEF P8leaf, Message, EndCreate

\* No instruction of p8leaf2 is out of its place.
LEMMA P8leaf2IsLawful == Lawful("p8leaf2", P8leaf(2))
<1> DEFINE S == P8leaf(2)
<1>1. /\ Len(S) = 5 /\ S[1] = P("sem_term_mut") /\ S[2] = WriteChar
      /\ S[3] = V("sem_term_mut") /\ S[4] = V("endcreate1")
      /\ S[5] = P("sem_blkp8")
  BY P8leaf2Text
<1> HIDE DEF S
<1>2. RightSems("p8leaf2", S)
  BY <1>1, Fields DEF RightSems, Raises, Lowers, Children, LeafSet
<1>3. RightStarts("p8leaf2", S)
  BY <1>1, Fields DEF RightStarts, Starts, Makes, ByP1, Recorded
<1>4. RightValues("p8leaf2", S)
  BY <1>1, Fields DEF RightValues, Stores, Checks, ChecksSem, Recorded, Children
<1>5. RightWaits("p8leaf2", S)
  BY <1>1, Fields DEF RightWaits, Short, Children, LeafSet
<1>6. RightEnds("p8leaf2", S)
  BY <1>1, Fields DEF RightEnds, Leaving, Final
<1> QED BY <1>1, <1>2, <1>3, <1>4, <1>5, <1>6 DEF Lawful, S

\* The instructions of p8leaf3, one by one.
LEMMA P8leaf3Text ==
  /\ Len(P8leaf(3)) = 5 /\ P8leaf(3)[1] = P("sem_term_mut")
  /\ P8leaf(3)[2] = WriteChar /\ P8leaf(3)[3] = V("sem_term_mut")
  /\ P8leaf(3)[4] = V("endcreate2") /\ P8leaf(3)[5] = P("sem_blkp8")
BY DEF P8leaf, Message, EndCreate

\* No instruction of p8leaf3 is out of its place.
LEMMA P8leaf3IsLawful == Lawful("p8leaf3", P8leaf(3))
<1> DEFINE S == P8leaf(3)
<1>1. /\ Len(S) = 5 /\ S[1] = P("sem_term_mut") /\ S[2] = WriteChar
      /\ S[3] = V("sem_term_mut") /\ S[4] = V("endcreate2")
      /\ S[5] = P("sem_blkp8")
  BY P8leaf3Text
<1> HIDE DEF S
<1>2. RightSems("p8leaf3", S)
  BY <1>1, Fields DEF RightSems, Raises, Lowers, Children, LeafSet
<1>3. RightStarts("p8leaf3", S)
  BY <1>1, Fields DEF RightStarts, Starts, Makes, ByP1, Recorded
<1>4. RightValues("p8leaf3", S)
  BY <1>1, Fields DEF RightValues, Stores, Checks, ChecksSem, Recorded, Children
<1>5. RightWaits("p8leaf3", S)
  BY <1>1, Fields DEF RightWaits, Short, Children, LeafSet
<1>6. RightEnds("p8leaf3", S)
  BY <1>1, Fields DEF RightEnds, Leaving, Final
<1> QED BY <1>1, <1>2, <1>3, <1>4, <1>5, <1>6 DEF Lawful, S

\* The instructions of p8leaf4, one by one.
LEMMA P8leaf4Text ==
  /\ Len(P8leaf(4)) = 5 /\ P8leaf(4)[1] = P("sem_term_mut")
  /\ P8leaf(4)[2] = WriteChar /\ P8leaf(4)[3] = V("sem_term_mut")
  /\ P8leaf(4)[4] = V("endcreate3") /\ P8leaf(4)[5] = P("sem_blkp8")
BY DEF P8leaf, Message, EndCreate

\* No instruction of p8leaf4 is out of its place.
LEMMA P8leaf4IsLawful == Lawful("p8leaf4", P8leaf(4))
<1> DEFINE S == P8leaf(4)
<1>1. /\ Len(S) = 5 /\ S[1] = P("sem_term_mut") /\ S[2] = WriteChar
      /\ S[3] = V("sem_term_mut") /\ S[4] = V("endcreate3")
      /\ S[5] = P("sem_blkp8")
  BY P8leaf4Text
<1> HIDE DEF S
<1>2. RightSems("p8leaf4", S)
  BY <1>1, Fields DEF RightSems, Raises, Lowers, Children, LeafSet
<1>3. RightStarts("p8leaf4", S)
  BY <1>1, Fields DEF RightStarts, Starts, Makes, ByP1, Recorded
<1>4. RightValues("p8leaf4", S)
  BY <1>1, Fields DEF RightValues, Stores, Checks, ChecksSem, Recorded, Children
<1>5. RightWaits("p8leaf4", S)
  BY <1>1, Fields DEF RightWaits, Short, Children, LeafSet
<1>6. RightEnds("p8leaf4", S)
  BY <1>1, Fields DEF RightEnds, Leaving, Final
<1> QED BY <1>1, <1>2, <1>3, <1>4, <1>5, <1>6 DEF Lawful, S

\* The instructions of p9, one by one.
LEMMA P9Text ==
  /\ Len(P9) = 5 /\ P9[1] = P("sem_term_mut") /\ P9[2] = WriteChar
  /\ P9[3] = V("sem_term_mut") /\ P9[4] = Start("p10")
  /\ P9[5] = P("sem_blkp9")
BY DEF P9, Message

\* No instruction of p9 is out of its place.
LEMMA P9IsLawful == Lawful("p9", P9)
<1> DEFINE S == P9
<1>1. /\ Len(S) = 5 /\ S[1] = P("sem_term_mut") /\ S[2] = WriteChar
      /\ S[3] = V("sem_term_mut") /\ S[4] = Start("p10")
      /\ S[5] = P("sem_blkp9")
  BY P9Text
<1> HIDE DEF S
<1>2. RightSems("p9", S)
  BY <1>1, Fields DEF RightSems, Raises, Lowers, Children, LeafSet
<1>3. RightStarts("p9", S)
  BY <1>1, Fields DEF RightStarts, Starts, Makes, ByP1, Recorded
<1>4. RightValues("p9", S)
  BY <1>1, Fields DEF RightValues, Stores, Checks, ChecksSem, Recorded, Children
<1>5. RightWaits("p9", S)
  BY <1>1, Fields DEF RightWaits, Short, Children, LeafSet
<1>6. RightEnds("p9", S)
  BY <1>1, Fields DEF RightEnds, Leaving, Final
<1> QED BY <1>1, <1>2, <1>3, <1>4, <1>5, <1>6 DEF Lawful, S

\* The instructions of p10, one by one.
LEMMA P10Text ==
  /\ Len(P10) = 5 /\ P10[1] = P("sem_term_mut") /\ P10[2] = WriteChar
  /\ P10[3] = V("sem_term_mut") /\ P10[4] = Check("p9")
  /\ P10[5] = KillParent
BY DEF P10, Message

\* No instruction of p10 is out of its place.
LEMMA P10IsLawful == Lawful("p10", P10)
<1> DEFINE S == P10
<1>1. /\ Len(S) = 5 /\ S[1] = P("sem_term_mut") /\ S[2] = WriteChar
      /\ S[3] = V("sem_term_mut") /\ S[4] = Check("p9") /\ S[5] = KillParent
  BY P10Text
<1> HIDE DEF S
<1>2. RightSems("p10", S)
  BY <1>1, Fields DEF RightSems, Raises, Lowers, Children, LeafSet
<1>3. RightStarts("p10", S)
  BY <1>1, Fields DEF RightStarts, Starts, Makes, ByP1, Recorded
<1>4. RightValues("p10", S)
  BY <1>1, Fields DEF RightValues, Stores, Checks, ChecksSem, Recorded, Children
<1>5. RightWaits("p10", S)
  BY <1>1, Fields DEF RightWaits, Short, Children, LeafSet
<1>6. RightEnds("p10", S)
  BY <1>1, Fields DEF RightEnds, Leaving, Final
<1> QED BY <1>1, <1>2, <1>3, <1>4, <1>5, <1>6 DEF Lawful, S

\* The instructions of hp_p1, one by one.
LEMMA HpP1Text ==
  /\ Len(HpP1) = 9 /\ HpP1[1] = P("sem_term_mut") /\ HpP1[2] = WriteChar
  /\ HpP1[3] = V("sem_term_mut") /\ HpP1[4] = YieldCpu /\ HpP1[5] = YieldCpu
  /\ HpP1[6] = P("sem_term_mut") /\ HpP1[7] = WriteChar
  /\ HpP1[8] = V("sem_term_mut") /\ HpP1[9] = Exit
BY DEF HpP1, Message

\* No instruction of hp_p1 is out of its place.
LEMMA HpP1IsLawful == Lawful("hp_p1", HpP1)
<1> DEFINE S == HpP1
<1>1. /\ Len(S) = 9 /\ S[1] = P("sem_term_mut") /\ S[2] = WriteChar
      /\ S[3] = V("sem_term_mut") /\ S[4] = YieldCpu /\ S[5] = YieldCpu
      /\ S[6] = P("sem_term_mut") /\ S[7] = WriteChar
      /\ S[8] = V("sem_term_mut") /\ S[9] = Exit
  BY HpP1Text
<1> HIDE DEF S
<1>2. RightSems("hp_p1", S)
  BY <1>1, Fields DEF RightSems, Raises, Lowers, Children, LeafSet
<1>3. RightStarts("hp_p1", S)
  BY <1>1, Fields DEF RightStarts, Starts, Makes, ByP1, Recorded
<1>4. RightValues("hp_p1", S)
  BY <1>1, Fields DEF RightValues, Stores, Checks, ChecksSem, Recorded, Children
<1>5. RightWaits("hp_p1", S)
  BY <1>1, Fields DEF RightWaits, Short, Children, LeafSet
<1>6. RightEnds("hp_p1", S)
  BY <1>1, Fields DEF RightEnds, Leaving, Final
<1> QED BY <1>1, <1>2, <1>3, <1>4, <1>5, <1>6 DEF Lawful, S

\* The instructions of hp_p2, one by one.
LEMMA HpP2Text ==
  /\ Len(HpP2) = 8 /\ HpP2[1] = P("sem_term_mut") /\ HpP2[2] = WriteChar
  /\ HpP2[3] = V("sem_term_mut") /\ HpP2[4] = YieldCpu
  /\ HpP2[5] = P("sem_term_mut") /\ HpP2[6] = WriteChar
  /\ HpP2[7] = V("sem_term_mut") /\ HpP2[8] = Exit
BY DEF HpP2, Message

\* No instruction of hp_p2 is out of its place.
LEMMA HpP2IsLawful == Lawful("hp_p2", HpP2)
<1> DEFINE S == HpP2
<1>1. /\ Len(S) = 8 /\ S[1] = P("sem_term_mut") /\ S[2] = WriteChar
      /\ S[3] = V("sem_term_mut") /\ S[4] = YieldCpu /\ S[5] = P("sem_term_mut")
      /\ S[6] = WriteChar /\ S[7] = V("sem_term_mut") /\ S[8] = Exit
  BY HpP2Text
<1> HIDE DEF S
<1>2. RightSems("hp_p2", S)
  BY <1>1, Fields DEF RightSems, Raises, Lowers, Children, LeafSet
<1>3. RightStarts("hp_p2", S)
  BY <1>1, Fields DEF RightStarts, Starts, Makes, ByP1, Recorded
<1>4. RightValues("hp_p2", S)
  BY <1>1, Fields DEF RightValues, Stores, Checks, ChecksSem, Recorded, Children
<1>5. RightWaits("hp_p2", S)
  BY <1>1, Fields DEF RightWaits, Short, Children, LeafSet
<1>6. RightEnds("hp_p2", S)
  BY <1>1, Fields DEF RightEnds, Leaving, Final
<1> QED BY <1>1, <1>2, <1>3, <1>4, <1>5, <1>6 DEF Lawful, S

----------------------------------------------------------------------------
(* p1's program, a sequence of parts *)

Words ==
  {P(s) : s \in {"sem_term_mut", "sem_testsem", "sem_endp2", "sem_endp3",
                 "sem_endp5", "sem_endp8", "sem_blkp4"}}
  \cup {V(s) : s \in {"sem_term_mut", "sem_testsem", "sem_startp2"}}
  \cup {Start(q) : q \in ByP1} \cup {Store(q) : q \in Recorded}
  \cup {CheckSem("sem_testsem", n) : n \in {0, 3}}
  \cup {WriteChar, Reset, Trap, Check("p1p2synch")}

\* A part of p1's program, which starts no process but those of A.  Only the
\* opening counts on its place in the program.
Segment(S, A, opening) ==
  /\ S \in Seq(Words)
  /\ RightSems("p1", S) /\ RightStarts("p1", S) /\ RightValues("p1", S)
  /\ RightWaits("p1", S)
  /\ \A k \in 1..Len(S) :
       /\ S[k] \notin {Exit, KillParent, Trap}
       /\ \A r : S[k] = Start(r) => r \in A
       /\ ~opening => /\ S[k] # V("sem_testsem") /\ S[k] # P("sem_testsem")
                      /\ \A s, n : S[k] # CheckSem(s, n)

\* Every instruction of p1 is one of Words.
LEMMA InWords ==
  /\ P("sem_term_mut") \in Words /\ P("sem_testsem") \in Words
  /\ P("sem_endp2") \in Words /\ P("sem_endp3") \in Words
  /\ P("sem_endp5") \in Words /\ P("sem_endp8") \in Words
  /\ P("sem_blkp4") \in Words /\ V("sem_term_mut") \in Words
  /\ V("sem_testsem") \in Words /\ V("sem_startp2") \in Words
  /\ \A q \in ByP1 : Start(q) \in Words
  /\ \A q \in Recorded : Store(q) \in Words
  /\ Start("p2") \in Words /\ Start("p3") \in Words /\ Start("p4") \in Words
  /\ Start("p9") \in Words /\ Start("p8root") \in Words
  /\ Store("p2") \in Words /\ Store("p3") \in Words /\ Store("p4") \in Words
  /\ Store("p9") \in Words /\ Store("p8root") \in Words
  /\ CheckSem("sem_testsem", 0) \in Words /\ CheckSem("sem_testsem", 3) \in Words
  /\ WriteChar \in Words /\ Reset \in Words /\ Trap \in Words
  /\ Check("p1p2synch") \in Words
BY DEF Words, ByP1, Recorded

\* print() is made of instructions of p1.
LEMMA MessageInWords == Message \in Seq(Words)
BY InWords DEF Message

\* The instructions of two parts of a program, one after the other.
LEMMA ConcatResult ==
  ASSUME NEW S \in Seq(Words), NEW T \in Seq(Words)
  PROVE  /\ S \o T \in Seq(Words) /\ Len(S \o T) = Len(S) + Len(T)
         /\ Len(S) \in Nat /\ Len(T) \in Nat
         /\ \A k \in 1..Len(S) : (S \o T)[k] = S[k]
         /\ \A k \in Len(S)+1..Len(S)+Len(T) : (S \o T)[k] = T[k - Len(S)]
         /\ \A k \in 1..Len(T) : (S \o T)[k + Len(S)] = T[k]
OBVIOUS

Opening ==
  <<V("sem_testsem"), V("sem_testsem"), V("sem_testsem"),
    CheckSem("sem_testsem", 3), P("sem_testsem"), P("sem_testsem"),
    P("sem_testsem"), CheckSem("sem_testsem", 0)>> \o Message

\* The instructions of p1 in the tests of sem_testsem.
LEMMA OpeningText ==
  /\ Opening \in Seq(Words)
  /\ Len(Opening) = 11 /\ Opening[1] = V("sem_testsem")
  /\ Opening[2] = V("sem_testsem") /\ Opening[3] = V("sem_testsem")
  /\ Opening[4] = CheckSem("sem_testsem", 3)
  /\ Opening[5] = P("sem_testsem") /\ Opening[6] = P("sem_testsem")
  /\ Opening[7] = P("sem_testsem")
  /\ Opening[8] = CheckSem("sem_testsem", 0)
  /\ Opening[9] = P("sem_term_mut") /\ Opening[10] = WriteChar
  /\ Opening[11] = V("sem_term_mut")
<1>1. Opening \in Seq(Words)
  <2> DEFINE Q1 == <<V("sem_testsem"), V("sem_testsem"), V("sem_testsem"), CheckSem("sem_testsem", 3), P("sem_testsem"), P("sem_testsem"), P("sem_testsem"), CheckSem("sem_testsem", 0)>>
  <2>1. Q1 \in Seq(Words)
    BY InWords
  <2> HIDE DEF Q1
  <2>2. Q1 \o Message \in Seq(Words)
    BY <2>1, MessageInWords, ConcatResult
  <2> QED BY <2>2 DEF Opening, Q1
<1> QED BY <1>1 DEF Opening, Message

\* In the tests of sem_testsem no instruction of p1 is out of its place.
LEMMA OpeningIsSegment == Segment(Opening, {}, TRUE)
<1> DEFINE S == Opening
<1>1. /\ S \in Seq(Words)
      /\ Len(S) = 11 /\ S[1] = V("sem_testsem") /\ S[2] = V("sem_testsem")
      /\ S[3] = V("sem_testsem") /\ S[4] = CheckSem("sem_testsem", 3)
      /\ S[5] = P("sem_testsem") /\ S[6] = P("sem_testsem")
      /\ S[7] = P("sem_testsem") /\ S[8] = CheckSem("sem_testsem", 0)
      /\ S[9] = P("sem_term_mut") /\ S[10] = WriteChar
      /\ S[11] = V("sem_term_mut")
  BY OpeningText
<1> HIDE DEF S
<1>2. RightSems("p1", S)
  BY <1>1, Fields DEF RightSems, Raises, Lowers, Children, LeafSet
<1>3. RightStarts("p1", S)
  BY <1>1, Fields DEF RightStarts, Starts, Makes, ByP1, Recorded
<1>4. RightValues("p1", S)
  BY <1>1, Fields DEF RightValues, Stores, Checks, ChecksSem, Recorded, Children
<1>5. RightWaits("p1", S)
  BY <1>1, Fields DEF RightWaits, Short, Children, LeafSet
<1>6. \A k \in 1..Len(S) :
        /\ S[k] \notin {Exit, KillParent, Trap}
        /\ \A r : S[k] = Start(r) => r \in {}
  BY <1>1, Fields
<1> QED BY <1>1, <1>2, <1>3, <1>4, <1>5, <1>6 DEF Segment, S

ForP2 ==
  <<Start("p2"), Store("p2")>> \o Message
    \o <<V("sem_startp2"), P("sem_endp2"), Check("p1p2synch")>>

\* The instructions of p1 in the part for p2.
LEMMA ForP2Text ==
  /\ ForP2 \in Seq(Words)
  /\ Len(ForP2) = 8 /\ ForP2[1] = Start("p2") /\ ForP2[2] = Store("p2")
  /\ ForP2[3] = P("sem_term_mut") /\ ForP2[4] = WriteChar
  /\ ForP2[5] = V("sem_term_mut") /\ ForP2[6] = V("sem_startp2")
  /\ ForP2[7] = P("sem_endp2") /\ ForP2[8] = Check("p1p2synch")
<1>1. ForP2 \in Seq(Words)
  <2> DEFINE Q1 == <<Start("p2"), Store("p2")>>
  <2> DEFINE Q3 == <<V("sem_startp2"), P("sem_endp2"), Check("p1p2synch")>>
  <2>1. Q1 \in Seq(Words) /\ Q3 \in Seq(Words)
    BY InWords
  <2> HIDE DEF Q1, Q3
  <2>2. Q1 \o Message \o Q3 \in Seq(Words)
    BY <2>1, MessageInWords, ConcatResult
  <2> QED BY <2>2 DEF ForP2, Q1, Q3
<1> QED BY <1>1 DEF ForP2, Message

\* In the part for p2 no instruction of p1 is out of its place.
LEMMA ForP2IsSegment == Segment(ForP2, {"p2"}, FALSE)
<1> DEFINE S == ForP2
<1>1. /\ S \in Seq(Words)
      /\ Len(S) = 8 /\ S[1] = Start("p2") /\ S[2] = Store("p2")
      /\ S[3] = P("sem_term_mut") /\ S[4] = WriteChar
      /\ S[5] = V("sem_term_mut") /\ S[6] = V("sem_startp2")
      /\ S[7] = P("sem_endp2") /\ S[8] = Check("p1p2synch")
  BY ForP2Text
<1> HIDE DEF S
<1>2. RightSems("p1", S)
  BY <1>1, Fields DEF RightSems, Raises, Lowers, Children, LeafSet
<1>3. RightStarts("p1", S)
  BY <1>1, Fields DEF RightStarts, Starts, Makes, ByP1, Recorded
<1>4. RightValues("p1", S)
  BY <1>1, Fields DEF RightValues, Stores, Checks, ChecksSem, Recorded, Children
<1>5. RightWaits("p1", S)
  BY <1>1, Fields DEF RightWaits, Short, Children, LeafSet
<1>6. \A k \in 1..Len(S) :
        /\ S[k] \notin {Exit, KillParent, Trap}
        /\ \A r : S[k] = Start(r) => r \in {"p2"}
        /\ S[k] # V("sem_testsem") /\ S[k] # P("sem_testsem")
        /\ \A s, n : S[k] # CheckSem(s, n)
  BY <1>1, Fields
<1> QED BY <1>1, <1>2, <1>3, <1>4, <1>5, <1>6 DEF Segment, S

ForP3 ==
  <<Start("p3"), Store("p3")>> \o Message \o <<P("sem_endp3")>>

\* The instructions of p1 in the part for p3.
LEMMA ForP3Text ==
  /\ ForP3 \in Seq(Words)
  /\ Len(ForP3) = 6 /\ ForP3[1] = Start("p3") /\ ForP3[2] = Store("p3")
  /\ ForP3[3] = P("sem_term_mut") /\ ForP3[4] = WriteChar
  /\ ForP3[5] = V("sem_term_mut") /\ ForP3[6] = P("sem_endp3")
<1>1. ForP3 \in Seq(Words)
  <2> DEFINE Q1 == <<Start("p3"), Store("p3")>>
  <2> DEFINE Q3 == <<P("sem_endp3")>>
  <2>1. Q1 \in Seq(Words) /\ Q3 \in Seq(Words)
    BY InWords
  <2> HIDE DEF Q1, Q3
  <2>2. Q1 \o Message \o Q3 \in Seq(Words)
    BY <2>1, MessageInWords, ConcatResult
  <2> QED BY <2>2 DEF ForP3, Q1, Q3
<1> QED BY <1>1 DEF ForP3, Message

\* In the part for p3 no instruction of p1 is out of its place.
LEMMA ForP3IsSegment == Segment(ForP3, {"p3"}, FALSE)
<1> DEFINE S == ForP3
<1>1. /\ S \in Seq(Words)
      /\ Len(S) = 6 /\ S[1] = Start("p3") /\ S[2] = Store("p3")
      /\ S[3] = P("sem_term_mut") /\ S[4] = WriteChar
      /\ S[5] = V("sem_term_mut") /\ S[6] = P("sem_endp3")
  BY ForP3Text
<1> HIDE DEF S
<1>2. RightSems("p1", S)
  BY <1>1, Fields DEF RightSems, Raises, Lowers, Children, LeafSet
<1>3. RightStarts("p1", S)
  BY <1>1, Fields DEF RightStarts, Starts, Makes, ByP1, Recorded
<1>4. RightValues("p1", S)
  BY <1>1, Fields DEF RightValues, Stores, Checks, ChecksSem, Recorded, Children
<1>5. RightWaits("p1", S)
  BY <1>1, Fields DEF RightWaits, Short, Children, LeafSet
<1>6. \A k \in 1..Len(S) :
        /\ S[k] \notin {Exit, KillParent, Trap}
        /\ \A r : S[k] = Start(r) => r \in {"p3"}
        /\ S[k] # V("sem_testsem") /\ S[k] # P("sem_testsem")
        /\ \A s, n : S[k] # CheckSem(s, n)
  BY <1>1, Fields
<1> QED BY <1>1, <1>2, <1>3, <1>4, <1>5, <1>6 DEF Segment, S

ForP4 ==
  <<Start("p4"), Store("p4")>>

\* The instructions of p1 in the part for p4.
LEMMA ForP4Text ==
  /\ ForP4 \in Seq(Words)
  /\ Len(ForP4) = 2 /\ ForP4[1] = Start("p4") /\ ForP4[2] = Store("p4")
<1>1. ForP4 \in Seq(Words)
  BY InWords DEF ForP4
<1> QED BY <1>1 DEF ForP4, Message

\* In the part for p4 no instruction of p1 is out of its place.
LEMMA ForP4IsSegment == Segment(ForP4, {"p4"}, FALSE)
<1> DEFINE S == ForP4
<1>1. /\ S \in Seq(Words)
      /\ Len(S) = 2 /\ S[1] = Start("p4") /\ S[2] = Store("p4")
  BY ForP4Text
<1> HIDE DEF S
<1>2. RightSems("p1", S)
  BY <1>1, Fields DEF RightSems, Raises, Lowers, Children, LeafSet
<1>3. RightStarts("p1", S)
  BY <1>1, Fields DEF RightStarts, Starts, Makes, ByP1, Recorded
<1>4. RightValues("p1", S)
  BY <1>1, Fields DEF RightValues, Stores, Checks, ChecksSem, Recorded, Children
<1>5. RightWaits("p1", S)
  BY <1>1, Fields DEF RightWaits, Short, Children, LeafSet
<1>6. \A k \in 1..Len(S) :
        /\ S[k] \notin {Exit, KillParent, Trap}
        /\ \A r : S[k] = Start(r) => r \in {"p4"}
        /\ S[k] # V("sem_testsem") /\ S[k] # P("sem_testsem")
        /\ \A s, n : S[k] # CheckSem(s, n)
  BY <1>1, Fields
<1> QED BY <1>1, <1>2, <1>3, <1>4, <1>5, <1>6 DEF Segment, S

ForP9 ==
  <<Start("p9"), Store("p9")>>

\* The instructions of p1 in the part for p9.
LEMMA ForP9Text ==
  /\ ForP9 \in Seq(Words)
  /\ Len(ForP9) = 2 /\ ForP9[1] = Start("p9") /\ ForP9[2] = Store("p9")
<1>1. ForP9 \in Seq(Words)
  BY InWords DEF ForP9
<1> QED BY <1>1 DEF ForP9, Message

\* In the part for p9 no instruction of p1 is out of its place.
LEMMA ForP9IsSegment == Segment(ForP9, {"p9"}, FALSE)
<1> DEFINE S == ForP9
<1>1. /\ S \in Seq(Words)
      /\ Len(S) = 2 /\ S[1] = Start("p9") /\ S[2] = Store("p9")
  BY ForP9Text
<1> HIDE DEF S
<1>2. RightSems("p1", S)
  BY <1>1, Fields DEF RightSems, Raises, Lowers, Children, LeafSet
<1>3. RightStarts("p1", S)
  BY <1>1, Fields DEF RightStarts, Starts, Makes, ByP1, Recorded
<1>4. RightValues("p1", S)
  BY <1>1, Fields DEF RightValues, Stores, Checks, ChecksSem, Recorded, Children
<1>5. RightWaits("p1", S)
  BY <1>1, Fields DEF RightWaits, Short, Children, LeafSet
<1>6. \A k \in 1..Len(S) :
        /\ S[k] \notin {Exit, KillParent, Trap}
        /\ \A r : S[k] = Start(r) => r \in {"p9"}
        /\ S[k] # V("sem_testsem") /\ S[k] # P("sem_testsem")
        /\ \A s, n : S[k] # CheckSem(s, n)
  BY <1>1, Fields
<1> QED BY <1>1, <1>2, <1>3, <1>4, <1>5, <1>6 DEF Segment, S

ForBoth ==
  <<P("sem_endp5")>> \o Message \o <<P("sem_blkp4")>>

\* The instructions of p1 in the wait for p4 and p5.
LEMMA ForBothText ==
  /\ ForBoth \in Seq(Words)
  /\ Len(ForBoth) = 5 /\ ForBoth[1] = P("sem_endp5")
  /\ ForBoth[2] = P("sem_term_mut") /\ ForBoth[3] = WriteChar
  /\ ForBoth[4] = V("sem_term_mut") /\ ForBoth[5] = P("sem_blkp4")
<1>1. ForBoth \in Seq(Words)
  <2> DEFINE Q1 == <<P("sem_endp5")>>
  <2> DEFINE Q3 == <<P("sem_blkp4")>>
  <2>1. Q1 \in Seq(Words) /\ Q3 \in Seq(Words)
    BY InWords
  <2> HIDE DEF Q1, Q3
  <2>2. Q1 \o Message \o Q3 \in Seq(Words)
    BY <2>1, MessageInWords, ConcatResult
  <2> QED BY <2>2 DEF ForBoth, Q1, Q3
<1> QED BY <1>1 DEF ForBoth, Message

\* In the wait for p4 and p5 no instruction of p1 is out of its place.
LEMMA ForBothIsSegment == Segment(ForBoth, {}, FALSE)
<1> DEFINE S == ForBoth
<1>1. /\ S \in Seq(Words)
      /\ Len(S) = 5 /\ S[1] = P("sem_endp5") /\ S[2] = P("sem_term_mut")
      /\ S[3] = WriteChar /\ S[4] = V("sem_term_mut") /\ S[5] = P("sem_blkp4")
  BY ForBothText
<1> HIDE DEF S
<1>2. RightSems("p1", S)
  BY <1>1, Fields DEF RightSems, Raises, Lowers, Children, LeafSet
<1>3. RightStarts("p1", S)
  BY <1>1, Fields DEF RightStarts, Starts, Makes, ByP1, Recorded
<1>4. RightValues("p1", S)
  BY <1>1, Fields DEF RightValues, Stores, Checks, ChecksSem, Recorded, Children
<1>5. RightWaits("p1", S)
  BY <1>1, Fields DEF RightWaits, Short, Children, LeafSet
<1>6. \A k \in 1..Len(S) :
        /\ S[k] \notin {Exit, KillParent, Trap}
        /\ \A r : S[k] = Start(r) => r \in {}
        /\ S[k] # V("sem_testsem") /\ S[k] # P("sem_testsem")
        /\ \A s, n : S[k] # CheckSem(s, n)
  BY <1>1, Fields
<1> QED BY <1>1, <1>2, <1>3, <1>4, <1>5, <1>6 DEF Segment, S

ForP8 ==
  P8Round \o P8Round

\* The instructions of p1 in the two rounds of p8.
LEMMA ForP8Text ==
  /\ ForP8 \in Seq(Words)
  /\ Len(ForP8) = 8 /\ ForP8[1] = Reset /\ ForP8[2] = Start("p8root")
  /\ ForP8[3] = Store("p8root") /\ ForP8[4] = P("sem_endp8")
  /\ ForP8[5] = Reset /\ ForP8[6] = Start("p8root")
  /\ ForP8[7] = Store("p8root") /\ ForP8[8] = P("sem_endp8")
<1>1. ForP8 \in Seq(Words)
  <2>1. P8Round \in Seq(Words)
    BY InWords DEF P8Round
  <2>2. P8Round \o P8Round \in Seq(Words)
    BY <2>1, MessageInWords, ConcatResult
  <2> QED BY <2>2 DEF ForP8
<1> QED BY <1>1 DEF ForP8, Message, P8Round

\* In the two rounds of p8 no instruction of p1 is out of its place.
LEMMA ForP8IsSegment == Segment(ForP8, {"p8root"}, FALSE)
<1> DEFINE S == ForP8
<1>1. /\ S \in Seq(Words)
      /\ Len(S) = 8 /\ S[1] = Reset /\ S[2] = Start("p8root")
      /\ S[3] = Store("p8root") /\ S[4] = P("sem_endp8") /\ S[5] = Reset
      /\ S[6] = Start("p8root") /\ S[7] = Store("p8root")
      /\ S[8] = P("sem_endp8")
  BY ForP8Text
<1> HIDE DEF S
<1>2. RightSems("p1", S)
  BY <1>1, Fields DEF RightSems, Raises, Lowers, Children, LeafSet
<1>3. RightStarts("p1", S)
  BY <1>1, Fields DEF RightStarts, Starts, Makes, ByP1, Recorded
<1>4. RightValues("p1", S)
  BY <1>1, Fields DEF RightValues, Stores, Checks, ChecksSem, Recorded, Children
<1>5. RightWaits("p1", S)
  BY <1>1, Fields DEF RightWaits, Short, Children, LeafSet
<1>6. \A k \in 1..Len(S) :
        /\ S[k] \notin {Exit, KillParent, Trap}
        /\ \A r : S[k] = Start(r) => r \in {"p8root"}
        /\ S[k] # V("sem_testsem") /\ S[k] # P("sem_testsem")
        /\ \A s, n : S[k] # CheckSem(s, n)
  BY <1>1, Fields
<1> QED BY <1>1, <1>2, <1>3, <1>4, <1>5, <1>6 DEF Segment, S

\* A part of p1 that is one instruction, a call that starts a process.
LEMMA SingleIsSegment ==
  ASSUME NEW r \in {"hp_p1", "hp_p2", "p5", "p6", "p7"}
  PROVE  Segment(<<Start(r)>>, {r}, FALSE)
<1> DEFINE S == <<Start(r)>>
<1>1. S \in Seq(Words) /\ Len(S) = 1 /\ S[1] = Start(r)
  BY InWords DEF ByP1
<1> HIDE DEF S
<1>2. RightSems("p1", S)
  BY <1>1, Fields DEF RightSems
<1>3. RightStarts("p1", S)
  BY <1>1, Fields DEF RightStarts, Starts, Makes, ByP1, Recorded
<1>4. RightValues("p1", S) /\ RightWaits("p1", S)
  BY <1>1, Fields DEF RightValues, RightWaits
<1>5. \A k \in 1..Len(S) :
        /\ S[k] \notin {Exit, KillParent, Trap}
        /\ \A x : S[k] = Start(x) => x \in {r}
        /\ S[k] # V("sem_testsem") /\ S[k] # P("sem_testsem")
        /\ \A s, n : S[k] # CheckSem(s, n)
  BY <1>1, Fields
<1> QED BY <1>1, <1>2, <1>3, <1>4, <1>5 DEF Segment, S

\* A part that is left out is a segment as well.
LEMMA PartIsSegment ==
  ASSUME NEW S, NEW A, NEW R, Segment(S, A, FALSE)
  PROVE  Segment(Part(R, S), A, FALSE)
<1>1. Segment(<<>>, A, FALSE)
  BY DEF Segment, RightSems, RightStarts, RightValues, RightWaits
<1> QED BY <1>1 DEF Part

\* Who raises and lowers a semaphore in p1's program.
LEMMA P1Sems ==
  ASSUME NEW S, NEW k, NEW s, s # "sem_testsem"
  PROVE  /\ Raises("p1", S, k, s) <=>
              \/ s = "sem_term_mut" /\ k > 1 /\ S[k-1] = WriteChar
              \/ s = "sem_startp2" /\ \E j \in 1..k-1 : S[j] = Store("p2")
         /\ Lowers("p1", S, k, s) <=>
              \/ s \in {"sem_term_mut", "sem_endp2", "sem_endp3", "sem_endp5",
                       "sem_endp8"}
              \/ s = "sem_blkp4" /\ k > 1
                 /\ \E j \in 1..k-1 : S[j] = P("sem_endp5")
BY DEF Raises, Lowers, Children, LeafSet

\* What p1's program stores and tests.
LEMMA P1Values ==
  ASSUME NEW S, NEW k, NEW x
  PROVE  /\ Stores("p1", S, k, x) <=>
              \/ /\ x \in Recorded /\ k > 1 /\ S[k-1] = Start(x)
                 /\ x = "p8root" => k < Len(S) /\ S[k+1] = P("sem_endp8")
              \/ x = "P8Sems"
         /\ Checks("p1", S, k, x) <=>
              x = "p1p2synch" /\ k > 1 /\ S[k-1] = P("sem_endp2")
BY DEF Stores, Checks, Children

\* Two parts one after the other.
LEMMA Joined ==
  ASSUME NEW S, NEW T, NEW A, NEW B, NEW o \in BOOLEAN,
         Segment(S, A, o), Segment(T, B, FALSE), A \cap B = {}
  PROVE  Segment(S \o T, A \cup B, o)
<1> DEFINE U == S \o T  m == Len(S)  n == Len(T)
<1>1. /\ U \in Seq(Words) /\ Len(U) = m + n /\ m \in Nat /\ n \in Nat
      /\ \A k \in 1..m : U[k] = S[k]
      /\ \A k \in m+1..m+n : U[k] = T[k - m]
      /\ \A k \in 1..n : U[k + m] = T[k]
  BY ConcatResult DEF Segment
<1>a. /\ 1..Len(S) = 1..m /\ 1..Len(T) = 1..n
      /\ RightSems("p1", S) /\ RightStarts("p1", S) /\ RightValues("p1", S)
      /\ RightWaits("p1", S)
      /\ RightSems("p1", T) /\ RightStarts("p1", T) /\ RightValues("p1", T)
      /\ RightWaits("p1", T)
  BY DEF Segment
<1>b. m = Len(S) /\ n = Len(T)
  OBVIOUS
<1> HIDE DEF U, m, n
<1>c. ASSUME NEW k \in 1..m
      PROVE  /\ U[k] = S[k] /\ (k > 1 => U[k-1] = S[k-1])
             /\ k < m => U[k+1] = S[k+1] /\ k < Len(U)
  BY <1>1
<1>d. ASSUME NEW k \in 1..n
      PROVE  /\ U[k+m] = T[k] /\ (k > 1 => U[k+m-1] = T[k-1] /\ k+m > 1)
             /\ k < n => U[k+m+1] = T[k+1] /\ k+m < Len(U)
  <2>1. k > 1 => k-1 \in 1..n /\ (k-1)+m = k+m-1
    BY <1>1
  <2>2. k < n => k+1 \in 1..n /\ (k+1)+m = k+m+1 /\ k+m < Len(U)
    BY <1>1
  <2> QED BY <1>1, <2>1, <2>2
<1>g. m \in Nat /\ n \in Nat /\ 1..m \subseteq Nat /\ 1..n \subseteq Nat /\ Len(U) \in Nat
  BY <1>1
<1>e. \A k \in 1..Len(U) : k \in 1..m \/ \E j \in 1..n : k = j + m
  <2>1. \A k \in 1..m+n : k \notin 1..m => k-m \in 1..n /\ k = (k-m)+m
    BY <1>1
  <2> QED BY <1>1, <2>1
<1>f. \A k \in 1..n : /\ T[k] # V("sem_testsem") /\ T[k] # P("sem_testsem")
                     /\ \A s, v : T[k] # CheckSem(s, v)
  BY <1>a DEF Segment
<1>2. RightSems("p1", U)
  <2>1. ASSUME NEW k \in 1..m, NEW s
        PROVE  /\ U[k] = V(s) => Raises("p1", U, k, s)
               /\ U[k] = P(s) => Lowers("p1", U, k, s)
    <3>1. /\ S[k] = V(s) => Raises("p1", S, k, s)
          /\ S[k] = P(s) => Lowers("p1", S, k, s)
      BY <1>a DEF RightSems
    <3> QED BY <1>1, <3>1 DEF Raises, Lowers
  <2>2. ASSUME NEW k \in 1..n, NEW s
        PROVE  /\ U[k+m] = V(s) => Raises("p1", U, k+m, s)
               /\ U[k+m] = P(s) => Lowers("p1", U, k+m, s)
    <3>1. /\ T[k] = V(s) => Raises("p1", T, k, s) /\ s # "sem_testsem"
          /\ T[k] = P(s) => Lowers("p1", T, k, s) /\ s # "sem_testsem"
      BY <1>a, <1>f DEF RightSems
    <3>2. \A i : (\E j \in 1..k-1 : T[j] = i) => \E j \in 1..k+m-1 : U[j] = i
      <4>1. \A j \in 1..k-1 : U[j+m] = T[j] /\ j+m \in 1..k+m-1
        BY <1>1
      <4> QED BY <4>1
    <3>3. U[k+m] = T[k]
      BY <1>d
    <3>4. Raises("p1", T, k, s) /\ s # "sem_testsem" => Raises("p1", U, k+m, s)
      <4>1. k > 1 => U[k+m-1] = T[k-1] /\ k+m > 1
        BY <1>d
      <4>2. ASSUME Raises("p1", T, k, s), s # "sem_testsem"
            PROVE  Raises("p1", U, k+m, s)
        <5>1. CASE s = "sem_term_mut" /\ k > 1 /\ T[k-1] = WriteChar
          BY <1>g, <4>1, <4>2, <5>1, P1Sems
        <5>2. CASE s = "sem_startp2" /\ \E j \in 1..k-1 : T[j] = Store("p2")
          <6>1. \E j \in 1..k+m-1 : U[j] = Store("p2")
            BY <3>2, <5>2
          <6> QED BY <1>g, <4>2, <5>2, <6>1, P1Sems
        <5> QED BY <4>2, <5>1, <5>2, P1Sems
      <4> QED BY <4>2
    <3>5. Lowers("p1", T, k, s) /\ s # "sem_testsem" => Lowers("p1", U, k+m, s)
      <4>1. k > 1 => k+m > 1
        BY <1>d
      <4>2. ASSUME Lowers("p1", T, k, s), s # "sem_testsem"
            PROVE  Lowers("p1", U, k+m, s)
        <5>1. CASE s \in {"sem_term_mut", "sem_endp2", "sem_endp3", "sem_endp5",
                         "sem_endp8"}
          BY <4>2, <5>1, P1Sems
        <5>2. CASE s = "sem_blkp4" /\ k > 1
                   /\ \E j \in 1..k-1 : T[j] = P("sem_endp5")
          BY <1>g, <3>2, <4>1, <4>2, <5>2, P1Sems
        <5> QED BY <4>2, <5>1, <5>2, P1Sems
      <4> QED BY <4>2
    <3> QED BY <3>1, <3>3, <3>4, <3>5
  <2> QED BY <1>e, <2>1, <2>2 DEF RightSems
<1>3. RightStarts("p1", U)
  <2>1. ASSUME NEW k \in 1..m, NEW r, U[k] = Start(r)
        PROVE  Starts("p1", U, k, r)
    <3>1. /\ Starts("p1", S, k, r) /\ r \in A
          /\ \A j \in 1..n : T[j] # Start(r)
      BY <1>1, <1>a, <2>1 DEF Segment, RightStarts
    <3>2. \A j \in 1..Len(U) : U[j] = Start(r) => j \in 1..m /\ S[j] = Start(r)
      BY <1>c, <1>d, <1>e, <3>1
    <3> QED BY <1>1, <1>b, <1>c, <3>1, <3>2 DEF Starts
  <2>2. ASSUME NEW k \in 1..n, NEW r, U[k+m] = Start(r)
        PROVE  Starts("p1", U, k+m, r)
    <3>1. /\ Starts("p1", T, k, r) /\ r \in B
          /\ \A j \in 1..m : S[j] # Start(r)
      <4>1. T[k] = Start(r)
        BY <1>d, <2>2
      <4>2. Starts("p1", T, k, r)
        BY <1>a, <1>b, <4>1 DEF RightStarts
      <4>3. r \in B
        BY <1>b, <4>1 DEF Segment
      <4>4. \A j \in 1..m : S[j] # Start(r)
        BY <1>b, <4>3 DEF Segment
      <4> QED BY <4>2, <4>3, <4>4
    <3>2. \A j \in 1..Len(U) : U[j] = Start(r) =>
            \E i \in 1..n : T[i] = Start(r) /\ j = i + m
      <4>1. SUFFICES ASSUME NEW i \in 1..n, U[i + m] = Start(r)
                     PROVE  T[i] = Start(r)
        BY <1>c, <1>e, <3>1
      <4> QED BY <1>d, <4>1
    <3>3. Makes("p1", k, r) => Makes("p1", k+m, r)
      BY DEF Makes
    <3>4. r # "p8root" => \A j \in 1..Len(U) : U[j] = Start(r) => j = k+m
      BY <1>a, <3>1, <3>2 DEF Starts
    <3>5. r = "p8root" => k+m > 1 /\ U[k+m-1] = Reset
      BY <1>d, <3>1 DEF Starts
    <3>6. r \in Recorded => k+m < Len(U) /\ U[k+m+1] = Store(r)
      BY <1>b, <1>d, <3>1 DEF Starts
    <3> QED BY <1>g, <3>1, <3>3, <3>4, <3>5, <3>6 DEF Starts
  <2> QED BY <1>e, <2>1, <2>2 DEF RightStarts
<1>4. RightValues("p1", U)
  <2>1. ASSUME NEW k \in 1..m
        PROVE  /\ \A x : U[k] = Store(x) => Stores("p1", U, k, x)
               /\ \A x : U[k] = Check(x) => Checks("p1", U, k, x)
               /\ \A s, v : U[k] = CheckSem(s, v) => ChecksSem("p1", k, s, v)
    <3>1. /\ \A x : S[k] = Store(x) => Stores("p1", S, k, x)
          /\ \A x : S[k] = Check(x) => Checks("p1", S, k, x)
          /\ \A s, v : S[k] = CheckSem(s, v) => ChecksSem("p1", k, s, v)
      BY <1>a DEF RightValues
    <3> QED BY <1>1, <1>b, <1>c, <3>1 DEF Stores, Checks
  <2>2. ASSUME NEW k \in 1..n
        PROVE  /\ \A x : U[k+m] = Store(x) => Stores("p1", U, k+m, x)
               /\ \A x : U[k+m] = Check(x) => Checks("p1", U, k+m, x)
               /\ \A s, v : U[k+m] # CheckSem(s, v)
    <3>1. /\ \A x : T[k] = Store(x) => Stores("p1", T, k, x)
          /\ \A x : T[k] = Check(x) => Checks("p1", T, k, x)
          /\ \A s, v : T[k] # CheckSem(s, v)
      BY <1>a, <1>f DEF RightValues
    <3>2. \A x : Stores("p1", T, k, x) => Stores("p1", U, k+m, x)
      <4>1. ASSUME NEW x, Stores("p1", T, k, x), x # "P8Sems"
            PROVE  Stores("p1", U, k+m, x)
        <5>1. /\ x \in Recorded /\ k > 1 /\ T[k-1] = Start(x)
              /\ x = "p8root" => k < n /\ T[k+1] = P("sem_endp8")
          BY <1>b, <4>1, P1Values
        <5>2. /\ k+m > 1 /\ U[k+m-1] = Start(x)
              /\ x = "p8root" => k+m < Len(U) /\ U[k+m+1] = P("sem_endp8")
          BY <1>d, <5>1
        <5> QED BY <1>g, <5>1, <5>2, P1Values
      <4> QED BY <4>1, P1Values
    <3>3. \A x : Checks("p1", T, k, x) => Checks("p1", U, k+m, x)
      BY <1>g, <1>d, P1Values
    <3> QED BY <1>d, <3>1, <3>2, <3>3
  <2> QED BY <1>e, <2>1, <2>2 DEF RightValues
<1>5. RightWaits("p1", U)
  <2>1. ASSUME NEW k \in 1..m
        PROVE  /\ U[k] = WriteChar => k > 1 /\ U[k-1] = P("sem_term_mut")
               /\ U[k] \notin {AwaitClock, AwaitAgain}
    BY <1>a, <1>c DEF RightWaits
  <2>2. ASSUME NEW k \in 1..n
        PROVE  /\ U[k+m] = WriteChar => U[k+m-1] = P("sem_term_mut") /\ k+m > 1
               /\ U[k+m] \notin {AwaitClock, AwaitAgain}
    BY <1>a, <1>d DEF RightWaits
  <2>3. ASSUME NEW k \in 1..Len(U)
        PROVE  /\ U[k] = WriteChar => U[k-1] = P("sem_term_mut") /\ k > 1
               /\ U[k] \notin {AwaitClock, AwaitAgain}
    <3>1. CASE k \in 1..m
      BY <2>1, <3>1
    <3>2. ASSUME NEW j \in 1..n, k = j+m
          PROVE  /\ U[k] = WriteChar => U[k-1] = P("sem_term_mut") /\ k > 1
                 /\ U[k] \notin {AwaitClock, AwaitAgain}
      BY <1>g, <2>2, <3>2
    <3> QED BY <1>e, <3>1, <3>2
  <2> QED BY <2>3 DEF RightWaits, Short, Children, LeafSet
<1>6. ASSUME NEW k \in 1..Len(U)
      PROVE  /\ U[k] \notin {Exit, KillParent, Trap}
             /\ \A r : U[k] = Start(r) => r \in A \cup B
             /\ ~o => /\ U[k] # V("sem_testsem") /\ U[k] # P("sem_testsem")
                      /\ \A s, v : U[k] # CheckSem(s, v)
  <2>1. (k \in 1..m /\ U[k] = S[k]) \/ \E j \in 1..n : U[k] = T[j]
    BY <1>c, <1>d, <1>e
  <2> QED BY <1>a, <2>1 DEF Segment
<1> QED BY <1>1, <1>2, <1>3, <1>4, <1>5, <1>6 DEF Segment, U

\* The instructions of print().
LEMMA MessageText ==
  /\ Len(Message) = 3 /\ Message[1] = P("sem_term_mut")
  /\ Message[2] = WriteChar /\ Message[3] = V("sem_term_mut")
BY DEF Message

\* In print() no instruction of p1 is out of its place.
LEMMA MessageIsSegment == Segment(Message, {}, FALSE)
<1> DEFINE S == Message
<1>1. /\ S \in Seq(Words) /\ Len(S) = 3 /\ S[1] = P("sem_term_mut")
      /\ S[2] = WriteChar /\ S[3] = V("sem_term_mut")
  BY MessageInWords, MessageText
<1> HIDE DEF S
<1>2. RightSems("p1", S)
  BY <1>1, Fields DEF RightSems, Raises, Lowers, Children, LeafSet
<1>3. RightStarts("p1", S) /\ RightValues("p1", S)
  BY <1>1, Fields DEF RightStarts, RightValues
<1>4. RightWaits("p1", S)
  BY <1>1, Fields DEF RightWaits, Short, Children, LeafSet
<1>5. \A k \in 1..Len(S) :
        /\ S[k] \notin {Exit, KillParent, Trap}
        /\ \A r : S[k] = Start(r) => r \in {}
        /\ S[k] # V("sem_testsem") /\ S[k] # P("sem_testsem")
        /\ \A s, n : S[k] # CheckSem(s, n)
  BY <1>1, Fields
<1> QED BY <1>1, <1>2, <1>3, <1>4, <1>5 DEF Segment, S

\* S begins with p1's opening.
Opens(S) == Len(S) >= 11 /\ \A k \in 1..11 : S[k] = Opening[k]

\* One more part.
LEMMA Longer ==
  ASSUME NEW S, NEW T, NEW A, NEW B, Segment(S, A, TRUE), Opens(S),
         Segment(T, B, FALSE), A \cap B = {}
  PROVE  Segment(S \o T, A \cup B, TRUE) /\ Opens(S \o T)
<1>1. Segment(S \o T, A \cup B, TRUE)
  <2>1. TRUE \in BOOLEAN
    OBVIOUS
  <2> QED BY ONLY <2>1, Segment(S, A, TRUE), Segment(T, B, FALSE), A \cap B = {}, Joined
<1>2. S \in Seq(Words) /\ T \in Seq(Words)
  BY DEF Segment
<1>3. /\ Len(S \o T) = Len(S) + Len(T) /\ Len(S) \in Nat /\ Len(T) \in Nat
      /\ \A k \in 1..Len(S) : (S \o T)[k] = S[k]
  BY <1>2, ConcatResult
<1>4. Opens(S \o T)
  <2>1. Len(S) >= 11 /\ \A k \in 1..11 : S[k] = Opening[k]
    BY DEF Opens
  <2>2. Len(S \o T) >= 11
    BY ONLY <1>3, <2>1
  <2>3. \A k \in 1..11 : k \in 1..Len(S)
    BY ONLY <1>3, <2>1
  <2>4. \A k \in 1..11 : (S \o T)[k] = Opening[k]
    BY ONLY <1>3, <2>1, <2>3
  <2> QED BY ONLY <2>2, <2>4 DEF Opens
<1> QED BY <1>1, <1>4

\* p1's program but its end.
LEMMA P1Body ==
  \E S, A : Segment(S, A, TRUE) /\ Opens(S) /\ P1 = S \o <<Trap>>
<1>0. Segment(Opening, {}, TRUE) /\ Opens(Opening)
  <2>1. Len(Opening) = 11
    BY OpeningText
  <2>2. Opens(Opening)
    BY <2>1 DEF Opens
  <2> QED BY <2>2, OpeningIsSegment
<1> DEFINE S0 == Opening
<1>1a. Segment(Part({"p2"}, ForP2), {"p2"}, FALSE)
  BY ForP2IsSegment, PartIsSegment
<1>2a. Segment(Part({"p3"}, ForP3), {"p3"}, FALSE)
  BY ForP3IsSegment, PartIsSegment
<1>3a. Segment(Part({"hp_p1"}, <<Start("hp_p1")>>), {"hp_p1"}, FALSE)
  BY SingleIsSegment, PartIsSegment
<1>4a. Segment(Part({"hp_p2"}, <<Start("hp_p2")>>), {"hp_p2"}, FALSE)
  BY SingleIsSegment, PartIsSegment
<1>5a. Segment(Part({"p4"}, ForP4), {"p4"}, FALSE)
  BY ForP4IsSegment, PartIsSegment
<1>6a. Segment(Part({"p5"}, <<Start("p5")>>), {"p5"}, FALSE)
  BY SingleIsSegment, PartIsSegment
<1>7a. Segment(Part({"p6"}, <<Start("p6")>>), {"p6"}, FALSE)
  BY SingleIsSegment, PartIsSegment
<1>8a. Segment(Part({"p7"}, <<Start("p7")>>), {"p7"}, FALSE)
  BY SingleIsSegment, PartIsSegment
<1>9a. Segment(Part({"p9"}, ForP9), {"p9"}, FALSE)
  BY ForP9IsSegment, PartIsSegment
<1>10a. Segment(Part({"p4", "p5"}, ForBoth), {}, FALSE)
  BY ForBothIsSegment, PartIsSegment
<1>11a. Segment(Part(P8Family, ForP8), {"p8root"}, FALSE)
  BY ForP8IsSegment, PartIsSegment
<1>12a. Segment(Message, {}, FALSE)
  BY MessageIsSegment
<1> DEFINE X1 == Part({"p2"}, ForP2)  S1 == S0 \o X1
<1> DEFINE X2 == Part({"p3"}, ForP3)  S2 == S1 \o X2
<1> DEFINE X3 == Part({"hp_p1"}, <<Start("hp_p1")>>)  S3 == S2 \o X3
<1> DEFINE X4 == Part({"hp_p2"}, <<Start("hp_p2")>>)  S4 == S3 \o X4
<1> DEFINE X5 == Part({"p4"}, ForP4)  S5 == S4 \o X5
<1> DEFINE X6 == Part({"p5"}, <<Start("p5")>>)  S6 == S5 \o X6
<1> DEFINE X7 == Part({"p6"}, <<Start("p6")>>)  S7 == S6 \o X7
<1> DEFINE X8 == Part({"p7"}, <<Start("p7")>>)  S8 == S7 \o X8
<1> DEFINE X9 == Part({"p9"}, ForP9)  S9 == S8 \o X9
<1> DEFINE X10 == Part({"p4", "p5"}, ForBoth)  S10 == S9 \o X10
<1> DEFINE X11 == Part(P8Family, ForP8)  S11 == S10 \o X11
<1> DEFINE X12 == Message  S12 == S11 \o X12
<1>s. P1 = S12 \o <<Trap>>
  BY DEF P1, Opening, ForP2, ForP3, ForP4, ForP9, ForBoth, ForP8
<1>b. Segment(S0, {}, TRUE) /\ Opens(S0)
  BY <1>0
<1>1c. Segment(X1, {"p2"}, FALSE)
  BY <1>1a
<1>2c. Segment(X2, {"p3"}, FALSE)
  BY <1>2a
<1>3c. Segment(X3, {"hp_p1"}, FALSE)
  BY <1>3a
<1>4c. Segment(X4, {"hp_p2"}, FALSE)
  BY <1>4a
<1>5c. Segment(X5, {"p4"}, FALSE)
  BY <1>5a
<1>6c. Segment(X6, {"p5"}, FALSE)
  BY <1>6a
<1>7c. Segment(X7, {"p6"}, FALSE)
  BY <1>7a
<1>8c. Segment(X8, {"p7"}, FALSE)
  BY <1>8a
<1>9c. Segment(X9, {"p9"}, FALSE)
  BY <1>9a
<1>10c. Segment(X10, {}, FALSE)
  BY <1>10a
<1>11c. Segment(X11, {"p8root"}, FALSE)
  BY <1>11a
<1>12c. Segment(X12, {}, FALSE)
  BY <1>12a
<1> HIDE DEF X1, X2, X3, X4, X5, X6, X7, X8, X9, X10, X11, X12, S0
<1>1. Segment(S1, {"p2"}, TRUE) /\ Opens(S1)
  <2>1. {} \cap {"p2"} = {} /\ {} \cup {"p2"} = {"p2"}
    OBVIOUS
  <2>2. Segment(S0 \o X1, {} \cup {"p2"}, TRUE) /\ Opens(S0 \o X1)
    BY <1>b, <1>1c, <2>1, Longer
  <2> QED BY <2>1, <2>2
<1> HIDE DEF S1
<1>2. Segment(S2, {"p2", "p3"}, TRUE) /\ Opens(S2)
  <2>1. {"p2"} \cap {"p3"} = {} /\ {"p2"} \cup {"p3"} = {"p2", "p3"}
    OBVIOUS
  <2>2. Segment(S1 \o X2, {"p2"} \cup {"p3"}, TRUE) /\ Opens(S1 \o X2)
    BY <1>1, <1>2c, <2>1, Longer
  <2> QED BY <2>1, <2>2
<1> HIDE DEF S2
<1>3. Segment(S3, {"p2", "p3", "hp_p1"}, TRUE) /\ Opens(S3)
  <2>1. {"p2", "p3"} \cap {"hp_p1"} = {} /\ {"p2", "p3"} \cup {"hp_p1"} = {"p2", "p3", "hp_p1"}
    OBVIOUS
  <2>2. Segment(S2 \o X3, {"p2", "p3"} \cup {"hp_p1"}, TRUE) /\ Opens(S2 \o X3)
    BY <1>2, <1>3c, <2>1, Longer
  <2> QED BY <2>1, <2>2
<1> HIDE DEF S3
<1>4. Segment(S4, {"p2", "p3", "hp_p1", "hp_p2"}, TRUE) /\ Opens(S4)
  <2>1. {"p2", "p3", "hp_p1"} \cap {"hp_p2"} = {} /\ {"p2", "p3", "hp_p1"} \cup {"hp_p2"} = {"p2", "p3", "hp_p1", "hp_p2"}
    OBVIOUS
  <2>2. Segment(S3 \o X4, {"p2", "p3", "hp_p1"} \cup {"hp_p2"}, TRUE) /\ Opens(S3 \o X4)
    BY <1>3, <1>4c, <2>1, Longer
  <2> QED BY <2>1, <2>2
<1> HIDE DEF S4
<1>5. Segment(S5, {"p2", "p3", "hp_p1", "hp_p2", "p4"}, TRUE) /\ Opens(S5)
  <2>1. {"p2", "p3", "hp_p1", "hp_p2"} \cap {"p4"} = {} /\ {"p2", "p3", "hp_p1", "hp_p2"} \cup {"p4"} = {"p2", "p3", "hp_p1", "hp_p2", "p4"}
    OBVIOUS
  <2>2. Segment(S4 \o X5, {"p2", "p3", "hp_p1", "hp_p2"} \cup {"p4"}, TRUE) /\ Opens(S4 \o X5)
    BY <1>4, <1>5c, <2>1, Longer
  <2> QED BY <2>1, <2>2
<1> HIDE DEF S5
<1>6. Segment(S6, {"p2", "p3", "hp_p1", "hp_p2", "p4", "p5"}, TRUE) /\ Opens(S6)
  <2>1. {"p2", "p3", "hp_p1", "hp_p2", "p4"} \cap {"p5"} = {} /\ {"p2", "p3", "hp_p1", "hp_p2", "p4"} \cup {"p5"} = {"p2", "p3", "hp_p1", "hp_p2", "p4", "p5"}
    OBVIOUS
  <2>2. Segment(S5 \o X6, {"p2", "p3", "hp_p1", "hp_p2", "p4"} \cup {"p5"}, TRUE) /\ Opens(S5 \o X6)
    BY <1>5, <1>6c, <2>1, Longer
  <2> QED BY <2>1, <2>2
<1> HIDE DEF S6
<1>7. Segment(S7, {"p2", "p3", "hp_p1", "hp_p2", "p4", "p5", "p6"}, TRUE) /\ Opens(S7)
  <2>1. {"p2", "p3", "hp_p1", "hp_p2", "p4", "p5"} \cap {"p6"} = {} /\ {"p2", "p3", "hp_p1", "hp_p2", "p4", "p5"} \cup {"p6"} = {"p2", "p3", "hp_p1", "hp_p2", "p4", "p5", "p6"}
    OBVIOUS
  <2>2. Segment(S6 \o X7, {"p2", "p3", "hp_p1", "hp_p2", "p4", "p5"} \cup {"p6"}, TRUE) /\ Opens(S6 \o X7)
    BY <1>6, <1>7c, <2>1, Longer
  <2> QED BY <2>1, <2>2
<1> HIDE DEF S7
<1>8. Segment(S8, {"p2", "p3", "hp_p1", "hp_p2", "p4", "p5", "p6", "p7"}, TRUE) /\ Opens(S8)
  <2>1. {"p2", "p3", "hp_p1", "hp_p2", "p4", "p5", "p6"} \cap {"p7"} = {} /\ {"p2", "p3", "hp_p1", "hp_p2", "p4", "p5", "p6"} \cup {"p7"} = {"p2", "p3", "hp_p1", "hp_p2", "p4", "p5", "p6", "p7"}
    OBVIOUS
  <2>2. Segment(S7 \o X8, {"p2", "p3", "hp_p1", "hp_p2", "p4", "p5", "p6"} \cup {"p7"}, TRUE) /\ Opens(S7 \o X8)
    BY <1>7, <1>8c, <2>1, Longer
  <2> QED BY <2>1, <2>2
<1> HIDE DEF S8
<1>9. Segment(S9, {"p2", "p3", "hp_p1", "hp_p2", "p4", "p5", "p6", "p7", "p9"}, TRUE) /\ Opens(S9)
  <2>1. {"p2", "p3", "hp_p1", "hp_p2", "p4", "p5", "p6", "p7"} \cap {"p9"} = {} /\ {"p2", "p3", "hp_p1", "hp_p2", "p4", "p5", "p6", "p7"} \cup {"p9"} = {"p2", "p3", "hp_p1", "hp_p2", "p4", "p5", "p6", "p7", "p9"}
    OBVIOUS
  <2>2. Segment(S8 \o X9, {"p2", "p3", "hp_p1", "hp_p2", "p4", "p5", "p6", "p7"} \cup {"p9"}, TRUE) /\ Opens(S8 \o X9)
    BY <1>8, <1>9c, <2>1, Longer
  <2> QED BY <2>1, <2>2
<1> HIDE DEF S9
<1>10. Segment(S10, {"p2", "p3", "hp_p1", "hp_p2", "p4", "p5", "p6", "p7", "p9"}, TRUE) /\ Opens(S10)
  <2>1. {"p2", "p3", "hp_p1", "hp_p2", "p4", "p5", "p6", "p7", "p9"} \cap {} = {} /\ {"p2", "p3", "hp_p1", "hp_p2", "p4", "p5", "p6", "p7", "p9"} \cup {} = {"p2", "p3", "hp_p1", "hp_p2", "p4", "p5", "p6", "p7", "p9"}
    OBVIOUS
  <2>2. Segment(S9 \o X10, {"p2", "p3", "hp_p1", "hp_p2", "p4", "p5", "p6", "p7", "p9"} \cup {}, TRUE) /\ Opens(S9 \o X10)
    BY <1>9, <1>10c, <2>1, Longer
  <2> QED BY <2>1, <2>2
<1> HIDE DEF S10
<1>11. Segment(S11, {"p2", "p3", "hp_p1", "hp_p2", "p4", "p5", "p6", "p7", "p9", "p8root"}, TRUE) /\ Opens(S11)
  <2>1. {"p2", "p3", "hp_p1", "hp_p2", "p4", "p5", "p6", "p7", "p9"} \cap {"p8root"} = {} /\ {"p2", "p3", "hp_p1", "hp_p2", "p4", "p5", "p6", "p7", "p9"} \cup {"p8root"} = {"p2", "p3", "hp_p1", "hp_p2", "p4", "p5", "p6", "p7", "p9", "p8root"}
    OBVIOUS
  <2>2. Segment(S10 \o X11, {"p2", "p3", "hp_p1", "hp_p2", "p4", "p5", "p6", "p7", "p9"} \cup {"p8root"}, TRUE) /\ Opens(S10 \o X11)
    BY <1>10, <1>11c, <2>1, Longer
  <2> QED BY <2>1, <2>2
<1> HIDE DEF S11
<1>12. Segment(S12, {"p2", "p3", "hp_p1", "hp_p2", "p4", "p5", "p6", "p7", "p9", "p8root"}, TRUE) /\ Opens(S12)
  <2>1. {"p2", "p3", "hp_p1", "hp_p2", "p4", "p5", "p6", "p7", "p9", "p8root"} \cap {} = {} /\ {"p2", "p3", "hp_p1", "hp_p2", "p4", "p5", "p6", "p7", "p9", "p8root"} \cup {} = {"p2", "p3", "hp_p1", "hp_p2", "p4", "p5", "p6", "p7", "p9", "p8root"}
    OBVIOUS
  <2>2. Segment(S11 \o X12, {"p2", "p3", "hp_p1", "hp_p2", "p4", "p5", "p6", "p7", "p9", "p8root"} \cup {}, TRUE) /\ Opens(S11 \o X12)
    BY <1>11, <1>12c, <2>1, Longer
  <2> QED BY <2>1, <2>2
<1> HIDE DEF S12
<1> QED BY <1>12, <1>s

\* No instruction of p1 is out of its place, whichever its parts are, and it
\* begins with the tests of sem_testsem.
LEMMA P1IsLawful == Lawful("p1", P1) /\ Opens(P1)
<1>1. PICK S, A : Segment(S, A, TRUE) /\ Opens(S) /\ P1 = S \o <<Trap>>
  BY P1Body
<1> DEFINE T == <<Trap>>  U == S \o T  m == Len(S)
<1>2. T \in Seq(Words) /\ Len(T) = 1 /\ T[1] = Trap
  BY InWords
<1>3. S \in Seq(Words)
  BY <1>1 DEF Segment
<1> HIDE DEF T
<1>4. /\ Len(U) = m + 1 /\ m \in Nat
      /\ \A k \in 1..m : U[k] = S[k]
      /\ U[m + 1] = Trap
  <2>1. U[1 + m] = T[1] /\ Len(U) = m + 1 /\ m \in Nat /\ \A k \in 1..m : U[k] = S[k]
    BY <1>2, <1>3, ConcatResult
  <2> QED BY <1>2, <2>1
<1>5. U = P1
  BY <1>1 DEF T
<1>a. /\ 1..Len(S) = 1..m /\ m = Len(S)
      /\ RightSems("p1", S) /\ RightStarts("p1", S) /\ RightValues("p1", S)
      /\ RightWaits("p1", S)
  BY <1>1 DEF Segment
<1> HIDE DEF U, m
<1>6. \A k \in 1..Len(U) : k \in 1..m \/ k = m + 1
  BY <1>4
<1>7. ASSUME NEW k \in 1..m
      PROVE  /\ U[k] = S[k] /\ (k > 1 => U[k-1] = S[k-1])
             /\ k < m => U[k+1] = S[k+1]
             /\ k < Len(U) /\ \A j \in 1..k-1 : U[j] = S[j]
  BY <1>4
<1>8. RightSems("p1", U)
  <2>1. ASSUME NEW k \in 1..m, NEW s
        PROVE  /\ U[k] = V(s) => Raises("p1", U, k, s)
               /\ U[k] = P(s) => Lowers("p1", U, k, s)
    <3>1. /\ S[k] = V(s) => Raises("p1", S, k, s)
          /\ S[k] = P(s) => Lowers("p1", S, k, s)
      BY <1>a DEF RightSems
    <3> QED BY <1>4, <1>7, <3>1 DEF Raises, Lowers
  <2> QED BY <1>4, <1>6, <2>1, Fields DEF RightSems
<1>9. RightStarts("p1", U)
  <2>1. ASSUME NEW k \in 1..m, NEW r, U[k] = Start(r)
        PROVE  Starts("p1", U, k, r)
    <3>1. Starts("p1", S, k, r)
      BY <1>7, <1>a, <2>1 DEF RightStarts
    <3>2. \A j \in 1..Len(U) : U[j] = Start(r) => j \in 1..m /\ S[j] = Start(r)
      BY <1>4, <1>6, <1>7, Fields
    <3> QED BY <1>a, <1>7, <3>1, <3>2 DEF Starts
  <2> QED BY <1>4, <1>6, <2>1, Fields DEF RightStarts
<1>10. RightValues("p1", U)
  <2>1. ASSUME NEW k \in 1..m
        PROVE  /\ \A x : U[k] = Store(x) => Stores("p1", U, k, x)
               /\ \A x : U[k] = Check(x) => Checks("p1", U, k, x)
               /\ \A s, v : U[k] = CheckSem(s, v) => ChecksSem("p1", k, s, v)
    <3>1. /\ \A x : S[k] = Store(x) => Stores("p1", S, k, x)
          /\ \A x : S[k] = Check(x) => Checks("p1", S, k, x)
          /\ \A s, v : S[k] = CheckSem(s, v) => ChecksSem("p1", k, s, v)
      BY <1>a DEF RightValues
    <3>2. ASSUME NEW x, Stores("p1", S, k, x) PROVE Stores("p1", U, k, x)
      <4>1. \/ /\ x \in Recorded /\ k > 1 /\ S[k-1] = Start(x)
               /\ x = "p8root" => k < m /\ S[k+1] = P("sem_endp8")
            \/ x = "P8Sems"
        BY ONLY <1>a, <3>2, P1Values
      <4>2. \/ /\ x \in Recorded /\ k > 1 /\ U[k-1] = Start(x)
               /\ x = "p8root" => k < Len(U) /\ U[k+1] = P("sem_endp8")
            \/ x = "P8Sems"
        BY <1>7, <4>1
      <4> QED BY ONLY <4>2, P1Values
    <3>3. ASSUME NEW x, Checks("p1", S, k, x) PROVE Checks("p1", U, k, x)
      BY <1>7, <3>3, P1Values
    <3>4. U[k] = S[k]
      BY <1>7
    <3> QED BY <3>1, <3>2, <3>3, <3>4
  <2> QED BY <1>4, <1>6, <2>1, Fields DEF RightValues
<1>11. RightWaits("p1", U)
  <2>1. ASSUME NEW k \in 1..m
        PROVE  /\ U[k] = WriteChar => U[k-1] = P("sem_term_mut") /\ k > 1
               /\ U[k] \notin {AwaitClock, AwaitAgain}
    BY <1>a, <1>7 DEF RightWaits
  <2>2. ASSUME NEW k \in 1..Len(U)
        PROVE  /\ U[k] = WriteChar => U[k-1] = P("sem_term_mut") /\ k > 1
               /\ U[k] \notin {AwaitClock, AwaitAgain}
    BY <1>4, <1>6, <2>1, Fields
  <2> QED BY <2>2 DEF RightWaits, Short, Children, LeafSet
<1>12. RightEnds("p1", U)
  <2>1. ASSUME NEW k \in 1..Len(U)
        PROVE  /\ U[k] # Exit /\ U[k] # KillParent
               /\ U[k] = Trap => k = Len(U)
    <3>1. \A j \in 1..m : S[j] \notin {Exit, KillParent, Trap}
      BY <1>1, <1>a DEF Segment
    <3> QED BY <1>4, <1>6, <1>7, <3>1, Fields
  <2> QED BY <1>4, <2>1 DEF RightEnds, Final, Leaving
<1>13. Opens(U)
  BY <1>1, <1>4, <1>a DEF Opens
<1> QED BY <1>4, <1>5, <1>8, <1>9, <1>10, <1>11, <1>12, <1>13 DEF Lawful

----------------------------------------------------------------------------
(* The program of every process *)

\* The programs of the leaves of p8.
LEMMA LeafPrograms ==
  /\ Program("p8leaf1") = P8leaf(1) /\ Program("p8leaf2") = P8leaf(2)
  /\ Program("p8leaf3") = P8leaf(3) /\ Program("p8leaf4") = P8leaf(4)
<1>1. \A n \in Leaves : (CHOOSE m \in Leaves : Leaf[m] = Leaf[n]) = n
  <2>1. \A m, n \in Leaves : Leaf[m] = Leaf[n] => m = n
    BY DEF Leaves, Leaf
  <2> QED BY <2>1
<1>2. /\ 1 \in Leaves /\ Leaf[1] = "p8leaf1" /\ 2 \in Leaves /\ Leaf[2] = "p8leaf2"
      /\ 3 \in Leaves /\ Leaf[3] = "p8leaf3" /\ 4 \in Leaves /\ Leaf[4] = "p8leaf4"
  BY DEF Leaves, Leaf
<1>3. /\ (CHOOSE m \in Leaves : Leaf[m] = "p8leaf1") = 1
      /\ (CHOOSE m \in Leaves : Leaf[m] = "p8leaf2") = 2
      /\ (CHOOSE m \in Leaves : Leaf[m] = "p8leaf3") = 3
      /\ (CHOOSE m \in Leaves : Leaf[m] = "p8leaf4") = 4
  BY <1>1, <1>2
<1> QED BY <1>3 DEF Program

\* The programs of the other processes.
LEMMA Programs ==
  /\ Program("p1") = P1 /\ Program("p2") = P2 /\ Program("p3") = P3
  /\ Program("p4") = P4 /\ Program("p4b") = P4b /\ Program("p5") = P5
  /\ Program("p6") = P6 /\ Program("p7") = P7 /\ Program("p9") = P9
  /\ Program("p10") = P10 /\ Program("hp_p1") = HpP1
  /\ Program("hp_p2") = HpP2 /\ Program("p8root") = P8root
  /\ Program("child1") = Child(1, 2) /\ Program("child2") = Child(3, 4)
BY DEF Program

\* The processes by their names.
LEMMA ProcessNames ==
  Processes = {"p1", "p2", "p3", "hp_p1", "hp_p2", "p4", "p4b", "p5", "p6", "p7",
               "p9", "p10", "p8root", "child1", "child2",
               "p8leaf1", "p8leaf2", "p8leaf3", "p8leaf4"}
<1>1. Range(Leaf) = {"p8leaf1", "p8leaf2", "p8leaf3", "p8leaf4"}
  BY DEF Range, Leaf
<1> QED BY <1>1 DEF Processes, P8Family

\* The programs of all processes are lawful.
LEMMA AllLawful == \A q \in Processes : Lawful(q, Program(q))
<1>1. /\ Lawful("p1", Program("p1")) /\ Lawful("p2", Program("p2"))
      /\ Lawful("p3", Program("p3")) /\ Lawful("p4", Program("p4"))
      /\ Lawful("p4b", Program("p4b")) /\ Lawful("p5", Program("p5"))
      /\ Lawful("p6", Program("p6")) /\ Lawful("p7", Program("p7"))
      /\ Lawful("p9", Program("p9")) /\ Lawful("p10", Program("p10"))
      /\ Lawful("hp_p1", Program("hp_p1")) /\ Lawful("hp_p2", Program("hp_p2"))
      /\ Lawful("p8root", Program("p8root"))
      /\ Lawful("child1", Program("child1"))
      /\ Lawful("child2", Program("child2"))
  BY Programs, P1IsLawful, P2IsLawful, P3IsLawful, P4IsLawful, P4bIsLawful,
     P5IsLawful, P6IsLawful, P7IsLawful, P9IsLawful, P10IsLawful, HpP1IsLawful,
     HpP2IsLawful, P8rootIsLawful, Child1IsLawful, Child2IsLawful
<1>2. /\ Lawful("p8leaf1", Program("p8leaf1"))
      /\ Lawful("p8leaf2", Program("p8leaf2"))
      /\ Lawful("p8leaf3", Program("p8leaf3"))
      /\ Lawful("p8leaf4", Program("p8leaf4"))
  BY LeafPrograms, P8leaf1IsLawful, P8leaf2IsLawful, P8leaf3IsLawful,
     P8leaf4IsLawful
<1> QED BY <1>1, <1>2, ProcessNames

\* The programs depend on the instance of the test alone.
LEMMA ProgramSame ==
  ASSUME instance' = instance, NEW q PROVE Program(q)' = Program(q)
<1>1. P1' = P1
  BY DEF P1, Part
<1> QED BY <1>1 DEF Program

----------------------------------------------------------------------------
(* What a step of the test does to the processes *)

\* The processes stay the same.
Fixed == UNCHANGED <<instance, runs, free, parent, prio, support>>

Untouched(s) == sem'[s] = sem[s] /\ semq'[s] = semq[s]

Lowered(s) ==
  /\ sem'[s] = sem[s] - 1
  /\ semq'[s] = IF sem[s] >= 1 THEN semq[s] ELSE Append(semq[s], current)

Raised(s) ==
  /\ sem'[s] = sem[s] + 1
  /\ IF sem[s] < 0 THEN semq[s] # <<>> /\ semq'[s] = Tail(semq[s])
                   ELSE semq'[s] = semq[s]

\* The running process executes i, and nothing is created or terminated.
OnUserSems(i) ==
  \A s \in UserSems :
    /\ i = P(s) => Lowered(s)
    /\ i = V(s) => Raised(s)
    /\ i = Reset /\ s \in P8Sems => sem'[s] = 0 /\ semq'[s] = semq[s]
    /\ i # P(s) /\ i # V(s) /\ ~(i = Reset /\ s \in P8Sems) => Untouched(s)

OnSoftSems(i) ==
  /\ IF i = WriteChar
     THEN busy' = busy \cup {Term0} /\ semq'[Term0] = Append(semq[Term0], current)
     ELSE busy' = busy /\ semq'[Term0] = semq[Term0]
  /\ \/ i \in {AwaitClock, AwaitAgain} /\ semq'[Clock] = Append(semq[Clock], current)
     \/ i # AwaitClock /\ semq'[Clock] = semq[Clock]

OnValues(i) ==
  /\ \A x : i = Store(x) /\ x # "P8Sems" => stored' = stored \cup {x}
  /\ (\A x : i = Store(x) => x = "P8Sems") => stored' = stored
  /\ \A x : i = Check(x) => failed' = (x \notin stored)
  /\ \A s, n : i = CheckSem(s, n) => failed' = (sem[s] # n)
  /\ (\A x : i # Check(x)) /\ (\A s, n : i # CheckSem(s, n)) => failed' = failed

Does(i) ==
  /\ At(i) /\ Fixed /\ pc' = [pc EXCEPT ![current] = @ + 1]
  /\ OnUserSems(i) /\ OnSoftSems(i) /\ OnValues(i)
  /\ i # Exit /\ i # KillParent /\ (\A q : i # Start(q))
  /\ i = Trap => support[current]

\* An interrupt, or nothing.
Quiet ==
  /\ Fixed /\ UNCHANGED <<pc, stored, failed>>
  /\ \A s \in UserSems : Untouched(s)
  /\ \/ semq'[Clock] = semq[Clock]
     \/ current = NULL /\ Range(semq'[Clock]) \subseteq Range(semq[Clock])
  /\ \/ busy' = busy /\ semq'[Term0] = semq[Term0]
     \/ busy' = {} /\ Range(semq'[Term0]) \subseteq Range(semq[Term0])

\* The running process starts q in the PCB p.
Creates(q, p) ==
  /\ At(Start(q)) /\ q \in Processes /\ p \in free /\ free' = free \ {p}
  /\ parent' = [parent EXCEPT ![p] = current]
  /\ prio' = [prio EXCEPT ![p] = Priority(q)]
  /\ support' = [support EXCEPT ![p] = (q = "p5")]
  /\ runs' = [runs EXCEPT ![p] = q]
  /\ pc' = [pc EXCEPT ![current] = @ + 1, ![p] = 1]
  /\ stored' = stored \ {q}
  /\ UNCHANGED <<sem, semq, busy, current, instance, failed>>
  /\ ready' = InsertProcQ(prio', ready, p) /\ fresh' = FALSE

\* The running process is to terminate t.
Asks(t) ==
  \/ (At(Exit) \/ (At(Trap) /\ ~support[current])) /\ t = current
  \/ At(KillParent) /\ t = parent[current]

\* t and its progeny, the running process among them, are gone.
Gone(t) ==
  LET K == Subtree(t)
  IN  /\ t \in K /\ current \in K /\ K \subseteq Live
      /\ \A x \in Live : parent[x] \in K => x \in K
      /\ \A x \in K : x = t \/ parent[x] \in K
      /\ Live' = Live \ K /\ free' \in SUBSET Pcbs
      /\ \A x \in Live \ K : parent'[x] = parent[x]
      /\ \A s \in Sems : Range(semq'[s]) = Range(semq[s]) \ K
      /\ \A s \in Sems : Range(semq[s]) \cap K = {} => Untouched(s)
      /\ \A s \in Sems : sem'[s] \in Int
      /\ \A s \in UserSems : sem'[s] = sem[s] \/ (sem[s] < 0 /\ sem'[s] <= 0)
      /\ \/ /\ ready' = Tail(Without(ready, K)) /\ Without(ready, K) # <<>>
            /\ current' = Head(Without(ready, K))
         \/ current' = NULL /\ Without(ready, K) = <<>> /\ ready' = <<>>

Kills(t) ==
  /\ Asks(t) /\ Gone(t)
  /\ UNCHANGED <<instance, runs, prio, support, stored, failed, busy>>
  /\ pc' = [pc EXCEPT ![current] = @ + 1]

----------------------------------------------------------------------------
(* The state of a process in its program *)

Is(x, q) == x \in Live /\ runs[x] = q
Text(x) == Program(runs[x])

\* x waits on s.
Blocked(x, s) == x \in Range(semq[s])

\* The last instruction x has executed is i.
Did(x, i) == pc[x] > 1 /\ Text(x)[pc[x] - 1] = i

\* x has executed i.
Past(x, i) == \E k \in 1..pc[x]-1 : Text(x)[k] = i

TestTyped ==
  /\ instance \in Instances /\ runs \in [Pcbs -> Processes]
  /\ pc \in [Pcbs -> Nat \ {0}]
  /\ stored \subseteq Processes \cup {"p1p2synch"} /\ fresh \in BOOLEAN

\* A process is started by its parent, and has the priority and the support
\* structure that its function gets.
Kin ==
  \A x \in Live :
    /\ support[x] = (runs[x] = "p5") /\ prio[x] = Priority(runs[x])
    /\ pc[x] <= Len(Text(x)) + 1
    /\ IF parent[x] = NULL THEN runs[x] = "p1"
                           ELSE Past(parent[x], Start(runs[x]))

\* No function has two processes.
Single == \A x, y \in Live : runs[x] = runs[y] => x = y

\* Whoever waits has just executed what makes it wait.
Waits ==
  /\ \A s \in UserSems : \A x \in Range(semq[s]) : Did(x, P(s))
  /\ \A x \in Range(semq[Term0]) : Did(x, WriteChar)
  /\ \A x \in Range(semq[Clock]) : Did(x, AwaitClock) \/ Did(x, AwaitAgain)

\* p1 waits for p8root until p8root is about to exit.
Root8 ==
  \A x, y \in Pcbs : Is(x, "p1") /\ Is(y, "p8root") =>
    /\ pc[y] <= 11 /\ (pc[y] <= 10 => sem["sem_endp8"] <= 0)
    /\ pc[y] = 11 => y = current
    /\ \/ Did(x, Start("p8root")) \/ Did(x, Store("p8root"))
       \/ Did(x, P("sem_endp8")) /\ (Blocked(x, "sem_endp8") \/ pc[y] = 11)

\* p1 resets the semaphores of p8 while nobody uses them.
Reset8 ==
  \A x \in Pcbs : Is(x, "p1") /\ Did(x, Reset) =>
    /\ \A y \in Live : runs[y] \notin P8Family
    /\ \A s \in P8Sems : sem[s] = 0

Sound == IInv /\ SemaphoreAgrees /\ TestTyped /\ Kin

\* The inductive invariant of the processes and their tree.
TInv == Sound /\ Single /\ Waits /\ Root8 /\ Reset8

\* The semaphores that the test has.
LEMMA TestSoftSems == Devices = {Term0} /\ SoftSems = {Term0, Clock} /\ Term0 # Clock
                      /\ Term0 \in Sems /\ Clock \in Sems /\ UserSems \subseteq Sems
                      /\ Term0 \notin UserSems /\ Clock \notin UserSems /\ TestSems \subseteq UserSems
BY TestAssumption, SemsAssumption DEF SoftSems, Sems

\* A process that executes an instruction is alive, and at that instruction.
LEMMA AtLive ==
  ASSUME Sound, NEW i, At(i)
  PROVE  /\ Running /\ current \in Pcbs /\ current \in Live /\ current # NULL
         /\ runs[current] \in Processes /\ Lawful(runs[current], Text(current))
         /\ pc[current] \in 1..Len(Text(current)) /\ Text(current)[pc[current]] = i
<1>1. Running /\ current \in Pcbs /\ current \in Live
  BY RunningLive DEF At, Sound
<1>2. runs[current] \in Processes
  BY <1>1 DEF Sound, TestTyped
<1> QED BY <1>1, <1>2, AllLawful, PcbsAssumption DEF At, Sound, TestTyped, Text, Lawful

\* Nobody but the running process is where it is.
LEMMA NotWaiting ==
  ASSUME Sound
  PROVE  /\ \A s \in Sems : current \notin Range(semq[s])
         /\ \A s \in Sems : Range(semq[s]) \subseteq Live
         /\ current = NULL \/ current \in Live
         /\ \A s, t \in Sems : s # t => Range(semq[s]) \cap Range(semq[t]) = {}
<1>1. /\ current \in Pcbs \cup {NULL} /\ free \in SUBSET Pcbs
      /\ semq \in [Sems -> Seq(Pcbs)] /\ Placed(ready, current, free, semq, semAdd)
  BY Unpacked DEF Sound
<1>2. \A s \in Sems : Range(semq[s]) \subseteq Pcbs
  BY <1>1, RangeOfSeq
<1> QED BY <1>1, <1>2 DEF Placed, Live

\* outProcQ of processes that are not in the queue.
LEMMA WithoutNobody ==
  ASSUME NEW S, NEW q \in Seq(S), NEW K, Range(q) \cap K = {}
  PROVE  Without(q, K) = q
<1> DEFINE f == CHOOSE g : IsLeft(g, q, K, Len(q))
<1>1. Len(q) \in Nat
  OBVIOUS
<1>2. IsLeft(f, q, K, Len(q))
  BY <1>1, LeftExists
<1>3. Without(q, K) = f[Len(q)]
  BY DEF Without, IsLeft, LeftStep
<1> HIDE DEF f
<1>4. f[0] = <<>> /\ \A i \in 1..Len(q) : f[i] = Append(f[i-1], q[i])
  <2>1. \A i \in 0..Len(q) : f[i] = LeftStep(f, q, K, i)
    BY <1>2 DEF IsLeft
  <2>2. 0 \in 0..Len(q) /\ \A i \in 1..Len(q) : i \in 0..Len(q) /\ i # 0
    BY <1>1
  <2>3. \A i \in 1..Len(q) : q[i] \notin K
    BY RangeEquality
  <2> HIDE <1>2
  <2> QED BY <2>1, <2>2, <2>3 DEF LeftStep
<1> DEFINE Fine(i) == /\ f[i] \in Seq(S) /\ Len(f[i]) = i
                      /\ \A j \in 1..i : f[i][j] = q[j]
           Good == {i \in Nat : i <= Len(q) => Fine(i)}
<1>5. 0 \in Good
  <2>1. <<>> \in Seq(S) /\ Len(<<>>) = 0
    OBVIOUS
  <2>2. f[0] \in Seq(S) /\ Len(f[0]) = 0
    BY <1>4, <2>1
  <2>3. \A j \in 1..0 : f[0][j] = q[j]
    OBVIOUS
  <2> QED BY <2>2, <2>3
<1>6. ASSUME NEW n \in Nat, n \in Good PROVE n+1 \in Good
  <2> SUFFICES ASSUME n+1 <= Len(q) PROVE Fine(n+1)
    OBVIOUS
  <2>1. n+1 \in 1..Len(q) /\ (n+1)-1 = n /\ q[n+1] \in S
    BY <1>1, ElementOfSeq
  <2>2. Fine(n)
    BY <1>6, <2>1
  <2> DEFINE x == q[n+1]  g == f[n]  r == Append(g, x)
  <2>3. f[n+1] = r
    BY <1>4, <2>1
  <2>4. g \in Seq(S) /\ x \in S /\ Len(g) = n /\ \A j \in 1..n : g[j] = q[j]
    BY <2>1, <2>2
  <2>5. x = q[n+1]
    OBVIOUS
  <2> HIDE DEF x, g
  <2>6. /\ r \in Seq(S) /\ Len(r) = n + 1 /\ r[n+1] = x
        /\ \A j \in 1..n : r[j] = g[j]
    BY <2>4, AppendProperties, LenProperties
  <2> HIDE DEF r
  <2>7. \A j \in 1..n+1 : r[j] = q[j]
    <3>1. \A j \in 1..n+1 : j = n+1 \/ j \in 1..n
      OBVIOUS
    <3> QED BY <2>4, <2>5, <2>6, <3>1
  <2> QED BY <2>3, <2>6, <2>7
<1>7. \A n \in Nat : n \in Good
  <2> HIDE DEF Good
  <2> QED BY <1>5, <1>6, SetInduction
<1>8. Fine(Len(q))
  <2>1. Len(q) \in Good
    BY <1>1, <1>7
  <2> HIDE DEF Fine
  <2> QED BY <1>1, <2>1
<1>9. f[Len(q)] = q
  BY <1>8, SeqEqual
<1> QED BY <1>3, <1>9

\* An instruction that neither stores nor tests anything.
LEMMA PlainValues ==
  ASSUME NEW i, UNCHANGED <<stored, failed>>, \A x : i = Store(x) => x = "P8Sems",
         \A x : i # Check(x), \A s, n : i # CheckSem(s, n)
  PROVE  OnValues(i)
BY DEF OnValues

\* PASSEREN is an instruction of the running process that creates and
\* terminates nobody.
LEMMA PasserenView ==
  ASSUME Sound, NEW s \in UserSems, SystemCall(P(s), Passeren(s))
  PROVE  Does(P(s))
<1>1. /\ At(P(s)) /\ Passeren(s) /\ Running /\ current \in Pcbs
      /\ UNCHANGED <<runs, stored, instance, failed>> /\ Advance
  BY AtLive DEF SystemCall, Done
<1>2. sem \in [Sems -> Int] /\ semq \in [Sems -> Seq(Pcbs)]
  BY Unpacked DEF Sound
<1>3. s \in Sems /\ s # Term0 /\ s # Clock
  BY TestSoftSems
<1>4. sem' = [sem EXCEPT ![s] = @ - 1] /\ sem'[s] = sem[s] - 1 /\ sem[s] \in Int
  BY <1>1, <1>2, <1>3 DEF Passeren
<1>5. /\ semq' = [semq EXCEPT ![s] = IF sem[s] >= 1 THEN semq[s]
                                     ELSE Append(semq[s], current)]
  <2>1. CASE sem'[s] >= 0 /\ semq' = semq
    BY <1>2, <1>3, <1>4, <2>1
  <2>2. CASE sem'[s] < 0 /\ InsertBlocked(s, current)
    <3>1. semq' = [semq EXCEPT ![s] = Append(semq[s], current)]
      BY <1>1, <1>3, <2>2, BlockAppends DEF Sound
    <3>2. ~(sem[s] >= 1)
      BY <1>4, <2>2
    <3> QED BY <3>1, <3>2
  <2> QED BY <1>1, <2>1, <2>2 DEF Passeren
<1>6. Lowered(s) /\ \A t \in Sems \ {s} : Untouched(t)
  BY <1>2, <1>3, <1>4, <1>5 DEF Lowered, Untouched
<1>7. OnUserSems(P(s))
  BY <1>6, Fields, TestSoftSems DEF OnUserSems
<1>8. OnSoftSems(P(s))
  BY <1>1, <1>3, <1>6, Fields, TestSoftSems DEF OnSoftSems, Untouched, Passeren
<1>9. OnValues(P(s))
  BY <1>1, PlainValues, Fields
<1> QED BY <1>1, <1>7, <1>8, <1>9, Fields DEF Does, Fixed, Advance, Passeren

\* And so is VERHOGEN.
LEMMA VerhogenView ==
  ASSUME Sound, NEW s \in UserSems, SystemCall(V(s), Verhogen(s))
  PROVE  Does(V(s))
<1>1. /\ At(V(s)) /\ Verhogen(s) /\ Running /\ current \in Pcbs
      /\ UNCHANGED <<runs, stored, instance, failed>> /\ Advance
  BY AtLive DEF SystemCall, Done
<1>2. sem \in [Sems -> Int] /\ semq \in [Sems -> Seq(Pcbs)]
  BY Unpacked DEF Sound
<1>3. s \in Sems /\ s # Term0 /\ s # Clock
  BY TestSoftSems
<1>4. sem' = [sem EXCEPT ![s] = @ + 1] /\ sem'[s] = sem[s] + 1 /\ sem[s] \in Int
  BY <1>1, <1>2, <1>3 DEF Verhogen
<1>5. sem[s] < 0 <=> semq[s] # <<>>
  <2>1. Right(s, sem[s], Len(semq[s])) /\ Len(semq[s]) \in Nat /\ semq[s] \in Seq(Pcbs)
    BY <1>3, OneRight DEF Sound
  <2>2. Len(semq[s]) = 0 <=> semq[s] = <<>>
    BY <2>1
  <2> QED BY <1>4, <2>1, <2>2 DEF Right
<1>6. semq' = [semq EXCEPT ![s] = IF sem[s] < 0 THEN Tail(semq[s]) ELSE semq[s]]
  BY <1>1, <1>2, <1>3, <1>4, <1>5 DEF Verhogen
<1>7. Raised(s) /\ \A t \in Sems \ {s} : Untouched(t)
  BY <1>2, <1>3, <1>4, <1>5, <1>6 DEF Raised, Untouched
<1>8. OnUserSems(V(s))
  BY <1>7, Fields, TestSoftSems DEF OnUserSems
<1>9. OnSoftSems(V(s))
  BY <1>1, <1>3, <1>7, Fields, TestSoftSems DEF OnSoftSems, Untouched, Verhogen
<1>10. OnValues(V(s))
  BY <1>1, PlainValues, Fields
<1> QED BY <1>1, <1>8, <1>9, <1>10, Fields DEF Does, Fixed, Advance, Verhogen

\* What DOIO and CLOCKWAIT do to the queues.
LEMMA SoftBlockView ==
  ASSUME Sound, Running, NEW s \in {Term0, Clock}, SoftBlock(s)
  PROVE  /\ semq'[s] = Append(semq[s], current)
         /\ \A t \in Sems \ {s} : Untouched(t)
<1>1. sem \in [Sems -> Int] /\ semq \in [Sems -> Seq(Pcbs)] /\ s \in Sems
  BY Unpacked, TestSoftSems DEF Sound
<1>2. sem' = [sem EXCEPT ![s] = @ - 1]
  BY DEF SoftBlock
<1>3. semq' = [semq EXCEPT ![s] = Append(semq[s], current)]
  BY <1>1, BlockAppends DEF SoftBlock, Sound
<1> QED BY <1>1, <1>2, <1>3 DEF Untouched

\* DOIO and CLOCKWAIT.
LEMMA SoftView ==
  ASSUME Sound,
         \/ SystemCall(WriteChar, DoIO(Term0))
         \/ \E i \in {AwaitClock, AwaitAgain} : SystemCall(i, WaitForClock)
  PROVE  \E i : Does(i)
<1>1. CASE SystemCall(WriteChar, DoIO(Term0))
  <2>1. /\ At(WriteChar) /\ DoIO(Term0) /\ Running
        /\ UNCHANGED <<runs, stored, instance, failed>> /\ Advance
    BY <1>1, AtLive DEF SystemCall, Done
  <2>2. /\ semq'[Term0] = Append(semq[Term0], current)
        /\ \A t \in Sems \ {Term0} : Untouched(t)
    BY <2>1, SoftBlockView DEF DoIO
  <2>3. OnUserSems(WriteChar)
    BY <2>2, Fields, TestSoftSems DEF OnUserSems
  <2>4. OnSoftSems(WriteChar)
    BY <2>1, <2>2, Fields, TestSoftSems DEF OnSoftSems, Untouched, DoIO
  <2>5. OnValues(WriteChar)
    BY <2>1, PlainValues, Fields
  <2>6. Does(WriteChar)
    BY <2>1, <2>3, <2>4, <2>5, Fields DEF Does, Fixed, Advance, DoIO, SoftBlock
  <2> QED BY <2>6
<1>2. ASSUME NEW i \in {AwaitClock, AwaitAgain}, SystemCall(i, WaitForClock)
      PROVE  Does(i)
  <2>1. /\ At(i) /\ WaitForClock /\ Running
        /\ UNCHANGED <<runs, stored, instance, failed>> /\ Advance
    BY <1>2, AtLive DEF SystemCall, Done
  <2>2. /\ semq'[Clock] = Append(semq[Clock], current)
        /\ \A t \in Sems \ {Clock} : Untouched(t)
    BY <2>1, SoftBlockView DEF WaitForClock
  <2>0. Opcode(i) = "CLOCKWAIT"
    BY Fields
  <2>3. OnUserSems(i)
    BY <2>0, <2>2, Fields, TestSoftSems DEF OnUserSems
  <2>4. OnSoftSems(i)
    BY <2>0, <2>1, <2>2, Fields, TestSoftSems DEF OnSoftSems, Untouched, WaitForClock
  <2>5. OnValues(i)
    BY <2>0, <2>1, PlainValues, Fields
  <2> QED BY <2>0, <2>1, <2>3, <2>4, <2>5, Fields
          DEF Does, Fixed, Advance, WaitForClock, SoftBlock
<1> QED BY <1>1, <1>2

\* A step that leaves the semaphores and the devices alone.
LEMMA NothingView ==
  ASSUME NEW i, UNCHANGED <<sem, semq, busy>>,
         \A s : i # P(s) /\ i # V(s), i # WriteChar, i # AwaitClock, i # Reset
  PROVE  OnUserSems(i) /\ OnSoftSems(i)
BY DEF OnUserSems, OnSoftSems, Untouched

\* YIELD.
LEMMA YieldView ==
  ASSUME CallYield PROVE Does(YieldCpu)
<1>1. /\ At(YieldCpu) /\ Yield /\ Advance
      /\ UNCHANGED <<runs, stored, instance, failed>>
  BY DEF CallYield, Done
<1>2. UNCHANGED <<sem, semq, busy, free, parent, prio, support>>
  BY <1>1 DEF Yield
<1>3. OnUserSems(YieldCpu) /\ OnSoftSems(YieldCpu)
  BY <1>2, NothingView, Fields
<1>4. OnValues(YieldCpu)
  BY <1>1, PlainValues, Fields
<1> QED BY <1>1, <1>2, <1>3, <1>4, Fields DEF Does, Fixed, Advance

\* A trap that is passed up, and a wait that is not repeated.
LEMMA GoesOnView ==
  ASSUME NoSecondWait \/ (At(Trap) /\ support[current] /\ TakeTrap)
  PROVE  Does(AwaitAgain) \/ Does(Trap)
<1>1. CASE NoSecondWait
  <2>1. /\ At(AwaitAgain) /\ UNCHANGED vars /\ Advance
        /\ UNCHANGED <<runs, stored, instance, failed>>
    BY <1>1 DEF NoSecondWait, SystemCall, Done
  <2>2. UNCHANGED <<sem, semq, busy, free, parent, prio, support>>
    BY <2>1 DEF vars
  <2>3. OnUserSems(AwaitAgain) /\ OnSoftSems(AwaitAgain)
    BY <2>2, NothingView, Fields
  <2>4. OnValues(AwaitAgain)
    BY <2>1, PlainValues, Fields
  <2> QED BY <2>1, <2>2, <2>3, <2>4, Fields DEF Does, Fixed, Advance
<1>2. CASE At(Trap) /\ support[current] /\ TakeTrap
  <2>1. /\ At(Trap) /\ UNCHANGED vars /\ Advance
        /\ UNCHANGED <<runs, stored, instance, failed>>
    BY <1>2 DEF TakeTrap, SystemCall, Done, PassUpOrDie
  <2>2. UNCHANGED <<sem, semq, busy, free, parent, prio, support>>
    BY <2>1 DEF vars
  <2>3. OnUserSems(Trap) /\ OnSoftSems(Trap)
    BY <2>2, NothingView, Fields
  <2>4. OnValues(Trap)
    BY <2>1, PlainValues, Fields
  <2> QED BY <1>2, <2>1, <2>2, <2>3, <2>4, Fields DEF Does, Fixed, Advance
<1> QED BY <1>1, <1>2

\* A pid, or p1p2synch, is stored.
LEMMA StoreView ==
  ASSUME StoreValue PROVE \E i : Does(i)
<1>1. PICK x \in Processes \cup {"p1p2synch"} :
        At(Store(x)) /\ stored' = stored \cup {x}
  BY DEF StoreValue
<1>2. /\ UNCHANGED <<sem, semq, busy, free, parent, prio, support, runs>>
      /\ UNCHANGED <<instance, failed>> /\ Advance
  BY DEF StoreValue, Done, vars
<1>3. x # "P8Sems" /\ Store(x) # Reset
  BY Fields, ProcessNames
<1>4. OnUserSems(Store(x)) /\ OnSoftSems(Store(x))
  BY <1>2, <1>3, NothingView, Fields
<1>5. OnValues(Store(x))
  BY <1>1, <1>2, <1>3, Fields DEF OnValues
<1>6. Does(Store(x))
  BY <1>1, <1>2, <1>4, <1>5, Fields DEF Does, Fixed, Advance
<1> QED BY <1>6

\* A test of a value.
LEMMA CheckView ==
  ASSUME CheckValue PROVE \E i : Does(i)
<1>1. /\ UNCHANGED <<sem, semq, busy, free, parent, prio, support, runs>>
      /\ UNCHANGED <<instance, stored>> /\ Advance
  BY DEF CheckValue, vars
<1>2. ASSUME NEW x, At(Check(x)), failed' = (x \notin stored) PROVE Does(Check(x))
  <2>1. OnUserSems(Check(x)) /\ OnSoftSems(Check(x))
    BY <1>1, NothingView, Fields
  <2>2. OnValues(Check(x))
    <3>1. \A y : Check(x) = Check(y) => x = y
      BY Fields
    <3> QED BY <1>1, <1>2, <3>1, Fields DEF OnValues
  <2> QED BY <1>1, <1>2, <2>1, <2>2, Fields DEF Does, Fixed, Advance
<1>3. ASSUME NEW s, NEW n, At(CheckSem(s, n)), failed' = (sem[s] # n)
      PROVE  Does(CheckSem(s, n))
  <2>1. OnUserSems(CheckSem(s, n)) /\ OnSoftSems(CheckSem(s, n))
    BY <1>1, NothingView, Fields
  <2>2. OnValues(CheckSem(s, n))
    <3>1. \A t, m : CheckSem(s, n) = CheckSem(t, m) => s = t /\ n = m
      BY Fields
    <3> QED BY <1>1, <1>3, <3>1, Fields DEF OnValues
  <2> QED BY <1>1, <1>3, <2>1, <2>2, Fields DEF Does, Fixed, Advance
<1> QED BY <1>2, <1>3 DEF CheckValue

\* p1 resets the semaphores of p8.
LEMMA ResetView ==
  ASSUME Sound, ResetSems PROVE Does(Reset)
<1>1. /\ At(Reset) /\ sem' = [s \in Sems |-> IF s \in P8Sems THEN 0 ELSE sem[s]]
      /\ UNCHANGED <<semq, busy, free, parent, prio, support, runs>>
      /\ UNCHANGED <<instance, stored, failed>> /\ Advance
  BY DEF ResetSems, Done
<1>2. OnUserSems(Reset)
  <2>1. \A s : Reset # P(s) /\ Reset # V(s)
    BY Fields
  <2> QED BY <1>1, <2>1, TestSoftSems DEF OnUserSems, Untouched
<1>3. OnSoftSems(Reset)
  BY <1>1, Fields DEF OnSoftSems
<1>4. OnValues(Reset)
  <2>1. \A x : Reset = Store(x) => x = "P8Sems"
    BY Fields
  <2> QED BY <1>1, <2>1, PlainValues, Fields
<1> QED BY <1>1, <1>2, <1>3, <1>4, Fields DEF Does, Fixed, Advance

\* An interrupt changes nothing of the processes but where they wait.
LEMMA InterruptView ==
  ASSUME Sound, Interrupted PROVE Quiet
<1>0. UNCHANGED <<instance, runs, pc, stored, failed>>
  BY DEF Interrupted
<1>1. sem \in [Sems -> Int] /\ semq \in [Sems -> Seq(Pcbs)] /\ busy \subseteq {Term0}
  BY Unpacked, TestSoftSems DEF Sound
<1>2. CASE Preempt
  <2>1. UNCHANGED <<sem, semq, busy, free, parent, prio, support>>
    BY <1>2 DEF Preempt, HandlePLT
  <2> QED BY <1>0, <2>1 DEF Quiet, Fixed, Untouched
<1>3. CASE ClockTick
  <2>1. /\ UNCHANGED <<busy, free, parent, prio, support>> /\ current = NULL
    BY <1>3 DEF ClockTick, IntervalIsLong, HandlePseudoClock
  <2>2. CASE UNCHANGED <<sem, semq>>
    BY <1>0, <2>1, <2>2 DEF Quiet, Fixed, Untouched
  <2>3. CASE /\ sem[Clock] < 0 /\ sem' = [sem EXCEPT ![Clock] = 0]
             /\ semq' = [semq EXCEPT ![Clock] = SubSeq(@, Released + 1, Len(@))]
    <3> DEFINE q == semq[Clock]  n == Released  b == SubSeq(q, n + 1, Len(q))
    <3>1. q \in Seq(Pcbs) /\ Right(Clock, sem[Clock], Len(q)) /\ sem[Clock] \in Int
      BY <1>1, OneRight, TestSoftSems DEF Sound
    <3>2. n = Len(q)
      BY <2>3, <3>1 DEF Released, Right
    <3>3. semq' = [semq EXCEPT ![Clock] = b]
      BY <2>3
    <3> HIDE DEF q, n
    <3>4. n \in 0..Len(q)
      BY <3>1, <3>2
    <3>5. Range(b) \subseteq Range(q)
      BY <3>1, <3>4, CutResult
    <3> HIDE DEF b
    <3>6. semq'[Clock] = b /\ \A s \in Sems \ {Clock} : Untouched(s)
      BY <1>1, <2>3, <3>3, TestSoftSems DEF Untouched
    <3>7. Range(semq'[Clock]) \subseteq Range(semq[Clock])
      BY <3>5, <3>6 DEF q
    <3> QED BY <1>0, <2>1, <3>6, <3>7, TestSoftSems DEF Quiet, Fixed, Untouched
  <2> QED BY <1>3, <2>2, <2>3 DEF ClockTick, HandlePseudoClock
<1>4. CASE HandleDevice(Term0)
  <2>1. /\ UNCHANGED <<free, parent, prio, support>> /\ busy' = {}
        /\ sem' = [sem EXCEPT ![Term0] = @ + 1]
    BY <1>1, <1>4 DEF HandleDevice
  <2>2. CASE semq' = semq
    BY <1>0, <1>1, <2>1, <2>2, TestSoftSems DEF Quiet, Fixed, Untouched
  <2>3. CASE semq[Term0] # <<>> /\ semq' = [semq EXCEPT ![Term0] = Tail(@)]
    <3>1. semq[Term0] \in Seq(Pcbs)
      BY <1>1, TestSoftSems
    <3>2. Range(Tail(semq[Term0])) \subseteq Range(semq[Term0])
      BY <2>3, <3>1, TailResult
    <3>3. semq'[Term0] = Tail(semq[Term0]) /\ \A s \in Sems \ {Term0} : Untouched(s)
      BY <1>1, <2>1, <2>3, TestSoftSems DEF Untouched
    <3> QED BY <1>0, <2>1, <3>2, <3>3, TestSoftSems DEF Quiet, Fixed, Untouched
  <2> QED BY <1>4, <2>2, <2>3 DEF HandleDevice
<1> QED BY <1>2, <1>3, <1>4 DEF Interrupted

\* CREATEPROCESS starts the process that the program names.
LEMMA CreateView ==
  ASSUME Sound, CallCreate PROVE \E q, p : Creates(q, p)
<1>1. PICK q \in Processes :
        /\ At(Start(q)) /\ free # {}
        /\ LET p == CHOOSE f \in free : TRUE
           IN  /\ CreateProcess
               /\ free' = free \ {p}
               /\ prio'[p] = Priority(q) /\ support'[p] = (q = "p5")
               /\ runs' = [runs EXCEPT ![p] = q]
               /\ pc' = [pc EXCEPT ![current] = @ + 1, ![p] = 1]
        /\ stored' = stored \ {q}
        /\ Done(FALSE)
  BY DEF CallCreate
<1> DEFINE p == CHOOSE f \in free : TRUE
<1>2. p \in free
  BY <1>1
<1>3. /\ CreateProcess /\ free' = free \ {p}
      /\ prio'[p] = Priority(q) /\ support'[p] = (q = "p5")
      /\ runs' = [runs EXCEPT ![p] = q]
      /\ pc' = [pc EXCEPT ![current] = @ + 1, ![p] = 1]
  BY <1>1
<1> HIDE DEF p
<1>4. PICK r \in free, pr \in Prios, sup \in BOOLEAN :
          /\ free' = free \ {r}
          /\ prio' = [prio EXCEPT ![r] = pr]
          /\ support' = [support EXCEPT ![r] = sup]
          /\ parent' = [parent EXCEPT ![r] = current]
          /\ ready' = InsertProcQ(prio', ready, r)
          /\ UNCHANGED <<current, sem, semq, softBlockCount, cpu, busy>>
  BY <1>1, <1>3 DEF CreateProcess
<1>5. r = p
  BY <1>2, <1>3, <1>4
<1>6. p \in Pcbs /\ prio \in [Pcbs -> Prios] /\ support \in [Pcbs -> BOOLEAN]
  BY <1>2, Unpacked DEF Sound
<1>7. prio' = [prio EXCEPT ![p] = Priority(q)]
  BY <1>3, <1>4, <1>5, <1>6
<1>8. support' = [support EXCEPT ![p] = (q = "p5")]
  BY <1>3, <1>4, <1>5, <1>6
<1>9. fresh' = FALSE /\ UNCHANGED <<instance, failed>>
  BY <1>1, <1>4 DEF Done
<1>10. Creates(q, p)
  BY <1>1, <1>2, <1>3, <1>4, <1>5, <1>7, <1>8, <1>9 DEF Creates
<1> QED BY <1>10

\* The running process terminates t, its progeny goes with it.
LEMMA GoneView ==
  ASSUME Sound, NEW t \in Live, current \in Subtree(t), Terminate(t)
  PROVE  Gone(t) /\ UNCHANGED <<prio, support, busy>>
<1> DEFINE K == Subtree(t)
<1>1. /\ ready \in Seq(Pcbs) /\ sem \in [Sems -> Int] /\ semq \in [Sems -> Seq(Pcbs)]
      /\ free \in SUBSET Pcbs /\ parent \in [Pcbs -> Pcbs \cup {NULL}]
      /\ Placed(ready, current, free, semq, semAdd) /\ OneTree(parent, free)
  BY Unpacked DEF Sound
<1>2. t \in Pcbs \ free /\ K = Below(parent, t)
  BY FamilyTreeIsOneTree DEF Live
<1>3. /\ K \subseteq Live /\ t \in K /\ K \in SUBSET Pcbs /\ ClosedUnder(parent, K)
      /\ \A S \in SUBSET Pcbs : t \in S /\ ClosedUnder(parent, S) => K \subseteq S
  <2>1. Below(parent, t) \subseteq Pcbs \ free
    BY <1>1, <1>2, LiveClosed
  <2>2. t \in Pcbs
    BY <1>2
  <2> HIDE DEF K
  <2> QED BY <1>2, <2>1, <2>2, BelowResult DEF Live
<1>4. /\ sem' = [s \in Sems |-> sem[s] + Refund(K, s)]
      /\ semq' = [s \in Sems |-> Without(semq[s], BlockedIn(K, s))]
      /\ parent' = Unlinked(K) /\ free' = free \cup K
      /\ Schedule(Without(ready, K)) /\ UNCHANGED <<prio, support, busy>>
      /\ current \in K
  BY DEF Terminate, Kill
<1> HIDE DEF K
<1>5. \A s \in Sems : BlockedIn(K, s) = K \cap Range(semq[s])
  BY <1>3, BlockedAreWaiters DEF Sound
<1>6. \A x \in Live : parent[x] \in K => x \in K
  BY <1>3 DEF ClosedUnder, Live
<1>7. \A x \in K : x = t \/ parent[x] \in K
  <2> DEFINE S == {x \in K : x = t \/ parent[x] \in K}
  <2>1. S \in SUBSET Pcbs /\ t \in S
    BY <1>3
  <2>2. ClosedUnder(parent, S)
    BY <1>3 DEF ClosedUnder
  <2>3. K \subseteq S
    BY <1>3, <2>1, <2>2
  <2> QED BY <2>3
<1>8. Live' = Live \ K /\ free' \in SUBSET Pcbs
  BY <1>1, <1>3, <1>4 DEF Live
<1>9. \A x \in Live \ K : parent'[x] = parent[x]
  BY <1>4 DEF Unlinked, Live
<1>10. ASSUME NEW s \in Sems
       PROVE  /\ Range(semq'[s]) = Range(semq[s]) \ K
              /\ Range(semq[s]) \cap K = {} => Untouched(s)
              /\ sem'[s] \in Int
              /\ s \in UserSems => sem'[s] = sem[s] \/ (sem[s] < 0 /\ sem'[s] <= 0)
  <2> DEFINE q == semq[s]  B == BlockedIn(K, s)  v == sem[s]  n == Cardinality(B)
  <2>1. /\ q \in Seq(Pcbs) /\ NoRepetition(q) /\ v \in Int /\ Right(s, v, Len(q))
        /\ Len(q) \in Nat
    BY <1>1, OneRight DEF Placed, Sound
  <2>2. sem'[s] = v + n /\ semq'[s] = Without(q, B)
    BY <1>4 DEF Refund
  <2>3. B = K \cap Range(q)
    BY <1>5
  <2>a. n = Cardinality(B) /\ q = semq[s] /\ v = sem[s]
    OBVIOUS
  <2> HIDE DEF q, B, v, n
  <2>4. Range(Without(q, B)) = Range(q) \ K
    BY <2>1, <2>3, WithoutResult
  <2>5. ASSUME Range(q) \cap K = {} PROVE n = 0 /\ Without(q, B) = q
    BY <2>1, <2>3, <2>5, <2>a, WithoutNobody, FS_EmptySet
  <2>6. n \in Nat /\ n <= Len(q)
    <3>1. IsFiniteSet(Range(q)) /\ Cardinality(Range(q)) = Len(q)
      BY <2>1, QueueCardinality
    <3>2. B \subseteq Range(q)
      BY <2>3
    <3> QED BY <2>a, <3>1, <3>2, FS_Subset, FS_CardinalityType
  <2>7. s \in UserSems => v + n = v \/ (v < 0 /\ v + n <= 0)
    BY <2>1, <2>6 DEF Right
  <2> QED BY <2>1, <2>2, <2>4, <2>5, <2>6, <2>7, <2>a DEF Untouched
<1>11. \/ /\ ready' = Tail(Without(ready, K)) /\ Without(ready, K) # <<>>
          /\ current' = Head(Without(ready, K))
       \/ current' = NULL /\ Without(ready, K) = <<>> /\ ready' = <<>>
  BY <1>4 DEF Schedule
<1> QED BY <1>3, <1>4, <1>6, <1>7, <1>8, <1>9, <1>10, <1>11, TestSoftSems DEF Gone, K

\* Whoever terminates its parent has one: it is p10, which p9 has started.
LEMMA ParentLive ==
  ASSUME Sound, At(KillParent)
  PROVE  /\ parent[current] \in Live /\ current \in Subtree(parent[current])
         /\ runs[current] = "p10"
<1>1. current \in Live /\ current \in Pcbs /\ RightEnds(runs[current], Text(current))
  BY AtLive DEF Lawful
<1>2. runs[current] = "p10"
  BY <1>1, AtLive DEF RightEnds
<1>3. parent[current] # NULL
  BY <1>1, <1>2 DEF Sound, Kin
<1>4. parent[current] \in Pcbs \ free /\ OneTree(parent, free) /\ free \in SUBSET Pcbs
  BY <1>1, <1>3, Unpacked DEF Sound, OneTree
<1>5. current \in Below(parent, parent[current])
  BY <1>1, <1>4, BelowResult DEF ClosedUnder
<1> QED BY <1>2, <1>4, <1>5, FamilyTreeIsOneTree DEF Live

\* TERMPROCESS terminates the running process, or its parent and it.
LEMMA TerminateView ==
  ASSUME Sound, CallTerminate PROVE \E t \in Live : Kills(t) /\ Terminate(t)
<1>1. \E t \in Live : Asks(t) /\ Terminate(t) /\ current \in Subtree(t)
  <2>1. CASE SystemCall(Exit, Terminate(current))
    <3>1. At(Exit) /\ Terminate(current) /\ current \in Live
      BY <2>1, AtLive DEF SystemCall
    <3>2. current \in Subtree(current)
      BY <3>1, BelowResult, FamilyTreeIsOneTree DEF Live
    <3> QED BY <3>1, <3>2 DEF Asks
  <2>2. CASE SystemCall(KillParent, Terminate(parent[current]))
    <3>1. At(KillParent) /\ Terminate(parent[current])
      BY <2>2 DEF SystemCall
    <3> QED BY <3>1, ParentLive DEF Asks
  <2> QED BY <2>1, <2>2 DEF CallTerminate
<1>2. UNCHANGED <<instance, runs, stored, failed>> /\ Advance
  BY DEF CallTerminate, SystemCall, Done
<1> QED BY <1>1, <1>2, GoneView DEF Kills, Advance

\* A trap of a process without support structure.
LEMMA DieView ==
  ASSUME Sound, TakeTrap, ~support[current]
  PROVE  \E t \in Live : Kills(t) /\ Terminate(t)
<1>1. At(Trap) /\ PassUpOrDie /\ current \in Live /\ Running
  BY AtLive DEF TakeTrap, SystemCall
<1>2. current \in Subtree(current)
  BY <1>1, BelowResult, FamilyTreeIsOneTree DEF Live
<1>3. Terminate(current) /\ Asks(current)
  BY <1>1, <1>2 DEF PassUpOrDie, Terminate, Asks
<1>4. UNCHANGED <<instance, runs, stored, failed>> /\ Advance
  BY DEF TakeTrap, SystemCall, Done
<1> QED BY <1>1, <1>2, <1>3, <1>4, GoneView DEF Kills, Advance

\* Every step of the test is of one of four kinds.
LEMMA StepView ==
  ASSUME Sound, [TestNext]_testVars
  PROVE  Quiet \/ (\E i : Does(i)) \/ (\E q, p : Creates(q, p)) \/ (\E t \in Live : Kills(t))
<1>1. CASE UNCHANGED testVars \/ (Stopped /\ UNCHANGED testVars)
  BY <1>1 DEF testVars, vars, Quiet, Fixed, Untouched
<1>2. CASE Interrupted
  BY <1>2, InterruptView
<1>3. CASE CallPasseren \/ CallVerhogen
  BY <1>3, PasserenView, VerhogenView DEF CallPasseren, CallVerhogen
<1>4. CASE CallDoIO \/ CallClockWait
  BY <1>4, SoftView DEF CallDoIO, CallClockWait
<1>5. CASE NoSecondWait
  BY <1>5, GoesOnView
<1>6. CASE TakeTrap
  <2>1. At(Trap)
    BY <1>6 DEF TakeTrap, SystemCall
  <2> QED BY <1>6, <2>1, GoesOnView, DieView
<1>7. CASE CallTerminate
  BY <1>7, TerminateView
<1>8. CASE CallYield \/ StoreValue \/ CheckValue \/ ResetSems
  BY <1>8, YieldView, StoreView, CheckView, ResetView
<1>9. CASE CallCreate
  BY <1>9, CreateView
<1> QED BY <1>1, <1>2, <1>3, <1>4, <1>5, <1>6, <1>7, <1>8, <1>9 DEF TestNext, Execute

----------------------------------------------------------------------------
(* What the four kinds of step change of a process's state *)

\* An instruction that starts and terminates nobody moves the running process
\* from one instruction to the next.
LEMMA DoesProcesses ==
  ASSUME Sound, NEW i, Does(i)
  PROVE  /\ Live' = Live /\ current \in Live /\ current \in Pcbs
         /\ UNCHANGED <<instance, runs, parent, prio, support>>
         /\ \A x : Text(x)' = Text(x)
         /\ pc'[current] = pc[current] + 1
         /\ pc[current] \in 1..Len(Text(current))
         /\ \A x \in Pcbs : x # current => pc'[x] = pc[x]
         /\ \A x \in Pcbs : \A j : Did(x, j)' <=> IF x = current THEN j = i ELSE Did(x, j)
         /\ \A x \in Pcbs : \A j : Past(x, j)' <=> Past(x, j) \/ (x = current /\ j = i)
<1>1. /\ UNCHANGED <<instance, runs, free, parent, prio, support>>
      /\ pc' = [pc EXCEPT ![current] = @ + 1] /\ At(i)
  BY DEF Does, Fixed
<1>2. /\ current \in Live /\ current \in Pcbs
      /\ pc[current] \in 1..Len(Text(current)) /\ Text(current)[pc[current]] = i
  BY <1>1, AtLive
<1>3. Live' = Live
  BY <1>1 DEF Live
<1>4. \A x : Text(x)' = Text(x)
  BY <1>1, ProgramSame DEF Text
<1>5. pc \in [Pcbs -> Nat \ {0}]
  BY DEF Sound, TestTyped
<1>6. pc'[current] = pc[current] + 1 /\ \A x \in Pcbs : x # current => pc'[x] = pc[x]
  BY <1>1, <1>2, <1>5
<1>7. \A x \in Pcbs : \A j : Did(x, j)' <=> IF x = current THEN j = i ELSE Did(x, j)
  <2>1. pc[current] + 1 > 1 /\ pc[current] + 1 - 1 = pc[current]
    BY <1>2, <1>5
  <2> QED BY <1>2, <1>4, <1>6, <2>1 DEF Did
<1>8. ASSUME NEW x \in Pcbs, NEW j
      PROVE  Past(x, j)' <=> Past(x, j) \/ (x = current /\ j = i)
  <2>1. CASE x = current
    <3>1. 1..pc'[x]-1 = (1..pc[x]-1) \cup {pc[x]}
      BY <1>2, <1>5, <1>6, <2>1
    <3> QED BY <1>2, <1>4, <2>1, <3>1 DEF Past
  <2>2. CASE x # current
    BY <1>4, <1>6, <2>2 DEF Past
  <2> QED BY <2>1, <2>2
<1> QED BY <1>1, <1>2, <1>3, <1>4, <1>6, <1>7, <1>8

\* Who waits after such an instruction: whoever did, unless it is woken, and
\* the running process if the instruction makes it wait.
LEMMA DoesQueues ==
  ASSUME Sound, NEW i, Does(i)
  PROVE  /\ \A s \in UserSems : \A x : Blocked(x, s)' =>
              Blocked(x, s) \/ (i = P(s) /\ x = current /\ sem[s] <= 0)
         /\ \A s \in UserSems : \A x : Blocked(x, s) /\ i # V(s) => Blocked(x, s)'
         /\ \A s \in UserSems : i = P(s) /\ sem[s] <= 0 => current \in Range(semq'[s])
         /\ \A x : Blocked(x, Term0)' <=> Blocked(x, Term0) \/ (x = current /\ i = WriteChar)
         /\ \A x : Blocked(x, Clock)' =>
              Blocked(x, Clock) \/ (x = current /\ i \in {AwaitClock, AwaitAgain})
         /\ \A x : Blocked(x, Clock) => Blocked(x, Clock)'
         /\ i = AwaitClock => current \in Range(semq'[Clock])
         /\ busy' = IF i = WriteChar THEN busy \cup {Term0} ELSE busy
<1>1. semq \in [Sems -> Seq(Pcbs)] /\ sem \in [Sems -> Int] /\ current \in Pcbs
  BY Unpacked, DoesProcesses DEF Sound
<1>2. \A s \in Sems : Range(Append(semq[s], current)) = Range(semq[s]) \cup {current}
  BY <1>1, AppendResult
<1>3. \A s \in Sems : semq[s] # <<>> => Range(Tail(semq[s])) \subseteq Range(semq[s])
  BY <1>1, TailResult
<1>4. \A s, t : P(s) # V(t) /\ P(s) # Reset /\ V(s) # Reset /\ P(s) # WriteChar
  BY Fields
<1>5. ASSUME NEW s \in UserSems
      PROVE  /\ \A x : Blocked(x, s)' =>
                  Blocked(x, s) \/ (i = P(s) /\ x = current /\ sem[s] <= 0)
             /\ \A x : Blocked(x, s) /\ i # V(s) => Blocked(x, s)'
             /\ i = P(s) /\ sem[s] <= 0 => current \in Range(semq'[s])
  <2>0. s \in Sems /\ sem[s] \in Int
    BY <1>1, TestSoftSems
  <2>1. CASE i = P(s)
    <3>1. semq'[s] = IF sem[s] >= 1 THEN semq[s] ELSE Append(semq[s], current)
      BY <2>1 DEF Does, OnUserSems, Lowered
    <3>2. Range(semq'[s]) = IF sem[s] >= 1 THEN Range(semq[s])
                                             ELSE Range(semq[s]) \cup {current}
      BY <1>2, <2>0, <3>1
    <3>3. sem[s] >= 1 \/ sem[s] <= 0
      BY <2>0
    <3> QED BY <1>4, <2>0, <2>1, <3>2, <3>3 DEF Blocked
  <2>2. CASE i = V(s)
    <3>1. semq'[s] = semq[s] \/ (semq[s] # <<>> /\ semq'[s] = Tail(semq[s]))
      BY <2>2 DEF Does, OnUserSems, Raised
    <3>2. Range(semq'[s]) \subseteq Range(semq[s])
      BY <1>3, <2>0, <3>1
    <3> QED BY <1>4, <2>2, <3>2 DEF Blocked
  <2>3. CASE i # P(s) /\ i # V(s)
    <3>1. semq'[s] = semq[s]
      BY <2>3 DEF Does, OnUserSems, Untouched
    <3> QED BY <2>3, <3>1 DEF Blocked
  <2> QED BY <2>1, <2>2, <2>3
<1>6. \A x : Blocked(x, Term0)' <=> Blocked(x, Term0) \/ (x = current /\ i = WriteChar)
  <2>1. IF i = WriteChar THEN semq'[Term0] = Append(semq[Term0], current)
                         ELSE semq'[Term0] = semq[Term0]
    BY DEF Does, OnSoftSems
  <2>2. Range(semq'[Term0]) = IF i = WriteChar THEN Range(semq[Term0]) \cup {current}
                                               ELSE Range(semq[Term0])
    BY <1>2, <2>1, TestSoftSems
  <2> QED BY <2>2 DEF Blocked
<1>7. /\ \A x : Blocked(x, Clock)' =>
           Blocked(x, Clock) \/ (x = current /\ i \in {AwaitClock, AwaitAgain})
      /\ \A x : Blocked(x, Clock) => Blocked(x, Clock)'
      /\ i = AwaitClock => current \in Range(semq'[Clock])
  <2>1. \/ i \in {AwaitClock, AwaitAgain} /\ semq'[Clock] = Append(semq[Clock], current)
        \/ i # AwaitClock /\ semq'[Clock] = semq[Clock]
    BY DEF Does, OnSoftSems
  <2>2. \/ /\ i \in {AwaitClock, AwaitAgain}
           /\ Range(semq'[Clock]) = Range(semq[Clock]) \cup {current}
        \/ i # AwaitClock /\ Range(semq'[Clock]) = Range(semq[Clock])
    BY <1>2, <2>1, TestSoftSems
  <2> QED BY <2>2 DEF Blocked
<1>8. busy' = IF i = WriteChar THEN busy \cup {Term0} ELSE busy
  BY DEF Does, OnSoftSems
<1> QED BY <1>5, <1>6, <1>7, <1>8

\* The value of a semaphore after such an instruction.
LEMMA DoesValues ==
  ASSUME Sound, NEW i, Does(i), NEW s \in UserSems
  PROVE  /\ sem[s] \in Int
         /\ i = P(s) => sem'[s] = sem[s] - 1
         /\ i = V(s) => sem'[s] = sem[s] + 1
         /\ i = Reset /\ s \in P8Sems => sem'[s] = 0
         /\ i # P(s) /\ i # V(s) /\ (i = Reset => s \notin P8Sems) => sem'[s] = sem[s]
<1>1. sem[s] \in Int
  BY Unpacked, TestSoftSems DEF Sound
<1> QED BY <1>1 DEF Does, OnUserSems, Lowered, Raised, Untouched

\* An interrupt moves nobody in its program.
LEMMA QuietProcesses ==
  ASSUME Sound, Quiet
  PROVE  /\ Live' = Live /\ UNCHANGED <<instance, runs, pc, parent, prio, support>>
         /\ \A x : Text(x)' = Text(x)
         /\ \A x, j : (Did(x, j)' <=> Did(x, j)) /\ (Past(x, j)' <=> Past(x, j))
         /\ \A x : \A s \in UserSems : Blocked(x, s)' <=> Blocked(x, s)
         /\ \A s \in UserSems : sem'[s] = sem[s]
         /\ \A x : Blocked(x, Term0)' => Blocked(x, Term0)
         /\ \A x : Blocked(x, Clock)' => Blocked(x, Clock)
         /\ current # NULL => \A x : Blocked(x, Clock) => Blocked(x, Clock)'
         /\ busy' = {} \/ (busy' = busy /\ semq'[Term0] = semq[Term0])
<1>1. UNCHANGED <<instance, runs, pc, free, parent, prio, support>>
  BY DEF Quiet, Fixed
<1>2. \A x : Text(x)' = Text(x)
  BY <1>1, ProgramSame DEF Text
<1>3. \A x, j : (Did(x, j)' <=> Did(x, j)) /\ (Past(x, j)' <=> Past(x, j))
  BY <1>1, <1>2 DEF Did, Past
<1>4. \A x : \A s \in UserSems : Blocked(x, s)' <=> Blocked(x, s)
  BY DEF Quiet, Untouched, Blocked
<1>5. \A s \in UserSems : sem'[s] = sem[s]
  BY DEF Quiet, Untouched
<1>6. \A x : Blocked(x, Term0)' => Blocked(x, Term0)
  BY DEF Quiet, Blocked
<1>7. /\ \A x : Blocked(x, Clock)' => Blocked(x, Clock)
      /\ current # NULL => \A x : Blocked(x, Clock) => Blocked(x, Clock)'
  BY DEF Quiet, Blocked
<1> QED BY <1>1, <1>2, <1>3, <1>4, <1>5, <1>6, <1>7 DEF Live, Quiet

\* A process that is started is at its first instruction; the others stay
\* where they are but the one that has started it.
LEMMA CreatesProcesses ==
  ASSUME Sound, NEW q, NEW p, Creates(q, p)
  PROVE  /\ p \in Pcbs /\ p \notin Live /\ current \in Live /\ current \in Pcbs
         /\ current # p /\ Live' = Live \cup {p} /\ current' = current
         /\ instance' = instance /\ q \in Processes
         /\ runs'[p] = q /\ pc'[p] = 1 /\ parent'[p] = current
         /\ prio'[p] = Priority(q) /\ support'[p] = (q = "p5")
         /\ pc'[current] = pc[current] + 1 /\ pc[current] \in 1..Len(Text(current))
         /\ Text(current)[pc[current]] = Start(q)
         /\ Starts(runs[current], Text(current), pc[current], q)
         /\ \A x \in Pcbs : x # p => /\ runs'[x] = runs[x] /\ parent'[x] = parent[x]
                                     /\ prio'[x] = prio[x] /\ support'[x] = support[x]
                                     /\ Text(x)' = Text(x)
                                     /\ x # current => pc'[x] = pc[x]
         /\ \A x \in Pcbs : \A j : x # p =>
              Did(x, j)' <=> IF x = current THEN j = Start(q) ELSE Did(x, j)
         /\ \A x \in Pcbs : \A j : x # p =>
              Past(x, j)' <=> Past(x, j) \/ (x = current /\ j = Start(q))
         /\ \A j : ~Did(p, j)' /\ ~Past(p, j)'
         /\ \A x, s : Blocked(x, s)' <=> Blocked(x, s)
         /\ UNCHANGED <<sem, semq, busy>>
<1>1. /\ At(Start(q)) /\ p \in free /\ free' = free \ {p} /\ q \in Processes
      /\ parent' = [parent EXCEPT ![p] = current]
      /\ prio' = [prio EXCEPT ![p] = Priority(q)]
      /\ support' = [support EXCEPT ![p] = (q = "p5")]
      /\ runs' = [runs EXCEPT ![p] = q]
      /\ pc' = [pc EXCEPT ![current] = @ + 1, ![p] = 1]
      /\ UNCHANGED <<sem, semq, busy, current, instance>>
  BY DEF Creates
<1>2. /\ current \in Live /\ current \in Pcbs
      /\ Lawful(runs[current], Text(current))
      /\ pc[current] \in 1..Len(Text(current)) /\ Text(current)[pc[current]] = Start(q)
  BY <1>1, AtLive
<1>3. /\ free \in SUBSET Pcbs /\ parent \in [Pcbs -> Pcbs \cup {NULL}]
      /\ prio \in [Pcbs -> Prios] /\ support \in [Pcbs -> BOOLEAN]
      /\ runs \in [Pcbs -> Processes] /\ pc \in [Pcbs -> Nat \ {0}]
  BY Unpacked DEF Sound, TestTyped
<1>4. p \in Pcbs /\ p \notin Live /\ current # p /\ Live' = Live \cup {p}
  BY <1>1, <1>2, <1>3 DEF Live
<1>5. /\ runs'[p] = q /\ pc'[p] = 1 /\ parent'[p] = current
      /\ prio'[p] = Priority(q) /\ support'[p] = (q = "p5")
      /\ pc'[current] = pc[current] + 1
      /\ \A x \in Pcbs : x # p => /\ runs'[x] = runs[x] /\ parent'[x] = parent[x]
                                  /\ prio'[x] = prio[x] /\ support'[x] = support[x]
                                  /\ x # current => pc'[x] = pc[x]
  BY <1>1, <1>2, <1>3, <1>4
<1>6. Starts(runs[current], Text(current), pc[current], q)
  BY <1>2 DEF Lawful, RightStarts
<1>7. \A x \in Pcbs : x # p => Text(x)' = Text(x)
  BY <1>1, <1>5, ProgramSame DEF Text
<1>8. \A x \in Pcbs : \A j : x # p =>
        Did(x, j)' <=> IF x = current THEN j = Start(q) ELSE Did(x, j)
  <2>1. pc[current] + 1 > 1 /\ pc[current] + 1 - 1 = pc[current]
    BY <1>2, <1>3
  <2> QED BY <1>2, <1>5, <1>7, <2>1 DEF Did
<1>9. ASSUME NEW x \in Pcbs, NEW j, x # p
      PROVE  Past(x, j)' <=> Past(x, j) \/ (x = current /\ j = Start(q))
  <2>1. CASE x = current
    <3>1. 1..pc'[x]-1 = (1..pc[x]-1) \cup {pc[x]}
      BY <1>2, <1>3, <1>5, <2>1
    <3> QED BY <1>2, <1>7, <1>9, <2>1, <3>1 DEF Past
  <2>2. CASE x # current
    BY <1>5, <1>7, <1>9, <2>2 DEF Past
  <2> QED BY <2>1, <2>2
<1>10. \A j : ~Did(p, j)' /\ ~Past(p, j)'
  BY <1>5 DEF Did, Past
<1>11. \A x, s : Blocked(x, s)' <=> Blocked(x, s)
  BY <1>1 DEF Blocked
<1> QED BY <1>1, <1>2, <1>4, <1>5, <1>6, <1>7, <1>8, <1>9, <1>10, <1>11

\* Those that survive a termination stay where they are.
LEMMA KillsProcesses ==
  ASSUME Sound, NEW t, Kills(t), NEW K, K = Subtree(t)
  PROVE  /\ Live' = Live \ K /\ t \in K /\ current \in K /\ K \subseteq Live
         /\ current \in Live /\ instance' = instance
         /\ \A x \in Live : parent[x] \in K => x \in K
         /\ \A x \in K : x = t \/ parent[x] \in K
         /\ \A x \in Live' : /\ x \in Live /\ x # current /\ x \notin K
                             /\ runs'[x] = runs[x] /\ parent'[x] = parent[x]
                             /\ prio'[x] = prio[x] /\ support'[x] = support[x]
                             /\ Text(x)' = Text(x) /\ pc'[x] = pc[x]
         /\ \A x \in Live' : \A j : (Did(x, j)' <=> Did(x, j)) /\ (Past(x, j)' <=> Past(x, j))
         /\ \A s \in Sems : \A x : Blocked(x, s)' <=> Blocked(x, s) /\ x \notin K
         /\ \A s \in Sems : (\A x \in K : ~Blocked(x, s)) => Untouched(s)
         /\ \A s \in UserSems : /\ sem[s] \in Int /\ sem'[s] \in Int
                                /\ sem'[s] = sem[s] \/ (sem[s] < 0 /\ sem'[s] <= 0)
         /\ UNCHANGED <<busy, stored, failed>>
<1>1. /\ Gone(t) /\ Asks(t) /\ pc' = [pc EXCEPT ![current] = @ + 1]
      /\ UNCHANGED <<instance, runs, prio, support, stored, failed, busy>>
  BY DEF Kills
<1>2. /\ t \in K /\ current \in K /\ K \subseteq Live /\ Live' = Live \ K
      /\ \A x \in Live : parent[x] \in K => x \in K
      /\ \A x \in K : x = t \/ parent[x] \in K
      /\ \A x \in Live \ K : parent'[x] = parent[x]
      /\ \A s \in Sems : Range(semq'[s]) = Range(semq[s]) \ K
      /\ \A s \in Sems : Range(semq[s]) \cap K = {} => Untouched(s)
      /\ \A s \in UserSems : sem'[s] = sem[s] \/ (sem[s] < 0 /\ sem'[s] <= 0)
  BY <1>1 DEF Gone
<1>3. /\ pc \in [Pcbs -> Nat \ {0}] /\ sem \in [Sems -> Int] /\ UserSems \subseteq Sems
      /\ free \in SUBSET Pcbs
  BY Unpacked, TestSoftSems DEF Sound, TestTyped
<1>s. \A s \in Sems : sem'[s] \in Int
  BY <1>1 DEF Gone
<1>4. \A x \in Live' : x \in Live /\ x # current /\ x \notin K /\ x \in Pcbs
  BY <1>2 DEF Live
<1>5. \A x \in Live' : pc'[x] = pc[x] /\ Text(x)' = Text(x)
  BY <1>1, <1>3, <1>4, ProgramSame DEF Text
<1>6. \A x \in Live' : \A j : (Did(x, j)' <=> Did(x, j)) /\ (Past(x, j)' <=> Past(x, j))
  BY <1>5 DEF Did, Past
<1>7. \A s \in Sems : \A x : Blocked(x, s)' <=> Blocked(x, s) /\ x \notin K
  BY <1>2 DEF Blocked
<1>8. \A s \in Sems : (\A x \in K : ~Blocked(x, s)) => Untouched(s)
  BY <1>2 DEF Blocked
<1> QED BY <1>1, <1>2, <1>3, <1>s, <1>4, <1>5, <1>6, <1>7, <1>8

----------------------------------------------------------------------------
(* What is known of the processes from their programs *)

\* The processes of p8.
LEMMA Family == P8Family = {"p8root"} \cup Children \cup LeafSet
<1>1. Range(Leaf) = LeafSet
  BY DEF Range, Leaf, LeafSet
<1> QED BY <1>1 DEF P8Family, Children

\* The semaphores of p8.
LEMMA P8Names ==
  /\ P8Sems = {"sem_blkp8", "sem_endp8", "endcreate0", "endcreate1", "endcreate2", "endcreate3"}
  /\ P8Sems \subseteq UserSems
<1>1. Range(EndCreate) = {"endcreate0", "endcreate1", "endcreate2", "endcreate3"}
  BY DEF Range, EndCreate
<1> QED BY <1>1, TestSoftSems DEF P8Sems, TestSems

\* A process has executed lawful instructions.
LEMMA HasDone ==
  ASSUME Sound, NEW x \in Live
  PROVE  /\ x \in Pcbs /\ runs[x] \in Processes /\ Lawful(runs[x], Text(x))
         /\ pc[x] \in Nat \ {0} /\ Len(Text(x)) \in Nat
         /\ \A k \in 1..pc[x]-1 : k \in 1..Len(Text(x))
         /\ \A i : Did(x, i) => pc[x] - 1 \in 1..pc[x]-1 /\ Text(x)[pc[x]-1] = i
         /\ \A i : Did(x, i) => Past(x, i)
<1>1. x \in Pcbs /\ runs[x] \in Processes /\ pc[x] \in Nat \ {0} /\ pc[x] <= Len(Text(x)) + 1
  BY DEF Sound, TestTyped, Kin, Live
<1>2. Lawful(runs[x], Text(x)) /\ Len(Text(x)) \in Nat
  BY <1>1, AllLawful DEF Text, Lawful
<1>3. \A k \in 1..pc[x]-1 : k \in 1..Len(Text(x))
  BY <1>1, <1>2
<1>4. \A i : Did(x, i) => pc[x] - 1 \in 1..pc[x]-1 /\ Text(x)[pc[x]-1] = i
  BY <1>1 DEF Did
<1> QED BY <1>1, <1>2, <1>3, <1>4 DEF Past

\* What the process that has just executed i may be.
LEMMA LastDone ==
  ASSUME Sound, NEW x \in Live
  PROVE  /\ \A s : Did(x, P(s)) => Lowers(runs[x], Text(x), pc[x]-1, s)
         /\ \A s : Did(x, V(s)) => Raises(runs[x], Text(x), pc[x]-1, s)
         /\ \A r : Did(x, Start(r)) => Starts(runs[x], Text(x), pc[x]-1, r)
         /\ \A v : Did(x, Store(v)) => Stores(runs[x], Text(x), pc[x]-1, v)
BY HasDone DEF Lawful, RightSems, RightStarts, RightValues

\* What the running process may be, and where in its program, when it
\* executes i.
LEMMA Doing ==
  ASSUME Sound, NEW i, At(i)
  PROVE  LET q == runs[current]  S == Text(current)  k == pc[current]
         IN  /\ q \in Processes /\ k \in 1..Len(S) /\ S[k] = i /\ Len(S) \in Nat /\ k \in Nat
             /\ \A s : i = V(s) => Raises(q, S, k, s)
             /\ \A s : i = P(s) => Lowers(q, S, k, s)
             /\ \A r : i = Start(r) => Starts(q, S, k, r)
             /\ \A x : i = Store(x) => Stores(q, S, k, x)
             /\ \A x : i = Check(x) => Checks(q, S, k, x)
             /\ \A s, n : i = CheckSem(s, n) => ChecksSem(q, k, s, n)
             /\ i = WriteChar => k > 1 /\ S[k-1] = P("sem_term_mut")
             /\ i = WriteChar /\ q \in Short => k = 2
             /\ i \in {AwaitClock, AwaitAgain} => q \in {"p3", "p5"}
             /\ i = Exit => q \in Leaving /\ k = Len(S)
             /\ i = KillParent => q = "p10" /\ k = Len(S)
             /\ i = Trap => q = "p5" \/ (q \in {"p1", "p6", "p7"} /\ k = Len(S))
<1> DEFINE q == runs[current]  S == Text(current)  k == pc[current]
<1>1. /\ q \in Processes /\ Lawful(q, S) /\ k \in 1..Len(S) /\ S[k] = i
  BY AtLive
<1> HIDE DEF q, S, k
<1>2. Len(S) \in Nat /\ k \in Nat
  BY <1>1 DEF Lawful
<1>3. /\ \A s : i = V(s) => Raises(q, S, k, s)
      /\ \A s : i = P(s) => Lowers(q, S, k, s)
  BY <1>1 DEF Lawful, RightSems
<1>4. \A r : i = Start(r) => Starts(q, S, k, r)
  BY <1>1 DEF Lawful, RightStarts
<1>5. /\ \A x : i = Store(x) => Stores(q, S, k, x)
      /\ \A x : i = Check(x) => Checks(q, S, k, x)
      /\ \A s, n : i = CheckSem(s, n) => ChecksSem(q, k, s, n)
  BY <1>1 DEF Lawful, RightValues
<1>6. /\ i = WriteChar => k > 1 /\ S[k-1] = P("sem_term_mut")
      /\ i = WriteChar /\ q \in Short => k = 2
      /\ i \in {AwaitClock, AwaitAgain} => q \in {"p3", "p5"}
  BY <1>1 DEF Lawful, RightWaits
<1>7. /\ i = Exit => q \in Leaving /\ k = Len(S)
      /\ i = KillParent => q = "p10" /\ k = Len(S)
      /\ i = Trap => q = "p5" \/ (q \in {"p1", "p6", "p7"} /\ k = Len(S))
  BY <1>1 DEF Lawful, RightEnds
<1> QED BY <1>1, <1>2, <1>3, <1>4, <1>5, <1>6, <1>7 DEF q, S, k

\* After its last instruction comes the one that its program says.
LEMMA Follows ==
  ASSUME Sound, NEW i, At(i)
  PROVE  /\ \A r \in Recorded : Did(current, Start(r)) => i = Store(r)
         /\ Did(current, Store("p8root")) => i = P("sem_endp8")
<1>1. /\ current \in Live /\ pc[current] \in 1..Len(Text(current))
      /\ Text(current)[pc[current]] = i /\ Len(Text(current)) \in Nat
  BY AtLive, HasDone
<1>2. pc[current] - 1 + 1 = pc[current]
  BY <1>1
<1>3. \A r \in Recorded : Did(current, Start(r)) => i = Store(r)
  BY <1>1, <1>2, LastDone DEF Starts
<1>4. Did(current, Store("p8root")) => i = P("sem_endp8")
  BY <1>1, <1>2, LastDone DEF Stores
<1> QED BY <1>3, <1>4

\* A process that is not the root is the work of its parent.
LEMMA ParentRuns ==
  ASSUME Sound, NEW x \in Live, runs[x] # "p1"
  PROVE  /\ parent[x] \in Live /\ parent[x] \in Pcbs
         /\ \E k \in 1..pc[parent[x]]-1 :
              /\ Text(parent[x])[k] = Start(runs[x])
              /\ Starts(runs[parent[x]], Text(parent[x]), k, runs[x])
<1>1. parent[x] # NULL /\ Past(parent[x], Start(runs[x]))
  BY DEF Sound, Kin
<1>2. parent[x] \in Live /\ parent[x] \in Pcbs
  BY <1>1, Unpacked DEF Sound, OneTree, Live
<1>3. PICK k \in 1..pc[parent[x]]-1 : Text(parent[x])[k] = Start(runs[x])
  BY <1>1 DEF Past
<1>4. Starts(runs[parent[x]], Text(parent[x]), k, runs[x])
  BY <1>2, <1>3, HasDone DEF Lawful, RightStarts
<1> QED BY <1>2, <1>3, <1>4

\* With one of p8's processes p8root is alive.
LEMMA FamilyRoot ==
  ASSUME Sound, NEW y \in Live, runs[y] \in P8Family
  PROVE  \E z \in Live : runs[z] = "p8root"
<1>1. ASSUME NEW x \in Live, runs[x] \in Children PROVE \E z \in Live : runs[z] = "p8root"
  <2>1. runs[x] # "p1"
    BY <1>1 DEF Children
  <2>2. parent[x] \in Live /\ \E k : Makes(runs[parent[x]], k, runs[x])
    BY <2>1, ParentRuns DEF Starts
  <2>3. runs[parent[x]] = "p8root"
    BY <1>1, <2>2 DEF Makes, Children, ByP1
  <2> QED BY <2>2, <2>3
<1>2. ASSUME NEW x \in Live, runs[x] \in LeafSet PROVE \E z \in Live : runs[z] \in Children
  <2>1. runs[x] # "p1"
    BY <1>2 DEF LeafSet
  <2>2. parent[x] \in Live /\ \E k : Makes(runs[parent[x]], k, runs[x])
    BY <2>1, ParentRuns DEF Starts
  <2>3. runs[parent[x]] \in Children
    BY <1>2, <2>2 DEF Makes, LeafSet, Children, ByP1
  <2> QED BY <2>2, <2>3
<1> QED BY <1>1, <1>2, Family

\* Every process is started by one other only.
LEMMA OneMaker ==
  ASSUME NEW q, NEW r, NEW j, NEW k, NEW p, Makes(q, j, p), Makes(r, k, p)
  PROVE  q = r /\ p # "p1" /\ (p = "p8root" => q = "p1")
BY DEF Makes, ByP1

----------------------------------------------------------------------------
(* Each step keeps the invariant *)

\* The counter of instructions after a step.
LEMMA Counted ==
  ASSUME NEW f \in [Pcbs -> Nat \ {0}], NEW c \in Pcbs, NEW p \in Pcbs
  PROVE  /\ [f EXCEPT ![c] = @ + 1] \in [Pcbs -> Nat \ {0}]
         /\ [f EXCEPT ![c] = @ + 1, ![p] = 1] \in [Pcbs -> Nat \ {0}]
<1>1. f[c] + 1 \in Nat \ {0} /\ 1 \in Nat \ {0}
  OBVIOUS
<1> QED BY <1>1

\* TestTyped is kept.
LEMMA TypedKept ==
  ASSUME Sound, [TestNext]_testVars
  PROVE  TestTyped'
<1>0. TestTyped
  BY DEF Sound
<1>1. fresh' \in BOOLEAN
  BY <1>0 DEF TestTyped, TestNext, Execute, CallPasseren, CallVerhogen, CallDoIO,
     CallClockWait, NoSecondWait, CallTerminate, TakeTrap, CallYield, CallCreate,
     StoreValue, ResetSems, CheckValue, Interrupted, SystemCall, Done, testVars
<1>2. CASE Quiet
  BY <1>0, <1>1, <1>2 DEF Quiet, Fixed, TestTyped
<1>3. ASSUME NEW i, Does(i) PROVE TestTyped'
  <2>1. /\ UNCHANGED <<instance, runs>> /\ pc' = [pc EXCEPT ![current] = @ + 1]
        /\ OnValues(i) /\ At(i)
    BY <1>3 DEF Does, Fixed
  <2>2. pc' \in [Pcbs -> Nat \ {0}]
    BY <1>0, <2>1, AtLive, Counted DEF TestTyped
  <2>3. stored' \subseteq Processes \cup {"p1p2synch"}
    <3>1. CASE \E x : i = Store(x) /\ x # "P8Sems"
      <4>1. PICK x : i = Store(x) /\ x # "P8Sems"
        BY <3>1
      <4>2. x \in Recorded \cup {"p1p2synch"}
        BY <2>1, <4>1, Doing DEF Stores
      <4>3. Recorded \subseteq Processes
        BY ProcessNames DEF Recorded
      <4> QED BY <1>0, <2>1, <4>1, <4>2, <4>3 DEF OnValues, TestTyped
    <3>2. CASE ~\E x : i = Store(x) /\ x # "P8Sems"
      BY <1>0, <2>1, <3>2 DEF OnValues, TestTyped
    <3> QED BY <3>1, <3>2
  <2> QED BY <1>0, <1>1, <2>1, <2>2, <2>3 DEF TestTyped
<1>4. ASSUME NEW q, NEW p, Creates(q, p) PROVE TestTyped'
  <2>1. p \in Pcbs /\ current \in Pcbs
    BY <1>4, CreatesProcesses
  <2>2. pc' \in [Pcbs -> Nat \ {0}]
    BY <1>0, <1>4, <2>1, Counted DEF Creates, TestTyped
  <2> QED BY <1>0, <1>1, <1>4, <2>2 DEF Creates, TestTyped
<1>5. ASSUME NEW t, Kills(t) PROVE TestTyped'
  <2>1. current \in Pcbs
    BY <1>5, KillsProcesses DEF Live
  <2>2. pc' \in [Pcbs -> Nat \ {0}]
    BY <1>0, <1>5, <2>1, Counted DEF Kills, TestTyped
  <2> QED BY <1>0, <1>1, <1>5, <2>2 DEF Kills, TestTyped
<1> QED BY <1>2, <1>3, <1>4, <1>5, StepView

\* Kin is kept: p1 is the root of the tree and everybody has been started by
\* its parent.
LEMMA KinKept ==
  ASSUME Sound, [TestNext]_testVars
  PROVE  Kin'
<1>0. Kin
  BY DEF Sound
<1> SUFFICES ASSUME NEW x, x \in Live', NEW y, y = parent'[x], NEW q, q = runs'[x]
             PROVE  /\ support'[x] = (q = "p5") /\ prio'[x] = Priority(q)
                    /\ pc'[x] <= Len(Text(x)') + 1
                    /\ IF y = NULL THEN q = "p1" ELSE Past(y, Start(q))'
  BY DEF Kin, Past, Text
<1>1. ASSUME x \in Live
      PROVE  /\ x \in Pcbs /\ pc[x] <= Len(Text(x)) + 1
             /\ support[x] = (runs[x] = "p5") /\ prio[x] = Priority(runs[x])
             /\ IF parent[x] = NULL THEN runs[x] = "p1"
                ELSE /\ parent[x] \in Live /\ parent[x] \in Pcbs
                     /\ Past(parent[x], Start(runs[x]))
  <2>1. parent[x] # NULL => parent[x] \in Live /\ parent[x] \in Pcbs
    BY <1>1, Unpacked DEF Sound, OneTree, Live
  <2> QED BY <1>0, <1>1, <2>1 DEF Kin, Live
<1>2. CASE Quiet
  <2>1. /\ x \in Live /\ UNCHANGED <<instance, runs, pc, parent, prio, support>>
        /\ Text(x)' = Text(x) /\ \A z, j : Past(z, j)' <=> Past(z, j)
    BY <1>2, QuietProcesses
  <2> QED BY <1>1, <2>1
<1>3. ASSUME NEW i, Does(i)
      PROVE  /\ support'[x] = (q = "p5") /\ prio'[x] = Priority(q)
             /\ pc'[x] <= Len(Text(x)') + 1
             /\ IF y = NULL THEN q = "p1" ELSE Past(y, Start(q))'
  <2>1. /\ x \in Live /\ UNCHANGED <<instance, runs, parent, prio, support>>
        /\ Text(x)' = Text(x) /\ \A z \in Pcbs : \A j : Past(z, j) => Past(z, j)'
        /\ pc'[x] = pc[x] \/ (x = current /\ pc'[x] = pc[x] + 1)
        /\ pc[current] \in 1..Len(Text(current))
    BY <1>3, DoesProcesses DEF Live
  <2>2. pc'[x] <= Len(Text(x)) + 1
    BY <1>1, <2>1, HasDone
  <2> QED BY <1>1, <2>1, <2>2
<1>4. ASSUME NEW r, NEW p, Creates(r, p)
      PROVE  /\ support'[x] = (q = "p5") /\ prio'[x] = Priority(q)
             /\ pc'[x] <= Len(Text(x)') + 1
             /\ IF y = NULL THEN q = "p1" ELSE Past(y, Start(q))'
  <2>0. PICK c : c = current
    OBVIOUS
  <2>1. /\ Live' = Live \cup {p} /\ c # p /\ c \in Live /\ c \in Pcbs
        /\ r \in Processes /\ instance' = instance /\ p \in Pcbs /\ p \notin Live
        /\ runs'[p] = r /\ pc'[p] = 1 /\ parent'[p] = c
        /\ prio'[p] = Priority(r) /\ support'[p] = (r = "p5")
        /\ pc'[c] = pc[c] + 1 /\ pc[c] \in 1..Len(Text(c))
        /\ \A z \in Pcbs : z # p =>
             /\ runs'[z] = runs[z] /\ parent'[z] = parent[z]
             /\ prio'[z] = prio[z] /\ support'[z] = support[z]
             /\ Text(z)' = Text(z) /\ (z # c => pc'[z] = pc[z])
        /\ \A z \in Pcbs : \A j : z # p =>
             (Past(z, j)' <=> Past(z, j) \/ (z = c /\ j = Start(r)))
    BY <1>4, <2>0, CreatesProcesses
  <2>2. CASE x = p
    <3>1. Past(c, Start(r))'
      BY <2>1
    <3>2. c # NULL
      BY <2>1, PcbsAssumption
    <3>3. Len(Text(x)') \in Nat
      <4>1. Text(x)' = Program(r)
        BY <2>1, <2>2, ProgramSame DEF Text
      <4> QED BY <2>1, <4>1, AllLawful DEF Lawful
    <3> QED BY <2>1, <2>2, <3>1, <3>2, <3>3
  <2>3. CASE x \in Live
    <3>1. x # p /\ x \in Pcbs
      BY <1>1, <2>1, <2>3
    <3>2. pc'[x] <= Len(Text(x)) + 1
      BY <1>1, <2>1, <2>3, <3>1, HasDone
    <3>3. parent[x] # NULL => parent[x] # p
      BY <1>1, <2>1, <2>3
    <3> QED BY <1>1, <2>1, <2>3, <3>1, <3>2, <3>3
  <2> QED BY <2>1, <2>2, <2>3
<1>5. ASSUME NEW t, Kills(t)
      PROVE  /\ support'[x] = (q = "p5") /\ prio'[x] = Priority(q)
             /\ pc'[x] <= Len(Text(x)') + 1
             /\ IF y = NULL THEN q = "p1" ELSE Past(y, Start(q))'
  <2>0. PICK K : K = Subtree(t)
    OBVIOUS
  <2>1. /\ Live' = Live \ K
        /\ \A z \in Live : parent[z] \in K => z \in K
    BY <1>5, <2>0, KillsProcesses
  <2>2. \A z \in Live' :
             /\ z \in Live /\ z \notin K
             /\ runs'[z] = runs[z] /\ parent'[z] = parent[z]
             /\ prio'[z] = prio[z] /\ support'[z] = support[z]
             /\ Text(z)' = Text(z) /\ pc'[z] = pc[z]
    BY <1>5, <2>0, KillsProcesses
  <2>3. \A z \in Live' : \A j : Past(z, j)' <=> Past(z, j)
    BY <1>5, <2>0, KillsProcesses
  <2>4. parent[x] # NULL => parent[x] \in Live'
    BY <1>1, <2>1, <2>2
  <2> QED BY <1>1, <2>2, <2>3, <2>4
<1> QED BY <1>2, <1>3, <1>4, <1>5, StepView

\* Single is kept: nobody is started a second time while it is alive.
LEMMA SingleKept ==
  ASSUME TInv, [TestNext]_testVars
  PROVE  Single'
<1>0. Sound /\ Single /\ Reset8
  BY DEF TInv
<1> SUFFICES ASSUME NEW x, x \in Live', NEW y, y \in Live', runs'[x] = runs'[y]
             PROVE  x = y
  BY DEF Single
<1>1. CASE Quiet \/ \E i : Does(i)
  <2>1. x \in Live /\ y \in Live /\ runs' = runs
    BY <1>0, <1>1, QuietProcesses, DoesProcesses
  <2> QED BY <1>0, <2>1 DEF Single
<1>2. ASSUME NEW t, Kills(t) PROVE x = y
  <2>0. PICK K : K = Subtree(t)
    OBVIOUS
  <2>1. x \in Live /\ y \in Live /\ runs'[x] = runs[x] /\ runs'[y] = runs[y]
    BY <1>0, <1>2, <2>0, KillsProcesses
  <2> QED BY <1>0, <2>1 DEF Single
<1>3. ASSUME NEW q, NEW p, Creates(q, p) PROVE x = y
  <2>1. /\ Live' = Live \cup {p} /\ p \notin Live /\ p \in Pcbs
        /\ runs'[p] = q /\ \A z \in Pcbs : z # p => runs'[z] = runs[z]
        /\ current \in Live /\ pc[current] \in 1..Len(Text(current))
        /\ Text(current)[pc[current]] = Start(q)
        /\ Starts(runs[current], Text(current), pc[current], q)
    BY <1>0, <1>3, CreatesProcesses
  <2>2. ASSUME NEW z \in Live PROVE runs[z] # q
    <3> SUFFICES ASSUME runs[z] = q PROVE FALSE
      OBVIOUS
    <3>1. Makes(runs[current], pc[current], q)
      BY <2>1 DEF Starts
    <3>2. q # "p1" /\ (q = "p8root" => runs[current] = "p1")
      BY <3>1, OneMaker
    <3>3. /\ parent[z] \in Live
          /\ \E k \in 1..pc[parent[z]]-1 :
               /\ Text(parent[z])[k] = Start(q)
               /\ Starts(runs[parent[z]], Text(parent[z]), k, q)
      BY <1>0, <3>2, ParentRuns
    <3>4. runs[parent[z]] = runs[current]
      BY <3>1, <3>3, OneMaker DEF Starts
    <3>5. parent[z] = current
      BY <1>0, <2>1, <3>3, <3>4 DEF Single
    <3>6. PICK k \in 1..pc[current]-1 : Text(current)[k] = Start(q)
      BY <3>3, <3>5
    <3>7. k \in 1..Len(Text(current)) /\ k # pc[current] /\ pc[current] \in Nat
      BY <1>0, <2>1, <3>6, HasDone
    <3>8. q = "p8root"
      BY <2>1, <3>6, <3>7 DEF Starts
    <3>9. Did(current, Reset)
      BY <2>1, <3>8 DEF Starts, Did
    <3> QED BY <1>0, <2>1, <3>2, <3>8, <3>9, Family DEF Reset8, Live, Is
  <2> QED BY <1>0, <2>1, <2>2 DEF Single, Live
<1> QED BY <1>0, <1>1, <1>2, <1>3, StepView

\* Waits is kept: the running process waits on what it has just asked for.
LEMMA WaitsKept ==
  ASSUME TInv, [TestNext]_testVars
  PROVE  Waits'
<1>0. Sound /\ Waits
  BY DEF TInv
<1>1. /\ \A s \in UserSems : \A x : Blocked(x, s) => Did(x, P(s))
      /\ \A x : Blocked(x, Term0) => Did(x, WriteChar)
      /\ \A x : Blocked(x, Clock) => Did(x, AwaitClock) \/ Did(x, AwaitAgain)
  BY <1>0 DEF Waits, Blocked
<1>2. /\ \A s \in Sems : \A x : Blocked(x, s) => x \in Live /\ x # current
      /\ Term0 \in Sems /\ Clock \in Sems /\ UserSems \subseteq Sems
  BY <1>0, NotWaiting, TestSoftSems DEF Blocked
<1> SUFFICES
      /\ \A s \in UserSems : \A x : Blocked(x, s)' => Did(x, P(s))'
      /\ \A x : Blocked(x, Term0)' => Did(x, WriteChar)'
      /\ \A x : Blocked(x, Clock)' => Did(x, AwaitClock)' \/ Did(x, AwaitAgain)'
  BY DEF Waits, Blocked
<1>3. CASE Quiet
  BY <1>0, <1>1, <1>3, QuietProcesses
<1>4. ASSUME NEW i, Does(i)
      PROVE  /\ \A s \in UserSems : \A x : Blocked(x, s)' => Did(x, P(s))'
             /\ \A x : Blocked(x, Term0)' => Did(x, WriteChar)'
             /\ \A x : Blocked(x, Clock)' => Did(x, AwaitClock)' \/ Did(x, AwaitAgain)'
  <2>1. /\ \A x \in Pcbs : \A j : Did(x, j)' <=> IF x = current THEN j = i ELSE Did(x, j)
        /\ current \in Pcbs
    BY <1>0, <1>4, DoesProcesses
  <2> QED BY <1>0, <1>1, <1>2, <1>4, <2>1, DoesQueues DEF Live
<1>5. ASSUME NEW q, NEW p, Creates(q, p)
      PROVE  /\ \A s \in UserSems : \A x : Blocked(x, s)' => Did(x, P(s))'
             /\ \A x : Blocked(x, Term0)' => Did(x, WriteChar)'
             /\ \A x : Blocked(x, Clock)' => Did(x, AwaitClock)' \/ Did(x, AwaitAgain)'
  <2>1. /\ \A x \in Pcbs : \A j : x # p =>
             (Did(x, j)' <=> IF x = current THEN j = Start(q) ELSE Did(x, j))
        /\ \A x, s : Blocked(x, s)' <=> Blocked(x, s)
        /\ p \notin Live
    BY <1>0, <1>5, CreatesProcesses
  <2> QED BY <1>1, <1>2, <2>1 DEF Live
<1>6. ASSUME NEW t, Kills(t)
      PROVE  /\ \A s \in UserSems : \A x : Blocked(x, s)' => Did(x, P(s))'
             /\ \A x : Blocked(x, Term0)' => Did(x, WriteChar)'
             /\ \A x : Blocked(x, Clock)' => Did(x, AwaitClock)' \/ Did(x, AwaitAgain)'
  <2>0. PICK K : K = Subtree(t)
    OBVIOUS
  <2>1. /\ Live' = Live \ K
        /\ \A x \in Live' : \A j : Did(x, j)' <=> Did(x, j)
        /\ \A s \in Sems : \A x : Blocked(x, s)' <=> Blocked(x, s) /\ x \notin K
    BY <1>0, <1>6, <2>0, KillsProcesses
  <2> QED BY <1>1, <1>2, <2>1
<1> QED BY <1>0, <1>3, <1>4, <1>5, <1>6, StepView

\* Who asks for the semaphores of p8.
LEMMA P8Users ==
  ASSUME NEW q, NEW S, NEW k, NEW s \in P8Sems, Raises(q, S, k, s) \/ Lowers(q, S, k, s)
  PROVE  q \in P8Family \/ (q = "p1" /\ s = "sem_endp8" /\ ~Raises(q, S, k, s))
BY P8Names, Family DEF Raises, Lowers, Children, LeafSet

\* p1 does not reset them before p8root is gone.
LEMMA ResetAlone ==
  ASSUME TInv, At(Reset)
  PROVE  /\ runs[current] = "p1" /\ current \in Live
         /\ \A y \in Live : runs[y] \notin P8Family
<1>0. Sound /\ Single /\ Waits /\ Root8
  BY DEF TInv
<1>1. current \in Live /\ current \in Pcbs
  BY <1>0, AtLive
<1>2. runs[current] = "p1"
  BY <1>0, Doing, Fields DEF Stores, Recorded
<1>3. ASSUME NEW z \in Live, runs[z] = "p8root" PROVE FALSE
  <2>1. z # current /\ z \in Pcbs
    BY <1>2, <1>3 DEF Live
  <2>2. \/ Did(current, Start("p8root")) \/ Did(current, Store("p8root"))
        \/ Blocked(current, "sem_endp8") \/ pc[z] = 11
    BY <1>0, <1>1, <1>2, <1>3, <2>1 DEF Root8, Is
  <2>3. pc[z] # 11
    BY <1>0, <1>1, <1>2, <1>3, <2>1 DEF Root8, Is
  <2>4. ~Blocked(current, "sem_endp8")
    <3>1. "sem_endp8" \in Sems
      BY TestSoftSems, P8Names
    <3> QED BY <1>0, <3>1, NotWaiting DEF Blocked
  <2>5. Reset = Store("p8root") \/ Reset = P("sem_endp8")
    BY <1>0, <2>2, <2>3, <2>4, Follows DEF Recorded
  <2> QED BY <2>5, Fields
<1> QED BY <1>0, <1>1, <1>2, <1>3, FamilyRoot

\* Reset8 is kept: the processes of p8 are gone when p1 resets.
LEMMA ResetKept ==
  ASSUME TInv, [TestNext]_testVars
  PROVE  Reset8'
<1>0. Sound /\ Single /\ Reset8
  BY DEF TInv
<1> SUFFICES ASSUME NEW x \in Pcbs, Is(x, "p1")', Did(x, Reset)'
             PROVE  /\ \A y : y \in Live' => runs'[y] \notin P8Family
                    /\ \A s \in P8Sems : sem'[s] = 0
  BY DEF Reset8
<1>1. x \in Live' /\ runs'[x] = "p1"
  BY DEF Is
<1>s. P8Sems \subseteq UserSems
  BY P8Names
<1>2. CASE Quiet
  BY <1>0, <1>1, <1>2, <1>s, QuietProcesses DEF Reset8, Is
<1>3. ASSUME NEW i, Does(i)
      PROVE  /\ \A y : y \in Live' => runs'[y] \notin P8Family
             /\ \A s \in P8Sems : sem'[s] = 0
  <2>1. /\ Live' = Live /\ runs' = runs /\ current \in Live
        /\ (Did(x, Reset)' <=> IF x = current THEN Reset = i ELSE Did(x, Reset))
    BY <1>0, <1>3, DoesProcesses
  <2>a. At(i)
    BY <1>3 DEF Does
  <2>2. CASE x = current
    <3>1. i = Reset
      BY <2>1, <2>2
    <3>2. \A y \in Live : runs[y] \notin P8Family
      BY <2>a, <3>1, ResetAlone
    <3>3. \A s \in P8Sems : sem'[s] = 0
      BY <1>0, <1>3, <1>s, <3>1, DoesValues
    <3> QED BY <2>1, <3>2, <3>3
  <2>3. CASE x # current
    <3>1. /\ \A y \in Live : runs[y] \notin P8Family
          /\ \A s \in P8Sems : sem[s] = 0
      BY <1>0, <1>1, <2>1, <2>3 DEF Reset8, Is
    <3>2. runs[current] \notin P8Family /\ runs[current] # "p1"
      BY <1>0, <1>1, <2>1, <2>3, <3>1 DEF Single
    <3>3. ASSUME NEW s \in P8Sems PROVE i # P(s) /\ i # V(s)
      BY <1>0, <2>a, <3>2, Doing, P8Users
    <3>4. i # Reset
      BY <1>0, <2>a, <3>2, ResetAlone
    <3>5. \A s \in P8Sems : sem'[s] = sem[s]
      BY <1>0, <1>3, <1>s, <3>3, <3>4, DoesValues
    <3> QED BY <2>1, <3>1, <3>5
  <2> QED BY <2>2, <2>3
<1>4. ASSUME NEW q, NEW p, Creates(q, p)
      PROVE  /\ \A y : y \in Live' => runs'[y] \notin P8Family
             /\ \A s \in P8Sems : sem'[s] = 0
  <2>1. /\ Live' = Live \cup {p} /\ p \in Pcbs /\ runs'[p] = q /\ p \notin Live
        /\ \A z \in Pcbs : z # p => runs'[z] = runs[z]
        /\ Makes(runs[current], pc[current], q) /\ current \in Live
        /\ sem' = sem
        /\ \A j : ~Did(p, j)'
        /\ x # p => (Did(x, Reset)' <=> IF x = current THEN Reset = Start(q) ELSE Did(x, Reset))
    BY <1>0, <1>4, CreatesProcesses DEF Starts
  <2>2. x # p /\ x \in Live /\ runs[x] = "p1" /\ x # current /\ Did(x, Reset)
    BY <1>1, <2>1, Fields
  <2>3. /\ \A y \in Live : runs[y] \notin P8Family
        /\ \A s \in P8Sems : sem[s] = 0
    BY <1>0, <2>2 DEF Reset8, Is
  <2>4. runs[current] \notin P8Family /\ runs[current] # "p1"
    BY <1>0, <2>1, <2>2, <2>3 DEF Single
  <2>5. q \notin P8Family
    BY <2>1, <2>4, Family DEF Makes, Children, LeafSet
  <2> QED BY <2>1, <2>3, <2>5 DEF Live
<1>5. ASSUME NEW t, Kills(t)
      PROVE  /\ \A y : y \in Live' => runs'[y] \notin P8Family
             /\ \A s \in P8Sems : sem'[s] = 0
  <2>0. PICK K : K = Subtree(t)
    OBVIOUS
  <2>1. /\ \A z \in Live' : z \in Live /\ runs'[z] = runs[z]
        /\ \A z \in Live' : \A j : Did(z, j)' <=> Did(z, j)
        /\ \A s \in UserSems : sem'[s] = sem[s] \/ (sem[s] < 0 /\ sem'[s] <= 0)
    BY <1>0, <1>5, <2>0, KillsProcesses
  <2>2. /\ \A y \in Live : runs[y] \notin P8Family
        /\ \A s \in P8Sems : sem[s] = 0
    BY <1>0, <1>1, <2>1 DEF Reset8, Is
  <2> QED BY <1>s, <2>1, <2>2
<1> QED BY <1>0, <1>2, <1>3, <1>4, <1>5, StepView

\* Nobody is dispatched between the last two instructions of p8root.
LEMMA P8rootGoesOn ==
  ASSUME Sound, [TestNext]_testVars, runs[current] = "p8root",
         \/ At(Exit) /\ pc' = pc
         \/ At(V("sem_endp8")) /\ pc' # pc
  PROVE  current' = current
<1>1. \A i, j : At(i) /\ At(j) => i = j
  BY DEF At
<1>2. current # NULL /\ pc[current] \in Nat /\ pc \in [Pcbs -> Nat \ {0}] /\ current \in Pcbs
  BY AtLive, HasDone DEF Sound, TestTyped
<1>3. Advance => pc' # pc
  BY <1>2 DEF Advance
<1>4. CASE UNCHANGED testVars \/ (Stopped /\ UNCHANGED testVars)
  BY <1>4 DEF testVars, vars
<1>5. CASE Interrupted
  <2>1. pc' = pc
    BY <1>5 DEF Interrupted
  <2>2. At(Exit)
    BY <2>1
  <2>3. ~Preempt /\ ~ClockTick
    BY <1>2, <2>2 DEF Preempt, P8rootEnds, ClockTick, IntervalIsLong
  <2>4. HandleDevice(Term0)
    BY <1>5, <2>3 DEF Interrupted
  <2> QED BY <1>2, <2>4 DEF HandleDevice, Resume
<1>6. CASE Execute
  <2>1. pc' # pc
    <3>1. CASE CallCreate
      <4>1. pc'[current] = pc[current] + 1
        BY <1>2, <3>1, CreateView, CreatesProcesses
      <4> QED BY <1>2, <4>1
    <3> QED BY <1>3, <1>6, <3>1 DEF Execute, CallPasseren, CallVerhogen, CallDoIO,
          CallClockWait, NoSecondWait, CallTerminate, TakeTrap, CallYield, StoreValue,
          ResetSems, CheckValue, SystemCall
  <2>2. At(V("sem_endp8"))
    BY <2>1
  <2>3. CallVerhogen
    <3>1. \A i : At(i) => i = V("sem_endp8")
      BY <1>1, <2>2
    <3>0. \A i : Opcode(i) # "VERHOGEN" => ~At(i)
      BY <3>1, Fields
    <3>2. ~CallPasseren
      BY <3>0, Fields DEF CallPasseren, SystemCall
    <3>3. ~CallDoIO /\ ~NoSecondWait
      BY <3>0, Fields DEF CallDoIO, NoSecondWait, SystemCall
    <3>4. ~CallYield /\ ~TakeTrap /\ ~ResetSems
      BY <3>0, Fields DEF CallYield, TakeTrap, ResetSems, SystemCall
    <3>5. ~CallClockWait /\ ~CallTerminate
      BY <3>0, Fields DEF CallClockWait, CallTerminate, SystemCall
    <3>6. ~CallCreate
      BY <3>0, Fields DEF CallCreate
    <3>7. ~StoreValue
      BY <3>0, Fields DEF StoreValue
    <3>8. ~CheckValue
      BY <3>0, Fields DEF CheckValue
    <3> QED BY <1>6, <3>2, <3>3, <3>4, <3>5, <3>6, <3>7, <3>8 DEF Execute
  <2> QED BY <2>3 DEF CallVerhogen, SystemCall, Verhogen
<1> QED BY <1>4, <1>5, <1>6 DEF TestNext

\* Root8 is kept: p1 waits for p8root until that one exits.
LEMMA RootKept ==
  ASSUME TInv, [TestNext]_testVars
  PROVE  Root8'
<1>0. Sound /\ Single /\ Root8 /\ Reset8
  BY DEF TInv
<1>e. "sem_endp8" \in UserSems /\ "sem_endp8" \in P8Sems /\ "sem_endp8" \in Sems
  BY P8Names, TestSoftSems
<1> SUFFICES ASSUME NEW x \in Pcbs, NEW y \in Pcbs, Is(x, "p1")', Is(y, "p8root")'
             PROVE  /\ pc'[y] <= 11 /\ (pc'[y] <= 10 => sem'["sem_endp8"] <= 0)
                    /\ pc'[y] = 11 => y = current'
                    /\ \/ Did(x, Start("p8root"))' \/ Did(x, Store("p8root"))'
                       \/ /\ Did(x, P("sem_endp8"))'
                          /\ Blocked(x, "sem_endp8")' \/ pc'[y] = 11
  BY DEF Root8
<1> DEFINE Goal == 
        /\ pc'[y] <= 11 /\ (pc'[y] <= 10 => sem'["sem_endp8"] <= 0)
        /\ pc'[y] = 11 => y = current'
        /\ \/ Did(x, Start("p8root"))' \/ Did(x, Store("p8root"))'
           \/ /\ Did(x, P("sem_endp8"))'
              /\ Blocked(x, "sem_endp8")' \/ pc'[y] = 11
<1>1. x \in Live' /\ runs'[x] = "p1" /\ y \in Live' /\ runs'[y] = "p8root" /\ x # y
  BY DEF Is
<1>2. ASSUME Is(x, "p1"), Is(y, "p8root")
      PROVE  /\ x \in Live /\ y \in Live /\ runs[x] = "p1" /\ runs[y] = "p8root"
             /\ pc[y] \in 1..11 /\ (pc[y] <= 10 => sem["sem_endp8"] <= 0)
             /\ pc[y] = 11 => y = current
             /\ \/ Did(x, Start("p8root")) \/ Did(x, Store("p8root"))
                \/ /\ Did(x, P("sem_endp8"))
                   /\ Blocked(x, "sem_endp8") \/ pc[y] = 11
             /\ Text(y) = P8root
  <2>1. pc[y] \in Nat \ {0}
    BY <1>0 DEF Sound, TestTyped
  <2> QED BY <1>0, <1>2, <2>1, Programs DEF Root8, Is, Text
<1>3. ASSUME Quiet PROVE Goal
  <2>1. /\ Live' = Live /\ UNCHANGED <<runs, pc>> /\ \A z, j : Did(z, j)' <=> Did(z, j)
        /\ sem'["sem_endp8"] = sem["sem_endp8"]
        /\ Blocked(x, "sem_endp8")' <=> Blocked(x, "sem_endp8")
    BY <1>0, <1>3, <1>e, QuietProcesses
  <2>2. Is(x, "p1") /\ Is(y, "p8root")
    BY <1>1, <2>1 DEF Is
  <2>3. pc[y] = 11 => current' = current
    <3> SUFFICES ASSUME pc[y] = 11 PROVE current' = current
      OBVIOUS
    <3>1. y = current
      BY <1>2, <2>2
    <3>2. At(Exit)
      <4>1. P8root[11] = Exit /\ Len(P8root) = 11 /\ Program("p8root") = P8root
        BY P8rootText, Programs
      <4>2. Running
        <5>1. current # NULL
          BY <3>1, PcbsAssumption
        <5> QED BY <1>0, <5>1, Unpacked DEF Sound, CpuAgrees, Running
      <4> QED BY <1>2, <2>2, <3>1, <4>1, <4>2 DEF At
    <3> QED BY <1>0, <1>2, <2>1, <2>2, <3>1, <3>2, P8rootGoesOn
  <2> QED BY <1>2, <2>1, <2>2, <2>3
<1>4. ASSUME NEW i, Does(i) PROVE Goal
  <2>1. /\ Live' = Live /\ UNCHANGED <<runs>> /\ current \in Live
        /\ \A z \in Pcbs : \A j : Did(z, j)' <=> IF z = current THEN j = i ELSE Did(z, j)
        /\ pc'[current] = pc[current] + 1
        /\ \A z \in Pcbs : z # current => pc'[z] = pc[z]
    BY <1>0, <1>4, DoesProcesses
  <2>2. Is(x, "p1") /\ Is(y, "p8root")
    BY <1>1, <2>1 DEF Is
  <2>3. At(i) /\ i # Exit
    BY <1>4 DEF Does
  <2>4. CASE current = x
    <3>1. i = Store("p8root") \/ i = P("sem_endp8")
      <4>1. ~Blocked(x, "sem_endp8") /\ pc[y] # 11
        BY <1>0, <1>1, <1>2, <1>e, <2>2, <2>4, NotWaiting DEF Blocked
      <4> QED BY <1>0, <1>2, <2>2, <2>3, <2>4, <4>1, Follows DEF Recorded
    <3>2. pc'[y] = pc[y] /\ pc[y] <= 10 /\ sem["sem_endp8"] <= 0
      BY <1>1, <1>2, <2>1, <2>2, <2>4
    <3>3. CASE i = Store("p8root")
      <4>1. Did(x, Store("p8root"))'
        BY <2>1, <2>4, <3>3
      <4>2. i # P("sem_endp8") /\ i # V("sem_endp8") /\ i # Reset
        BY <3>3, Fields
      <4>3. sem'["sem_endp8"] = sem["sem_endp8"]
        BY <1>0, <1>4, <1>e, <4>2, DoesValues
      <4> QED BY <1>2, <2>2, <3>2, <4>1, <4>3
    <3>4. CASE i = P("sem_endp8")
      <4>1. Did(x, P("sem_endp8"))'
        BY <2>1, <2>4, <3>4
      <4>2. sem'["sem_endp8"] = sem["sem_endp8"] - 1 /\ sem["sem_endp8"] \in Int
        BY <1>0, <1>4, <1>e, <3>4, DoesValues
      <4>3. Blocked(x, "sem_endp8")'
        BY <1>0, <1>4, <1>e, <2>4, <3>2, <3>4, DoesQueues DEF Blocked
      <4> QED BY <1>2, <2>2, <3>2, <4>1, <4>2, <4>3
    <3> QED BY <3>1, <3>3, <3>4
  <2>5. CASE current = y
    <3>1. pc[y] <= 10 /\ Text(y)[pc[y]] = i
      <4>1. Text(y)[pc[y]] = i /\ pc[y] \in Nat
        BY <1>0, <2>3, <2>5, AtLive, HasDone
      <4>2. P8root[11] = Exit
        BY P8rootText
      <4> QED BY <1>2, <2>2, <2>3, <4>1, <4>2
    <3>2. pc'[y] = pc[y] + 1 /\ (Did(x, Start("p8root"))' <=> Did(x, Start("p8root")))
      BY <1>1, <2>1, <2>5
    <3>3. i # P("sem_endp8") /\ i # Reset
      <4>1. runs[current] = "p8root"
        BY <1>2, <2>2, <2>5
      <4> QED BY <1>0, <2>3, <4>1, ResetAlone, Doing DEF Lowers, Children, LeafSet
    <3>4. CASE pc[y] = 10
      <4>1. i = V("sem_endp8")
        BY <1>2, <2>2, <3>1, <3>4, P8rootText
      <4>2. current' = current
        BY <1>0, <1>2, <2>2, <2>3, <2>5, <3>2, <3>4, <4>1, P8rootGoesOn
      <4> QED BY <1>2, <2>1, <2>2, <2>5, <3>2, <3>4, <4>2, <1>1
    <3>5. CASE pc[y] # 10
      <4>1. i # V("sem_endp8")
        BY <1>0, <1>2, <2>2, <2>3, <2>5, <3>5, Doing DEF Raises
      <4>2. sem'["sem_endp8"] = sem["sem_endp8"]
        BY <1>0, <1>4, <1>e, <3>3, <4>1, DoesValues
      <4>3. Blocked(x, "sem_endp8") => Blocked(x, "sem_endp8")'
        BY <1>0, <1>4, <1>e, <4>1, DoesQueues
      <4>4. pc'[y] <= 10
        BY <1>2, <2>2, <3>1, <3>2, <3>5
      <4> QED BY <1>1, <1>2, <2>1, <2>2, <2>5, <3>1, <4>2, <4>3, <4>4
    <3> QED BY <3>4, <3>5
  <2>6. CASE current # x /\ current # y
    <3>1. runs[current] # "p1" /\ runs[current] # "p8root"
      BY <1>0, <1>2, <2>1, <2>2, <2>6 DEF Single
    <3>2. i # P("sem_endp8") /\ i # V("sem_endp8")
      BY <1>0, <2>3, <3>1, Doing DEF Lowers, Raises, Children, LeafSet
    <3>3. i # Reset
      BY <1>0, <2>3, <3>1, ResetAlone
    <3>4. sem'["sem_endp8"] = sem["sem_endp8"]
      BY <1>0, <1>4, <1>e, <3>2, <3>3, DoesValues
    <3>5. Blocked(x, "sem_endp8") => Blocked(x, "sem_endp8")'
      BY <1>0, <1>4, <1>e, <3>2, DoesQueues
    <3>6. pc'[y] = pc[y] /\ pc[y] # 11
      BY <1>2, <2>1, <2>2, <2>6
    <3> QED BY <1>1, <1>2, <2>1, <2>2, <2>6, <3>4, <3>5, <3>6
  <2> QED BY <2>4, <2>5, <2>6
<1>5. ASSUME NEW q, NEW p, Creates(q, p) PROVE Goal
  <2>1. /\ Live' = Live \cup {p} /\ p \in Pcbs /\ runs'[p] = q /\ p \notin Live
        /\ \A z \in Pcbs : z # p => runs'[z] = runs[z] /\ (z # current => pc'[z] = pc[z])
        /\ Starts(runs[current], Text(current), pc[current], q) /\ current \in Live
        /\ sem' = sem /\ current' = current
        /\ pc'[p] = 1 /\ pc'[current] = pc[current] + 1
        /\ \A z \in Pcbs : \A j : z # p =>
             (Did(z, j)' <=> IF z = current THEN j = Start(q) ELSE Did(z, j))
        /\ \A z, s : Blocked(z, s)' <=> Blocked(z, s)
    BY <1>0, <1>5, CreatesProcesses
  <2>2. Makes(runs[current], pc[current], q) /\ At(Start(q))
    BY <1>5, <2>1 DEF Starts, Creates
  <2>3. x # p /\ Is(x, "p1")
    BY <1>1, <2>1, <2>2, OneMaker DEF Is
  <2>4. CASE y = p
    <3>1. q = "p8root" /\ runs[current] = "p1"
      BY <1>1, <2>1, <2>2, <2>4, OneMaker
    <3>2. x = current
      BY <1>0, <2>1, <2>3, <3>1 DEF Single, Is
    <3>3. Did(x, Start("p8root"))'
      BY <2>1, <2>3, <3>1, <3>2
    <3>4. Did(x, Reset)
      <4>1. pc[x] > 1 /\ Text(x)[pc[x]-1] = Reset
        BY <2>1, <3>1, <3>2 DEF Starts
      <4> QED BY <4>1 DEF Did
    <3>5. sem["sem_endp8"] = 0
      BY <1>0, <1>e, <2>3, <3>4 DEF Reset8
    <3> QED BY <2>1, <2>4, <3>3, <3>5
  <2>5. CASE y # p
    <3>1. Is(y, "p8root")
      BY <1>1, <2>1, <2>5 DEF Is
    <3>2. x # current
      <4> SUFFICES ASSUME x = current PROVE FALSE
        OBVIOUS
      <4>1. ~Blocked(x, "sem_endp8") /\ pc[y] # 11
        BY <1>0, <1>1, <1>2, <1>e, <2>3, <3>1, NotWaiting DEF Blocked
      <4>2. Start(q) = Store("p8root") \/ Start(q) = P("sem_endp8")
        BY <1>0, <1>2, <2>2, <2>3, <3>1, <4>1, Follows DEF Recorded
      <4> QED BY <4>2, Fields
    <3>3. y = current => pc[y] <= 5
      BY <1>2, <2>2, <2>3, <3>1 DEF Makes
    <3>4. pc'[y] <= 10 /\ pc[y] <= 10
      BY <1>2, <2>1, <2>3, <2>5, <3>1, <3>3
    <3> QED BY <1>2, <2>1, <2>3, <3>1, <3>2, <3>4
  <2> QED BY <2>4, <2>5
<1>6. ASSUME NEW t, Kills(t) PROVE Goal
  <2>0. PICK K : K = Subtree(t)
    OBVIOUS
  <2>1. /\ \A z \in Live' : z \in Live /\ runs'[z] = runs[z] /\ pc'[z] = pc[z]
                            /\ z # current /\ z \notin K
        /\ \A z \in Live' : \A j : Did(z, j)' <=> Did(z, j)
        /\ \A s \in UserSems : sem'[s] = sem[s] \/ (sem[s] < 0 /\ sem'[s] <= 0)
        /\ \A s \in Sems : \A z : Blocked(z, s)' <=> Blocked(z, s) /\ z \notin K
    BY <1>0, <1>6, <2>0, KillsProcesses
  <2>2. Is(x, "p1") /\ Is(y, "p8root")
    BY <1>1, <2>1 DEF Is
  <2>3. pc'[y] = pc[y] /\ pc[y] # 11 /\ x \notin K
    BY <1>1, <1>2, <2>1, <2>2
  <2> QED BY <1>1, <1>2, <1>e, <2>1, <2>2, <2>3
<1> QED BY <1>0, <1>3, <1>4, <1>5, <1>6, StepView

\* The nucleus's invariants do not mind the reset: nobody waits on the
\* semaphores that p1 sets to zero.
LEMMA ResetKeepsNucleus ==
  ASSUME TInv, ResetSems
  PROVE  IInv' /\ SemaphoreAgrees'
<1>0. Sound /\ Waits /\ IInv /\ SemaphoreAgrees
  BY DEF TInv, Sound
<1>1. /\ At(Reset) /\ sem' = [s \in Sems |-> IF s \in P8Sems THEN 0 ELSE sem[s]]
      /\ UNCHANGED <<ready, current, free, parent, prio, support, semAdd, semq>>
      /\ UNCHANGED <<processCount, softBlockCount, cpu, busy>>
  BY DEF ResetSems
<1>2. sem \in [Sems -> Int] /\ semq \in [Sems -> Seq(Pcbs)]
  BY <1>0, Unpacked
<1>3. sem' \in [Sems -> Int]
  BY <1>1, <1>2
<1>4. IInv'
  <2>1. TypeOK'
    BY <1>0, <1>1, <1>3 DEF IInv, TypeOK
  <2>2. OnePlace' /\ CountersExact' /\ CpuAgrees'
    BY <1>0, <1>1 DEF IInv, OnePlace, CountersExact, CpuAgrees, Live, Waiters
  <2>3. FamilyTree'
    BY <1>0, <1>1 DEF IInv, FamilyTree, Live, Subtree
  <2> QED BY <2>1, <2>2, <2>3 DEF IInv
<1>5. ASSUME NEW s \in Sems PROVE Right(s, sem'[s], Len(semq'[s]))
  <2>1. Right(s, sem[s], Len(semq[s])) /\ semq'[s] = semq[s]
    BY <1>0, <1>1, OneRight
  <2>2. CASE s \notin P8Sems
    BY <1>1, <2>1, <2>2
  <2>3. CASE s \in P8Sems
    <3>1. ASSUME NEW x \in Range(semq[s]) PROVE FALSE
      <4>1. x \in Live /\ x # current /\ s \in UserSems
        BY <1>0, <2>3, NotWaiting, P8Names
      <4>2. Did(x, P(s))
        BY <1>0, <4>1 DEF Waits
      <4>3. runs[x] \in P8Family \/ runs[x] = "p1"
        BY <1>0, <2>3, <4>1, <4>2, LastDone, P8Users
      <4>4. runs[current] = "p1" /\ current \in Live /\ runs[x] \notin P8Family
        BY <1>1, <4>1, ResetAlone
      <4> QED BY <4>1, <4>3, <4>4 DEF TInv, Single
    <3>2. semq[s] \in Seq(Pcbs)
      BY <1>2
    <3>3. Len(semq[s]) = 0
      <4> DEFINE q == semq[s]
      <4>1. q \in Seq(Pcbs) /\ \A x : x \notin Range(q)
        BY <3>1, <3>2
      <4> HIDE DEF q
      <4>2. Len(q) \in Nat /\ \A k \in 1..Len(q) : q[k] \in Range(q)
        BY <4>1, RangeEquality
      <4>3. Len(q) = 0
        BY <4>1, <4>2
      <4> QED BY <4>3 DEF q
    <3>4. sem'[s] = 0 /\ s \in UserSems /\ s # Clock /\ s \notin Devices
      BY <1>1, <2>3, P8Names, TestSoftSems
    <3> QED BY <2>1, <3>3, <3>4 DEF Right
  <2> QED BY <2>2, <2>3
<1> QED BY <1>4, <1>5, AgreesEach

\* But for the reset of p8's semaphores the processes only ask the nucleus.
LEMMA NucleusKept ==
  ASSUME TInv, [TestNext]_testVars
  PROVE  IInv' /\ SemaphoreAgrees'
<1>0. Sound /\ IInv /\ SemaphoreAgrees
  BY DEF TInv, Sound
<1>1. CASE ResetSems
  BY <1>1, ResetKeepsNucleus
<1>2. ASSUME NEW t \in Live, Kills(t), Terminate(t) PROVE IInv' /\ SemaphoreAgrees'
  <2>1. Running
    BY <1>0, <1>2, AtLive DEF Kills, Asks
  <2>2. /\ Kill(Subtree(t)) /\ UNCHANGED <<prio, support, semAdd, busy>>
        /\ \/ current \in Subtree(t) /\ Schedule(Without(ready, Subtree(t)))
           \/ /\ current \notin Subtree(t)
              /\ ready' = Without(ready, Subtree(t)) /\ UNCHANGED <<current, cpu>>
    BY <1>2 DEF Terminate
  <2> QED BY <1>0, <2>1, <2>2, KillStep, KillAgrees
<1>3. CASE CallTerminate
  BY <1>0, <1>2, <1>3, TerminateView
<1>4. ASSUME [Next]_vars PROVE IInv' /\ SemaphoreAgrees'
  BY <1>0, <1>4, NextIInv, NextAgrees
<1>5. CASE CallPasseren \/ CallVerhogen \/ CallDoIO \/ CallClockWait \/ CallYield
  BY <1>4, <1>5, TestSoftSems DEF CallPasseren, CallVerhogen, CallDoIO, CallClockWait,
     CallYield, SystemCall, Next, Call
<1>6. CASE TakeTrap \/ CallCreate
  BY <1>4, <1>6 DEF TakeTrap, CallCreate, SystemCall, Next, Call
<1>7. CASE NoSecondWait \/ StoreValue \/ CheckValue \/ UNCHANGED testVars
  BY <1>4, <1>7 DEF NoSecondWait, StoreValue, CheckValue, SystemCall, testVars
<1>8. CASE Interrupted
  BY <1>4, <1>8, TestSoftSems DEF Interrupted, Preempt, ClockTick, Next, Interrupt
<1> QED BY <1>1, <1>3, <1>5, <1>6, <1>7, <1>8 DEF TestNext, Execute

\* Sound is kept.
LEMMA SoundKept == TInv /\ [TestNext]_testVars => Sound'
<1> SUFFICES ASSUME TInv, [TestNext]_testVars PROVE Sound'
  OBVIOUS
<1>1. IInv' /\ SemaphoreAgrees'
  BY NucleusKept
<1>2. TestTyped' /\ Kin'
  BY TypedKept, KinKept DEF TInv
<1> QED BY <1>1, <1>2 DEF Sound

\* TInv is inductive.
LEMMA NextTInv == TInv /\ [TestNext]_testVars => TInv'
<1> SUFFICES ASSUME TInv, [TestNext]_testVars PROVE TInv'
  OBVIOUS
<1>1. Sound' /\ Single' /\ Waits' /\ Root8' /\ Reset8'
  BY SoundKept, SingleKept, WaitsKept, RootKept, ResetKept
<1> QED BY <1>1 DEF TInv

\* TInv holds when the test begins.
LEMMA InitTInv == TestInit => TInv
<1> SUFFICES ASSUME TestInit PROVE TInv
  OBVIOUS
<1>1. /\ Init /\ instance \in Instances /\ runs = [p \in Pcbs |-> "p1"]
      /\ pc = [p \in Pcbs |-> 1] /\ stored = {} /\ fresh = TRUE
  BY DEF TestInit
<1>2. IInv /\ SemaphoreAgrees
  BY <1>1, InitIInv, InitAgrees
<1>3. /\ current \in Pcbs /\ Live = {current} /\ parent = [p \in Pcbs |-> NULL]
      /\ prio = [p \in Pcbs |-> 0] /\ support = [p \in Pcbs |-> FALSE]
      /\ semq = [s \in Sems |-> <<>>]
  BY <1>1 DEF Init, Live
<1>4. TestTyped
  BY <1>1, ProcessNames DEF TestTyped
<1>5. Kin
  <2>1. Priority("p1") = 0 /\ Len(Program("p1")) \in Nat
    BY AllLawful, ProcessNames DEF Priority, Lawful
  <2> SUFFICES ASSUME NEW x \in Live
               PROVE  /\ support[x] = (runs[x] = "p5") /\ prio[x] = Priority(runs[x])
                      /\ pc[x] <= Len(Text(x)) + 1 /\ parent[x] = NULL /\ runs[x] = "p1"
    BY DEF Kin
  <2>2. runs[x] = "p1" /\ pc[x] = 1 /\ prio[x] = 0 /\ ~support[x] /\ parent[x] = NULL
    BY <1>1, <1>3
  <2>3. support[x] = FALSE
    BY <1>1, <1>3
  <2>4. support[x] = (runs[x] = "p5")
    BY <2>2, <2>3
  <2>5. prio[x] = Priority(runs[x])
    BY <2>1, <2>2
  <2>6. pc[x] <= Len(Text(x)) + 1
    BY <2>1, <2>2 DEF Text
  <2> QED BY <2>2, <2>4, <2>5, <2>6
<1>6. Single
  BY <1>3 DEF Single
<1>7. Waits
  <2>1. \A s \in Sems : Range(semq[s]) = {}
    BY <1>3 DEF Range
  <2> QED BY <2>1, TestSoftSems DEF Waits
<1>8. Root8 /\ Reset8
  BY <1>1 DEF Root8, Reset8, Is, Did
<1> QED BY <1>2, <1>4, <1>5, <1>6, <1>7, <1>8 DEF TInv, Sound

----------------------------------------------------------------------------
(* Mutual exclusion of print() *)

Mutex == "sem_term_mut"

\* x is inside print(), between its P and its V.
Printing(x) ==
  x \in Live /\ (Did(x, WriteChar) \/ (Did(x, P(Mutex)) /\ ~Blocked(x, Mutex)))

\* One process at a time prints, and it waits while the terminal works.
PrintsAlone ==
  /\ \A x, y : Printing(x) /\ Printing(y) => x = y
  /\ sem[Mutex] <= 1
  /\ \A x : Printing(x) => sem[Mutex] <= 0
  /\ Term0 \in busy => sem[Mutex] <= 0 /\ \A x : Printing(x) => Blocked(x, Term0)

\* The mutex of print() is none of p8's semaphores.
LEMMA MutexName ==
  /\ Mutex \in UserSems /\ Mutex \in Sems /\ Mutex # Term0 /\ Mutex # Clock
  /\ Mutex \notin P8Sems
BY TestSoftSems, P8Names DEF Mutex, TestSems

\* The running process writes to the terminal only under the mutex, and leaves
\* it only after that.
LEMMA PrintsUnderMutex ==
  ASSUME Sound, NEW i, At(i)
  PROVE  i = WriteChar \/ i = V(Mutex) => Printing(current)
<1>1. /\ current \in Live /\ ~Blocked(current, Mutex) /\ pc[current] \in Nat
  BY AtLive, NotWaiting, MutexName, HasDone DEF Blocked
<1>2. i = WriteChar => Did(current, P(Mutex))
  BY <1>1, Doing DEF Did, Mutex
<1>3. i = V(Mutex) => Did(current, WriteChar)
  <2>1. i = V(Mutex) => Raises(runs[current], Text(current), pc[current], Mutex)
    BY Doing
  <2> QED BY <1>1, <2>1 DEF Raises, Did, Mutex
<1> QED BY <1>1, <1>2, <1>3 DEF Printing

\* A semaphore that is not negative has no waiters.
LEMMA NobodyWaitsFor ==
  ASSUME Sound, NEW s \in UserSems
  PROVE  /\ sem[s] >= 0 => \A x : ~Blocked(x, s)
         /\ sem[s] < 0 => semq[s] # <<>>
<1>1. /\ sem[s] \in Int /\ semq[s] \in Seq(Pcbs) /\ Right(s, sem[s], Len(semq[s]))
      /\ Len(semq[s]) \in Nat
  BY OneRight, TestSoftSems DEF Sound
<1>2. Range(semq[s]) = {semq[s][k] : k \in 1..Len(semq[s])}
  BY <1>1, RangeEquality
<1>3. sem[s] >= 0 => Len(semq[s]) = 0
  BY <1>1 DEF Right
<1>4. sem[s] < 0 => Len(semq[s]) = -sem[s]
  BY <1>1 DEF Right
<1>6. sem[s] < 0 => semq[s] # <<>>
  BY <1>1, <1>4
<1> QED BY <1>1, <1>2, <1>3, <1>6 DEF Blocked

\* A V wakes one of those that wait.
LEMMA OneWakes ==
  ASSUME Sound, NEW s \in UserSems, NEW i, i = V(s), Does(i), sem[s] < 0
  PROVE  \E w : Blocked(w, s) /\ \A x : Blocked(x, s)' <=> Blocked(x, s) /\ x # w
<1> DEFINE q == semq[s]
<1>1. q # <<>> /\ semq'[s] = Tail(q) /\ q \in Seq(Pcbs) /\ NoRepetition(q)
  BY Unpacked, TestSoftSems DEF Does, OnUserSems, Raised, Sound, Placed
<1> HIDE DEF q
<1>2. Range(Tail(q)) = Range(q) \ {Head(q)} /\ Head(q) \in Range(q)
  BY <1>1, TailResult
<1> QED BY <1>1, <1>2 DEF Blocked, q

\* PrintsAlone is kept.
LEMMA PrintsKept ==
  ASSUME TInv, PrintsAlone, [TestNext]_testVars
  PROVE  PrintsAlone'
<1>0. Sound /\ Waits /\ sem[Mutex] \in Int
  BY Unpacked, MutexName DEF TInv, Sound
<1>b. /\ \A x, y : Printing(x) /\ Printing(y) => x = y
      /\ sem[Mutex] <= 1
      /\ \A x : Printing(x) => sem[Mutex] <= 0
      /\ Term0 \in busy => sem[Mutex] <= 0 /\ \A x : Printing(x) => Blocked(x, Term0)
  BY DEF PrintsAlone
<1> SUFFICES
      /\ \A x, y : Printing(x)' /\ Printing(y)' => x = y
      /\ sem'[Mutex] <= 1
      /\ \A x : Printing(x)' => sem'[Mutex] <= 0
      /\ Term0 \in busy' => sem'[Mutex] <= 0 /\ \A x : Printing(x)' => Blocked(x, Term0)'
  BY DEF PrintsAlone, Mutex
<1> DEFINE Goal ==
      /\ \A x, y : Printing(x)' /\ Printing(y)' => x = y
      /\ sem'[Mutex] <= 1
      /\ \A x : Printing(x)' => sem'[Mutex] <= 0
      /\ Term0 \in busy' => sem'[Mutex] <= 0 /\ \A x : Printing(x)' => Blocked(x, Term0)'
<1>1. ASSUME Quiet PROVE Goal
  <2>1. /\ \A x : Printing(x)' <=> Printing(x)
        /\ sem'[Mutex] = sem[Mutex]
        /\ busy' = {} \/ (busy' = busy /\ semq'[Term0] = semq[Term0])
    BY <1>0, <1>1, QuietProcesses, MutexName DEF Printing
  <2>2. Term0 \in busy' => Term0 \in busy /\ \A x : Blocked(x, Term0) => Blocked(x, Term0)'
    BY <2>1 DEF Blocked
  <2> QED BY <1>b, <2>1, <2>2
<1>2. ASSUME NEW q, NEW p, Creates(q, p) PROVE Goal
  <2>1. /\ Live' = Live \cup {p} /\ p \notin Live
        /\ \A z \in Pcbs : \A j : z # p =>
             (Did(z, j)' <=> IF z = current THEN j = Start(q) ELSE Did(z, j))
        /\ \A j : ~Did(p, j)'
        /\ \A z, s : Blocked(z, s)' <=> Blocked(z, s)
        /\ UNCHANGED <<sem, semq, busy>>
    BY <1>0, <1>2, CreatesProcesses
  <2>2. \A x : Printing(x)' => Printing(x)
    BY <2>1, Fields DEF Printing, Live
  <2> QED BY <1>b, <2>1, <2>2
<1>3. ASSUME NEW t, Kills(t) PROVE Goal
  <2>0. PICK K : K = Subtree(t)
    OBVIOUS
  <2>1. /\ \A z \in Live' : z \in Live /\ z \notin K
        /\ \A z \in Live' : \A j : Did(z, j)' <=> Did(z, j)
        /\ \A s \in UserSems : /\ sem[s] \in Int /\ sem'[s] \in Int
                               /\ sem'[s] = sem[s] \/ (sem[s] < 0 /\ sem'[s] <= 0)
        /\ \A s \in Sems : \A z : Blocked(z, s)' <=> Blocked(z, s) /\ z \notin K
        /\ busy' = busy
    BY <1>0, <1>3, <2>0, KillsProcesses
  <2>2. \A x : Printing(x)' => Printing(x) /\ x \notin K
    BY <2>1, MutexName DEF Printing
  <2>3. sem'[Mutex] <= 1 /\ (sem[Mutex] <= 0 => sem'[Mutex] <= 0)
    BY <1>b, <2>1, MutexName
  <2> QED BY <1>b, <2>1, <2>2, <2>3, TestSoftSems
<1>4. ASSUME NEW i, Does(i) PROVE Goal
  <2>0. At(i)
    BY <1>4 DEF Does
  <2>1. /\ Live' = Live /\ current \in Live /\ current \in Pcbs
        /\ \A x \in Pcbs : \A j : Did(x, j)' <=> IF x = current THEN j = i ELSE Did(x, j)
    BY <1>0, <1>4, DoesProcesses
  <2>2. ~Blocked(current, Term0) /\ ~Blocked(current, Mutex)
    BY <1>0, NotWaiting, TestSoftSems, MutexName DEF Blocked
  <2>3. CASE i = P(Mutex)
    <3>1. sem'[Mutex] = sem[Mutex] - 1 /\ busy' = busy
      BY <1>0, <1>4, <2>3, DoesValues, DoesQueues, MutexName, Fields
    <3>2. /\ \A x : Blocked(x, Mutex) => Blocked(x, Mutex)'
          /\ \A x : x = current /\ sem[Mutex] <= 0 => Blocked(x, Mutex)'
          /\ \A x : Blocked(x, Term0)' <=> Blocked(x, Term0)
      BY <1>0, <1>4, <2>3, DoesQueues, MutexName, Fields DEF Blocked, Mutex
    <3>3. \A x : Printing(x)' => Printing(x) \/ (x = current /\ sem[Mutex] > 0)
      BY <1>0, <2>1, <2>3, <3>2, Fields DEF Printing, Live
    <3>4. CASE sem[Mutex] > 0
      BY <1>0, <1>b, <3>1, <3>3, <3>4
    <3>5. CASE sem[Mutex] <= 0
      BY <1>0, <1>b, <3>1, <3>2, <3>3, <3>5
    <3> QED BY <1>0, <3>4, <3>5
  <2>4. CASE i = V(Mutex)
    <3>1. /\ sem'[Mutex] = sem[Mutex] + 1 /\ busy' = busy
          /\ \A x : Blocked(x, Term0)' <=> Blocked(x, Term0)
      BY <1>0, <1>4, <2>4, DoesValues, DoesQueues, MutexName, Fields
    <3>2. Printing(current)
      BY <1>0, <2>0, <2>4, PrintsUnderMutex
    <3>3. Term0 \notin busy /\ sem[Mutex] <= 0 /\ \A x : Printing(x) => x = current
      BY <1>b, <2>2, <3>2
    <3>4. \A x : Printing(x)' =>
            x # current /\ Did(x, P(Mutex)) /\ Blocked(x, Mutex) /\ ~Blocked(x, Mutex)'
      BY <2>1, <2>4, <3>3, Fields DEF Printing, Live
    <3>5. CASE sem[Mutex] = 0
      <4>1. \A x : ~Printing(x)'
        BY <1>0, <3>4, <3>5, NobodyWaitsFor, MutexName
      <4> QED BY <3>1, <3>3, <3>5, <4>1
    <3>6. CASE sem[Mutex] < 0
      <4>1. PICK w : \A x : Blocked(x, Mutex)' <=> Blocked(x, Mutex) /\ x # w
        BY <1>0, <1>4, <2>4, <3>6, OneWakes, MutexName
      <4>2. \A x : Printing(x)' => x = w
        BY <3>4, <4>1
      <4> QED BY <1>0, <3>1, <3>3, <3>6, <4>2
    <3> QED BY <1>0, <3>3, <3>5, <3>6
  <2>5. CASE i = WriteChar
    <3>1. sem'[Mutex] = sem[Mutex]
      BY <1>0, <1>4, <2>5, DoesValues, MutexName, Fields
    <3>2. /\ \A x : Blocked(x, Mutex) => Blocked(x, Mutex)'
          /\ \A x : x = current => Blocked(x, Term0)'
      BY <1>0, <1>4, <2>5, DoesQueues, MutexName, Fields
    <3>3. Printing(current)
      BY <1>0, <2>0, <2>5, PrintsUnderMutex
    <3>4. \A x : Printing(x)' => x = current
      BY <1>b, <2>1, <3>2, <3>3 DEF Printing, Live
    <3> QED BY <1>b, <3>1, <3>2, <3>3, <3>4
  <2>6. CASE i # P(Mutex) /\ i # V(Mutex) /\ i # WriteChar
    <3>1. sem'[Mutex] = sem[Mutex] /\ busy' = busy
      BY <1>0, <1>4, <2>6, DoesValues, DoesQueues, MutexName
    <3>2. /\ \A x : Blocked(x, Mutex) => Blocked(x, Mutex)'
          /\ \A x : Blocked(x, Term0)' <=> Blocked(x, Term0)
      BY <1>0, <1>4, <2>6, DoesQueues, MutexName
    <3>3. \A x : Printing(x)' => Printing(x)
      BY <2>1, <2>6, <3>2 DEF Printing, Live
    <3> QED BY <1>b, <3>1, <3>2, <3>3
  <2> QED BY <2>3, <2>4, <2>5, <2>6
<1> QED BY <1>0, <1>1, <1>2, <1>3, <1>4, StepView

\* Nobody prints when the test begins.
LEMMA InitPrints == TestInit => PrintsAlone
<1> SUFFICES ASSUME TestInit PROVE PrintsAlone
  OBVIOUS
<1>1. /\ Init /\ pc = [p \in Pcbs |-> 1]
      /\ sem = [s \in Sems |-> IF s \in {"sem_term_mut", "sem_blkp4"} THEN 1 ELSE 0]
  BY DEF TestInit
<1>2. sem[Mutex] = 1 /\ busy = {} /\ \A x : ~Printing(x)
  BY <1>1, MutexName DEF Init, Printing, Did, Mutex, Live
<1> QED BY <1>2 DEF PrintsAlone

----------------------------------------------------------------------------
(* The values that the processes test *)

\* How far p1 has come says what it has done to sem_testsem.
TestSem ==
  \A x \in Pcbs : Is(x, "p1") =>
    /\ pc[x] <= 4 => sem["sem_testsem"] = pc[x] - 1
    /\ pc[x] \in 5..8 => sem["sem_testsem"] = 8 - pc[x]

\* p2 has s for itself.
SemS ==
  /\ \A x \in Pcbs : Is(x, "p1") /\ ~Past(x, Start("p2")) => sem["s"] = 0
  /\ \A y \in Pcbs : Is(y, "p2") => sem["s"] = IF pc[y] \in {7, 10} THEN 1 ELSE 0

\* A pid is stored at once.
Created ==
  \A y \in Live : runs[y] \in Recorded /\ runs[y] \notin stored =>
    Did(parent[y], Start(runs[y]))

\* p2 waits for p1 to have its pid.
StartP2 ==
  \A x \in Pcbs : Is(x, "p1") /\ ~Past(x, Store("p2")) =>
    /\ sem["sem_startp2"] <= 0
    /\ \A y \in Pcbs : Is(y, "p2") => pc[y] = 1 \/ Blocked(y, "sem_startp2")

\* p3 waits for a tick, which does not come before p1 waits.
StartP3 ==
  \A x, y \in Pcbs : Is(x, "p1") /\ Is(y, "p3") /\ Did(x, Start("p3")) =>
    pc[y] = 1 \/ Blocked(y, Clock)

\* p1 waits for p2 to set p1p2synch.
Synch ==
  "p1p2synch" \notin stored =>
    /\ sem["sem_endp2"] <= 0
    /\ \A x \in Pcbs : Is(x, "p1") /\ Past(x, P("sem_endp2")) => Blocked(x, "sem_endp2")
    /\ \A y \in Pcbs : Is(y, "p2") => pc[y] <= 18

\* Nobody is woken to run on past its last instruction.
Ends ==
  /\ sem["sem_blkp8"] <= 0 /\ sem["sem_blkp9"] <= 0
  /\ \A x \in Live : pc[x] > Len(Text(x)) =>
       Blocked(x, "sem_blkp8") \/ Blocked(x, "sem_blkp9")

\* The semaphores by their names.
LEMMA SemNames ==
  /\ TestSems \subseteq UserSems /\ UserSems \subseteq Sems
  /\ \A s \in TestSems \ P8Sems : s \in UserSems /\ s \notin P8Sems
  /\ P8Sems = {"sem_blkp8", "sem_endp8", "endcreate0", "endcreate1", "endcreate2", "endcreate3"}
  /\ TestSems = {"sem_term_mut", "sem_testsem", "sem_startp2", "s", "sem_endp2",
       "sem_endp3", "sem_blkp4", "sem_synp4", "sem_endp4", "sem_endp5",
       "sem_blkp9"} \cup P8Sems
BY TestSoftSems, P8Names DEF TestSems

\* Who goes on after a termination, and what it finds.
LEMMA Survivors ==
  ASSUME Sound, Waits, NEW t, Kills(t)
  PROVE  /\ \A z \in Live' : /\ z \in Live /\ z # current /\ z \in Pcbs
                             /\ runs'[z] = runs[z] /\ parent'[z] = parent[z]
                             /\ pc'[z] = pc[z] /\ Text(z)' = Text(z)
         /\ \A z \in Live : z \in Live' => parent[z] = NULL \/ parent[z] \in Live'
         /\ \A z \in Live' : \A j : (Did(z, j)' <=> Did(z, j)) /\ (Past(z, j)' <=> Past(z, j))
         /\ \A z \in Live' : \A s \in Sems : Blocked(z, s)' <=> Blocked(z, s)
         /\ \A s \in UserSems : sem[s] <= 0 => sem'[s] <= 0
         /\ \A s \in UserSems :
              sem[s] >= 0 \/ (\A z \in Live : Did(z, P(s)) => z \in Live') => sem'[s] = sem[s]
         /\ UNCHANGED <<instance, stored, failed>> /\ current \in Live
<1>0. PICK K : K = Subtree(t)
  OBVIOUS
<1>1. /\ Live' = Live \ K /\ K \subseteq Live /\ current \in Live
      /\ \A z \in Live : parent[z] \in K => z \in K
      /\ \A s \in Sems : \A z : Blocked(z, s)' <=> Blocked(z, s) /\ z \notin K
      /\ \A s \in Sems : (\A z \in K : ~Blocked(z, s)) => Untouched(s)
      /\ UNCHANGED <<instance, stored, failed>>
  BY <1>0, KillsProcesses
<1>2. \A s \in UserSems : /\ sem[s] \in Int /\ sem'[s] \in Int
                          /\ sem'[s] = sem[s] \/ (sem[s] < 0 /\ sem'[s] <= 0)
  BY <1>0, KillsProcesses
<1>3. \A z \in Live' : /\ z \in Live /\ z # current /\ z \in Pcbs
                       /\ runs'[z] = runs[z] /\ parent'[z] = parent[z]
                       /\ pc'[z] = pc[z] /\ Text(z)' = Text(z)
  BY <1>0, KillsProcesses DEF Live
<1>4. \A z \in Live' : \A j : (Did(z, j)' <=> Did(z, j)) /\ (Past(z, j)' <=> Past(z, j))
  BY <1>0, KillsProcesses
<1>5. \A z \in Live : parent[z] = NULL \/ parent[z] \in Live
  BY Unpacked DEF Sound, OneTree, Live
<1>6. \A z \in Live : z \in Live' => parent[z] = NULL \/ parent[z] \in Live'
  BY <1>1, <1>5
<1>7. ASSUME NEW s \in UserSems,
             sem[s] >= 0 \/ (\A z \in Live : Did(z, P(s)) => z \in Live')
      PROVE  sem'[s] = sem[s]
  <2>1. CASE sem[s] >= 0
    BY <1>2, <2>1
  <2>2. CASE \A z \in Live : Did(z, P(s)) => z \in Live'
    <3>1. \A z \in K : ~Blocked(z, s)
      BY <1>1, <2>2 DEF Waits, Blocked
    <3> QED BY <1>1, <3>1, TestSoftSems DEF Untouched
  <2> QED BY <1>7, <2>1, <2>2
<1>8. \A z \in Live' : \A s \in Sems : Blocked(z, s)' <=> Blocked(z, s)
  BY <1>1
<1>9. \A s \in UserSems : sem[s] <= 0 => sem'[s] <= 0
  BY <1>2
<1> QED BY <1>1, <1>3, <1>4, <1>6, <1>7, <1>8, <1>9

\* The running process starts a process that it has not started before.
LEMMA Starting ==
  ASSUME Sound, NEW q, NEW p, Creates(q, p)
  PROVE  /\ At(Start(q)) /\ Makes(runs[current], pc[current], q)
         /\ q # "p1" /\ runs[current] # q
         /\ q # "p8root" => ~Past(current, Start(q))
         /\ stored' = stored \ {q} /\ failed' = failed /\ fresh' = FALSE
         /\ \A x \in Pcbs : \A r : Is(x, r)' <=> IF x = p THEN r = q ELSE Is(x, r)
<1>1. /\ At(Start(q)) /\ stored' = stored \ {q} /\ failed' = failed /\ fresh' = FALSE
  BY DEF Creates
<1>2. /\ current \in Live /\ Starts(runs[current], Text(current), pc[current], q)
      /\ p \in Pcbs /\ p \notin Live /\ Live' = Live \cup {p} /\ runs'[p] = q
      /\ \A x \in Pcbs : x # p => runs'[x] = runs[x]
  BY CreatesProcesses
<1>3. /\ Makes(runs[current], pc[current], q)
      /\ q # "p8root" => \A j \in 1..Len(Text(current)) : Text(current)[j] = Start(q) => j = pc[current]
  BY <1>2 DEF Starts
<1>4. pc[current] \in Nat /\ \A k \in 1..pc[current]-1 : k \in 1..Len(Text(current)) /\ k # pc[current]
  BY <1>2, HasDone
<1>5. q # "p8root" => ~Past(current, Start(q))
  BY <1>3, <1>4 DEF Past
<1>6. q # "p1" /\ runs[current] # q
  BY <1>3 DEF Makes, ByP1
<1>7. \A x \in Pcbs : \A r : Is(x, r)' <=> IF x = p THEN r = q ELSE Is(x, r)
  BY <1>2 DEF Is
<1> QED BY <1>1, <1>3, <1>5, <1>6, <1>7

\* TestSem is kept: nobody but p1 uses sem_testsem.
LEMMA TestSemKept ==
  ASSUME TInv, TestSem, [TestNext]_testVars
  PROVE  TestSem'
<1>0. Sound /\ Single /\ Waits
  BY DEF TInv
<1>s. "sem_testsem" \in UserSems /\ "sem_testsem" \notin P8Sems
  BY SemNames
<1> SUFFICES ASSUME NEW x \in Pcbs, Is(x, "p1")'
             PROVE  /\ pc'[x] <= 4 => sem'["sem_testsem"] = pc'[x] - 1
                    /\ pc'[x] \in 5..8 => sem'["sem_testsem"] = 8 - pc'[x]
  BY DEF TestSem
<1> DEFINE Goal == /\ pc'[x] <= 4 => sem'["sem_testsem"] = pc'[x] - 1
                   /\ pc'[x] \in 5..8 => sem'["sem_testsem"] = 8 - pc'[x]
<1>1. ASSUME Is(x, "p1")
      PROVE  /\ x \in Live /\ runs[x] = "p1" /\ pc[x] \in Nat \ {0}
             /\ pc[x] <= 4 => sem["sem_testsem"] = pc[x] - 1
             /\ pc[x] \in 5..8 => sem["sem_testsem"] = 8 - pc[x]
  BY <1>0, <1>1, HasDone DEF TestSem, Is
<1>2. ASSUME Quiet PROVE Goal
  BY <1>0, <1>1, <1>2, <1>s, QuietProcesses DEF Is
<1>3. ASSUME NEW i, Does(i) PROVE Goal
  <2>1. /\ At(i) /\ current \in Live /\ Is(x, "p1")
        /\ pc'[current] = pc[current] + 1
        /\ x # current => pc'[x] = pc[x]
    BY <1>0, <1>3, DoesProcesses DEF Does, Is
  <2>2. CASE x = current
    <3>1. pc[x] <= 11 => i = Opening[pc[x]]
      <4>1. P1[pc[x]] = i
        BY <1>0, <1>1, <2>1, <2>2, AtLive, Programs DEF Text
      <4>2. \A k \in 1..11 : P1[k] = Opening[k]
        BY P1IsLawful DEF Opens
      <4>3. pc[x] \in Nat \ {0}
        BY <1>1, <2>1
      <4> QED BY <4>1, <4>2, <4>3
    <3>2. CASE pc[x] \in 1..3
      <4>1. i = V("sem_testsem")
        BY <3>1, <3>2, OpeningText
      <4> QED BY <1>0, <1>1, <1>3, <1>s, <2>1, <2>2, <3>2, <4>1, DoesValues
    <3>3. CASE pc[x] \in 5..7
      <4>1. i = P("sem_testsem")
        BY <3>1, <3>3, OpeningText
      <4> QED BY <1>0, <1>1, <1>3, <1>s, <2>1, <2>2, <3>3, <4>1, DoesValues
    <3>4. CASE pc[x] = 4
      <4>1. i = CheckSem("sem_testsem", 3)
        BY <3>1, <3>4, OpeningText
      <4>2. i # P("sem_testsem") /\ i # V("sem_testsem")
        BY <4>1, Fields
      <4> QED BY <1>0, <1>1, <1>3, <1>s, <2>1, <2>2, <3>4, <4>2, DoesValues
    <3>5. CASE pc[x] >= 8
      BY <1>1, <2>1, <2>2, <3>5
    <3> QED BY <1>1, <2>1, <3>2, <3>3, <3>4, <3>5
  <2>3. CASE x # current
    <3>1. runs[current] # "p1"
      BY <1>0, <1>1, <2>1, <2>3 DEF Single
    <3>2. i # P("sem_testsem") /\ i # V("sem_testsem")
      BY <1>0, <2>1, <3>1, Doing DEF Raises, Lowers, Children, LeafSet
    <3> QED BY <1>0, <1>1, <1>3, <1>s, <2>1, <2>3, <3>2, DoesValues
  <2> QED BY <2>2, <2>3
<1>4. ASSUME NEW q, NEW p, Creates(q, p) PROVE Goal
  <2>1. /\ \A z \in Pcbs : z # p => (z # current => pc'[z] = pc[z])
        /\ sem' = sem /\ pc'[current] = pc[current] + 1
    BY <1>0, <1>4, CreatesProcesses
  <2>a. At(Start(q))
    BY <1>0, <1>4, Starting
  <2>2. x # p /\ Is(x, "p1")
    BY <1>0, <1>4, Starting
  <2>3. x = current => pc[x] > 8
    <3> SUFFICES ASSUME x = current, pc[x] <= 8 PROVE FALSE
      BY <1>1, <2>2
    <3>1. Start(q) = Opening[pc[x]]
      <4>1. P1[pc[x]] = Start(q)
        BY <1>0, <1>1, <2>a, <2>2, AtLive, Programs DEF Text
      <4>2. \A k \in 1..11 : P1[k] = Opening[k]
        BY P1IsLawful DEF Opens
      <4>3. pc[x] \in 1..11
        BY <1>1, <2>2
      <4> QED BY <4>1, <4>2, <4>3
    <3>2. pc[x] \in 1..8
      BY <1>1, <2>2
    <3> QED BY <3>1, <3>2, OpeningText, Fields
  <2> QED BY <1>1, <2>1, <2>2, <2>3
<1>5. ASSUME NEW t, Kills(t) PROVE Goal
  <2>1. Is(x, "p1") /\ pc'[x] = pc[x] /\ x \in Live'
    BY <1>0, <1>5, Survivors DEF Is
  <2>2. ASSUME NEW z \in Live, Did(z, P("sem_testsem")) PROVE z \in Live'
    <3>1. runs[z] = "p1"
      BY <1>0, <2>2, LastDone DEF Lowers
    <3> QED BY <1>0, <1>1, <2>1, <3>1 DEF Single
  <2>3. sem'["sem_testsem"] = sem["sem_testsem"]
    BY <1>0, <1>5, <1>s, <2>2, Survivors
  <2> QED BY <1>1, <2>1, <2>3
<1> QED BY <1>0, <1>2, <1>3, <1>4, <1>5, StepView

\* SemS is kept: nobody but p2 uses s.
LEMMA SemSKept ==
  ASSUME TInv, TInv', SemS, [TestNext]_testVars
  PROVE  SemS'
<1>0. Sound /\ Single /\ Waits /\ Single'
  BY DEF TInv
<1>s. "s" \in UserSems /\ "s" \notin P8Sems
  BY SemNames
<1>a. /\ \A x \in Pcbs : Is(x, "p1") /\ ~Past(x, Start("p2")) => sem["s"] = 0
      /\ \A y \in Pcbs : Is(y, "p2") => sem["s"] = IF pc[y] \in {7, 10} THEN 1 ELSE 0
  BY DEF SemS
<1> SUFFICES
      /\ \A x \in Pcbs : Is(x, "p1")' /\ ~Past(x, Start("p2"))' => sem'["s"] = 0
      /\ \A y \in Pcbs : Is(y, "p2")' => sem'["s"] = IF pc'[y] \in {7, 10} THEN 1 ELSE 0
  BY DEF SemS
<1> DEFINE Goal ==
      /\ \A x \in Pcbs : Is(x, "p1")' /\ ~Past(x, Start("p2"))' => sem'["s"] = 0
      /\ \A y \in Pcbs : Is(y, "p2")' => sem'["s"] = IF pc'[y] \in {7, 10} THEN 1 ELSE 0
<1>1. ASSUME Quiet PROVE Goal
  BY <1>0, <1>1, <1>a, <1>s, QuietProcesses DEF Is
<1>2. ASSUME NEW i, Does(i) PROVE Goal
  <2>1. /\ At(i) /\ current \in Live /\ current \in Pcbs /\ Live' = Live /\ runs' = runs
        /\ pc'[current] = pc[current] + 1
        /\ \A x \in Pcbs : x # current => pc'[x] = pc[x]
        /\ \A x \in Pcbs : \A j : Past(x, j) => Past(x, j)'
    BY <1>0, <1>2, DoesProcesses DEF Does
  <2>a. i = P("s") \/ i = V("s") => runs[current] = "p2"
    BY <1>0, <2>1, Doing DEF Raises, Lowers, Children, LeafSet
  <2>2. ASSUME runs[current] = "p2" PROVE Goal
    <3>0. /\ Is(current, "p2") /\ pc[current] \in 1..20 /\ i = P2[pc[current]]
          /\ sem["s"] = IF pc[current] \in {7, 10} THEN 1 ELSE 0
      BY <1>0, <1>a, <2>1, <2>2, AtLive, Programs, P2Text DEF Is, Text
    <3>1. CASE pc[current] \in {6, 9}
      <4>1. i = V("s")
        BY <3>0, <3>1, P2Text
      <4>2. sem'["s"] = 1
        BY <1>0, <1>2, <1>s, <3>0, <3>1, <4>1, DoesValues
      <4>3. \A x \in Pcbs : Is(x, "p1")' => Past(x, Start("p2"))'
        <5> SUFFICES ASSUME NEW x \in Pcbs, Is(x, "p1") PROVE Past(x, Start("p2"))
          BY <2>1 DEF Is
        <5>1. /\ parent[current] \in Live
              /\ \E k : Makes(runs[parent[current]], k, "p2")
          BY <1>0, <2>1, <2>2, ParentRuns DEF Starts
        <5>2. runs[parent[current]] = "p1"
          BY <5>1 DEF Makes, ByP1
        <5>3. parent[current] = x
          BY <1>0, <5>1, <5>2 DEF Single, Is
        <5>4. parent[current] # NULL
          BY <5>1, PcbsAssumption DEF Live
        <5> QED BY <1>0, <2>1, <2>2, <5>3, <5>4 DEF Sound, Kin
      <4> QED BY <1>0, <2>1, <2>2, <3>1, <4>2, <4>3 DEF Single, Is
    <3>2. CASE pc[current] \in {7, 10}
      <4>1. i = P("s")
        BY <3>0, <3>2, P2Text
      <4>2. sem'["s"] = 0
        BY <1>0, <1>2, <1>s, <3>0, <3>2, <4>1, DoesValues
      <4> QED BY <1>0, <2>1, <2>2, <3>2, <4>2 DEF Single, Is
    <3>3. CASE pc[current] \notin {6, 7, 9, 10}
      <4>1. i # P("s") /\ i # V("s")
        BY <1>0, <2>1, <2>2, <3>3, Doing DEF Raises, Lowers, Children, LeafSet
      <4>2. sem'["s"] = 0
        BY <1>0, <1>2, <1>s, <3>0, <3>3, <4>1, DoesValues
      <4> QED BY <1>0, <2>1, <2>2, <3>0, <3>3, <4>2 DEF Single, Is
    <3> QED BY <3>1, <3>2, <3>3
  <2>3. ASSUME runs[current] # "p2" PROVE Goal
    <3>1. sem'["s"] = sem["s"]
      BY <1>0, <1>2, <1>s, <2>a, <2>3, DoesValues
    <3> QED BY <1>a, <2>1, <2>3, <3>1 DEF Is
  <2> QED BY <2>2, <2>3
<1>3. ASSUME NEW q, NEW p, Creates(q, p) PROVE Goal
  <2>1. /\ p \in Pcbs /\ pc'[p] = 1 /\ current # p /\ current \in Live /\ current \in Pcbs
        /\ \A x \in Pcbs : x # p => (x # current => pc'[x] = pc[x])
        /\ \A x \in Pcbs : \A j : x # p =>
             (Past(x, j)' <=> Past(x, j) \/ (x = current /\ j = Start(q)))
        /\ sem' = sem
    BY <1>0, <1>3, CreatesProcesses
  <2>2. /\ q # "p1" /\ Makes(runs[current], pc[current], q)
        /\ q # "p8root" => ~Past(current, Start(q))
        /\ \A x \in Pcbs : \A r : Is(x, r)' <=> IF x = p THEN r = q ELSE Is(x, r)
    BY <1>0, <1>3, Starting
  <2>3. ASSUME NEW x \in Pcbs, Is(x, "p1")', ~Past(x, Start("p2"))' PROVE sem'["s"] = 0
    BY <1>a, <2>1, <2>2, <2>3
  <2>4. ASSUME NEW y \in Pcbs, Is(y, "p2")'
        PROVE  sem'["s"] = IF pc'[y] \in {7, 10} THEN 1 ELSE 0
    <3>1. CASE y = p
      <4>1. q = "p2"
        BY <2>2, <2>4, <3>1
      <4>2. runs[current] = "p1" /\ ~Past(current, Start("p2"))
        BY <2>2, <4>1 DEF Makes, Children, LeafSet
      <4> QED BY <1>a, <2>1, <3>1, <4>2 DEF Is
    <3>2. CASE y # p
      <4>1. Is(y, "p2")
        BY <2>2, <2>4, <3>2
      <4>2. y # current
        BY <2>2, <4>1 DEF Makes, Is
      <4> QED BY <1>a, <2>1, <3>2, <4>1, <4>2
    <3> QED BY <3>1, <3>2
  <2> QED BY <2>3, <2>4
<1>4. ASSUME NEW t, Kills(t) PROVE Goal
  <2>1. /\ \A z \in Live' : z \in Live /\ runs'[z] = runs[z] /\ pc'[z] = pc[z]
        /\ \A z \in Live' : \A j : (Past(z, j)' <=> Past(z, j))
        /\ sem["s"] >= 0 => sem'["s"] = sem["s"]
    BY <1>0, <1>4, <1>s, Survivors
  <2> QED BY <1>a, <2>1 DEF Is
<1> QED BY <1>0, <1>1, <1>2, <1>3, <1>4, StepView

----------------------------------------------------------------------------
(* The two incarnations of p4, and p5, which waits for both to be gone *)

Bit(b) == IF b THEN 1 ELSE 0

\* p1 has not started p4 yet.
Early4 == \E x \in Pcbs : Is(x, "p1") /\ ~Past(x, Start("p4"))
Alive4 == \E x \in Pcbs : Is(x, "p4")

\* How far the incarnations have come says what their semaphores are, and the
\* second one stays where it waits for p5.
Syn4 ==
  /\ Early4 => sem["sem_synp4"] = 0 /\ sem["sem_blkp4"] = 1
  /\ \A x \in Pcbs : Is(x, "p4") =>
       /\ pc[x] <= 15
       /\ pc[x] <= 8 => /\ sem["sem_synp4"] = Bit(pc[x] \in {6, 7})
                        /\ sem["sem_blkp4"] = 1 - Bit(pc[x] >= 7)
       /\ pc[x] > 8 => \E y \in Pcbs : Is(y, "p4b")
       /\ \A y \in Pcbs : Is(y, "p4b") =>
            /\ sem["sem_synp4"] = Bit(pc[y] >= 6) - Bit(pc[x] >= 11)
            /\ sem["sem_blkp4"] = 0 - Bit(pc[y] >= 7)
            /\ pc[y] <= 6 \/ (pc[y] = 7 /\ Blocked(y, "sem_blkp4"))

\* Until p4 says that it ends p5 waits for it.
End4 ==
  Early4 \/ (\E x \in Pcbs : Is(x, "p4") /\ pc[x] <= 14) =>
    /\ sem["sem_endp4"] <= 0
    /\ \A z \in Pcbs : Is(z, "p5") => pc[z] <= 23 \/ Blocked(z, "sem_endp4")

\* While p4 lives p5 does not come past its wait for the clock, nor p1 past
\* its wait for p5.
Calm ==
  Early4 \/ Alive4 =>
    /\ sem["sem_endp5"] <= 0
    /\ \A z \in Pcbs : Is(z, "p5") => pc[z] <= 24 \/ Blocked(z, Clock)
    /\ \A x \in Pcbs : Is(x, "p1") /\ Past(x, P("sem_endp5")) => Blocked(x, "sem_endp5")

Peace4 == Syn4 /\ End4 /\ Calm

\* p4 comes from p1, and p4b from p4.
LEMMA Origin4 ==
  ASSUME Sound, Single
  PROVE  /\ \A y \in Live : runs[y] = "p4" =>
              parent[y] \in Live /\ runs[parent[y]] = "p1" /\ ~Early4
         /\ \A y \in Live : runs[y] = "p4b" =>
              parent[y] \in Live /\ runs[parent[y]] = "p4" /\ pc[parent[y]] > 8
<1>1. ASSUME NEW y \in Live, runs[y] = "p4"
      PROVE  parent[y] \in Live /\ runs[parent[y]] = "p1" /\ ~Early4
  <2>1. parent[y] \in Live /\ \E k : Makes(runs[parent[y]], k, "p4")
    BY <1>1, ParentRuns DEF Starts
  <2>2. runs[parent[y]] = "p1"
    BY <2>1 DEF Makes, Children, LeafSet
  <2>3. Past(parent[y], Start("p4"))
    BY <1>1, <2>1, PcbsAssumption DEF Sound, Kin, Live
  <2> QED BY <2>1, <2>2, <2>3 DEF Early4, Is, Single
<1>2. ASSUME NEW y \in Live, runs[y] = "p4b"
      PROVE  parent[y] \in Live /\ runs[parent[y]] = "p4" /\ pc[parent[y]] > 8
  <2>1. /\ parent[y] \in Live
        /\ \E k \in 1..pc[parent[y]]-1 : Makes(runs[parent[y]], k, "p4b")
    BY <1>2, ParentRuns DEF Starts
  <2>2. runs[parent[y]] = "p4" /\ 8 \in 1..pc[parent[y]]-1
    BY <2>1 DEF Makes, ByP1
  <2> QED BY <2>1, <2>2, HasDone
<1> QED BY <1>1, <1>2

\* Such an instruction changes nobody's function, and that p4 is alive or
\* has not been started.
LEMMA Is1 ==
  ASSUME Sound, Single, NEW i, Does(i)
  PROVE  /\ \A x \in Pcbs : \A r : Is(x, r)' <=> Is(x, r)
         /\ \A x, y \in Pcbs : \A r : Is(x, r) /\ Is(y, r) => x = y
         /\ Early4' => Early4
         /\ Alive4' <=> Alive4
<1>1. \A x \in Pcbs : \A r : Is(x, r)' <=> Is(x, r)
  BY DoesProcesses DEF Is
<1>2. \A x, y \in Pcbs : \A r : Is(x, r) /\ Is(y, r) => x = y
  BY DEF Is, Single
<1>3. Early4' => Early4
  BY <1>1, DoesProcesses DEF Early4
<1>4. Alive4' <=> Alive4
  BY <1>1 DEF Alive4
<1> QED BY <1>1, <1>2, <1>3, <1>4

\* What the running process does to the two semaphores of p4.
LEMMA Moves4 ==
  ASSUME Sound, Single, Peace4, Early4 \/ Alive4, NEW i, Does(i)
  PROVE  LET q == runs[current]  k == pc[current]
         IN  /\ i # V("sem_blkp4")
             /\ q = "p4b" => k <= 6
             /\ sem'["sem_synp4"] =
                  IF q \in {"p4", "p4b"} /\ k = 5 THEN sem["sem_synp4"] + 1
                  ELSE IF q = "p4" /\ k \in {7, 10} THEN sem["sem_synp4"] - 1
                  ELSE sem["sem_synp4"]
             /\ sem'["sem_blkp4"] =
                  IF q \in {"p4", "p4b"} /\ k = 6 THEN sem["sem_blkp4"] - 1
                  ELSE sem["sem_blkp4"]
             /\ q \in {"p4", "p4b"} /\ k = 6 => i = P("sem_blkp4")
<1>1. /\ At(i) /\ current \in Live /\ current \in Pcbs
      /\ \A s \in Sems : current \notin Range(semq[s])
  BY DoesProcesses, NotWaiting DEF Does
<1>s. /\ "sem_synp4" \in UserSems /\ "sem_blkp4" \in UserSems
      /\ "sem_synp4" \notin P8Sems /\ "sem_blkp4" \notin P8Sems
      /\ "sem_endp5" \in Sems /\ "sem_blkp4" \in Sems /\ Clock \in Sems
  BY SemNames, TestSoftSems
<1> DEFINE q == runs[current]  k == pc[current]
<1>2. /\ \A s : i = V(s) => Raises(q, Text(current), k, s)
      /\ \A s : i = P(s) => Lowers(q, Text(current), k, s)
      /\ k \in Nat
  BY <1>1, Doing
<1>3. q = "p4b" => k <= 6
  <2> SUFFICES ASSUME q = "p4b" PROVE k <= 6
    OBVIOUS
  <2>1. /\ parent[current] \in Pcbs /\ Is(parent[current], "p4") /\ Is(current, "p4b")
    BY <1>1, Origin4 DEF Is, Live
  <2> QED BY <1>1, <1>s, <2>1 DEF Peace4, Syn4, Blocked
<1>4. i # V("sem_blkp4")
  <2> SUFFICES ASSUME i = V("sem_blkp4") PROVE FALSE
    OBVIOUS
  <2>1. q = "p5" /\ k = 26
    BY <1>2 DEF Raises
  <2> QED BY <1>1, <1>s, <2>1 DEF Peace4, Calm, Blocked, Is
<1>5. q = "p1" => i # P("sem_blkp4")
  <2> SUFFICES ASSUME q = "p1", i = P("sem_blkp4") PROVE FALSE
    OBVIOUS
  <2>1. \E j \in 1..k-1 : Text(current)[j] = P("sem_endp5")
    BY <1>2 DEF Lowers, Children, LeafSet
  <2>2. Past(current, P("sem_endp5"))
    BY <2>1 DEF Past
  <2> QED BY <1>1, <1>s, <2>2 DEF Peace4, Calm, Blocked, Is
<1>6. /\ i = V("sem_synp4") => q \in {"p4", "p4b"} /\ k = 5
      /\ i = P("sem_synp4") => q = "p4" /\ k \in {7, 10}
      /\ i = P("sem_blkp4") => q \in {"p4", "p4b"} /\ k = 6
  <2>1. i = V("sem_synp4") => q \in {"p4", "p4b"} /\ k = 5
    BY <1>2 DEF Raises
  <2>2. i = P("sem_synp4") => q = "p4" /\ k \in {7, 10}
    BY <1>2, <1>3 DEF Lowers, Children, LeafSet
  <2>3. i = P("sem_blkp4") => q \in {"p4", "p4b"} /\ k = 6
    BY <1>2, <1>5 DEF Lowers, Children, LeafSet
  <2> QED BY <2>1, <2>2, <2>3
<1>7. /\ q = "p4" => i = P4[k]
      /\ q = "p4b" => i = P4b[k]
  BY <1>1, AtLive, Programs DEF Text
<1>8. /\ q \in {"p4", "p4b"} /\ k = 5 => i = V("sem_synp4")
      /\ q = "p4" /\ k \in {7, 10} => i = P("sem_synp4")
      /\ q \in {"p4", "p4b"} /\ k = 6 => i = P("sem_blkp4")
  BY <1>7, P4Text, P4bText
<1>9. /\ i = V("sem_synp4") => sem'["sem_synp4"] = sem["sem_synp4"] + 1
      /\ i = P("sem_synp4") => sem'["sem_synp4"] = sem["sem_synp4"] - 1
      /\ i # V("sem_synp4") /\ i # P("sem_synp4") => sem'["sem_synp4"] = sem["sem_synp4"]
      /\ i = P("sem_blkp4") => sem'["sem_blkp4"] = sem["sem_blkp4"] - 1
      /\ i # P("sem_blkp4") => sem'["sem_blkp4"] = sem["sem_blkp4"]
  BY <1>s, <1>4, DoesValues
<1>10. V("sem_synp4") # P("sem_synp4")
  BY Fields
<1> HIDE DEF q, k
<1>11. sem'["sem_synp4"] =
         IF q \in {"p4", "p4b"} /\ k = 5 THEN sem["sem_synp4"] + 1
         ELSE IF q = "p4" /\ k \in {7, 10} THEN sem["sem_synp4"] - 1
         ELSE sem["sem_synp4"]
  BY <1>6, <1>8, <1>9, <1>10
<1>12. sem'["sem_blkp4"] =
         IF q \in {"p4", "p4b"} /\ k = 6 THEN sem["sem_blkp4"] - 1
         ELSE sem["sem_blkp4"]
  BY <1>6, <1>8, <1>9
<1> QED BY <1>3, <1>4, <1>8, <1>11, <1>12 DEF q, k

\* Who is terminated, and with whom the others go.
LEMMA Killed ==
  ASSUME Sound, NEW t, Kills(t)
  PROVE  /\ t \in Live /\ runs[t] \in Leaving \cup {"p1", "p6", "p7", "p9"}
         /\ t = current \/ (runs[t] = "p9" /\ t = parent[current] /\ runs[current] = "p10")
         /\ \A z \in Live \ Live' : z = t \/ (parent[z] \in Live /\ parent[z] \notin Live')
<1>0. PICK K : K = Subtree(t)
  OBVIOUS
<1>1. /\ Live' = Live \ K /\ t \in K /\ K \subseteq Live
      /\ \A x \in K : x = t \/ parent[x] \in K
  BY <1>0, KillsProcesses
<1>2. Asks(t)
  BY DEF Kills
<1>3. CASE (At(Exit) \/ (At(Trap) /\ ~support[current])) /\ t = current
  <2>1. At(Exit) => runs[current] \in Leaving
    BY Doing
  <2>2. At(Trap) /\ ~support[current] => runs[current] \in {"p1", "p6", "p7"}
    <3>1. At(Trap) => current \in Live /\ (runs[current] = "p5" \/ runs[current] \in {"p1", "p6", "p7"})
      BY Doing, AtLive
    <3> QED BY <3>1 DEF Sound, Kin
  <2> QED BY <1>1, <1>3, <2>1, <2>2
<1>4. CASE At(KillParent) /\ t = parent[current]
  <2>1. runs[current] = "p10" /\ current \in Live
    BY <1>4, Doing, AtLive
  <2>2. \E k : Makes(runs[t], k, "p10")
    BY <1>4, <2>1, ParentRuns DEF Starts
  <2>3. runs[t] = "p9"
    BY <2>2 DEF Makes, ByP1
  <2> QED BY <1>1, <1>4, <2>1, <2>3
<1> QED BY <1>2, <1>3, <1>4 DEF Asks

\* What a termination leaves of p4 and of p1.
LEMMA Kills4 ==
  ASSUME Sound, Single, Waits, Peace4, NEW t, Kills(t)
  PROVE  /\ \A x \in Pcbs : \A r : Is(x, r)' => Is(x, r)
         /\ Early4' => Early4
         /\ \A x \in Pcbs : Is(x, "p4")' => \A y \in Pcbs : Is(y, "p4b") => Is(y, "p4b")'
         /\ Early4' \/ Alive4' => sem'["sem_synp4"] = sem["sem_synp4"]
         /\ Early4' \/ Alive4' => sem'["sem_blkp4"] = sem["sem_blkp4"]
<1>1. /\ \A z \in Live' : /\ z \in Live /\ z \in Pcbs
                          /\ runs'[z] = runs[z] /\ parent'[z] = parent[z]
                          /\ pc'[z] = pc[z]
      /\ \A z \in Live : z \in Live' => parent[z] = NULL \/ parent[z] \in Live'
      /\ \A z \in Live' : \A j : (Did(z, j)' <=> Did(z, j)) /\ (Past(z, j)' <=> Past(z, j))
      /\ \A s \in UserSems :
           sem[s] >= 0 \/ (\A z \in Live : Did(z, P(s)) => z \in Live') => sem'[s] = sem[s]
  BY Survivors
<1>s. /\ "sem_synp4" \in UserSems /\ "sem_blkp4" \in UserSems
  BY SemNames
<1>2. \A x \in Pcbs : \A r : Is(x, r)' => Is(x, r)
  BY <1>1 DEF Is
<1>3. Early4' => Early4
  BY <1>1, <1>2 DEF Early4, Is
<1>4. ASSUME NEW x \in Pcbs, Is(x, "p4")', NEW y \in Pcbs, Is(y, "p4b")
      PROVE  Is(y, "p4b")'
  <2>1. x = parent[y]
    BY <1>2, <1>4, Origin4 DEF Is, Single
  <2>2. y \in Live'
    <3> SUFFICES ASSUME y \notin Live' PROVE FALSE
      OBVIOUS
    <3>1. y # t
      BY <1>4, Killed DEF Is, Leaving
    <3>2. parent[y] \notin Live'
      BY <1>4, <3>1, Killed DEF Is
    <3> QED BY <1>4, <2>1, <3>2 DEF Is
  <2> QED BY <1>1, <1>4, <2>2 DEF Is
<1>5. ASSUME NEW x \in Pcbs, Is(x, "p4")', NEW z \in Live, runs[z] \in {"p1", "p4", "p4b"}
      PROVE  z \in Live'
  <2>1. Is(x, "p4") /\ x \in Live'
    BY <1>2, <1>5 DEF Is
  <2>2. CASE runs[z] = "p4"
    BY <2>1, <2>2 DEF Is, Single
  <2>3. CASE runs[z] = "p4b"
    BY <1>4, <1>5, <2>3 DEF Is, Live
  <2>4. CASE runs[z] = "p1"
    <3>1. parent[x] = z
      BY <2>1, <2>4, Origin4 DEF Is, Single
    <3>2. z # NULL
      BY PcbsAssumption DEF Live
    <3> QED BY <1>1, <2>1, <3>1, <3>2 DEF Is
  <2> QED BY <1>5, <2>2, <2>3, <2>4
<1>6. ASSUME NEW z \in Live, Did(z, P("sem_synp4")) \/ Did(z, P("sem_blkp4"))
      PROVE  runs[z] \in {"p1", "p4", "p4b"}
  <2>1. \/ Lowers(runs[z], Text(z), pc[z]-1, "sem_synp4")
        \/ Lowers(runs[z], Text(z), pc[z]-1, "sem_blkp4")
    BY <1>6, LastDone
  <2> QED BY <2>1 DEF Lowers, Children, LeafSet
<1>7. ASSUME Early4' \/ Alive4'
      PROVE  sem'["sem_synp4"] = sem["sem_synp4"] /\ sem'["sem_blkp4"] = sem["sem_blkp4"]
  <2>1. CASE Early4'
    BY <1>1, <1>3, <1>s, <2>1 DEF Peace4, Syn4
  <2>2. CASE Alive4'
    <3>1. PICK x \in Pcbs : Is(x, "p4")'
      BY <2>2 DEF Alive4
    <3> QED BY <1>1, <1>5, <1>6, <1>s, <3>1
  <2> QED BY <1>7, <2>1, <2>2
<1> QED BY <1>2, <1>3, <1>4, <1>7

\* What a creation changes for p4 and for p1.
LEMMA Creates4 ==
  ASSUME Sound, Single, Peace4, NEW q, NEW p, Creates(q, p)
  PROVE  /\ Early4' => Early4
         /\ q = "p4" => Early4 /\ ~Early4'
         /\ Alive4' => Alive4 \/ q = "p4"
         /\ q = "p4b" => Is(current, "p4") /\ pc[current] = 8
         /\ Is(current, "p4") => q = "p4b" /\ pc[current] = 8
         /\ ~Is(current, "p4b") /\ ~Is(current, "p5")
<1>1. /\ p \in Pcbs /\ current # p /\ current \in Live /\ current \in Pcbs
      /\ \A x \in Pcbs : \A j : x # p =>
           (Past(x, j)' <=> Past(x, j) \/ (x = current /\ j = Start(q)))
  BY CreatesProcesses
<1>2. /\ q # "p1" /\ Makes(runs[current], pc[current], q)
      /\ q # "p8root" => ~Past(current, Start(q))
      /\ \A x \in Pcbs : \A r : Is(x, r)' <=> IF x = p THEN r = q ELSE Is(x, r)
  BY Starting
<1>3. Early4' => Early4
  BY <1>1, <1>2 DEF Early4
<1>4. q = "p4" => Early4 /\ ~Early4'
  <2> SUFFICES ASSUME q = "p4" PROVE Early4 /\ ~Early4'
    OBVIOUS
  <2>1. runs[current] = "p1" /\ ~Past(current, Start("p4"))
    BY <1>2 DEF Makes, Children, LeafSet
  <2>2. \A x \in Pcbs : Is(x, "p1")' => x = current /\ x # p
    BY <1>1, <1>2, <2>1 DEF Is, Single
  <2> QED BY <1>1, <2>1, <2>2 DEF Early4, Is
<1>5. Alive4' => Alive4 \/ q = "p4"
  BY <1>2 DEF Alive4
<1>6. /\ q = "p4b" => Is(current, "p4") /\ pc[current] = 8
      /\ Is(current, "p4") => q = "p4b" /\ pc[current] = 8
      /\ ~Is(current, "p4b") /\ ~Is(current, "p5")
  BY <1>1, <1>2 DEF Makes, ByP1, Is
<1> QED BY <1>3, <1>4, <1>5, <1>6

\* Syn4 is kept.
LEMMA Syn4Kept ==
  ASSUME TInv, TInv', Peace4, [TestNext]_testVars
  PROVE  Syn4'
<1>0. Sound /\ Single /\ Waits /\ Single' /\ Sound'
  BY DEF TInv
<1>s. /\ "sem_synp4" \in UserSems /\ "sem_blkp4" \in UserSems
      /\ "sem_blkp4" \in Sems
  BY SemNames, TestSoftSems
<1>v. PICK sy, bl, sz, bm : /\ sy = sem["sem_synp4"] /\ bl = sem["sem_blkp4"]
                            /\ sz = sem'["sem_synp4"] /\ bm = sem'["sem_blkp4"]
  OBVIOUS
<1>n. sy \in Int /\ bl \in Int
  BY <1>0, <1>s, <1>v, TestSoftSems, Unpacked DEF Sound
<1> DEFINE Row(x) ==
             /\ pc[x] <= 15
             /\ pc[x] <= 8 => sy = Bit(pc[x] \in {6, 7}) /\ bl = 1 - Bit(pc[x] >= 7)
             /\ pc[x] > 8 => \E y \in Pcbs : Is(y, "p4b")
             /\ \A y \in Pcbs : Is(y, "p4b") =>
                  /\ sy = Bit(pc[y] >= 6) - Bit(pc[x] >= 11)
                  /\ bl = 0 - Bit(pc[y] >= 7)
                  /\ pc[y] <= 6 \/ (pc[y] = 7 /\ Blocked(y, "sem_blkp4"))
           Row2(x) ==
             /\ pc'[x] <= 15
             /\ pc'[x] <= 8 => sz = Bit(pc'[x] \in {6, 7}) /\ bm = 1 - Bit(pc'[x] >= 7)
             /\ pc'[x] > 8 => \E y \in Pcbs : Is(y, "p4b")'
             /\ \A y \in Pcbs : Is(y, "p4b")' =>
                  /\ sz = Bit(pc'[y] >= 6) - Bit(pc'[x] >= 11)
                  /\ bm = 0 - Bit(pc'[y] >= 7)
                  /\ pc'[y] <= 6 \/ (pc'[y] = 7 /\ Blocked(y, "sem_blkp4")')
           Goal == /\ Early4' => sz = 0 /\ bm = 1
                   /\ \A x \in Pcbs : Is(x, "p4")' => Row2(x)
<1>a. /\ Early4 => sy = 0 /\ bl = 1
      /\ \A x \in Pcbs : Is(x, "p4") => Row(x)
  BY <1>v DEF Peace4, Syn4
<1> SUFFICES Goal
  BY <1>v DEF Syn4
<1>1. ASSUME Quiet PROVE Goal
  <2>1. /\ sz = sy /\ bm = bl /\ pc' = pc
        /\ \A x : Blocked(x, "sem_blkp4")' <=> Blocked(x, "sem_blkp4")
        /\ \A x : \A r : Is(x, r)' <=> Is(x, r)
        /\ Early4' => Early4
    BY <1>0, <1>1, <1>s, <1>v, QuietProcesses DEF Is, Early4
  <2> QED BY <1>a, <2>1
<1>2. ASSUME NEW i, Does(i) PROVE Goal
  <2>1. /\ \A x \in Pcbs : \A r : Is(x, r)' <=> Is(x, r)
        /\ \A x, y \in Pcbs : \A r : Is(x, r) /\ Is(y, r) => x = y
        /\ Early4' => Early4
        /\ Alive4' <=> Alive4
    BY <1>0, <1>2, Is1
  <2>2. /\ current \in Live /\ current \in Pcbs /\ pc'[current] = pc[current] + 1
        /\ \A x \in Pcbs : x # current => pc'[x] = pc[x]
        /\ pc[current] \in Nat
    BY <1>0, <1>2, DoesProcesses, HasDone
  <2>b. \A x : Blocked(x, "sem_blkp4") /\ i # V("sem_blkp4") => Blocked(x, "sem_blkp4")'
    BY <1>0, <1>2, <1>s, DoesQueues
  <2>3. ASSUME Early4 \/ Alive4
        PROVE
             /\ i # V("sem_blkp4")
             /\ runs[current] = "p4b" => pc[current] <= 6
             /\ sz =
                  IF runs[current] \in {"p4", "p4b"} /\ pc[current] = 5 THEN sy + 1
                  ELSE IF runs[current] = "p4" /\ pc[current] \in {7, 10} THEN sy - 1
                  ELSE sy
             /\ bm =
                  IF runs[current] \in {"p4", "p4b"} /\ pc[current] = 6 THEN bl - 1
                  ELSE bl
             /\ runs[current] \in {"p4", "p4b"} /\ pc[current] = 6 => i = P("sem_blkp4")
    BY <1>0, <1>2, <1>v, <2>3, Moves4
  <2>4. ASSUME Early4 PROVE sz = 0 /\ bm = 1 /\ ~Alive4
    <3>1. runs[current] \notin {"p4", "p4b"} /\ ~Alive4
      BY <1>0, <2>2, <2>4, Origin4 DEF Alive4, Is
    <3> QED BY <1>a, <2>3, <2>4, <3>1
  <2>5. ASSUME NEW x \in Pcbs, Is(x, "p4") PROVE Row2(x)
    <3>1. Alive4 /\ Row(x)
      BY <1>a, <2>5 DEF Alive4
    <3>2. \A y \in Pcbs : Is(y, "p4b") => pc[x] > 8 /\ pc[y] \in Nat
      BY <1>0, <2>5, Origin4, HasDone DEF Is, Single
    <3>n. pc[x] \in Nat
      BY <1>0, <2>5, HasDone DEF Is
    <3>3. CASE x = current
      <4>1. runs[current] = "p4" /\ \A y \in Pcbs : Is(y, "p4b") => pc'[y] = pc[y]
        BY <2>2, <2>5, <3>3 DEF Is
      <4>2. pc[current] # 8 /\ pc[current] # 15
        <5>1. pc[current] = 8 => i = Start("p4b")
          BY <1>0, <1>2, <4>1, AtLive, Programs, P4Text DEF Text, Does
        <5>2. pc[current] = 15 => i = Exit
          BY <1>0, <1>2, <4>1, AtLive, Programs, P4Text DEF Text, Does
        <5> QED BY <1>2, <5>1, <5>2 DEF Does
      <4>3. CASE pc[x] <= 7
        <5>1. \A y \in Pcbs : ~Is(y, "p4b")
          BY <3>2, <3>n, <4>3
        <5>2. /\ sz = Bit(pc'[x] \in {6, 7}) /\ bm = 1 - Bit(pc'[x] >= 7)
              /\ pc'[x] <= 8 /\ pc'[x] \in Nat
          BY <1>n, <2>2, <2>3, <3>1, <3>3, <3>n, <4>1, <4>3 DEF Bit
        <5> QED BY <2>1, <5>1, <5>2
      <4>4. CASE pc[x] > 8
        <5>1. pc'[x] > 8 /\ pc'[x] <= 15 /\ pc'[x] \in Nat
          BY <2>2, <3>1, <3>3, <3>n, <4>2, <4>4
        <5>2. ASSUME NEW y \in Pcbs, Is(y, "p4b")
              PROVE /\ sz = Bit(pc'[y] >= 6) - Bit(pc'[x] >= 11)
                    /\ bm = 0 - Bit(pc'[y] >= 7)
                    /\ pc'[y] <= 6 \/ (pc'[y] = 7 /\ Blocked(y, "sem_blkp4")')
          <6>1. pc'[y] = pc[y]
            BY <4>1, <5>2
          <6>2. bm = bl /\ (Blocked(y, "sem_blkp4") => Blocked(y, "sem_blkp4")')
            BY <2>3, <2>b, <3>1, <3>3, <4>4
          <6>3. sz = Bit(pc[y] >= 6) - Bit(pc'[x] >= 11)
            BY <1>n, <2>2, <2>3, <3>1, <3>3, <3>n, <4>1, <4>4, <5>2 DEF Bit
          <6> QED BY <3>1, <5>2, <6>1, <6>2, <6>3
        <5> QED BY <2>1, <3>1, <4>4, <5>1, <5>2
      <4> QED BY <3>3, <3>n, <4>2, <4>3, <4>4
    <3>4. CASE x # current /\ runs[current] = "p4b"
      <4>1. Is(current, "p4b") /\ pc'[x] = pc[x] /\ pc[x] > 8
        BY <2>2, <3>2, <3>4 DEF Is
      <4>2. \A y \in Pcbs : Is(y, "p4b") => y = current
        BY <2>1, <2>2, <4>1
      <4>y. PICK y : y = current
        OBVIOUS
      <4>3. /\ sy = Bit(pc[y] >= 6) - Bit(pc[x] >= 11)
            /\ bl = 0 - Bit(pc[y] >= 7) /\ pc[y] <= 6
            /\ pc'[y] = pc[y] + 1 /\ pc[y] \in Nat
        BY <2>2, <2>3, <3>1, <3>4, <4>1, <4>y
      <4>4. sz = (IF pc[y] = 5 THEN sy + 1 ELSE sy) /\ bm = (IF pc[y] = 6 THEN bl - 1 ELSE bl)
        BY <2>3, <3>1, <3>4, <4>y
      <4>5. pc[y] = 6 => Blocked(y, "sem_blkp4")'
        <5> SUFFICES ASSUME pc[y] = 6 PROVE current \in Range(semq'["sem_blkp4"])
          BY <4>y DEF Blocked
        <5>1. i = P("sem_blkp4") /\ sem["sem_blkp4"] <= 0
          BY <1>v, <2>3, <3>1, <3>4, <4>3, <4>y DEF Bit
        <5> QED BY <1>0, <1>2, <1>s, <5>1, DoesQueues
      <4>6. /\ sz = Bit(pc'[y] >= 6) - Bit(pc[x] >= 11)
            /\ bm = 0 - Bit(pc'[y] >= 7)
            /\ pc'[y] <= 6 \/ (pc'[y] = 7 /\ Blocked(y, "sem_blkp4")')
        <5>1. CASE pc[y] <= 4
          BY <1>n, <4>3, <4>4, <5>1 DEF Bit
        <5>2. CASE pc[y] = 5
          BY <1>n, <4>3, <4>4, <5>2 DEF Bit
        <5>3. CASE pc[y] = 6
          BY <1>n, <4>3, <4>4, <4>5, <5>3 DEF Bit
        <5> QED BY <4>3, <5>1, <5>2, <5>3
      <4>7. \A z \in Pcbs : Is(z, "p4b") => z = y
        BY <4>2, <4>y
      <4>8. /\ pc'[x] = pc[x] /\ pc[x] <= 15 /\ pc[x] > 8 /\ ~(pc[x] <= 8)
            /\ \E z \in Pcbs : Is(z, "p4b")'
        BY <2>1, <2>2, <3>1, <3>n, <4>1
      <4>9. \A z \in Pcbs : Is(z, "p4b")' => z = y
        BY <2>1, <4>7
      <4> QED BY <4>6, <4>8, <4>9
    <3>5. CASE x # current /\ runs[current] # "p4b"
      <4>1. /\ pc'[x] = pc[x] /\ runs[current] # "p4"
            /\ \A y \in Pcbs : Is(y, "p4b") => pc'[y] = pc[y]
        BY <2>2, <2>1, <2>5, <3>5 DEF Is
      <4>2. /\ sz = sy /\ bm = bl
            /\ \A y \in Pcbs : Blocked(y, "sem_blkp4") => Blocked(y, "sem_blkp4")'
        BY <2>3, <2>b, <3>1, <3>5, <4>1
      <4> QED BY <2>1, <3>1, <4>1, <4>2
    <3> QED BY <3>3, <3>4, <3>5
  <2> QED BY <2>1, <2>4, <2>5
<1>3. ASSUME NEW q, NEW p, Creates(q, p) PROVE Goal
  <2>1. /\ p \in Pcbs /\ pc'[p] = 1 /\ current # p /\ current \in Pcbs
        /\ \A x \in Pcbs : x # p => (x # current => pc'[x] = pc[x])
        /\ pc'[current] = pc[current] + 1
        /\ \A x, s : Blocked(x, s)' <=> Blocked(x, s)
        /\ sz = sy /\ bm = bl
    BY <1>0, <1>3, <1>v, CreatesProcesses
  <2>2. /\ \A x \in Pcbs : \A r : Is(x, r)' <=> IF x = p THEN r = q ELSE Is(x, r)
    BY <1>0, <1>3, Starting
  <2>3. /\ Early4' => Early4
        /\ q = "p4" => Early4 /\ ~Early4'
        /\ q = "p4b" => Is(current, "p4") /\ pc[current] = 8
        /\ Is(current, "p4") => q = "p4b" /\ pc[current] = 8
        /\ ~Is(current, "p4b")
    BY <1>0, <1>3, Creates4
  <2>4. ASSUME NEW x \in Pcbs, Is(x, "p4")' PROVE Row2(x)
    <3>1. CASE x = p
      <4>1. q = "p4" /\ Early4
        BY <2>2, <2>3, <2>4, <3>1
      <4>2. \A y \in Pcbs : ~Is(y, "p4b")
        BY <1>0, <4>1, Origin4 DEF Is
      <4>3. \A y \in Pcbs : ~Is(y, "p4b")'
        BY <2>2, <4>1, <4>2
      <4>4. sz = 0 /\ bm = 1 /\ pc'[x] = 1
        BY <1>a, <2>1, <3>1, <4>1
      <4> QED BY <4>3, <4>4 DEF Bit
    <3>2. CASE x # p
      <4>0. Is(x, "p4") /\ Row(x) /\ pc[x] \in Nat
        BY <1>0, <1>a, <2>2, <2>4, <3>2, HasDone DEF Is
      <4>1. CASE x = current
        <5>1. q = "p4b" /\ pc[x] = 8 /\ pc'[x] = 9
          BY <2>1, <2>3, <4>0, <4>1
        <5>2. \A y \in Pcbs : ~Is(y, "p4b")
          BY <1>0, <4>0, <5>1, Origin4 DEF Is, Single
        <5>3. \A y \in Pcbs : Is(y, "p4b")' <=> y = p
          BY <2>2, <5>1, <5>2
        <5>4. sz = 0 /\ bm = 0
          BY <2>1, <4>0, <5>1 DEF Bit
        <5>5. Bit(1 >= 6) = 0 /\ Bit(9 >= 11) = 0 /\ Bit(1 >= 7) = 0
          BY DEF Bit
        <5>6. p \in Pcbs /\ pc'[p] = 1 /\ pc'[x] = 9
          BY <2>1, <5>1
        <5> QED BY <5>3, <5>4, <5>5, <5>6
      <4>2. CASE x # current
        <5>1. q # "p4b" /\ pc'[x] = pc[x]
          BY <1>0, <2>1, <2>3, <3>2, <4>0, <4>2 DEF Is, Single
        <5>2. \A y \in Pcbs : (Is(y, "p4b")' <=> Is(y, "p4b")) /\ (Is(y, "p4b") => pc'[y] = pc[y])
          <6>1. Is(p, "p4b") => FALSE
            BY <1>0, <1>3, CreatesProcesses DEF Is
          <6> QED BY <2>1, <2>2, <2>3, <5>1, <6>1
        <5> QED BY <2>1, <4>0, <5>1, <5>2
      <4> QED BY <4>1, <4>2
    <3> QED BY <3>1, <3>2
  <2> QED BY <1>a, <2>1, <2>3, <2>4
<1>4. ASSUME NEW t, Kills(t) PROVE Goal
  <2>1. /\ \A x \in Pcbs : \A r : Is(x, r)' => Is(x, r)
        /\ Early4' => Early4
        /\ \A x \in Pcbs : Is(x, "p4")' => \A y \in Pcbs : Is(y, "p4b") => Is(y, "p4b")'
        /\ Early4' \/ Alive4' => sz = sy
        /\ Early4' \/ Alive4' => bm = bl
    BY <1>0, <1>4, <1>v, Kills4
  <2>2. /\ \A z \in Live' : pc'[z] = pc[z]
        /\ \A z \in Live' : Blocked(z, "sem_blkp4")' <=> Blocked(z, "sem_blkp4")
    BY <1>0, <1>4, <1>s, Survivors
  <2>3. ASSUME NEW x \in Pcbs, Is(x, "p4")' PROVE Row2(x)
    <3>1. Is(x, "p4") /\ Row(x) /\ sz = sy /\ bm = bl /\ pc'[x] = pc[x]
      BY <1>a, <2>1, <2>2, <2>3 DEF Alive4, Is
    <3>2. \A y \in Pcbs : Is(y, "p4b")' <=> Is(y, "p4b")
      BY <2>1, <2>3
    <3>3. \A y \in Pcbs : Is(y, "p4b")' =>
            pc'[y] = pc[y] /\ (Blocked(y, "sem_blkp4")' <=> Blocked(y, "sem_blkp4"))
      BY <2>2 DEF Is
    <3> QED BY <3>1, <3>2, <3>3
  <2> QED BY <1>a, <2>1, <2>3
<1> QED BY <1>0, <1>1, <1>2, <1>3, <1>4, StepView

\* While somebody waits for nothing the processor does not idle.
LEMMA AwakeRuns ==
  ASSUME Sound, NEW x \in Live, \A s \in Sems : ~Blocked(x, s)
  PROVE  current # NULL
<1> SUFFICES ASSUME current = NULL PROVE FALSE
  OBVIOUS
<1>1. /\ Placed(ready, current, free, semq, semAdd) /\ CpuAgrees
  BY Unpacked DEF Sound
<1>2. ready = <<>>
  BY <1>1 DEF CpuAgrees
<1>3. Range(ready) = {}
  BY <1>2 DEF Range
<1>4. x \in Pcbs \ free /\ x # NULL
  BY PcbsAssumption DEF Live
<1> QED BY <1>1, <1>3, <1>4 DEF Placed, Blocked

\* Somebody waits on what it has just lowered, or asked for.
LEMMA BlockedDid ==
  ASSUME Sound, Waits, NEW x \in Live, NEW s \in Sems, Blocked(x, s)
  PROVE  \/ s \in UserSems /\ Did(x, P(s))
         \/ s = Term0 /\ Did(x, WriteChar)
         \/ s = Clock /\ (Did(x, AwaitClock) \/ Did(x, AwaitAgain))
BY TestSoftSems DEF Sems, Waits, Blocked

\* End4 is kept.
LEMMA End4Kept ==
  ASSUME TInv, TInv', Peace4, [TestNext]_testVars
  PROVE  End4'
<1>0. Sound /\ Single /\ Waits /\ Single' /\ Sound'
  BY DEF TInv
<1>s. "sem_endp4" \in UserSems /\ "sem_endp4" \in Sems /\ "sem_endp4" \notin P8Sems
  BY SemNames, TestSoftSems
<1>v. PICK e, f : e = sem["sem_endp4"] /\ f = sem'["sem_endp4"]
  OBVIOUS
<1> DEFINE Ante == Early4 \/ (\E x \in Pcbs : Is(x, "p4") /\ pc[x] <= 14)
           Ante2 == Early4' \/ (\E x \in Pcbs : Is(x, "p4")' /\ pc'[x] <= 14)
<1>a. Ante => /\ e <= 0
              /\ \A z \in Pcbs : Is(z, "p5") => pc[z] <= 23 \/ Blocked(z, "sem_endp4")
  BY <1>v DEF Peace4, End4
<1> SUFFICES ASSUME Ante2
             PROVE  /\ f <= 0
                    /\ \A z \in Pcbs : Is(z, "p5")' => pc'[z] <= 23 \/ Blocked(z, "sem_endp4")'
  BY <1>v DEF End4
<1> DEFINE Goal == /\ f <= 0
                   /\ \A z \in Pcbs : Is(z, "p5")' => pc'[z] <= 23 \/ Blocked(z, "sem_endp4")'
<1>1. ASSUME Quiet PROVE Goal
  <2>1. /\ f = e /\ pc' = pc
        /\ \A x : Blocked(x, "sem_endp4")' <=> Blocked(x, "sem_endp4")
        /\ \A x : \A r : Is(x, r)' <=> Is(x, r)
        /\ Early4' => Early4
    BY <1>0, <1>1, <1>s, <1>v, QuietProcesses DEF Is, Early4
  <2> QED BY <1>a, <2>1
<1>2. ASSUME NEW i, Does(i) PROVE Goal
  <2>1. /\ \A x \in Pcbs : \A r : Is(x, r)' <=> Is(x, r)
        /\ \A x, y \in Pcbs : \A r : Is(x, r) /\ Is(y, r) => x = y
        /\ Early4' => Early4
    BY <1>0, <1>2, Is1
  <2>2. /\ current \in Live /\ current \in Pcbs /\ pc'[current] = pc[current] + 1
        /\ \A x \in Pcbs : x # current => pc'[x] = pc[x]
        /\ pc[current] \in Nat /\ At(i)
    BY <1>0, <1>2, DoesProcesses, HasDone DEF Does
  <2>3. Ante
    BY <2>1, <2>2
  <2>4. i # V("sem_endp4")
    <3> SUFFICES ASSUME i = V("sem_endp4") PROVE FALSE
      OBVIOUS
    <3>1. runs[current] = "p4" /\ pc[current] = 14
      BY <1>0, <2>2, Doing DEF Raises
    <3>2. ~Early4 /\ \A x \in Pcbs : Is(x, "p4")' => x = current
      BY <1>0, <2>1, <2>2, <3>1, Origin4 DEF Is
    <3> QED BY <2>1, <2>2, <3>1, <3>2
  <2>5. f <= 0
    <3>1. /\ i = P("sem_endp4") => f = e - 1
          /\ i # P("sem_endp4") => f = e
          /\ e \in Int
      BY <1>0, <1>2, <1>s, <1>v, <2>4, DoesValues
    <3> QED BY <1>a, <2>3, <3>1
  <2>6. ASSUME NEW z \in Pcbs, Is(z, "p5") PROVE pc'[z] <= 23 \/ Blocked(z, "sem_endp4")'
    <3>1. CASE z # current
      BY <1>0, <1>2, <1>s, <1>a, <2>2, <2>3, <2>4, <2>6, <3>1, DoesQueues
    <3>2. CASE z = current
      <4>1. ~Blocked(z, "sem_endp4") /\ runs[current] = "p5"
        BY <1>0, <1>s, <2>6, <3>2, NotWaiting DEF Blocked, Is
      <4>2. pc[z] <= 23
        BY <1>a, <2>3, <2>6, <4>1
      <4>3. CASE pc[z] = 23
        <5>1. i = P("sem_endp4")
          BY <1>0, <2>2, <3>2, <4>1, <4>3, AtLive, Programs, P5Text DEF Text
        <5>2. current \in Range(semq'["sem_endp4"])
          BY <1>0, <1>2, <1>a, <1>s, <1>v, <2>3, <5>1, DoesQueues
        <5> QED BY <3>2, <5>2 DEF Blocked
      <4> QED BY <2>2, <3>2, <4>2, <4>3
    <3> QED BY <3>1, <3>2
  <2> QED BY <2>1, <2>5, <2>6
<1>3. ASSUME NEW q, NEW p, Creates(q, p) PROVE Goal
  <2>1. /\ p \in Pcbs /\ pc'[p] = 1 /\ current # p /\ current \in Pcbs
        /\ \A x \in Pcbs : x # p => (x # current => pc'[x] = pc[x])
        /\ pc'[current] = pc[current] + 1 /\ pc[current] \in Nat
        /\ \A x, s : Blocked(x, s)' <=> Blocked(x, s)
        /\ f = e
    BY <1>0, <1>3, <1>v, CreatesProcesses, HasDone
  <2>2. \A x \in Pcbs : \A r : Is(x, r)' <=> IF x = p THEN r = q ELSE Is(x, r)
    BY <1>0, <1>3, Starting
  <2>3. /\ Early4' => Early4
        /\ q = "p4" => Early4
        /\ ~Is(current, "p5")
    BY <1>0, <1>3, Creates4
  <2>4. Ante
    <3>1. CASE Early4'
      BY <2>3, <3>1
    <3>2. ASSUME NEW x \in Pcbs, Is(x, "p4")', pc'[x] <= 14 PROVE Ante
      <4>1. CASE x = p
        BY <2>2, <2>3, <3>2, <4>1
      <4>2. CASE x # p
        <5>1. Is(x, "p4") /\ pc[x] <= 14
          BY <2>1, <2>2, <3>2, <4>2
        <5> QED BY <5>1
      <4> QED BY <4>1, <4>2
    <3> QED BY <3>1, <3>2
  <2>5. ASSUME NEW z \in Pcbs, Is(z, "p5")' PROVE pc'[z] <= 23 \/ Blocked(z, "sem_endp4")'
    <3>1. CASE z = p
      BY <2>1, <3>1
    <3>2. CASE z # p
      BY <1>a, <2>1, <2>2, <2>3, <2>4, <2>5, <3>2
    <3> QED BY <3>1, <3>2
  <2> QED BY <1>a, <2>1, <2>4, <2>5
<1>4. ASSUME NEW t, Kills(t) PROVE Goal
  <2>1. /\ \A x \in Pcbs : \A r : Is(x, r)' => Is(x, r)
        /\ Early4' => Early4
    BY <1>0, <1>4, Kills4
  <2>2. /\ \A z \in Live' : pc'[z] = pc[z]
        /\ \A z \in Live' : Blocked(z, "sem_endp4")' <=> Blocked(z, "sem_endp4")
        /\ e <= 0 => f <= 0
    BY <1>0, <1>4, <1>s, <1>v, Survivors
  <2>3. \A x \in Pcbs : \A r : Is(x, r)' => pc'[x] = pc[x] /\ x \in Live'
    BY <2>2 DEF Is
  <2>4. Ante
    BY <2>1, <2>3
  <2> QED BY <1>a, <2>1, <2>2, <2>3, <2>4
<1> QED BY <1>0, <1>1, <1>2, <1>3, <1>4, StepView

\* When p4 lives and p5 has been told of its end p4 is about to exit.
LEMMA Exiting4 ==
  ASSUME Sound, Single, Waits, Peace4, Early4 \/ Alive4,
         NEW z \in Pcbs, Is(z, "p5"), Blocked(z, Clock)
  PROVE  current # NULL \/ pc[z] <= 24
<1> SUFFICES ASSUME ~(pc[z] <= 24) PROVE current # NULL
  OBVIOUS
<1>1. ~Blocked(z, "sem_endp4") /\ pc[z] \in Nat
  BY SemNames, TestSoftSems, NotWaiting, HasDone DEF Blocked, Is
<1>2. PICK x \in Pcbs : Is(x, "p4") /\ ~(pc[x] <= 14)
  BY <1>1 DEF Peace4, End4, Alive4
<1>3. x \in Live /\ pc[x] \in Nat /\ pc[x] <= 15
  BY <1>2, HasDone DEF Peace4, Syn4, Is
<1>4. pc[x] = 15
  BY <1>2, <1>3
<1>5. P4[14] = V("sem_endp4") /\ Text(x) = P4
  BY <1>2, P4Text, Programs DEF Is, Text
<1>6. \A j : Did(x, j) => j = V("sem_endp4")
  BY <1>4, <1>5 DEF Did
<1>7. ASSUME NEW s \in Sems, Blocked(x, s) PROVE FALSE
  BY <1>3, <1>6, <1>7, BlockedDid, Fields
<1> QED BY <1>3, <1>7, AwakeRuns

\* Calm is kept.
LEMMA CalmKept ==
  ASSUME TInv, TInv', Peace4, [TestNext]_testVars
  PROVE  Calm'
<1>0. Sound /\ Single /\ Waits /\ Single' /\ Sound'
  BY DEF TInv
<1>s. "sem_endp5" \in UserSems /\ "sem_endp5" \in Sems /\ "sem_endp5" \notin P8Sems
      /\ Clock \in Sems
  BY SemNames, TestSoftSems
<1>v. PICK e, f : e = sem["sem_endp5"] /\ f = sem'["sem_endp5"]
  OBVIOUS
<1> DEFINE Ante == Early4 \/ Alive4
           Goal ==
             /\ f <= 0
             /\ \A z \in Pcbs : Is(z, "p5")' => pc'[z] <= 24 \/ Blocked(z, Clock)'
             /\ \A x \in Pcbs : Is(x, "p1")' /\ Past(x, P("sem_endp5"))' =>
                  Blocked(x, "sem_endp5")'
<1>a. Ante => /\ e <= 0
              /\ \A z \in Pcbs : Is(z, "p5") => pc[z] <= 24 \/ Blocked(z, Clock)
              /\ \A x \in Pcbs : Is(x, "p1") /\ Past(x, P("sem_endp5")) => Blocked(x, "sem_endp5")
  BY <1>v DEF Peace4, Calm
<1> SUFFICES ASSUME Early4' \/ Alive4'
             PROVE  Goal
  BY <1>v DEF Calm
<1>1. ASSUME Quiet PROVE Goal
  <2>1. /\ f = e /\ pc' = pc
        /\ \A x : Blocked(x, "sem_endp5")' <=> Blocked(x, "sem_endp5")
        /\ current # NULL => \A x : Blocked(x, Clock) => Blocked(x, Clock)'
        /\ \A x : \A j : Past(x, j)' <=> Past(x, j)
        /\ \A x : \A r : Is(x, r)' <=> Is(x, r)
    BY <1>0, <1>1, <1>s, <1>v, QuietProcesses DEF Is
  <2>2. Ante
    BY <2>1 DEF Early4, Alive4
  <2>3. ASSUME NEW z \in Pcbs, Is(z, "p5") PROVE pc[z] <= 24 \/ Blocked(z, Clock)'
    BY <1>0, <1>a, <2>1, <2>2, <2>3, Exiting4
  <2> QED BY <1>a, <2>1, <2>2, <2>3
<1>2. ASSUME NEW i, Does(i) PROVE Goal
  <2>1. /\ \A x \in Pcbs : \A r : Is(x, r)' <=> Is(x, r)
        /\ Ante
    BY <1>0, <1>2, Is1
  <2>2. /\ current \in Live /\ current \in Pcbs /\ pc'[current] = pc[current] + 1
        /\ \A x \in Pcbs : x # current => pc'[x] = pc[x]
        /\ pc[current] \in Nat /\ At(i)
        /\ \A x \in Pcbs : \A j : Past(x, j)' <=> Past(x, j) \/ (x = current /\ j = i)
        /\ \A s \in Sems : ~Blocked(current, s)
    BY <1>0, <1>2, DoesProcesses, HasDone, NotWaiting DEF Does, Blocked
  <2>3. /\ \A s \in UserSems : \A x : Blocked(x, s) /\ i # V(s) => Blocked(x, s)'
        /\ \A s \in UserSems : i = P(s) /\ sem[s] <= 0 => current \in Range(semq'[s])
        /\ \A x : Blocked(x, Clock) => Blocked(x, Clock)'
        /\ i = AwaitClock => current \in Range(semq'[Clock])
    BY <1>0, <1>2, DoesQueues
  <2>4. runs[current] = "p5" => pc[current] <= 24
    BY <1>a, <1>s, <2>1, <2>2 DEF Is
  <2>5. i # V("sem_endp5")
    <3> SUFFICES ASSUME i = V("sem_endp5") PROVE FALSE
      OBVIOUS
    <3>1. runs[current] = "p5" /\ pc[current] = 27
      BY <1>0, <2>2, Doing DEF Raises
    <3> QED BY <2>4, <3>1
  <2>6. f <= 0
    <3>1. /\ i = P("sem_endp5") => f = e - 1
          /\ i # P("sem_endp5") => f = e
          /\ e \in Int
      BY <1>0, <1>2, <1>s, <1>v, <2>5, DoesValues
    <3> QED BY <1>a, <2>1, <3>1
  <2>7. ASSUME NEW z \in Pcbs, Is(z, "p5") PROVE pc'[z] <= 24 \/ Blocked(z, Clock)'
    <3>1. CASE z # current
      BY <1>a, <2>1, <2>2, <2>3, <2>7, <3>1
    <3>2. CASE z = current /\ pc[z] = 24
      <4>1. i = AwaitClock
        BY <1>0, <2>2, <2>7, <3>2, AtLive, Programs, P5Text DEF Text, Is
      <4> QED BY <2>3, <3>2, <4>1 DEF Blocked
    <3>3. CASE z = current /\ pc[z] # 24
      BY <2>2, <2>4, <2>7, <3>3 DEF Is
    <3> QED BY <3>1, <3>2, <3>3
  <2>8. ASSUME NEW x \in Pcbs, Is(x, "p1"), Past(x, P("sem_endp5"))'
        PROVE  Blocked(x, "sem_endp5")'
    <3>1. CASE Past(x, P("sem_endp5"))
      BY <1>a, <1>s, <2>1, <2>3, <2>5, <2>8, <3>1
    <3>2. CASE x = current /\ i = P("sem_endp5")
      BY <1>a, <1>s, <1>v, <2>1, <2>3, <3>2 DEF Blocked
    <3> QED BY <2>2, <2>8, <3>1, <3>2
  <2> QED BY <2>1, <2>6, <2>7, <2>8
<1>3. ASSUME NEW q, NEW p, Creates(q, p) PROVE Goal
  <2>1. /\ p \in Pcbs /\ pc'[p] = 1 /\ current # p /\ current \in Pcbs
        /\ \A x \in Pcbs : x # p => (x # current => pc'[x] = pc[x])
        /\ \A x \in Pcbs : \A j : x # p =>
             (Past(x, j)' <=> Past(x, j) \/ (x = current /\ j = Start(q)))
        /\ \A x, s : Blocked(x, s)' <=> Blocked(x, s)
        /\ f = e
    BY <1>0, <1>3, <1>v, CreatesProcesses
  <2>a. /\ \A x \in Pcbs : \A r : Is(x, r)' <=> IF x = p THEN r = q ELSE Is(x, r)
        /\ q # "p1"
    BY <1>0, <1>3, Starting
  <2>b. Start(q) # P("sem_endp5")
    BY Fields
  <2>2. /\ \A x \in Pcbs : \A r : Is(x, r)' <=> IF x = p THEN r = q ELSE Is(x, r)
        /\ q # "p1" /\ Start(q) # P("sem_endp5")
    BY <2>a, <2>b
  <2>3. ~Is(current, "p5") /\ Ante
    BY <1>0, <1>3, Creates4
  <2>5. ASSUME NEW z \in Pcbs, Is(z, "p5")' PROVE pc'[z] <= 24 \/ Blocked(z, Clock)'
    <3>1. CASE z = p
      BY <2>1, <3>1
    <3>2. CASE z # p
      BY <1>a, <2>1, <2>2, <2>3, <2>5, <3>2
    <3> QED BY <3>1, <3>2
  <2>6. ASSUME NEW x \in Pcbs, Is(x, "p1")', Past(x, P("sem_endp5"))'
        PROVE  Blocked(x, "sem_endp5")'
    BY <1>a, <2>1, <2>2, <2>3, <2>6
  <2> QED BY <1>a, <2>1, <2>3, <2>5, <2>6
<1>4. ASSUME NEW t, Kills(t) PROVE Goal
  <2>1. /\ \A x \in Pcbs : \A r : Is(x, r)' => Is(x, r)
        /\ Early4' => Early4
    BY <1>0, <1>4, Kills4
  <2>2. /\ \A z \in Live' : pc'[z] = pc[z]
        /\ \A z \in Live' : \A s \in Sems : Blocked(z, s)' <=> Blocked(z, s)
        /\ \A z \in Live' : \A j : Past(z, j)' <=> Past(z, j)
        /\ e <= 0 => f <= 0
    BY <1>0, <1>4, <1>s, <1>v, Survivors
  <2>3. \A x \in Pcbs : \A r : Is(x, r)' => x \in Live'
    BY DEF Is
  <2>4. Ante
    BY <2>1 DEF Alive4
  <2> QED BY <1>a, <1>s, <2>1, <2>2, <2>3, <2>4
<1> QED BY <1>0, <1>1, <1>2, <1>3, <1>4, StepView

\* Peace4 is inductive, given TInv.
LEMMA Peace4Kept ==
  ASSUME TInv, TInv', Peace4, [TestNext]_testVars
  PROVE  Peace4'
BY Syn4Kept, End4Kept, CalmKept DEF Peace4

\* Peace4 holds when the test begins.
LEMMA InitPeace4 == TestInit => Peace4
<1> SUFFICES ASSUME TestInit PROVE Peace4
  OBVIOUS
<1>0. Sound
  BY InitTInv DEF TInv
<1>1. \A x \in Live : runs[x] = "p1" /\ pc[x] = 1
  BY DEF TestInit, Live
<1>2. /\ sem["sem_synp4"] = 0 /\ sem["sem_blkp4"] = 1
      /\ sem["sem_endp4"] = 0 /\ sem["sem_endp5"] = 0
  BY SemNames, TestSoftSems DEF TestInit
<1>3. \A x \in Pcbs : Is(x, "p1") => \A j : ~Past(x, j)
  BY <1>1 DEF Is, Past
<1>4. \A x \in Pcbs : ~Is(x, "p4") /\ ~Is(x, "p4b") /\ ~Is(x, "p5")
  BY <1>1 DEF Is
<1> QED BY <1>1, <1>2, <1>3, <1>4 DEF Peace4, Syn4, End4, Calm

----------------------------------------------------------------------------
(* p8root and the leaves it waits for *)

\* Leaf n is past its V, and p8root past its P.
Leaves8 ==
  \A y \in Pcbs : Is(y, "p8root") => \A n \in Leaves :
    sem[EndCreate[n]] = Bit(\E z \in Pcbs : Is(z, Leaf[n]) /\ pc[z] >= 5)
                          - Bit(pc[y] >= 6 + n)

\* What is known of the leaves of p8 from their programs.
LEMMA LeafTable ==
  ASSUME NEW n \in Leaves
  PROVE  /\ EndCreate[n] \in P8Sems /\ EndCreate[n] \in UserSems /\ EndCreate[n] \in Sems
         /\ Leaf[n] \in LeafSet /\ Leaf[n] \in P8Family /\ n \in Nat /\ n >= 1 /\ n <= 4
         /\ \A q, S, k : Raises(q, S, k, EndCreate[n]) => q = Leaf[n] /\ k = 4
         /\ \A q, S, k : Lowers(q, S, k, EndCreate[n]) => q = "p8root" /\ k = 5 + n
         /\ P8root[5+n] = P(EndCreate[n])
         /\ Program(Leaf[n])[4] = V(EndCreate[n])
<1>1. n = 1 \/ n = 2 \/ n = 3 \/ n = 4
  BY DEF Leaves
<1>2. /\ Leaf[1] = "p8leaf1" /\ Leaf[2] = "p8leaf2" /\ Leaf[3] = "p8leaf3" /\ Leaf[4] = "p8leaf4"
      /\ EndCreate[1] = "endcreate0" /\ EndCreate[2] = "endcreate1"
      /\ EndCreate[3] = "endcreate2" /\ EndCreate[4] = "endcreate3"
  BY DEF Leaf, EndCreate
<1>3. /\ EndCreate[n] \in P8Sems /\ EndCreate[n] \in UserSems /\ EndCreate[n] \in Sems
      /\ Leaf[n] \in LeafSet /\ Leaf[n] \in P8Family /\ n \in Nat /\ n >= 1 /\ n <= 4
  BY <1>1, <1>2, P8Names, TestSoftSems, Family DEF LeafSet
<1>4. \A q, S, k : Raises(q, S, k, EndCreate[n]) => q = Leaf[n] /\ k = 4
  BY <1>1, <1>2 DEF Raises
<1>5. \A q, S, k : Lowers(q, S, k, EndCreate[n]) => q = "p8root" /\ k = 5 + n
  <2>1. CASE n = 1
    BY <1>2, <2>1 DEF Lowers
  <2>2. CASE n = 2
    BY <1>2, <2>2 DEF Lowers
  <2>3. CASE n = 3
    BY <1>2, <2>3 DEF Lowers
  <2>4. CASE n = 4
    BY <1>2, <2>4 DEF Lowers
  <2> QED BY <1>1, <2>1, <2>2, <2>3, <2>4
<1>6. P8root[5+n] = P(EndCreate[n])
  BY <1>1, <1>2, P8rootText
<1>7. Program(Leaf[n])[4] = V(EndCreate[n])
  BY <1>1, <1>2, LeafPrograms, P8leaf1Text, P8leaf2Text, P8leaf3Text, P8leaf4Text
<1> QED BY <1>3, <1>4, <1>5, <1>6, <1>7

\* The processes of p8 come from p1 by way of p8root and its children, and
\* with one of them p8root goes.
LEMMA Origin8 ==
  ASSUME Sound, Single
  PROVE  /\ \A y \in Live : runs[y] = "p8root" =>
              parent[y] \in Live /\ runs[parent[y]] = "p1"
         /\ \A y \in Live : runs[y] \in Children =>
              parent[y] \in Live /\ runs[parent[y]] = "p8root"
         /\ \A y \in Live : runs[y] \in LeafSet =>
              /\ parent[y] \in Live /\ runs[parent[y]] \in Children
              /\ runs[y] \in {"p8leaf2", "p8leaf4"} => pc[parent[y]] > 6
              /\ runs[y] \in {"p8leaf1", "p8leaf2"} => runs[parent[y]] = "child1"
              /\ runs[y] \in {"p8leaf3", "p8leaf4"} => runs[parent[y]] = "child2"
<1>0. ASSUME NEW y \in Live, runs[y] # "p1"
      PROVE  /\ parent[y] \in Live /\ pc[parent[y]] \in Nat
             /\ \E k \in 1..pc[parent[y]]-1 : Makes(runs[parent[y]], k, runs[y])
  BY <1>0, ParentRuns, HasDone DEF Starts
<1>1. ASSUME NEW y \in Live, runs[y] = "p8root"
      PROVE  parent[y] \in Live /\ runs[parent[y]] = "p1"
  BY <1>0, <1>1 DEF Makes
<1>2. ASSUME NEW y \in Live, runs[y] \in Children
      PROVE  parent[y] \in Live /\ runs[parent[y]] = "p8root"
  BY <1>0, <1>2 DEF Makes, ByP1, Children
<1>3. ASSUME NEW y \in Live, runs[y] \in LeafSet
      PROVE  /\ parent[y] \in Live /\ runs[parent[y]] \in Children
             /\ runs[y] \in {"p8leaf2", "p8leaf4"} => pc[parent[y]] > 6
             /\ runs[y] \in {"p8leaf1", "p8leaf2"} => runs[parent[y]] = "child1"
             /\ runs[y] \in {"p8leaf3", "p8leaf4"} => runs[parent[y]] = "child2"
  <2>1. /\ parent[y] \in Live /\ pc[parent[y]] \in Nat
        /\ \E k \in 1..pc[parent[y]]-1 : Makes(runs[parent[y]], k, runs[y])
    BY <1>0, <1>3 DEF LeafSet
  <2>2. PICK k \in 1..pc[parent[y]]-1 : Makes(runs[parent[y]], k, runs[y])
    BY <2>1
  <2>3. /\ runs[parent[y]] \in Children
        /\ runs[y] \in {"p8leaf2", "p8leaf4"} => k = 6
        /\ runs[y] \in {"p8leaf1", "p8leaf2"} => runs[parent[y]] = "child1"
        /\ runs[y] \in {"p8leaf3", "p8leaf4"} => runs[parent[y]] = "child2"
    BY <1>3, <2>2 DEF Makes, ByP1, Children, LeafSet
  <2> QED BY <2>1, <2>2, <2>3
<1> QED BY <1>1, <1>2, <1>3

\* Who survives with p8root.
LEMMA Kills8 ==
  ASSUME Sound, Single, NEW t, Kills(t), NEW y \in Live', runs'[y] = "p8root",
         NEW z \in Live, runs[z] \in P8Family
  PROVE  z \in Live'
<1>1. /\ \A x \in Live' : x \in Live /\ runs'[x] = runs[x]
      /\ \A x \in Live \ Live' : x = t \/ (parent[x] \in Live /\ parent[x] \notin Live')
      /\ runs[t] \in Leaving \cup {"p1", "p6", "p7", "p9"} /\ t \in Live
  <2> PICK K : K = Subtree(t)
    OBVIOUS
  <2> QED BY Killed, KillsProcesses
<1>2. \A x \in Live : runs[x] = "p8root" => x \in Live'
  BY <1>1 DEF Single
<1>3. \A x \in Live : runs[x] \in Children => x \in Live'
  BY <1>1, <1>2, Origin8 DEF Children, Leaving
<1>4. \A x \in Live : runs[x] \in LeafSet => x \in Live'
  BY <1>1, <1>3, Origin8 DEF LeafSet, Leaving
<1> QED BY <1>2, <1>3, <1>4, Family

\* Leaves8 is kept.
LEMMA Leaves8Kept ==
  ASSUME TInv, TInv', Leaves8, [TestNext]_testVars
  PROVE  Leaves8'
<1>0. Sound /\ Single /\ Waits /\ Single' /\ Sound' /\ Reset8 /\ TInv
  BY DEF TInv
<1> SUFFICES ASSUME NEW y \in Pcbs, Is(y, "p8root")', NEW n \in Leaves
             PROVE  sem'[EndCreate[n]] = Bit(\E z \in Pcbs : Is(z, Leaf[n])' /\ pc'[z] >= 5)
                                           - Bit(pc'[y] >= 6 + n)
  BY DEF Leaves8
<1>n. PICK s, l, a, b : s = EndCreate[n] /\ l = Leaf[n] /\ a = sem[s] /\ b = sem'[s]
  OBVIOUS
<1> DEFINE Out == \E z \in Pcbs : Is(z, l) /\ pc[z] >= 5
           Out2 == \E z \in Pcbs : Is(z, l)' /\ pc'[z] >= 5
           Goal == b = Bit(Out2) - Bit(pc'[y] >= 6 + n)
<1>s. /\ s \in P8Sems /\ s \in UserSems /\ s \in Sems
      /\ l \in LeafSet /\ l \in P8Family /\ n \in Nat /\ n >= 1 /\ n <= 4
      /\ \A q, S, k : Raises(q, S, k, s) => q = l /\ k = 4
      /\ \A q, S, k : Lowers(q, S, k, s) => q = "p8root" /\ k = 5 + n
      /\ P8root[5+n] = P(s) /\ Program(l)[4] = V(s)
  BY <1>n, LeafTable
<1>l. l # "p8root" /\ l # "p1"
  BY <1>s DEF LeafSet
<1> SUFFICES Goal
  BY <1>n
<1>a. Is(y, "p8root") => a = Bit(Out) - Bit(pc[y] >= 6 + n)
  BY <1>n DEF Leaves8
<1>1. ASSUME Quiet PROVE Goal
  <2>1. /\ b = a /\ pc' = pc
        /\ \A x : \A r : Is(x, r)' <=> Is(x, r)
    BY <1>0, <1>1, <1>s, <1>n, QuietProcesses DEF Is
  <2> QED BY <1>a, <2>1
<1>2. ASSUME NEW i, Does(i) PROVE Goal
  <2>1. /\ \A x \in Pcbs : \A r : Is(x, r)' <=> Is(x, r)
        /\ \A x, z \in Pcbs : \A r : Is(x, r) /\ Is(z, r) => x = z
    BY <1>0, <1>2, Is1
  <2>2. /\ current \in Live /\ current \in Pcbs /\ pc'[current] = pc[current] + 1
        /\ \A x \in Pcbs : x # current => pc'[x] = pc[x]
        /\ pc[current] \in Nat /\ At(i)
    BY <1>0, <1>2, DoesProcesses, HasDone DEF Does
  <2>3. i # Reset
    <3>1. y \in Live /\ runs[y] = "p8root"
      BY <2>1 DEF Is
    <3> QED BY <1>0, <2>2, <3>1, ResetAlone, Family
  <2>4. /\ i = V(s) => runs[current] = l /\ pc[current] = 4
        /\ i = P(s) => runs[current] = "p8root" /\ pc[current] = 5 + n
    BY <1>0, <1>s, <2>2, Doing
  <2>5. /\ runs[current] = l /\ pc[current] = 4 => i = V(s)
        /\ runs[current] = "p8root" /\ pc[current] = 5 + n => i = P(s)
    BY <1>0, <1>s, <2>2, AtLive, Programs DEF Text
  <2>6. /\ i = V(s) => b = a + 1
        /\ i = P(s) => b = a - 1
        /\ i # V(s) /\ i # P(s) => b = a
        /\ a \in Int /\ Is(y, "p8root") /\ pc[y] \in Nat
    BY <1>0, <1>2, <1>s, <1>n, <2>1, <2>3, DoesValues, HasDone DEF Is
  <2>7. CASE runs[current] = l
    <3>1. y # current /\ pc'[y] = pc[y]
      BY <1>l, <2>2, <2>6, <2>7 DEF Is
    <3>2. /\ Out <=> pc[current] >= 5
          /\ Out2 <=> pc'[current] >= 5
      BY <2>1, <2>2, <2>7 DEF Is
    <3>3. b = IF pc[current] = 4 THEN a + 1 ELSE a
      BY <1>l, <2>4, <2>5, <2>6, <2>7, Fields
    <3> HIDE DEF Out, Out2
    <3> QED BY <1>a, <1>s, <2>2, <2>6, <3>1, <3>2, <3>3 DEF Bit
  <2>8. CASE runs[current] = "p8root"
    <3>1. y = current
      BY <2>1, <2>2, <2>6, <2>8 DEF Is
    <3>2. Out <=> Out2
      BY <1>l, <2>1, <2>2, <2>8 DEF Is
    <3>3. b = IF pc[y] = 5 + n THEN a - 1 ELSE a
      BY <1>l, <2>4, <2>5, <2>6, <2>8, <3>1, Fields
    <3> HIDE DEF Out, Out2
    <3>4. Bit(pc'[y] >= 6 + n) = IF pc[y] = 5 + n THEN Bit(pc[y] >= 6 + n) + 1 ELSE Bit(pc[y] >= 6 + n)
      BY <1>s, <2>2, <2>6, <3>1 DEF Bit
    <3> QED BY <1>a, <1>s, <2>2, <2>6, <3>1, <3>2, <3>3, <3>4 DEF Bit
  <2>9. CASE runs[current] \notin {l, "p8root"}
    <3>1. y # current /\ pc'[y] = pc[y]
      BY <2>2, <2>6, <2>9 DEF Is
    <3>2. Out <=> Out2
      BY <2>1, <2>2, <2>9 DEF Is
    <3>3. b = a
      BY <2>4, <2>6, <2>9
    <3> HIDE DEF Out, Out2
    <3> QED BY <1>a, <2>6, <3>1, <3>2, <3>3
  <2> QED BY <2>7, <2>8, <2>9
<1>3. ASSUME NEW q, NEW p, Creates(q, p) PROVE Goal
  <2>1. /\ p \in Pcbs /\ pc'[p] = 1 /\ current # p /\ current \in Pcbs /\ current \in Live
        /\ \A x \in Pcbs : x # p => (x # current => pc'[x] = pc[x])
        /\ pc'[current] = pc[current] + 1 /\ pc[current] \in Nat
        /\ b = a /\ p \notin Live
        /\ Starts(runs[current], Text(current), pc[current], q)
    BY <1>0, <1>3, <1>n, CreatesProcesses, HasDone
  <2>2. /\ \A x \in Pcbs : \A r : Is(x, r)' <=> IF x = p THEN r = q ELSE Is(x, r)
        /\ Makes(runs[current], pc[current], q)
    BY <1>0, <1>3, Starting
  <2>3. runs[current] # l
    BY <1>s, <2>2 DEF Makes, LeafSet
  <2>4. Out2 <=> Out
    <3>1. \A z \in Pcbs : Is(z, l) => z # p /\ z # current
      BY <2>1, <2>3 DEF Is
    <3>2. \A z \in Pcbs : Is(z, l) => Is(z, l)' /\ pc'[z] = pc[z]
      BY <2>1, <2>2, <3>1
    <3>3. \A z \in Pcbs : Is(z, l)' /\ pc'[z] >= 5 => Is(z, l) /\ pc[z] >= 5
      BY <2>1, <2>2, <3>2
    <3> QED BY <3>2, <3>3
  <2>5. CASE y = p
    <3>1. q = "p8root"
      BY <2>2, <2>5
    <3>2. Did(current, Reset) /\ runs[current] = "p1"
      BY <2>1, <2>2, <3>1 DEF Starts, Did, Makes, Children, LeafSet, ByP1
    <3>3. sem[s] = 0 /\ ~Out
      BY <1>0, <1>s, <2>1, <3>2 DEF Reset8, Is
    <3>4. b = 0 /\ ~Out2 /\ ~(pc'[y] >= 6 + n)
      BY <1>n, <1>s, <2>1, <2>4, <2>5, <3>3
    <3> HIDE DEF Out, Out2
    <3> QED BY <3>4 DEF Bit
  <2>6. CASE y # p
    <3>1. Is(y, "p8root") /\ pc[y] \in Nat
      BY <1>0, <2>2, <2>6, HasDone DEF Is
    <3>2. y = current => pc[y] \in {4, 5}
      BY <2>2, <3>1 DEF Is, Makes, ByP1
    <3>3. pc[y] >= 6 + n <=> pc'[y] >= 6 + n
      BY <1>s, <2>1, <2>6, <3>1, <3>2
    <3> HIDE DEF Out, Out2
    <3> QED BY <1>a, <2>1, <2>4, <3>1, <3>3 DEF Bit
  <2> QED BY <2>5, <2>6
<1>4. ASSUME NEW t, Kills(t) PROVE Goal
  <2>1. /\ \A z \in Live' : z \in Live /\ z \in Pcbs /\ runs'[z] = runs[z] /\ pc'[z] = pc[z]
        /\ (\A z \in Live : Did(z, P(s)) => z \in Live') => b = a
    BY <1>0, <1>4, <1>s, <1>n, Survivors
  <2>2. \A z \in Live : runs[z] \in P8Family => z \in Live'
    BY <1>0, <1>4, Kills8 DEF Is
  <2>3. \A z \in Live : Did(z, P(s)) => runs[z] = "p8root"
    BY <1>0, <1>s, LastDone
  <2>4. b = a
    BY <2>1, <2>2, <2>3, Family
  <2>5. Out2 <=> Out
    BY <1>s, <2>1, <2>2 DEF Is
  <2>6. Is(y, "p8root") /\ pc'[y] = pc[y]
    BY <2>1 DEF Is
  <2> HIDE DEF Out, Out2
  <2> QED BY <1>a, <2>4, <2>5, <2>6
<1> QED BY <1>0, <1>1, <1>2, <1>3, <1>4, StepView

\* Leaves8 holds when the test begins.
LEMMA InitLeaves8 == TestInit => Leaves8
BY DEF TestInit, Leaves8, Is, Live

----------------------------------------------------------------------------
(* Nobody is terminated while the terminal works for it *)

\* The processes that are terminated with t.
LEMMA KillScope ==
  ASSUME Sound, Single, NEW t, Kills(t), NEW x, x \in Live, x \notin Live', Live' # {}
  PROVE  \/ x = t
         \/ runs[x] = "p4b" /\ runs[t] = "p4"
         \/ runs[x] = "p10" /\ runs[t] = "p9"
         \/ runs[x] \in Children \cup LeafSet /\ runs[t] = "p8root"
<1>1. /\ t \in Live /\ runs[t] \in Leaving \cup {"p1", "p6", "p7", "p9"}
      /\ \A z \in Live \ Live' : z = t \/ (parent[z] \in Live /\ parent[z] \notin Live')
  BY Killed
<1>2. /\ t \notin Live' /\ \A z \in Live : parent[z] \notin Live' /\ parent[z] \in Live => z \notin Live'
      /\ Live' \subseteq Live
  <2> PICK K : K = Subtree(t)
    OBVIOUS
  <2> QED BY KillsProcesses
<1>3. /\ \A z \in Live : runs[z] \in Processes
      /\ \A z \in Live : runs[z] # "p1" =>
           parent[z] \in Live /\ \E k : Makes(runs[parent[z]], k, runs[z])
  BY HasDone, ParentRuns DEF Starts
<1>4. \A z \in Live : runs[z] = "p1" => parent[z] \notin Live
  <2> SUFFICES ASSUME NEW z \in Live, runs[z] = "p1", parent[z] \in Live PROVE FALSE
    OBVIOUS
  <2>1. Past(parent[z], Start("p1"))
    BY PcbsAssumption DEF Sound, Kin, Live
  <2>2. PICK k \in 1..pc[parent[z]]-1 : Text(parent[z])[k] = Start("p1")
    BY <2>1 DEF Past
  <2>3. Makes(runs[parent[z]], k, "p1")
    BY <2>2, HasDone DEF Lawful, RightStarts, Starts
  <2> QED BY <2>3 DEF Makes, ByP1
<1>5. ASSUME NEW z \in Live
      PROVE  \/ runs[z] = "p1"
             \/ runs[z] \in ByP1 /\ parent[z] \in Live /\ runs[parent[z]] = "p1"
             \/ runs[z] = "p4b" /\ parent[z] \in Live /\ runs[parent[z]] = "p4"
             \/ runs[z] = "p10" /\ parent[z] \in Live /\ runs[parent[z]] = "p9"
             \/ runs[z] \in Children /\ parent[z] \in Live /\ runs[parent[z]] = "p8root"
             \/ runs[z] \in LeafSet /\ parent[z] \in Live /\ runs[parent[z]] \in Children
  <2>1. CASE runs[z] # "p1"
    <3>1. parent[z] \in Live /\ \E k : Makes(runs[parent[z]], k, runs[z])
      BY <1>3, <2>1
    <3> QED BY <3>1 DEF Makes, Children, LeafSet
  <2> QED BY <2>1
<1>6. runs[t] # "p1"
  <2> SUFFICES ASSUME runs[t] = "p1" PROVE FALSE
    OBVIOUS
  <2>1. \A z \in Live : runs[z] \in ByP1 \cup {"p1"} => z \notin Live'
    BY <1>1, <1>2, <1>5 DEF Single, ByP1, Children, LeafSet
  <2>2. \A z \in Live : runs[z] \in {"p4b", "p10"} \cup Children => z \notin Live'
    BY <1>2, <1>5, <2>1 DEF ByP1, Children, LeafSet
  <2>3. \A z \in Live : runs[z] \in LeafSet => z \notin Live'
    BY <1>2, <1>5, <2>2 DEF ByP1, Children, LeafSet
  <2>4. \A z \in Live : z \notin Live'
    BY <1>5, <2>1, <2>2, <2>3
  <2> QED BY <1>2, <2>4
<1>7. \A z \in Live \ Live' : z # t => runs[z] \notin ByP1 \cup {"p1"}
  <2>1. \A z \in Live \ Live' : z # t => runs[z] # "p1"
    BY <1>1, <1>4
  <2>2. \A z \in Live \ Live' : z # t /\ runs[z] \in ByP1 => runs[parent[z]] = "p1"
    BY <1>5 DEF ByP1, Children, LeafSet
  <2> QED BY <1>1, <1>6, <2>1, <2>2
<1>8. CASE runs[x] \in {"p4b", "p10"} \cup Children
  BY <1>1, <1>5, <1>7, <1>8 DEF ByP1, Children, LeafSet, Leaving
<1>9. CASE runs[x] \in LeafSet
  <2>1. x # t /\ runs[parent[x]] \in Children /\ parent[x] \in Live /\ parent[x] \notin Live'
    BY <1>1, <1>5, <1>9 DEF ByP1, Children, LeafSet, Leaving
  <2>2. parent[x] # t /\ runs[parent[parent[x]]] = "p8root"
    BY <1>1, <1>5, <2>1 DEF ByP1, Children, LeafSet, Leaving
  <2>3. parent[parent[x]] \in Live \ Live'
    BY <1>1, <2>1, <2>2
  <2>4. parent[parent[x]] = t
    BY <1>7, <2>2, <2>3 DEF ByP1
  <2> QED BY <1>9, <2>2, <2>4
<1> QED BY <1>5, <1>7, <1>8, <1>9

\* When p4 exits p4b has printed, and when p8root exits its family has.
LEMMA ExitsLast ==
  ASSUME Sound, Single, Waits, Peace4, Leaves8, At(Exit)
  PROVE  /\ runs[current] = "p4" => \A y \in Pcbs : Is(y, "p4b") => pc[y] > 3
         /\ runs[current] = "p8root" =>
              \A y \in Live : runs[y] \in Children \cup LeafSet => pc[y] > 3
<1>1. /\ current \in Live /\ current \in Pcbs /\ pc[current] = Len(Text(current))
      /\ \A s \in Sems : current \notin Range(semq[s])
  BY AtLive, Doing, NotWaiting
<1>2. ASSUME runs[current] = "p4", NEW y \in Pcbs, Is(y, "p4b")
      PROVE  pc[y] > 3
  <2>1. pc[current] = 15
    BY <1>1, <1>2, Programs, P4Text DEF Text
  <2>2. /\ sem["sem_synp4"] = Bit(pc[y] >= 6) - 1 /\ pc[y] <= 7 /\ pc[y] \in Nat
    <3>1. Is(current, "p4") /\ Bit(pc[current] >= 11) = 1 /\ pc[y] \in Nat
      BY <1>1, <1>2, <2>1, HasDone DEF Is, Bit
    <3> QED BY <1>1, <1>2, <3>1 DEF Peace4, Syn4
  <2>3. "sem_synp4" \in UserSems /\ "sem_synp4" \in Sems
    BY SemNames, TestSoftSems
  <2>4. \A z \in Live : Did(z, P("sem_synp4")) => z = current
    <3> SUFFICES ASSUME NEW z \in Live, Did(z, P("sem_synp4")) PROVE z = current
      OBVIOUS
    <3>1. Lowers(runs[z], Text(z), pc[z]-1, "sem_synp4")
      BY LastDone
    <3>2. runs[z] = "p4" \/ (runs[z] = "p4b" /\ pc[z]-1 = 7)
      BY <3>1 DEF Lowers, Children, LeafSet
    <3>3. runs[z] = "p4b" => pc[z] <= 7
      BY <1>2, <2>2 DEF Single, Is
    <3> QED BY <1>1, <1>2, <3>2, <3>3 DEF Single
  <2>5. \A z : ~Blocked(z, "sem_synp4")
    BY <1>1, <2>3, <2>4, NotWaiting DEF Waits, Blocked
  <2>6. ~(sem["sem_synp4"] < 0)
    <3> SUFFICES ASSUME sem["sem_synp4"] < 0 PROVE FALSE
      OBVIOUS
    <3>1. semq["sem_synp4"] # <<>> /\ semq["sem_synp4"] \in Seq(Pcbs)
      BY <2>3, NobodyWaitsFor, Unpacked DEF Sound
    <3>2. Head(semq["sem_synp4"]) \in Range(semq["sem_synp4"])
      BY <3>1, TailResult
    <3> QED BY <2>5, <3>2 DEF Blocked
  <2> QED BY <2>2, <2>6 DEF Bit
<1>3. ASSUME runs[current] = "p8root", NEW n \in Leaves
      PROVE  \E z \in Live : runs[z] = Leaf[n] /\ pc[z] >= 5
  <2> SUFFICES ASSUME ~(\E z \in Pcbs : Is(z, Leaf[n]) /\ pc[z] >= 5) PROVE FALSE
    BY DEF Is
  <2>0. PICK s : s = EndCreate[n]
    OBVIOUS
  <2>1. /\ s \in UserSems /\ s \in Sems /\ n <= 4 /\ n \in Nat
        /\ \A q, S, k : Lowers(q, S, k, s) => q = "p8root"
    BY <2>0, LeafTable
  <2>2. pc[current] = 11
    BY <1>1, <1>3, Programs, P8rootText DEF Text
  <2>3. sem[s] = 0 - 1
    <3>1. Is(current, "p8root") /\ pc[current] >= 6 + n
      BY <1>1, <1>3, <2>1, <2>2 DEF Is
    <3>2. sem[s] = Bit(\E z \in Pcbs : Is(z, Leaf[n]) /\ pc[z] >= 5) - Bit(pc[current] >= 6 + n)
      BY <1>1, <2>0, <3>1 DEF Leaves8
    <3> HIDE <2>0
    <3> QED BY <3>1, <3>2 DEF Bit
  <2>4. \A z : ~Blocked(z, s)
    <3>1. \A z \in Live : Did(z, P(s)) => z = current
      BY <1>1, <1>3, <2>1, LastDone DEF Single
    <3> QED BY <1>1, <2>1, <3>1, NotWaiting DEF Waits, Blocked
  <2>5. semq[s] # <<>> /\ semq[s] \in Seq(Pcbs)
    BY <2>1, <2>3, NobodyWaitsFor, Unpacked DEF Sound
  <2>6. Head(semq[s]) \in Range(semq[s])
    BY <2>5, TailResult
  <2> QED BY <2>4, <2>6 DEF Blocked
<1>4. ASSUME runs[current] = "p8root", NEW y \in Live, runs[y] \in Children \cup LeafSet
      PROVE  pc[y] > 3
  <2>1. /\ \E z \in Live : runs[z] = "p8leaf1" /\ pc[z] >= 5
        /\ \E z \in Live : runs[z] = "p8leaf2" /\ pc[z] >= 5
        /\ \E z \in Live : runs[z] = "p8leaf3" /\ pc[z] >= 5
        /\ \E z \in Live : runs[z] = "p8leaf4" /\ pc[z] >= 5
    <3>1. 1 \in Leaves /\ 2 \in Leaves /\ 3 \in Leaves /\ 4 \in Leaves
      BY DEF Leaves
    <3>2. Leaf[1] = "p8leaf1" /\ Leaf[2] = "p8leaf2" /\ Leaf[3] = "p8leaf3" /\ Leaf[4] = "p8leaf4"
      BY DEF Leaf
    <3> QED BY <1>3, <1>4, <3>1, <3>2
  <2>2. \A z \in Live : pc[z] \in Nat
    BY HasDone
  <2>3. CASE runs[y] \in LeafSet
    BY <2>1, <2>2, <2>3 DEF LeafSet, Single
  <2>4. CASE runs[y] \in Children
    <3>1. \A z \in Live : runs[z] \in {"p8leaf2", "p8leaf4"} =>
            /\ parent[z] \in Live /\ pc[parent[z]] > 6
            /\ runs[z] = "p8leaf2" => runs[parent[z]] = "child1"
            /\ runs[z] = "p8leaf4" => runs[parent[z]] = "child2"
      BY Origin8 DEF LeafSet
    <3> QED BY <2>1, <2>2, <2>4, <3>1 DEF Children, Single
  <2> QED BY <1>4, <2>3, <2>4
<1> QED BY <1>2, <1>4 DEF Is

\* A process that prints one message waits for the terminal at its third
\* instruction.
LEMMA ShortPrints ==
  ASSUME Sound, Waits, NEW x \in Live, Blocked(x, Term0), runs[x] \in Short
  PROVE  pc[x] = 3
<1>1. Did(x, WriteChar)
  BY DEF Waits, Blocked
<1>2. /\ pc[x] \in Nat /\ Lawful(runs[x], Text(x)) /\ pc[x]-1 \in 1..Len(Text(x))
      /\ Text(x)[pc[x]-1] = WriteChar
  BY <1>1, HasDone
<1>3. pc[x]-1 = 2
  BY <1>2 DEF Lawful, RightWaits
<1> QED BY <1>2, <1>3

\* Nobody is terminated while it prints, but at p1's end.
LEMMA KillsNoPrinter ==
  ASSUME TInv, Peace4, Leaves8, NEW t, Kills(t), Live' # {}
  PROVE  \A x \in Live \ Live' : ~Blocked(x, Term0)
<1>0. Sound /\ Single /\ Waits
  BY DEF TInv
<1> SUFFICES ASSUME NEW x \in Live, x \notin Live', Blocked(x, Term0) PROVE FALSE
  OBVIOUS
<1>1. x # current
  BY <1>0, NotWaiting, TestSoftSems DEF Blocked
<1>2. /\ runs[x] \in Short => pc[x] = 3
      /\ x \in Pcbs /\ t \in Live
      /\ t = current \/ (runs[t] = "p9" /\ t = parent[current] /\ runs[current] = "p10")
      /\ runs[t] \in Leaving \cup {"p1", "p6", "p7", "p9"}
  BY <1>0, ShortPrints, Killed DEF Live
<1>3. \/ At(Exit)
      \/ At(Trap) /\ runs[current] \in {"p5", "p1", "p6", "p7"}
      \/ At(KillParent) /\ runs[current] = "p10"
  <2>1. At(Exit) \/ At(Trap) \/ At(KillParent)
    BY DEF Kills, Asks
  <2> QED BY <1>0, <2>1, Doing
<1>4. current \in Live /\ (At(Exit) => runs[current] \in Leaving)
  BY <1>0, <1>3, AtLive, Doing
<1>5. CASE x = t
  <2>1. runs[x] = "p9" /\ x = parent[current] /\ runs[current] = "p10"
    BY <1>1, <1>2, <1>5
  <2>2. \E k \in 1..pc[x]-1 : Makes("p9", k, "p10")
    BY <1>0, <1>4, <2>1, ParentRuns DEF Starts
  <2>3. pc[x] > 4 /\ pc[x] = 3
    BY <1>0, <1>2, <2>1, <2>2, HasDone DEF Makes, Short
  <2> QED BY <2>3
<1>6. CASE runs[x] = "p4b" /\ runs[t] = "p4"
  BY <1>0, <1>2, <1>3, <1>6, ExitsLast DEF Is, Short
<1>7. CASE runs[x] = "p10" /\ runs[t] = "p9"
  <2>1. runs[current] = "p9" => FALSE
    BY <1>3, <1>4 DEF Leaving
  <2> QED BY <1>0, <1>1, <1>2, <1>4, <1>7, <2>1 DEF Single
<1>8. CASE runs[x] \in Children \cup LeafSet /\ runs[t] = "p8root"
  BY <1>0, <1>2, <1>3, <1>8, ExitsLast DEF Short
<1> QED BY <1>0, <1>5, <1>6, <1>7, <1>8, KillScope

\* LeavesTerminalAlone of one step: whoever writes has the mutex, so nobody
\* else does, and whoever waits for the terminal is not terminated.
LEMMA TerminalLeftAlone ==
  ASSUME TInv, PrintsAlone, Peace4, Leaves8, [TestNext]_testVars, Live' # {},
         NEW d \in busy \cap busy'
  PROVE  semq'[d] = semq[d]
<1>0. Sound /\ Single /\ Waits
  BY DEF TInv
<1>1. d = Term0 /\ Term0 \in busy /\ Term0 \in busy'
  BY <1>0, Unpacked, TestSoftSems DEF Sound
<1>2. ASSUME Quiet PROVE semq'[Term0] = semq[Term0]
  BY <1>0, <1>1, <1>2, QuietProcesses
<1>3. ASSUME NEW i, Does(i) PROVE semq'[Term0] = semq[Term0]
  <2>1. i # WriteChar
    <3> SUFFICES ASSUME i = WriteChar PROVE FALSE
      OBVIOUS
    <3>1. Printing(current)
      BY <1>0, <1>3, PrintsUnderMutex DEF Does
    <3> QED BY <1>0, <1>1, <3>1, NotWaiting, TestSoftSems DEF PrintsAlone, Blocked
  <2> QED BY <1>3, <2>1 DEF Does, OnSoftSems
<1>4. ASSUME NEW q, NEW p, Creates(q, p) PROVE semq'[Term0] = semq[Term0]
  BY <1>4 DEF Creates
<1>5. ASSUME NEW t, Kills(t) PROVE semq'[Term0] = semq[Term0]
  <2>0. PICK K : K = Subtree(t)
    OBVIOUS
  <2>1. \A x \in Live \ Live' : ~Blocked(x, Term0)
    BY <1>5, KillsNoPrinter
  <2>2. /\ Live' = Live \ K /\ K \subseteq Live
        /\ (\A x \in K : ~Blocked(x, Term0)) => Untouched(Term0)
    BY <1>0, <1>5, <2>0, KillsProcesses, TestSoftSems
  <2> QED BY <2>1, <2>2 DEF Untouched
<1> QED BY <1>0, <1>1, <1>2, <1>3, <1>4, <1>5, StepView

----------------------------------------------------------------------------

\* What a step does to the pids that have been stored.
LEMMA DoesStored ==
  ASSUME Sound, NEW i, Does(i)
  PROVE  /\ stored \subseteq stored'
         /\ \A r \in Recorded \cup {"p1p2synch"} : i = Store(r) => r \in stored'
<1>1. /\ \A x : i = Store(x) /\ x # "P8Sems" => stored' = stored \cup {x}
      /\ (\A x : i = Store(x) => x = "P8Sems") => stored' = stored
  BY DEF Does, OnValues
<1>2. \A x, y : Store(x) = Store(y) => x = y
  BY Fields
<1>3. \A r \in Recorded \cup {"p1p2synch"} : r # "P8Sems"
  BY DEF Recorded
<1> QED BY <1>1, <1>2, <1>3

\* Created is kept: after CREATEPROCESS comes the store.
LEMMA CreatedKept ==
  ASSUME TInv, TInv', Created, [TestNext]_testVars
  PROVE  Created'
<1>0. Sound /\ Single /\ Waits /\ Single'
  BY DEF TInv
<1> SUFFICES ASSUME NEW y \in Live', runs'[y] \in Recorded, runs'[y] \notin stored',
                    NEW c, c = parent'[y], NEW r, r = runs'[y]
             PROVE  Did(c, Start(r))'
  BY DEF Created
<1> DEFINE Goal == Did(c, Start(r))'
<1>1. ASSUME y \in Live, runs[y] \in Recorded
      PROVE  parent[y] \in Live /\ parent[y] \in Pcbs
  <2>1. runs[y] # "p1"
    BY <1>1 DEF Recorded
  <2> QED BY <1>0, <1>1, <2>1, ParentRuns
<1>2. ASSUME Quiet PROVE Goal
  BY <1>0, <1>2, QuietProcesses DEF Created, Quiet
<1>3. ASSUME NEW i, Does(i) PROVE Goal
  <2>1. /\ y \in Live /\ runs' = runs /\ parent' = parent /\ At(i)
        /\ \A x \in Pcbs : \A j : Did(x, j)' <=> IF x = current THEN j = i ELSE Did(x, j)
    BY <1>0, <1>3, DoesProcesses DEF Does
  <2>2. Did(parent[y], Start(runs[y]))
    BY <1>0, <1>3, <2>1, DoesStored DEF Created
  <2>3. parent[y] # current
    <3> SUFFICES ASSUME parent[y] = current PROVE FALSE
      OBVIOUS
    <3>1. i = Store(runs[y])
      BY <1>0, <2>1, <2>2, Follows
    <3> QED BY <1>0, <1>3, <2>1, <3>1, DoesStored
  <2> QED BY <1>1, <2>1, <2>2, <2>3
<1>4. ASSUME NEW q, NEW p, Creates(q, p) PROVE Goal
  <2>1. /\ p \in Pcbs /\ p \notin Live /\ Live' = Live \cup {p} /\ runs'[p] = q
        /\ parent'[p] = current /\ current \in Pcbs /\ current # p
        /\ \A x \in Pcbs : x # p => runs'[x] = runs[x] /\ parent'[x] = parent[x]
        /\ \A x \in Pcbs : \A j : x # p =>
             (Did(x, j)' <=> IF x = current THEN j = Start(q) ELSE Did(x, j))
    BY <1>0, <1>4, CreatesProcesses
  <2>2. At(Start(q)) /\ stored' = stored \ {q}
    BY <1>0, <1>4, Starting
  <2>3. CASE y = p
    BY <2>1, <2>3
  <2>4. CASE y # p
    <3>1. y \in Live /\ y \in Pcbs /\ runs'[y] = runs[y] /\ parent'[y] = parent[y]
      BY <2>1, <2>4 DEF Live
    <3>2. runs[y] # q
      BY <1>0, <2>1, <2>4, <3>1 DEF Single
    <3>3. Did(parent[y], Start(runs[y]))
      BY <2>2, <3>1, <3>2 DEF Created
    <3>4. parent[y] # current
      <4> SUFFICES ASSUME parent[y] = current PROVE FALSE
        OBVIOUS
      <4>1. Start(q) = Store(runs[y])
        BY <1>0, <2>2, <3>1, <3>3, Follows
      <4> QED BY <4>1, Fields
    <3> QED BY <1>1, <2>1, <3>1, <3>3, <3>4
  <2> QED BY <2>3, <2>4
<1>5. ASSUME NEW t, Kills(t) PROVE Goal
  <2>1. /\ y \in Live /\ y \in Pcbs /\ runs'[y] = runs[y] /\ parent'[y] = parent[y]
        /\ parent[y] = NULL \/ parent[y] \in Live'
        /\ \A z \in Live' : \A j : Did(z, j)' <=> Did(z, j)
        /\ stored' = stored
    BY <1>0, <1>5, Survivors
  <2>2. parent[y] \in Live'
    BY <1>1, <2>1, PcbsAssumption
  <2> QED BY <2>1, <2>2 DEF Created
<1> QED BY <1>0, <1>2, <1>3, <1>4, <1>5, StepView

\* StartP2 is kept: p1 raises sem_startp2 after the store.
LEMMA StartP2Kept ==
  ASSUME TInv, TInv', StartP2, [TestNext]_testVars
  PROVE  StartP2'
<1>0. Sound /\ Single /\ Waits /\ Single'
  BY DEF TInv
<1>s. "sem_startp2" \in UserSems /\ "sem_startp2" \in Sems /\ "sem_startp2" \notin P8Sems
  BY SemNames, TestSoftSems
<1> SUFFICES ASSUME NEW x \in Pcbs, Is(x, "p1")', ~Past(x, Store("p2"))'
             PROVE  /\ sem'["sem_startp2"] <= 0
                    /\ \A y \in Pcbs : Is(y, "p2")' => pc'[y] = 1 \/ Blocked(y, "sem_startp2")'
  BY DEF StartP2
<1>v. PICK e, f : e = sem["sem_startp2"] /\ f = sem'["sem_startp2"]
  OBVIOUS
<1> DEFINE Goal == /\ f <= 0
                   /\ \A y \in Pcbs : Is(y, "p2")' => pc'[y] = 1 \/ Blocked(y, "sem_startp2")'
<1> SUFFICES Goal
  BY <1>v
<1>a. Is(x, "p1") /\ ~Past(x, Store("p2")) =>
        /\ e <= 0
        /\ \A y \in Pcbs : Is(y, "p2") => pc[y] = 1 \/ Blocked(y, "sem_startp2")
  BY <1>v DEF StartP2
<1>1. ASSUME Quiet PROVE Goal
  <2>1. /\ f = e /\ pc' = pc
        /\ \A z : Blocked(z, "sem_startp2")' <=> Blocked(z, "sem_startp2")
        /\ \A z : \A r : Is(z, r)' <=> Is(z, r)
        /\ \A z : \A j : Past(z, j)' <=> Past(z, j)
    BY <1>0, <1>1, <1>s, <1>v, QuietProcesses DEF Is
  <2> QED BY <1>a, <2>1
<1>2. ASSUME NEW i, Does(i) PROVE Goal
  <2>1. /\ \A z \in Pcbs : \A r : Is(z, r)' <=> Is(z, r)
    BY <1>0, <1>2, Is1
  <2>2. /\ current \in Live /\ current \in Pcbs /\ pc'[current] = pc[current] + 1
        /\ \A z \in Pcbs : z # current => pc'[z] = pc[z]
        /\ pc[current] \in Nat /\ At(i)
        /\ \A z \in Pcbs : \A j : Past(z, j)' <=> Past(z, j) \/ (z = current /\ j = i)
        /\ \A s \in Sems : ~Blocked(current, s)
    BY <1>0, <1>2, DoesProcesses, HasDone, NotWaiting DEF Does, Blocked
  <2>3. /\ \A s \in UserSems : \A z : Blocked(z, s) /\ i # V(s) => Blocked(z, s)'
        /\ \A s \in UserSems : i = P(s) /\ sem[s] <= 0 => current \in Range(semq'[s])
    BY <1>0, <1>2, DoesQueues
  <2>4. /\ e <= 0 /\ Is(x, "p1")
        /\ \A y \in Pcbs : Is(y, "p2") => pc[y] = 1 \/ Blocked(y, "sem_startp2")
    BY <1>a, <2>1, <2>2
  <2>5. i # V("sem_startp2")
    <3> SUFFICES ASSUME i = V("sem_startp2") PROVE FALSE
      OBVIOUS
    <3>1. /\ runs[current] = "p1"
          /\ \E j \in 1..pc[current]-1 : Text(current)[j] = Store("p2")
      BY <1>0, <2>2, Doing DEF Raises
    <3>2. x = current
      BY <1>0, <2>2, <2>4, <3>1 DEF Is, Single
    <3> QED BY <2>2, <3>1, <3>2 DEF Past
  <2>6. f <= 0
    <3>1. /\ i = P("sem_startp2") => f = e - 1
          /\ i # P("sem_startp2") => f = e
          /\ e \in Int
      BY <1>0, <1>2, <1>s, <1>v, <2>5, DoesValues
    <3> QED BY <2>4, <3>1
  <2>7. ASSUME NEW y \in Pcbs, Is(y, "p2") PROVE pc'[y] = 1 \/ Blocked(y, "sem_startp2")'
    <3>1. CASE y # current
      BY <1>s, <2>2, <2>3, <2>4, <2>5, <2>7, <3>1
    <3>2. CASE y = current
      <4>1. pc[current] = 1 /\ runs[current] = "p2"
        BY <1>s, <2>2, <2>4, <2>7, <3>2 DEF Is
      <4>2. i = P("sem_startp2")
        BY <1>0, <2>2, <4>1, AtLive, Programs, P2Text DEF Text
      <4> QED BY <1>s, <1>v, <2>3, <2>4, <3>2, <4>2 DEF Blocked
    <3> QED BY <3>1, <3>2
  <2> QED BY <2>1, <2>6, <2>7
<1>3. ASSUME NEW q, NEW p, Creates(q, p) PROVE Goal
  <2>1. /\ p \in Pcbs /\ pc'[p] = 1 /\ current # p /\ current \in Live
        /\ \A z \in Pcbs : z # p => (z # current => pc'[z] = pc[z])
        /\ \A z \in Pcbs : \A j : z # p =>
             (Past(z, j)' <=> Past(z, j) \/ (z = current /\ j = Start(q)))
        /\ \A z, s : Blocked(z, s)' <=> Blocked(z, s)
        /\ f = e
    BY <1>0, <1>3, <1>v, CreatesProcesses
  <2>2. /\ \A z \in Pcbs : \A r : Is(z, r)' <=> IF z = p THEN r = q ELSE Is(z, r)
        /\ q # "p1" /\ runs[current] # "p2"
    BY <1>0, <1>3, Starting DEF Makes
  <2>3. Is(x, "p1") /\ ~Past(x, Store("p2"))
    BY <2>1, <2>2
  <2>4. ASSUME NEW y \in Pcbs, Is(y, "p2")' PROVE pc'[y] = 1 \/ Blocked(y, "sem_startp2")'
    <3>1. CASE y = p
      BY <2>1, <3>1
    <3>2. CASE y # p
      BY <1>a, <2>1, <2>2, <2>3, <2>4, <3>2 DEF Is
    <3> QED BY <3>1, <3>2
  <2> QED BY <1>a, <2>1, <2>3, <2>4
<1>4. ASSUME NEW t, Kills(t) PROVE Goal
  <2>1. /\ \A z \in Live' : z \in Live /\ pc'[z] = pc[z] /\ runs'[z] = runs[z]
        /\ \A z \in Live' : \A s \in Sems : Blocked(z, s)' <=> Blocked(z, s)
        /\ \A z \in Live' : \A j : Past(z, j)' <=> Past(z, j)
        /\ e <= 0 => f <= 0
    BY <1>0, <1>4, <1>s, <1>v, Survivors
  <2>2. \A z \in Pcbs : \A r : Is(z, r)' => Is(z, r) /\ z \in Live'
    BY <2>1 DEF Is
  <2> QED BY <1>a, <1>s, <2>1, <2>2
<1> QED BY <1>0, <1>1, <1>2, <1>3, <1>4, StepView

\* StartP3 is kept: there is no tick while p1 is ready.
LEMMA StartP3Kept ==
  ASSUME TInv, TInv', StartP3, [TestNext]_testVars
  PROVE  StartP3'
<1>0. Sound /\ Single /\ Waits /\ Single'
  BY DEF TInv
<1>s. Clock \in Sems
  BY TestSoftSems
<1> SUFFICES ASSUME NEW x \in Pcbs, NEW y \in Pcbs,
                    Is(x, "p1")', Is(y, "p3")', Did(x, Start("p3"))'
             PROVE  pc'[y] = 1 \/ Blocked(y, Clock)'
  BY DEF StartP3
<1> DEFINE Goal == pc'[y] = 1 \/ Blocked(y, Clock)'
<1>a. Is(x, "p1") /\ Is(y, "p3") /\ Did(x, Start("p3")) => pc[y] = 1 \/ Blocked(y, Clock)
  BY DEF StartP3
<1>1. ASSUME Quiet PROVE Goal
  <2>1. /\ pc' = pc
        /\ current # NULL => \A z : Blocked(z, Clock) => Blocked(z, Clock)'
        /\ \A z : \A r : Is(z, r)' <=> Is(z, r)
        /\ \A z : \A j : Did(z, j)' <=> Did(z, j)
    BY <1>0, <1>1, QuietProcesses DEF Is
  <2>2. Did(x, Start("p3")) /\ x \in Live
    BY <2>1 DEF Is
  <2>3. \A j : Did(x, j) => j = Start("p3")
    BY <2>2 DEF Did
  <2>4. \A s \in Sems : ~Blocked(x, s)
    BY <1>0, <2>2, <2>3, BlockedDid, Fields
  <2>5. current # NULL
    BY <1>0, <2>2, <2>4, AwakeRuns
  <2> QED BY <1>a, <2>1, <2>5
<1>2. ASSUME NEW i, Does(i) PROVE Goal
  <2>1. /\ \A z \in Pcbs : \A r : Is(z, r)' <=> Is(z, r)
    BY <1>0, <1>2, Is1
  <2>2. /\ current \in Live /\ current \in Pcbs
        /\ \A z \in Pcbs : z # current => pc'[z] = pc[z]
        /\ At(i) /\ i # Start("p3")
        /\ \A z \in Pcbs : \A j : Did(z, j)' <=> IF z = current THEN j = i ELSE Did(z, j)
        /\ \A s \in Sems : ~Blocked(current, s)
    BY <1>0, <1>2, DoesProcesses, NotWaiting DEF Does, Blocked
  <2>3. /\ \A z : Blocked(z, Clock) => Blocked(z, Clock)'
        /\ i = AwaitClock => current \in Range(semq'[Clock])
    BY <1>0, <1>2, DoesQueues
  <2>4. Is(y, "p3") /\ (pc[y] = 1 \/ Blocked(y, Clock))
    BY <1>a, <2>1, <2>2
  <2>5. CASE y # current
    BY <2>2, <2>3, <2>4, <2>5
  <2>6. CASE y = current
    <3>1. pc[current] = 1 /\ runs[current] = "p3"
      BY <1>s, <2>2, <2>4, <2>6 DEF Is
    <3>2. i = AwaitClock
      BY <1>0, <2>2, <3>1, AtLive, Programs, P3Text DEF Text
    <3> QED BY <2>3, <2>6, <3>2 DEF Blocked
  <2> QED BY <2>5, <2>6
<1>3. ASSUME NEW q, NEW p, Creates(q, p) PROVE Goal
  <2>1. /\ p \in Pcbs /\ pc'[p] = 1 /\ current # p
        /\ \A z \in Pcbs : z # p => (z # current => pc'[z] = pc[z])
        /\ \A z \in Pcbs : \A j : z # p =>
             (Did(z, j)' <=> IF z = current THEN j = Start(q) ELSE Did(z, j))
        /\ \A z, s : Blocked(z, s)' <=> Blocked(z, s)
        /\ Live' = Live \cup {p} /\ runs'[p] = q
    BY <1>0, <1>3, CreatesProcesses
  <2>2. /\ \A z \in Pcbs : \A r : Is(z, r)' <=> IF z = p THEN r = q ELSE Is(z, r)
        /\ q # "p1" /\ runs[current] # "p3"
    BY <1>0, <1>3, Starting DEF Makes
  <2>3. CASE y = p
    BY <2>1, <2>3
  <2>4. CASE y # p
    <3>1. Is(y, "p3") /\ y # current /\ Is(x, "p1") /\ x # p
      BY <2>2, <2>4 DEF Is
    <3>2. q # "p3"
      BY <1>0, <2>1, <2>4 DEF Single, Is
    <3>3. Start(q) # Start("p3")
      BY <3>2, Fields
    <3> QED BY <1>a, <2>1, <2>4, <3>1, <3>3
  <2> QED BY <2>3, <2>4
<1>4. ASSUME NEW t, Kills(t) PROVE Goal
  <2>1. /\ \A z \in Live' : z \in Live /\ pc'[z] = pc[z] /\ runs'[z] = runs[z]
        /\ \A z \in Live' : \A s \in Sems : Blocked(z, s)' <=> Blocked(z, s)
        /\ \A z \in Live' : \A j : Did(z, j)' <=> Did(z, j)
    BY <1>0, <1>4, Survivors
  <2>2. \A z \in Pcbs : \A r : Is(z, r)' => Is(z, r) /\ z \in Live'
    BY <2>1 DEF Is
  <2> QED BY <1>a, <1>s, <2>1, <2>2
<1> QED BY <1>0, <1>1, <1>2, <1>3, <1>4, StepView

\* Synch is kept: p2 sets p1p2synch before it raises sem_endp2.
LEMMA SynchKept ==
  ASSUME TInv, TInv', Synch, [TestNext]_testVars
  PROVE  Synch'
<1>0. Sound /\ Single /\ Waits /\ Single'
  BY DEF TInv
<1>s. "sem_endp2" \in UserSems /\ "sem_endp2" \in Sems /\ "sem_endp2" \notin P8Sems
      /\ "p1p2synch" \notin Processes
  BY SemNames, TestSoftSems, ProcessNames
<1>v. PICK e, f : e = sem["sem_endp2"] /\ f = sem'["sem_endp2"]
  OBVIOUS
<1> DEFINE Goal ==
      /\ f <= 0
      /\ \A x \in Pcbs : Is(x, "p1")' /\ Past(x, P("sem_endp2"))' => Blocked(x, "sem_endp2")'
      /\ \A y \in Pcbs : Is(y, "p2")' => pc'[y] <= 18
<1> SUFFICES ASSUME "p1p2synch" \notin stored' PROVE Goal
  BY <1>v DEF Synch
<1>a. "p1p2synch" \notin stored =>
        /\ e <= 0
        /\ \A x \in Pcbs : Is(x, "p1") /\ Past(x, P("sem_endp2")) => Blocked(x, "sem_endp2")
        /\ \A y \in Pcbs : Is(y, "p2") => pc[y] <= 18
  BY <1>v DEF Synch
<1>1. ASSUME Quiet PROVE Goal
  <2>1. /\ f = e /\ pc' = pc
        /\ \A z : Blocked(z, "sem_endp2")' <=> Blocked(z, "sem_endp2")
        /\ \A z : \A r : Is(z, r)' <=> Is(z, r)
        /\ \A z : \A j : Past(z, j)' <=> Past(z, j)
    BY <1>0, <1>1, <1>s, <1>v, QuietProcesses DEF Is
  <2>2. stored' = stored
    BY <1>1 DEF Quiet
  <2> QED BY <1>a, <2>1, <2>2
<1>2. ASSUME NEW i, Does(i) PROVE Goal
  <2>1. /\ \A z \in Pcbs : \A r : Is(z, r)' <=> Is(z, r)
    BY <1>0, <1>2, Is1
  <2>2. /\ current \in Live /\ current \in Pcbs /\ pc'[current] = pc[current] + 1
        /\ \A z \in Pcbs : z # current => pc'[z] = pc[z]
        /\ pc[current] \in Nat /\ At(i)
        /\ \A z \in Pcbs : \A j : Past(z, j)' <=> Past(z, j) \/ (z = current /\ j = i)
        /\ \A s \in Sems : ~Blocked(current, s)
    BY <1>0, <1>2, DoesProcesses, HasDone, NotWaiting DEF Does, Blocked
  <2>3. /\ \A s \in UserSems : \A z : Blocked(z, s) /\ i # V(s) => Blocked(z, s)'
        /\ \A s \in UserSems : i = P(s) /\ sem[s] <= 0 => current \in Range(semq'[s])
    BY <1>0, <1>2, DoesQueues
  <2>4. i # Store("p1p2synch") /\ "p1p2synch" \notin stored
    BY <1>0, <1>2, DoesStored
  <2>5. i # V("sem_endp2")
    <3> SUFFICES ASSUME i = V("sem_endp2") PROVE FALSE
      OBVIOUS
    <3>1. runs[current] = "p2" /\ pc[current] = 19
      BY <1>0, <2>2, Doing DEF Raises
    <3> QED BY <1>a, <2>2, <2>4, <3>1 DEF Is
  <2>6. f <= 0
    <3>1. /\ i = P("sem_endp2") => f = e - 1
          /\ i # P("sem_endp2") => f = e
          /\ e \in Int
      BY <1>0, <1>2, <1>s, <1>v, <2>5, DoesValues
    <3> QED BY <1>a, <2>4, <3>1
  <2>7. ASSUME NEW y \in Pcbs, Is(y, "p2") PROVE pc'[y] <= 18
    <3>1. CASE y # current
      BY <1>a, <2>2, <2>4, <2>7, <3>1
    <3>2. CASE y = current
      <4>1. pc[current] = 18 => i = Store("p1p2synch")
        BY <1>0, <2>2, <2>7, <3>2, AtLive, Programs, P2Text DEF Text, Is
      <4> QED BY <1>a, <2>2, <2>4, <2>7, <3>2, <4>1
    <3> QED BY <3>1, <3>2
  <2>8. ASSUME NEW x \in Pcbs, Is(x, "p1"), Past(x, P("sem_endp2"))'
        PROVE  Blocked(x, "sem_endp2")'
    <3>1. CASE Past(x, P("sem_endp2"))
      BY <1>a, <1>s, <2>3, <2>4, <2>5, <2>8, <3>1
    <3>2. CASE x = current /\ i = P("sem_endp2")
      BY <1>a, <1>s, <1>v, <2>3, <2>4, <3>2 DEF Blocked
    <3> QED BY <2>2, <2>8, <3>1, <3>2
  <2> QED BY <2>1, <2>6, <2>7, <2>8
<1>3. ASSUME NEW q, NEW p, Creates(q, p) PROVE Goal
  <2>1. /\ p \in Pcbs /\ pc'[p] = 1 /\ current # p /\ current \in Live
        /\ \A z \in Pcbs : z # p => (z # current => pc'[z] = pc[z])
        /\ \A z \in Pcbs : \A j : z # p =>
             (Past(z, j)' <=> Past(z, j) \/ (z = current /\ j = Start(q)))
        /\ \A z, s : Blocked(z, s)' <=> Blocked(z, s)
        /\ f = e /\ q \in Processes
    BY <1>0, <1>3, <1>v, CreatesProcesses
  <2>2. /\ \A z \in Pcbs : \A r : Is(z, r)' <=> IF z = p THEN r = q ELSE Is(z, r)
        /\ q # "p1" /\ runs[current] # "p2" /\ stored' = stored \ {q}
    BY <1>0, <1>3, Starting DEF Makes
  <2>p. Start(q) # P("sem_endp2")
    BY Fields
  <2>3. "p1p2synch" \notin stored
    BY <1>s, <2>1, <2>2
  <2>4. ASSUME NEW y \in Pcbs, Is(y, "p2")' PROVE pc'[y] <= 18
    <3>1. CASE y = p
      BY <2>1, <3>1
    <3>2. CASE y # p
      BY <1>a, <2>1, <2>2, <2>3, <2>4, <3>2 DEF Is
    <3> QED BY <3>1, <3>2
  <2>5. ASSUME NEW x \in Pcbs, Is(x, "p1")', Past(x, P("sem_endp2"))'
        PROVE  Blocked(x, "sem_endp2")'
    BY <1>a, <2>1, <2>2, <2>3, <2>5, <2>p
  <2> QED BY <1>a, <2>1, <2>3, <2>4, <2>5
<1>4. ASSUME NEW t, Kills(t) PROVE Goal
  <2>1. /\ \A z \in Live' : z \in Live /\ pc'[z] = pc[z] /\ runs'[z] = runs[z]
        /\ \A z \in Live' : \A s \in Sems : Blocked(z, s)' <=> Blocked(z, s)
        /\ \A z \in Live' : \A j : Past(z, j)' <=> Past(z, j)
        /\ e <= 0 => f <= 0
        /\ stored' = stored
    BY <1>0, <1>4, <1>s, <1>v, Survivors
  <2>2. \A z \in Pcbs : \A r : Is(z, r)' => Is(z, r) /\ z \in Live'
    BY <2>1 DEF Is
  <2> QED BY <1>a, <1>s, <2>1, <2>2
<1> QED BY <1>0, <1>1, <1>2, <1>3, <1>4, StepView

\* Whoever executes its last instruction ends, or waits for ever.
LEMMA LastOne ==
  ASSUME Sound, Single, Peace4, NEW i, Does(i), pc[current] = Len(Text(current))
  PROVE  i = P("sem_blkp8") \/ i = P("sem_blkp9")
<1>1. /\ At(i) /\ current \in Live /\ current \in Pcbs
      /\ i # Exit /\ i # KillParent /\ (i = Trap => support[current])
      /\ \A s \in Sems : current \notin Range(semq[s])
  BY DoesProcesses, NotWaiting DEF Does
<1>2. Final(runs[current], i)
  BY <1>1, AtLive DEF Lawful, RightEnds
<1>3. i = Trap => runs[current] = "p5"
  BY <1>1 DEF Sound, Kin
<1>4. ~(i = P("sem_synp4") /\ runs[current] = "p4b")
  <2> SUFFICES ASSUME runs[current] = "p4b" PROVE i # P("sem_synp4")
    OBVIOUS
  <2>1. parent[current] \in Pcbs /\ Is(parent[current], "p4") /\ Is(current, "p4b")
    BY <1>1, Origin4 DEF Is, Live
  <2>2. "sem_blkp4" \in Sems
    BY SemNames, TestSoftSems
  <2>3. pc[current] <= 6
    BY <1>1, <2>1, <2>2 DEF Peace4, Syn4, Blocked
  <2>4. Len(Text(current)) = 7
    BY Programs, P4bText DEF Text
  <2> QED BY <2>3, <2>4
<1> QED BY <1>1, <1>2, <1>3, <1>4 DEF Final

\* Ends is kept.
LEMMA EndsKept ==
  ASSUME TInv, TInv', Peace4, Ends, [TestNext]_testVars
  PROVE  Ends'
<1>0. Sound /\ Single /\ Waits /\ Single'
  BY DEF TInv
<1>s. /\ "sem_blkp8" \in UserSems /\ "sem_blkp8" \in Sems
      /\ "sem_blkp9" \in UserSems /\ "sem_blkp9" \in Sems /\ "sem_blkp9" \notin P8Sems
  BY SemNames, TestSoftSems, P8Names
<1>v. PICK e, f, g, h : /\ e = sem["sem_blkp8"] /\ f = sem'["sem_blkp8"]
                        /\ g = sem["sem_blkp9"] /\ h = sem'["sem_blkp9"]
  OBVIOUS
<1> DEFINE Goal ==
      /\ f <= 0 /\ h <= 0
      /\ \A x \in Live' : pc'[x] > Len(Text(x)') =>
           Blocked(x, "sem_blkp8")' \/ Blocked(x, "sem_blkp9")'
<1> SUFFICES Goal
  BY <1>v DEF Ends
<1>a. /\ e <= 0 /\ g <= 0
      /\ \A x \in Live : pc[x] > Len(Text(x)) =>
           Blocked(x, "sem_blkp8") \/ Blocked(x, "sem_blkp9")
  BY <1>v DEF Ends
<1>1. ASSUME Quiet PROVE Goal
  <2>1. /\ f = e /\ h = g /\ pc' = pc /\ Live' = Live
        /\ \A z : \A s \in UserSems : Blocked(z, s)' <=> Blocked(z, s)
        /\ \A z : Text(z)' = Text(z)
    BY <1>0, <1>1, <1>s, <1>v, QuietProcesses
  <2> QED BY <1>a, <1>s, <2>1
<1>2. ASSUME NEW i, Does(i) PROVE Goal
  <2>1. /\ Live' = Live /\ current \in Live /\ current \in Pcbs
        /\ pc'[current] = pc[current] + 1 /\ pc[current] \in 1..Len(Text(current))
        /\ \A z \in Pcbs : z # current => pc'[z] = pc[z]
        /\ \A z : Text(z)' = Text(z)
        /\ At(i) /\ Len(Text(current)) \in Nat
    BY <1>0, <1>2, DoesProcesses, HasDone DEF Does
  <2>2. i # V("sem_blkp8") /\ i # V("sem_blkp9")
    BY <1>0, <2>1, Doing DEF Raises
  <2>3. f <= 0 /\ h <= 0
    <3>1. /\ i = P("sem_blkp8") => f = e - 1
          /\ i = Reset => f = 0
          /\ i # P("sem_blkp8") /\ i # Reset => f = e
          /\ i = P("sem_blkp9") => h = g - 1
          /\ i # P("sem_blkp9") => h = g
          /\ e \in Int /\ g \in Int
      <4>1. "sem_blkp8" \in P8Sems
        BY P8Names
      <4> QED BY <1>0, <1>2, <1>s, <1>v, <2>2, <4>1, DoesValues
    <3> QED BY <1>a, <3>1
  <2>4. /\ \A s \in UserSems : \A z : Blocked(z, s) /\ i # V(s) => Blocked(z, s)'
        /\ \A s \in UserSems : i = P(s) /\ sem[s] <= 0 => current \in Range(semq'[s])
    BY <1>0, <1>2, DoesQueues
  <2>5. ASSUME NEW x \in Live, pc'[x] > Len(Text(x))
        PROVE  Blocked(x, "sem_blkp8")' \/ Blocked(x, "sem_blkp9")'
    <3>1. CASE x # current
      BY <1>a, <1>s, <2>1, <2>2, <2>4, <2>5, <3>1 DEF Live
    <3>2. CASE x = current
      <4>1. pc[current] = Len(Text(current))
        BY <2>1, <2>5, <3>2
      <4>2. i = P("sem_blkp8") \/ i = P("sem_blkp9")
        BY <1>0, <1>2, <4>1, LastOne
      <4>3. current \in Range(semq'["sem_blkp8"]) \/ current \in Range(semq'["sem_blkp9"])
        BY <1>a, <1>s, <1>v, <2>4, <4>2
      <4> QED BY <3>2, <4>3 DEF Blocked
    <3> QED BY <3>1, <3>2
  <2> QED BY <2>1, <2>3, <2>5
<1>3. ASSUME NEW q, NEW p, Creates(q, p) PROVE Goal
  <2>1. /\ p \in Pcbs /\ p \notin Live /\ pc'[p] = 1 /\ current # p
        /\ Live' = Live \cup {p} /\ current \in Live /\ current \in Pcbs
        /\ pc'[current] = pc[current] + 1 /\ pc[current] \in 1..Len(Text(current))
        /\ Text(current)[pc[current]] = Start(q)
        /\ \A z \in Pcbs : z # p => Text(z)' = Text(z) /\ (z # current => pc'[z] = pc[z])
        /\ \A z, s : Blocked(z, s)' <=> Blocked(z, s)
        /\ f = e /\ h = g /\ q \in Processes /\ runs'[p] = q
        /\ Len(Text(current)) \in Nat /\ Lawful(runs[current], Text(current))
    BY <1>0, <1>3, <1>v, CreatesProcesses, HasDone
  <2>2. pc[current] # Len(Text(current))
    BY <2>1, Fields DEF Lawful, RightEnds, Final
  <2>3. /\ Len(Text(p)') \in Nat /\ Len(Text(p)') > 0
    <3>1. instance' = instance
      BY <1>0, <1>3, CreatesProcesses
    <3>2. Text(p)' = Program(q)
      BY <2>1, <3>1, ProgramSame DEF Text
    <3> QED BY <2>1, <3>2, AllLawful DEF Lawful, RightEnds
  <2>4. ASSUME NEW x \in Live', pc'[x] > Len(Text(x)')
        PROVE  Blocked(x, "sem_blkp8")' \/ Blocked(x, "sem_blkp9")'
    <3>1. CASE x = p
      BY <2>1, <2>3, <2>4, <3>1
    <3>2. CASE x = current
      BY <2>1, <2>2, <2>4, <3>2
    <3>3. CASE x # p /\ x # current
      BY <1>a, <2>1, <2>4, <3>3 DEF Live
    <3> QED BY <3>1, <3>2, <3>3
  <2> QED BY <1>a, <2>1, <2>4
<1>4. ASSUME NEW t, Kills(t) PROVE Goal
  <2>1. /\ \A z \in Live' : z \in Live /\ pc'[z] = pc[z] /\ Text(z)' = Text(z)
        /\ \A z \in Live' : \A s \in Sems : Blocked(z, s)' <=> Blocked(z, s)
        /\ e <= 0 => f <= 0
        /\ g <= 0 => h <= 0
    BY <1>0, <1>4, <1>s, <1>v, Survivors
  <2> QED BY <1>a, <1>s, <2>1
<1> QED BY <1>0, <1>1, <1>2, <1>3, <1>4, StepView

\* They hold when the test begins.
LEMMA InitValues ==
  TestInit => TestSem /\ SemS /\ Created /\ StartP2 /\ StartP3 /\ Synch /\ Ends
<1> SUFFICES ASSUME TestInit
             PROVE TestSem /\ SemS /\ Created /\ StartP2 /\ StartP3 /\ Synch /\ Ends
  OBVIOUS
<1>1. /\ \A x \in Live : runs[x] = "p1" /\ pc[x] = 1
      /\ runs = [p \in Pcbs |-> "p1"] /\ pc = [p \in Pcbs |-> 1]
  BY DEF TestInit, Live
<1>2. /\ sem["sem_testsem"] = 0 /\ sem["s"] = 0 /\ sem["sem_startp2"] = 0
      /\ sem["sem_endp2"] = 0 /\ sem["sem_blkp8"] = 0 /\ sem["sem_blkp9"] = 0
  BY SemNames, TestSoftSems DEF TestInit
<1>3. \A x \in Pcbs : Is(x, "p1") => pc[x] = 1 /\ \A j : ~Past(x, j)
  BY <1>1 DEF Is, Past
<1>4. \A x \in Pcbs : ~Is(x, "p2") /\ ~Is(x, "p3")
  BY <1>1 DEF Is
<1>5. Created
  BY <1>1 DEF Created, Recorded
<1>6. Ends
  <2>1. \A x \in Live : Len(Text(x)) \in Nat /\ Len(Text(x)) > 0
    <3>1. Sound
      BY InitTInv DEF TInv
    <3> QED BY <3>1, HasDone DEF Lawful, RightEnds
  <2>2. \A x \in Live : ~(pc[x] > Len(Text(x)))
    BY <1>1, <2>1
  <2> QED BY <1>2, <2>2 DEF Ends
<1> QED BY <1>2, <1>3, <1>4, <1>5, <1>6 DEF TestSem, SemS, StartP2, StartP3, Synch

----------------------------------------------------------------------------
(* Who is ahead of whom in the ready queue *)

\* c is in front of y in q.
Before(q, c, y) == \E i, j \in 1..Len(q) : i < j /\ q[i] = c /\ q[j] = y

\* Those that are in order stay in order when somebody joins the queue, and
\* somebody whom nobody's priority is below joins it behind all.
LEMMA BeforeInserted ==
  ASSUME NEW q \in Seq(Pcbs), NEW w \in Pcbs, w \notin Range(q), NEW f,
         NEW r, r = InsertProcQ(f, q, w)
  PROVE  /\ r \in Seq(Pcbs) /\ Range(r) = Range(q) \cup {w}
         /\ NoRepetition(q) => NoRepetition(r)
         /\ \A c, y : Before(q, c, y) => Before(r, c, y)
         /\ (\A x \in Range(q) : ~(f[w] > f[x])) =>
              \A c \in Range(q) : Before(r, c, w)
<1>1. /\ r \in Seq(Pcbs) /\ Range(r) = Range(q) \cup {w}
      /\ NoRepetition(q) => NoRepetition(r)
  BY InsertProcQResult
<1>2. PICK k \in Nat : Inserted(r, q, w, k)
  BY InsertProcQInserts
<1>3. Len(q) \in Nat /\ Len(r) \in Nat
  BY <1>1, LenProperties
<1>4. ASSUME NEW c, NEW y, Before(q, c, y) PROVE Before(r, c, y)
  <2> DEFINE New(m) == IF m < k THEN m ELSE m + 1
  <2>1. PICK i, j \in 1..Len(q) : i < j /\ q[i] = c /\ q[j] = y
    BY <1>4 DEF Before
  <2>2. \A m \in 1..Len(q) : New(m) \in 1..Len(r) /\ r[New(m)] = q[m]
    BY <1>2, <1>3 DEF Inserted
  <2>3. New(i) < New(j)
    BY <2>1, <1>3
  <2> HIDE DEF New
  <2> QED BY <2>1, <2>2, <2>3 DEF Before
<1>5. ASSUME \A x \in Range(q) : ~(f[w] > f[x]), NEW c \in Range(q)
      PROVE  Before(r, c, w)
  <2>1. \A i \in 1..Len(q) : q[i] \in Range(q)
    BY RangeEquality
  <2>2. {i \in 1..Len(q) : f[w] > f[q[i]]} = {}
    BY <1>5, <2>1
  <2>3. r = Append(q, w)
    BY <2>2 DEF InsertProcQ
  <2>4. PICK i \in 1..Len(q) : q[i] = c
    BY RangeEquality
  <2>5. Len(r) = Len(q) + 1 /\ r[Len(q) + 1] = w /\ r[i] = q[i]
    BY <2>3, AppendProperties
  <2> QED BY <1>3, <2>4, <2>5 DEF Before
<1> QED BY <1>1, <1>4, <1>5

\* The same of list_add_tail.
LEMMA BeforeAppended ==
  ASSUME NEW q \in Seq(Pcbs), NEW w \in Pcbs, w \notin Range(q), NEW r, r = Append(q, w)
  PROVE  /\ r \in Seq(Pcbs) /\ Range(r) = Range(q) \cup {w}
         /\ NoRepetition(q) => NoRepetition(r)
         /\ \A c, y : Before(q, c, y) => Before(r, c, y)
         /\ \A c \in Range(q) : Before(r, c, w)
<1>1. /\ r \in Seq(Pcbs) /\ Range(r) = Range(q) \cup {w}
      /\ NoRepetition(q) => NoRepetition(r)
  BY AppendResult
<1>2. /\ Len(q) \in Nat /\ Len(r) = Len(q) + 1 /\ r[Len(q) + 1] = w
      /\ \A i \in 1..Len(q) : r[i] = q[i]
  BY AppendProperties, LenProperties
<1>3. ASSUME NEW c, NEW y, Before(q, c, y) PROVE Before(r, c, y)
  <2>1. PICK i, j \in 1..Len(q) : i < j /\ q[i] = c /\ q[j] = y
    BY <1>3 DEF Before
  <2> QED BY <1>2, <2>1 DEF Before
<1>4. ASSUME NEW c \in Range(q) PROVE Before(r, c, w)
  <2>1. PICK i \in 1..Len(q) : q[i] = c
    BY RangeEquality
  <2> QED BY <1>2, <2>1 DEF Before
<1> QED BY <1>1, <1>3, <1>4

\* Those that outProcQ leaves are in their old order.
LEMMA BeforeWithout ==
  ASSUME NEW q \in Seq(Pcbs), NoRepetition(q), NEW K, NEW r, r = Without(q, K),
         NEW c \in Range(r), NEW y \in Range(r), c # y, Before(q, c, y)
  PROVE  Before(r, c, y)
<1>1. r \in Seq(Pcbs) /\ Keeps(r, q)
  BY WithoutResult, WithoutKeeps
<1>2. Len(q) \in Nat /\ Len(r) \in Nat
  BY <1>1, LenProperties
<1>3. PICK i, j \in 1..Len(r) : r[i] = c /\ r[j] = y
  BY <1>1, RangeEquality
<1>4. PICK m, n \in 1..Len(q) : m < n /\ q[m] = c /\ q[n] = y
  BY DEF Before
<1>5. ~(j < i)
  <2>1. SUFFICES ASSUME j < i PROVE FALSE
    OBVIOUS
  <2>2. PICK k, l \in 1..Len(q) : k < l /\ q[k] = y /\ q[l] = c
    BY <1>1, <1>3, <2>1 DEF Keeps
  <2>3. k = n /\ l = m
    BY <1>4, <2>2 DEF NoRepetition
  <2> QED BY <1>2, <1>4, <2>2, <2>3
<1>6. i < j
  BY <1>2, <1>3, <1>5
<1> QED BY <1>3, <1>6 DEF Before

\* With its head taken the queue stays in order, and nobody is its head who
\* has somebody in front.
LEMMA BeforeTail ==
  ASSUME NEW q \in Seq(Pcbs), NEW c, NEW y, Before(q, c, y), NoRepetition(q)
  PROVE  /\ q # <<>> /\ y # Head(q)
         /\ c # Head(q) => Before(Tail(q), c, y)
<1>1. PICK i, j \in 1..Len(q) : i < j /\ q[i] = c /\ q[j] = y
  BY DEF Before
<1>2. Len(q) \in Nat /\ q # <<>>
  BY <1>1, LenProperties
<1>3. /\ Head(q) = q[1] /\ Len(Tail(q)) = Len(q) - 1
      /\ \A k \in 1..Len(Tail(q)) : Tail(q)[k] = q[k+1]
  BY <1>2, HeadTailProperties
<1>4. y # Head(q)
  <2>1. 1 \in 1..Len(q) /\ j # 1
    BY <1>1, <1>2
  <2> QED BY <1>1, <1>3, <2>1 DEF NoRepetition
<1>5. ASSUME c # Head(q) PROVE Before(Tail(q), c, y)
  <2>1. i # 1
    BY <1>1, <1>3, <1>5
  <2>2. i-1 \in 1..Len(Tail(q)) /\ j-1 \in 1..Len(Tail(q)) /\ i-1 < j-1
    BY <1>1, <1>2, <1>3, <2>1
  <2>3. (i-1)+1 = i /\ (j-1)+1 = j
    BY <1>1, <1>2
  <2>4. Tail(q)[i-1] = c /\ Tail(q)[j-1] = y
    BY <1>1, <1>3, <2>2, <2>3
  <2> QED BY <2>2, <2>4 DEF Before
<1> QED BY <1>2, <1>4, <1>5

----------------------------------------------------------------------------
(* What a step of the test does to the ready queue *)

\* The processes that others find by their pid, and that only the order of
\* the ready queue keeps from being found before the pid is stored.
Firsts == {"p4", "p9", "p8root", "p4b"}

\* The scheduler has taken the head of Q, or has not been called.
Goes(Q) ==
  \/ ready' = Q /\ current' = current
  \/ Q # <<>> /\ current' = Head(Q) /\ ready' = Tail(Q)
  \/ Q = <<>> /\ current' = NULL /\ ready' = <<>>

\* Q has the ready processes in their order, and those that have joined it
\* behind them.
InLine(Q) ==
  /\ Q \in Seq(Pcbs) /\ NoRepetition(Q)
  /\ Live' \cap Range(ready) \subseteq Range(Q)
  /\ \A c \in Range(ready) \cap Range(Q) : \A y \in Live \cap Range(Q) :
       /\ c # y /\ runs[y] \in Firsts
       /\ y \in Range(ready) => Before(ready, c, y)
       => Before(Q, c, y)

\* Where the ready processes are, and what their priorities are.
LEMMA ReadyFacts ==
  ASSUME Sound
  PROVE  /\ ready \in Seq(Pcbs) /\ NoRepetition(ready) /\ Range(ready) \subseteq Live
         /\ current \notin Range(ready)
         /\ \A s \in Sems : \A x \in Range(semq[s]) : x \notin Range(ready)
         /\ \A y \in Live : runs[y] \in Firsts => prio[y] = 0
         /\ \A y \in Live, x \in Range(ready) : runs[y] \in Firsts => ~(prio[y] > prio[x])
         /\ current = NULL => ready = <<>>
<1>1. /\ ready \in Seq(Pcbs) /\ Placed(ready, current, free, semq, semAdd)
  BY Unpacked DEF Sound
<1>2. /\ NoRepetition(ready) /\ current \notin Range(ready)
      /\ \A s \in Sems : \A x \in Range(semq[s]) : x \notin Range(ready)
      /\ Range(ready) \cap free = {}
  BY <1>1 DEF Placed
<1>3. Range(ready) \subseteq Live
  BY <1>1, <1>2, RangeOfSeq DEF Live
<1>4. \A y \in Live : runs[y] \in Firsts => prio[y] = 0
  BY DEF Sound, Kin, Firsts, Priority
<1>5. \A x \in Live : prio[x] \in {0, 1, 10}
  BY DEF Sound, Kin, Priority
<1>6. \A y \in Live, x \in Range(ready) : runs[y] \in Firsts => ~(prio[y] > prio[x])
  <2>1. \A n \in {0, 1, 10} : ~(0 > n)
    OBVIOUS
  <2> QED BY <1>3, <1>4, <1>5, <2>1
<1>7. current = NULL => ready = <<>>
  BY DEF Sound, IInv, CpuAgrees
<1> QED BY <1>1, <1>2, <1>3, <1>4, <1>6, <1>7

\* A queue that stays as it is.
LEMMA SameInLine ==
  ASSUME Sound PROVE InLine(ready)
BY ReadyFacts DEF InLine

\* Somebody joins the queue by insertProcQ.
LEMMA InsertInLine ==
  ASSUME Sound, NEW w \in Pcbs, w \notin Range(ready),
         NEW f, w \in Live => f = prio
  PROVE  InLine(InsertProcQ(f, ready, w))
<1> DEFINE Q == InsertProcQ(f, ready, w)
<1>0. ready \in Seq(Pcbs) /\ NoRepetition(ready)
  BY ReadyFacts
<1>1. /\ Q \in Seq(Pcbs) /\ Range(Q) = Range(ready) \cup {w} /\ NoRepetition(Q)
      /\ \A c, y : Before(ready, c, y) => Before(Q, c, y)
      /\ (\A x \in Range(ready) : ~(f[w] > f[x])) => \A c \in Range(ready) : Before(Q, c, w)
  BY <1>0, BeforeInserted
<1> HIDE DEF Q
<1>2. w \in Live /\ runs[w] \in Firsts => \A c \in Range(ready) : Before(Q, c, w)
  BY <1>1, ReadyFacts
<1>3. InLine(Q)
  BY <1>1, <1>2 DEF InLine
<1> QED BY <1>3 DEF Q

\* Somebody joins the queue by YIELD.
LEMMA AppendInLine ==
  ASSUME Sound, NEW w \in Pcbs, w \notin Range(ready)
  PROVE  InLine(Append(ready, w))
<1> DEFINE Q == Append(ready, w)
<1>0. ready \in Seq(Pcbs) /\ NoRepetition(ready)
  BY ReadyFacts
<1>1. /\ Q \in Seq(Pcbs) /\ Range(Q) = Range(ready) \cup {w} /\ NoRepetition(Q)
      /\ \A c, y : Before(ready, c, y) => Before(Q, c, y)
      /\ \A c \in Range(ready) : Before(Q, c, w)
  BY <1>0, BeforeAppended
<1> HIDE DEF Q
<1>2. InLine(Q)
  BY <1>1 DEF InLine
<1> QED BY <1>2 DEF Q

\* Some leave the queue with their lives.
LEMMA WithoutInLine ==
  ASSUME Sound, NEW K, Live' = Live \ K
  PROVE  InLine(Without(ready, K))
<1> DEFINE Q == Without(ready, K)
<1>0. ready \in Seq(Pcbs) /\ NoRepetition(ready) /\ Range(ready) \subseteq Live
  BY ReadyFacts
<1>1. /\ Q \in Seq(Pcbs) /\ Range(Q) = Range(ready) \ K /\ NoRepetition(Q)
  BY <1>0, WithoutResult
<1>2. \A c, y \in Range(Q) : c # y /\ Before(ready, c, y) => Before(Q, c, y)
  BY <1>0, BeforeWithout
<1> HIDE DEF Q
<1>3. InLine(Q)
  BY <1>1, <1>2 DEF InLine
<1> QED BY <1>3 DEF Q

\* Whoever is woken was not ready.
LEMMA WakeInLine ==
  ASSUME Sound, NEW s \in Sems, semq[s] # <<>>
  PROVE  InLine(ReadyWithHead(s))
<1>1. semq[s] \in Seq(Pcbs)
  BY Unpacked DEF Sound
<1>2. Head(semq[s]) \in Pcbs /\ Head(semq[s]) \in Range(semq[s])
  BY <1>1, TailResult
<1>3. Head(semq[s]) \notin Range(ready)
  BY <1>2, ReadyFacts
<1> QED BY <1>2, <1>3, InsertInLine DEF ReadyWithHead

\* While a process runs the ready queue keeps its order with every step.
LEMMA LineView ==
  ASSUME Sound, [TestNext]_testVars, current # NULL
  PROVE  \E Q : InLine(Q) /\ Goes(Q)
<1>0. /\ InLine(ready) /\ current \in Pcbs /\ current \notin Range(ready)
      /\ \A Q : Schedule(Q) => Goes(Q)
      /\ \A Q : Resume(Q) => Goes(Q)
  BY SameInLine, ReadyFacts, Unpacked DEF Sound, Schedule, Resume, Goes
<1>1. CASE UNCHANGED <<ready, current>>
  BY <1>0, <1>1 DEF Goes
<1>2. ASSUME NEW s \in UserSems, Passeren(s) PROVE \E Q : InLine(Q) /\ Goes(Q)
  BY <1>0, <1>1, <1>2 DEF Passeren
<1>3. ASSUME NEW s \in UserSems, Verhogen(s) PROVE \E Q : InLine(Q) /\ Goes(Q)
  <2>1. CASE semq[s] # <<>> /\ ready' = ReadyWithHead(s) /\ current' = current
    <3>1. s \in Sems
      BY TestSoftSems
    <3>2. InLine(ReadyWithHead(s))
      BY <2>1, <3>1, WakeInLine
    <3>3. Goes(ReadyWithHead(s))
      BY <2>1 DEF Goes
    <3> QED BY <3>2, <3>3
  <2> QED BY <1>1, <1>3, <2>1 DEF Verhogen
<1>4. ASSUME NEW s, SoftBlock(s) PROVE \E Q : InLine(Q) /\ Goes(Q)
  BY <1>0, <1>4 DEF SoftBlock
<1>5. ASSUME NEW t \in Live, Kills(t) PROVE \E Q : InLine(Q) /\ Goes(Q)
  <2>1. Gone(t)
    BY <1>5 DEF Kills
  <2>2. Live' = Live \ Subtree(t) /\ Goes(Without(ready, Subtree(t)))
    BY <2>1 DEF Gone, Goes
  <2>3. InLine(Without(ready, Subtree(t)))
    BY <2>2, WithoutInLine
  <2> QED BY <2>2, <2>3
<1>6. ASSUME NEW q, NEW p, Creates(q, p) PROVE \E Q : InLine(Q) /\ Goes(Q)
  <2>1. p \in Pcbs /\ p \notin Live
    BY <1>6, CreatesProcesses
  <2>2. p \notin Range(ready)
    BY <2>1, ReadyFacts
  <2>3. ready' = InsertProcQ(prio', ready, p) /\ current' = current
    BY <1>6 DEF Creates
  <2>4. PICK f : f = prio'
    OBVIOUS
  <2>5. InLine(InsertProcQ(f, ready, p))
    BY <2>1, <2>2, InsertInLine
  <2>6. Goes(InsertProcQ(f, ready, p))
    BY <2>3, <2>4 DEF Goes
  <2> QED BY <2>5, <2>6
<1>7. ASSUME Yield PROVE \E Q : InLine(Q) /\ Goes(Q)
  <2>1. Schedule(Append(ready, current))
    BY <1>7 DEF Yield
  <2>2. InLine(Append(ready, current))
    BY <1>0, AppendInLine
  <2> QED BY <1>0, <2>1, <2>2
<1>8. ASSUME HandlePLT PROVE \E Q : InLine(Q) /\ Goes(Q)
  <2>1. Schedule(InsertProcQ(prio, ready, current))
    BY <1>8 DEF HandlePLT
  <2>2. InLine(InsertProcQ(prio, ready, current))
    BY <1>0, InsertInLine
  <2> QED BY <1>0, <2>1, <2>2
<1>9. ASSUME HandleDevice(Term0) PROVE \E Q : InLine(Q) /\ Goes(Q)
  <2>1. CASE semq[Term0] # <<>> /\ Resume(ReadyWithHead(Term0))
    BY <1>0, <2>1, WakeInLine, TestSoftSems
  <2>2. CASE Resume(ready)
    BY <1>0, <2>2
  <2> QED BY <1>9, <2>1, <2>2 DEF HandleDevice
<1>10. CASE UNCHANGED testVars \/ (Stopped /\ UNCHANGED testVars)
  BY <1>1, <1>10 DEF testVars, vars
<1>11. CASE Interrupted
  <2>1. ~ClockTick
    BY DEF ClockTick, IntervalIsLong
  <2> QED BY <1>8, <1>9, <1>11, <2>1 DEF Interrupted, Preempt
<1>12. CASE CallPasseren \/ CallVerhogen
  BY <1>2, <1>3, <1>12 DEF CallPasseren, CallVerhogen, SystemCall
<1>13. CASE CallDoIO \/ CallClockWait
  BY <1>4, <1>13 DEF CallDoIO, CallClockWait, SystemCall, DoIO, WaitForClock
<1>14. CASE NoSecondWait \/ StoreValue \/ CheckValue \/ ResetSems
  BY <1>1, <1>14 DEF NoSecondWait, StoreValue, CheckValue, ResetSems, SystemCall, vars
<1>15. CASE TakeTrap
  <2>1. CASE support[current]
    <3>1. UNCHANGED vars
      BY <1>15, <2>1 DEF TakeTrap, SystemCall, PassUpOrDie
    <3> QED BY <1>1, <3>1 DEF vars
  <2>2. CASE ~support[current]
    BY <1>5, <1>15, <2>2, DieView
  <2> QED BY <2>1, <2>2
<1>16. CASE CallTerminate
  BY <1>5, <1>16, TerminateView
<1>17. CASE CallYield
  BY <1>7, <1>17 DEF CallYield
<1>18. CASE CallCreate
  BY <1>6, <1>18, CreateView
<1> QED BY <1>10, <1>11, <1>12, <1>13, <1>14, <1>15, <1>16, <1>17, <1>18 DEF TestNext, Execute

\* Whoever is dispatched has done nothing yet, and is not interrupted by the
\* timer before it has.
LEMMA FreshView ==
  ASSUME Sound, [TestNext]_testVars
  PROVE  /\ current' # current => fresh'
         /\ pc' = pc /\ fresh /\ current # NULL => fresh' /\ current' = current
<1>1. CASE UNCHANGED testVars \/ (Stopped /\ UNCHANGED testVars)
  BY <1>1 DEF testVars, vars
<1>2. CASE Interrupted
  <2>1. fresh' = (fresh \/ current' # current) /\ fresh \in BOOLEAN
    BY <1>2 DEF Interrupted, Sound, TestTyped
  <2>2. ASSUME fresh, current # NULL PROVE current' = current
    <3>1. HandleDevice(Term0)
      BY <1>2, <2>2 DEF Interrupted, Preempt, ClockTick, IntervalIsLong
    <3> QED BY <2>2, <3>1 DEF HandleDevice, Resume
  <2> QED BY <2>1, <2>2
<1>3. CASE Execute
  <2>1. ASSUME pc' = pc PROVE FALSE
    <3>1. \E i : At(i)
      BY <1>3 DEF Execute, CallPasseren, CallVerhogen, CallDoIO, CallClockWait,
           NoSecondWait, CallTerminate, TakeTrap, CallYield, CallCreate, StoreValue,
           ResetSems, CheckValue, SystemCall
    <3>2. current \in Pcbs /\ pc \in [Pcbs -> Nat \ {0}]
      BY <3>1, AtLive DEF Sound, TestTyped
    <3>3. pc[current] \in Nat /\ pc[current] # pc[current] + 1
      BY <3>2
    <3>4. CASE Advance
      BY <2>1, <3>2, <3>3, <3>4 DEF Advance
    <3>5. CASE CallCreate
      <4>1. PICK q, p : Creates(q, p)
        BY <3>5, CreateView
      <4>2. pc'[current] = pc[current] + 1
        BY <4>1, CreatesProcesses
      <4> QED BY <2>1, <3>3, <4>2
    <3> QED BY <1>3, <3>4, <3>5 DEF Execute, CallPasseren, CallVerhogen, CallDoIO,
          CallClockWait, NoSecondWait, CallTerminate, TakeTrap, CallYield, StoreValue,
          ResetSems, CheckValue, SystemCall
  <2>2. current' # current => fresh'
    <3>1. CASE CallCreate
      <4>1. PICK q, p : Creates(q, p)
        BY <3>1, CreateView
      <4> QED BY <4>1 DEF Creates
    <3>2. CASE CheckValue
      BY <3>2 DEF CheckValue, vars
    <3>3. CASE \E d \in BOOLEAN : Done(d)
      BY <3>3 DEF Done
    <3> QED BY <1>3, <3>1, <3>2, <3>3 DEF Execute, CallPasseren, CallVerhogen, CallDoIO,
          CallClockWait, NoSecondWait, CallTerminate, TakeTrap, CallYield, StoreValue,
          ResetSems, SystemCall
  <2> QED BY <2>1, <2>2
<1> QED BY <1>1, <1>2, <1>3 DEF TestNext

----------------------------------------------------------------------------
(* The order of a process and the one that is to store its pid *)

\* Until its pid has been stored, a process has at most asked for the message
\* it prints first.  Its parent stores the pid with the next instruction, and
\* is in front of it in the ready queue, or runs and is not preempted before.
Order ==
  \A y \in Live : runs[y] \in Firsts /\ runs[y] \notin stored =>
    \/ pc[y] = 1
    \/ /\ pc[y] <= 3 /\ (y = current => pc[y] = 2)
       /\ parent[y] = current => fresh
       /\ y \in Range(ready) /\ parent[y] # current => Before(ready, parent[y], y)

\* Such a process begins with a message.
LEMMA FirstWords ==
  \A q \in Firsts : /\ q \in Recorded /\ q # "p1"
                    /\ Program(q)[1] = P("sem_term_mut") /\ Program(q)[2] = WriteChar
<1>1. /\ Program("p4") = P4 /\ Program("p4b") = P4b /\ Program("p9") = P9
      /\ Program("p8root") = P8root
  BY Programs
<1>2. /\ P4[1] = P("sem_term_mut") /\ P4[2] = WriteChar
      /\ P4b[1] = P("sem_term_mut") /\ P4b[2] = WriteChar
      /\ P9[1] = P("sem_term_mut") /\ P9[2] = WriteChar
      /\ P8root[1] = P("sem_term_mut") /\ P8root[2] = WriteChar
  BY P4Text, P4bText, P9Text, P8rootText
<1>3. Firsts = {"p4", "p9", "p8root", "p4b"}
  BY DEF Firsts
<1>4. \A q \in Firsts : q \in Recorded /\ q # "p1"
  BY <1>3 DEF Recorded
<1> QED BY <1>1, <1>2, <1>3, <1>4

\* A step of a process whose pid has not been stored yet, or of its parent.
LEMMA UnstoredStep ==
  ASSUME TInv, TInv', Created, [TestNext]_testVars,
         NEW y \in Live', NEW r \in Firsts, r = runs'[y], r \notin stored',
         NEW c, c = parent'[y], pc'[y] # 1
  PROVE  /\ y \in Live /\ y \in Pcbs /\ runs[y] = r /\ parent[y] = c /\ r \notin stored
         /\ Did(c, Start(r))
         /\ y # current => pc'[y] = pc[y]
         /\ \/ pc'[y] = pc[y]
            \/ y = current /\ \E i : Does(i) /\ pc'[y] = pc[y] + 1
            \/ y = current /\ \E q, p : Creates(q, p)
         /\ c = current => pc' = pc
<1>0. Sound /\ Single /\ Single' /\ r \in Recorded
  BY FirstWords DEF TInv
<1> DEFINE Goal ==
      /\ y \in Live /\ y \in Pcbs /\ runs[y] = r /\ parent[y] = c /\ r \notin stored
      /\ y # current => pc'[y] = pc[y]
      /\ \/ pc'[y] = pc[y]
         \/ y = current /\ \E i : Does(i) /\ pc'[y] = pc[y] + 1
         \/ y = current /\ \E q, p : Creates(q, p)
      /\ c = current => pc' = pc
<1>a. y \in Live /\ runs[y] = r /\ parent[y] = c /\ r \notin stored => Did(c, Start(r))
  BY <1>0 DEF Created
<1>1. ASSUME Quiet PROVE Goal
  <2>1. /\ Live' = Live /\ UNCHANGED <<runs, pc, parent>>
    BY <1>0, <1>1, QuietProcesses
  <2>2. stored' = stored
    BY <1>1 DEF Quiet
  <2> QED BY <2>1, <2>2 DEF Live
<1>2. ASSUME NEW i, Does(i) PROVE Goal
  <2>1. /\ Live' = Live /\ UNCHANGED <<runs, parent>> /\ At(i)
        /\ pc'[current] = pc[current] + 1
        /\ \A x \in Pcbs : x # current => pc'[x] = pc[x]
    BY <1>0, <1>2, DoesProcesses DEF Does
  <2>2. stored \subseteq stored' /\ i # Store(r)
    BY <1>0, <1>2, DoesStored
  <2>3. c # current
    <3>1. Did(c, Start(r))
      BY <1>a, <2>1, <2>2
    <3> QED BY <1>0, <2>1, <2>2, <3>1, Follows
  <2> QED BY <1>2, <2>1, <2>2, <2>3 DEF Live
<1>3. ASSUME NEW q, NEW p, Creates(q, p) PROVE Goal
  <2>1. /\ p \in Pcbs /\ p \notin Live /\ Live' = Live \cup {p} /\ runs'[p] = q
        /\ pc'[p] = 1
        /\ \A x \in Pcbs : x # p => /\ runs'[x] = runs[x] /\ parent'[x] = parent[x]
                                    /\ x # current => pc'[x] = pc[x]
    BY <1>0, <1>3, CreatesProcesses
  <2>2. At(Start(q)) /\ stored' = stored \ {q}
    BY <1>0, <1>3, Starting
  <2>3. y # p /\ y \in Live /\ y \in Pcbs
    BY <2>1 DEF Live
  <2>4. r # q
    BY <1>0, <2>1, <2>3 DEF Single
  <2>5. c # current
    <3>1. Did(c, Start(r))
      BY <1>a, <2>1, <2>2, <2>3, <2>4
    <3>2. Start(q) # Store(r)
      BY Fields
    <3> QED BY <1>0, <2>2, <3>1, <3>2, Follows
  <2> QED BY <1>3, <2>1, <2>2, <2>3, <2>4, <2>5
<1>4. ASSUME NEW t, Kills(t) PROVE Goal
  <2>1. /\ y \in Live /\ y \in Pcbs /\ runs'[y] = runs[y] /\ parent'[y] = parent[y]
        /\ pc'[y] = pc[y] /\ y # current
        /\ parent[y] = NULL \/ parent[y] \in Live'
        /\ \A z \in Live' : z # current
        /\ stored' = stored
    BY <1>0, <1>4, Survivors DEF TInv
  <2>2. c \in Live'
    <3>1. runs[y] # "p1"
      BY <2>1, FirstWords
    <3>2. parent[y] \in Pcbs
      BY <1>0, <2>1, <3>1, ParentRuns
    <3> QED BY <2>1, <3>2, PcbsAssumption
  <2> QED BY <2>1, <2>2
<1>5. Goal
  BY <1>0, <1>1, <1>2, <1>3, <1>4, StepView
<1> QED BY <1>5, <1>a

\* Order is kept: nobody overtakes the parent in the ready queue, for its
\* child has no higher priority, and whoever joins the queue joins it behind.
LEMMA OrderKept ==
  ASSUME TInv, TInv', Created, Order, [TestNext]_testVars
  PROVE  Order'
<1>0. Sound /\ Waits /\ Sound'
  BY DEF TInv
<1> SUFFICES ASSUME NEW y \in Live', NEW r \in Firsts, r = runs'[y], r \notin stored',
                    NEW c, c = parent'[y], pc'[y] # 1
             PROVE  /\ pc'[y] <= 3 /\ (y = current' => pc'[y] = 2)
                    /\ c = current' => fresh'
                    /\ y \in Range(ready') /\ c # current' => Before(ready', c, y)
  BY DEF Order, Before
<1>1. /\ y \in Live /\ y \in Pcbs /\ runs[y] = r /\ parent[y] = c /\ r \notin stored
      /\ Did(c, Start(r))
      /\ y # current => pc'[y] = pc[y]
      /\ \/ pc'[y] = pc[y]
         \/ y = current /\ \E i : Does(i) /\ pc'[y] = pc[y] + 1
         \/ y = current /\ \E q, p : Creates(q, p)
      /\ c = current => pc' = pc
  BY UnstoredStep
<1>2. /\ r \in Recorded /\ r # "p1"
      /\ Text(y)[1] = P("sem_term_mut") /\ Text(y)[2] = WriteChar
  BY <1>1, FirstWords DEF Text
<1>3. \/ pc[y] = 1
      \/ /\ pc[y] <= 3 /\ (y = current => pc[y] = 2)
         /\ c = current => fresh
         /\ y \in Range(ready) /\ c # current => Before(ready, c, y)
  BY <1>1 DEF Order
<1>4. /\ c \in Live /\ c \in Live' /\ c \in Pcbs /\ c # y
  <2>1. c \in Live /\ c \in Pcbs /\ \E k : Makes(runs[c], k, r)
    BY <1>0, <1>1, <1>2, ParentRuns DEF Starts
  <2>2. c \in Live'
    <3>1. parent'[y] # NULL
      BY <1>1, <2>1, PcbsAssumption
    <3>2. OneTree(parent', free') /\ parent'[y] \in Pcbs \cup {NULL}
      BY <1>0, <1>1, <2>1, FamilyTreeIsOneTreeNext DEF Sound, IInv
    <3> QED BY <2>1, <3>1, <3>2, <1>1 DEF OneTree, Live
  <2>3. c # y
    BY <1>1, <2>1 DEF Makes, ByP1, Firsts
  <2> QED BY <2>1, <2>2, <2>3
<1>5. CASE c = current
  <2>1. pc' = pc /\ fresh /\ pc[y] <= 3
    BY <1>1, <1>3, <1>5
  <2>2. fresh' /\ current' = current
    BY <1>0, <1>4, <1>5, <2>1, FreshView, PcbsAssumption
  <2> QED BY <1>4, <1>5, <2>1, <2>2
<1>6. CASE c # current
  <2>1. c \in Range(ready) /\ current # NULL
    <3>1. \A s \in Sems : ~Blocked(c, s)
      <4>1. ASSUME NEW s \in Sems, Blocked(c, s) PROVE FALSE
        <5>1. /\ \A j : Did(c, j) => j = Start(r)
          BY <1>1 DEF Did
        <5>2. \/ \E u : Start(r) = P(u)
              \/ Start(r) \in {WriteChar, AwaitClock, AwaitAgain}
          BY <1>0, <1>4, <4>1, <5>1, BlockedDid
        <5> QED BY <5>2, Fields
      <4> QED BY <4>1
    <3>2. Placed(ready, current, free, semq, semAdd)
      BY <1>0, Unpacked DEF Sound
    <3>3. c \in Range(ready)
      BY <1>4, <1>6, <3>1, <3>2 DEF Placed, Blocked, Live
    <3> QED BY <1>0, <1>4, <3>1, <3>3, AwakeRuns
  <2>2. PICK Q : InLine(Q) /\ Goes(Q)
    BY <1>0, <2>1, LineView
  <2>3. current' # current => fresh'
    BY <1>0, FreshView
  <2>4. y \in Range(ready) => Before(ready, c, y)
    <3>1. y \in Range(ready) => y # current
      BY <1>0, ReadyFacts
    <3> QED BY <1>1, <1>3, <1>6, <3>1
  <2>5. c \in Range(Q)
    BY <1>4, <2>1, <2>2 DEF InLine
  <2>6. y \in Range(Q) => Before(Q, c, y)
    BY <1>1, <1>4, <2>1, <2>2, <2>4, <2>5 DEF InLine
  <2>7. NoRepetition(Q) /\ Q \in Seq(Pcbs)
    BY <2>2 DEF InLine
  <2>8. y \in Range(Q) => Q # <<>> /\ y # Head(Q) /\ (c # Head(Q) => Before(Tail(Q), c, y))
    BY <2>6, <2>7, BeforeTail
  <2>9. y \in Range(ready') /\ c # current' => Before(ready', c, y)
    <3>1. y \in Range(ready') => y \in Range(Q)
      <4>1. Q # <<>> => Range(Tail(Q)) \subseteq Range(Q)
        BY <2>7, TailResult
      <4> QED BY <2>2, <4>1 DEF Goes
    <3> QED BY <2>2, <2>6, <2>8, <3>1 DEF Goes
  <2>10. y = current' => y = current
    <3>1. CASE current' = current
      BY <3>1
    <3>2. CASE Q # <<>> /\ current' = Head(Q)
      <4>1. Head(Q) \in Range(Q)
        BY <2>7, <3>2, TailResult
      <4> QED BY <2>8, <3>2, <4>1
    <3>3. CASE current' = NULL
      BY <1>1, <3>3, PcbsAssumption
    <3> QED BY <2>2, <3>1, <3>2, <3>3 DEF Goes
  <2>11. pc'[y] <= 3 /\ (y = current' => pc'[y] = 2)
    <3>1. CASE y # current
      BY <1>1, <1>3, <2>10, <3>1
    <3>2. CASE y = current /\ pc'[y] = pc[y]
      BY <1>3, <1>6, <3>2
    <3>3. CASE y = current /\ pc'[y] # pc[y]
      <4>1. pc[y] \in {1, 2}
        BY <1>3, <3>3
      <4>2. Text(y)[pc[y]] \in {P("sem_term_mut"), WriteChar}
        BY <1>2, <4>1
      <4>3. ASSUME NEW q, NEW p, Creates(q, p) PROVE FALSE
        <5>1. Text(y)[pc[y]] = Start(q)
          BY <1>0, <3>3, <4>3, CreatesProcesses
        <5> QED BY <4>2, <5>1, Fields
      <4>4. PICK i : Does(i) /\ pc'[y] = pc[y] + 1
        BY <1>1, <3>3, <4>3
      <4>5. pc[y] = 2 => y # current'
        <5>1. ASSUME pc[y] = 2 PROVE i = WriteChar
          BY <1>0, <1>2, <3>3, <4>4, <5>1, AtLive DEF Does
        <5>2. i = WriteChar => y \in Range(semq'[Term0])
          BY <1>0, <3>3, <4>4, DoesQueues DEF Blocked
        <5>3. y \in Range(semq'[Term0]) => y # current'
          BY <1>0, TestSoftSems, Unpacked DEF Sound, Placed, IInv, OnePlace
        <5> QED BY <5>1, <5>2, <5>3
      <4> QED BY <4>1, <4>4, <4>5
    <3> QED BY <3>1, <3>2, <3>3
  <2>12. c = current' => fresh'
    BY <1>6, <2>3
  <2> QED BY <2>9, <2>11, <2>12
<1> QED BY <1>5, <1>6

\* Order holds when the test begins.
LEMMA InitOrder == TestInit => Order
<1> SUFFICES ASSUME TestInit PROVE Order
  OBVIOUS
<1>1. \A x \in Live : runs[x] = "p1"
  BY DEF TestInit, Live
<1> QED BY <1>1 DEF Order, Firsts

----------------------------------------------------------------------------
(* The test finds what it expects *)

\* A pid that a process tests has been stored.
LEMMA ChecksPass ==
  ASSUME Sound, Waits, Created, StartP2, StartP3, Synch, Order,
         NEW x, At(Check(x))
  PROVE  x \in stored
<1> SUFFICES ASSUME x \notin stored PROVE FALSE
  OBVIOUS
<1>1. /\ current \in Live /\ current \in Pcbs /\ runs[current] \in Processes
      /\ Checks(runs[current], Text(current), pc[current], x)
      /\ pc[current] \in Nat /\ pc[current] \in 1..Len(Text(current))
      /\ \A s \in Sems : ~Blocked(current, s)
  BY AtLive, Doing, NotWaiting DEF Blocked
<1>2. CASE /\ x = "p1p2synch" /\ runs[current] = "p1" /\ pc[current] > 1
           /\ Text(current)[pc[current]-1] = P("sem_endp2")
  <2>1. Past(current, P("sem_endp2"))
    BY <1>1, <1>2 DEF Past
  <2>2. "sem_endp2" \in Sems
    BY SemNames, TestSoftSems
  <2> QED BY <1>1, <1>2, <2>1, <2>2 DEF Synch, Is
<1>3. CASE x = "p2" /\ runs[current] = "p2" /\ pc[current] = 5
  <2> DEFINE c == parent[current]
  <2>1. /\ c \in Live /\ c \in Pcbs /\ \E k : Makes(runs[c], k, "p2")
    BY <1>1, <1>3, ParentRuns DEF Starts
  <2>2. Did(c, Start("p2"))
    BY <1>1, <1>3 DEF Created, Recorded
  <2> HIDE DEF c
  <2>3. Is(c, "p1")
    BY <2>1 DEF Makes, ByP1, Is
  <2>4. ~Past(c, Store("p2"))
    <3> SUFFICES ASSUME NEW k \in 1..pc[c]-1, Text(c)[k] = Store("p2") PROVE FALSE
      BY DEF Past
    <3>1. /\ k \in 1..Len(Text(c)) /\ pc[c] \in Nat /\ Lawful(runs[c], Text(c))
          /\ Len(Text(c)) \in Nat
          /\ pc[c]-1 \in 1..Len(Text(c)) /\ Text(c)[pc[c]-1] = Start("p2")
      BY <2>1, <2>2, HasDone
    <3>2. Stores(runs[c], Text(c), k, "p2")
      BY <3>1 DEF Lawful, RightValues
    <3>3. k > 1 /\ Text(c)[k-1] = Start("p2")
      BY <3>2 DEF Stores
    <3>4. k-1 \in 1..Len(Text(c))
      BY <3>1, <3>3
    <3>5. Starts(runs[c], Text(c), pc[c]-1, "p2")
      BY <3>1 DEF Lawful, RightStarts
    <3>6. k-1 = pc[c]-1
      BY <3>3, <3>4, <3>5 DEF Starts
    <3> QED BY <3>1, <3>6
  <2>5. "sem_startp2" \in Sems
    BY SemNames, TestSoftSems
  <2> QED BY <1>1, <1>3, <2>1, <2>3, <2>4, <2>5 DEF StartP2, Is
<1>4. CASE x = "p3" /\ runs[current] = "p3" /\ pc[current] = 11
  <2> DEFINE c == parent[current]
  <2>1. /\ c \in Live /\ c \in Pcbs /\ \E k : Makes(runs[c], k, "p3")
    BY <1>1, <1>4, ParentRuns DEF Starts
  <2>2. Did(c, Start("p3"))
    BY <1>1, <1>4 DEF Created, Recorded
  <2> HIDE DEF c
  <2>3. Is(c, "p1")
    BY <2>1 DEF Makes, ByP1, Is
  <2> QED BY <1>1, <1>4, <2>1, <2>2, <2>3, TestSoftSems DEF StartP3, Is
<1>5. CASE x \in {"p4", "p4b"} /\ runs[current] = x /\ pc[current] = 4
  BY <1>1, <1>5 DEF Order, Firsts
<1>6. ASSUME x \in Firsts, NEW k \in {4, 5}, k < pc[parent[current]],
             parent[current] \in Live, runs[parent[current]] = x
      PROVE  FALSE
  <2>1. pc[parent[current]] \in Nat /\ pc[parent[current]] > 3
    BY <1>6, HasDone
  <2> QED BY <1>6, <2>1 DEF Order
<1>7. CASE \/ x = "p8root" /\ runs[current] \in Children
           \/ x = "p9" /\ runs[current] = "p10"
  <2> DEFINE c == parent[current]
  <2>1. runs[current] # "p1" /\ x \in Firsts
    BY <1>7 DEF Children, Firsts
  <2>2. /\ c \in Live
        /\ \E k \in 1..pc[c]-1 : Starts(runs[c], Text(c), k, runs[current])
    BY <1>1, <2>1, ParentRuns
  <2>3. PICK k \in 1..pc[c]-1 : Makes(runs[c], k, runs[current])
    BY <2>2 DEF Starts
  <2>4. k \in {4, 5} /\ runs[c] = x
    BY <1>7, <2>3 DEF Makes, ByP1, Children
  <2>5. k < pc[c]
    <3>1. pc[c] \in Nat
      BY <2>2, HasDone
    <3> QED BY <2>3, <3>1
  <2> QED BY <1>6, <2>1, <2>2, <2>4, <2>5
<1> QED BY <1>1, <1>2, <1>3, <1>4, <1>5, <1>7 DEF Checks

\* A semaphore that a process tests has the value it expects.
LEMMA ValuesPass ==
  ASSUME Sound, TestSem, SemS, NEW s, NEW n, At(CheckSem(s, n))
  PROVE  sem[s] = n
<1>1. /\ current \in Live /\ current \in Pcbs
      /\ ChecksSem(runs[current], pc[current], s, n)
  BY AtLive, Doing
<1>2. CASE s = "sem_testsem" /\ runs[current] = "p1" /\ pc[current] = 4 /\ n = 3
  BY <1>1, <1>2 DEF TestSem, Is
<1>3. CASE s = "sem_testsem" /\ runs[current] = "p1" /\ pc[current] = 8 /\ n = 0
  BY <1>1, <1>3 DEF TestSem, Is
<1>4. CASE s = "s" /\ runs[current] = "p2" /\ pc[current] \in {8, 11} /\ n = 0
  BY <1>1, <1>4 DEF SemS, Is
<1> QED BY <1>1, <1>2, <1>3, <1>4 DEF ChecksSem

\* No test fails.
LEMMA NothingFails ==
  ASSUME Sound, Waits, TestSem, SemS, Created, StartP2, StartP3, Synch, Order,
         failed = FALSE, [TestNext]_testVars
  PROVE  failed' = FALSE
<1>1. CASE Quiet
  BY <1>1 DEF Quiet
<1>2. ASSUME NEW i, Does(i) PROVE failed' = FALSE
  <2>1. /\ At(i) /\ \A x : i = Check(x) => failed' = (x \notin stored)
        /\ \A s, n : i = CheckSem(s, n) => failed' = (sem[s] # n)
        /\ (\A x : i # Check(x)) /\ (\A s, n : i # CheckSem(s, n)) => failed' = failed
    BY <1>2 DEF Does, OnValues
  <2>2. ASSUME NEW x, i = Check(x) PROVE failed' = FALSE
    BY <2>1, <2>2, ChecksPass
  <2>3. ASSUME NEW s, NEW n, i = CheckSem(s, n) PROVE failed' = FALSE
    BY <2>1, <2>3, ValuesPass
  <2> QED BY <2>1, <2>2, <2>3
<1>3. ASSUME NEW q, NEW p, Creates(q, p) PROVE failed' = FALSE
  BY <1>3 DEF Creates
<1>4. ASSUME NEW t, Kills(t) PROVE failed' = FALSE
  BY <1>4 DEF Kills
<1> QED BY <1>1, <1>2, <1>3, <1>4, StepView

\* The running process is not past its end.
LEMMA RunnerHasNext ==
  ASSUME Sound, Ends, Running
  PROVE  pc[current] <= Len(Program(runs[current]))
<1>1. current \in Live
  BY RunningLive DEF Sound
<1>2. pc[current] \in Nat /\ Len(Text(current)) \in Nat
  BY <1>1, HasDone
<1>3. ~(pc[current] > Len(Text(current)))
  <2>1. "sem_blkp8" \in Sems /\ "sem_blkp9" \in Sems
    BY SemNames, TestSoftSems, P8Names
  <2> QED BY <1>1, <2>1, NotWaiting DEF Ends, Blocked
<1> QED BY <1>2, <1>3 DEF Text

----------------------------------------------------------------------------
(* The theorems *)

\* The inductive invariant of the test.
TestInv ==
  /\ TInv /\ PrintsAlone /\ Peace4 /\ Leaves8
  /\ TestSem /\ SemS /\ Created /\ StartP2 /\ StartP3 /\ Synch /\ Ends /\ Order
  /\ failed = FALSE

\* The invariant holds when the test begins.
LEMMA InitTestInv == TestInit => TestInv
<1>1. TestInit => failed = FALSE
  BY DEF TestInit
<1> QED BY <1>1, InitTInv, InitPrints, InitPeace4, InitLeaves8, InitValues, InitOrder
        DEF TestInv

\* The invariant is inductive.
LEMMA NextTestInv == TestInv /\ [TestNext]_testVars => TestInv'
<1> SUFFICES ASSUME TestInv, [TestNext]_testVars PROVE TestInv'
  OBVIOUS
<1>1. /\ TInv /\ Sound /\ Waits /\ PrintsAlone /\ Peace4 /\ Leaves8
      /\ TestSem /\ SemS /\ Created /\ StartP2 /\ StartP3 /\ Synch /\ Ends /\ Order
      /\ failed = FALSE
  BY DEF TestInv, TInv
<1>2. TInv'
  BY <1>1, NextTInv
<1>3. PrintsAlone'
  BY <1>1, <1>2, PrintsKept
<1>4. Peace4' /\ Leaves8'
  BY <1>1, <1>2, Peace4Kept, Leaves8Kept
<1>5. TestSem' /\ SemS' /\ Created' /\ StartP2' /\ StartP3' /\ Synch' /\ Ends'
  BY <1>1, <1>2, TestSemKept, SemSKept, CreatedKept, StartP2Kept, StartP3Kept,
     SynchKept, EndsKept
<1>6. Order'
  BY <1>1, <1>2, OrderKept
<1>7. failed' = FALSE
  BY <1>1, NothingFails
<1> QED BY <1>2, <1>3, <1>4, <1>5, <1>6, <1>7 DEF TestInv

\* The invariant holds in every state of the test.
THEOREM TestIsSound == TestSpec => []TestInv
BY InitTestInv, NextTestInv, PTL DEF TestSpec

\* However the processes of any instance of the test are preempted, each
\* value they test is the one expected, and none runs on past its end.
THEOREM TestsPass == TestSpec => []NoTestFails
<1>1. TestInv => NoTestFails
  BY RunnerHasNext DEF TestInv, TInv, NoTestFails
<1> QED BY <1>1, TestIsSound, PTL

\* While the terminal works for somebody, nobody asks it for a second
\* character and nobody who waits for it is terminated, but at p1's end.
THEOREM TestLeavesTerminal == TestSpec => LeavesTerminalAlone
<1>1. TestInv /\ [TestNext]_testVars =>
        [Live' # {} => \A d \in busy \cap busy' : semq'[d] = semq[d]]_testVars
  BY TerminalLeftAlone DEF TestInv
<1> QED BY <1>1, TestIsSound, PTL DEF TestSpec, LeavesTerminalAlone

----------------------------------------------------------------------------
(* What the nucleus promises, in the test *)

\* No process comes alive again when all are gone.
LEMMA NobodyFromNothing ==
  ASSUME Sound, [TestNext]_testVars, Live' # {}
  PROVE  Live # {}
<1>1. CASE Quiet
  BY <1>1, QuietProcesses
<1>2. CASE (\E i : Does(i)) \/ (\E q, p : Creates(q, p))
  BY <1>2, AtLive DEF Does, Creates
<1>3. CASE \E t \in Live : Kills(t)
  BY <1>3
<1> QED BY <1>1, <1>2, <1>3, StepView

\* A step of the test that leaves the working terminal alone leaves every
\* device as it was, or in order.
LEMMA TestShakes ==
  ASSUME TInv, DeviceHandshake, DeviceLeftAlone, [TestNext]_testVars, NEW e \in Devices
  PROVE  Same(e) \/ Shake(sem'[e], Len(semq'[e]), e \in busy')
<1>0. Sound /\ IInv
  BY DEF TInv, Sound
<1>1. CASE ResetSems
  <2>1. e \in Sems /\ e \notin P8Sems
    BY P8Names, TestSoftSems, SemsAssumption DEF Sems
  <2> QED BY <1>1, <2>1 DEF ResetSems, Same
<1>2. CASE CallTerminate
  <2>1. PICK t \in Live : Terminate(t)
    BY <1>0, <1>2, TerminateView
  <2> QED BY <1>0, <2>1, KillLeavesDevices DEF Terminate
<1>3. ASSUME [Next]_vars PROVE Same(e) \/ Shake(sem'[e], Len(semq'[e]), e \in busy')
  BY <1>0, <1>3, NextShakes
<1>4. CASE CallPasseren \/ CallVerhogen \/ CallDoIO \/ CallClockWait \/ CallYield
  BY <1>3, <1>4, TestSoftSems DEF CallPasseren, CallVerhogen, CallDoIO, CallClockWait,
     CallYield, SystemCall, Next, Call
<1>5. CASE TakeTrap \/ CallCreate
  BY <1>3, <1>5 DEF TakeTrap, CallCreate, SystemCall, Next, Call
<1>6. CASE NoSecondWait \/ StoreValue \/ CheckValue \/ UNCHANGED testVars
  BY <1>3, <1>6 DEF NoSecondWait, StoreValue, CheckValue, SystemCall, testVars
<1>7. CASE Interrupted
  BY <1>3, <1>7, TestSoftSems DEF Interrupted, Preempt, ClockTick, Next, Interrupt
<1>8. CASE Stopped /\ UNCHANGED testVars
  BY <1>3, <1>8 DEF testVars
<1> QED BY <1>1, <1>2, <1>4, <1>5, <1>6, <1>7, <1>8 DEF TestNext, Execute

\* While there are processes the terminal is served in order.
LEMMA NextInOrder ==
  TestInv /\ (Live # {} => DeviceHandshake) /\ [TestNext]_testVars
    => (Live # {} => DeviceHandshake)'
<1> SUFFICES ASSUME TestInv, Live # {} => DeviceHandshake, [TestNext]_testVars, Live' # {}
             PROVE  DeviceHandshake'
  OBVIOUS
<1>1. TInv /\ Sound /\ IInv /\ PrintsAlone /\ Peace4 /\ Leaves8
  BY DEF TestInv, TInv, Sound
<1>2. DeviceHandshake
  BY <1>1, NobodyFromNothing
<1>3. DeviceLeftAlone
  BY <1>1, TerminalLeftAlone DEF DeviceLeftAlone
<1>4. IInv'
  BY <1>1, NucleusKept
<1>5. ASSUME NEW e \in Devices PROVE Shake(sem'[e], Len(semq'[e]), e \in busy')
  <2>1. Same(e) \/ Shake(sem'[e], Len(semq'[e]), e \in busy')
    BY <1>1, <1>2, <1>3, TestShakes
  <2>2. Shake(sem[e], Len(semq[e]), e \in busy)
    BY <1>1, <1>2, HandshakeEach
  <2> QED BY <2>1, <2>2 DEF Same
<1> QED BY <1>4, <1>5, HandshakeEachNext

\* The value of the terminal's semaphore, the process that waits for it and
\* the operation under way agree in every state of the test, until p1's death
\* ends everything: its handler finds the one process that asked.
THEOREM TestServesTerminal == TestSpec => [](Live # {} => DeviceHandshake)
<1>1. TestInit => (Live # {} => DeviceHandshake)
  <2> SUFFICES ASSUME TestInit PROVE DeviceHandshake
    OBVIOUS
  <2>1. Init
    BY DEF TestInit
  <2>2. \A d \in Devices : /\ d \in Sems /\ d \notin {"sem_term_mut", "sem_blkp4"}
                           /\ semq[d] = <<>> /\ d \notin busy
    BY <2>1, TestSoftSems, SemNames, SemsAssumption DEF Init, Sems
  <2>3. \A d \in Devices : sem[d] = 0
    BY <2>2 DEF TestInit
  <2>4. \A d \in Devices : Shake(sem[d], Len(semq[d]), d \in busy)
    BY <2>2, <2>3 DEF Shake
  <2>5. IInv
    BY <2>1, InitIInv
  <2> QED BY <2>4, <2>5, HandshakeEach
<1> QED BY <1>1, NextInOrder, TestIsSound, PTL DEF TestSpec

\* What the nucleus promises to any processes it keeps in the test, though p1
\* resets semaphores behind its back.
THEOREM TestKeepsNucleus ==
  TestSpec => [](/\ TypeOK /\ OnePlace /\ CountersExact /\ FamilyTree /\ StopJustified
                 /\ SemaphoreAgrees)
<1>1. TestInv => /\ TypeOK /\ OnePlace /\ CountersExact /\ FamilyTree /\ StopJustified
                 /\ SemaphoreAgrees
  BY StopsFollow DEF TestInv, TInv, Sound, IInv
<1> QED BY <1>1, TestIsSound, PTL

\* Two processes are never inside print() together, so their messages do not
\* mix, and none is inside while the terminal works for somebody else.
THEOREM MessagesDoNotMix ==
  TestSpec => [](/\ \A x, y : Printing(x) /\ Printing(y) => x = y
                 /\ Term0 \in busy => \A x : Printing(x) => Blocked(x, Term0))
<1>1. TestInv => /\ \A x, y : Printing(x) /\ Printing(y) => x = y
                 /\ Term0 \in busy => \A x : Printing(x) => Blocked(x, Term0)
  BY DEF TestInv, PrintsAlone
<1> QED BY <1>1, TestIsSound, PTL

----------------------------------------------------------------------------
(* The order of the instructions, on which the absence of deadlocks rests *)

\* print() is executed from its beginning to its end.
Unbroken(S) ==
  \A k \in 1..Len(S) :
    /\ S[k] = P("sem_term_mut") => k < Len(S) /\ S[k+1] = WriteChar
    /\ S[k] = WriteChar => k < Len(S) /\ S[k+1] = V("sem_term_mut")

\* Before p1 waits for a process to end it has done what that needs.
Prepared(S) ==
  \A k \in 1..Len(S) :
    /\ S[k] = P("sem_endp2") =>
         k > 6 /\ S[k-6] = Start("p2") /\ S[k-1] = V("sem_startp2")
    /\ S[k] = P("sem_endp3") => k > 5 /\ S[k-5] = Start("p3")
    /\ S[k] = P("sem_endp8") => k > 1 /\ S[k-1] = Store("p8root")
    /\ S[k] = P("sem_blkp4") => k > 4 /\ S[k-4] = P("sem_endp5")

\* A part of p1's program.
Tied(S) == S \in Seq(Words) /\ Unbroken(S) /\ Prepared(S)

\* The parts of p1's program are in order.
LEMMA TiedParts ==
  /\ Tied(Opening) /\ Tied(ForP2) /\ Tied(ForP3) /\ Tied(ForP4) /\ Tied(ForP9)
  /\ Tied(ForBoth) /\ Tied(ForP8) /\ Tied(Message) /\ Tied(<<>>) /\ Tied(<<Trap>>)
  /\ \A r \in {"hp_p1", "hp_p2", "p5", "p6", "p7"} : Tied(<<Start(r)>>)
<1>1. Tied(Opening)
  BY OpeningText, Fields DEF Tied, Unbroken, Prepared
<1>2. Tied(ForP2)
  BY ForP2Text, Fields DEF Tied, Unbroken, Prepared
<1>3. Tied(ForP3)
  BY ForP3Text, Fields DEF Tied, Unbroken, Prepared
<1>4. Tied(ForP4) /\ Tied(ForP9)
  BY ForP4Text, ForP9Text, Fields DEF Tied, Unbroken, Prepared
<1>5. Tied(ForBoth)
  BY ForBothText, Fields DEF Tied, Unbroken, Prepared
<1>6. Tied(ForP8)
  BY ForP8Text, Fields DEF Tied, Unbroken, Prepared
<1>7. Tied(Message)
  BY MessageText, MessageInWords, Fields DEF Tied, Unbroken, Prepared
<1>8. Tied(<<>>)
  BY DEF Tied, Unbroken, Prepared
<1>9. ASSUME NEW i \in Words, \A s : i # P(s), i # WriteChar
      PROVE  Tied(<<i>>)
  BY <1>9 DEF Tied, Unbroken, Prepared
<1>10. Tied(<<Trap>>)
  BY <1>9, InWords, Fields
<1>11. \A r \in {"hp_p1", "hp_p2", "p5", "p6", "p7"} : Tied(<<Start(r)>>)
  BY <1>9, InWords, Fields DEF ByP1
<1> QED BY <1>1, <1>2, <1>3, <1>4, <1>5, <1>6, <1>7, <1>8, <1>10, <1>11

\* And so are two of them, one after the other.
LEMMA TiedJoin ==
  ASSUME NEW S, NEW T, Tied(S), Tied(T)
  PROVE  Tied(S \o T)
<1> DEFINE U == S \o T  m == Len(S)  n == Len(T)
<1>1. /\ U \in Seq(Words) /\ Len(U) = m + n /\ m \in Nat /\ n \in Nat
      /\ \A k \in 1..m : U[k] = S[k]
      /\ \A k \in 1..n : U[k + m] = T[k]
  BY ConcatResult DEF Tied
<1> HIDE DEF U
<1>2. ASSUME NEW k \in 1..m, NEW j \in Nat, j < k
      PROVE  U[k-j] = S[k-j] /\ U[k] = S[k]
  BY <1>1, <1>2
<1>3. ASSUME NEW k \in 1..n, NEW j \in Nat, j < k
      PROVE  U[k+m-j] = T[k-j] /\ U[k+m] = T[k]
  <2>1. k-j \in 1..n /\ (k-j)+m = k+m-j
    BY <1>1, <1>3
  <2> QED BY <1>1, <2>1
<1>4. \A k \in 1..Len(U) : k \in 1..m \/ (k-m \in 1..n /\ k = (k-m)+m)
  BY <1>1
<1>5. Unbroken(U)
  <2>1. ASSUME NEW k \in 1..m
        PROVE  /\ U[k] = P("sem_term_mut") => k < Len(U) /\ U[k+1] = WriteChar
               /\ U[k] = WriteChar => k < Len(U) /\ U[k+1] = V("sem_term_mut")
    <3>1. k < m => U[k+1] = S[k+1]
      BY <1>1
    <3> QED BY <1>1, <3>1 DEF Tied, Unbroken
  <2>2. ASSUME NEW k \in 1..n
        PROVE  /\ U[k+m] = P("sem_term_mut") => k+m < Len(U) /\ U[k+m+1] = WriteChar
               /\ U[k+m] = WriteChar => k+m < Len(U) /\ U[k+m+1] = V("sem_term_mut")
    <3>1. k < n => U[k+m+1] = T[k+1] /\ k+m < Len(U)
      <4>1. k < n => k+1 \in 1..n /\ (k+1)+m = k+m+1 /\ k+m < m+n
        BY <1>1
      <4> QED BY <1>1, <4>1
    <3>2. /\ T[k] = P("sem_term_mut") => k < n /\ T[k+1] = WriteChar
          /\ T[k] = WriteChar => k < n /\ T[k+1] = V("sem_term_mut")
      BY DEF Tied, Unbroken
    <3>3. U[k+m] = T[k]
      BY <1>1
    <3> QED BY <3>1, <3>2, <3>3
  <2> QED BY <1>4, <2>1, <2>2 DEF Unbroken
<1>6. Prepared(U)
  <2> DEFINE Good(R, k) ==
        /\ R[k] = P("sem_endp2") =>
             k > 6 /\ R[k-6] = Start("p2") /\ R[k-1] = V("sem_startp2")
        /\ R[k] = P("sem_endp3") => k > 5 /\ R[k-5] = Start("p3")
        /\ R[k] = P("sem_endp8") => k > 1 /\ R[k-1] = Store("p8root")
        /\ R[k] = P("sem_blkp4") => k > 4 /\ R[k-4] = P("sem_endp5")
  <2>1. (\A k \in 1..m : Good(S, k)) /\ (\A k \in 1..n : Good(T, k))
    BY DEF Tied, Prepared
  <2>2. ASSUME NEW k \in 1..m PROVE Good(U, k)
    <3>1. /\ U[k] = S[k] /\ (k > 1 => U[k-1] = S[k-1]) /\ (k > 4 => U[k-4] = S[k-4])
          /\ k > 5 => U[k-5] = S[k-5]
          /\ k > 6 => U[k-6] = S[k-6]
      BY <1>1, <1>2
    <3> QED BY <2>1, <3>1
  <2>3. ASSUME NEW k \in 1..n PROVE Good(U, k+m)
    <3>1. /\ U[k+m] = T[k] /\ (k > 1 => U[k+m-1] = T[k-1]) /\ (k > 4 => U[k+m-4] = T[k-4])
          /\ k > 5 => U[k+m-5] = T[k-5]
          /\ k > 6 => U[k+m-6] = T[k-6]
      BY <1>1, <1>3
    <3>2. \A j \in Nat : k > j => k+m > j
      BY <1>1
    <3> QED BY <2>1, <3>1, <3>2
  <2>4. \A k \in 1..Len(U) : Good(U, k)
    BY <1>4, <2>2, <2>3
  <2> QED BY <2>4 DEF Prepared
<1> QED BY <1>1, <1>5, <1>6 DEF Tied, U

\* S starts p4 before p5 and waits for p5 once, after that, but it has only
\* the first n of these parts.
Ordered(S, n) ==
  /\ S \in Seq(Words)
  /\ \A k \in 1..Len(S) :
       /\ S[k] = Start("p4") => n >= 1
       /\ S[k] = Start("p5") =>
            n >= 2 /\ \A j \in 1..Len(S) : S[j] = Start("p4") => j < k
       /\ S[k] = P("sem_endp5") =>
            /\ n >= 3 /\ \A j \in 1..Len(S) : S[j] = P("sem_endp5") => j = k
            /\ \E j \in 1..k-1 : S[j] = Start("p4")
            /\ \E j \in 1..k-1 : S[j] = Start("p5")
  /\ n >= 1 /\ "p4" \in instance => \E k \in 1..Len(S) : S[k] = Start("p4")
  /\ n >= 2 /\ "p5" \in instance => \E k \in 1..Len(S) : S[k] = Start("p5")

\* T brings those from m to n.
Brings(T, m, n) ==
  /\ T \in Seq(Words) /\ m <= n
  /\ \A k \in 1..Len(T) :
       /\ T[k] = Start("p4") => m = 0 /\ n >= 1
       /\ T[k] = Start("p5") =>
            m <= 1 /\ n >= 2 /\ \A j \in 1..Len(T) : T[j] # Start("p4")
       /\ T[k] = P("sem_endp5") =>
            /\ m = 2 /\ n = 3 /\ {"p4", "p5"} \subseteq instance
            /\ \A j \in 1..Len(T) : T[j] = P("sem_endp5") => j = k
  /\ m < 1 /\ n >= 1 /\ "p4" \in instance => \E k \in 1..Len(T) : T[k] = Start("p4")
  /\ m < 2 /\ n >= 2 /\ "p5" \in instance => \E k \in 1..Len(T) : T[k] = Start("p5")

\* What is started and waited for in one part after another.
LEMMA OrderedJoin ==
  ASSUME NEW S, NEW T, NEW m \in 0..3, NEW n \in 0..3, Ordered(S, m), Brings(T, m, n)
  PROVE  Ordered(S \o T, n)
<1> DEFINE U == S \o T  a == Len(S)  b == Len(T)
<1>1. /\ U \in Seq(Words) /\ Len(U) = a + b /\ a \in Nat /\ b \in Nat
      /\ \A k \in 1..a : U[k] = S[k]
      /\ \A k \in 1..b : U[k + a] = T[k]
      /\ 1..Len(S) = 1..a /\ 1..Len(T) = 1..b
  BY ConcatResult DEF Ordered, Brings
<1> HIDE DEF U, a, b
<1>2. \A k \in 1..Len(U) : (k \in 1..a /\ U[k] = S[k])
                           \/ (k > a /\ k-a \in 1..b /\ U[k] = T[k-a])
  <2>1. \A k \in 1..Len(U) : k \in 1..a \/ (k > a /\ k-a \in 1..b /\ k = (k-a)+a)
    BY <1>1
  <2> QED BY <1>1, <2>1
<1>3. /\ \A k \in 1..a : k \in 1..Len(U) /\ U[k] = S[k]
      /\ \A k \in 1..b : k+a \in 1..Len(U) /\ U[k+a] = T[k]
  BY <1>1
<1>s. /\ \A k \in 1..a :
           /\ S[k] = Start("p4") => m >= 1
           /\ S[k] = Start("p5") =>
                m >= 2 /\ \A j \in 1..a : S[j] = Start("p4") => j < k
           /\ S[k] = P("sem_endp5") =>
                /\ m >= 3 /\ \A j \in 1..a : S[j] = P("sem_endp5") => j = k
                /\ \E j \in 1..k-1 : S[j] = Start("p4")
                /\ \E j \in 1..k-1 : S[j] = Start("p5")
      /\ m >= 1 /\ "p4" \in instance => \E k \in 1..a : S[k] = Start("p4")
      /\ m >= 2 /\ "p5" \in instance => \E k \in 1..a : S[k] = Start("p5")
  BY <1>1 DEF Ordered
<1>t. /\ m <= n
      /\ \A k \in 1..b :
           /\ T[k] = Start("p4") => m = 0 /\ n >= 1
           /\ T[k] = Start("p5") =>
                m <= 1 /\ n >= 2 /\ \A j \in 1..b : T[j] # Start("p4")
           /\ T[k] = P("sem_endp5") =>
                /\ m = 2 /\ n = 3 /\ {"p4", "p5"} \subseteq instance
                /\ \A j \in 1..b : T[j] = P("sem_endp5") => j = k
      /\ m < 1 /\ n >= 1 /\ "p4" \in instance => \E k \in 1..b : T[k] = Start("p4")
      /\ m < 2 /\ n >= 2 /\ "p5" \in instance => \E k \in 1..b : T[k] = Start("p5")
  BY <1>1 DEF Brings
<1>4. \A k \in 1..Len(U) : U[k] = Start("p4") => n >= 1
  BY <1>2, <1>s, <1>t
<1>5. ASSUME NEW k \in 1..Len(U), U[k] = Start("p5")
      PROVE  n >= 2 /\ \A j \in 1..Len(U) : U[j] = Start("p4") => j < k
  <2>1. CASE k \in 1..a /\ U[k] = S[k]
    <3>1. m >= 2 /\ \A j \in 1..a : S[j] = Start("p4") => j < k
      BY <1>5, <1>s, <2>1
    <3>2. \A j \in 1..Len(U) : U[j] = Start("p4") => j \in 1..a /\ S[j] = Start("p4")
      BY <1>2, <1>t, <3>1
    <3> QED BY <1>t, <3>1, <3>2
  <2>2. CASE k > a /\ k-a \in 1..b /\ U[k] = T[k-a]
    <3>1. n >= 2 /\ \A j \in 1..b : T[j] # Start("p4")
      BY <1>5, <1>t, <2>2
    <3>2. \A j \in 1..Len(U) : U[j] = Start("p4") => j \in 1..a
      BY <1>2, <3>1
    <3> QED BY <1>1, <2>2, <3>1, <3>2
  <2> QED BY <1>2, <2>1, <2>2
<1>6. ASSUME NEW k \in 1..Len(U), U[k] = P("sem_endp5")
      PROVE  /\ n >= 3 /\ \A j \in 1..Len(U) : U[j] = P("sem_endp5") => j = k
             /\ \E j \in 1..k-1 : U[j] = Start("p4")
             /\ \E j \in 1..k-1 : U[j] = Start("p5")
  <2>1. CASE k \in 1..a /\ U[k] = S[k]
    <3>1. \A j \in 1..Len(U) : U[j] = P("sem_endp5") => j \in 1..a /\ U[j] = S[j]
      BY <1>2, <1>6, <1>s, <1>t, <2>1
    <3>2. 1..k-1 \subseteq 1..a
      BY <1>1, <2>1
    <3> QED BY <1>3, <1>6, <1>s, <1>t, <2>1, <3>1, <3>2
  <2>2. CASE k > a /\ k-a \in 1..b /\ U[k] = T[k-a]
    <3>1. m = 2 /\ n = 3 /\ {"p4", "p5"} \subseteq instance
      BY <1>6, <1>t, <2>2
    <3>2. \A j \in 1..Len(U) : U[j] = P("sem_endp5") => j > a /\ j-a \in 1..b /\ U[j] = T[j-a]
      BY <1>2, <1>s, <3>1
    <3>3. \A j \in 1..Len(U) : U[j] = P("sem_endp5") => j-a = k-a
      BY <1>6, <1>t, <2>2, <3>2
    <3>4. \A j \in 1..a : j \in 1..k-1
      BY <1>1, <2>2
    <3>5. \A j \in 1..Len(U) : U[j] = P("sem_endp5") => j = k
      <4>1. a \in Nat /\ k \in Int /\ \A j \in 1..Len(U) : j \in Int
        BY <1>1
      <4>2. \A j \in Int : j-a = k-a => j = k
        BY ONLY <4>1
      <4> QED BY <3>3, <4>1, <4>2
    <3>6. /\ \E j \in 1..a : S[j] = Start("p4")
          /\ \E j \in 1..a : S[j] = Start("p5")
      BY <1>s, <3>1
    <3>7. /\ \E j \in 1..k-1 : U[j] = Start("p4")
          /\ \E j \in 1..k-1 : U[j] = Start("p5")
      BY <1>3, <3>4, <3>6
    <3> QED BY <3>1, <3>5, <3>7
  <2> QED BY <1>2, <2>1, <2>2
<1>7. n >= 1 /\ "p4" \in instance => \E k \in 1..Len(U) : U[k] = Start("p4")
  BY <1>3, <1>s, <1>t
<1>8. n >= 2 /\ "p5" \in instance => \E k \in 1..Len(U) : U[k] = Start("p5")
  BY <1>3, <1>s, <1>t
<1> QED BY <1>1, <1>4, <1>5, <1>6, <1>7, <1>8 DEF Ordered, U

\* What each part of p1's program starts.
LEMMA BringsParts ==
  /\ Ordered(Opening, 0)
  /\ \A m \in 0..3 : Brings(Part({"p2"}, ForP2), m, m)
  /\ \A m \in 0..3 : Brings(Part({"p3"}, ForP3), m, m)
  /\ \A m \in 0..3 : \A r \in {"hp_p1", "hp_p2", "p6", "p7"} :
       Brings(Part({r}, <<Start(r)>>), m, m)
  /\ Brings(Part({"p4"}, ForP4), 0, 1)
  /\ Brings(Part({"p5"}, <<Start("p5")>>), 1, 2)
  /\ \A m \in 0..3 : Brings(Part({"p9"}, ForP9), m, m)
  /\ Brings(Part({"p4", "p5"}, ForBoth), 2, 3)
  /\ \A m \in 0..3 : Brings(Part(P8Family, ForP8), m, m)
  /\ \A m \in 0..3 : Brings(Message, m, m) /\ Brings(<<Trap>>, m, m)
<1> DEFINE Plain(T) ==
      T \in Seq(Words) /\ \A k \in 1..Len(T) : T[k] \notin {Start("p4"), Start("p5"), P("sem_endp5")}
<1>1. ASSUME NEW T, NEW m \in 0..3, Plain(T) PROVE Brings(T, m, m)
  BY <1>1 DEF Brings
<1>2. Plain(<<>>)
  OBVIOUS
<1>3. Plain(Opening) /\ Plain(ForP2) /\ Plain(ForP3)
  BY OpeningText, ForP2Text, ForP3Text, Fields
<1>4. Plain(ForP9) /\ Plain(ForP8) /\ Plain(Message)
  BY ForP9Text, ForP8Text, MessageText, MessageInWords, Fields
<1>5. \A r \in {"hp_p1", "hp_p2", "p6", "p7"} : Plain(<<Start(r)>>)
  BY InWords, Fields DEF ByP1
<1>6. Plain(<<Trap>>)
  BY InWords, Fields
<1>7. Ordered(Opening, 0)
  BY <1>3 DEF Ordered
<1>8. Brings(Part({"p4"}, ForP4), 0, 1)
  <2>1. CASE "p4" \in instance
    <3>1. Part({"p4"}, ForP4) = ForP4
      BY <2>1 DEF Part
    <3>2. Brings(ForP4, 0, 1)
      BY ForP4Text, Fields DEF Brings
    <3> QED BY <3>1, <3>2
  <2>2. CASE "p4" \notin instance
    BY <2>2 DEF Brings, Part
  <2> QED BY <2>1, <2>2
<1>9. Brings(Part({"p5"}, <<Start("p5")>>), 1, 2)
  <2>1. CASE "p5" \in instance
    <3>1. <<Start("p5")>> \in Seq(Words)
      BY InWords DEF ByP1
    <3> QED BY <2>1, <3>1, Fields DEF Brings, Part
  <2>2. CASE "p5" \notin instance
    BY <2>2 DEF Brings, Part
  <2> QED BY <2>1, <2>2
<1>10. Brings(Part({"p4", "p5"}, ForBoth), 2, 3)
  <2>1. CASE {"p4", "p5"} \subseteq instance
    <3>1. Part({"p4", "p5"}, ForBoth) = ForBoth
      BY <2>1 DEF Part
    <3>2. Brings(ForBoth, 2, 3)
      BY <2>1, ForBothText, Fields DEF Brings
    <3> QED BY <3>1, <3>2
  <2>2. CASE ~({"p4", "p5"} \subseteq instance)
    BY <2>2 DEF Brings, Part
  <2> QED BY <2>1, <2>2
<1> HIDE DEF Plain
<1>11. \A T, R : Plain(T) => Plain(Part(R, T))
  BY <1>2 DEF Part
<1> QED BY <1>1, <1>3, <1>4, <1>5, <1>6, <1>7, <1>8, <1>9, <1>10, <1>11

\* p1's program is in order.
LEMMA P1InOrder == Tied(P1) /\ Ordered(P1, 3)
<1> DEFINE Link(T, m, n) == Tied(T) /\ Brings(T, m, n)
           Chain(S, n) == Tied(S) /\ Ordered(S, n)
<1>1. ASSUME NEW S, NEW T, NEW m \in 0..3, NEW n \in 0..3, Chain(S, m), Link(T, m, n)
      PROVE  Chain(S \o T, n)
  BY <1>1, TiedJoin, OrderedJoin
<1>2. \A T, R : Tied(T) => Tied(Part(R, T))
  BY TiedParts DEF Part
<1>0. Chain(Opening, 0)
  BY TiedParts, BringsParts
<1>1a. Link(Part({"p2"}, ForP2), 0, 0)
  BY <1>2, TiedParts, BringsParts
<1>2a. Link(Part({"p3"}, ForP3), 0, 0)
  BY <1>2, TiedParts, BringsParts
<1>3a. Link(Part({"hp_p1"}, <<Start("hp_p1")>>), 0, 0)
  BY <1>2, TiedParts, BringsParts
<1>4a. Link(Part({"hp_p2"}, <<Start("hp_p2")>>), 0, 0)
  BY <1>2, TiedParts, BringsParts
<1>5a. Link(Part({"p4"}, ForP4), 0, 1)
  BY <1>2, TiedParts, BringsParts
<1>6a. Link(Part({"p5"}, <<Start("p5")>>), 1, 2)
  BY <1>2, TiedParts, BringsParts
<1>7a. Link(Part({"p6"}, <<Start("p6")>>), 2, 2)
  BY <1>2, TiedParts, BringsParts
<1>8a. Link(Part({"p7"}, <<Start("p7")>>), 2, 2)
  BY <1>2, TiedParts, BringsParts
<1>9a. Link(Part({"p9"}, ForP9), 2, 2)
  BY <1>2, TiedParts, BringsParts
<1>10a. Link(Part({"p4", "p5"}, ForBoth), 2, 3)
  BY <1>2, TiedParts, BringsParts
<1>11a. Link(Part(P8Family, ForP8), 3, 3)
  BY <1>2, TiedParts, BringsParts
<1>12a. Link(Message, 3, 3)
  BY <1>2, TiedParts, BringsParts
<1>13a. Link(<<Trap>>, 3, 3)
  BY <1>2, TiedParts, BringsParts
<1> DEFINE S0 == Opening
<1> DEFINE X1 == Part({"p2"}, ForP2)  S1 == S0 \o X1
<1> DEFINE X2 == Part({"p3"}, ForP3)  S2 == S1 \o X2
<1> DEFINE X3 == Part({"hp_p1"}, <<Start("hp_p1")>>)  S3 == S2 \o X3
<1> DEFINE X4 == Part({"hp_p2"}, <<Start("hp_p2")>>)  S4 == S3 \o X4
<1> DEFINE X5 == Part({"p4"}, ForP4)  S5 == S4 \o X5
<1> DEFINE X6 == Part({"p5"}, <<Start("p5")>>)  S6 == S5 \o X6
<1> DEFINE X7 == Part({"p6"}, <<Start("p6")>>)  S7 == S6 \o X7
<1> DEFINE X8 == Part({"p7"}, <<Start("p7")>>)  S8 == S7 \o X8
<1> DEFINE X9 == Part({"p9"}, ForP9)  S9 == S8 \o X9
<1> DEFINE X10 == Part({"p4", "p5"}, ForBoth)  S10 == S9 \o X10
<1> DEFINE X11 == Part(P8Family, ForP8)  S11 == S10 \o X11
<1> DEFINE X12 == Message  S12 == S11 \o X12
<1> DEFINE X13 == <<Trap>>  S13 == S12 \o X13
<1>3. P1 = S13
  BY DEF P1, Opening, ForP2, ForP3, ForP4, ForP9, ForBoth, ForP8
<1>b. Chain(S0, 0)
  BY <1>0
<1>1b. Link(X1, 0, 0)
  BY <1>1a
<1>2b. Link(X2, 0, 0)
  BY <1>2a
<1>3b. Link(X3, 0, 0)
  BY <1>3a
<1>4b. Link(X4, 0, 0)
  BY <1>4a
<1>5b. Link(X5, 0, 1)
  BY <1>5a
<1>6b. Link(X6, 1, 2)
  BY <1>6a
<1>7b. Link(X7, 2, 2)
  BY <1>7a
<1>8b. Link(X8, 2, 2)
  BY <1>8a
<1>9b. Link(X9, 2, 2)
  BY <1>9a
<1>10b. Link(X10, 2, 3)
  BY <1>10a
<1>11b. Link(X11, 3, 3)
  BY <1>11a
<1>12b. Link(X12, 3, 3)
  BY <1>12a
<1>13b. Link(X13, 3, 3)
  BY <1>13a
<1> HIDE DEF Link, Chain, S0, X1, X2, X3, X4, X5, X6, X7, X8, X9, X10, X11, X12, X13
<1>1c. Chain(S1, 0)
  BY <1>b, <1>1b, <1>1
<1> HIDE DEF S1
<1>2c. Chain(S2, 0)
  BY <1>1c, <1>2b, <1>1
<1> HIDE DEF S2
<1>3c. Chain(S3, 0)
  BY <1>2c, <1>3b, <1>1
<1> HIDE DEF S3
<1>4c. Chain(S4, 0)
  BY <1>3c, <1>4b, <1>1
<1> HIDE DEF S4
<1>5c. Chain(S5, 1)
  BY <1>4c, <1>5b, <1>1
<1> HIDE DEF S5
<1>6c. Chain(S6, 2)
  BY <1>5c, <1>6b, <1>1
<1> HIDE DEF S6
<1>7c. Chain(S7, 2)
  BY <1>6c, <1>7b, <1>1
<1> HIDE DEF S7
<1>8c. Chain(S8, 2)
  BY <1>7c, <1>8b, <1>1
<1> HIDE DEF S8
<1>9c. Chain(S9, 2)
  BY <1>8c, <1>9b, <1>1
<1> HIDE DEF S9
<1>10c. Chain(S10, 3)
  BY <1>9c, <1>10b, <1>1
<1> HIDE DEF S10
<1>11c. Chain(S11, 3)
  BY <1>10c, <1>11b, <1>1
<1> HIDE DEF S11
<1>12c. Chain(S12, 3)
  BY <1>11c, <1>12b, <1>1
<1> HIDE DEF S12
<1>13c. Chain(S13, 3)
  BY <1>12c, <1>13b, <1>1
<1> HIDE DEF S13
<1> QED BY <1>3, <1>13c DEF Chain

\* Every process executes print() from its beginning to its end.
LEMMA AllUnbroken == \A q \in Processes : Unbroken(Program(q))
<1>1. Unbroken(P1)
  BY P1InOrder DEF Tied
<1>2. Unbroken(P2)
  BY P2Text, Fields DEF Unbroken
<1>3. Unbroken(P3)
  BY P3Text, Fields DEF Unbroken
<1>4. Unbroken(P4)
  BY P4Text, Fields DEF Unbroken
<1>5. Unbroken(P4b)
  BY P4bText, Fields DEF Unbroken
<1>6. Unbroken(P5)
  BY P5Text, Fields DEF Unbroken
<1>7. Unbroken(P6)
  BY P6Text, Fields DEF Unbroken
<1>8. Unbroken(P7)
  BY P7Text, Fields DEF Unbroken
<1>9. Unbroken(P9)
  BY P9Text, Fields DEF Unbroken
<1>10. Unbroken(P10)
  BY P10Text, Fields DEF Unbroken
<1>11. Unbroken(HpP1)
  BY HpP1Text, Fields DEF Unbroken
<1>12. Unbroken(HpP2)
  BY HpP2Text, Fields DEF Unbroken
<1>13. Unbroken(P8root)
  BY P8rootText, Fields DEF Unbroken
<1>14. Unbroken(Child(1, 2))
  BY Child1Text, Fields DEF Unbroken
<1>15. Unbroken(Child(3, 4))
  BY Child2Text, Fields DEF Unbroken
<1>16. Unbroken(P8leaf(1))
  BY P8leaf1Text, Fields DEF Unbroken
<1>17. Unbroken(P8leaf(2))
  BY P8leaf2Text, Fields DEF Unbroken
<1>18. Unbroken(P8leaf(3))
  BY P8leaf3Text, Fields DEF Unbroken
<1>19. Unbroken(P8leaf(4))
  BY P8leaf4Text, Fields DEF Unbroken
<1> QED BY <1>1, <1>2, <1>3, <1>4, <1>5, <1>6, <1>7, <1>8, <1>9, <1>10, <1>11, <1>12, <1>13, <1>14, <1>15, <1>16, <1>17, <1>18, <1>19,
     Programs, LeafPrograms, ProcessNames

\* What p1 has done before.
LEMMA P1Past ==
  ASSUME Sound, NEW x \in Live, runs[x] = "p1"
  PROVE  /\ Past(x, P("sem_endp2")) => Past(x, Start("p2")) /\ Past(x, V("sem_startp2"))
         /\ Past(x, P("sem_endp3")) => Past(x, Start("p3"))
         /\ Past(x, P("sem_endp5")) => Past(x, Start("p4")) /\ Past(x, Start("p5"))
         /\ Past(x, P("sem_blkp4")) => Past(x, P("sem_endp5"))
         /\ Past(x, V("sem_startp2")) => Past(x, Start("p2"))
<1>1. /\ Text(x) = P1 /\ pc[x] \in Nat \ {0} /\ Len(P1) \in Nat /\ Lawful("p1", P1)
      /\ \A k \in 1..pc[x]-1 : k \in 1..Len(P1)
  BY HasDone, Programs DEF Text
<1>2. Prepared(P1) /\ Ordered(P1, 3)
  BY P1InOrder DEF Tied
<1>3. ASSUME NEW k \in 1..pc[x]-1, NEW j \in Nat, k > j
      PROVE  k - j \in 1..pc[x]-1
  BY <1>1, <1>3
<1>4. Past(x, P("sem_endp2")) => Past(x, Start("p2")) /\ Past(x, V("sem_startp2"))
  BY <1>1, <1>2, <1>3 DEF Past, Prepared
<1>5. Past(x, P("sem_endp3")) => Past(x, Start("p3"))
  BY <1>1, <1>2, <1>3 DEF Past, Prepared
<1>6. Past(x, P("sem_blkp4")) => Past(x, P("sem_endp5"))
  BY <1>1, <1>2, <1>3 DEF Past, Prepared
<1>7. ASSUME Past(x, P("sem_endp5")) PROVE Past(x, Start("p4")) /\ Past(x, Start("p5"))
  <2>1. PICK k \in 1..pc[x]-1 : k \in 1..Len(P1) /\ P1[k] = P("sem_endp5")
    BY <1>1, <1>7 DEF Past
  <2>2. /\ \E j \in 1..k-1 : P1[j] = Start("p4")
        /\ \E j \in 1..k-1 : P1[j] = Start("p5")
    BY <1>2, <2>1 DEF Ordered
  <2>3. 1..k-1 \subseteq 1..pc[x]-1
    BY <1>1, <2>1
  <2> QED BY <1>1, <2>2, <2>3 DEF Past
<1>8. ASSUME Past(x, V("sem_startp2")) PROVE Past(x, Start("p2"))
  <2>1. PICK k \in 1..pc[x]-1 : k \in 1..Len(P1) /\ P1[k] = V("sem_startp2")
    BY <1>1, <1>8 DEF Past
  <2>2. PICK j \in 1..k-1 : P1[j] = Store("p2")
    <3>1. Raises("p1", P1, k, "sem_startp2")
      BY <1>1, <2>1 DEF Lawful, RightSems
    <3> QED BY <3>1 DEF Raises
  <2>3. j > 1 /\ P1[j-1] = Start("p2")
    <3>1. j \in 1..Len(P1)
      BY <1>1, <2>1
    <3>2. Stores("p1", P1, j, "p2")
      BY <1>1, <2>2, <3>1 DEF Lawful, RightValues
    <3> QED BY <3>2 DEF Stores
  <2>4. j-1 \in 1..pc[x]-1
    BY <1>1, <2>1, <2>3
  <2> QED BY <1>1, <2>3, <2>4 DEF Past
<1> QED BY <1>4, <1>5, <1>6, <1>7, <1>8

\* What p1 has and has not done when it executes i.
LEMMA P1Doing ==
  ASSUME Sound, NEW i, At(i), runs[current] = "p1"
  PROVE  /\ i = Start("p4") => ~Past(current, Start("p5"))
         /\ i = Start("p5") => ~Past(current, P("sem_endp5"))
         /\ i \in {P("sem_endp2"), P("sem_endp3"), P("sem_endp5"), P("sem_blkp4")} =>
              ~Past(current, i)
         /\ i = P("sem_endp2") => Past(current, Start("p2"))
         /\ i = P("sem_endp3") => Past(current, Start("p3"))
         /\ i = P("sem_endp5") => Past(current, Start("p4")) /\ Past(current, Start("p5"))
         /\ i = P("sem_blkp4") => Past(current, P("sem_endp5"))
         /\ i = P("sem_endp8") => Did(current, Store("p8root"))
<1> DEFINE x == current  k == pc[current]
<1>1. /\ Text(x) = P1 /\ k \in 1..Len(P1) /\ P1[k] = i /\ Len(P1) \in Nat /\ k \in Nat
      /\ Lawful("p1", P1) /\ \A j \in 1..k-1 : j \in 1..Len(P1) /\ j # k
  BY AtLive, HasDone, Programs DEF Text
<1>2. Prepared(P1) /\ Ordered(P1, 3)
  BY P1InOrder DEF Tied
<1>3. \A c : Past(x, c) <=> \E j \in 1..k-1 : P1[j] = c
  BY <1>1 DEF Past
<1> HIDE DEF x, k
<1>4. i = Start("p4") => ~Past(x, Start("p5"))
  <2> SUFFICES ASSUME i = Start("p4"), NEW j \in 1..k-1, P1[j] = Start("p5") PROVE FALSE
    BY <1>3
  <2>1. k < j
    BY <1>1, <1>2 DEF Ordered
  <2> QED BY <1>1, <2>1
<1>5. i = P("sem_endp5") =>
        ~Past(x, i) /\ Past(x, Start("p4")) /\ Past(x, Start("p5"))
  BY <1>1, <1>2, <1>3 DEF Ordered
<1>6. i = Start("p5") => ~Past(x, P("sem_endp5"))
  <2> SUFFICES ASSUME i = Start("p5"), NEW j \in 1..k-1, P1[j] = P("sem_endp5") PROVE FALSE
    BY <1>3
  <2>1. PICK h \in 1..j-1 : P1[h] = Start("p5")
    BY <1>1, <1>2 DEF Ordered
  <2>2. h \in 1..Len(P1) /\ h # k
    BY <1>1
  <2>3. \A g \in 1..Len(P1) : P1[g] = Start("p5") => g = k
    <3>1. Starts("p1", P1, k, "p5")
      BY <1>1 DEF Lawful, RightStarts
    <3> QED BY <3>1 DEF Starts
  <2> QED BY <2>1, <2>2, <2>3
<1>7. /\ \A g \in 1..Len(P1) : P1[g] = Start("p2") => \A h \in 1..Len(P1) : P1[h] = Start("p2") => g = h
      /\ \A g \in 1..Len(P1) : P1[g] = Start("p3") => \A h \in 1..Len(P1) : P1[h] = Start("p3") => g = h
  BY <1>1 DEF Lawful, RightStarts, Starts
<1>8. \A g \in 1..Len(P1) : \A d \in {1, 4, 5, 6} : g > d => g-d \in 1..Len(P1) /\ (g < k => g-d < k-d)
                                             /\ (g = k => g-d \in 1..k-1)
  BY <1>1
<1>9. i = P("sem_endp2") => ~Past(x, i) /\ Past(x, Start("p2"))
  <2> SUFFICES ASSUME i = P("sem_endp2")
               PROVE  ~Past(x, i) /\ Past(x, Start("p2"))
    OBVIOUS
  <2>1. k > 6 /\ P1[k-6] = Start("p2") /\ k-6 \in 1..Len(P1) /\ k-6 \in 1..k-1
    BY <1>1, <1>2, <1>8 DEF Prepared
  <2>2. ASSUME NEW j \in 1..k-1, P1[j] = i PROVE FALSE
    <3>1. j > 6 /\ P1[j-6] = Start("p2") /\ j-6 \in 1..Len(P1)
      BY <1>1, <1>2, <1>8, <2>2 DEF Prepared
    <3>2. j-6 = k-6
      BY <1>7, <2>1, <3>1
    <3> QED BY <1>1, <3>2
  <2> QED BY <1>3, <2>1, <2>2
<1>10. i = P("sem_endp3") => ~Past(x, i) /\ Past(x, Start("p3"))
  <2> SUFFICES ASSUME i = P("sem_endp3")
               PROVE  ~Past(x, i) /\ Past(x, Start("p3"))
    OBVIOUS
  <2>1. k > 5 /\ P1[k-5] = Start("p3") /\ k-5 \in 1..Len(P1) /\ k-5 \in 1..k-1
    BY <1>1, <1>2, <1>8 DEF Prepared
  <2>2. ASSUME NEW j \in 1..k-1, P1[j] = i PROVE FALSE
    <3>1. j > 5 /\ P1[j-5] = Start("p3") /\ j-5 \in 1..Len(P1)
      BY <1>1, <1>2, <1>8, <2>2 DEF Prepared
    <3>2. j-5 = k-5
      BY <1>7, <2>1, <3>1
    <3> QED BY <1>1, <3>2
  <2> QED BY <1>3, <2>1, <2>2
<1>11. i = P("sem_blkp4") => ~Past(x, i) /\ Past(x, P("sem_endp5"))
  <2> SUFFICES ASSUME i = P("sem_blkp4")
               PROVE  ~Past(x, i) /\ Past(x, P("sem_endp5"))
    OBVIOUS
  <2>1. k > 4 /\ P1[k-4] = P("sem_endp5") /\ k-4 \in 1..Len(P1) /\ k-4 \in 1..k-1
    BY <1>1, <1>2, <1>8 DEF Prepared
  <2>2. ASSUME NEW j \in 1..k-1, P1[j] = i PROVE FALSE
    <3>1. j > 4 /\ P1[j-4] = P("sem_endp5") /\ j-4 \in 1..Len(P1)
      BY <1>1, <1>2, <1>8, <2>2 DEF Prepared
    <3>2. j-4 = k-4
      BY <1>2, <2>1, <3>1 DEF Ordered
    <3> QED BY <1>1, <3>2
  <2> QED BY <1>3, <2>1, <2>2
<1>12. i = P("sem_endp8") => Did(x, Store("p8root"))
  BY <1>1, <1>2 DEF Prepared, Did, x, k
<1> QED BY <1>4, <1>5, <1>6, <1>9, <1>10, <1>11, <1>12 DEF x

\* The process that has just taken the mutex writes, and releases it then.
LEMMA PrintsOn ==
  ASSUME Sound, NEW i, At(i)
  PROVE  /\ Did(current, P(Mutex)) => i = WriteChar
         /\ Did(current, WriteChar) => i = V(Mutex)
         /\ Did(current, WriteChar) \/ Did(current, P(Mutex)) => Printing(current)
<1> DEFINE S == Text(current)  k == pc[current]
<1>1. /\ k \in 1..Len(S) /\ S[k] = i /\ Len(S) \in Nat /\ k \in Nat /\ Unbroken(S)
      /\ current \in Live
  BY AtLive, HasDone, AllUnbroken DEF Text
<1>2. k > 1 => k-1 \in 1..Len(S) /\ (k-1)+1 = k
  BY <1>1
<1>3. /\ Did(current, P(Mutex)) => i = WriteChar
      /\ Did(current, WriteChar) => i = V(Mutex)
  BY <1>1, <1>2 DEF Unbroken, Did, Mutex
<1>4. ~Blocked(current, Mutex)
  BY NotWaiting, MutexName, TestSoftSems DEF Blocked
<1> QED BY <1>1, <1>3, <1>4 DEF Printing

----------------------------------------------------------------------------
(* Nobody waits for ever: what everybody waits for is still to come *)

\* The mutex is free, or somebody is inside print().
MutexHeld == sem[Mutex] <= 0 /\ Live # {} => \E x \in Pcbs : Printing(x)

\* Nobody who prints is terminated, but at p1's end.
LEMMA PrinterSurvives ==
  ASSUME TInv, Peace4, Leaves8, NEW t, Kills(t), Live' # {}, NEW x, Printing(x)
  PROVE  x \in Live'
<1>0. Sound /\ Single /\ Waits /\ x \in Live
  BY DEF TInv, Printing
<1> SUFFICES ASSUME x \notin Live' PROVE FALSE
  OBVIOUS
<1>1. x # current
  <2>1. At(Exit) \/ At(Trap) \/ At(KillParent)
    BY DEF Kills, Asks
  <2>2. WriteChar \notin {Exit, Trap, KillParent} /\ V(Mutex) \notin {Exit, Trap, KillParent}
    BY Fields
  <2> QED BY <1>0, <2>1, <2>2, PrintsOn DEF Printing
<1>2. runs[x] \in Short => pc[x] <= 3
  <2> SUFFICES ASSUME runs[x] \in Short PROVE pc[x] <= 3
    OBVIOUS
  <2>1. /\ Lawful(runs[x], Text(x)) /\ Unbroken(Text(x)) /\ pc[x] \in Nat
        /\ pc[x] - 1 \in 1..pc[x]-1 => pc[x]-1 \in 1..Len(Text(x))
        /\ Len(Text(x)) \in Nat
    BY <1>0, HasDone, AllUnbroken DEF Text
  <2>2. /\ Did(x, WriteChar) => pc[x]-1 \in 1..Len(Text(x)) /\ Text(x)[pc[x]-1] = WriteChar
        /\ Did(x, P(Mutex)) => pc[x]-1 \in 1..Len(Text(x)) /\ Text(x)[pc[x]-1] = P(Mutex)
    BY <2>1 DEF Did
  <2>3. Did(x, WriteChar) => pc[x]-1 = 2
    BY <2>1, <2>2 DEF Lawful, RightWaits
  <2>4. Did(x, P(Mutex)) => pc[x]-1+1 = 2
    BY <2>1, <2>2 DEF Lawful, RightWaits, Unbroken, Mutex
  <2> QED BY <2>1, <2>3, <2>4 DEF Printing
<1>3. /\ x \in Pcbs /\ t \in Live
      /\ t = current \/ (runs[t] = "p9" /\ t = parent[current] /\ runs[current] = "p10")
      /\ runs[t] \in Leaving \cup {"p1", "p6", "p7", "p9"}
  BY <1>0, Killed DEF Live
<1>4. \/ At(Exit)
      \/ At(Trap) /\ runs[current] \in {"p5", "p1", "p6", "p7"}
      \/ At(KillParent) /\ runs[current] = "p10"
  <2>1. At(Exit) \/ At(Trap) \/ At(KillParent)
    BY DEF Kills, Asks
  <2> QED BY <1>0, <2>1, Doing
<1>5. current \in Live /\ (At(Exit) => runs[current] \in Leaving)
  BY <1>0, <1>4, AtLive, Doing
<1>6. CASE x = t
  <2>1. runs[x] = "p9" /\ x = parent[current] /\ runs[current] = "p10"
    BY <1>1, <1>3, <1>6
  <2>2. \E k \in 1..pc[x]-1 : Makes("p9", k, "p10")
    BY <1>0, <1>5, <2>1, ParentRuns DEF Starts
  <2>3. pc[x] > 4 /\ pc[x] <= 3
    BY <1>0, <1>2, <2>1, <2>2, HasDone DEF Makes, Short
  <2> QED BY <1>0, <2>3, HasDone
<1>7. CASE runs[x] = "p4b" /\ runs[t] = "p4"
  BY <1>0, <1>2, <1>3, <1>4, <1>7, ExitsLast, HasDone DEF Is, Short
<1>8. CASE runs[x] = "p10" /\ runs[t] = "p9"
  <2>1. runs[current] = "p9" => FALSE
    BY <1>4, <1>5 DEF Leaving
  <2> QED BY <1>0, <1>1, <1>3, <1>5, <1>8, <2>1 DEF Single
<1>9. CASE runs[x] \in Children \cup LeafSet /\ runs[t] = "p8root"
  BY <1>0, <1>2, <1>3, <1>4, <1>9, ExitsLast, HasDone DEF Short
<1> QED BY <1>0, <1>6, <1>7, <1>8, <1>9, KillScope

\* MutexHeld is kept: whoever has the mutex gives it back before it ends.
LEMMA MutexHeldKept ==
  ASSUME TInv, PrintsAlone, Peace4, Leaves8, MutexHeld, [TestNext]_testVars
  PROVE  MutexHeld'
<1>0. Sound /\ Waits /\ sem[Mutex] \in Int /\ Mutex \in Sems /\ Mutex \in UserSems
  BY Unpacked, MutexName DEF TInv, Sound
<1>b. sem[Mutex] <= 1 /\ \A x, y : Printing(x) /\ Printing(y) => x = y
  BY DEF PrintsAlone
<1> SUFFICES ASSUME sem'[Mutex] <= 0, Live' # {} PROVE \E x \in Pcbs : Printing(x)'
  BY DEF MutexHeld, Mutex
<1>l. Live # {}
  BY <1>0, NobodyFromNothing
<1>h. sem[Mutex] <= 0 => \E x \in Pcbs : Printing(x)
  BY <1>l DEF MutexHeld
<1> DEFINE Goal == \E x \in Pcbs : Printing(x)'
<1>1. ASSUME Quiet PROVE Goal
  <2>1. (\A x : Printing(x)' <=> Printing(x)) /\ sem'[Mutex] = sem[Mutex]
    BY <1>0, <1>1, QuietProcesses DEF Printing
  <2> QED BY <1>h, <2>1
<1>2. ASSUME NEW q, NEW p, Creates(q, p) PROVE Goal
  <2>1. /\ Live' = Live \cup {p} /\ p \notin Live
        /\ \A z \in Pcbs : \A j : z # p =>
             (Did(z, j)' <=> IF z = current THEN j = Start(q) ELSE Did(z, j))
        /\ \A z, s : Blocked(z, s)' <=> Blocked(z, s)
        /\ UNCHANGED <<sem, semq, busy>>
    BY <1>0, <1>2, CreatesProcesses
  <2>2. At(Start(q))
    BY <1>0, <1>2, Starting
  <2>3. PICK x \in Pcbs : Printing(x)
    BY <1>h, <2>1
  <2>4. x # current
    BY <1>0, <2>2, <2>3, PrintsOn, Fields DEF Printing
  <2> QED BY <2>1, <2>3, <2>4 DEF Printing
<1>3. ASSUME NEW t, Kills(t) PROVE Goal
  <2>0. PICK K : K = Subtree(t)
    OBVIOUS
  <2>1. /\ \A z \in Live' : z \in Live /\ z \notin K
        /\ \A z \in Live' : \A j : Did(z, j)' <=> Did(z, j)
        /\ sem'[Mutex] = sem[Mutex] \/ sem[Mutex] < 0
        /\ \A z : Blocked(z, Mutex)' <=> Blocked(z, Mutex) /\ z \notin K
    BY <1>0, <1>3, <2>0, KillsProcesses
  <2>2. PICK x \in Pcbs : Printing(x)
    BY <1>0, <1>h, <2>1
  <2>3. x \in Live'
    BY <1>3, <2>2, PrinterSurvives
  <2> QED BY <2>1, <2>2, <2>3 DEF Printing
<1>4. ASSUME NEW i, Does(i) PROVE Goal
  <2>0. At(i) /\ P(Mutex) # V(Mutex) /\ P(Mutex) # WriteChar /\ V(Mutex) # WriteChar
    BY <1>4, Fields DEF Does
  <2>1. /\ Live' = Live /\ current \in Live /\ current \in Pcbs
        /\ \A x \in Pcbs : \A j : Did(x, j)' <=> IF x = current THEN j = i ELSE Did(x, j)
    BY <1>0, <1>4, DoesProcesses
  <2>q. /\ \A x : Blocked(x, Mutex)' =>
                Blocked(x, Mutex) \/ (i = P(Mutex) /\ x = current /\ sem[Mutex] <= 0)
        /\ ~Blocked(current, Mutex)
    BY <1>0, <1>4, DoesQueues, NotWaiting DEF Blocked
  <2>2. CASE i = WriteChar
    <3> PICK c \in Pcbs : c = current
      BY <2>1
    <3>1. Printing(c)'
      BY <2>1, <2>2 DEF Printing
    <3> QED BY <3>1
  <2>3. CASE i = V(Mutex)
    <3>1. sem'[Mutex] = sem[Mutex] + 1
      BY <1>0, <1>4, <2>3, DoesValues
    <3>2. sem[Mutex] < 0
      BY <1>0, <3>1
    <3>3. PICK w : Blocked(w, Mutex) /\ \A x : Blocked(x, Mutex)' <=> Blocked(x, Mutex) /\ x # w
      BY <1>0, <1>4, <2>3, <3>2, OneWakes
    <3>4. w \in Live /\ w \in Pcbs /\ w # current /\ Did(w, P(Mutex))
      BY <1>0, <2>q, <3>3, NotWaiting DEF Blocked, Waits, Live
    <3> QED BY <2>1, <3>3, <3>4 DEF Printing
  <2>4. CASE i = P(Mutex) /\ sem[Mutex] > 0
    <3> PICK c \in Pcbs : c = current
      BY <2>1
    <3>1. ~Blocked(c, Mutex)'
      BY <1>0, <2>4, <2>q
    <3>2. Printing(c)'
      BY <2>1, <2>4, <3>1 DEF Printing
    <3> QED BY <3>2
  <2>5. CASE i \notin {V(Mutex), WriteChar} /\ (i = P(Mutex) => ~(sem[Mutex] > 0))
    <3>1. sem[Mutex] <= 0
      <4>1. i # P(Mutex) => sem'[Mutex] = sem[Mutex]
        BY <1>0, <1>4, <2>5, DoesValues, MutexName
      <4> QED BY <1>0, <2>5, <4>1
    <3>2. PICK x \in Pcbs : Printing(x)
      BY <1>h, <3>1
    <3>3. x # current
      BY <1>0, <2>0, <2>5, <3>2, PrintsOn DEF Printing
    <3> QED BY <2>1, <2>q, <3>2, <3>3 DEF Printing
  <2> QED BY <2>2, <2>3, <2>4, <2>5
<1> QED BY <1>0, <1>1, <1>2, <1>3, <1>4, StepView

\* Each step once more, seen by one process.

\* A process runs q and has not come past instruction k.
Coming(q, k) == \E y \in Pcbs : Is(y, q) /\ pc[y] <= k

\* Somebody is alive, so p1 is.
LEMMA RootLives ==
  ASSUME Sound, Live # {}
  PROVE  \E x \in Pcbs : Is(x, "p1")
<1>1. ASSUME NEW x \in Live, runs[x] # "p1"
      PROVE  /\ parent[x] \in Live
             /\ \E k : Makes(runs[parent[x]], k, runs[x])
  BY <1>1, ParentRuns DEF Starts
<1>2. ASSUME NEW x \in Live, runs[x] \in {"p4", "p9", "p8root"} \cup ByP1
      PROVE  \E z \in Live : runs[z] = "p1"
  <2>1. runs[x] # "p1"
    BY <1>2 DEF ByP1
  <2>2. runs[parent[x]] = "p1"
    BY <1>1, <1>2, <2>1 DEF Makes, ByP1
  <2> QED BY <1>1, <2>1, <2>2
<1>3. ASSUME NEW x \in Live, runs[x] \in {"p4b", "p10"} \cup Children
      PROVE  \E z \in Live : runs[z] = "p1"
  <2>1. runs[x] # "p1"
    BY <1>3 DEF Children
  <2>2. runs[parent[x]] \in {"p4", "p9", "p8root"}
    BY <1>1, <1>3, <2>1 DEF Makes, ByP1, Children
  <2> QED BY <1>1, <1>2, <2>1, <2>2
<1>4. ASSUME NEW x \in Live, runs[x] \in LeafSet
      PROVE  \E z \in Live : runs[z] = "p1"
  <2>1. runs[x] # "p1"
    BY <1>4 DEF LeafSet
  <2>2. runs[parent[x]] \in Children
    BY <1>1, <1>4, <2>1 DEF Makes, ByP1, Children, LeafSet
  <2> QED BY <1>1, <1>3, <2>1, <2>2
<1>5. PICK x \in Live : TRUE
  OBVIOUS
<1>6. runs[x] \in Processes
  BY HasDone
<1>7. \E z \in Live : runs[z] = "p1"
  BY <1>2, <1>3, <1>4, <1>5, <1>6, ProcessNames DEF ByP1, Children, LeafSet
<1> QED BY <1>7, HasDone DEF Is

\* A process that exits is terminated by nothing but that.
LEMMA LeavesAlone ==
  ASSUME Sound, Single, NEW t, Kills(t), Live' # {}, NEW x \in Live, x \notin Live',
         runs[x] \in {"p2", "p3", "p4", "p5", "p8root"}
  PROVE  x = current /\ At(Exit) /\ pc[x] = Len(Text(x))
<1>1. x = t
  BY KillScope DEF Children, LeafSet
<1>2. x = current
  BY <1>1, Killed
<1>3. At(Exit)
  <2>1. At(Exit) \/ (At(Trap) /\ ~support[current]) \/ At(KillParent)
    BY DEF Kills, Asks
  <2>2. At(KillParent) => runs[current] = "p10"
    BY Doing
  <2>3. At(Trap) => runs[current] \in {"p1", "p5", "p6", "p7"}
    BY Doing
  <2>4. support[x] = (runs[x] = "p5")
    BY DEF Sound, Kin
  <2>5. runs[current] = "p5" => support[current]
    BY <1>2, <2>4
  <2> QED BY <1>2, <2>1, <2>2, <2>3, <2>5
<1> QED BY <1>2, <1>3, Doing

\* The stages at which the others wait for a process.
Stage(q, k) ==
  <<q, k>> \in {<<"p2", 19>>, <<"p3", 12>>, <<"p4", 14>>, <<"p5", 23>>,
                <<"p5", 26>>, <<"p5", 27>>, <<"p8root", 10>>}

\* What is known of these instructions from the programs.
LEMMA Stages ==
  ASSUME NEW q, NEW k, Stage(q, k)
  PROVE  /\ q \in {"p2", "p3", "p4", "p5", "p8root"} /\ k \in Nat /\ k >= 1
         /\ k < Len(Program(q))
         /\ \A r : Program(q)[k] # Start(r)
         /\ Program(q)[k] # Exit
<1>w. \A c, r : P(c) # Start(r) /\ V(c) # Start(r) /\ P(c) # Exit /\ V(c) # Exit
  BY Fields
<1>1. CASE q = "p2" /\ k = 19
  <2>1. Len(Program(q)) = 20 /\ Program(q)[k] = V("sem_endp2")
    BY <1>1, Programs, P2Text
  <2>a. k = 19
    BY <1>1
  <2>2. k \in Nat /\ k >= 1 /\ k < Len(Program(q))
    BY ONLY <2>1, <2>a
  <2>3. (\A r : Program(q)[k] # Start(r)) /\ Program(q)[k] # Exit
    BY <1>w, <2>1
  <2> QED BY <1>1, <2>2, <2>3
<1>2. CASE q = "p3" /\ k = 12
  <2>1. Len(Program(q)) = 13 /\ Program(q)[k] = V("sem_endp3")
    BY <1>2, Programs, P3Text
  <2>a. k = 12
    BY <1>2
  <2>2. k \in Nat /\ k >= 1 /\ k < Len(Program(q))
    BY ONLY <2>1, <2>a
  <2>3. (\A r : Program(q)[k] # Start(r)) /\ Program(q)[k] # Exit
    BY <1>w, <2>1
  <2> QED BY <1>2, <2>2, <2>3
<1>3. CASE q = "p4" /\ k = 14
  <2>1. Len(Program(q)) = 15 /\ Program(q)[k] = V("sem_endp4")
    BY <1>3, Programs, P4Text
  <2>a. k = 14
    BY <1>3
  <2>2. k \in Nat /\ k >= 1 /\ k < Len(Program(q))
    BY ONLY <2>1, <2>a
  <2>3. (\A r : Program(q)[k] # Start(r)) /\ Program(q)[k] # Exit
    BY <1>w, <2>1
  <2> QED BY <1>3, <2>2, <2>3
<1>4. CASE q = "p5" /\ k \in {23, 26, 27}
  <2>1. Len(Program(q)) = 28
    BY <1>4, Programs, P5Text
  <2>2. \E c : Program(q)[k] = P(c) \/ Program(q)[k] = V(c)
    BY <1>4, Programs, P5Text
  <2>a. k \in {23, 26, 27}
    BY <1>4
  <2>3. k \in Nat /\ k >= 1 /\ k < Len(Program(q))
    BY ONLY <2>1, <2>a
  <2>4. (\A r : Program(q)[k] # Start(r)) /\ Program(q)[k] # Exit
    BY <1>w, <2>2
  <2> QED BY <1>4, <2>3, <2>4
<1>5. CASE q = "p8root" /\ k = 10
  <2>1. Len(Program(q)) = 11 /\ Program(q)[k] = V("sem_endp8")
    BY <1>5, Programs, P8rootText
  <2>a. k = 10
    BY <1>5
  <2>2. k \in Nat /\ k >= 1 /\ k < Len(Program(q))
    BY ONLY <2>1, <2>a
  <2>3. (\A r : Program(q)[k] # Start(r)) /\ Program(q)[k] # Exit
    BY <1>w, <2>1
  <2> QED BY <1>5, <2>2, <2>3
<1> QED BY <1>1, <1>2, <1>3, <1>4, <1>5 DEF Stage

\* A process stays before a stage until it executes it.
LEMMA StillComing ==
  ASSUME Sound, Single, [TestNext]_testVars, Live' # {},
         NEW q, NEW k, Stage(q, k), Coming(q, k)
  PROVE  \/ Coming(q, k)'
         \/ Is(current, q) /\ current \in Pcbs /\ pc[current] = k /\ Does(Program(q)[k])
<1>s. /\ q \in {"p2", "p3", "p4", "p5", "p8root"} /\ k \in Nat /\ k >= 1
      /\ k < Len(Program(q))
      /\ \A r : Program(q)[k] # Start(r)
  BY Stages
<1>y. PICK y \in Pcbs : Is(y, q) /\ pc[y] <= k
  BY DEF Coming
<1>l. y \in Live /\ runs[y] = q /\ Text(y) = Program(q) /\ pc[y] \in Nat
  BY <1>y, HasDone DEF Is, Text
<1> DEFINE Goal == \/ Coming(q, k)'
                   \/ Is(current, q) /\ current \in Pcbs /\ pc[current] = k /\ Does(Program(q)[k])
<1>g. Is(y, q)' /\ pc'[y] <= k => Goal
  BY DEF Coming
<1>1. ASSUME Quiet PROVE Goal
  <2>1. pc' = pc /\ Is(y, q)'
    BY <1>1, <1>y, QuietProcesses DEF Is
  <2> QED BY <1>g, <1>y, <2>1
<1>2. ASSUME NEW i, Does(i) PROVE Goal
  <2>1. /\ Is(y, q)' /\ current \in Live /\ current \in Pcbs
        /\ pc'[current] = pc[current] + 1
        /\ y # current => pc'[y] = pc[y]
    BY <1>2, <1>y, DoesProcesses DEF Is
  <2>2. CASE y = current /\ pc[y] = k
    <3>1. At(i)
      BY <1>2 DEF Does
    <3>2. i = Program(q)[k]
      BY <1>l, <2>2, <3>1, AtLive
    <3> QED BY <1>2, <1>y, <2>1, <2>2, <3>2
  <2>3. CASE ~(y = current /\ pc[y] = k)
    BY <1>g, <1>l, <1>s, <1>y, <2>1, <2>3
  <2> QED BY <2>2, <2>3
<1>3. ASSUME NEW r, NEW p, Creates(r, p) PROVE Goal
  <2>1. /\ p \notin Live /\ pc'[current] = pc[current] + 1
        /\ Text(current)[pc[current]] = Start(r)
        /\ \A x \in Pcbs : x # p => (x # current => pc'[x] = pc[x])
    BY <1>3, CreatesProcesses
  <2>a. Is(y, q)' <=> IF y = p THEN q = r ELSE Is(y, q)
    BY <1>3, Starting
  <2>2. y # p /\ Is(y, q)'
    BY <1>l, <1>y, <2>1, <2>a
  <2>3. ~(y = current /\ pc[y] = k)
    BY <1>l, <1>s, <2>1
  <2> QED BY <1>g, <1>l, <1>s, <1>y, <2>1, <2>2, <2>3
<1>4. ASSUME NEW t, Kills(t) PROVE Goal
  <2>1. y \in Live'
    BY <1>4, <1>l, <1>s, <1>y, LeavesAlone
  <2>2. PICK K : K = Subtree(t)
    OBVIOUS
  <2>3. runs'[y] = runs[y] /\ pc'[y] = pc[y]
    BY <1>4, <2>1, <2>2, KillsProcesses
  <2> QED BY <1>g, <1>l, <1>y, <2>1, <2>3 DEF Is
<1> QED BY <1>1, <1>2, <1>3, <1>4, StepView

\* Nobody comes but whom somebody starts.
LEMMA Comes ==
  ASSUME Sound, Single, Waits, [TestNext]_testVars, NEW y \in Pcbs, NEW q, Is(y, q)'
  PROVE  \/ Is(y, q) /\ pc'[y] >= pc[y] /\ pc[y] \in Nat /\ pc'[y] \in Nat
         \/ Creates(q, y) /\ pc'[y] = 1
<1> DEFINE Goal == \/ Is(y, q) /\ pc'[y] >= pc[y] /\ pc[y] \in Nat /\ pc'[y] \in Nat
                   \/ Creates(q, y) /\ pc'[y] = 1
<1>g. ASSUME Is(y, q), pc'[y] \in {pc[y], pc[y] + 1} PROVE Goal
  <2>1. pc[y] \in Nat
    BY <1>g, HasDone DEF Is
  <2> QED BY <1>g, <2>1
<1>1. ASSUME Quiet PROVE Goal
  BY <1>1, <1>g, QuietProcesses DEF Is
<1>2. ASSUME NEW i, Does(i) PROVE Goal
  BY <1>2, <1>g, DoesProcesses DEF Is
<1>3. ASSUME NEW r, NEW p, Creates(r, p) PROVE Goal
  <2>1. /\ Is(y, q)' <=> IF y = p THEN q = r ELSE Is(y, q)
    BY <1>3, Starting
  <2>2. /\ pc'[p] = 1 /\ pc'[current] = pc[current] + 1
        /\ y # p => (y # current => pc'[y] = pc[y])
    BY <1>3, CreatesProcesses
  <2> QED BY <1>3, <1>g, <2>1, <2>2
<1>4. ASSUME NEW t, Kills(t) PROVE Goal
  BY <1>4, <1>g, Survivors DEF Is
<1> QED BY <1>1, <1>2, <1>3, <1>4, StepView

\* What p1 has come past after a step.
LEMMA RootGoes ==
  ASSUME Sound, Single, Waits, [TestNext]_testVars, NEW x \in Pcbs, Is(x, "p1")', NEW j
  PROVE  /\ Is(x, "p1") /\ (Past(x, j) => Past(x, j)')
         /\ Past(x, j)' =>
              \/ Past(x, j)
              \/ x = current /\ Does(j)
              \/ x = current /\ \E q, p : j = Start(q) /\ Creates(q, p)
         /\ Did(x, j)' =>
              \/ Did(x, j) /\ (\A i : Does(i) => x # current) /\ (\A q, p : Creates(q, p) => x # current)
              \/ x = current /\ Does(j)
              \/ x = current /\ \E q, p : j = Start(q) /\ Creates(q, p)
<1> DEFINE Goal ==
         /\ Is(x, "p1") /\ (Past(x, j) => Past(x, j)')
         /\ Past(x, j)' =>
              \/ Past(x, j)
              \/ x = current /\ Does(j)
              \/ x = current /\ \E q, p : j = Start(q) /\ Creates(q, p)
         /\ Did(x, j)' =>
              \/ Did(x, j) /\ (\A i : Does(i) => x # current) /\ (\A q, p : Creates(q, p) => x # current)
              \/ x = current /\ Does(j)
              \/ x = current /\ \E q, p : j = Start(q) /\ Creates(q, p)
<1>d. ASSUME NEW i, Does(i) PROVE \A q, p : ~Creates(q, p)
  BY <1>d DEF Does, Creates, At
<1>1. ASSUME Quiet PROVE Goal
  <2>1. /\ Is(x, "p1") /\ (Did(x, j)' <=> Did(x, j)) /\ (Past(x, j)' <=> Past(x, j))
        /\ pc' = pc
    BY <1>1, QuietProcesses DEF Is
  <2>2. /\ \A i : Does(i) => x # current
        /\ \A q, p : Creates(q, p) => x # current
    <3>1. ASSUME x = current, pc'[current] = pc[current] + 1 PROVE FALSE
      BY <2>1, <3>1, HasDone DEF Is
    <3> QED BY <3>1, DoesProcesses, CreatesProcesses
  <2> QED BY <2>1, <2>2
<1>2. ASSUME NEW i, Does(i) PROVE Goal
  <2>1. /\ Is(x, "p1")
        /\ Did(x, j)' <=> IF x = current THEN j = i ELSE Did(x, j)
        /\ Past(x, j)' <=> Past(x, j) \/ (x = current /\ j = i)
    BY <1>2, DoesProcesses DEF Is
  <2> QED BY <1>2, <1>d, <2>1
<1>3. ASSUME NEW r, NEW p, Creates(r, p) PROVE Goal
  <2>1. x # p /\ Is(x, "p1")
    BY <1>3, Starting
  <2>2. /\ Did(x, j)' <=> IF x = current THEN j = Start(r) ELSE Did(x, j)
        /\ Past(x, j)' <=> Past(x, j) \/ (x = current /\ j = Start(r))
    BY <1>3, <2>1, CreatesProcesses
  <2> QED BY <1>3, <1>d, <2>1, <2>2
<1>4. ASSUME NEW t, Kills(t) PROVE Goal
  <2>1. /\ Is(x, "p1") /\ (Did(x, j)' <=> Did(x, j)) /\ (Past(x, j)' <=> Past(x, j))
        /\ x # current
    BY <1>4, Survivors DEF Is
  <2> QED BY <2>1
<1> QED BY <1>1, <1>2, <1>3, <1>4, StepView

\* What a semaphore is after a step, and who waits on it.
LEMMA SemGoes ==
  ASSUME Sound, Single, Waits, [TestNext]_testVars, NEW s \in UserSems
  PROVE  /\ sem[s] \in Int /\ sem'[s] \in Int
         /\ \/ sem'[s] = sem[s] /\ ~Does(V(s)) /\ ~Does(P(s))
            \/ sem'[s] = sem[s] + 1 /\ Does(V(s))
            \/ sem'[s] = sem[s] - 1 /\ Does(P(s))
            \/ sem[s] < 0 /\ sem'[s] <= 0 /\ \E t : Kills(t)
            \/ s \in P8Sems /\ Does(Reset) /\ sem'[s] = 0
         /\ \A x \in Live' : Blocked(x, s)' =>
              \/ Blocked(x, s)
              \/ x = current /\ Does(P(s)) /\ sem[s] <= 0
         /\ \A x \in Live' : Blocked(x, s) => Blocked(x, s)' \/ Does(V(s))
<1> DEFINE Goal ==
         /\ sem[s] \in Int /\ sem'[s] \in Int
         /\ \/ sem'[s] = sem[s] /\ ~Does(V(s)) /\ ~Does(P(s))
            \/ sem'[s] = sem[s] + 1 /\ Does(V(s))
            \/ sem'[s] = sem[s] - 1 /\ Does(P(s))
            \/ sem[s] < 0 /\ sem'[s] <= 0 /\ \E t : Kills(t)
            \/ s \in P8Sems /\ Does(Reset) /\ sem'[s] = 0
         /\ \A x \in Live' : Blocked(x, s)' =>
              \/ Blocked(x, s)
              \/ x = current /\ Does(P(s)) /\ sem[s] <= 0
         /\ \A x \in Live' : Blocked(x, s) => Blocked(x, s)' \/ Does(V(s))
<1>n. sem[s] \in Int
  BY TestSoftSems, Unpacked DEF Sound
<1>d. sem'[s] = sem[s] => ~Does(V(s)) /\ ~Does(P(s))
  BY <1>n, DoesValues
<1>1. ASSUME Quiet PROVE Goal
  BY <1>1, <1>d, <1>n, QuietProcesses
<1>2. ASSUME NEW i, Does(i) PROVE Goal
  <2>1. /\ i = P(s) => sem'[s] = sem[s] - 1
        /\ i = V(s) => sem'[s] = sem[s] + 1
        /\ i = Reset /\ s \in P8Sems => sem'[s] = 0
        /\ i # P(s) /\ i # V(s) /\ (i = Reset => s \notin P8Sems) => sem'[s] = sem[s]
    BY <1>2, DoesValues
  <2>2. /\ \A x : Blocked(x, s)' =>
              Blocked(x, s) \/ (i = P(s) /\ x = current /\ sem[s] <= 0)
        /\ \A x : Blocked(x, s) /\ i # V(s) => Blocked(x, s)'
    BY <1>2, DoesQueues
  <2>3. sem'[s] \in Int
    BY <1>n, <2>1
  <2> QED BY <1>2, <1>d, <1>n, <2>1, <2>2, <2>3
<1>3. ASSUME NEW q, NEW p, Creates(q, p) PROVE Goal
  <2>1. sem' = sem /\ \A x : Blocked(x, s)' <=> Blocked(x, s)
    BY <1>3, CreatesProcesses
  <2> QED BY <1>d, <1>n, <2>1
<1>4. ASSUME NEW t, Kills(t) PROVE Goal
  <2>1. PICK K : K = Subtree(t)
    OBVIOUS
  <2>2. /\ sem'[s] \in Int /\ (sem'[s] = sem[s] \/ (sem[s] < 0 /\ sem'[s] <= 0))
        /\ \A x : Blocked(x, s)' <=> Blocked(x, s) /\ x \notin K
        /\ \A x \in Live' : x \notin K
    BY <1>4, <2>1, TestSoftSems, KillsProcesses
  <2> QED BY <1>4, <1>d, <1>n, <2>2
<1> QED BY <1>1, <1>2, <1>3, <1>4, StepView

\* Whoever waits on s has lowered it; a V(s) wakes the only one who does, and
\* finds the semaphore positive if nobody waits.
LEMMA WakesOnly ==
  ASSUME Sound, Single, Waits, NEW s \in UserSems, Does(V(s))
  PROVE  /\ \A x \in Live : Blocked(x, s) /\ (\A w \in Live : Did(w, P(s)) => w = x)
              => ~Blocked(x, s)'
         /\ (\A w \in Live : ~Did(w, P(s))) => sem[s] >= 0 /\ sem'[s] >= 1
         /\ sem'[s] = sem[s] + 1
<1>0. s \in Sems /\ sem[s] \in Int
  BY TestSoftSems, Unpacked DEF Sound
<1>1. \A w : Blocked(w, s) => w \in Live /\ Did(w, P(s))
  BY <1>0, NotWaiting DEF Blocked, Waits
<1>2. sem'[s] = sem[s] + 1
  BY DoesValues
<1>3. ASSUME NEW x \in Live, Blocked(x, s), \A w \in Live : Did(w, P(s)) => w = x
      PROVE  ~Blocked(x, s)'
  <2>1. sem[s] < 0
    BY <1>0, <1>3, NobodyWaitsFor
  <2>2. PICK w : Blocked(w, s) /\ \A z : Blocked(z, s)' <=> Blocked(z, s) /\ z # w
    BY <2>1, OneWakes
  <2> QED BY <1>1, <1>3, <2>2
<1>4. ASSUME \A w \in Live : ~Did(w, P(s)) PROVE sem[s] >= 0 /\ sem'[s] >= 1
  <2>1. ASSUME sem[s] < 0 PROVE FALSE
    <3>1. PICK w : Blocked(w, s)
      BY <2>1, OneWakes
    <3> QED BY <1>1, <1>4, <3>1
  <2> QED BY <1>0, <1>2, <2>1
<1> QED BY <1>2, <1>3, <1>4

\* p1 waits on s for q's end: as long as q has not come to its V(s), at k, p1
\* may come; after that the semaphore has been raised, or p1 woken.
EndsWith(q, s, k) ==
  \A x \in Pcbs : Is(x, "p1") /\ Past(x, Start(q)) =>
    /\ ~Past(x, P(s)) => Coming(q, k) \/ sem[s] >= 1
    /\ Blocked(x, s) => Coming(q, k)

Enders ==
  /\ EndsWith("p2", "sem_endp2", 19)
  /\ EndsWith("p3", "sem_endp3", 12)
  /\ EndsWith("p5", "sem_endp5", 27)

\* The same of p8root, which is started twice.
End8 ==
  \A x \in Pcbs : Is(x, "p1") =>
    /\ Did(x, Start("p8root")) \/ Did(x, Store("p8root")) =>
         Coming("p8root", 10) \/ sem["sem_endp8"] >= 1
    /\ Blocked(x, "sem_endp8") => Coming("p8root", 10)

\* The three that p1 waits for in one way.
Ender(q, s, k) ==
  <<q, s, k>> \in {<<"p2", "sem_endp2", 19>>, <<"p3", "sem_endp3", 12>>,
                   <<"p5", "sem_endp5", 27>>}

\* The same of those by which p1 hears that a process ends.
LEMMA EnderTable ==
  ASSUME NEW q, NEW s, NEW k, Ender(q, s, k)
  PROVE  /\ Stage(q, k) /\ q # "p1" /\ s \in UserSems /\ s \notin P8Sems
         /\ Program(q)[k] = V(s)
         /\ \A r, S, j : Lowers(r, S, j, s) => r = "p1"
         /\ q \in {"p2", "p3", "p5"} /\ s \in {"sem_endp2", "sem_endp3", "sem_endp5"}
         /\ <<q, s>> \in {<<"p2", "sem_endp2">>, <<"p3", "sem_endp3">>, <<"p5", "sem_endp5">>}
<1>1. \A r, S, j : \A c \in {"sem_endp2", "sem_endp3", "sem_endp5"} : Lowers(r, S, j, c) => r = "p1"
  BY DEF Lowers
<1>2. s \in UserSems /\ s \notin P8Sems
  BY SemNames DEF Ender
<1>3. Program(q)[k] = V(s)
  BY Programs, P2Text, P3Text, P5Text DEF Ender
<1>4. s \in {"sem_endp2", "sem_endp3", "sem_endp5"}
  BY DEF Ender
<1>5. /\ Stage(q, k) /\ q # "p1" /\ q \in {"p2", "p3", "p5"}
      /\ <<q, s>> \in {<<"p2", "sem_endp2">>, <<"p3", "sem_endp3">>, <<"p5", "sem_endp5">>}
  BY DEF Ender, Stage
<1> QED BY <1>1, <1>2, <1>3, <1>4, <1>5

\* EndsWith is kept.
LEMMA EndsWithKept ==
  ASSUME Sound, Single, Waits, Single', [TestNext]_testVars,
         NEW q, NEW s, NEW k, Ender(q, s, k), EndsWith(q, s, k)
  PROVE  EndsWith(q, s, k)'
<1>t. /\ Stage(q, k) /\ q # "p1" /\ s \in UserSems /\ s \notin P8Sems /\ s \in Sems
      /\ Program(q)[k] = V(s) /\ k >= 1
      /\ \A r, S, j : Lowers(r, S, j, s) => r = "p1"
      /\ <<q, s>> \in {<<"p2", "sem_endp2">>, <<"p3", "sem_endp3">>, <<"p5", "sem_endp5">>}
  BY EnderTable, Stages, TestSoftSems
<1> SUFFICES ASSUME NEW x \in Pcbs, Is(x, "p1")', Past(x, Start(q))'
             PROVE  /\ ~Past(x, P(s))' => Coming(q, k)' \/ sem'[s] >= 1
                    /\ Blocked(x, s)' => Coming(q, k)'
  BY DEF EndsWith
<1>1. /\ Is(x, "p1") /\ Live' # {} /\ x \in Live' /\ x \in Live
      /\ \A z \in Live : runs[z] = "p1" => z = x
  BY RootGoes DEF Is, Single
<1>2. /\ Past(x, P(s)) => Past(x, P(s))'
      /\ \/ Past(x, Start(q))
         \/ \E p : Creates(q, p)
      /\ ~Does(Start(q))
  <2>1. ~Does(Start(q))
    BY DEF Does
  <2>2. \A r : Start(q) = Start(r) => q = r
    BY Fields
  <2>3. /\ Past(x, P(s)) => Past(x, P(s))'
        /\ \/ Past(x, Start(q))
           \/ Does(Start(q))
           \/ \E r, p : Start(q) = Start(r) /\ Creates(r, p)
    BY RootGoes
  <2> QED BY <2>1, <2>2, <2>3
<1>3. ASSUME NEW p, Creates(q, p) PROVE Coming(q, k)'
  <2>1. p \in Pcbs /\ pc'[p] = 1 /\ Is(p, q)'
    BY <1>3, CreatesProcesses, Starting
  <2> QED BY <1>t, <2>1 DEF Coming, Stage
<1>4. \A w \in Live : Did(w, P(s)) => w = x
  BY <1>1, <1>t, LastDone
<1>5. Did(x, P(s)) => Past(x, P(s))
  BY <1>1, HasDone
<1>6. Does(P(s)) => current = x /\ Past(x, P(s))' /\ ~Past(x, P(s)) /\ Past(x, Start(q))
  <2> SUFFICES ASSUME Does(P(s)) PROVE current = x /\ Past(x, P(s))' /\ ~Past(x, P(s)) /\ Past(x, Start(q))
    OBVIOUS
  <2>1. At(P(s))
    BY DEF Does
  <2>2. current = x
    BY <1>1, <1>t, <2>1, AtLive, Doing
  <2>3. Past(x, P(s))'
    BY <2>2, DoesProcesses
  <2>4. runs[current] = "p1"
    BY <1>1, <2>2 DEF Is
  <2>5. ~Past(current, P(s)) /\ Past(current, Start(q))
    BY <1>t, <2>1, <2>4, P1Doing
  <2> QED BY <2>2, <2>3, <2>5
<1>7. Coming(q, k) => Coming(q, k)' \/ Does(V(s))
  BY <1>1, <1>t, StillComing
<1>8. CASE Past(x, Start(q))
  <2>1. /\ ~Past(x, P(s)) => Coming(q, k) \/ sem[s] >= 1
        /\ Blocked(x, s) => Coming(q, k)
    BY <1>1, <1>8 DEF EndsWith
  <2>2. ASSUME ~Past(x, P(s))' PROVE Coming(q, k)' \/ sem'[s] >= 1
    <3>1. ~Past(x, P(s)) /\ ~Does(P(s))
      BY <1>2, <1>6, <2>2
    <3>2. Does(V(s)) => sem'[s] >= 1
      BY <1>4, <1>5, <1>t, <3>1, WakesOnly
    <3>3. sem[s] >= 1 => sem'[s] >= 1
      <4>1. /\ sem[s] \in Int /\ sem'[s] \in Int
            /\ \/ sem'[s] = sem[s]
               \/ sem'[s] = sem[s] + 1
               \/ sem'[s] = sem[s] - 1 /\ Does(P(s))
               \/ sem[s] < 0
               \/ s \in P8Sems
        BY <1>t, SemGoes
      <4> QED BY <1>t, <3>1, <4>1
    <3> QED BY <1>7, <2>1, <3>1, <3>2, <3>3
  <2>3. ASSUME Blocked(x, s)' PROVE Coming(q, k)'
    <3>1. CASE Blocked(x, s)
      <4>1. ~Does(V(s))
        BY <1>1, <1>4, <1>t, <2>3, <3>1, WakesOnly
      <4> QED BY <1>7, <2>1, <3>1, <4>1
    <3>2. CASE ~Blocked(x, s)
      <4>1. Does(P(s)) /\ sem[s] <= 0 /\ sem[s] \in Int
        BY <1>1, <1>t, <2>3, <3>2, SemGoes
      <4>2. Coming(q, k)
        BY <1>6, <2>1, <4>1
      <4>3. ~Does(V(s))
        <5>1. P(s) # V(s)
          BY Fields
        <5> QED BY <4>1, <5>1 DEF Does, At
      <4> QED BY <1>7, <4>2, <4>3
    <3> QED BY <3>1, <3>2
  <2> QED BY <2>2, <2>3
<1> QED BY <1>2, <1>3, <1>8

\* Enders is kept.
LEMMA EndersKept ==
  ASSUME TInv, TInv', Enders, [TestNext]_testVars
  PROVE  Enders'
<1>1. Sound /\ Single /\ Waits /\ Single'
  BY DEF TInv
<1>2. /\ Ender("p2", "sem_endp2", 19) /\ Ender("p3", "sem_endp3", 12)
      /\ Ender("p5", "sem_endp5", 27)
  BY DEF Ender
<1> QED BY <1>1, <1>2, EndsWithKept DEF Enders

\* End8 is kept.
LEMMA End8Kept ==
  ASSUME TInv, TInv', End8, [TestNext]_testVars
  PROVE  End8'
<1> DEFINE s == "sem_endp8"  q == "p8root"
<1>0. Sound /\ Single /\ Waits /\ Single'
  BY DEF TInv
<1>t. /\ Stage(q, 10) /\ s \in UserSems /\ s \in Sems
      /\ Program(q)[10] = V(s)
      /\ \A r, S, j : Lowers(r, S, j, s) => r = "p1"
  BY SemNames, TestSoftSems, Programs, P8rootText DEF Stage, Lowers
<1>f. /\ P(s) # V(s) /\ P(s) # Start(q) /\ P(s) # Store(q) /\ Reset # Start(q) /\ Reset # Store(q)
      /\ Store(q) # Start(q) /\ (\A r : Store(q) # Start(r)) /\ (\A r : Start(q) = Start(r) => q = r)
      /\ V(s) # Store(q) /\ V(s) # Reset
  BY Fields
<1> SUFFICES ASSUME NEW x \in Pcbs, Is(x, "p1")'
             PROVE  /\ Did(x, Start(q))' \/ Did(x, Store(q))' => Coming(q, 10)' \/ sem'[s] >= 1
                    /\ Blocked(x, s)' => Coming(q, 10)'
  BY DEF End8
<1>1. /\ Is(x, "p1") /\ Live' # {} /\ x \in Live' /\ x \in Live
      /\ \A z \in Live : runs[z] = "p1" => z = x
  BY <1>0, RootGoes DEF Is, Single
<1>a. /\ Did(x, Start(q)) \/ Did(x, Store(q)) => Coming(q, 10) \/ sem[s] >= 1
      /\ Blocked(x, s) => Coming(q, 10)
  BY <1>1 DEF End8
<1> HIDE DEF s, q
<1>7. Coming(q, 10) => Coming(q, 10)' \/ Does(V(s))
  BY <1>0, <1>1, <1>t, StillComing
<1>4. \A w \in Live : Did(w, P(s)) => w = x
  BY <1>0, <1>1, <1>t, LastDone
<1>o. ASSUME NEW i, NEW j, Does(i), Does(j) PROVE i = j
  BY <1>o DEF Does, At
<1>c. ASSUME NEW i, Does(i), NEW r, NEW p PROVE ~Creates(r, p)
  BY <1>c DEF Does, At, Creates
<1>8. ASSUME Did(x, Start(q)) \/ Did(x, Store(q)), ~Does(P(s)), ~Does(Reset)
      PROVE  Coming(q, 10)' \/ sem'[s] >= 1
  <2>1. Does(V(s)) => sem'[s] >= 1
    <3>1. \A w \in Live : ~Did(w, P(s))
      BY <1>4, <1>8, <1>f DEF Did
    <3> QED BY <1>0, <1>t, <3>1, WakesOnly
  <2>2. sem[s] >= 1 => sem'[s] >= 1
    <3>1. /\ sem[s] \in Int /\ sem'[s] \in Int
          /\ \/ sem'[s] = sem[s]
             \/ sem'[s] = sem[s] + 1
             \/ sem'[s] = sem[s] - 1 /\ Does(P(s))
             \/ sem[s] < 0
             \/ Does(Reset)
      BY <1>0, <1>t, SemGoes
    <3> QED BY <1>8, <3>1
  <2> QED BY <1>7, <1>8, <1>a, <2>1, <2>2
<1>9. ASSUME Did(x, Start(q))' \/ Did(x, Store(q))'
      PROVE  Coming(q, 10)' \/ sem'[s] >= 1
  <2>p. Does(P(s)) \/ Does(Reset) => current = x
    <3>1. ASSUME At(P(s)) PROVE current = x
      BY <1>0, <1>1, <1>t, <3>1, AtLive, Doing
    <3>2. ASSUME At(Reset) PROVE current = x
      BY <1>0, <1>1, <3>2, AtLive, ResetAlone DEF TInv
    <3> QED BY <3>1, <3>2 DEF Does
  <2>1. CASE /\ Did(x, Start(q)) \/ Did(x, Store(q))
             /\ \A i : Does(i) => x # current
    BY <1>8, <2>1, <2>p
  <2>2. CASE x = current /\ Does(Store(q))
    <3>1. Did(x, Start(q))
      <4>1. At(Store(q)) /\ runs[current] = "p1"
        BY <1>1, <2>2 DEF Does, Is
      <4>2. Stores("p1", Text(current), pc[current], q) /\ pc[current] \in Nat
        BY <1>0, <4>1, Doing
      <4> QED BY <2>2, <4>2 DEF Stores, Did, q
    <3>2. ~Does(P(s)) /\ ~Does(Reset)
      BY <1>f, <1>o, <2>2
    <3> QED BY <1>8, <3>1, <3>2
  <2>3. CASE \E p : Creates(q, p)
    <3>1. PICK p : Creates(q, p)
      BY <2>3
    <3>2. p \in Pcbs /\ pc'[p] = 1 /\ Is(p, q)'
      BY <1>0, <3>1, CreatesProcesses, Starting
    <3> QED BY <3>2 DEF Coming
  <2>4. ASSUME NEW j \in {Start(q), Store(q)}, Did(x, j)'
        PROVE  \/ Did(x, j) /\ \A i : Does(i) => x # current
               \/ x = current /\ Does(j)
               \/ \E r, p : j = Start(r) /\ Creates(r, p)
    BY <1>0, <2>4, RootGoes
  <2>5. ~Does(Start(q))
    BY DEF Does
  <2> QED BY <1>9, <1>f, <2>1, <2>2, <2>3, <2>4, <2>5
<1>10. ASSUME Blocked(x, s)' PROVE Coming(q, 10)'
  <2>1. CASE Blocked(x, s)
    <3>1. ~Does(V(s))
      BY <1>0, <1>1, <1>4, <1>t, <1>10, <2>1, WakesOnly
    <3> QED BY <1>7, <1>a, <2>1, <3>1
  <2>2. CASE ~Blocked(x, s)
    <3>1. x = current /\ Does(P(s)) /\ sem[s] <= 0 /\ sem[s] \in Int
      BY <1>0, <1>1, <1>t, <1>10, <2>2, SemGoes
    <3>2. Did(x, Store(q))
      <4>1. At(P(s)) /\ runs[current] = "p1"
        BY <1>1, <3>1 DEF Does, Is
      <4> QED BY <1>0, <3>1, <4>1, P1Doing DEF s, q
    <3>3. ~Does(V(s))
      BY <1>f, <1>o, <3>1
    <3> QED BY <1>7, <1>a, <3>1, <3>2, <3>3
  <2> QED BY <2>1, <2>2
<1> QED BY <1>9, <1>10

\* A process that has started r, at its instruction k, has r alive.
Kid(q, k, r) ==
  \A y \in Pcbs : Is(y, q) /\ pc[y] > k => \E z \in Pcbs : Is(z, r)

\* p8root and its children have those that they have started.
Kids8 ==
  /\ Kid("p8root", 4, "child1") /\ Kid("p8root", 5, "child2")
  /\ Kid("child1", 5, "p8leaf1") /\ Kid("child1", 6, "p8leaf2")
  /\ Kid("child2", 5, "p8leaf3") /\ Kid("child2", 6, "p8leaf4")

\* Kid is kept.
LEMMA KidKept ==
  ASSUME Sound, Single, Waits, [TestNext]_testVars,
         NEW q \in {"p8root"} \cup Children, NEW k \in Nat, k >= 1, NEW r \in P8Family,
         Program(q)[k] = Start(r), Kid(q, k, r)
  PROVE  Kid(q, k, r)'
<1> SUFFICES ASSUME NEW y \in Pcbs, Is(y, q)', pc'[y] > k
             PROVE  \E z \in Pcbs : Is(z, r)'
  BY DEF Kid
<1>1. Is(y, q) /\ pc[y] \in Nat /\ ~(\E p : Creates(p, y))
  <2>1. Is(y, q) /\ pc[y] \in Nat
    BY Comes
  <2> QED BY <2>1, CreatesProcesses DEF Is
<1>2. \A z \in Pcbs : Is(z, r) => z \in Live /\ runs[z] = r
  BY DEF Is
<1>3. pc[y] > k => \E z \in Pcbs : Is(z, r)
  BY <1>1 DEF Kid
<1>4. CASE Quiet
  <2>1. pc' = pc /\ \A z : Is(z, r)' <=> Is(z, r)
    BY <1>4, QuietProcesses DEF Is
  <2> QED BY <1>3, <2>1
<1>5. ASSUME NEW i, Does(i) PROVE \E z \in Pcbs : Is(z, r)'
  <2>1. /\ \A z : Is(z, r)' <=> Is(z, r)
        /\ y # current => pc'[y] = pc[y]
        /\ y = current => pc'[y] = pc[y] + 1
    BY <1>5, DoesProcesses DEF Is
  <2>2. y = current => pc[y] # k
    <3> SUFFICES ASSUME y = current, pc[y] = k PROVE FALSE
      OBVIOUS
    <3>1. At(i) /\ i # Start(r)
      BY <1>5 DEF Does
    <3> QED BY <1>1, <3>1, AtLive DEF Text, Is
  <2> QED BY <1>1, <1>3, <2>1, <2>2
<1>6. ASSUME NEW n, NEW p, Creates(n, p) PROVE \E z \in Pcbs : Is(z, r)'
  <2>1. /\ \A z \in Pcbs : Is(z, r)' <=> IF z = p THEN r = n ELSE Is(z, r)
        /\ At(Start(n))
    BY <1>6, Starting
  <2>y. y # p
    BY <1>1, <1>6
  <2>2. /\ p \in Pcbs /\ p \notin Live
        /\ y # current => pc'[y] = pc[y]
        /\ y = current => pc'[y] = pc[y] + 1
    BY <1>6, <2>y, CreatesProcesses
  <2>3. CASE y = current /\ pc[y] = k
    <3>1. Start(n) = Start(r)
      BY <1>1, <2>1, <2>3, AtLive DEF Text, Is
    <3>2. n = r
      BY <3>1, Fields
    <3> QED BY <2>1, <2>2, <3>2
  <2>4. CASE ~(y = current /\ pc[y] = k)
    <3>1. pc[y] > k
      BY <1>1, <2>2, <2>4
    <3> QED BY <1>2, <1>3, <2>1, <2>2, <3>1
  <2> QED BY <2>3, <2>4
<1>7. ASSUME NEW t, Kills(t) PROVE \E z \in Pcbs : Is(z, r)'
  <2>1. /\ y \in Live' /\ pc'[y] = pc[y] /\ y \in Live /\ runs[y] = q
        /\ \A z \in Live' : runs'[z] = runs[z]
        /\ parent[y] = NULL \/ parent[y] \in Live'
    BY <1>1, <1>7, Survivors DEF Is
  <2>2. PICK z \in Pcbs : Is(z, r)
    BY <1>3, <2>1
  <2>3. \E w \in Live' : runs[w] = "p8root"
    <3>1. CASE q = "p8root"
      BY <2>1, <3>1
    <3>2. CASE q \in Children
      <4>1. parent[y] \in Live /\ runs[parent[y]] = "p8root" /\ NULL \notin Live
        BY <2>1, <3>2, Origin8, PcbsAssumption DEF Live
      <4> QED BY <2>1, <4>1
    <3> QED BY <3>1, <3>2
  <2>4. z \in Live'
    BY <1>2, <1>7, <2>1, <2>2, <2>3, Kills8
  <2> QED BY <1>2, <2>1, <2>2, <2>4 DEF Is
<1> QED BY <1>4, <1>5, <1>6, <1>7, StepView

\* Kids8 is kept.
LEMMA Kids8Kept ==
  ASSUME TInv, Kids8, [TestNext]_testVars
  PROVE  Kids8'
<1>1. Sound /\ Single /\ Waits
  BY DEF TInv
<1>2. /\ Program("p8root")[4] = Start("child1") /\ Program("p8root")[5] = Start("child2")
      /\ Program("child1")[5] = Start("p8leaf1") /\ Program("child1")[6] = Start("p8leaf2")
      /\ Program("child2")[5] = Start("p8leaf3") /\ Program("child2")[6] = Start("p8leaf4")
  BY Programs, P8rootText, Child1Text, Child2Text
<1>3. {"child1", "child2", "p8leaf1", "p8leaf2", "p8leaf3", "p8leaf4"} \subseteq P8Family
  BY Family DEF Children, LeafSet
<1>4. Kid("p8root", 4, "child1")' /\ Kid("p8root", 5, "child2")'
  BY <1>1, <1>2, <1>3, KidKept DEF Kids8
<1>5. Kid("child1", 5, "p8leaf1")' /\ Kid("child1", 6, "p8leaf2")'
  BY <1>1, <1>2, <1>3, KidKept DEF Kids8, Children
<1>6. Kid("child2", 5, "p8leaf3")' /\ Kid("child2", 6, "p8leaf4")'
  BY <1>1, <1>2, <1>3, KidKept DEF Kids8, Children
<1> QED BY <1>4, <1>5, <1>6 DEF Kids8

\* p4 tells p5 of its end: while p5 is to wait, p4 is to come to its V, or has.
Tells5 ==
  \A x \in Pcbs : Is(x, "p1") /\ Past(x, Start("p4")) =>
    /\ ~Past(x, Start("p5")) \/ Coming("p5", 23) =>
         Coming("p4", 14) \/ sem["sem_endp4"] >= 1
    /\ \A z \in Pcbs : Is(z, "p5") /\ Blocked(z, "sem_endp4") => Coming("p4", 14)

\* p5 is the work of p1.
LEMMA Origin5 ==
  ASSUME Sound, Single, NEW x \in Pcbs, Is(x, "p1"), NEW z \in Pcbs
  PROVE  /\ Is(z, "p5") => Past(x, Start("p5"))
         /\ Is(z, "p4") => Past(x, Start("p4"))
<1>1. ASSUME NEW r \in {"p4", "p5"}, Is(z, r) PROVE Past(x, Start(r))
  <2>1. z \in Live /\ runs[z] = r /\ r # "p1"
    BY <1>1 DEF Is
  <2>2. PICK k \in 1..pc[parent[z]]-1 :
              /\ Text(parent[z])[k] = Start(r)
              /\ Makes(runs[parent[z]], k, r)
    BY <2>1, ParentRuns DEF Starts
  <2>3. parent[z] \in Live /\ parent[z] \in Pcbs
    BY <2>1, ParentRuns
  <2>4. runs[parent[z]] = "p1"
    BY <1>1, <2>2 DEF Makes
  <2>5. parent[z] = x
    BY <2>3, <2>4 DEF Is, Single
  <2> QED BY <2>2, <2>5 DEF Past
<1> QED BY <1>1

\* When p1 starts p4 or p5.
LEMMA StartsBoth ==
  ASSUME Sound, Single, NEW x \in Pcbs, Is(x, "p1"), NEW r \in {"p4", "p5"}, NEW p, Creates(r, p)
  PROVE  /\ x = current /\ ~Past(x, Start("p5")) /\ ~Past(x, Start(r)) /\ Is(p, r)' /\ pc'[p] = 1 /\ p \in Pcbs
         /\ r = "p5" => ~Past(x, P("sem_endp5"))
         /\ \A z \in Pcbs : z # p => \A n : Is(z, n)' <=> Is(z, n)
<1>1. At(Start(r)) /\ Makes(runs[current], pc[current], r) /\ ~Past(current, Start(r))
      /\ \A z \in Pcbs : \A n : Is(z, n)' <=> IF z = p THEN n = r ELSE Is(z, n)
  BY Starting
<1>2. runs[current] = "p1"
  BY <1>1 DEF Makes
<1>3. x = current
  BY <1>1, <1>2, AtLive DEF Is, Single
<1>4. r = "p4" => ~Past(x, Start("p5"))
  BY <1>1, <1>2, <1>3, P1Doing
<1>5. r = "p5" => ~Past(x, P("sem_endp5"))
  BY <1>1, <1>2, <1>3, P1Doing
<1>6. pc'[p] = 1 /\ p \in Pcbs
  BY CreatesProcesses
<1> QED BY <1>1, <1>3, <1>4, <1>5, <1>6

\* Tells5 is kept.
LEMMA Tells5Kept ==
  ASSUME TInv, TInv', Tells5, [TestNext]_testVars
  PROVE  Tells5'
<1> DEFINE s == "sem_endp4"
<1>0. Sound /\ Single /\ Waits /\ Single' /\ Sound'
  BY DEF TInv
<1>t. /\ Stage("p4", 14) /\ s \in UserSems /\ s \in Sems /\ s \notin P8Sems
      /\ Program("p4")[14] = V(s)
      /\ \A r, S, j : Lowers(r, S, j, s) => r = "p5" /\ j = 23
  BY SemNames, TestSoftSems, Programs, P4Text DEF Stage, Lowers
<1> SUFFICES ASSUME NEW x \in Pcbs, Is(x, "p1")', Past(x, Start("p4"))'
             PROVE  /\ ~Past(x, Start("p5"))' \/ Coming("p5", 23)' =>
                         Coming("p4", 14)' \/ sem'[s] >= 1
                    /\ \A z \in Pcbs : Is(z, "p5")' /\ Blocked(z, s)' => Coming("p4", 14)'
  BY DEF Tells5
<1> HIDE DEF s
<1>1. /\ Is(x, "p1") /\ Live' # {} /\ x \in Live' /\ x \in Live
      /\ \A j : Past(x, j) => Past(x, j)'
  BY <1>0, RootGoes DEF Is
<1>2. Past(x, Start("p4")) \/ \E p : Creates("p4", p)
  <2>1. ~Does(Start("p4"))
    BY DEF Does
  <2>2. \A r : Start("p4") = Start(r) => r = "p4"
    BY Fields
  <2>3. \/ Past(x, Start("p4"))
        \/ Does(Start("p4"))
        \/ \E r, p : Start("p4") = Start(r) /\ Creates(r, p)
    BY <1>0, RootGoes
  <2> QED BY <2>1, <2>2, <2>3
<1>3. ASSUME NEW p, Creates("p4", p) PROVE Coming("p4", 14)'
  <2>1. p \in Pcbs /\ pc'[p] = 1 /\ Is(p, "p4")'
    BY <1>0, <1>1, <1>3, StartsBoth
  <2> QED BY <2>1 DEF Coming
<1>4. CASE Past(x, Start("p4"))
  <2>a. /\ ~Past(x, Start("p5")) \/ Coming("p5", 23) => Coming("p4", 14) \/ sem[s] >= 1
        /\ \A z \in Pcbs : Is(z, "p5") /\ Blocked(z, s) => Coming("p4", 14)
    BY <1>1, <1>4 DEF Tells5, s
  <2>7. Coming("p4", 14) => Coming("p4", 14)' \/ Does(V(s))
    BY <1>0, <1>1, <1>t, StillComing
  <2>w. \A w \in Live : Did(w, P(s)) => w \in Pcbs /\ runs[w] = "p5" /\ pc[w] = 24
    <3>1. \A w \in Live : Did(w, P(s)) => runs[w] = "p5" /\ pc[w] - 1 = 23
      BY <1>0, <1>t, LastDone
    <3>2. \A w \in Live : w \in Pcbs /\ pc[w] \in Nat
      BY <1>0, HasDone
    <3> QED BY <3>1, <3>2
  <2>1. ASSUME ~Past(x, Start("p5"))' \/ Coming("p5", 23)'
        PROVE  Coming("p4", 14)' \/ sem'[s] >= 1
    <3>0. \A w \in Pcbs : Is(w, "p5")' => Coming("p5", 23)' /\ pc'[w] <= 23
      <4> SUFFICES ASSUME NEW w \in Pcbs, Is(w, "p5")' PROVE Coming("p5", 23)' /\ pc'[w] <= 23
        OBVIOUS
      <4>1. Past(x, Start("p5"))'
        <5>1. CASE Is(w, "p5")
          BY <1>0, <1>1, <5>1, Origin5
        <5>2. ASSUME Creates("p5", w) PROVE Past(x, Start("p5"))'
          <6>1. x = current
            BY <1>0, <1>1, <5>2, StartsBoth
          <6>2. x # w /\ (Past(x, Start("p5"))' <=> Past(x, Start("p5")) \/ x = current)
            BY <1>0, <1>1, <5>2, CreatesProcesses
          <6> QED BY <6>1, <6>2
        <5> QED BY <1>0, <5>1, <5>2, Comes
      <4>2. PICK v \in Pcbs : Is(v, "p5")' /\ pc'[v] <= 23
        BY <2>1, <4>1 DEF Coming
      <4>3. v = w
        BY <1>0, <4>2 DEF Single, Is
      <4> QED BY <2>1, <4>1, <4>2, <4>3
    <3>1. ~Past(x, Start("p5")) \/ Coming("p5", 23)
      <4>1. CASE ~Past(x, Start("p5"))'
        BY <1>1, <4>1
      <4>2. ASSUME NEW v \in Pcbs, Is(v, "p5")', pc'[v] <= 23
            PROVE  ~Past(x, Start("p5")) \/ Coming("p5", 23)
        <5>1. CASE Is(v, "p5") /\ pc'[v] >= pc[v] /\ pc[v] \in Nat /\ pc'[v] \in Nat
          <6>1. pc[v] <= 23
            BY <4>2, <5>1
          <6> QED BY <5>1, <6>1 DEF Coming
        <5>2. CASE Creates("p5", v)
          BY <1>0, <1>1, <5>2, StartsBoth
        <5> QED BY <1>0, <4>2, <5>1, <5>2, Comes
      <4> QED BY <2>1, <4>1, <4>2 DEF Coming
    <3>2. Does(V(s)) => sem'[s] >= 1
      <4> SUFFICES ASSUME Does(V(s)) PROVE sem'[s] >= 1
        OBVIOUS
      <4>1. ASSUME NEW w \in Live, Did(w, P(s)) PROVE FALSE
        <5>1. w \in Pcbs /\ Is(w, "p5") /\ pc[w] = 24
          BY <2>w, <4>1 DEF Is
        <5>2. /\ Is(w, "p5")' /\ pc'[w] \in {pc[w], pc[w] + 1}
          BY <1>0, <5>1, DoesProcesses DEF Is
        <5>3. pc'[w] <= 23
          BY <3>0, <5>1, <5>2
        <5> QED BY <5>1, <5>2, <5>3
      <4> QED BY <1>0, <1>t, <4>1, WakesOnly
    <3>3. ~Does(P(s))
      <4> SUFFICES ASSUME Does(P(s)) PROVE FALSE
        OBVIOUS
      <4>1. At(P(s))
        BY DEF Does
      <4>2. runs[current] = "p5" /\ pc[current] = 23
        BY <1>0, <1>t, <4>1, Doing
      <4>3. current \in Pcbs /\ Is(current, "p5") /\ pc'[current] = pc[current] + 1 /\ Live' = Live /\ runs' = runs
        BY <1>0, <4>2, DoesProcesses DEF Is
      <4> PICK c \in Pcbs : c = current
        BY <4>3
      <4>4. Is(c, "p5")' /\ pc'[c] = 24
        BY <4>2, <4>3 DEF Is
      <4>5. pc'[c] <= 23
        BY <3>0, <4>4
      <4> QED BY <4>4, <4>5
    <3>4. sem[s] >= 1 => sem'[s] >= 1
      <4>1. /\ sem[s] \in Int /\ sem'[s] \in Int
            /\ \/ sem'[s] = sem[s]
               \/ sem'[s] = sem[s] + 1
               \/ sem'[s] = sem[s] - 1 /\ Does(P(s))
               \/ sem[s] < 0
               \/ s \in P8Sems
        BY <1>0, <1>t, SemGoes
      <4> QED BY <1>t, <3>3, <4>1
    <3> QED BY <2>7, <2>a, <3>1, <3>2, <3>4
  <2>2. ASSUME NEW z \in Pcbs, Is(z, "p5")', Blocked(z, s)' PROVE Coming("p4", 14)'
    <3>0. z \in Live' /\ s \in Sems
      BY <1>t, <2>2 DEF Is
    <3>1. CASE Blocked(z, s)
      <4>1. z \in Live /\ Did(z, P(s))
        BY <1>0, <1>t, <3>1, NotWaiting DEF Blocked, Waits
      <4>2. Is(z, "p5") /\ \A w \in Live : Did(w, P(s)) => w = z
        BY <1>0, <2>w, <4>1 DEF Is, Single
      <4>3. ~Does(V(s))
        BY <1>0, <1>t, <2>2, <3>1, <4>1, <4>2, WakesOnly
      <4> QED BY <2>7, <2>a, <3>1, <4>2, <4>3
    <3>2. CASE ~Blocked(z, s)
      <4>1. z = current /\ Does(P(s)) /\ sem[s] <= 0 /\ sem[s] \in Int
        BY <1>0, <1>t, <2>2, <3>0, <3>2, SemGoes
      <4>2. At(P(s)) /\ ~Does(V(s))
        <5>1. P(s) # V(s)
          BY Fields
        <5> QED BY <4>1, <5>1 DEF Does, At
      <4>3. runs[current] = "p5" /\ pc[current] = 23 /\ current \in Live
        BY <1>0, <1>t, <4>2, AtLive, Doing
      <4>4. Coming("p5", 23)
        BY <4>1, <4>3 DEF Coming, Is
      <4> QED BY <2>7, <2>a, <4>1, <4>2, <4>4
    <3> QED BY <3>1, <3>2
  <2> QED BY <2>1, <2>2
<1> QED BY <1>2, <1>3, <1>4

\* Once p1 has raised sem_startp2, p2 does not wait there.
Lets2 ==
  \A x, y \in Pcbs : Is(x, "p1") /\ Is(y, "p2") /\ Past(x, V("sem_startp2")) =>
    /\ pc[y] = 1 => sem["sem_startp2"] >= 1
    /\ ~Blocked(y, "sem_startp2")

\* Lets2 is kept.
LEMMA Lets2Kept ==
  ASSUME TInv, TInv', Lets2, [TestNext]_testVars
  PROVE  Lets2'
<1> DEFINE s == "sem_startp2"
<1>0. Sound /\ Single /\ Waits /\ Single'
  BY DEF TInv
<1>t. /\ s \in UserSems /\ s \in Sems /\ s \notin P8Sems
      /\ \A r, S, j : Lowers(r, S, j, s) => r = "p2" /\ j = 1
      /\ \A r, S, j : Raises(r, S, j, s) => r = "p1"
      /\ V(s) # P(s) /\ \A r : V(s) # Start(r)
  BY SemNames, TestSoftSems, Fields DEF Lowers, Raises
<1> SUFFICES ASSUME NEW x \in Pcbs, NEW y \in Pcbs, Is(x, "p1")', Is(y, "p2")', Past(x, V(s))'
             PROVE  (pc'[y] = 1 => sem'[s] >= 1) /\ ~Blocked(y, s)'
  BY DEF Lets2
<1>a. Is(x, "p1") /\ Is(y, "p2") /\ Past(x, V(s)) =>
        (pc[y] = 1 => sem[s] >= 1) /\ ~Blocked(y, s)
  BY DEF Lets2
<1> HIDE DEF s
<1>1. Is(x, "p1") /\ x \in Live /\ (Past(x, V(s)) \/ (x = current /\ Does(V(s))))
  BY <1>0, <1>t, RootGoes DEF Is
<1>2. Is(y, "p2") /\ pc[y] \in Nat \ {0} /\ pc'[y] \in Nat /\ pc'[y] >= pc[y] /\ y \in Live /\ y \in Live'
  <2>1. ~Creates("p2", y)
    <3> SUFFICES ASSUME Creates("p2", y) PROVE FALSE
      OBVIOUS
    <3>1. At(Start("p2")) /\ Makes(runs[current], pc[current], "p2") /\ ~Past(current, Start("p2"))
      BY <1>0, Starting
    <3>2. x = current
      <4>1. runs[current] = "p1"
        BY <3>1 DEF Makes, Children, LeafSet
      <4> QED BY <1>0, <1>1, <3>1, <4>1, AtLive DEF Is, Single
    <3>3. Past(x, V(s))
      BY <1>1, <1>t, <3>1 DEF Does, At
    <3> QED BY <1>0, <1>1, <3>1, <3>2, <3>3, P1Past DEF Is, s
  <2>2. Is(y, "p2") /\ pc'[y] >= pc[y] /\ pc'[y] \in Nat
    BY <1>0, <2>1, Comes
  <2> QED BY <1>0, <2>2, HasDone DEF Is
<1>3. \A w \in Live : Did(w, P(s)) => w = y /\ pc[w] = 2
  <2>1. \A w \in Live : Did(w, P(s)) => runs[w] = "p2" /\ pc[w] - 1 = 1
    BY <1>0, <1>t, LastDone
  <2>2. \A w \in Live : pc[w] \in Nat
    BY <1>0, HasDone
  <2> QED BY <1>0, <1>2, <2>1, <2>2 DEF Is, Single
<1>4. /\ sem[s] \in Int /\ sem'[s] \in Int
      /\ \/ sem'[s] = sem[s]
         \/ sem'[s] = sem[s] + 1
         \/ sem'[s] = sem[s] - 1 /\ Does(P(s))
         \/ sem[s] < 0
      /\ Blocked(y, s)' =>
           \/ Blocked(y, s)
           \/ y = current /\ Does(P(s)) /\ sem[s] <= 0
  BY <1>0, <1>2, <1>t, SemGoes
<1>5. Does(P(s)) => y = current /\ pc[y] = 1 /\ pc'[y] = 2
  <2> SUFFICES ASSUME Does(P(s)) PROVE y = current /\ pc[y] = 1 /\ pc'[y] = 2
    OBVIOUS
  <2>1. At(P(s))
    BY DEF Does
  <2>2. current \in Live /\ runs[current] = "p2" /\ pc[current] = 1
    BY <1>0, <1>t, <2>1, AtLive, Doing
  <2>3. y = current
    BY <1>0, <1>2, <2>2 DEF Is, Single
  <2> QED BY <1>0, <2>2, <2>3, DoesProcesses
<1>6. CASE Past(x, V(s))
  <2>1. (pc[y] = 1 => sem[s] >= 1) /\ ~Blocked(y, s)
    BY <1>1, <1>2, <1>6, <1>a
  <2>2. pc'[y] = 1 => pc[y] = 1
    BY <1>2
  <2> QED BY <1>4, <1>5, <2>1, <2>2
<1>7. CASE x = current /\ Does(V(s))
  <2>1. ASSUME pc'[y] = 1 PROVE sem'[s] >= 1
    <3>1. pc[y] = 1
      BY <1>2, <2>1
    <3> QED BY <1>0, <1>3, <1>7, <1>t, <3>1, WakesOnly
  <2>2. ~Does(P(s))
    BY <1>7, <1>t DEF Does, At
  <2>3. Blocked(y, s) => ~Blocked(y, s)'
    BY <1>0, <1>2, <1>3, <1>7, <1>t, WakesOnly
  <2> QED BY <1>4, <2>1, <2>2, <2>3
<1> QED BY <1>1, <1>6, <1>7

\* p5 lives as long as p4 once it is started, it is to raise sem_blkp4 or has,
\* and p1 waits for it.  So p1 has sem_blkp4 at once.
Lets1 ==
  \A x \in Pcbs : Is(x, "p1") =>
    /\ Alive4 /\ Past(x, Start("p5")) => \E z \in Pcbs : Is(z, "p5")
    /\ Past(x, Start("p4")) /\ Past(x, Start("p5")) /\ ~Past(x, P("sem_blkp4")) =>
         Coming("p5", 26) \/ sem["sem_blkp4"] >= 1
    /\ Coming("p5", 27) \/ ~Past(x, Start("p5")) => sem["sem_endp5"] <= 0
    /\ Coming("p5", 27) /\ Past(x, P("sem_endp5")) => Blocked(x, "sem_endp5")
    /\ ~Blocked(x, "sem_blkp4")

\* While p4 lives p5 has not come past its wait for the clock.
LEMMA Both ==
  ASSUME Sound, Single, Waits, Peace4, Lets1, Alive4,
         NEW x \in Pcbs, Is(x, "p1"), Past(x, Start("p5"))
  PROVE  \E z \in Pcbs : Is(z, "p5") /\ pc[z] <= 26 /\ (z = current => pc[z] <= 24)
<1>1. PICK z \in Pcbs : Is(z, "p5")
  BY DEF Lets1
<1>2. pc[z] <= 24 \/ Blocked(z, Clock)
  BY <1>1 DEF Peace4, Calm
<1>3. z \in Live /\ Text(z) = P5 /\ pc[z] \in Nat /\ Clock \in Sems /\ Clock \notin UserSems /\ Clock # Term0
  BY <1>1, HasDone, TestSoftSems, Programs DEF Is, Text
<1>4. CASE pc[z] <= 24
  BY <1>1, <1>3, <1>4
<1>5. CASE Blocked(z, Clock)
  <2>1. Did(z, AwaitClock) \/ Did(z, AwaitAgain)
    BY <1>3, <1>5, BlockedDid
  <2>2. z # current
    BY <1>3, <1>5, NotWaiting DEF Blocked
  <2>3. pc[z] - 1 \in 1..28 /\ (P5[pc[z]-1] = AwaitClock \/ P5[pc[z]-1] = AwaitAgain)
    <3>1. \A i : Did(z, i) => pc[z] - 1 \in 1..Len(Text(z)) /\ Text(z)[pc[z]-1] = i
      BY <1>3, HasDone
    <3> QED BY <1>3, <2>1, <3>1, P5Text
  <2>4. P5[26] \notin {AwaitClock, AwaitAgain} /\ P5[27] \notin {AwaitClock, AwaitAgain}
        /\ P5[28] \notin {AwaitClock, AwaitAgain}
    BY P5Text, Fields
  <2>5. pc[z] - 1 <= 25
    BY <1>3, <2>3, <2>4
  <2> QED BY <1>1, <1>3, <2>2, <2>5
<1> QED BY <1>2, <1>4, <1>5

\* Lets1 is kept.
LEMMA Lets1Kept ==
  ASSUME TInv, TInv', Peace4, Lets1, [TestNext]_testVars
  PROVE  Lets1'
<1> DEFINE s == "sem_blkp4"  e == "sem_endp5"
<1>0. Sound /\ Single /\ Waits /\ Single' /\ Sound'
  BY DEF TInv
<1>t. /\ Stage("p5", 26) /\ Stage("p5", 27) /\ {s, e} \subseteq UserSems /\ {s, e} \subseteq Sems
      /\ s \notin P8Sems /\ e \notin P8Sems
      /\ Program("p5")[26] = V(s) /\ Program("p5")[27] = V(e)
      /\ \A r, S, j : Lowers(r, S, j, e) => r = "p1"
      /\ \A r, S, j : Lowers(r, S, j, s) => r = "p1" \/ (r \in {"p4", "p4b"} /\ j = 6)
      /\ \A r, S, j : Raises(r, S, j, e) => r = "p5" /\ j = 27
  BY SemNames, TestSoftSems, Programs, P5Text DEF Stage, Lowers, Raises
<1>f. /\ P(s) # V(s) /\ P(e) # V(e) /\ P(s) # P(e)
      /\ \A r, c : Start(r) # P(c)
      /\ \A r, q : Start(r) = Start(q) => r = q
  BY Fields
<1> SUFFICES ASSUME NEW x \in Pcbs, Is(x, "p1")'
             PROVE  /\ Alive4' /\ Past(x, Start("p5"))' => \E z \in Pcbs : Is(z, "p5")'
                    /\ Past(x, Start("p4"))' /\ Past(x, Start("p5"))' /\ ~Past(x, P(s))' =>
                         Coming("p5", 26)' \/ sem'[s] >= 1
                    /\ Coming("p5", 27)' \/ ~Past(x, Start("p5"))' => sem'[e] <= 0
                    /\ Coming("p5", 27)' /\ Past(x, P(e))' => Blocked(x, e)'
                    /\ ~Blocked(x, s)'
  BY DEF Lets1
<1>1. /\ Is(x, "p1") /\ Live' # {} /\ x \in Live' /\ x \in Live
      /\ \A j : Past(x, j) => Past(x, j)'
      /\ \A z \in Live : runs[z] = "p1" => z = x
  BY <1>0, RootGoes DEF Is, Single
<1>a. /\ Alive4 /\ Past(x, Start("p5")) => \E z \in Pcbs : Is(z, "p5")
      /\ Past(x, Start("p4")) /\ Past(x, Start("p5")) /\ ~Past(x, P(s)) =>
           Coming("p5", 26) \/ sem[s] >= 1
      /\ Coming("p5", 27) \/ ~Past(x, Start("p5")) => sem[e] <= 0
      /\ Coming("p5", 27) /\ Past(x, P(e)) => Blocked(x, e)
      /\ ~Blocked(x, s)
  BY <1>1 DEF Lets1
<1> HIDE DEF s, e
<1>2. \A r \in {"p4", "p5"} : Past(x, Start(r))' =>
        Past(x, Start(r)) \/ \E p : Creates(r, p)
  <2> SUFFICES ASSUME NEW r \in {"p4", "p5"}, Past(x, Start(r))', ~Past(x, Start(r))
               PROVE  \E p : Creates(r, p)
    OBVIOUS
  <2>1. ~Does(Start(r))
    BY DEF Does
  <2>2. \/ Does(Start(r))
        \/ \E q, p : Start(r) = Start(q) /\ Creates(q, p)
    BY <1>0, RootGoes
  <2> QED BY <1>f, <2>1, <2>2
<1>3. \A r \in {"p4", "p5"} : \A p : Creates(r, p) =>
        /\ x = current /\ ~Past(x, Start("p5")) /\ Is(p, r)' /\ pc'[p] = 1 /\ p \in Pcbs
        /\ r = "p5" => ~Past(x, P(e))
  BY <1>0, <1>1, StartsBoth DEF e
<1>4. \A r, q, p, i : Creates(r, p) => ~Does(i) /\ (\E o : Creates(q, o) => r = q)
  BY <1>f DEF Creates, Does, At
<1>w. \A p, o : ~(Creates("p4", p) /\ Creates("p5", o))
  BY <1>f DEF Creates, At
<1>b. Alive4 /\ Past(x, Start("p5")) =>
        \E z \in Pcbs : Is(z, "p5") /\ pc[z] <= 26 /\ (z = current => pc[z] <= 24)
  BY <1>0, <1>1, Both
<1>c. /\ Coming("p5", 26) => Coming("p5", 26)' \/ (Is(current, "p5") /\ pc[current] = 26 /\ Does(V(s)))
      /\ Coming("p5", 27) => Coming("p5", 27)' \/ (Is(current, "p5") /\ pc[current] = 27 /\ Does(V(e)))
  BY <1>0, <1>1, <1>t, StillComing
<1>d. \A k \in {26, 27} : Coming("p5", k)' =>
        Coming("p5", k) \/ \E p : Creates("p5", p)
  <2> SUFFICES ASSUME NEW k \in {26, 27}, NEW y \in Pcbs, Is(y, "p5")', pc'[y] <= k
               PROVE  Coming("p5", k) \/ \E p : Creates("p5", p)
    BY DEF Coming
  <2>1. CASE Is(y, "p5") /\ pc'[y] >= pc[y] /\ pc[y] \in Nat /\ pc'[y] \in Nat
    <3>1. pc[y] <= k
      BY <2>1
    <3> QED BY <2>1, <3>1 DEF Coming
  <2> QED BY <1>0, <2>1, Comes
\* p5, about to raise sem_endp5, has been started, and comes no more.
<1>e. ASSUME Does(V(e)) PROVE Past(x, Start("p5"))' /\ ~Coming("p5", 27)'
  <2>1. At(V(e))
    BY <1>e DEF Does
  <2>2. runs[current] = "p5" /\ pc[current] = 27 /\ current \in Live /\ current \in Pcbs
    BY <1>0, <1>t, <2>1, AtLive, Doing
  <2>3. Past(x, Start("p5"))
    BY <1>0, <1>1, <2>2, Origin5 DEF Is
  <2>4. PICK c \in Pcbs : c = current
    BY <2>2
  <2>5. Is(c, "p5")' /\ pc'[c] = 28
    BY <1>0, <1>e, <2>2, <2>4, DoesProcesses DEF Is
  <2>6. ASSUME NEW v \in Pcbs, Is(v, "p5")', pc'[v] <= 27 PROVE FALSE
    <3>1. v = c
      BY <1>0, <2>5, <2>6 DEF Single, Is
    <3> QED BY <2>5, <2>6, <3>1
  <2> QED BY <1>1, <2>3, <2>6 DEF Coming
<1>11. ASSUME Alive4', Past(x, Start("p5"))' PROVE \E z \in Pcbs : Is(z, "p5")'
  <2>1. CASE \E p : Creates("p5", p)
    BY <1>3, <2>1
  <2>2. CASE Past(x, Start("p5"))
    <3>1. Alive4
      <4>1. PICK y \in Pcbs : Is(y, "p4")'
        BY <1>11 DEF Alive4
      <4>2. ~Creates("p4", y)
        BY <1>3, <2>2
      <4> QED BY <1>0, <4>1, <4>2, Comes DEF Alive4
    <3>2. PICK z \in Pcbs : Is(z, "p5") /\ pc[z] <= 26 /\ (z = current => pc[z] <= 24)
      BY <1>b, <2>2, <3>1
    <3>3. z \in Live'
      <4>1. ASSUME NEW t, Kills(t), z \notin Live' PROVE FALSE
        <5>1. z = current /\ pc[z] = Len(Text(z))
          BY <1>0, <1>1, <3>2, <4>1, LeavesAlone DEF Is
        <5>2. Len(Text(z)) = 28
          BY <3>2, Programs, P5Text DEF Text, Is
        <5> QED BY <3>2, <5>1, <5>2
      <4>2. CASE Quiet
        BY <1>0, <3>2, <4>2, QuietProcesses DEF Is
      <4>3. ASSUME NEW i, Does(i) PROVE z \in Live'
        BY <1>0, <3>2, <4>3, DoesProcesses DEF Is
      <4>4. ASSUME NEW r, NEW p, Creates(r, p) PROVE z \in Live'
        BY <1>0, <3>2, <4>4, CreatesProcesses DEF Is
      <4> QED BY <1>0, <4>1, <4>2, <4>3, <4>4, StepView
    <3>4. runs'[z] = "p5"
      <4>1. CASE Quiet
        BY <1>0, <3>2, <4>1, QuietProcesses DEF Is
      <4>2. ASSUME NEW i, Does(i) PROVE runs'[z] = "p5"
        BY <1>0, <3>2, <4>2, DoesProcesses DEF Is
      <4>3. ASSUME NEW r, NEW p, Creates(r, p) PROVE runs'[z] = "p5"
        BY <1>0, <3>2, <4>3, CreatesProcesses DEF Is
      <4>4. ASSUME NEW t, Kills(t) PROVE runs'[z] = "p5"
        BY <1>0, <3>2, <3>3, <4>4, Survivors DEF Is
      <4> QED BY <1>0, <4>1, <4>2, <4>3, <4>4, StepView
    <3> QED BY <3>3, <3>4 DEF Is
  <2> QED BY <1>2, <1>11, <2>1, <2>2
<1>12. ASSUME Past(x, Start("p4"))', Past(x, Start("p5"))', ~Past(x, P(s))'
       PROVE  Coming("p5", 26)' \/ sem'[s] >= 1
  <2>0. ~Past(x, P(s))
    BY <1>1, <1>12
  <2>1. ASSUME NEW p, Creates("p5", p) PROVE Coming("p5", 26)'
    BY <1>3, <2>1 DEF Coming
  <2>2. CASE Past(x, Start("p4")) /\ Past(x, Start("p5"))
    <3>1. Coming("p5", 26) \/ sem[s] >= 1
      BY <1>a, <2>0, <2>2
    <3>2. ASSUME NEW w \in Live, Did(w, P(s)) PROVE Alive4
      <4>1. Past(w, P(s)) /\ w \in Pcbs /\ Lowers(runs[w], Text(w), pc[w]-1, s)
        BY <1>0, <3>2, HasDone, LastDone
      <4>2. runs[w] # "p1"
        BY <1>1, <2>0, <4>1
      <4>3. runs[w] \in {"p4", "p4b"}
        BY <1>t, <4>1, <4>2
      <4>4. CASE runs[w] = "p4"
        BY <4>1, <4>4 DEF Alive4, Is
      <4>5. CASE runs[w] = "p4b"
        <5>1. parent[w] \in Live /\ runs[parent[w]] = "p4"
          BY <1>0, <4>5, Origin4
        <5> QED BY <1>0, <5>1, HasDone DEF Alive4, Is
      <4> QED BY <4>3, <4>4, <4>5
    <3>3. ASSUME Is(current, "p5"), pc[current] = 26, Does(V(s)) PROVE sem'[s] >= 1
      <4>1. ~Alive4
        <5> SUFFICES ASSUME Alive4 PROVE FALSE
          OBVIOUS
        <5>1. PICK z \in Pcbs : Is(z, "p5") /\ (z = current => pc[z] <= 24)
          BY <1>b, <2>2
        <5>2. z = current
          BY <1>0, <3>3, <5>1 DEF Single, Is
        <5> QED BY <3>3, <5>1, <5>2
      <4> QED BY <1>0, <1>t, <3>2, <3>3, <4>1, WakesOnly
    <3>4. ASSUME sem[s] >= 1, Does(P(s)) PROVE Coming("p5", 26)'
      <4>1. At(P(s))
        BY <3>4 DEF Does
      <4>2. current \in Live /\ Lowers(runs[current], Text(current), pc[current], s)
        BY <1>0, <4>1, AtLive, Doing
      <4>3. runs[current] # "p1"
        <5> SUFFICES ASSUME runs[current] = "p1" PROVE FALSE
          OBVIOUS
        <5>1. current = x
          BY <1>1, <4>2
        <5>2. Past(x, P(s))'
          BY <1>0, <3>4, <5>1, DoesProcesses
        <5> QED BY <1>12, <5>2
      <4>4. Alive4
        <5>1. runs[current] \in {"p4", "p4b"}
          BY <1>t, <4>2, <4>3
        <5>2. CASE runs[current] = "p4"
          BY <1>0, <4>2, <5>2, HasDone DEF Alive4, Is
        <5>3. CASE runs[current] = "p4b"
          <6>1. parent[current] \in Live /\ runs[parent[current]] = "p4"
            BY <1>0, <4>2, <5>3, Origin4
          <6> QED BY <1>0, <6>1, HasDone DEF Alive4, Is
        <5> QED BY <5>1, <5>2, <5>3
      <4>5. Coming("p5", 26)
        BY <1>b, <2>2, <4>4 DEF Coming
      <4>6. ~Does(V(s))
        BY <1>f, <4>1 DEF Does, At
      <4> QED BY <1>c, <4>5, <4>6
    <3>5. sem[s] >= 1 => Coming("p5", 26)' \/ sem'[s] >= 1
      <4>1. /\ sem[s] \in Int /\ sem'[s] \in Int
            /\ \/ sem'[s] = sem[s]
               \/ sem'[s] = sem[s] + 1
               \/ sem'[s] = sem[s] - 1 /\ Does(P(s))
               \/ sem[s] < 0
               \/ s \in P8Sems
        BY <1>0, <1>t, SemGoes
      <4> QED BY <1>t, <3>4, <4>1
    <3> QED BY <1>c, <3>1, <3>3, <3>5
  <2>3. ASSUME NEW p, Creates("p4", p) PROVE FALSE
    <3>1. ~Past(x, Start("p5"))
      BY <1>3, <2>3
    <3>2. \E o : Creates("p5", o)
      BY <1>2, <1>12, <3>1
    <3> QED BY <1>w, <2>3, <3>2
  <2> QED BY <1>2, <1>12, <2>1, <2>2, <2>3
<1>13. ASSUME Coming("p5", 27)' \/ ~Past(x, Start("p5"))' PROVE sem'[e] <= 0
  <2>1. Coming("p5", 27) \/ ~Past(x, Start("p5"))
    BY <1>1, <1>3, <1>13, <1>d
  <2>2. sem[e] <= 0 /\ ~Does(V(e))
    BY <1>13, <1>a, <1>e, <2>1
  <2>3. /\ sem[e] \in Int /\ sem'[e] \in Int
        /\ \/ sem'[e] = sem[e]
           \/ sem'[e] = sem[e] + 1 /\ Does(V(e))
           \/ sem'[e] = sem[e] - 1
           \/ sem'[e] <= 0
           \/ e \in P8Sems
    BY <1>0, <1>t, SemGoes
  <2> QED BY <1>t, <2>2, <2>3
<1>14. ASSUME Coming("p5", 27)', Past(x, P(e))' PROVE Blocked(x, e)'
  <2>1. ~Does(V(e))
    BY <1>14, <1>e
  <2>2. CASE Past(x, P(e))
    <3>1. Coming("p5", 27)
      BY <1>3, <1>14, <1>d, <2>2
    <3>2. Blocked(x, e)
      BY <1>a, <2>2, <3>1
    <3> QED BY <1>0, <1>1, <1>t, <2>1, <3>2, SemGoes
  <2>3. CASE ~Past(x, P(e))
    <3>1. x = current /\ Does(P(e))
      BY <1>0, <1>14, <1>f, <2>3, RootGoes
    <3>2. ~(\E p : Creates("p5", p))
      BY <1>4, <3>1
    <3>3. sem[e] <= 0
      BY <1>14, <1>a, <1>d, <3>2
    <3>4. current \in Range(semq'[e])
      BY <1>0, <1>t, <3>1, <3>3, DoesQueues
    <3> QED BY <3>1, <3>4 DEF Blocked
  <2> QED BY <2>2, <2>3
<1>15. ASSUME Blocked(x, s)' PROVE FALSE
  <2>1. x = current /\ Does(P(s)) /\ sem[s] <= 0 /\ sem[s] \in Int
    BY <1>0, <1>1, <1>15, <1>a, <1>t, SemGoes
  <2>2. At(P(s)) /\ runs[current] = "p1"
    BY <1>1, <2>1 DEF Does, Is
  <2>3. ~Past(x, P(s)) /\ Past(x, P(e))
    BY <1>0, <2>1, <2>2, P1Doing DEF s, e
  <2>4. Past(x, Start("p4")) /\ Past(x, Start("p5"))
    BY <1>0, <1>1, <2>3, P1Past DEF Is, e
  <2>5. Coming("p5", 26)
    BY <1>a, <2>1, <2>3, <2>4
  <2>6. Coming("p5", 27)
    <3>1. PICK y \in Pcbs : Is(y, "p5") /\ pc[y] <= 26
      BY <2>5 DEF Coming
    <3>2. pc[y] \in Nat
      BY <1>0, <3>1, HasDone DEF Is
    <3>3. pc[y] <= 27
      BY <3>1, <3>2
    <3> QED BY <3>1, <3>3 DEF Coming
  <2>7. Blocked(current, e)
    BY <1>a, <2>1, <2>3, <2>6
  <2> QED BY <1>0, <1>t, <2>7, NotWaiting DEF Blocked
<1> QED BY <1>11, <1>12, <1>13, <1>14, <1>15

\* What everybody waits for is still to come.
Progress == MutexHeld /\ Enders /\ End8 /\ Kids8 /\ Tells5 /\ Lets1 /\ Lets2

\* At the start nobody waits.
LEMMA InitProgress == TestInit => Progress
<1> SUFFICES ASSUME TestInit PROVE Progress
  OBVIOUS
<1>0. Sound
  BY InitTInv DEF TInv
<1>1. \A x \in Live : runs[x] = "p1" /\ pc[x] = 1
  BY DEF TestInit, Live
<1>2. sem[Mutex] = 1 /\ sem["sem_endp5"] = 0
  BY SemNames, TestSoftSems DEF TestInit, Mutex
<1>3. \A x \in Pcbs : Is(x, "p1") => \A j : ~Past(x, j) /\ ~Did(x, j)
  BY <1>1 DEF Is, Past, Did
<1>4. \A x, q : Is(x, q) => q = "p1"
  BY <1>1 DEF Is
<1>5. \A x \in Live : \A s \in UserSems : ~Blocked(x, s)
  BY TestSoftSems DEF TestInit, Init, Blocked, Range
<1>6. {"sem_endp2", "sem_endp3", "sem_endp5", "sem_endp8", "sem_blkp4"} \subseteq UserSems
  BY SemNames
<1>7. MutexHeld
  BY <1>2 DEF MutexHeld
<1>8. Enders /\ End8
  BY <1>3, <1>5, <1>6 DEF Enders, EndsWith, End8, Is
<1>9. Kids8 /\ Tells5 /\ Lets2
  BY <1>3, <1>4 DEF Kids8, Kid, Tells5, Lets2
<1>10. Lets1
  <2>1. \A k : ~Coming("p5", k)
    BY <1>4 DEF Coming
  <2> QED BY <1>2, <1>3, <1>5, <1>6, <2>1 DEF Lets1, Is
<1> QED BY <1>7, <1>8, <1>9, <1>10 DEF Progress

\* Every step of the test keeps it.
LEMMA NextProgress ==
  TestInv /\ Progress /\ [TestNext]_testVars => TestInv' /\ Progress'
<1> SUFFICES ASSUME TestInv, Progress, [TestNext]_testVars PROVE TestInv' /\ Progress'
  OBVIOUS
<1>1. TInv /\ PrintsAlone /\ Peace4 /\ Leaves8
  BY DEF TestInv
<1>2. TestInv' /\ TInv'
  BY NextTestInv DEF TestInv
<1>3. MutexHeld' /\ Enders' /\ End8' /\ Kids8'
  BY <1>1, <1>2, MutexHeldKept, EndersKept, End8Kept, Kids8Kept DEF Progress
<1>4. Tells5' /\ Lets1' /\ Lets2'
  BY <1>1, <1>2, Tells5Kept, Lets1Kept, Lets2Kept DEF Progress
<1> QED BY <1>2, <1>3, <1>4 DEF Progress

\* A process that everybody else waits with waits itself, not for the mutex.
Stuck(x, s) ==
  s \in UserSems /\ s # Mutex /\ Blocked(x, s) /\ sem[s] <= -1 /\ Lowers(runs[x], Text(x), pc[x]-1, s)

\* In a panic everybody waits, and nobody for the mutex: nobody is inside
\* print(), so it is free.
LEMMA PanicStuck ==
  ASSUME TestInv, Progress, cpu = "panic"
  PROVE  Live # {} /\ \A z \in Live : \E s : Stuck(z, s)
<1>0. Sound /\ Waits /\ IInv
  BY DEF TestInv, TInv, Sound
<1>1. Live = Waiters(UserSems) /\ Live # {}
  BY <1>0, StopsFollow DEF StopJustified
<1>2. \A z \in Live : \E s \in UserSems : Blocked(z, s)
  BY <1>1 DEF Waiters, Blocked
<1>3. \A z \in Live : \A s \in UserSems : Blocked(z, s) => Did(z, P(s))
  BY <1>0 DEF Waits, Blocked
<1>4. \A z : ~Printing(z)
  <2> SUFFICES ASSUME NEW z, Printing(z) PROVE FALSE
    OBVIOUS
  <2>1. z \in Live
    BY DEF Printing
  <2>2. PICK s \in UserSems : Blocked(z, s) /\ Did(z, P(s))
    BY <1>2, <1>3, <2>1
  <2>3. WriteChar # P(s) /\ (P(Mutex) = P(s) => s = Mutex)
    BY Fields
  <2> QED BY <2>2, <2>3 DEF Printing, Did
<1>5. Mutex \in UserSems
  BY SemNames DEF Mutex
<1>6. \A s \in UserSems : sem[s] \in Int /\ (sem[s] >= 0 => \A z : ~Blocked(z, s))
  BY <1>0, NobodyWaitsFor, TestSoftSems DEF IInv, TypeOK, Sound
<1>7. \A z : ~Blocked(z, Mutex)
  <2>1. ~(sem[Mutex] <= 0)
    BY <1>1, <1>4 DEF Progress, MutexHeld
  <2>2. sem[Mutex] >= 0
    BY <1>5, <1>6, <2>1
  <2> QED BY <1>5, <1>6, <2>2
<1>8. ASSUME NEW z \in Live PROVE \E s : Stuck(z, s)
  <2>1. PICK s \in UserSems : Blocked(z, s) /\ Did(z, P(s))
    BY <1>2, <1>3
  <2>2. s # Mutex /\ sem[s] <= -1
    BY <1>6, <1>7, <2>1
  <2>3. Lowers(runs[z], Text(z), pc[z]-1, s)
    BY <1>0, <2>1, LastDone
  <2> QED BY <2>1, <2>2, <2>3 DEF Stuck
<1> QED BY <1>1, <1>8

\* What each process may be stuck at.
LEMMA StuckAt ==
  ASSUME NEW x, NEW s, Stuck(x, s)
  PROVE  /\ runs[x] = "p1" =>
              \/ s = "sem_testsem" /\ pc[x]-1 \in 5..7
              \/ s \in {"sem_endp2", "sem_endp3", "sem_endp5", "sem_endp8", "sem_blkp4"}
         /\ runs[x] = "p2" => s = "sem_startp2" \/ s = "s"
         /\ runs[x] # "p3"
         /\ runs[x] = "p4" => \/ s = "sem_synp4" /\ pc[x]-1 \in {7, 10}
                              \/ s = "sem_blkp4" /\ pc[x]-1 = 6
         /\ runs[x] = "p4b" => pc[x]-1 \in {6, 7}
         /\ runs[x] = "p5" => s = "sem_endp4"
         /\ runs[x] = "p8root" => \E n \in Leaves : s = EndCreate[n] /\ pc[x]-1 = 5 + n
         /\ runs[x] \in Children => pc[x]-1 = 7
         /\ runs[x] \in LeafSet => pc[x]-1 = 5
<1>1. s # "sem_term_mut" /\ Lowers(runs[x], Text(x), pc[x]-1, s)
  BY DEF Stuck, Mutex
<1>2. CASE runs[x] = "p1"
  BY <1>1, <1>2 DEF Lowers, Children, LeafSet
<1>3. CASE runs[x] \in {"p2", "p3", "p4", "p4b", "p5"}
  BY <1>1, <1>3 DEF Lowers, Children, LeafSet
<1>4. CASE runs[x] = "p8root"
  <2>1. \/ s = "endcreate0" /\ pc[x]-1 = 6
        \/ s = "endcreate1" /\ pc[x]-1 = 7
        \/ s = "endcreate2" /\ pc[x]-1 = 8
        \/ s = "endcreate3" /\ pc[x]-1 = 9
    BY <1>1, <1>4 DEF Lowers, Children, LeafSet
  <2>2. /\ 1 \in Leaves /\ 2 \in Leaves /\ 3 \in Leaves /\ 4 \in Leaves
        /\ EndCreate[1] = "endcreate0" /\ EndCreate[2] = "endcreate1"
        /\ EndCreate[3] = "endcreate2" /\ EndCreate[4] = "endcreate3"
    BY DEF Leaves, EndCreate
  <2>3. \E n \in Leaves : s = EndCreate[n] /\ pc[x]-1 = 5 + n
    BY <2>1, <2>2
  <2> QED BY <1>4, <2>3 DEF Children, LeafSet
<1>5. CASE runs[x] \in Children \cup LeafSet
  BY <1>1, <1>5 DEF Lowers, Children, LeafSet
<1> QED BY <1>2, <1>3, <1>4, <1>5

\* Somebody is not stuck: the one p1 waits for, or whom that one waits for.
LEMMA NotAllStuck ==
  ASSUME TestInv, Progress, Live # {}, \A z \in Live : \E s : Stuck(z, s)
  PROVE  FALSE
<1>0. Sound /\ Single /\ Waits /\ Peace4 /\ Leaves8 /\ TestSem /\ SemS
  BY DEF TestInv, TInv
<1>1. PICK x \in Pcbs : Is(x, "p1")
  BY <1>0, RootLives
<1>2. x \in Live /\ runs[x] = "p1" /\ \A z, q : Is(z, q) => z \in Live /\ z \in Pcbs /\ runs[z] = q /\ pc[z] \in Nat
  BY <1>0, <1>1, HasDone DEF Is
<1>3. \A z, s : Stuck(z, s) => Blocked(z, s) /\ sem[s] <= -1 /\ s \in UserSems
  BY DEF Stuck
<1>4. \A z \in Live, s \in UserSems : Blocked(z, s) => Past(z, P(s))
  BY <1>0, HasDone DEF Waits, Blocked
<1>5. PICK s : Stuck(x, s)
  BY <1>2
<1>6. s # "sem_testsem"
  <2> SUFFICES ASSUME s = "sem_testsem" PROVE FALSE
    OBVIOUS
  <2>1. pc[x] \in Nat /\ pc[x]-1 \in 5..7 /\ sem[s] <= -1
    BY <1>1, <1>2, <1>3, <1>5, StuckAt
  <2>2. pc[x] \in 5..8 => sem[s] = 8 - pc[x]
    BY <1>0, <1>1 DEF TestSem
  <2> QED BY <2>1, <2>2
<1>7. s # "sem_endp2"
  <2> SUFFICES ASSUME s = "sem_endp2" PROVE FALSE
    OBVIOUS
  <2>1. Past(x, P(s)) /\ Past(x, Start("p2")) /\ Past(x, V("sem_startp2"))
    BY <1>0, <1>2, <1>3, <1>4, <1>5, P1Past
  <2>2. PICK y \in Pcbs : Is(y, "p2")
    BY <1>1, <1>3, <1>5, <2>1 DEF Progress, Enders, EndsWith, Coming
  <2>3. PICK t : Stuck(y, t)
    BY <1>2, <2>2
  <2>4. t # "sem_startp2"
    BY <1>1, <1>3, <2>1, <2>2, <2>3 DEF Progress, Lets2
  <2>5. sem["s"] \in {0, 1}
    BY <1>0, <2>2 DEF SemS
  <2>6. ~(sem["s"] <= -1)
    BY <2>5
  <2> QED BY <1>2, <1>3, <2>2, <2>3, <2>4, <2>6, StuckAt
<1>8. s # "sem_endp3"
  <2> SUFFICES ASSUME s = "sem_endp3" PROVE FALSE
    OBVIOUS
  <2>1. Past(x, Start("p3"))
    BY <1>0, <1>2, <1>3, <1>4, <1>5, P1Past
  <2>2. PICK y \in Pcbs : Is(y, "p3")
    BY <1>1, <1>3, <1>5, <2>1 DEF Progress, Enders, EndsWith, Coming
  <2> QED BY <1>2, <2>2, StuckAt
<1>9. s # "sem_endp5"
  <2> SUFFICES ASSUME s = "sem_endp5" PROVE FALSE
    OBVIOUS
  <2>1. Past(x, Start("p4")) /\ Past(x, Start("p5"))
    BY <1>0, <1>2, <1>3, <1>4, <1>5, P1Past
  <2>2. PICK y \in Pcbs : Is(y, "p5")
    BY <1>1, <1>3, <1>5, <2>1 DEF Progress, Enders, EndsWith, Coming
  <2>3. Blocked(y, "sem_endp4")
    BY <1>2, <1>3, <2>2, StuckAt
  <2>4. PICK z \in Pcbs : Is(z, "p4")
    BY <1>1, <2>1, <2>2, <2>3 DEF Progress, Tells5, Coming
  <2>5. PICK t : Stuck(z, t)
    BY <1>2, <2>4
  <2>6. /\ pc[z] \in Nat /\ sem[t] <= -1
        /\ \/ t = "sem_synp4" /\ pc[z]-1 \in {7, 10}
           \/ t = "sem_blkp4" /\ pc[z]-1 = 6
    BY <1>2, <1>3, <2>4, <2>5, StuckAt
  <2>7. /\ pc[z] <= 8 => /\ sem["sem_synp4"] = Bit(pc[z] \in {6, 7})
                         /\ sem["sem_blkp4"] = 1 - Bit(pc[z] >= 7)
        /\ pc[z] > 8 => \E y1 \in Pcbs : Is(y1, "p4b")
        /\ \A y1 \in Pcbs : Is(y1, "p4b") =>
             sem["sem_synp4"] = Bit(pc[y1] >= 6) - Bit(pc[z] >= 11)
    BY <1>0, <2>4 DEF Peace4, Syn4
  <2>8. t = "sem_synp4" /\ pc[z]-1 = 10
    BY <2>6, <2>7 DEF Bit
  <2>9. PICK y1 \in Pcbs : Is(y1, "p4b")
    BY <2>6, <2>7, <2>8
  <2>10. pc[y1] \in Nat /\ pc[y1]-1 \in {6, 7}
    BY <1>2, <2>9, StuckAt
  <2> QED BY <2>6, <2>7, <2>8, <2>9, <2>10 DEF Bit
<1>10. s # "sem_endp8"
  <2> SUFFICES ASSUME s = "sem_endp8" PROVE FALSE
    OBVIOUS
  <2>1. PICK y \in Pcbs : Is(y, "p8root")
    BY <1>1, <1>3, <1>5 DEF Progress, End8, Coming
  <2>2. PICK n \in Leaves : pc[y] \in Nat /\ sem[EndCreate[n]] <= -1 /\ pc[y]-1 = 5 + n
    BY <1>2, <1>3, <2>1, StuckAt
  <2>3. n \in 1..4
    BY DEF Leaves
  <2>4. ~\E z \in Pcbs : Is(z, Leaf[n]) /\ pc[z] >= 5
    BY <1>0, <2>1, <2>2 DEF Leaves8, Bit
  <2>5. Leaf[n] \in LeafSet
    BY <2>3 DEF Leaf, LeafSet
  <2>6. ~\E z \in Pcbs : Is(z, Leaf[n])
    <3> SUFFICES ASSUME NEW z \in Pcbs, Is(z, Leaf[n]) PROVE FALSE
      OBVIOUS
    <3>1. pc[z] \in Nat /\ pc[z]-1 = 5
      BY <1>2, <2>5, StuckAt
    <3> QED BY <2>4, <3>1
  <2>7. pc[y] > 4 /\ pc[y] > 5
    BY <2>2, <2>3
  <2>8. \E z \in Pcbs : Is(z, "child1")
    BY <2>1, <2>7 DEF Progress, Kids8, Kid
  <2>9. \E z \in Pcbs : Is(z, "child2")
    BY <2>1, <2>7 DEF Progress, Kids8, Kid
  <2>10. \A z \in Pcbs : \A q \in Children : Is(z, q) => pc[z] > 5 /\ pc[z] > 6
    <3> SUFFICES ASSUME NEW z \in Pcbs, NEW q \in Children, Is(z, q) PROVE pc[z] > 5 /\ pc[z] > 6
      OBVIOUS
    <3>1. pc[z] \in Nat /\ pc[z]-1 = 7
      BY <1>2, StuckAt
    <3> QED BY <3>1
  <2>11. /\ \E z \in Pcbs : Is(z, "p8leaf1")
         /\ \E z \in Pcbs : Is(z, "p8leaf2")
    BY <2>8, <2>10 DEF Progress, Kids8, Kid, Children
  <2>12. /\ \E z \in Pcbs : Is(z, "p8leaf3")
         /\ \E z \in Pcbs : Is(z, "p8leaf4")
    BY <2>9, <2>10 DEF Progress, Kids8, Kid, Children
  <2> QED BY <2>5, <2>6, <2>11, <2>12 DEF LeafSet
<1>11. s # "sem_blkp4"
  BY <1>1, <1>3, <1>5 DEF Progress, Lets1
<1> QED BY <1>2, <1>5, <1>6, <1>7, <1>8, <1>9, <1>10, <1>11, StuckAt

\* However the processes of any instance of the test are preempted, the
\* processor never finds that everybody waits for a semaphore nobody is left
\* to raise.
THEOREM TestNeverPanics == TestSpec => []NeverPanics
<1>1. TestInv /\ Progress => NeverPanics
  BY PanicStuck, NotAllStuck DEF NeverPanics
<1>2. TestInit => TestInv /\ Progress
  BY InitTestInv, InitProgress
<1> QED BY <1>1, <1>2, NextProgress, PTL DEF TestSpec

=============================================================================
