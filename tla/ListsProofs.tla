----------------------------- MODULE ListsProofs -----------------------------
(***************************************************************************)
(* What the operators of Queues return, for every queue.  And what the     *)
(* operations of listx.h do to the links, for any structs in any lists:    *)
(* insertion and removal keep every list of the memory whole.              *)
(*                                                                         *)
(* The provers take no induction principle with an operator parameter, so  *)
(* induction is stated over sets of numbers, from the least element of the *)
(* complement; a recursive function is shown to exist by the same means.   *)
(***************************************************************************)
EXTENDS Queues, ListX, SequenceTheorems, FiniteSetTheorems, WellFoundedInduction, TLAPS

\* A non-empty set of natural numbers has a least element.
LEMMA LeastElement ==
  ASSUME NEW S \in SUBSET Nat, S # {}
  PROVE  \E x \in S : \A y \in S : x <= y
<1>1. IsWellFoundedOn(OpToRel(<, Nat), Nat)
  BY NatLessThanWellFounded
<1>2. PICK x \in S : \A y \in S : ~(<<y, x>> \in OpToRel(<, Nat))
  BY <1>1, WFMin
<1>3. \A y \in S : ~(y < x)
  BY <1>2 DEF OpToRel
<1>4. \A y \in S : x <= y
  BY <1>3
<1> QED BY <1>4

\* Induction over the natural numbers.
LEMMA SetInduction ==
  ASSUME NEW S, 0 \in S, \A n \in Nat : n \in S => n+1 \in S
  PROVE  \A n \in Nat : n \in S
<1> DEFINE Bad == Nat \ S
<1>1. SUFFICES ASSUME Bad # {} PROVE FALSE
  OBVIOUS
<1>2. PICK x \in Bad : \A y \in Bad : x <= y
  BY <1>1, LeastElement
<1>3. x # 0 /\ x-1 \in Nat /\ x-1 \in Bad
  BY <1>2
<1> QED BY <1>2, <1>3

\* Min, which Queues takes from the library, is the least element.
LEMMA MinIsLeast ==
  ASSUME NEW S \in SUBSET Nat, S # {}
  PROVE  Min(S) \in S /\ \A y \in S : Min(S) <= y
<1>1. \E x \in S : \A y \in S : x <= y
  BY LeastElement
<1> QED BY <1>1 DEF Min

----------------------------------------------------------------------------
(* One insertion or removal *)

\* r is q with p inserted at position k.
Inserted(r, q, p, k) ==
  /\ k \in 1..Len(q)+1
  /\ Len(r) = Len(q) + 1
  /\ \A j \in 1..Len(q)+1 :
       r[j] = IF j < k THEN q[j] ELSE IF j = k THEN p ELSE q[j-1]

\* The library's InsertAt, list_add before the i-th process, is an insertion.
LEMMA InsertAtInserts ==
  ASSUME NEW S, NEW q \in Seq(S), NEW p \in S, NEW i \in 1..Len(q)
  PROVE  InsertAt(q, i, p) \in Seq(S) /\ Inserted(InsertAt(q, i, p), q, p, i)
<1> DEFINE a == SubSeq(q, 1, i-1)
           b == SubSeq(q, i, Len(q))
           ab == a \o <<p>>
<1>1. /\ a \in Seq(S) /\ Len(a) = i-1
      /\ \A j \in 1..i-1 : a[j] = q[j]
  BY SubSeqProperties
<1>2. /\ b \in Seq(S) /\ Len(b) = Len(q)-i+1
      /\ \A j \in 1..Len(q)-i+1 : b[j] = q[i+j-1]
  BY SubSeqProperties
<1>3. <<p>> \in Seq(S) /\ Len(<<p>>) = 1 /\ <<p>>[1] = p
  OBVIOUS
<1> HIDE DEF a, b
<1>4. /\ ab \in Seq(S) /\ Len(ab) = i
      /\ \A j \in 1..i : ab[j] = IF j < i THEN q[j] ELSE p
  BY <1>1, <1>3, ConcatProperties
<1> HIDE DEF ab
<1>5. /\ ab \o b \in Seq(S) /\ Len(ab \o b) = Len(q) + 1
      /\ \A j \in 1..Len(q)+1 :
           (ab \o b)[j] = IF j <= i THEN ab[j] ELSE b[j-i]
  <2>1. /\ ab \o b \in Seq(S) /\ Len(ab \o b) = Len(ab) + Len(b)
        /\ \A j \in 1..Len(ab)+Len(b) :
             (ab \o b)[j] = IF j <= Len(ab) THEN ab[j] ELSE b[j-Len(ab)]
    BY <1>2, <1>4, ConcatProperties
  <2>2. Len(ab) + Len(b) = Len(q) + 1
    BY <1>2, <1>4
  <2> QED BY <1>4, <2>1, <2>2
<1>6. \A j \in 1..Len(q)+1 :
        (ab \o b)[j] = IF j < i THEN q[j] ELSE IF j = i THEN p ELSE q[j-1]
  BY <1>2, <1>4, <1>5
<1>7. InsertAt(q, i, p) = ab \o b
  BY DEF InsertAt, ab, a, b
<1> QED BY <1>5, <1>6, <1>7 DEF Inserted

\* insertProcQ inserts p somewhere and leaves the others in their order.
LEMMA InsertProcQInserts ==
  ASSUME NEW S, NEW prio, NEW q \in Seq(S), NEW p \in S
  PROVE  /\ InsertProcQ(prio, q, p) \in Seq(S)
         /\ \E k \in Nat : Inserted(InsertProcQ(prio, q, p), q, p, k)
<1> DEFINE lower == {i \in 1..Len(q) : prio[p] > prio[q[i]]}
<1>1. CASE lower = {}
  <2>1. InsertProcQ(prio, q, p) = Append(q, p)
    BY <1>1 DEF InsertProcQ
  <2>2. Inserted(Append(q, p), q, p, Len(q)+1)
    BY AppendProperties DEF Inserted
  <2> QED BY <2>1, <2>2, AppendProperties
<1>2. CASE lower # {}
  <2>1. Min(lower) \in 1..Len(q)
    <3>1. lower \in SUBSET Nat
      OBVIOUS
    <3>2. Min(lower) \in lower
      BY <1>2, <3>1, MinIsLeast
    <3> QED BY <3>2
  <2>2. InsertProcQ(prio, q, p) = InsertAt(q, Min(lower), p)
    BY <1>2 DEF InsertProcQ
  <2> HIDE DEF lower
  <2>3. Min(lower) \in Nat
    BY <2>1
  <2> QED BY <2>1, <2>2, <2>3, InsertAtInserts
<1> QED BY <1>1, <1>2

\* Elements of a queue after an insertion.
LEMMA InsertedRange ==
  ASSUME NEW S, NEW q \in Seq(S), NEW p \in S, NEW r \in Seq(S), NEW k \in Nat,
         Inserted(r, q, p, k)
  PROVE  Range(r) = Range(q) \cup {p}
<1>1. Range(q) = {q[j] : j \in 1..Len(q)} /\ Range(r) = {r[j] : j \in 1..Len(q)+1}
  BY RangeEquality DEF Inserted
<1>2. ASSUME NEW x \in Range(r) PROVE x \in Range(q) \cup {p}
  <2>1. PICK j \in 1..Len(q)+1 : x = r[j]
    BY <1>1
  <2>2. x = IF j < k THEN q[j] ELSE IF j = k THEN p ELSE q[j-1]
    BY <2>1 DEF Inserted
  <2>3. CASE j < k
    BY <1>1, <2>2, <2>3 DEF Inserted
  <2>4. CASE j = k
    BY <2>2, <2>4
  <2>5. CASE j > k
    <3>1. j-1 \in 1..Len(q) /\ x = q[j-1]
      BY <2>2, <2>5 DEF Inserted
    <3> QED BY <1>1, <3>1
  <2> QED BY <2>3, <2>4, <2>5
<1>3. p \in Range(r)
  <2>1. k \in 1..Len(q)+1 /\ r[k] = p
    BY DEF Inserted
  <2> QED BY <1>1, <2>1
<1>4. ASSUME NEW x \in Range(q) PROVE x \in Range(r)
  <2>1. PICK j \in 1..Len(q) : x = q[j]
    BY <1>1
  <2>2. CASE j < k
    <3>1. j \in 1..Len(q)+1 /\ r[j] = x
      BY <2>1, <2>2 DEF Inserted
    <3> QED BY <1>1, <3>1
  <2>3. CASE j >= k
    <3>1. j+1 \in 1..Len(q)+1 /\ r[j+1] = q[j]
      BY <2>3 DEF Inserted
    <3> QED BY <1>1, <2>1, <3>1
  <2> QED BY <2>2, <2>3
<1> QED BY <1>2, <1>3, <1>4

\* Inserting a process that is not in the queue repeats nobody.
LEMMA InsertedNoRepetition ==
  ASSUME NEW S, NEW q \in Seq(S), NEW p \in S, NEW r \in Seq(S), NEW k \in Nat,
         Inserted(r, q, p, k), NoRepetition(q), p \notin Range(q)
  PROVE  NoRepetition(r)
<1> SUFFICES ASSUME NEW i \in 1..Len(q)+1, NEW j \in 1..Len(q)+1, r[i] = r[j]
             PROVE  i = j
  BY DEF Inserted, NoRepetition
<1> DEFINE Old(m) == IF m < k THEN m ELSE m-1
<1>1. \A m \in 1..Len(q)+1 :
        m # k => Old(m) \in 1..Len(q) /\ r[m] = q[Old(m)]
  BY DEF Inserted
<1>2. r[k] = p /\ k \in 1..Len(q)+1
  BY DEF Inserted
<1>3. \A m \in 1..Len(q) : q[m] # p
  BY RangeEquality
<1>4. CASE i = k
  BY <1>1, <1>2, <1>3, <1>4
<1>5. CASE j = k
  BY <1>1, <1>2, <1>3, <1>5
<1>6. CASE i # k /\ j # k
  <2>1. Old(i) = Old(j)
    BY <1>1, <1>6 DEF NoRepetition
  <2> QED BY <1>6, <2>1
<1> QED BY <1>4, <1>5, <1>6

\* insertProcQ adds p to the queue's processes, and repeats nobody.
LEMMA InsertProcQResult ==
  ASSUME NEW S, NEW prio, NEW q \in Seq(S), NEW p \in S
  PROVE  /\ InsertProcQ(prio, q, p) \in Seq(S)
         /\ Range(InsertProcQ(prio, q, p)) = Range(q) \cup {p}
         /\ NoRepetition(q) /\ p \notin Range(q)
              => NoRepetition(InsertProcQ(prio, q, p))
<1> DEFINE r == InsertProcQ(prio, q, p)
<1>1. r \in Seq(S) /\ \E k \in Nat : Inserted(r, q, p, k)
  BY InsertProcQInserts
<1> HIDE DEF r
<1>2. Range(r) = Range(q) \cup {p}
  BY <1>1, InsertedRange
<1>3. NoRepetition(q) /\ p \notin Range(q) => NoRepetition(r)
  BY <1>1, InsertedNoRepetition
<1> QED BY <1>1, <1>2, <1>3 DEF r

\* list_add_tail.
LEMMA AppendResult ==
  ASSUME NEW S, NEW q \in Seq(S), NEW p \in S
  PROVE  /\ Append(q, p) \in Seq(S)
         /\ Len(Append(q, p)) = Len(q) + 1
         /\ Append(q, p) # <<>>
         /\ Range(Append(q, p)) = Range(q) \cup {p}
         /\ NoRepetition(q) /\ p \notin Range(q) => NoRepetition(Append(q, p))
<1> DEFINE r == Append(q, p)
           k == Len(q) + 1
<1>1. r \in Seq(S) /\ Len(r) = Len(q) + 1 /\ r # <<>>
  BY AppendProperties
<1>2. Inserted(r, q, p, k) /\ k \in Nat
  BY AppendProperties DEF Inserted
<1> HIDE DEF r, k
<1>3. Range(r) = Range(q) \cup {p}
  BY <1>1, <1>2, InsertedRange
<1>4. NoRepetition(q) /\ p \notin Range(q) => NoRepetition(r)
  BY <1>1, <1>2, InsertedNoRepetition
<1> QED BY <1>1, <1>3, <1>4 DEF r

\* removeProcQ, and the queue it leaves.
LEMMA TailResult ==
  ASSUME NEW S, NEW q \in Seq(S), q # <<>>
  PROVE  /\ Head(q) \in S /\ Head(q) \in Range(q)
         /\ Tail(q) \in Seq(S)
         /\ Len(Tail(q)) = Len(q) - 1
         /\ Range(q) = Range(Tail(q)) \cup {Head(q)}
         /\ NoRepetition(q) =>
              NoRepetition(Tail(q)) /\ Head(q) \notin Range(Tail(q))
<1>1. /\ Len(q) \in Nat \ {0} /\ Head(q) = q[1] /\ Head(q) \in S
      /\ Tail(q) \in Seq(S) /\ Len(Tail(q)) = Len(q) - 1
      /\ \A i \in 1..Len(q)-1 : Tail(q)[i] = q[i+1]
  BY HeadTailProperties
<1>2. Range(q) = {q[i] : i \in 1..Len(q)}
  BY RangeEquality
<1>3. Range(Tail(q)) = {Tail(q)[i] : i \in 1..Len(q)-1}
  BY <1>1, RangeEquality
<1>4. \A x : x \in Range(Tail(q)) <=> \E i \in 2..Len(q) : x = q[i]
  <2>1. ASSUME NEW x, x \in Range(Tail(q)) PROVE \E i \in 2..Len(q) : x = q[i]
    <3>1. PICK i \in 1..Len(q)-1 : x = Tail(q)[i]
      BY <1>3, <2>1
    <3>2. i+1 \in 2..Len(q) /\ x = q[i+1]
      BY <1>1, <3>1
    <3> QED BY <3>2
  <2>2. ASSUME NEW i \in 2..Len(q) PROVE q[i] \in Range(Tail(q))
    <3>1. i-1 \in 1..Len(q)-1 /\ Tail(q)[i-1] = q[i]
      BY <1>1
    <3> QED BY <1>3, <3>1
  <2> QED BY <2>1, <2>2
<1>5. Range(q) = Range(Tail(q)) \cup {Head(q)}
  <2>1. 1 \in 1..Len(q) /\ \A i \in 1..Len(q) : i = 1 \/ i \in 2..Len(q)
    BY <1>1
  <2>2. \A i \in 2..Len(q) : i \in 1..Len(q)
    BY <1>1
  <2> QED BY <1>1, <1>2, <1>4, <2>1, <2>2
<1>6. ASSUME NoRepetition(q)
      PROVE  NoRepetition(Tail(q)) /\ Head(q) \notin Range(Tail(q))
  <2>1. NoRepetition(Tail(q))
    BY <1>1, <1>6 DEF NoRepetition
  <2>2. \A i \in 2..Len(q) : q[i] # q[1]
    BY <1>1, <1>6 DEF NoRepetition
  <2> QED BY <1>1, <1>4, <2>1, <2>2
<1>7. Head(q) \in Range(q)
  BY <1>5
<1> QED BY <1>1, <1>5, <1>6, <1>7

----------------------------------------------------------------------------
(* Removal of several processes *)

\* The recursive function in the definition of Without, up to m.
LeftStep(f, q, K, i) ==
  IF i = 0 THEN <<>>
  ELSE IF q[i] \in K THEN f[i-1] ELSE Append(f[i-1], q[i])

IsLeft(f, q, K, m) == f = [i \in 0..m |-> LeftStep(f, q, K, i)]

\* The recursion that defines Without has a value at every length.
LEMMA LeftExists ==
  ASSUME NEW q, NEW K
  PROVE  \A m \in Nat : \E f : IsLeft(f, q, K, m)
<1> DEFINE Good == {m \in Nat : \E f : IsLeft(f, q, K, m)}
<1>1. 0 \in Good
  <2> DEFINE f == [i \in 0..0 |-> <<>>]
  <2>1. \A i \in 0..0 : LeftStep(f, q, K, i) = <<>>
    BY DEF LeftStep
  <2>2. IsLeft(f, q, K, 0)
    BY <2>1 DEF IsLeft
  <2> QED BY <2>2
<1>2. ASSUME NEW n \in Nat, n \in Good PROVE n+1 \in Good
  <2>1. PICK f : IsLeft(f, q, K, n)
    BY <1>2
  <2> DEFINE g == [i \in 0..(n+1) |-> LeftStep(f, q, K, i)]
  <2>2. \A i \in 0..n : g[i] = f[i]
    BY <2>1 DEF IsLeft
  <2> HIDE DEF g
  <2>3. \A i \in 0..(n+1) : LeftStep(f, q, K, i) = LeftStep(g, q, K, i)
    <3>1. LeftStep(f, q, K, 0) = LeftStep(g, q, K, 0)
      BY DEF LeftStep
    <3>2. ASSUME NEW i \in 1..(n+1)
          PROVE  LeftStep(f, q, K, i) = LeftStep(g, q, K, i)
      <4>1. f[i-1] = g[i-1]
        BY <2>2
      <4> QED BY <4>1 DEF LeftStep
    <3>3. \A i \in 0..(n+1) : i = 0 \/ i \in 1..(n+1)
      OBVIOUS
    <3> QED BY <3>1, <3>2, <3>3
  <2>4. IsLeft(g, q, K, n+1)
    BY <2>3 DEF IsLeft, g
  <2>5. n+1 \in Nat
    OBVIOUS
  <2> QED BY <2>4, <2>5
<1> HIDE DEF Good
<1>3. \A n \in Nat : n \in Good
  BY <1>1, <1>2, SetInduction
<1> QED BY <1>3 DEF Good

\* The queue without K keeps its other processes, and repeats nobody.
LEMMA WithoutResult ==
  ASSUME NEW S, NEW q \in Seq(S), NEW K
  PROVE  /\ Without(q, K) \in Seq(S)
         /\ Range(Without(q, K)) = Range(q) \ K
         /\ NoRepetition(q) => NoRepetition(Without(q, K))
<1> DEFINE f == CHOOSE g : IsLeft(g, q, K, Len(q))
<1>1. Len(q) \in Nat
  OBVIOUS
<1>2. IsLeft(f, q, K, Len(q))
  BY <1>1, LeftExists
<1>3. Without(q, K) = f[Len(q)]
  BY DEF Without, IsLeft, LeftStep
<1> HIDE DEF f
<1>4. /\ f[0] = <<>>
      /\ \A i \in 1..Len(q) :
           f[i] = IF q[i] \in K THEN f[i-1] ELSE Append(f[i-1], q[i])
  <2>1. \A i \in 0..Len(q) : f[i] = LeftStep(f, q, K, i)
    BY <1>2 DEF IsLeft
  <2>2. 0 \in 0..Len(q) /\ \A i \in 1..Len(q) : i \in 0..Len(q) /\ i # 0
    BY <1>1
  <2> HIDE <1>2
  <2> QED BY <2>1, <2>2 DEF LeftStep
<1> DEFINE Part(i) == {q[j] : j \in 1..i}
           Fine(i) == /\ f[i] \in Seq(S)
                      /\ Range(f[i]) = Part(i) \ K
                      /\ NoRepetition(q) => NoRepetition(f[i])
           Good == {i \in Nat : i <= Len(q) => Fine(i)}
<1>5. 0 \in Good
  <2>1. <<>> \in Seq(S) /\ Range(<<>>) = {} /\ NoRepetition(<<>>)
    <3>1. <<>> \in Seq(S) /\ Len(<<>>) = 0
      OBVIOUS
    <3>2. Range(<<>>) = {}
      BY <3>1 DEF Range
    <3> QED BY <3>1, <3>2 DEF NoRepetition
  <2>2. Part(0) = {}
    OBVIOUS
  <2> QED BY <1>4, <2>1, <2>2
<1>6. ASSUME NEW n \in Nat, n \in Good PROVE n+1 \in Good
  <2> SUFFICES ASSUME n+1 <= Len(q) PROVE Fine(n+1)
    OBVIOUS
  <2>1. n+1 \in 1..Len(q) /\ n \in 0..Len(q) /\ (n+1)-1 = n /\ q[n+1] \in S
    BY <1>1, ElementOfSeq
  <2>2. Fine(n)
    BY <1>6, <2>1
  <2>3. Part(n+1) = Part(n) \cup {q[n+1]}
    <3>1. 1..(n+1) = (1..n) \cup {n+1}
      OBVIOUS
    <3> QED BY <3>1
  <2>4. CASE q[n+1] \in K
    <3>1. f[n+1] = f[n]
      BY <1>4, <2>1, <2>4
    <3> QED BY <2>2, <2>3, <2>4, <3>1
  <2>5. CASE q[n+1] \notin K
    <3>1. f[n+1] = Append(f[n], q[n+1])
      BY <1>4, <2>1, <2>5
    <3> DEFINE x == q[n+1]
               g == f[n]
    <3>2. g \in Seq(S) /\ x \in S
      BY <2>1, <2>2
    <3>3. NoRepetition(q) => x \notin Range(g)
      <4>1. NoRepetition(q) => x \notin Part(n)
        BY <2>1 DEF NoRepetition
      <4> QED BY <2>2, <4>1
    <3> HIDE DEF x, g
    <3>4. /\ Append(g, x) \in Seq(S)
          /\ Range(Append(g, x)) = Range(g) \cup {x}
          /\ NoRepetition(g) /\ x \notin Range(g) => NoRepetition(Append(g, x))
      BY <3>2, AppendResult
    <3>5. Range(Append(g, x)) = Part(n+1) \ K
      BY <2>2, <2>3, <2>5, <3>4 DEF x, g
    <3> QED BY <2>2, <3>1, <3>3, <3>4, <3>5 DEF x, g
  <2> QED BY <2>4, <2>5
<1>7. \A n \in Nat : n \in Good
  <2> HIDE DEF Good
  <2> QED BY <1>5, <1>6, SetInduction
<1>8. Fine(Len(q))
  <2>1. Len(q) \in Good
    BY <1>1, <1>7
  <2> HIDE DEF Fine
  <2> QED BY <1>1, <2>1
<1>9. Part(Len(q)) = Range(q)
  BY RangeEquality
<1> QED BY <1>3, <1>8, <1>9

----------------------------------------------------------------------------
(* Insertion of several processes *)

\* The recursive function in the definition of InsertEach, up to m.
IntoStep(f, prio, q, w, i) ==
  IF i = 0 THEN q ELSE InsertProcQ(prio, f[i-1], w[i])

IsInto(f, prio, q, w, m) == f = [i \in 0..m |-> IntoStep(f, prio, q, w, i)]

\* The recursion that defines InsertEach has a value at every length.
LEMMA IntoExists ==
  ASSUME NEW prio, NEW q, NEW w
  PROVE  \A m \in Nat : \E f : IsInto(f, prio, q, w, m)
<1> DEFINE Good == {m \in Nat : \E f : IsInto(f, prio, q, w, m)}
<1>1. 0 \in Good
  <2> DEFINE f == [i \in 0..0 |-> q]
  <2>1. \A i \in 0..0 : IntoStep(f, prio, q, w, i) = q
    BY DEF IntoStep
  <2>2. IsInto(f, prio, q, w, 0)
    BY <2>1 DEF IsInto
  <2> QED BY <2>2
<1>2. ASSUME NEW n \in Nat, n \in Good PROVE n+1 \in Good
  <2>1. PICK f : IsInto(f, prio, q, w, n)
    BY <1>2
  <2> DEFINE g == [i \in 0..(n+1) |-> IntoStep(f, prio, q, w, i)]
  <2>2. \A i \in 0..n : g[i] = f[i]
    BY <2>1 DEF IsInto
  <2> HIDE DEF g
  <2>3. \A i \in 0..(n+1) : IntoStep(f, prio, q, w, i) = IntoStep(g, prio, q, w, i)
    <3>1. IntoStep(f, prio, q, w, 0) = IntoStep(g, prio, q, w, 0)
      BY DEF IntoStep
    <3>2. ASSUME NEW i \in 1..(n+1)
          PROVE  IntoStep(f, prio, q, w, i) = IntoStep(g, prio, q, w, i)
      <4>1. f[i-1] = g[i-1]
        BY <2>2
      <4> QED BY <4>1 DEF IntoStep
    <3>3. \A i \in 0..(n+1) : i = 0 \/ i \in 1..(n+1)
      OBVIOUS
    <3> QED BY <3>1, <3>2, <3>3
  <2>4. IsInto(g, prio, q, w, n+1)
    BY <2>3 DEF IsInto, g
  <2>5. n+1 \in Nat
    OBVIOUS
  <2> QED BY <2>4, <2>5
<1> HIDE DEF Good
<1>3. \A n \in Nat : n \in Good
  BY <1>1, <1>2, SetInduction
<1> QED BY <1>3 DEF Good

\* Inserting each process of w in q joins the two, and repeats nobody if they
\* have nobody in common.
LEMMA InsertEachResult ==
  ASSUME NEW S, NEW prio, NEW q \in Seq(S), NEW w \in Seq(S)
  PROVE  /\ InsertEach(prio, q, w) \in Seq(S)
         /\ Range(InsertEach(prio, q, w)) = Range(q) \cup Range(w)
         /\ NoRepetition(q) /\ NoRepetition(w) /\ Range(q) \cap Range(w) = {}
              => NoRepetition(InsertEach(prio, q, w))
<1> DEFINE f == CHOOSE g : IsInto(g, prio, q, w, Len(w))
           Apart == NoRepetition(q) /\ NoRepetition(w) /\ Range(q) \cap Range(w) = {}
<1>1. Len(w) \in Nat
  OBVIOUS
<1>2. IsInto(f, prio, q, w, Len(w))
  BY <1>1, IntoExists
<1>3. InsertEach(prio, q, w) = f[Len(w)]
  BY DEF InsertEach, IsInto, IntoStep
<1> HIDE DEF f
<1>4. /\ f[0] = q
      /\ \A i \in 1..Len(w) : f[i] = InsertProcQ(prio, f[i-1], w[i])
  <2>1. \A i \in 0..Len(w) : f[i] = IntoStep(f, prio, q, w, i)
    BY <1>2 DEF IsInto
  <2>2. 0 \in 0..Len(w) /\ \A i \in 1..Len(w) : i \in 0..Len(w) /\ i # 0
    BY <1>1
  <2> HIDE <1>2
  <2> QED BY <2>1, <2>2 DEF IntoStep
<1> DEFINE Part(i) == {w[j] : j \in 1..i}
           Fine(i) == /\ f[i] \in Seq(S)
                      /\ Range(f[i]) = Range(q) \cup Part(i)
                      /\ Apart => NoRepetition(f[i])
           Good == {i \in Nat : i <= Len(w) => Fine(i)}
<1>5. 0 \in Good
  <2>1. Part(0) = {}
    OBVIOUS
  <2> QED BY <1>4, <2>1
<1>6. ASSUME NEW n \in Nat, n \in Good PROVE n+1 \in Good
  <2> SUFFICES ASSUME n+1 <= Len(w) PROVE Fine(n+1)
    OBVIOUS
  <2>1. n+1 \in 1..Len(w) /\ n \in 0..Len(w) /\ (n+1)-1 = n /\ w[n+1] \in S
    BY <1>1, ElementOfSeq
  <2>2. Fine(n)
    BY <1>6, <2>1
  <2>3. Part(n+1) = Part(n) \cup {w[n+1]}
    <3>1. 1..(n+1) = (1..n) \cup {n+1}
      OBVIOUS
    <3> QED BY <3>1
  <2> DEFINE x == w[n+1]
             g == f[n]
  <2>4. f[n+1] = InsertProcQ(prio, g, x)
    BY <1>4, <2>1
  <2>5. g \in Seq(S) /\ x \in S
    BY <2>1, <2>2
  <2>6. Apart => x \notin Range(g)
    <3>1. Apart => x \notin Part(n)
      BY <2>1 DEF NoRepetition
    <3>2. x \in Range(w)
      BY <2>1, RangeEquality
    <3> QED BY <2>2, <3>1, <3>2
  <2> HIDE DEF x, g
  <2>7. /\ InsertProcQ(prio, g, x) \in Seq(S)
        /\ Range(InsertProcQ(prio, g, x)) = Range(g) \cup {x}
        /\ NoRepetition(g) /\ x \notin Range(g)
             => NoRepetition(InsertProcQ(prio, g, x))
    BY <2>5, InsertProcQResult
  <2>8. Range(InsertProcQ(prio, g, x)) = Range(q) \cup Part(n+1)
    BY <2>2, <2>3, <2>7 DEF x, g
  <2> QED BY <2>2, <2>4, <2>6, <2>7, <2>8 DEF g
<1>7. \A n \in Nat : n \in Good
  <2> HIDE DEF Good
  <2> QED BY <1>5, <1>6, SetInduction
<1>8. Fine(Len(w))
  <2>1. Len(w) \in Good
    BY <1>1, <1>7
  <2> HIDE DEF Fine
  <2> QED BY <1>1, <2>1
<1>9. Part(Len(w)) = Range(w)
  BY RangeEquality
<1> QED BY <1>3, <1>8, <1>9

----------------------------------------------------------------------------
(* Parts of a queue, and its length *)

\* A queue cut after its first n processes.
LEMMA CutResult ==
  ASSUME NEW S, NEW q \in Seq(S), NEW n \in 0..Len(q)
  PROVE  LET a == SubSeq(q, 1, n)
             b == SubSeq(q, n+1, Len(q))
         IN  /\ a \in Seq(S) /\ Len(a) = n
             /\ b \in Seq(S) /\ Len(b) = Len(q) - n
             /\ Range(q) = Range(a) \cup Range(b)
             /\ NoRepetition(q) => /\ NoRepetition(a) /\ NoRepetition(b)
                                  /\ Range(a) \cap Range(b) = {}
<1> DEFINE a == SubSeq(q, 1, n)
           b == SubSeq(q, n+1, Len(q))
<1>1. Len(q) \in Nat
  OBVIOUS
<1>2. a \in Seq(S) /\ Len(a) = n /\ \A i \in 1..n : a[i] = q[i]
  BY <1>1, SubSeqProperties
<1>3. /\ b \in Seq(S) /\ Len(b) = Len(q) - n
      /\ \A i \in 1..Len(q)-n : b[i] = q[n+i]
  BY <1>1, SubSeqProperties
<1> HIDE DEF a, b
<1>4. /\ Range(q) = {q[i] : i \in 1..Len(q)}
      /\ Range(a) = {a[i] : i \in 1..n}
      /\ Range(b) = {b[i] : i \in 1..Len(q)-n}
  <2>1. /\ Range(q) = {q[i] : i \in 1..Len(q)}
        /\ Range(a) = {a[i] : i \in 1..Len(a)}
        /\ Range(b) = {b[i] : i \in 1..Len(b)}
    <3>1. Range(q) = {q[i] : i \in 1..Len(q)}
      BY RangeEquality
    <3>2. a \in Seq(S)
      BY <1>2
    <3>3. b \in Seq(S)
      BY <1>3
    <3>4. Range(a) = {a[i] : i \in 1..Len(a)}
      BY ONLY <3>2, RangeEquality
    <3>5. Range(b) = {b[i] : i \in 1..Len(b)}
      BY ONLY <3>3, RangeEquality
    <3> QED BY <3>1, <3>4, <3>5
  <2>2. 1..Len(a) = 1..n /\ 1..Len(b) = 1..Len(q)-n
    BY <1>2, <1>3
  <2> QED BY <2>1, <2>2
<1>5. \A x : x \in Range(a) <=> \E i \in 1..n : x = q[i]
  BY <1>2, <1>4
<1>6. \A x : x \in Range(b) <=> \E i \in (n+1)..Len(q) : x = q[i]
  <2>1. ASSUME NEW x, x \in Range(b) PROVE \E i \in (n+1)..Len(q) : x = q[i]
    <3>1. PICK i \in 1..Len(q)-n : x = b[i]
      BY <1>4, <2>1
    <3>2. n+i \in (n+1)..Len(q) /\ x = q[n+i]
      BY <1>1, <1>3, <3>1
    <3> QED BY <3>2
  <2>2. ASSUME NEW i \in (n+1)..Len(q) PROVE q[i] \in Range(b)
    <3>1. i-n \in 1..Len(q)-n /\ n+(i-n) = i
      BY <1>1
    <3>2. b[i-n] = q[i]
      BY <1>3, <3>1
    <3> QED BY <1>4, <3>1, <3>2
  <2> QED BY <2>1, <2>2
<1>7. Range(q) = Range(a) \cup Range(b)
  <2>1. \A i \in 1..Len(q) : i \in 1..n \/ i \in (n+1)..Len(q)
    BY <1>1
  <2>2. \A i \in 1..n : i \in 1..Len(q)
    BY <1>1
  <2>3. \A i \in (n+1)..Len(q) : i \in 1..Len(q)
    BY <1>1
  <2>4. \A x : x \in Range(q) <=> \E i \in 1..Len(q) : x = q[i]
    BY <1>4
  <2>5. \A x : x \in Range(q) <=> x \in Range(a) \/ x \in Range(b)
    BY <1>5, <1>6, <2>1, <2>2, <2>3, <2>4
  <2> QED BY <2>5
<1>8. ASSUME NoRepetition(q)
      PROVE  NoRepetition(a) /\ NoRepetition(b) /\ Range(a) \cap Range(b) = {}
  <2>1. NoRepetition(a)
    BY <1>1, <1>2, <1>8 DEF NoRepetition
  <2>2. NoRepetition(b)
    <3> SUFFICES ASSUME NEW i \in 1..Len(q)-n, NEW j \in 1..Len(q)-n, b[i] = b[j]
                 PROVE  i = j
      BY <1>3 DEF NoRepetition
    <3>1. n+i \in 1..Len(q) /\ n+j \in 1..Len(q) /\ q[n+i] = q[n+j]
      BY <1>1, <1>3
    <3>2. n+i = n+j
      BY <1>8, <3>1 DEF NoRepetition
    <3> QED BY <1>1, <3>2
  <2>3. ASSUME NEW i \in 1..n, NEW j \in (n+1)..Len(q) PROVE q[i] # q[j]
    <3>1. i \in 1..Len(q) /\ j \in 1..Len(q) /\ i # j
      BY <1>1
    <3> QED BY <1>8, <3>1 DEF NoRepetition
  <2> QED BY <1>5, <1>6, <2>1, <2>2, <2>3
<1> QED BY <1>2, <1>3, <1>7, <1>8 DEF a, b

\* A queue without repetitions is as long as it has processes.
LEMMA QueueCardinality ==
  ASSUME NEW S, NEW q \in Seq(S), NoRepetition(q)
  PROVE  IsFiniteSet(Range(q)) /\ Cardinality(Range(q)) = Len(q)
<1>1. Len(q) \in Nat /\ DOMAIN q = 1..Len(q) /\ Range(q) = {q[i] : i \in 1..Len(q)}
  BY RangeEquality, LenProperties
<1>2. q \in Bijection(1..Len(q), Range(q))
  <2>1. q \in [1..Len(q) -> Range(q)]
    BY <1>1
  <2> QED BY <1>1, <2>1 DEF NoRepetition, Bijection, Injection, Surjection, IsInjective
<1>3. ExistsBijection(1..Len(q), Range(q))
  BY <1>2 DEF ExistsBijection
<1>4. IsFiniteSet(1..Len(q)) /\ Cardinality(1..Len(q)) = Len(q)
  BY <1>1, FS_Interval
<1> QED BY <1>3, <1>4, FS_Bijection

----------------------------------------------------------------------------
(* The order of a queue *)

\* A process that goes to the tail, not above any of the others.
LEMMA SortedAppend ==
  ASSUME NEW S, NEW prio \in [S -> Int], NEW q \in Seq(S), NEW p \in S,
         Sorted(prio, q), \A y \in Range(q) : prio[y] >= prio[p]
  PROVE  Sorted(prio, Append(q, p))
<1> DEFINE r == Append(q, p)
<1>1. Len(q) \in Nat /\ Len(r) = Len(q) + 1 /\ r[Len(q)+1] = p
  BY AppendProperties
<1>2. \A i \in 1..Len(q) : r[i] = q[i] /\ q[i] \in Range(q) /\ q[i] \in S
  BY AppendProperties, RangeEquality, ElementOfSeq
<1> HIDE DEF r
<1>3. ASSUME NEW i \in 1..Len(r), NEW j \in 1..Len(r), i < j
      PROVE  prio[r[i]] >= prio[r[j]]
  <2>1. i \in 1..Len(q)
    BY <1>1, <1>3
  <2>2. CASE j = Len(q) + 1
    BY <1>1, <1>2, <2>1, <2>2
  <2>3. CASE j # Len(q) + 1
    <3>1. j \in 1..Len(q)
      BY <1>1, <2>3
    <3> QED BY <1>2, <1>3, <2>1, <3>1 DEF Sorted
  <2> QED BY <2>2, <2>3
<1> QED BY <1>3 DEF Sorted, r

\* insertProcQ keeps a queue in the order of the priorities.
LEMMA SortedInsert ==
  ASSUME NEW S, NEW prio \in [S -> Int], NEW q \in Seq(S), NEW p \in S,
         Sorted(prio, q)
  PROVE  Sorted(prio, InsertProcQ(prio, q, p))
<1> DEFINE lower == {i \in 1..Len(q) : prio[p] > prio[q[i]]}
<1>1. Len(q) \in Nat /\ \A i \in 1..Len(q) : q[i] \in S /\ prio[q[i]] \in Int
  BY ElementOfSeq
<1>2. CASE lower = {}
  <2>1. \A y \in Range(q) : prio[y] >= prio[p]
    BY <1>1, <1>2, RangeEquality
  <2> QED BY <1>2, <2>1, SortedAppend DEF InsertProcQ
<1>3. CASE lower # {}
  <2> DEFINE k == Min(lower)
             r == InsertAt(q, k, p)
  <2>1. lower \in SUBSET Nat
    OBVIOUS
  <2>2. k \in lower /\ \A i \in lower : k <= i
    BY <1>3, <2>1, MinIsLeast
  <2>3. InsertProcQ(prio, q, p) = r
    BY <1>3 DEF InsertProcQ
  <2>4. k \in 1..Len(q) /\ prio[p] > prio[q[k]]
    BY <2>2
  <2>5. \A i \in 1..Len(q) : i < k => prio[q[i]] >= prio[p]
    BY <1>1, <2>2, <2>4
  <2> HIDE DEF lower, k
  <2>6. Inserted(r, q, p, k)
    BY <2>4, InsertAtInserts
  <2> HIDE DEF r
  <2>7. \A i \in 1..Len(q) : i >= k => prio[p] >= prio[q[i]]
    <3>1. \A i \in 1..Len(q) : i > k => prio[q[k]] >= prio[q[i]]
      BY <2>4 DEF Sorted
    <3> QED BY <1>1, <2>4, <3>1
  <2>8. ASSUME NEW i \in 1..Len(q)+1, NEW j \in 1..Len(q)+1, i < j
        PROVE  prio[r[i]] >= prio[r[j]]
    <3>1. /\ r[i] = IF i < k THEN q[i] ELSE IF i = k THEN p ELSE q[i-1]
          /\ r[j] = IF j < k THEN q[j] ELSE IF j = k THEN p ELSE q[j-1]
      BY <2>6 DEF Inserted
    <3>2. CASE j < k
      <4>1. i \in 1..Len(q) /\ j \in 1..Len(q) /\ i < k
        BY <1>1, <2>4, <2>8, <3>2
      <4> QED BY <2>8, <3>1, <3>2, <4>1 DEF Sorted
    <3>3. CASE j = k
      <4>1. i \in 1..Len(q) /\ i < k
        BY <1>1, <2>4, <2>8, <3>3
      <4> QED BY <2>5, <3>1, <3>3, <4>1
    <3>4. CASE j > k
      <4>1. j-1 \in 1..Len(q) /\ j-1 >= k /\ r[j] = q[j-1]
        BY <1>1, <2>4, <3>1, <3>4
      <4>2. prio[p] >= prio[q[j-1]]
        BY <2>7, <4>1
      <4>3. CASE i < k
        <5>1. i \in 1..Len(q) /\ r[i] = q[i]
          BY <1>1, <2>4, <3>1, <4>3
        <5>2. prio[q[i]] >= prio[p]
          BY <2>5, <4>3, <5>1
        <5> QED BY <1>1, <4>1, <4>2, <5>1, <5>2
      <4>4. CASE i = k
        BY <3>1, <4>1, <4>2, <4>4
      <4>5. CASE i > k
        <5>1. i-1 \in 1..Len(q) /\ i-1 < j-1 /\ r[i] = q[i-1]
          BY <1>1, <2>4, <2>8, <3>1, <4>5
        <5> QED BY <4>1, <5>1 DEF Sorted
      <4> QED BY <2>4, <4>3, <4>4, <4>5
    <3> QED BY <2>4, <3>2, <3>3, <3>4
  <2>9. Len(r) = Len(q) + 1
    BY <2>6 DEF Inserted
  <2> QED BY <2>3, <2>8, <2>9 DEF Sorted
<1> QED BY <1>2, <1>3

\* A queue without its head.
LEMMA SortedTail ==
  ASSUME NEW S, NEW prio, NEW q \in Seq(S), q # <<>>, Sorted(prio, q)
  PROVE  Sorted(prio, Tail(q))
<1>1. /\ Len(q) \in Nat /\ Len(Tail(q)) = Len(q) - 1
      /\ \A i \in 1..Len(Tail(q)) : Tail(q)[i] = q[i+1]
  BY HeadTailProperties, LenProperties
<1>2. ASSUME NEW i \in 1..Len(Tail(q)), NEW j \in 1..Len(Tail(q)), i < j
      PROVE  prio[Tail(q)[i]] >= prio[Tail(q)[j]]
  <2>1. i+1 \in 1..Len(q) /\ j+1 \in 1..Len(q) /\ i+1 < j+1
    BY <1>1, <1>2
  <2> QED BY <1>1, <2>1 DEF Sorted
<1> QED BY <1>2 DEF Sorted

\* A queue that some processes have left.
LEMMA SortedWithout ==
  ASSUME NEW S, NEW prio \in [S -> Int], NEW q \in Seq(S), NEW K, Sorted(prio, q)
  PROVE  Sorted(prio, Without(q, K))
<1> DEFINE f == CHOOSE g : IsLeft(g, q, K, Len(q))
<1>1. Len(q) \in Nat
  OBVIOUS
<1>2. IsLeft(f, q, K, Len(q))
  BY <1>1, LeftExists
<1>3. Without(q, K) = f[Len(q)]
  BY DEF Without, IsLeft, LeftStep
<1> HIDE DEF f
<1>4. /\ f[0] = <<>>
      /\ \A i \in 1..Len(q) :
           f[i] = IF q[i] \in K THEN f[i-1] ELSE Append(f[i-1], q[i])
  <2>1. \A i \in 0..Len(q) : f[i] = LeftStep(f, q, K, i)
    BY <1>2 DEF IsLeft
  <2>2. 0 \in 0..Len(q) /\ \A i \in 1..Len(q) : i \in 0..Len(q) /\ i # 0
    BY <1>1
  <2> HIDE <1>2
  <2> QED BY <2>1, <2>2 DEF LeftStep
<1> DEFINE Part(i) == {q[j] : j \in 1..i}
           Fine(i) == /\ f[i] \in Seq(S)
                      /\ Range(f[i]) \subseteq Part(i)
                      /\ Sorted(prio, f[i])
           Good == {i \in Nat : i <= Len(q) => Fine(i)}
<1>5. 0 \in Good
  <2>1. <<>> \in Seq(S) /\ Range(<<>>) = {} /\ Sorted(prio, <<>>)
    BY DEF Range, Sorted
  <2> QED BY <1>4, <2>1
<1>6. ASSUME NEW n \in Nat, n \in Good PROVE n+1 \in Good
  <2> SUFFICES ASSUME n+1 <= Len(q) PROVE Fine(n+1)
    OBVIOUS
  <2>1. n+1 \in 1..Len(q) /\ n \in 0..Len(q) /\ (n+1)-1 = n /\ q[n+1] \in S
    BY <1>1, ElementOfSeq
  <2>2. Fine(n)
    BY <1>6, <2>1
  <2>3. Part(n) \cup {q[n+1]} \subseteq Part(n+1)
    OBVIOUS
  <2>4. CASE q[n+1] \in K
    <3>1. f[n+1] = f[n]
      BY <1>4, <2>1, <2>4
    <3> QED BY <2>2, <2>3, <3>1
  <2>5. CASE q[n+1] \notin K
    <3>1. f[n+1] = Append(f[n], q[n+1])
      BY <1>4, <2>1, <2>5
    <3> DEFINE x == q[n+1]
               g == f[n]
    <3>2. g \in Seq(S) /\ x \in S /\ Sorted(prio, g)
      BY <2>1, <2>2
    <3>3. \A y \in Range(g) : prio[y] >= prio[x]
      <4>1. \A j \in 1..n : prio[q[j]] >= prio[q[n+1]]
        BY <2>1 DEF Sorted
      <4> QED BY <2>2, <4>1
    <3> HIDE DEF x, g
    <3>4. Sorted(prio, Append(g, x))
      BY <3>2, <3>3, SortedAppend
    <3>5. Append(g, x) \in Seq(S) /\ Range(Append(g, x)) = Range(g) \cup {x}
      BY <3>2, AppendResult
    <3>6. Range(Append(g, x)) \subseteq Part(n+1)
      BY <2>2, <2>3, <3>5 DEF x, g
    <3> QED BY <3>1, <3>4, <3>5, <3>6 DEF x, g
  <2> QED BY <2>4, <2>5
<1>7. \A n \in Nat : n \in Good
  <2> HIDE DEF Good
  <2> QED BY <1>5, <1>6, SetInduction
<1>8. Fine(Len(q))
  <2>1. Len(q) \in Good
    BY <1>1, <1>7
  <2> HIDE DEF Fine
  <2> QED BY <1>1, <2>1
<1> QED BY <1>3, <1>8

\* The insertion of several processes, one after the other.
LEMMA SortedInsertEach ==
  ASSUME NEW S, NEW prio \in [S -> Int], NEW q \in Seq(S), NEW w \in Seq(S),
         Sorted(prio, q)
  PROVE  Sorted(prio, InsertEach(prio, q, w))
<1> DEFINE f == CHOOSE g : IsInto(g, prio, q, w, Len(w))
<1>1. Len(w) \in Nat
  OBVIOUS
<1>2. IsInto(f, prio, q, w, Len(w))
  BY <1>1, IntoExists
<1>3. InsertEach(prio, q, w) = f[Len(w)]
  BY DEF InsertEach, IsInto, IntoStep
<1> HIDE DEF f
<1>4. /\ f[0] = q
      /\ \A i \in 1..Len(w) : f[i] = InsertProcQ(prio, f[i-1], w[i])
  <2>1. \A i \in 0..Len(w) : f[i] = IntoStep(f, prio, q, w, i)
    BY <1>2 DEF IsInto
  <2>2. 0 \in 0..Len(w) /\ \A i \in 1..Len(w) : i \in 0..Len(w) /\ i # 0
    BY <1>1
  <2> HIDE <1>2
  <2> QED BY <2>1, <2>2 DEF IntoStep
<1> DEFINE Fine(i) == f[i] \in Seq(S) /\ Sorted(prio, f[i])
           Good == {i \in Nat : i <= Len(w) => Fine(i)}
<1>5. 0 \in Good
  BY <1>4
<1>6. ASSUME NEW n \in Nat, n \in Good PROVE n+1 \in Good
  <2> SUFFICES ASSUME n+1 <= Len(w) PROVE Fine(n+1)
    OBVIOUS
  <2>1. n+1 \in 1..Len(w) /\ n \in 0..Len(w) /\ (n+1)-1 = n /\ w[n+1] \in S
    BY <1>1, ElementOfSeq
  <2>2. Fine(n)
    BY <1>6, <2>1
  <2> DEFINE x == w[n+1]
             g == f[n]
  <2>3. f[n+1] = InsertProcQ(prio, g, x)
    BY <1>4, <2>1
  <2>4. g \in Seq(S) /\ x \in S /\ Sorted(prio, g)
    BY <2>1, <2>2
  <2> HIDE DEF x, g
  <2>5. InsertProcQ(prio, g, x) \in Seq(S) /\ Sorted(prio, InsertProcQ(prio, g, x))
    BY <2>4, InsertProcQResult, SortedInsert
  <2> QED BY <2>3, <2>5
<1>7. \A n \in Nat : n \in Good
  <2> HIDE DEF Good
  <2> QED BY <1>5, <1>6, SetInduction
<1>8. Fine(Len(w))
  <2>1. Len(w) \in Good
    BY <1>1, <1>7
  <2> HIDE DEF Fine
  <2> QED BY <1>1, <2>1
<1> QED BY <1>3, <1>8

----------------------------------------------------------------------------
(* Who is in front of whom *)

\* Whoever is in front of another one in r is so in q.
Keeps(r, q) ==
  \A i, j \in 1..Len(r) :
    i < j => \E k, l \in 1..Len(q) : k < l /\ q[k] = r[i] /\ q[l] = r[j]

\* The processes that outProcQ leaves are in their old order.
LEMMA WithoutKeeps ==
  ASSUME NEW S, NEW q \in Seq(S), NEW K
  PROVE  Keeps(Without(q, K), q)
<1> DEFINE f == CHOOSE g : IsLeft(g, q, K, Len(q))
<1>1. Len(q) \in Nat
  OBVIOUS
<1>2. IsLeft(f, q, K, Len(q))
  BY <1>1, LeftExists
<1>3. Without(q, K) = f[Len(q)]
  BY DEF Without, IsLeft, LeftStep
<1> HIDE DEF f
<1>4. /\ f[0] = <<>>
      /\ \A i \in 1..Len(q) :
           f[i] = IF q[i] \in K THEN f[i-1] ELSE Append(f[i-1], q[i])
  <2>1. \A i \in 0..Len(q) : f[i] = LeftStep(f, q, K, i)
    BY <1>2 DEF IsLeft
  <2>2. 0 \in 0..Len(q) /\ \A i \in 1..Len(q) : i \in 0..Len(q) /\ i # 0
    BY <1>1
  <2> HIDE <1>2
  <2> QED BY <2>1, <2>2 DEF LeftStep
<1> DEFINE Fine(i) == /\ f[i] \in Seq(S)
                      /\ \A k \in 1..Len(f[i]) : \E j \in 1..i : f[i][k] = q[j]
                      /\ Keeps(f[i], q)
           Good == {i \in Nat : i <= Len(q) => Fine(i)}
<1>5. 0 \in Good
  <2>1. <<>> \in Seq(S) /\ Len(<<>>) = 0 /\ Keeps(<<>>, q)
    BY DEF Keeps
  <2>2. f[0] \in Seq(S) /\ Len(f[0]) = 0 /\ Keeps(f[0], q)
    BY <1>4, <2>1
  <2>3. \A k \in 1..Len(f[0]) : \E j \in 1..0 : f[0][k] = q[j]
    BY <2>2
  <2> QED BY <2>2, <2>3
<1>6. ASSUME NEW n \in Nat, n \in Good PROVE n+1 \in Good
  <2> SUFFICES ASSUME n+1 <= Len(q) PROVE Fine(n+1)
    OBVIOUS
  <2>1. n+1 \in 1..Len(q) /\ n \in 0..Len(q) /\ (n+1)-1 = n /\ q[n+1] \in S
    BY <1>1, ElementOfSeq
  <2>2. Fine(n)
    BY <1>6, <2>1
  <2>3. CASE q[n+1] \in K
    <3>1. f[n+1] = f[n]
      BY <1>4, <2>1, <2>3
    <3> QED BY <2>2, <3>1
  <2>4. CASE q[n+1] \notin K
    <3>1. f[n+1] = Append(f[n], q[n+1])
      BY <1>4, <2>1, <2>4
    <3> DEFINE x == q[n+1]
               g == f[n]
               r == Append(g, x)
    <3>2. /\ g \in Seq(S) /\ x \in S /\ Keeps(g, q)
          /\ \A k \in 1..Len(g) : \E j \in 1..n : g[k] = q[j]
      BY <2>1, <2>2
    <3>3. x = q[n+1]
      OBVIOUS
    <3> HIDE DEF x, g
    <3>4. /\ r \in Seq(S) /\ Len(g) \in Nat /\ Len(r) = Len(g) + 1
          /\ r[Len(g)+1] = x /\ \A k \in 1..Len(g) : r[k] = g[k]
      BY <3>2, AppendProperties, LenProperties
    <3> HIDE DEF r
    <3>5. ASSUME NEW k \in 1..Len(r) PROVE \E j \in 1..n+1 : r[k] = q[j]
      <4>1. CASE k = Len(g) + 1
        BY <2>1, <3>3, <3>4, <4>1
      <4>2. CASE k # Len(g) + 1
        <5>1. k \in 1..Len(g)
          BY <3>4, <4>2
        <5> QED BY <3>2, <3>4, <5>1
      <4> QED BY <4>1, <4>2
    <3>6. ASSUME NEW i \in 1..Len(r), NEW j \in 1..Len(r), i < j
          PROVE  \E k, l \in 1..Len(q) : k < l /\ q[k] = r[i] /\ q[l] = r[j]
      <4>1. i \in 1..Len(g)
        BY <3>4, <3>6
      <4>2. CASE j = Len(g) + 1
        <5>1. PICK k \in 1..n : g[i] = q[k]
          BY <3>2, <4>1
        <5>2. k \in 1..Len(q) /\ k < n+1
          BY <1>1, <2>1, <5>1
        <5> QED BY <2>1, <3>3, <3>4, <4>1, <4>2, <5>1, <5>2
      <4>3. CASE j # Len(g) + 1
        <5>1. j \in 1..Len(g)
          BY <3>4, <4>3
        <5>2. r[i] = g[i] /\ r[j] = g[j]
          BY <3>4, <4>1, <5>1
        <5>3. \E k, l \in 1..Len(q) : k < l /\ q[k] = g[i] /\ q[l] = g[j]
          BY ONLY <3>2, <3>6, <4>1, <5>1 DEF Keeps
        <5> QED BY <5>2, <5>3
      <4> QED BY <4>2, <4>3
    <3>7. Keeps(r, q)
      BY <3>6 DEF Keeps
    <3>8. f[n+1] = r
      BY <3>1 DEF r, g, x
    <3> QED BY <3>4, <3>5, <3>7, <3>8
  <2> QED BY <2>3, <2>4
<1>7. \A n \in Nat : n \in Good
  <2> HIDE DEF Good
  <2> QED BY <1>5, <1>6, SetInduction
<1>8. Fine(Len(q))
  <2>1. Len(q) \in Good
    BY <1>1, <1>7
  <2> HIDE DEF Fine
  <2> QED BY <1>1, <2>1
<1> QED BY <1>3, <1>8

----------------------------------------------------------------------------
(* Intrusive lists *)

\* A memory that holds whole lists: of the links of Nodes, each leads back.
Whole(m, Nodes) == m \in Memories(Nodes) /\ Circular(m)

\* INIT_LIST_HEAD of a struct that is alone already changes nothing.
LEMMA InitListHeadAlone ==
  ASSUME NEW Nodes, NEW m \in Memories(Nodes), NEW n \in Nodes, Alone(m, n)
  PROVE  InitListHead(m, n) = m
BY DEF Memories, InitListHead, Alone

\* The four assignments of __list_add link a struct that was alone between
\* two neighbours, and keep every list whole.
THEOREM InsertionKeepsLists ==
  ASSUME NEW Nodes, NEW m, Whole(m, Nodes), NEW new \in Nodes, Alone(m, new),
         NEW before \in Nodes, NEW after \in Nodes, m.next[before] = after,
         new # before
  PROVE  LET r == ListInsert(m, new, before, after)
         IN  /\ Whole(r, Nodes)
             /\ r.next[before] = new /\ r.next[new] = after
             /\ r.prev[after] = new /\ r.prev[new] = before
             /\ \A n \in Nodes \ {before, new} : r.next[n] = m.next[n]
<1> DEFINE r == ListInsert(m, new, before, after)
<1>1. /\ m.next \in [Nodes -> Nodes] /\ m.prev \in [Nodes -> Nodes]
      /\ \A n \in Nodes : m.prev[m.next[n]] = n /\ m.next[m.prev[n]] = n
      /\ m.next[new] = new /\ m.prev[new] = new
  BY DEF Whole, Memories, Circular, Alone
<1>2. new # after /\ m.prev[after] = before
  BY <1>1
<1>3. /\ r \in Memories(Nodes)
      /\ r.next = [n \in Nodes |-> IF n = before THEN new
                                   ELSE IF n = new THEN after ELSE m.next[n]]
      /\ r.prev = [n \in Nodes |-> IF n = new THEN before
                                   ELSE IF n = after THEN new ELSE m.prev[n]]
  BY <1>1, <1>2 DEF Whole, ListInsert, Memories
<1> HIDE DEF r
<1>4. ASSUME NEW n \in Nodes PROVE r.prev[r.next[n]] = n
  <2>1. CASE n = before
    BY <1>2, <1>3, <2>1
  <2>2. CASE n = new
    BY <1>2, <1>3, <2>2
  <2>3. CASE n # before /\ n # new
    <3>1. r.next[n] = m.next[n] /\ m.next[n] \in Nodes
      BY <1>1, <1>3, <2>3
    <3>2. m.next[n] # new /\ m.next[n] # after
      BY <1>1, <1>2, <2>3
    <3> QED BY <1>1, <1>3, <3>1, <3>2
  <2> QED BY <2>1, <2>2, <2>3
<1>5. ASSUME NEW n \in Nodes PROVE r.next[r.prev[n]] = n
  <2>1. CASE n = after
    BY <1>2, <1>3, <2>1
  <2>2. CASE n = new
    BY <1>2, <1>3, <2>2
  <2>3. CASE n # after /\ n # new
    <3>1. r.prev[n] = m.prev[n] /\ m.prev[n] \in Nodes
      BY <1>1, <1>3, <2>3
    <3>2. m.prev[n] # new /\ m.prev[n] # before
      BY <1>1, <1>2, <2>3
    <3> QED BY <1>1, <1>3, <3>1, <3>2
  <2> QED BY <2>1, <2>2, <2>3
<1>6. DOMAIN r.next = Nodes
  BY <1>3
<1>7. Whole(r, Nodes)
  BY <1>3, <1>4, <1>5, <1>6 DEF Whole, Circular
<1>8. /\ r.next[before] = new /\ r.next[new] = after
      /\ r.prev[after] = new /\ r.prev[new] = before
      /\ \A n \in Nodes \ {before, new} : r.next[n] = m.next[n]
  BY <1>2, <1>3
<1> QED BY <1>7, <1>8 DEF r

\* list_add and list_add_tail of a struct that is alone put it behind the
\* head, or in front of it.
THEOREM AdditionKeepsLists ==
  ASSUME NEW Nodes, NEW m, Whole(m, Nodes), NEW new \in Nodes, Alone(m, new),
         NEW head \in Nodes, new # head
  PROVE  /\ Whole(ListAdd(m, new, head), Nodes)
         /\ ListAdd(m, new, head).next[head] = new
         /\ Whole(ListAddTail(m, new, head), Nodes)
         /\ ListAddTail(m, new, head).prev[head] = new
<1>1. /\ m.next \in [Nodes -> Nodes] /\ m.prev \in [Nodes -> Nodes]
      /\ \A n \in Nodes : m.prev[m.next[n]] = n /\ m.next[m.prev[n]] = n
      /\ m.next[new] = new /\ m.prev[new] = new
  BY DEF Whole, Memories, Circular, Alone
<1>2. ASSUME NEW after \in Nodes, after = m.next[head]
      PROVE  /\ Whole(ListInsert(m, new, head, after), Nodes)
             /\ ListInsert(m, new, head, after).next[head] = new
  BY <1>2, InsertionKeepsLists
<1>3. ASSUME NEW before \in Nodes, before = m.prev[head]
      PROVE  /\ Whole(ListInsert(m, new, before, head), Nodes)
             /\ ListInsert(m, new, before, head).prev[head] = new
  <2>1. m.next[before] = head /\ new # before
    BY <1>1, <1>3
  <2> QED BY <2>1, InsertionKeepsLists
<1>4. m.next[head] \in Nodes /\ m.prev[head] \in Nodes
  BY <1>1
<1> QED BY <1>2, <1>3, <1>4 DEF ListAdd, ListAddTail

\* list_del keeps every list whole, whichever list the struct is in and even
\* if it is in none, and leaves it alone, so that it can be added again or
\* removed once more.
THEOREM RemovalKeepsLists ==
  ASSUME NEW Nodes, NEW m, Whole(m, Nodes), NEW entry \in Nodes
  PROVE  LET r == ListDel(m, entry)
         IN  /\ Whole(r, Nodes) /\ Alone(r, entry)
             /\ \A n \in Nodes : n # entry =>
                  /\ m.next[n] = entry => r.next[n] = m.next[entry]
                  /\ m.next[n] # entry => r.next[n] = m.next[n]
<1> DEFINE r == ListDel(m, entry)
<1>1. /\ m.next \in [Nodes -> Nodes] /\ m.prev \in [Nodes -> Nodes]
      /\ \A n \in Nodes : m.prev[m.next[n]] = n /\ m.next[m.prev[n]] = n
  BY DEF Whole, Memories, Circular
<1>2. PICK b \in Nodes : b = m.prev[entry]
  BY <1>1
<1>3. PICK a \in Nodes : a = m.next[entry]
  BY <1>1
<1>4. /\ r \in Memories(Nodes)
      /\ r.next = [n \in Nodes |-> IF n = entry THEN entry
                                   ELSE IF n = b THEN a ELSE m.next[n]]
      /\ r.prev = [n \in Nodes |-> IF n = entry THEN entry
                                   ELSE IF n = a THEN b ELSE m.prev[n]]
  BY <1>1, <1>2, <1>3 DEF Whole, ListDel, Memories
<1> HIDE DEF r
<1>5. m.next[b] = entry /\ m.prev[a] = entry
  BY <1>1, <1>2, <1>3
<1>6. a = entry <=> b = entry
  BY <1>1, <1>2, <1>3, <1>5
<1>7. ASSUME NEW n \in Nodes PROVE r.prev[r.next[n]] = n
  <2>1. CASE n = entry
    BY <1>4, <2>1
  <2>2. CASE n # entry /\ n = b
    BY <1>4, <1>6, <2>2
  <2>3. CASE n # entry /\ n # b
    <3>1. r.next[n] = m.next[n] /\ m.next[n] \in Nodes
      BY <1>1, <1>4, <2>3
    <3>2. m.next[n] # entry /\ m.next[n] # a
      BY <1>1, <1>2, <1>3, <1>5, <2>3
    <3> QED BY <1>1, <1>4, <3>1, <3>2
  <2> QED BY <2>1, <2>2, <2>3
<1>8. ASSUME NEW n \in Nodes PROVE r.next[r.prev[n]] = n
  <2>1. CASE n = entry
    BY <1>4, <2>1
  <2>2. CASE n # entry /\ n = a
    BY <1>4, <1>6, <2>2
  <2>3. CASE n # entry /\ n # a
    <3>1. r.prev[n] = m.prev[n] /\ m.prev[n] \in Nodes
      BY <1>1, <1>4, <2>3
    <3>2. m.prev[n] # entry /\ m.prev[n] # b
      BY <1>1, <1>2, <1>3, <1>5, <2>3
    <3> QED BY <1>1, <1>4, <3>1, <3>2
  <2> QED BY <2>1, <2>2, <2>3
<1>9. Alone(r, entry) /\ DOMAIN r.next = Nodes
  BY <1>4 DEF Alone
<1>10. Whole(r, Nodes)
  BY <1>4, <1>7, <1>8, <1>9 DEF Whole, Circular
<1>11. ASSUME NEW n \in Nodes, n # entry
       PROVE  /\ m.next[n] = entry => r.next[n] = m.next[entry]
              /\ m.next[n] # entry => r.next[n] = m.next[n]
  BY <1>1, <1>2, <1>3, <1>4, <1>5, <1>11
<1> QED BY <1>9, <1>10, <1>11 DEF r

----------------------------------------------------------------------------
(* Lists as sequences *)

\* The structs of a list by their places, its head h before and behind them.
Node(h, s, i) == IF i \in 1..Len(s) THEN s[i] ELSE h

\* From h, the links lead through the structs of s and back.
IsList(m, h, s) ==
  /\ NoRepetition(s)
  /\ \A i \in 1..Len(s) : s[i] # h
  /\ \A i \in 0..Len(s) : m.next[Node(h, s, i)] = Node(h, s, i+1)

\* Among Nodes, the lists of m are those of L, which maps heads to sequences:
\* no two share a struct, and a struct in no list is alone.
Holds(m, Nodes, L) ==
  /\ Whole(m, Nodes)
  /\ DOMAIN L \subseteq Nodes
  /\ \A h \in DOMAIN L : L[h] \in Seq(Nodes) /\ IsList(m, h, L[h])
  /\ \A h, g \in DOMAIN L : h # g =>
       \A i \in 0..Len(L[h]), j \in 0..Len(L[g]) :
         Node(h, L[h], i) # Node(g, L[g], j)
  /\ \A n \in Nodes \ DOMAIN L :
       (\A h \in DOMAIN L : n \notin Range(L[h])) => Alone(m, n)

\* r is q without the element at k.
Removed(r, q, k) ==
  /\ k \in 1..Len(q)
  /\ Len(r) = Len(q) - 1
  /\ \A i \in 1..Len(q)-1 : r[i] = IF i < k THEN q[i] ELSE q[i+1]

\* What the places of a list hold, and that none holds what another does.
LEMMA NodeFacts ==
  ASSUME NEW Nodes, NEW m, NEW h \in Nodes, NEW s \in Seq(Nodes), IsList(m, h, s)
  PROVE  /\ \A i \in Int : Node(h, s, i) \in Nodes
         /\ Node(h, s, 0) = h /\ Node(h, s, Len(s)+1) = h
         /\ \A i \in 1..Len(s) : Node(h, s, i) = s[i]
         /\ \A i, j \in 0..Len(s) : Node(h, s, i) = Node(h, s, j) => i = j
<1>1. Len(s) \in Nat /\ \A i \in 1..Len(s) : s[i] \in Nodes
  BY ElementOfSeq
<1>2. \A i, j \in 1..Len(s) : s[i] = s[j] => i = j
  BY DEF IsList, NoRepetition
<1>3. \A i \in 1..Len(s) : s[i] # h
  BY DEF IsList
<1> QED BY <1>1, <1>2, <1>3 DEF Node

\* The k-th place after an insertion.
LEMMA NodeInserted ==
  ASSUME NEW S, NEW h \in S, NEW s \in Seq(S), NEW new \in S, NEW t \in Seq(S),
         NEW k \in Int, Inserted(t, s, new, k)
  PROVE  \A i \in 0..Len(t)+1 :
           Node(h, t, i) = IF i < k THEN Node(h, s, i)
                           ELSE IF i = k THEN new ELSE Node(h, s, i-1)
<1>1. /\ Len(s) \in Nat /\ k \in 1..Len(s)+1 /\ Len(t) = Len(s) + 1
      /\ \A j \in 1..Len(s)+1 :
           t[j] = IF j < k THEN s[j] ELSE IF j = k THEN new ELSE s[j-1]
  BY DEF Inserted
<1> QED BY <1>1 DEF Node

LEMMA NodeRemoved ==
  ASSUME NEW S, NEW h \in S, NEW s \in Seq(S), NEW t \in Seq(S),
         NEW k \in Int, Removed(t, s, k)
  PROVE  \A i \in 0..Len(t)+1 :
           Node(h, t, i) = IF i < k THEN Node(h, s, i) ELSE Node(h, s, i+1)
<1>1. /\ Len(s) \in Nat /\ k \in 1..Len(s) /\ Len(t) = Len(s) - 1
      /\ \A j \in 1..Len(s)-1 : t[j] = IF j < k THEN s[j] ELSE s[j+1]
  BY DEF Removed
<1> QED BY <1>1 DEF Node

----------------------------------------------------------------------------
(* The walk through a list *)

\* The recursive function in the definition of Elements, up to l.
FromStep(f, m, head, k) ==
  [n \in DOMAIN m.next |->
     IF k = 0 \/ n = head THEN <<>> ELSE <<n>> \o f[k-1][m.next[n]]]

IsFrom(f, m, head, l) == f = [k \in 0..l |-> FromStep(f, m, head, k)]

\* The recursion that defines Elements has a value for every number of steps.
LEMMA FromExists ==
  ASSUME NEW m, NEW head
  PROVE  \A l \in Nat : \E f : IsFrom(f, m, head, l)
<1> DEFINE Good == {l \in Nat : \E f : IsFrom(f, m, head, l)}
<1>1. 0 \in Good
  <2> DEFINE e == <<>>
             f == [k \in 0..0 |-> FromStep(e, m, head, k)]
  <2>1. \A k \in 0..0 : FromStep(e, m, head, k) = FromStep(f, m, head, k)
    BY DEF FromStep
  <2> HIDE DEF e
  <2>2. f = [k \in 0..0 |-> FromStep(f, m, head, k)]
    BY <2>1
  <2> HIDE DEF f
  <2>3. IsFrom(f, m, head, 0)
    BY <2>2 DEF IsFrom
  <2> QED BY <2>3
<1>2. ASSUME NEW l \in Nat, l \in Good PROVE l+1 \in Good
  <2>1. PICK f : IsFrom(f, m, head, l)
    BY <1>2
  <2> DEFINE g == [k \in 0..(l+1) |-> FromStep(f, m, head, k)]
  <2>2. \A k \in 0..l : g[k] = f[k]
    BY <2>1 DEF IsFrom
  <2> HIDE DEF g
  <2>3. \A k \in 0..(l+1) : FromStep(f, m, head, k) = FromStep(g, m, head, k)
    <3>1. FromStep(f, m, head, 0) = FromStep(g, m, head, 0)
      BY DEF FromStep
    <3>2. ASSUME NEW k \in 1..(l+1)
          PROVE  FromStep(f, m, head, k) = FromStep(g, m, head, k)
      <4>1. f[k-1] = g[k-1]
        BY <2>2
      <4> QED BY <4>1 DEF FromStep
    <3>3. \A k \in 0..(l+1) : k = 0 \/ k \in 1..(l+1)
      OBVIOUS
    <3> QED BY <3>1, <3>2, <3>3
  <2>4. IsFrom(g, m, head, l+1)
    BY <2>3 DEF IsFrom, g
  <2>5. l+1 \in Nat
    OBVIOUS
  <2> QED BY <2>4, <2>5
<1> HIDE DEF Good
<1>3. \A l \in Nat : l \in Good
  BY <1>1, <1>2, SetInduction
<1> QED BY <1>3 DEF Good

\* Without repetition a list is no longer than the structs there are.
LEMMA ListFits ==
  ASSUME NEW Nodes, IsFiniteSet(Nodes), NEW s \in Seq(Nodes), NoRepetition(s)
  PROVE  Cardinality(Nodes) \in Nat /\ Len(s) <= Cardinality(Nodes)
<1>1. Cardinality(Range(s)) = Len(s) /\ IsFiniteSet(Range(s))
  BY QueueCardinality
<1>2. Range(s) \subseteq Nodes
  BY RangeEquality, ElementOfSeq
<1> QED BY <1>1, <1>2, FS_Subset, FS_CardinalityType

\* The walk over a list visits all of its structs, each once and in order.
THEOREM ElementsOfList ==
  ASSUME NEW Nodes, IsFiniteSet(Nodes), NEW m \in Memories(Nodes),
         NEW h \in Nodes, NEW s \in Seq(Nodes), IsList(m, h, s)
  PROVE  Elements(m, h) = s
<1> DEFINE size == Cardinality(DOMAIN m.next)
           f == CHOOSE g : IsFrom(g, m, h, size)
<1>1. DOMAIN m.next = Nodes /\ size \in Nat /\ Len(s) \in Nat /\ Len(s) <= size
  <2>1. DOMAIN m.next = Nodes
    BY DEF Memories
  <2> QED BY <2>1, ListFits DEF IsList
<1>2. Elements(m, h) = f[size][m.next[h]]
  BY DEF Elements, IsFrom, FromStep
<1>3. IsFrom(f, m, h, size)
  BY <1>1, FromExists
<1> HIDE DEF f, size
<1>4. \A k \in 0..size : f[k] = FromStep(f, m, h, k)
  BY <1>3 DEF IsFrom
<1>5. /\ \A i \in Int : Node(h, s, i) \in Nodes
      /\ Node(h, s, 0) = h /\ Node(h, s, Len(s)+1) = h
      /\ \A i \in 1..Len(s) : Node(h, s, i) = s[i] /\ s[i] # h
      /\ \A i \in 0..Len(s) : m.next[Node(h, s, i)] = Node(h, s, i+1)
  <2>1. /\ \A i \in Int : Node(h, s, i) \in Nodes
        /\ Node(h, s, 0) = h /\ Node(h, s, Len(s)+1) = h
        /\ \A i \in 1..Len(s) : Node(h, s, i) = s[i]
    BY <1>1, ElementOfSeq DEF Node
  <2>2. /\ \A i \in 1..Len(s) : s[i] # h
        /\ \A i \in 0..Len(s) : m.next[Node(h, s, i)] = Node(h, s, i+1)
    BY DEF IsList
  <2> QED BY <2>1, <2>2
\* With steps enough, the walk from the i-th struct visits those from i on.
<1> DEFINE Fine(k) == \A i \in 1..Len(s)+1 :
                        Len(s)+1-i <= k => f[k][Node(h, s, i)] = SubSeq(s, i, Len(s))
           Good == {k \in Nat : k <= size => Fine(k)}
<1>6. \A k \in 0..size : f[k][h] = <<>>
  <2> SUFFICES ASSUME NEW k \in 0..size PROVE f[k][h] = <<>>
    OBVIOUS
  <2>1. f[k] = FromStep(f, m, h, k)
    BY <1>4
  <2> QED BY <1>1, <2>1 DEF FromStep
<1>7. SubSeq(s, Len(s)+1, Len(s)) = <<>>
  BY <1>1, SubSeqEmpty
<1>8. 0 \in Good
  <2>1. ASSUME NEW i \in 1..Len(s)+1, Len(s)+1-i <= 0
        PROVE  f[0][Node(h, s, i)] = SubSeq(s, i, Len(s))
    <3>1. i = Len(s)+1 /\ 0 \in 0..size
      BY <1>1, <2>1
    <3> QED BY <1>5, <1>6, <1>7, <3>1
  <2> QED BY <2>1
<1>9. ASSUME NEW k \in Nat, k \in Good PROVE k+1 \in Good
  <2> SUFFICES ASSUME k+1 <= size, NEW i \in 1..Len(s)+1, Len(s)+1-i <= k+1
               PROVE  f[k+1][Node(h, s, i)] = SubSeq(s, i, Len(s))
    OBVIOUS
  <2>1. k+1 \in 0..size /\ k+1 # 0 /\ (k+1)-1 = k /\ Fine(k)
    BY <1>1, <1>9
  <2>2. CASE i = Len(s)+1
    BY <1>5, <1>6, <1>7, <2>1, <2>2
  <2>3. CASE i # Len(s)+1
    <3>1. i \in 1..Len(s) /\ i \in 0..Len(s) /\ i+1 \in 1..Len(s)+1
          /\ Len(s)+1-(i+1) <= k /\ Len(s) \in i..Len(s)
      BY <1>1, <2>3
    <3> DEFINE x == Node(h, s, i)
    <3>2. x \in Nodes /\ x = s[i] /\ x # h /\ m.next[x] = Node(h, s, i+1)
      BY <1>5, <3>1
    <3> HIDE DEF x
    <3>3. f[k+1] = FromStep(f, m, h, k+1)
      BY <1>4, <2>1
    <3>4. f[k+1][x] = <<x>> \o f[k][m.next[x]]
      BY <1>1, <2>1, <3>2, <3>3 DEF FromStep
    <3>5. f[k][Node(h, s, i+1)] = SubSeq(s, i+1, Len(s))
      BY <2>1, <3>1
    <3>6. SubSeq(s, i, Len(s)) = <<s[i]>> \o SubSeq(s, i+1, Len(s))
      BY <3>1, SubSeqRecursiveFirst
    <3>7. f[k+1][x] = SubSeq(s, i, Len(s))
      BY <3>2, <3>4, <3>5, <3>6
    <3> QED BY <3>7 DEF x
  <2> QED BY <2>2, <2>3
<1> HIDE DEF Good
<1>10. size \in Good
  BY <1>1, <1>8, <1>9, SetInduction
<1>11. f[size][Node(h, s, 1)] = SubSeq(s, 1, Len(s))
  <2>1. Fine(size)
    BY <1>1, <1>10 DEF Good
  <2>2. 1 \in 1..Len(s)+1 /\ Len(s)+1-1 <= size
    BY <1>1
  <2> QED BY <2>1, <2>2
<1>12. m.next[h] = Node(h, s, 1)
  <2>1. 0 \in 0..Len(s) /\ 0+1 = 1
    BY <1>1
  <2> QED BY <1>5, <2>1
<1> QED BY <1>2, <1>11, <1>12, SubSeqFull

\* Removing an element leaves the others, and repeats none.
LEMMA RemovedResult ==
  ASSUME NEW S, NEW q \in Seq(S), NEW r \in Seq(S), NEW k \in Int,
         Removed(r, q, k), NoRepetition(q)
  PROVE  NoRepetition(r) /\ Range(r) = Range(q) \ {q[k]}
<1>1. /\ Len(q) \in Nat /\ k \in 1..Len(q) /\ Len(r) = Len(q) - 1
      /\ \A i \in 1..Len(q)-1 : r[i] = IF i < k THEN q[i] ELSE q[i+1]
  BY DEF Removed
<1>2. \A i, j \in 1..Len(q) : q[i] = q[j] => i = j
  BY DEF NoRepetition
<1>3. NoRepetition(r)
  BY <1>1, <1>2 DEF NoRepetition
<1>4. /\ Range(r) = {r[i] : i \in 1..Len(q)-1}
      /\ Range(q) = {q[i] : i \in 1..Len(q)}
  BY <1>1, RangeEquality
<1>5. ASSUME NEW x \in Range(r) PROVE x \in Range(q) \ {q[k]}
  <2>1. PICK i \in 1..Len(q)-1 : x = r[i]
    BY <1>4
  <2>2. PICK j \in 1..Len(q) : x = q[j] /\ j # k
    BY <1>1, <2>1
  <2> QED BY <1>1, <1>2, <1>4, <2>2
<1>6. ASSUME NEW x \in Range(q) \ {q[k]} PROVE x \in Range(r)
  <2>1. PICK j \in 1..Len(q) : x = q[j]
    BY <1>4
  <2>2. j # k
    BY <1>6, <2>1
  <2>3. CASE j < k
    <3>1. j \in 1..Len(q)-1 /\ x = r[j]
      BY <1>1, <2>1, <2>3
    <3> QED BY <1>4, <3>1
  <2>4. CASE j > k
    <3>1. j-1 \in 1..Len(q)-1 /\ x = r[j-1]
      BY <1>1, <2>1, <2>4
    <3> QED BY <1>4, <3>1
  <2> QED BY <1>1, <2>2, <2>3, <2>4
<1> QED BY <1>3, <1>5, <1>6

----------------------------------------------------------------------------
(* What the operations do to the lists *)

\* A struct in no list is no sentinel and at no place of a list.
Loose(L, n) == n \notin DOMAIN L /\ \A h \in DOMAIN L : n \notin Range(L[h])

LEMMA LooseFacts ==
  ASSUME NEW Nodes, NEW m, NEW L, Holds(m, Nodes, L), NEW n \in Nodes, Loose(L, n)
  PROVE  /\ Alone(m, n)
         /\ \A h \in DOMAIN L : \A i \in Int : Node(h, L[h], i) # n
<1>1. Alone(m, n)
  BY DEF Holds, Loose
<1>2. ASSUME NEW h \in DOMAIN L, NEW i \in Int PROVE Node(h, L[h], i) # n
  <2>1. h # n /\ \A j \in 1..Len(L[h]) : L[h][j] # n
    <3>1. L[h] \in Seq(Nodes)
      BY DEF Holds
    <3> QED BY <3>1, RangeEquality DEF Loose
  <2> QED BY <2>1 DEF Node
<1> QED BY <1>1, <1>2

\* __list_add between two neighbours of a list inserts the new struct there,
\* and leaves all other lists as they are.
THEOREM InsertionInserts ==
  ASSUME NEW Nodes, NEW m, NEW L, Holds(m, Nodes, L), NEW h \in DOMAIN L,
         NEW new \in Nodes, Loose(L, new), NEW k \in Int, NEW t \in Seq(Nodes),
         Inserted(t, L[h], new, k)
  PROVE  Holds(ListInsert(m, new, Node(h, L[h], k-1), Node(h, L[h], k)), Nodes,
               [L EXCEPT ![h] = t])
<1> DEFINE s == L[h]
           b == Node(h, s, k-1)
           a == Node(h, s, k)
           r == ListInsert(m, new, b, a)
           M == [L EXCEPT ![h] = t]
<1>1. /\ h \in Nodes /\ s \in Seq(Nodes) /\ IsList(m, h, s) /\ Whole(m, Nodes)
      /\ DOMAIN L \subseteq Nodes
  BY DEF Holds
<1>2. Len(s) \in Nat /\ k \in 1..Len(s)+1 /\ Len(t) = Len(s)+1
  BY <1>1 DEF Inserted
<1>3. Alone(m, new) /\ \A g \in DOMAIN L : \A i \in Int : Node(g, L[g], i) # new
  BY LooseFacts
<1>4. m.next[b] = a /\ b \in Nodes /\ a \in Nodes /\ new # b
  <2>1. k-1 \in 0..Len(s) /\ (k-1)+1 = k
    BY <1>2
  <2>2. b \in Nodes /\ a \in Nodes
    <3>1. \A i \in Int : Node(h, s, i) \in Nodes
      BY <1>1, NodeFacts
    <3> QED BY <2>1, <3>1
  <2>3. m.next[b] = a
    BY <1>1, <2>1 DEF IsList
  <2>4. new # b
    BY <1>3, <2>1
  <2> QED BY <2>2, <2>3, <2>4
<1> HIDE DEF s, b, a
<1>5. /\ Whole(r, Nodes) /\ r.next[b] = new /\ r.next[new] = a
      /\ \A n \in Nodes \ {b, new} : r.next[n] = m.next[n]
  BY <1>1, <1>3, <1>4, InsertionKeepsLists
<1>6. DOMAIN M = DOMAIN L /\ M[h] = t /\ \A g \in DOMAIN L \ {h} : M[g] = L[g]
  OBVIOUS
<1> HIDE DEF M, r
<1>7. /\ \A i \in Int : Node(h, s, i) \in Nodes
      /\ \A i \in 1..Len(s) : Node(h, s, i) = s[i]
      /\ \A i, j \in 0..Len(s) : Node(h, s, i) = Node(h, s, j) => i = j
  <2>1. \A i \in Int : Node(h, s, i) \in Nodes
    BY <1>1, NodeFacts
  <2>2. \A i \in 1..Len(s) : Node(h, s, i) = s[i]
    BY DEF Node
  <2>3. \A i, j \in 0..Len(s) : Node(h, s, i) = Node(h, s, j) => i = j
    BY <1>1, <1>2 DEF Node, IsList, NoRepetition
  <2> QED BY <2>1, <2>2, <2>3
<1>8. \A i \in 0..Len(t)+1 :
        Node(h, t, i) = IF i < k THEN Node(h, s, i)
                        ELSE IF i = k THEN new ELSE Node(h, s, i-1)
  BY <1>1, NodeInserted DEF s
<1>9. IsList(r, h, t)
  <2>1. ASSUME NEW i \in 0..Len(t) PROVE r.next[Node(h, t, i)] = Node(h, t, i+1)
    <3>1. /\ i \in Int /\ i+1 \in 0..Len(t)+1 /\ i \in 0..Len(t)+1
          /\ Node(h, s, i) \in Nodes /\ Node(h, s, i-1) \in Nodes
          /\ Node(h, s, i) # new /\ Node(h, s, i-1) # new
      BY <1>2, <1>3, <1>7 DEF s
    <3>2. \A j \in 0..Len(s) : m.next[Node(h, s, j)] = Node(h, s, j+1)
      BY <1>1 DEF IsList
    <3>3. CASE i < k-1
      <4>1. i \in 0..Len(s) /\ k-1 \in 0..Len(s)
        BY <1>2, <3>3
      <4>2. Node(h, s, i) # b
        BY <1>7, <3>3, <4>1 DEF b
      <4>3. Node(h, t, i) = Node(h, s, i) /\ Node(h, t, i+1) = Node(h, s, i+1)
        BY <1>2, <1>8, <3>1, <3>3
      <4> QED BY <1>5, <3>1, <3>2, <4>1, <4>2, <4>3
    <3>4. CASE i = k-1
      <4>1. Node(h, t, i) = b /\ Node(h, t, i+1) = new
        BY <1>2, <1>8, <3>1, <3>4 DEF b
      <4> QED BY <1>5, <4>1
    <3>5. CASE i = k
      <4>1. Node(h, t, i) = new /\ Node(h, t, i+1) = a
        BY <1>2, <1>8, <3>1, <3>5 DEF a
      <4> QED BY <1>5, <4>1
    <3>6. CASE i > k
      <4>1. i-1 \in 0..Len(s) /\ k-1 \in 0..Len(s) /\ (i-1)+1 = i
        BY <1>2, <3>6
      <4>2. Node(h, s, i-1) # b
        BY <1>7, <3>6, <4>1 DEF b
      <4>3. Node(h, t, i) = Node(h, s, i-1) /\ Node(h, t, i+1) = Node(h, s, i)
        BY <1>2, <1>8, <3>1, <3>6
      <4> QED BY <1>5, <3>1, <3>2, <4>1, <4>2, <4>3
    <3> QED BY <1>2, <3>1, <3>3, <3>4, <3>5, <3>6
  <2>2. NoRepetition(t)
    <3>1. NoRepetition(s) /\ new \notin Range(s)
      BY <1>1 DEF IsList, Loose, s
    <3> QED BY <1>1, <1>2, <3>1, InsertedNoRepetition DEF s
  <2>3. ASSUME NEW i \in 1..Len(t) PROVE t[i] # h
    <3>1. t[i] = IF i < k THEN s[i] ELSE IF i = k THEN new ELSE s[i-1]
      BY <1>2 DEF Inserted, s
    <3>2. new # h /\ \A j \in 1..Len(s) : s[j] # h
      BY <1>1 DEF IsList, Loose
    <3> QED BY <1>2, <3>1, <3>2
  <2> QED BY <2>1, <2>2, <2>3 DEF IsList
<1>10. ASSUME NEW g \in DOMAIN L, g # h
       PROVE  /\ L[g] \in Seq(Nodes) /\ IsList(r, g, L[g])
              /\ \A i \in 0..Len(L[g]), j \in 0..Len(t) :
                   Node(g, L[g], i) # Node(h, t, j)
  <2>1. L[g] \in Seq(Nodes) /\ IsList(m, g, L[g]) /\ g \in Nodes
    BY DEF Holds
  <2>2. \A i \in Int : Node(g, L[g], i) \in Nodes /\ Node(g, L[g], i) # new
    BY <1>3, <2>1, NodeFacts
  <2>3. \A i \in 0..Len(L[g]), j \in 0..Len(s) : Node(g, L[g], i) # Node(h, s, j)
    BY <1>10 DEF Holds, s
  <2>4. \A i \in 0..Len(L[g]) : Node(g, L[g], i) # b
    BY <1>2, <2>3 DEF b
  <2>5. ASSUME NEW i \in 0..Len(L[g])
        PROVE  r.next[Node(g, L[g], i)] = Node(g, L[g], i+1)
    <3>1. m.next[Node(g, L[g], i)] = Node(g, L[g], i+1)
      BY <2>1 DEF IsList
    <3> QED BY <1>5, <2>2, <2>4, <3>1
  <2>6. IsList(r, g, L[g])
    BY <2>1, <2>5 DEF IsList
  <2>7. ASSUME NEW i \in 0..Len(L[g]), NEW j \in 0..Len(t)
        PROVE  Node(g, L[g], i) # Node(h, t, j)
    <3>1. j \in 0..Len(t)+1 /\ (j < k => j \in 0..Len(s))
          /\ (j > k => j-1 \in 0..Len(s))
      BY <1>2
    <3>2. Node(h, t, j) = new \/ \E l \in 0..Len(s) : Node(h, t, j) = Node(h, s, l)
      BY <1>2, <1>8, <3>1
    <3> QED BY <2>2, <2>3, <3>2
  <2> QED BY <2>1, <2>6, <2>7
<1>11. ASSUME NEW n \in Nodes \ DOMAIN M, \A g \in DOMAIN M : n \notin Range(M[g])
       PROVE  Alone(r, n)
  <2>1. Range(t) = Range(s) \cup {new}
    BY <1>1, <1>2, InsertedRange DEF s
  <2>2. n # new /\ n \notin Range(s)
    BY <1>6, <1>11, <2>1
  <2>3. Loose(L, n)
    BY <1>6, <1>11, <2>2 DEF Loose, s
  <2>4. Alone(m, n) /\ n # b
    <3>1. Alone(m, n) /\ \A i \in Int : Node(h, s, i) # n
      BY <2>3, LooseFacts DEF s
    <3> QED BY <1>2, <3>1 DEF b
  <2>5. r.next[n] = n
    BY <1>5, <2>2, <2>4 DEF Alone
  <2>6. r.prev[r.next[n]] = n
    BY <1>5 DEF Whole, Circular, Memories
  <2> QED BY <2>5, <2>6 DEF Alone
<1>12. ASSUME NEW g \in DOMAIN M PROVE M[g] \in Seq(Nodes) /\ IsList(r, g, M[g])
  BY <1>6, <1>9, <1>10
<1>13. ASSUME NEW f \in DOMAIN M, NEW g \in DOMAIN M, f # g
       PROVE  \A i \in 0..Len(M[f]), j \in 0..Len(M[g]) :
                Node(f, M[f], i) # Node(g, M[g], j)
  <2>1. CASE f = h
    BY <1>6, <1>10, <1>13, <2>1
  <2>2. CASE g = h
    BY <1>6, <1>10, <1>13, <2>2
  <2>3. CASE f # h /\ g # h
    BY <1>6, <1>13, <2>3 DEF Holds
  <2> QED BY <2>1, <2>2, <2>3
<1>14. Holds(r, Nodes, M)
  BY <1>1, <1>5, <1>6, <1>11, <1>12, <1>13 DEF Holds
<1> QED BY <1>14 DEF r, M, a, b, s

\* list_del takes a struct out of the list it is in, whichever that is, and
\* leaves all other lists as they are.
THEOREM RemovalRemoves ==
  ASSUME NEW Nodes, NEW m, NEW L, Holds(m, Nodes, L), NEW h \in DOMAIN L,
         NEW k \in Int, NEW t \in Seq(Nodes), Removed(t, L[h], k)
  PROVE  Holds(ListDel(m, L[h][k]), Nodes, [L EXCEPT ![h] = t])
<1> DEFINE s == L[h]
           e == s[k]
           r == ListDel(m, e)
           M == [L EXCEPT ![h] = t]
<1>1. /\ h \in Nodes /\ s \in Seq(Nodes) /\ IsList(m, h, s) /\ Whole(m, Nodes)
      /\ DOMAIN L \subseteq Nodes /\ m.next \in [Nodes -> Nodes]
  BY DEF Holds, Whole, Memories
<1>2. Len(s) \in Nat /\ k \in 1..Len(s) /\ Len(t) = Len(s)-1
  BY <1>1 DEF Removed
<1>3. e \in Nodes /\ e = Node(h, s, k) /\ e # h
  BY <1>1, <1>2, ElementOfSeq DEF IsList, Node
<1> HIDE DEF s, e
<1>4. /\ Whole(r, Nodes) /\ Alone(r, e)
      /\ \A n \in Nodes \ {e} :
           r.next[n] = IF m.next[n] = e THEN m.next[e] ELSE m.next[n]
  <2>1. /\ Whole(r, Nodes) /\ Alone(r, e)
        /\ \A n \in Nodes : n # e =>
             /\ m.next[n] = e => r.next[n] = m.next[e]
             /\ m.next[n] # e => r.next[n] = m.next[n]
    <3>1. Whole(m, Nodes) /\ e \in Nodes
      BY <1>1, <1>3
    <3> QED BY <3>1, RemovalKeepsLists
  <2> HIDE DEF r
  <2> QED BY <2>1
<1>5. DOMAIN M = DOMAIN L /\ M[h] = t /\ \A g \in DOMAIN L \ {h} : M[g] = L[g]
  OBVIOUS
<1> HIDE DEF M, r
<1>6. /\ \A i \in Int : Node(h, s, i) \in Nodes
      /\ \A i, j \in 0..Len(s) : Node(h, s, i) = Node(h, s, j) => i = j
      /\ \A i \in 0..Len(s) : m.next[Node(h, s, i)] = Node(h, s, i+1)
  <2>1. \A i \in Int : Node(h, s, i) \in Nodes
    BY <1>1, NodeFacts
  <2> QED BY <1>1, <1>2, <2>1 DEF Node, IsList, NoRepetition
<1>7. \A i \in 0..Len(t)+1 :
        Node(h, t, i) = IF i < k THEN Node(h, s, i) ELSE Node(h, s, i+1)
  BY <1>1, NodeRemoved DEF s
<1>8. NoRepetition(t) /\ Range(t) = Range(s) \ {e}
  BY <1>1, RemovedResult DEF s, e, IsList
<1>9. IsList(r, h, t)
  <2>1. ASSUME NEW i \in 0..Len(t) PROVE r.next[Node(h, t, i)] = Node(h, t, i+1)
    <3>1. i \in Int /\ i+1 \in 0..Len(t)+1 /\ i \in 0..Len(t)+1
      BY <1>2
    <3>2. CASE i < k-1
      <4>1. i \in 0..Len(s) /\ i+1 \in 0..Len(s) /\ k \in 0..Len(s)
        BY <1>2, <3>2
      <4>2. Node(h, s, i) # e /\ Node(h, s, i+1) # e
        BY <1>3, <1>6, <3>2, <4>1
      <4>3. Node(h, t, i) = Node(h, s, i) /\ Node(h, t, i+1) = Node(h, s, i+1)
        BY <1>2, <1>7, <3>1, <3>2
      <4>4. Node(h, s, i) \in Nodes /\ m.next[Node(h, s, i)] = Node(h, s, i+1)
        BY <1>6, <3>1, <4>1
      <4> QED BY <1>4, <4>2, <4>3, <4>4
    <3>3. CASE i = k-1
      <4>1. k-1 \in 0..Len(s) /\ k \in 0..Len(s) /\ k-1 # k /\ k-1 \in Int
        BY <1>2
      <4>2. Node(h, t, i) = Node(h, s, k-1) /\ Node(h, t, i+1) = Node(h, s, k+1)
        BY <1>2, <1>7, <3>1, <3>3
      <4>3. Node(h, s, k-1) # e /\ Node(h, s, k-1) \in Nodes
        <5>1. Node(h, s, k-1) \in Nodes
          BY <1>6, <4>1
        <5>2. Node(h, s, k-1) # Node(h, s, k)
          BY <1>6, <4>1
        <5> QED BY <1>3, <5>1, <5>2
      <4>4. m.next[Node(h, s, k-1)] = e /\ m.next[e] = Node(h, s, k+1)
        BY <1>3, <1>6, <4>1
      <4> QED BY <1>4, <4>2, <4>3, <4>4
    <3>4. CASE i >= k
      <4>1. i+1 \in 0..Len(s) /\ k \in 0..Len(s) /\ i+1 # k
        BY <1>2, <3>4
      <4>2. Node(h, s, i+1) # e /\ Node(h, s, i+1) \in Nodes
        BY <1>3, <1>6, <4>1
      <4>3. Node(h, t, i) = Node(h, s, i+1) /\ Node(h, t, i+1) = Node(h, s, i+2)
        BY <1>2, <1>7, <3>1, <3>4
      <4>4. m.next[Node(h, s, i+1)] = Node(h, s, i+2)
        BY <1>6, <4>1
      <4>5. Node(h, s, i+2) # e
        <5>1. CASE i+2 \in 0..Len(s)
          BY <1>3, <1>6, <3>4, <4>1, <5>1
        <5>2. CASE i+2 = Len(s)+1
          BY <1>2, <1>3, <5>2 DEF Node
        <5> QED BY <1>2, <3>4, <5>1, <5>2
      <4> QED BY <1>4, <4>2, <4>3, <4>4, <4>5
    <3> QED BY <1>2, <3>1, <3>2, <3>3, <3>4
  <2>2. ASSUME NEW i \in 1..Len(t) PROVE t[i] # h
    <3>1. t[i] = IF i < k THEN s[i] ELSE s[i+1]
      BY <1>2 DEF Removed, s
    <3>2. \A j \in 1..Len(s) : s[j] # h
      BY <1>1 DEF IsList
    <3> QED BY <1>2, <3>1, <3>2
  <2> QED BY <1>8, <2>1, <2>2 DEF IsList
<1>10. ASSUME NEW g \in DOMAIN L, g # h
       PROVE  /\ L[g] \in Seq(Nodes) /\ IsList(r, g, L[g])
              /\ \A i \in 0..Len(L[g]), j \in 0..Len(t) :
                   Node(g, L[g], i) # Node(h, t, j)
  <2>1. L[g] \in Seq(Nodes) /\ IsList(m, g, L[g]) /\ g \in Nodes
    BY DEF Holds
  <2>2. \A i \in Int : Node(g, L[g], i) \in Nodes
    BY <2>1, NodeFacts
  <2>3. \A i \in 0..Len(L[g]), j \in 0..Len(s) : Node(g, L[g], i) # Node(h, s, j)
    BY <1>10 DEF Holds, s
  <2>4. \A i \in 0..Len(L[g]) : Node(g, L[g], i) # e
    BY <1>2, <1>3, <2>3
  <2>5. ASSUME NEW i \in 0..Len(L[g])
        PROVE  r.next[Node(g, L[g], i)] = Node(g, L[g], i+1)
    <3>1. m.next[Node(g, L[g], i)] = Node(g, L[g], i+1)
      BY <2>1 DEF IsList
    <3>2. Node(g, L[g], i+1) # e
      <4>1. CASE i = Len(L[g])
        <5>1. Node(g, L[g], i+1) = g /\ Node(g, L[g], 0) = g /\ 0 \in 0..Len(L[g])
          BY <2>1, <4>1 DEF Node
        <5> QED BY <2>4, <5>1
      <4>2. CASE i # Len(L[g])
        BY <2>1, <2>4, <4>2
      <4> QED BY <4>1, <4>2
    <3> QED BY <1>4, <2>2, <2>4, <3>1, <3>2
  <2>6. IsList(r, g, L[g])
    BY <2>1, <2>5 DEF IsList
  <2>7. ASSUME NEW i \in 0..Len(L[g]), NEW j \in 0..Len(t)
        PROVE  Node(g, L[g], i) # Node(h, t, j)
    <3>1. j \in 0..Len(t)+1 /\ j \in 0..Len(s) /\ j+1 \in 0..Len(s)
      BY <1>2
    <3> QED BY <1>2, <1>7, <2>3, <3>1
  <2> QED BY <2>1, <2>6, <2>7
<1>11. ASSUME NEW n \in Nodes \ DOMAIN M, \A g \in DOMAIN M : n \notin Range(M[g])
       PROVE  Alone(r, n)
  <2>1. CASE n = e
    BY <1>4, <2>1
  <2>2. CASE n # e
    <3>1. n \notin DOMAIN L /\ n \notin Range(s) /\ Loose(L, n)
      <4>1. n \notin Range(s)
        BY <1>5, <1>8, <1>11, <2>2
      <4> QED BY <1>5, <1>11, <4>1 DEF Loose, s
    <3>2. m.next[n] = n
      BY <3>1, LooseFacts DEF Alone
    <3>3. r.next[n] = n
      BY <1>4, <2>2, <3>2
    <3>4. r.prev[r.next[n]] = n
      BY <1>4 DEF Whole, Circular, Memories
    <3> QED BY <3>3, <3>4 DEF Alone
  <2> QED BY <2>1, <2>2
<1>12. ASSUME NEW g \in DOMAIN M PROVE M[g] \in Seq(Nodes) /\ IsList(r, g, M[g])
  BY <1>5, <1>9, <1>10
<1>13. ASSUME NEW f \in DOMAIN M, NEW g \in DOMAIN M, f # g
       PROVE  \A i \in 0..Len(M[f]), j \in 0..Len(M[g]) :
                Node(f, M[f], i) # Node(g, M[g], j)
  <2>1. CASE f = h
    BY <1>5, <1>10, <1>13, <2>1
  <2>2. CASE g = h
    BY <1>5, <1>10, <1>13, <2>2
  <2>3. CASE f # h /\ g # h
    BY <1>5, <1>13, <2>3 DEF Holds
  <2> QED BY <2>1, <2>2, <2>3
<1>14. Holds(r, Nodes, M)
  BY <1>1, <1>4, <1>5, <1>11, <1>12, <1>13 DEF Holds
<1> QED BY <1>14 DEF r, M, e, s

\* What a program reads off the links: whether a list is empty, its first
\* struct, and the places of a list's neighbours.
LEMMA HeldList ==
  ASSUME NEW Nodes, NEW m, NEW L, Holds(m, Nodes, L), NEW h \in DOMAIN L
  PROVE  /\ ListEmpty(m, h) <=> L[h] = <<>>
         /\ L[h] # <<>> => m.next[h] = L[h][1]
         /\ \A k \in 1..Len(L[h])+1 :
              m.prev[Node(h, L[h], k)] = Node(h, L[h], k-1)
         /\ \A k \in 1..Len(L[h])+1 :
              m.next[Node(h, L[h], k-1)] = Node(h, L[h], k)
<1> DEFINE s == L[h]
<1>1. /\ h \in Nodes /\ s \in Seq(Nodes) /\ IsList(m, h, s) /\ Whole(m, Nodes)
  BY DEF Holds
<1> HIDE DEF s
<1>2. Len(s) \in Nat /\ (s = <<>> <=> Len(s) = 0)
  BY <1>1
<1>3. ASSUME NEW k \in 1..Len(s)+1
      PROVE  /\ m.next[Node(h, s, k-1)] = Node(h, s, k)
             /\ m.prev[Node(h, s, k)] = Node(h, s, k-1)
  <2>1. k-1 \in 0..Len(s) /\ k-1 \in Int /\ (k-1)+1 = k
    BY <1>2
  <2>2. m.next[Node(h, s, k-1)] = Node(h, s, k)
    BY <1>1, <2>1 DEF IsList
  <2>3. Node(h, s, k-1) \in Nodes
    BY <1>1, <2>1, NodeFacts
  <2>4. m.prev[m.next[Node(h, s, k-1)]] = Node(h, s, k-1)
    BY <1>1, <2>3 DEF Whole, Memories, Circular
  <2> QED BY <2>2, <2>4
<1>4. m.next[h] = IF s = <<>> THEN h ELSE s[1]
  <2>1. 1 \in 1..Len(s)+1 /\ Node(h, s, 1-1) = h
    BY <1>2 DEF Node
  <2>2. m.next[h] = Node(h, s, 1)
    BY <1>3, <2>1
  <2> QED BY <1>2, <2>2 DEF Node
<1>5. s # <<>> => s[1] # h
  BY <1>1, <1>2 DEF IsList
<1> QED BY <1>3, <1>4, <1>5 DEF ListEmpty, s
\* The library's RemoveAt is a removal, and putting an element first or last
\* an insertion.
LEMMA RemoveAtRemoves ==
  ASSUME NEW S, NEW q \in Seq(S), NEW k \in 1..Len(q)
  PROVE  RemoveAt(q, k) \in Seq(S) /\ Removed(RemoveAt(q, k), q, k)
<1> DEFINE a == SubSeq(q, 1, k-1)
           b == SubSeq(q, k+1, Len(q))
<1>1. Len(q) \in Nat
  OBVIOUS
<1>2. a \in Seq(S) /\ Len(a) = k-1 /\ \A j \in 1..k-1 : a[j] = q[j]
  BY <1>1, SubSeqProperties
<1>3. /\ b \in Seq(S) /\ Len(b) = Len(q)-k
      /\ \A j \in 1..Len(q)-k : b[j] = q[k+j]
  BY <1>1, SubSeqProperties
<1>4. RemoveAt(q, k) = a \o b
  BY DEF RemoveAt
<1> HIDE DEF a, b
<1>5. /\ a \o b \in Seq(S) /\ Len(a \o b) = Len(a) + Len(b)
      /\ \A j \in 1..Len(a)+Len(b) :
           (a \o b)[j] = IF j <= Len(a) THEN a[j] ELSE b[j-Len(a)]
  BY <1>2, <1>3, ConcatProperties
<1>6. Len(a) + Len(b) = Len(q)-1
  BY <1>1, <1>2, <1>3
<1>7. ASSUME NEW j \in 1..Len(q)-1
      PROVE  (a \o b)[j] = IF j < k THEN q[j] ELSE q[j+1]
  <2>1. CASE j < k
    BY <1>1, <1>2, <1>5, <1>6, <2>1
  <2>2. CASE j >= k
    <3>1. (a \o b)[j] = b[j-(k-1)]
      BY <1>1, <1>2, <1>5, <1>6, <2>2
    <3>2. j-(k-1) \in 1..Len(q)-k /\ k+(j-(k-1)) = j+1
      BY <1>1, <2>2
    <3>3. b[j-(k-1)] = q[j+1]
      BY <1>3, <3>2
    <3> QED BY <1>1, <2>2, <3>1, <3>3
  <2>3. j < k \/ j >= k
    BY <1>1
  <2> QED BY ONLY <2>1, <2>2, <2>3
<1> QED BY <1>1, <1>4, <1>5, <1>6, <1>7 DEF Removed

LEMMA EndsInsert ==
  ASSUME NEW S, NEW q \in Seq(S), NEW p \in S
  PROVE  /\ Append(q, p) \in Seq(S) /\ Inserted(Append(q, p), q, p, Len(q)+1)
         /\ <<p>> \o q \in Seq(S) /\ Inserted(<<p>> \o q, q, p, 1)
<1>1. Len(q) \in Nat
  OBVIOUS
<1>2. Append(q, p) \in Seq(S) /\ Inserted(Append(q, p), q, p, Len(q)+1)
  BY AppendProperties DEF Inserted
<1> DEFINE a == <<p>>
<1>3. a \in Seq(S) /\ Len(a) = 1 /\ a[1] = p
  OBVIOUS
<1> HIDE DEF a
<1>4. /\ a \o q \in Seq(S) /\ Len(a \o q) = 1 + Len(q)
      /\ \A j \in 1..1+Len(q) : (a \o q)[j] = IF j <= 1 THEN a[j] ELSE q[j-1]
  <2>1. /\ a \o q \in Seq(S) /\ Len(a \o q) = Len(a) + Len(q)
        /\ \A j \in 1..Len(a)+Len(q) :
             (a \o q)[j] = IF j <= Len(a) THEN a[j] ELSE q[j-Len(a)]
    BY <1>3, ConcatProperties
  <2> QED BY <1>3, <2>1
<1>5. Inserted(a \o q, q, p, 1)
  BY <1>1, <1>3, <1>4 DEF Inserted
<1> QED BY <1>2, <1>4, <1>5 DEF a

\* An empty list is alone, and INIT_LIST_HEAD of it changes nothing.
LEMMA EmptyIsAlone ==
  ASSUME NEW Nodes, NEW m, NEW L, Holds(m, Nodes, L), NEW h \in DOMAIN L,
         L[h] = <<>>
  PROVE  Alone(m, h) /\ InitListHead(m, h) = m
<1>1. h \in Nodes /\ m \in Memories(Nodes) /\ Circular(m)
  BY DEF Holds, Whole
<1>2. m.next[h] = h
  BY HeldList DEF ListEmpty
<1>3. m.prev[m.next[h]] = h
  BY <1>1 DEF Circular, Memories
<1>4. Alone(m, h)
  BY <1>2, <1>3 DEF Alone
<1> QED BY <1>1, <1>4, InitListHeadAlone

\* list_add_tail appends to the list of its head, or inserts before a struct
\* of a list; list_add puts first; list_del removes; INIT_LIST_HEAD of an
\* empty list, or of a struct in no list, changes nothing.
THEOREM ListOperations ==
  ASSUME NEW Nodes, NEW m, NEW L, Holds(m, Nodes, L), NEW h \in DOMAIN L
  PROVE  /\ \A new \in Nodes : Loose(L, new) =>
              /\ Holds(ListAddTail(m, new, h), Nodes,
                       [L EXCEPT ![h] = Append(L[h], new)])
              /\ Holds(ListAdd(m, new, h), Nodes,
                       [L EXCEPT ![h] = <<new>> \o L[h]])
              /\ \A k \in 1..Len(L[h]) :
                   Holds(ListAddTail(m, new, L[h][k]), Nodes,
                         [L EXCEPT ![h] = InsertAt(L[h], k, new)])
         /\ \A k \in 1..Len(L[h]) :
              /\ Holds(ListDel(m, L[h][k]), Nodes,
                       [L EXCEPT ![h] = RemoveAt(L[h], k)])
              /\ Loose([L EXCEPT ![h] = RemoveAt(L[h], k)], L[h][k])
         /\ L[h] = <<>> => InitListHead(m, h) = m
         /\ \A n \in Nodes : Loose(L, n) => InitListHead(m, n) = m
<1> DEFINE s == L[h]
<1>1. h \in Nodes /\ s \in Seq(Nodes) /\ IsList(m, h, s)
  BY DEF Holds
<1>2. Len(s) \in Nat /\ Node(h, s, 0) = h /\ Node(h, s, Len(s)+1) = h
      /\ \A k \in 1..Len(s) : Node(h, s, k) = s[k]
  BY <1>1 DEF Node
<1>3. /\ \A k \in 1..Len(s)+1 : m.prev[Node(h, s, k)] = Node(h, s, k-1)
      /\ \A k \in 1..Len(s)+1 : m.next[Node(h, s, k-1)] = Node(h, s, k)
  <2>1. ASSUME NEW k \in 1..Len(L[h])+1
        PROVE  m.prev[Node(h, L[h], k)] = Node(h, L[h], k-1)
    BY HeldList
  <2>2. ASSUME NEW k \in 1..Len(L[h])+1
        PROVE  m.next[Node(h, L[h], k-1)] = Node(h, L[h], k)
    BY HeldList
  <2> QED BY <2>1, <2>2
<1>4. ASSUME NEW new \in Nodes, Loose(L, new)
      PROVE  Holds(ListAddTail(m, new, h), Nodes, [L EXCEPT ![h] = Append(s, new)])
  <2> DEFINE k == Len(s)+1
             t == Append(s, new)
  <2>1. t \in Seq(Nodes) /\ Inserted(t, s, new, k) /\ k \in Int
    <3> HIDE DEF s
    <3>1. k \in Int
      BY <1>2
    <3>2. t \in Seq(Nodes)
      BY <1>1
    <3>3. Inserted(t, s, new, k)
      BY <1>1, EndsInsert
    <3> QED BY <3>1, <3>2, <3>3
  <2>2. Node(h, s, k) = h /\ m.prev[h] = Node(h, s, k-1)
    BY <1>2, <1>3
  <2> HIDE DEF k, t
  <2>3. Holds(ListInsert(m, new, Node(h, s, k-1), Node(h, s, k)), Nodes,
              [L EXCEPT ![h] = t])
    BY <1>4, <2>1, InsertionInserts
  <2> QED BY <2>2, <2>3 DEF ListAddTail, t
<1>5. ASSUME NEW new \in Nodes, Loose(L, new)
      PROVE  Holds(ListAdd(m, new, h), Nodes, [L EXCEPT ![h] = <<new>> \o s])
  <2> DEFINE k == 1
             t == <<new>> \o s
  <2>1. t \in Seq(Nodes) /\ Inserted(t, s, new, k) /\ k \in Int
    BY <1>1, EndsInsert
  <2>2. Node(h, s, k-1) = h /\ m.next[h] = Node(h, s, k)
    BY <1>2, <1>3
  <2> HIDE DEF k, t
  <2>3. Holds(ListInsert(m, new, Node(h, s, k-1), Node(h, s, k)), Nodes,
              [L EXCEPT ![h] = t])
    BY <1>5, <2>1, InsertionInserts
  <2> QED BY <2>2, <2>3 DEF ListAdd, t
<1>6. ASSUME NEW new \in Nodes, Loose(L, new), NEW k \in 1..Len(s)
      PROVE  Holds(ListAddTail(m, new, s[k]), Nodes,
                   [L EXCEPT ![h] = InsertAt(s, k, new)])
  <2> DEFINE t == InsertAt(s, k, new)
  <2>1. t \in Seq(Nodes) /\ Inserted(t, s, new, k) /\ k \in Int
    BY <1>1, InsertAtInserts
  <2>2. Node(h, s, k) = s[k] /\ m.prev[s[k]] = Node(h, s, k-1)
    BY <1>2, <1>3
  <2> HIDE DEF t
  <2>3. Holds(ListInsert(m, new, Node(h, s, k-1), Node(h, s, k)), Nodes,
              [L EXCEPT ![h] = t])
    BY <1>6, <2>1, InsertionInserts
  <2> QED BY <2>2, <2>3 DEF ListAddTail, t
<1>7. ASSUME NEW k \in 1..Len(s)
      PROVE  /\ Holds(ListDel(m, s[k]), Nodes, [L EXCEPT ![h] = RemoveAt(s, k)])
             /\ Loose([L EXCEPT ![h] = RemoveAt(s, k)], s[k])
  <2> DEFINE t == RemoveAt(s, k)
             M == [L EXCEPT ![h] = t]
  <2>1. t \in Seq(Nodes) /\ Removed(t, s, k) /\ k \in Int
    BY <1>1, RemoveAtRemoves
  <2>2. Holds(ListDel(m, s[k]), Nodes, [L EXCEPT ![h] = t])
    <3> HIDE DEF t
    <3> QED BY <2>1, RemovalRemoves
  <2>3. Range(t) = Range(s) \ {s[k]}
    <3> HIDE DEF t
    <3> QED BY <1>1, <2>1, RemovedResult DEF IsList
  <2> HIDE DEF t
  <2>4. DOMAIN M = DOMAIN L /\ M[h] = t /\ \A g \in DOMAIN L \ {h} : M[g] = L[g]
    OBVIOUS
  <2> HIDE DEF M
  <2>5. s[k] # h /\ s[k] = Node(h, s, k) /\ k \in 0..Len(s)
    BY <1>1, <1>2 DEF IsList
  <2>6. ASSUME NEW g \in DOMAIN L, g # h PROVE g # s[k] /\ s[k] \notin Range(L[g])
    <3>1. /\ L[g] \in Seq(Nodes)
          /\ \A j \in 0..Len(L[g]) : Node(h, s, k) # Node(g, L[g], j)
      BY <2>5, <2>6 DEF Holds
    <3>2. Node(g, L[g], 0) = g /\ 0 \in 0..Len(L[g])
          /\ \A j \in 1..Len(L[g]) : j \in 0..Len(L[g]) /\ Node(g, L[g], j) = L[g][j]
      BY <3>1 DEF Node
    <3>3. Range(L[g]) = {L[g][j] : j \in 1..Len(L[g])}
      BY <3>1, RangeEquality
    <3> QED BY <2>5, <3>1, <3>2, <3>3
  <2>7. Loose(M, s[k])
    BY <2>3, <2>4, <2>5, <2>6 DEF Loose
  <2> QED BY <2>2, <2>7 DEF M, t
<1>8. s = <<>> => InitListHead(m, h) = m
  BY EmptyIsAlone
<1>9. ASSUME NEW n \in Nodes, Loose(L, n) PROVE InitListHead(m, n) = m
  <2>1. Alone(m, n) /\ m \in Memories(Nodes)
    BY <1>9, LooseFacts DEF Holds, Whole
  <2> QED BY <2>1, InitListHeadAlone
<1> QED BY <1>4, <1>5, <1>6, <1>7, <1>8, <1>9

\* The walks find the sequences.
LEMMA WalksFind ==
  ASSUME NEW Nodes, IsFiniteSet(Nodes), NEW m, NEW L, Holds(m, Nodes, L),
         NEW h \in DOMAIN L
  PROVE  Elements(m, h) = L[h]
<1>1. h \in Nodes /\ m \in Memories(Nodes) /\ L[h] \in Seq(Nodes) /\ IsList(m, h, L[h])
  BY DEF Holds, Whole
<1> QED BY <1>1, ElementsOfList

\* A list repeats nothing, and shares nothing with another list or the heads.
LEMMA ListsApart ==
  ASSUME NEW Nodes, NEW m, NEW L, Holds(m, Nodes, L)
  PROVE  /\ \A h \in DOMAIN L : NoRepetition(L[h]) /\ L[h] \in Seq(Nodes)
         /\ \A h, g \in DOMAIN L : g \notin Range(L[h])
         /\ \A h, g \in DOMAIN L : h # g => Range(L[h]) \cap Range(L[g]) = {}
<1>1. ASSUME NEW h \in DOMAIN L
      PROVE  /\ NoRepetition(L[h]) /\ L[h] \in Seq(Nodes)
             /\ Range(L[h]) = {L[h][i] : i \in 1..Len(L[h])}
             /\ \A i \in 1..Len(L[h]) : L[h][i] # h
  <2>1. NoRepetition(L[h]) /\ L[h] \in Seq(Nodes)
        /\ \A i \in 1..Len(L[h]) : L[h][i] # h
    BY DEF Holds, IsList
  <2> QED BY <2>1, RangeEquality
<1>2. ASSUME NEW h \in DOMAIN L
      PROVE  /\ Len(L[h]) \in Nat /\ Node(h, L[h], 0) = h
             /\ \A i \in 1..Len(L[h]) : Node(h, L[h], i) = L[h][i]
  BY <1>1 DEF Node
<1>3. ASSUME NEW h \in DOMAIN L, NEW g \in DOMAIN L, h # g
      PROVE  \A i \in 0..Len(L[h]), j \in 0..Len(L[g]) :
               Node(h, L[h], i) # Node(g, L[g], j)
  BY <1>3 DEF Holds
<1>4. ASSUME NEW h \in DOMAIN L, NEW g \in DOMAIN L PROVE g \notin Range(L[h])
  <2>1. CASE h = g
    BY <1>1, <2>1
  <2>2. CASE h # g
    <3>1. \A i \in 1..Len(L[h]) : L[h][i] # g
      <4> SUFFICES ASSUME NEW i \in 1..Len(L[h]) PROVE L[h][i] # g
        OBVIOUS
      <4>1. i \in 0..Len(L[h]) /\ 0 \in 0..Len(L[g])
        BY <1>2
      <4>2. Node(h, L[h], i) # Node(g, L[g], 0)
        BY <1>3, <2>2, <4>1
      <4> QED BY <1>2, <4>2
    <3> QED BY <1>1, <3>1
  <2> QED BY <2>1, <2>2
<1>5. ASSUME NEW h \in DOMAIN L, NEW g \in DOMAIN L, h # g
      PROVE  Range(L[h]) \cap Range(L[g]) = {}
  <2> SUFFICES ASSUME NEW i \in 1..Len(L[h]), NEW j \in 1..Len(L[g])
               PROVE  L[h][i] # L[g][j]
    BY <1>1
  <2>1. i \in 0..Len(L[h]) /\ j \in 0..Len(L[g])
    BY <1>2
  <2>2. Node(h, L[h], i) # Node(g, L[g], j)
    BY <1>3, <1>5, <2>1
  <2> QED BY <1>2, <2>2
<1> QED BY <1>1, <1>4, <1>5

\* The next of an element of a list is another struct.
LEMMA ElementNotAlone ==
  ASSUME NEW Nodes, NEW m, NEW L, Holds(m, Nodes, L), NEW h \in DOMAIN L,
         NEW n \in Range(L[h])
  PROVE  m.next[n] # n
<1> DEFINE s == L[h]
<1>1. h \in Nodes /\ s \in Seq(Nodes) /\ IsList(m, h, s)
  BY DEF Holds
<1>2. PICK i \in 1..Len(s) : n = s[i]
  BY <1>1, RangeEquality
<1>3. m.next[Node(h, s, i)] = Node(h, s, i+1)
  <2>1. i \in 0..Len(s)
    BY <1>1, <1>2
  <2> QED BY <1>1, <2>1 DEF IsList
<1>4. Node(h, s, i) = n
  BY <1>2 DEF Node
<1>5. Node(h, s, i+1) # n
  <2>1. Len(s) \in Nat
    BY <1>1
  <2>2. CASE i = Len(s)
    <3>1. Node(h, s, i+1) = h
      BY <2>1, <2>2 DEF Node
    <3> QED BY <1>1, <1>2, <3>1 DEF IsList
  <2>3. CASE i # Len(s)
    <3>1. i+1 \in 1..Len(s) /\ i+1 # i
      BY <2>1, <2>3
    <3>2. Node(h, s, i+1) = s[i+1]
      BY <3>1 DEF Node
    <3> QED BY <1>1, <1>2, <3>1, <3>2 DEF IsList, NoRepetition
  <2> QED BY <2>2, <2>3
<1> QED BY <1>3, <1>4, <1>5

\* A struct that is alone is in no list.
LEMMA AloneIsLoose ==
  ASSUME NEW Nodes, NEW m, NEW L, Holds(m, Nodes, L), NEW n, n \notin DOMAIN L,
         Alone(m, n)
  PROVE  Loose(L, n)
<1>1. \A h \in DOMAIN L : n \notin Range(L[h])
  BY ElementNotAlone DEF Alone
<1> QED BY <1>1 DEF Loose

\* Structs each linked with itself: all lists are empty.
LEMMA NothingLinked ==
  ASSUME NEW Nodes, NEW H \in SUBSET Nodes
  PROVE  Holds([next |-> [n \in Nodes |-> n], prev |-> [n \in Nodes |-> n]], Nodes,
               [h \in H |-> <<>>])
<1> DEFINE m == [next |-> [n \in Nodes |-> n], prev |-> [n \in Nodes |-> n]]
           L == [h \in H |-> <<>>]
<1>1. DOMAIN L = H /\ \A h \in H : L[h] = <<>>
  OBVIOUS
<1>2. \A e : e = <<>> =>
        /\ Len(e) = 0 /\ e \in Seq(Nodes) /\ NoRepetition(e)
        /\ \A h, i : Node(h, e, i) = h
  BY DEF NoRepetition, Node
<1>3. \A n \in Nodes : m.next[n] = n /\ m.prev[n] = n
  OBVIOUS
<1>4. Whole(m, Nodes)
  BY <1>3 DEF Whole, Memories, Circular
<1> HIDE DEF L, m
<1>5. ASSUME NEW h \in H PROVE L[h] \in Seq(Nodes) /\ IsList(m, h, L[h])
  <2>1. /\ Len(L[h]) = 0 /\ L[h] \in Seq(Nodes) /\ NoRepetition(L[h])
        /\ \A i : Node(h, L[h], i) = h
    BY <1>1, <1>2
  <2> QED BY <1>3, <2>1 DEF IsList
<1>6. \A h, g \in DOMAIN L : h # g =>
        \A i \in 0..Len(L[h]), j \in 0..Len(L[g]) :
          Node(h, L[h], i) # Node(g, L[g], j)
  BY <1>1, <1>2
<1>7. \A n \in Nodes : Alone(m, n)
  BY <1>3 DEF Alone
<1>8. Holds(m, Nodes, L)
  BY <1>1, <1>4, <1>5, <1>6, <1>7 DEF Holds
<1> QED BY <1>8 DEF L, m
==============================================================================
