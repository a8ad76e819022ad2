----------------------------- MODULE AslProofs -----------------------------
(***************************************************************************)
(* For any pool, any processes and any keys, the pointers of the active    *)
(* semaphore list are whole lists, and they implement a map from keys to   *)
(* queues.  ListsProofs turns the pointers into sequences; the rest is     *)
(* about sequences of descriptors and of processes.                        *)
(***************************************************************************)
EXTENDS Asl, ListsProofs

Heads == {SemdH, SemdFreeH} \cup {SProcq(d) : d \in Semds}
SLinks == {SLink(d) : d \in Semds}
PLists == {PList(p) : p \in Pcbs}

\* Every list of the module, by its head.
Lists == [h \in Heads |-> Elements(links, h)]

IsActive(L, d) == SLink(d) \in Range(L[SemdH])

\* What the lists L have to do with each other, with the keys ky of the
\* descriptors and with the semaphores sa on which processes say they wait.
Fits(L, ky, sa) ==
  /\ L[SemdH] \in Seq(SLinks) /\ L[SemdFreeH] \in Seq(SLinks)
  /\ \A d \in Semds : L[SProcq(d)] \in Seq(PLists)
  /\ \A d \in Semds : IsActive(L, d) \/ SLink(d) \in Range(L[SemdFreeH])
  /\ \A d \in Semds : IsActive(L, d) <=> L[SProcq(d)] # <<>>
  /\ \A d \in Semds : IsActive(L, d) => ky[d] \in Keys
  /\ \A i, j \in 1..Len(L[SemdH]) :
       i < j => ky[Container(L[SemdH][i])] < ky[Container(L[SemdH][j])]
  /\ \A d \in Semds, p \in Pcbs :
       PList(p) \in Range(L[SProcq(d)]) => sa[p] = ky[d]

\* The inductive invariant.
IInv ==
  /\ key \in [Semds -> Keys \cup {NULL}]
  /\ semAdd \in [Pcbs -> Keys \cup {NULL}]
  /\ Holds(links, Structs, Lists)
  /\ Fits(Lists, key, semAdd)

----------------------------------------------------------------------------
(* Structs and sequences of them *)

LEMMA SemdsFacts == Semds \subseteq Nat /\ IsFiniteSet(Semds) /\ NULL \notin Semds
<1>1. PoolSize \in Nat
  BY PoolAssumption
<1> QED BY <1>1, FS_Interval, NullAssumption DEF Semds

\* Structs of different kinds, or of different objects, are different.
LEMMA StructsDiffer ==
  /\ \A p \in Pcbs : PList(p) \in Structs \ Heads /\ Container(PList(p)) = p
  /\ \A d \in Semds : SLink(d) \in Structs \ Heads /\ Container(SLink(d)) = d
  /\ Heads \subseteq Structs
  /\ \A p \in Pcbs, d \in Semds : PList(p) # SLink(d)
  /\ \A d, e \in Semds : SProcq(d) = SProcq(e) => d = e
  /\ \A d \in Semds : SProcq(d) # SemdH /\ SProcq(d) # SemdFreeH
  /\ SemdH # SemdFreeH
BY DEF PList, SLink, SProcq, SemdH, SemdFreeH, Heads, Structs, Container

LEMMA StructsFinite == IsFiniteSet(Structs)
<1>1. IsFiniteSet(PLists)
  <2> DEFINE f == [p \in Pcbs |-> PList(p)]
  <2>1. f \in Surjection(Pcbs, PLists)
    BY DEF PLists, Surjection
  <2> HIDE DEF f
  <2> QED BY <2>1, PcbsAssumption, FS_Surjection
<1>2. IsFiniteSet(SLinks)
  <2> DEFINE f == [d \in Semds |-> SLink(d)]
  <2>1. f \in Surjection(Semds, SLinks)
    BY DEF SLinks, Surjection
  <2> HIDE DEF f
  <2> QED BY <2>1, SemdsFacts, FS_Surjection
<1> DEFINE c == {SProcq(d) : d \in Semds}
<1>3. IsFiniteSet(c)
  <2> DEFINE f == [d \in Semds |-> SProcq(d)]
  <2>1. f \in Surjection(Semds, c)
    BY DEF Surjection
  <2> HIDE DEF f, c
  <2> QED BY <2>1, SemdsFacts, FS_Surjection
<1> DEFINE a == PLists \cup SLinks
           b == a \cup c
           bh == b \cup {SemdH}
<1> HIDE DEF c
<1>4. IsFiniteSet(a)
  BY <1>1, <1>2, FS_Union
<1> HIDE DEF a
<1>5. IsFiniteSet(b)
  BY <1>3, <1>4, FS_Union
<1> HIDE DEF b
<1>6. IsFiniteSet(bh)
  BY <1>5, FS_AddElement
<1> HIDE DEF bh
<1>7. IsFiniteSet(bh \cup {SemdFreeH})
  BY <1>6, FS_AddElement
<1>8. Structs = bh \cup {SemdFreeH}
  BY DEF Structs, a, b, c, bh, PLists, SLinks
<1> QED BY <1>7, <1>8

\* The objects of a sequence of structs; Contents of a head is that of its list.
Objects(s) == [i \in 1..Len(s) |-> Container(s[i])]

LEMMA ObjectsOfLists == \A h \in Heads : Contents(h) = Objects(Lists[h])
BY DEF Contents, Objects, Lists

\* A sequence of s_links or p_lists, element by element.
LEMMA LinksFacts ==
  /\ \A s \in Seq(SLinks) : \A i \in 1..Len(s) :
       Container(s[i]) \in Semds /\ SLink(Container(s[i])) = s[i]
  /\ \A s \in Seq(PLists) : \A i \in 1..Len(s) :
       Container(s[i]) \in Pcbs /\ PList(Container(s[i])) = s[i]
<1>1. ASSUME NEW s \in Seq(SLinks), NEW i \in 1..Len(s)
      PROVE  Container(s[i]) \in Semds /\ SLink(Container(s[i])) = s[i]
  <2>1. s[i] \in SLinks
    BY ElementOfSeq
  <2> QED BY <2>1, StructsDiffer DEF SLinks
<1>2. ASSUME NEW s \in Seq(PLists), NEW i \in 1..Len(s)
      PROVE  Container(s[i]) \in Pcbs /\ PList(Container(s[i])) = s[i]
  <2>1. s[i] \in PLists
    BY ElementOfSeq
  <2> QED BY <2>1, StructsDiffer DEF PLists
<1> QED BY <1>1, <1>2

\* Active descriptors, by their places and by their keys.
LEMMA ActiveFacts ==
  ASSUME NEW L, NEW ky, NEW sa, Fits(L, ky, sa)
  PROVE  /\ Len(L[SemdH]) \in Nat
         /\ \A i \in 1..Len(L[SemdH]) :
              LET d == Container(L[SemdH][i])
              IN  /\ d \in Semds /\ SLink(d) = L[SemdH][i] /\ IsActive(L, d)
                  /\ ky[d] \in Keys
         /\ \A d \in Semds : IsActive(L, d) =>
              \E i \in 1..Len(L[SemdH]) : Container(L[SemdH][i]) = d
         /\ \A d, e \in Semds :
              IsActive(L, d) /\ IsActive(L, e) /\ ky[d] = ky[e] => d = e
<1> DEFINE a == L[SemdH]
<1>1. a \in Seq(SLinks) /\ Len(a) \in Nat
  BY DEF Fits
<1>2. Range(a) = {a[i] : i \in 1..Len(a)}
  BY <1>1, RangeEquality
<1>3. \A d \in Semds : IsActive(L, d) => ky[d] \in Keys
  BY DEF Fits
<1>4. \A i, j \in 1..Len(a) : i < j => ky[Container(a[i])] < ky[Container(a[j])]
  BY DEF Fits
<1>5. ASSUME NEW i \in 1..Len(a)
      PROVE  LET d == Container(a[i])
             IN  /\ d \in Semds /\ SLink(d) = a[i] /\ IsActive(L, d)
                 /\ ky[d] \in Keys
  <2>1. Container(a[i]) \in Semds /\ SLink(Container(a[i])) = a[i]
    BY <1>1, LinksFacts
  <2> QED BY <1>2, <1>3, <2>1 DEF IsActive
<1>6. ASSUME NEW d \in Semds, IsActive(L, d)
      PROVE  \E i \in 1..Len(a) : Container(a[i]) = d
  BY <1>2, <1>6, StructsDiffer DEF IsActive
<1>7. ASSUME NEW d \in Semds, NEW e \in Semds, IsActive(L, d), IsActive(L, e),
             ky[d] = ky[e]
      PROVE  d = e
  <2>1. PICK i \in 1..Len(a) : Container(a[i]) = d
    BY <1>6, <1>7
  <2>2. PICK j \in 1..Len(a) : Container(a[j]) = e
    BY <1>6, <1>7
  <2>3. ky[d] \in Int
    <3>1. ky[d] \in Keys
      BY <1>3, <1>7
    <3>2. Keys \subseteq Int
      BY KeysAssumption
    <3> QED BY ONLY <3>1, <3>2
  <2>4. ~(i < j) /\ ~(j < i)
    BY <1>4, <1>7, <2>1, <2>2, <2>3
  <2> QED BY <1>1, <2>1, <2>2, <2>4
<1> QED BY <1>1, <1>5, <1>6, <1>7

----------------------------------------------------------------------------
(* The search for a key *)

\* In a list of descriptors in order, i is the place for the key k.
Place(L, ky, k, i) ==
  /\ i \in 1..Len(L[SemdH])+1
  /\ \A j \in 1..Len(L[SemdH]) :
       IF j < i THEN ky[Container(L[SemdH][j])] < k
       ELSE ky[Container(L[SemdH][j])] > k

\* What the search for k returns, and where iter stops in insertBlocked.
Searched(k) ==
  /\ \/ /\ GetSemd(k) \in Semds
        /\ IsActive(Lists, GetSemd(k)) /\ key[GetSemd(k)] = k
     \/ GetSemd(k) = NULL /\ \A d \in Semds : IsActive(Lists, d) => key[d] # k
  /\ GetSemd(k) = NULL =>
       \E i \in 1..Len(Lists[SemdH])+1 :
         /\ Place(Lists, key, k, i)
         /\ IF i = Len(Lists[SemdH])+1 THEN FirstFrom(k) = NULL
            ELSE FirstFrom(k) \in Semds /\ SLink(FirstFrom(k)) = Lists[SemdH][i]

LEMMA SearchFinds == IInv => \A k \in Keys : Searched(k)
<1> SUFFICES ASSUME IInv, NEW k \in Keys PROVE Searched(k)
  OBVIOUS
<1> DEFINE a == Lists[SemdH]
           reached == {i \in 1..Len(a) : key[Container(a[i])] >= k}
<1>1. Fits(Lists, key, semAdd)
  BY DEF IInv
<1>2. /\ Len(a) \in Nat
      /\ \A i \in 1..Len(a) :
           /\ Container(a[i]) \in Semds /\ SLink(Container(a[i])) = a[i]
           /\ IsActive(Lists, Container(a[i])) /\ key[Container(a[i])] \in Keys
      /\ \A d \in Semds : IsActive(Lists, d) =>
           \E i \in 1..Len(a) : Container(a[i]) = d
  BY <1>1, ActiveFacts
<1>3. \A i, j \in 1..Len(a) : i < j => key[Container(a[i])] < key[Container(a[j])]
  BY <1>1 DEF Fits
<1>4. k \in Int /\ (\A i \in 1..Len(a) : key[Container(a[i])] \in Int)
      /\ NULL \notin Semds
  <2>1. \A i \in 1..Len(a) : key[Container(a[i])] \in Keys
    BY <1>2
  <2>2. Keys \subseteq Int
    BY KeysAssumption
  <2> HIDE DEF a
  <2> QED BY <2>1, <2>2, SemdsFacts
<1>5. /\ Len(Contents(SemdH)) = Len(a)
      /\ \A i \in 1..Len(a) : Contents(SemdH)[i] = Container(a[i])
  BY <1>2, ObjectsOfLists DEF Objects, Heads
<1>6. /\ reached = {} => FirstFrom(k) = NULL
      /\ reached # {} =>
           FirstFrom(k) = Container(a[CHOOSE i \in reached : \A j \in reached : i <= j])
  <2>1. reached = {i \in 1..Len(Contents(SemdH)) : key[Contents(SemdH)[i]] >= k}
    BY <1>5
  <2>2. \A i \in reached : i \in 1..Len(a)
    OBVIOUS
  <2> HIDE DEF a
  <2>3. CASE reached = {}
    BY <2>1, <2>3 DEF FirstFrom
  <2>4. CASE reached # {}
    <3> DEFINE c == CHOOSE i \in reached : \A j \in reached : i <= j
    <3>1. c \in 1..Len(a)
      <4>1. reached \in SUBSET Nat
        BY <1>2
      <4>2. \E i \in reached : \A j \in reached : i <= j
        <5> HIDE DEF reached
        <5> QED BY <2>4, <4>1, LeastElement
      <4> QED BY <2>2, <4>2
    <3>2. FirstFrom(k) = Contents(SemdH)[c]
      BY <2>1, <2>4 DEF FirstFrom
    <3> HIDE DEF c
    <3>3. FirstFrom(k) = Container(a[c])
      BY <1>5, <3>1, <3>2
    <3> QED BY <2>4, <3>3 DEF c
  <2> QED BY <2>3, <2>4
<1>7. CASE reached = {}
  <2>1. FirstFrom(k) = NULL /\ GetSemd(k) = NULL
    BY <1>6, <1>7 DEF GetSemd
  <2>2. \A j \in 1..Len(a) : key[Container(a[j])] < k
    BY <1>4, <1>7
  <2> DEFINE n == Len(a)+1
  <2>3. n \in 1..Len(a)+1 /\ Place(Lists, key, k, n)
    BY <1>2, <2>2 DEF Place
  <2>4. \A d \in Semds : IsActive(Lists, d) => key[d] # k
    BY <1>2, <1>4, <2>2
  <2> QED BY <2>1, <2>3, <2>4 DEF Searched
<1>8. CASE reached # {}
  <2> DEFINE c == CHOOSE i \in reached : \A j \in reached : i <= j
  <2>1. c \in reached /\ \A j \in reached : c <= j
    <3>1. reached \in SUBSET Nat
      BY <1>2
    <3> HIDE DEF reached
    <3> QED BY <1>8, <3>1, LeastElement
  <2> DEFINE d == Container(a[c])
  <2>2. FirstFrom(k) = d
    BY <1>6, <1>8
  <2> HIDE DEF c
  <2>3. c \in 1..Len(a) /\ key[d] >= k /\ d \in Semds /\ SLink(d) = a[c]
        /\ IsActive(Lists, d) /\ key[d] \in Int
    BY <1>2, <1>4, <2>1
  <2>4. \A j \in 1..Len(a) : j < c => key[Container(a[j])] < k
    BY <1>2, <1>4, <2>1
  <2> HIDE DEF d
  <2>5. CASE key[d] = k
    <3>1. GetSemd(k) = d
      BY <1>4, <2>2, <2>3, <2>5 DEF GetSemd
    <3> QED BY <1>4, <2>3, <2>5, <3>1 DEF Searched
  <2>6. CASE key[d] # k
    <3>1. GetSemd(k) = NULL
      BY <2>2, <2>6 DEF GetSemd
    <3>2. \A j \in 1..Len(a) : j >= c => key[Container(a[j])] > k
      <4> SUFFICES ASSUME NEW j \in 1..Len(a), j >= c
                   PROVE  key[Container(a[j])] > k
        OBVIOUS
      <4>1. key[d] > k
        BY <1>4, <2>3, <2>6
      <4>2. j = c \/ key[d] < key[Container(a[j])]
        BY <1>3, <2>3 DEF d
      <4> QED BY <1>4, <2>3, <4>1, <4>2 DEF d
    <3>3. c \in 1..Len(a)+1 /\ c # Len(a)+1
      BY <1>2, <2>3
    <3>4. Place(Lists, key, k, c)
      BY <1>2, <2>3, <2>4, <3>2, <3>3 DEF Place
    <3>5. \A e \in Semds : IsActive(Lists, e) => key[e] # k
      <4> SUFFICES ASSUME NEW e \in Semds, IsActive(Lists, e) PROVE key[e] # k
        OBVIOUS
      <4>1. PICK j \in 1..Len(a) : Container(a[j]) = e
        BY <1>2
      <4>2. key[Container(a[j])] < k \/ key[Container(a[j])] > k
        BY <1>2, <2>3, <2>4, <3>2
      <4>3. key[Container(a[j])] \in Int
        BY <1>4
      <4> HIDE DEF a
      <4> QED BY <1>4, <4>1, <4>2, <4>3
    <3> QED BY <2>2, <2>3, <3>1, <3>3, <3>4, <3>5 DEF Searched
  <2> QED BY <2>5, <2>6
<1> QED BY <1>7, <1>8

----------------------------------------------------------------------------
(* What the operations make of the lists *)

\* A process more in the queue of an active descriptor.
LEMMA FitsQueued ==
  ASSUME NEW L, NEW ky, NEW sa \in [Pcbs -> Keys \cup {NULL}],
         Fits(L, ky, sa), DOMAIN L = Heads,
         NEW d \in Semds, IsActive(L, d), NEW p \in Pcbs, Loose(L, PList(p))
  PROVE  Fits([L EXCEPT ![SProcq(d)] = Append(L[SProcq(d)], PList(p))],
              ky, [sa EXCEPT ![p] = ky[d]])
<1> DEFINE q == L[SProcq(d)]
           t == Append(q, PList(p))
           M == [L EXCEPT ![SProcq(d)] = t]
           ss == [sa EXCEPT ![p] = ky[d]]
<1>1. q \in Seq(PLists) /\ PList(p) \in PLists
  BY DEF Fits, PLists
<1>2. t \in Seq(PLists) /\ t # <<>> /\ Range(t) = Range(q) \cup {PList(p)}
  BY <1>1, AppendResult
<1> HIDE DEF t
<1>3. /\ M[SProcq(d)] = t /\ M[SemdH] = L[SemdH] /\ M[SemdFreeH] = L[SemdFreeH]
      /\ \A e \in Semds : e # d => M[SProcq(e)] = L[SProcq(e)]
  BY StructsDiffer DEF Heads
<1>4. ss[p] = ky[d] /\ \A o \in Pcbs : o # p => ss[o] = sa[o]
  OBVIOUS
<1> HIDE DEF M, ss
<1>5. \A e \in Semds : IsActive(M, e) <=> IsActive(L, e)
  BY <1>3 DEF IsActive
<1>6. \A e \in Semds : M[SProcq(e)] \in Seq(PLists)
  BY <1>2, <1>3 DEF Fits
<1>7. \A e \in Semds : IsActive(M, e) <=> M[SProcq(e)] # <<>>
  BY <1>2, <1>3, <1>5 DEF Fits
<1>8. ASSUME NEW e \in Semds, NEW o \in Pcbs, PList(o) \in Range(M[SProcq(e)])
      PROVE  ss[o] = ky[e]
  <2>1. CASE o = p
    <3>1. e = d
      BY <1>3, <1>8, <2>1 DEF Loose, Heads
    <3> QED BY <1>4, <2>1, <3>1
  <2>2. CASE o # p
    <3>1. PList(o) # PList(p)
      BY <2>2, StructsDiffer
    <3>2. PList(o) \in Range(L[SProcq(e)])
      BY <1>2, <1>3, <1>8, <3>1
    <3>3. sa[o] = ky[e]
      BY <3>2 DEF Fits
    <3> QED BY <1>4, <2>2, <3>3
  <2> QED BY <2>1, <2>2
<1>9. Fits(M, ky, ss)
  <2>1. M[SemdH] \in Seq(SLinks) /\ M[SemdFreeH] \in Seq(SLinks)
    BY <1>3 DEF Fits
  <2>2. /\ \A e \in Semds : IsActive(M, e) \/ SLink(e) \in Range(M[SemdFreeH])
        /\ \A e \in Semds : IsActive(M, e) => ky[e] \in Keys
    BY <1>3, <1>5 DEF Fits
  <2>3. \A i, j \in 1..Len(M[SemdH]) :
          i < j => ky[Container(M[SemdH][i])] < ky[Container(M[SemdH][j])]
    BY <1>3 DEF Fits
  <2> QED BY <1>6, <1>7, <1>8, <2>1, <2>2, <2>3 DEF Fits
<1> QED BY <1>9 DEF M, ss, t

\* A process less in a queue that is not empty then.
LEMMA FitsLess ==
  ASSUME NEW L, NEW ky, NEW sa, Fits(L, ky, sa), DOMAIN L = Heads,
         NEW d \in Semds, NEW t \in Seq(PLists), t # <<>>, IsActive(L, d),
         Range(t) \subseteq Range(L[SProcq(d)])
  PROVE  Fits([L EXCEPT ![SProcq(d)] = t], ky, sa)
<1> DEFINE M == [L EXCEPT ![SProcq(d)] = t]
<1>1. /\ M[SProcq(d)] = t /\ M[SemdH] = L[SemdH] /\ M[SemdFreeH] = L[SemdFreeH]
      /\ \A e \in Semds : e # d => M[SProcq(e)] = L[SProcq(e)]
  BY StructsDiffer DEF Heads
<1> HIDE DEF M
<1>2. \A e \in Semds : IsActive(M, e) <=> IsActive(L, e)
  BY <1>1 DEF IsActive
<1>3. \A e \in Semds : M[SProcq(e)] \in Seq(PLists)
  BY <1>1 DEF Fits
<1>4. \A e \in Semds : IsActive(M, e) <=> M[SProcq(e)] # <<>>
  BY <1>1, <1>2 DEF Fits
<1>5. \A e \in Semds, o \in Pcbs : PList(o) \in Range(M[SProcq(e)]) => sa[o] = ky[e]
  BY <1>1 DEF Fits
<1>6. M[SemdH] \in Seq(SLinks) /\ M[SemdFreeH] \in Seq(SLinks)
  BY <1>1 DEF Fits
<1>7. /\ \A e \in Semds : IsActive(M, e) \/ SLink(e) \in Range(M[SemdFreeH])
      /\ \A e \in Semds : IsActive(M, e) => ky[e] \in Keys
  BY <1>1, <1>2 DEF Fits
<1>8. \A i, j \in 1..Len(M[SemdH]) :
        i < j => ky[Container(M[SemdH][i])] < ky[Container(M[SemdH][j])]
  BY <1>1 DEF Fits
<1>9. Fits(M, ky, sa)
  BY <1>3, <1>4, <1>5, <1>6, <1>7, <1>8 DEF Fits
<1> QED BY <1>9 DEF M

\* A descriptor leaves the free list, enters semd_h at the place for k, and
\* gets its first process.
LEMMA FitsActivated ==
  ASSUME NEW L, NEW ky \in [Semds -> Keys \cup {NULL}],
         NEW sa \in [Pcbs -> Keys \cup {NULL}],
         Fits(L, ky, sa), NEW d \in Semds, ~IsActive(L, d),
         NEW k \in Keys, NEW i \in Nat, Place(L, ky, k, i),
         NEW p \in Pcbs, \A e \in Semds : PList(p) \notin Range(L[SProcq(e)]),
         NEW M, M[SemdFreeH] \in Seq(SLinks), M[SemdH] \in Seq(SLinks),
         Range(M[SemdFreeH]) = Range(L[SemdFreeH]) \ {SLink(d)},
         Inserted(M[SemdH], L[SemdH], SLink(d), i),
         M[SProcq(d)] = <<PList(p)>>,
         \A e \in Semds : e # d => M[SProcq(e)] = L[SProcq(e)]
  PROVE  Fits(M, [ky EXCEPT ![d] = k], [sa EXCEPT ![p] = k])
<1> DEFINE a == L[SemdH]
           t == M[SemdH]
           kk == [ky EXCEPT ![d] = k]
           ss == [sa EXCEPT ![p] = k]
<1>1. a \in Seq(SLinks) /\ Len(a) \in Nat /\ SLink(d) \in SLinks
  BY DEF Fits, SLinks
<1>2. Range(t) = Range(a) \cup {SLink(d)}
  <2> HIDE DEF a, t
  <2>1. t \in Seq(SLinks) /\ Inserted(t, a, SLink(d), i)
    BY DEF a, t
  <2> QED BY <1>1, <2>1, InsertedRange
<1>3. /\ kk[d] = k /\ \A e \in Semds : e # d => kk[e] = ky[e]
      /\ ss[p] = k /\ \A o \in Pcbs : o # p => ss[o] = sa[o]
  OBVIOUS
<1> HIDE DEF kk, ss
<1>4. \A e \in Semds : IsActive(M, e) <=> e = d \/ IsActive(L, e)
  BY <1>2, StructsDiffer DEF IsActive
<1>5. \A e \in Semds : M[SProcq(e)] \in Seq(PLists)
  <2>1. PList(p) \in PLists
    BY DEF PLists
  <2>2. <<PList(p)>> \in Seq(PLists)
    BY <2>1
  <2> QED BY <2>2 DEF Fits
<1>6. \A e \in Semds : IsActive(M, e) \/ SLink(e) \in Range(M[SemdFreeH])
  BY <1>4, StructsDiffer DEF Fits
<1>7. \A e \in Semds : IsActive(M, e) <=> M[SProcq(e)] # <<>>
  <2>1. <<PList(p)>> # <<>>
    OBVIOUS
  <2> QED BY <1>4, <2>1 DEF Fits
<1>8. \A e \in Semds : IsActive(M, e) => kk[e] \in Keys
  BY <1>3, <1>4 DEF Fits
<1>9. ASSUME NEW e \in Semds, NEW o \in Pcbs, PList(o) \in Range(M[SProcq(e)])
      PROVE  ss[o] = kk[e]
  <2>1. CASE e = d
    <3>1. Range(<<PList(p)>>) = {PList(p)}
      <4> DEFINE s == <<PList(p)>>
      <4>1. s \in Seq({PList(p)}) /\ Len(s) = 1 /\ s[1] = PList(p)
        OBVIOUS
      <4> HIDE DEF s
      <4>2. Range(s) = {s[j] : j \in 1..Len(s)}
        BY <4>1, RangeEquality
      <4> QED BY <4>1, <4>2 DEF s
    <3>2. o = p
      BY <1>9, <2>1, <3>1, StructsDiffer
    <3> QED BY <1>3, <2>1, <3>2
  <2>2. CASE e # d
    <3>1. PList(o) \in Range(L[SProcq(e)])
      BY <1>9, <2>2
    <3>2. sa[o] = ky[e] /\ o # p
      BY <3>1 DEF Fits
    <3> QED BY <1>3, <2>2, <3>2
  <2> QED BY <2>1, <2>2
<1>10. ASSUME NEW x \in 1..Len(t), NEW y \in 1..Len(t), x < y
       PROVE  kk[Container(t[x])] < kk[Container(t[y])]
  <2>1. /\ \A j \in 1..Len(a) : j < i => kk[Container(a[j])] < k
        /\ \A j \in 1..Len(a) : j >= i => kk[Container(a[j])] > k
        /\ \A j, l \in 1..Len(a) :
             j < l => kk[Container(a[j])] < kk[Container(a[l])]
    <3>1. \A j \in 1..Len(a) : kk[Container(a[j])] = ky[Container(a[j])]
      <4> SUFFICES ASSUME NEW j \in 1..Len(a)
                   PROVE  kk[Container(a[j])] = ky[Container(a[j])]
        OBVIOUS
      <4>1. Container(a[j]) \in Semds /\ IsActive(L, Container(a[j]))
        BY ActiveFacts
      <4> QED BY <1>3, <4>1
    <3>2. /\ \A j \in 1..Len(a) : j < i => ky[Container(a[j])] < k
          /\ \A j \in 1..Len(a) : ~(j < i) => ky[Container(a[j])] > k
      BY DEF Place
    <3>3. \A j, l \in 1..Len(a) :
            j < l => ky[Container(a[j])] < ky[Container(a[l])]
      BY DEF Fits
    <3> HIDE DEF a
    <3>4. \A j \in 1..Len(a) : j < i => kk[Container(a[j])] < k
      BY <3>1, <3>2
    <3>5. \A j \in 1..Len(a) : j >= i => kk[Container(a[j])] > k
      BY <1>1, <3>1, <3>2
    <3>6. \A j, l \in 1..Len(a) :
            j < l => kk[Container(a[j])] < kk[Container(a[l])]
      BY <3>1, <3>3
    <3> QED BY <3>4, <3>5, <3>6
  <2>2. /\ i \in 1..Len(a)+1 /\ Len(t) = Len(a)+1
        /\ \A j \in 1..Len(a)+1 :
             t[j] = IF j < i THEN a[j] ELSE IF j = i THEN SLink(d) ELSE a[j-1]
    BY DEF Inserted
  <2>3. Container(SLink(d)) = d
    BY StructsDiffer
  <2> HIDE DEF a, t
  <2>4. CASE x < i /\ y < i
    BY <1>1, <1>10, <2>1, <2>2, <2>4
  <2>5. CASE x < i /\ y = i
    BY <1>1, <1>3, <1>10, <2>1, <2>2, <2>3, <2>5
  <2>6. CASE x < i /\ y > i
    <3>1. t[x] = a[x] /\ t[y] = a[y-1] /\ x < y-1
          /\ x \in 1..Len(a) /\ y-1 \in 1..Len(a)
      BY <1>1, <1>10, <2>2, <2>6
    <3> QED BY <2>1, <3>1
  <2>7. CASE x = i /\ y > i
    <3>1. t[x] = SLink(d) /\ t[y] = a[y-1] /\ y-1 >= i /\ y-1 \in 1..Len(a)
      BY <1>1, <1>10, <2>2, <2>7
    <3>2. kk[Container(a[y-1])] > k
      BY <2>1, <3>1
    <3> QED BY <1>3, <2>3, <3>1, <3>2
  <2>8. CASE x > i /\ y > i
    <3>1. t[x] = a[x-1] /\ t[y] = a[y-1] /\ x-1 < y-1
          /\ x-1 \in 1..Len(a) /\ y-1 \in 1..Len(a)
      BY <1>1, <1>10, <2>2, <2>8
    <3> QED BY <2>1, <3>1
  <2>9. \/ x < i /\ y < i
        \/ x < i /\ y = i
        \/ x < i /\ y > i
        \/ x = i /\ y > i
        \/ x > i /\ y > i
    BY <1>1, <1>10, <2>2
  <2> QED BY ONLY <2>4, <2>5, <2>6, <2>7, <2>8, <2>9
<1>11. Fits(M, kk, ss)
  BY <1>5, <1>6, <1>7, <1>8, <1>9, <1>10 DEF Fits
<1> QED BY <1>11 DEF kk, ss

\* A descriptor without processes leaves semd_h for the free list.
LEMMA FitsRetired ==
  ASSUME NEW L, NEW ky, NEW sa, Fits(L, ky, sa), NEW d \in Semds,
         NEW i \in Int, NEW M,
         M[SemdFreeH] \in Seq(SLinks), M[SemdH] \in Seq(SLinks),
         Range(M[SemdFreeH]) = Range(L[SemdFreeH]) \cup {SLink(d)},
         Removed(M[SemdH], L[SemdH], i), NoRepetition(L[SemdH]),
         L[SemdH][i] = SLink(d), M[SProcq(d)] = <<>>,
         \A e \in Semds : e # d => M[SProcq(e)] = L[SProcq(e)]
  PROVE  Fits(M, ky, sa)
<1> DEFINE a == L[SemdH]
           t == M[SemdH]
<1>1. a \in Seq(SLinks) /\ Len(a) \in Nat
  BY DEF Fits
<1>2. Range(t) = Range(a) \ {SLink(d)}
  <2> HIDE DEF a, t
  <2>1. t \in Seq(SLinks) /\ Removed(t, a, i) /\ NoRepetition(a) /\ a[i] = SLink(d)
    BY DEF a, t
  <2> QED BY <1>1, <2>1, RemovedResult
<1>3. \A e \in Semds : IsActive(M, e) <=> e # d /\ IsActive(L, e)
  BY <1>2, StructsDiffer DEF IsActive
<1>4. \A e \in Semds : M[SProcq(e)] \in Seq(PLists)
  <2>1. <<>> \in Seq(PLists)
    OBVIOUS
  <2> QED BY <2>1 DEF Fits
<1>5. \A e \in Semds : IsActive(M, e) \/ SLink(e) \in Range(M[SemdFreeH])
  BY <1>3 DEF Fits
<1>6. \A e \in Semds : IsActive(M, e) <=> M[SProcq(e)] # <<>>
  BY <1>3 DEF Fits
<1>7. \A e \in Semds : IsActive(M, e) => ky[e] \in Keys
  BY <1>3 DEF Fits
<1>8. ASSUME NEW e \in Semds, NEW o \in Pcbs, PList(o) \in Range(M[SProcq(e)])
      PROVE  sa[o] = ky[e]
  <2>1. e # d
    <3>1. <<>> \in Seq({}) /\ Len(<<>>) = 0
      OBVIOUS
    <3>2. Range(<<>>) = {<<>>[j] : j \in 1..Len(<<>>)}
      BY <3>1, RangeEquality
    <3>3. Range(<<>>) = {}
      BY <3>1, <3>2
    <3> QED BY <1>8, <3>3
  <2> QED BY <1>8, <2>1 DEF Fits
<1>9. ASSUME NEW x \in 1..Len(t), NEW y \in 1..Len(t), x < y
      PROVE  ky[Container(t[x])] < ky[Container(t[y])]
  <2>1. \A j, l \in 1..Len(a) :
          j < l => ky[Container(a[j])] < ky[Container(a[l])]
    BY DEF Fits
  <2>2. /\ i \in 1..Len(a) /\ Len(t) = Len(a)-1
        /\ \A j \in 1..Len(a)-1 : t[j] = IF j < i THEN a[j] ELSE a[j+1]
    BY DEF Removed
  <2> HIDE DEF a, t
  <2> DEFINE xx == IF x < i THEN x ELSE x+1
             yy == IF y < i THEN y ELSE y+1
  <2>3. xx \in 1..Len(a) /\ yy \in 1..Len(a) /\ xx < yy
        /\ t[x] = a[xx] /\ t[y] = a[yy]
    BY <1>1, <1>9, <2>2
  <2> HIDE DEF xx, yy
  <2> QED BY <2>1, <2>3
<1> QED BY <1>4, <1>5, <1>6, <1>7, <1>8, <1>9 DEF Fits

----------------------------------------------------------------------------
(* The steps *)

\* The walks of all lists give back what the memory holds.
LEMMA ListsAre ==
  ASSUME NEW m, NEW M, DOMAIN M = Heads, M = [h \in Heads |-> M[h]],
         Holds(m, Structs, M)
  PROVE  [h \in Heads |-> Elements(m, h)] = M
<1>1. \A h \in Heads : Elements(m, h) = M[h]
  BY StructsFinite, WalksFind
<1> QED BY <1>1

\* What IInv says of the lists before and after a step.
LEMMA HeldBefore ==
  ASSUME IInv
  PROVE  /\ Holds(links, Structs, Lists) /\ Fits(Lists, key, semAdd)
         /\ DOMAIN Lists = Heads /\ Lists = [h \in Heads |-> Lists[h]]
         /\ \A h \in Heads : Lists[h] \in Seq(Structs) /\ NoRepetition(Lists[h])
<1>1. Holds(links, Structs, Lists) /\ Fits(Lists, key, semAdd)
  BY DEF IInv
<1>2. DOMAIN Lists = Heads /\ Lists = [h \in Heads |-> Lists[h]]
  BY DEF Lists
<1> QED BY <1>1, <1>2, ListsApart

LEMMA HeldAfter ==
  ASSUME NEW M, DOMAIN M = Heads, M = [h \in Heads |-> M[h]],
         Holds(links', Structs, M), Fits(M, key', semAdd'),
         key' \in [Semds -> Keys \cup {NULL}],
         semAdd' \in [Pcbs -> Keys \cup {NULL}]
  PROVE  IInv' /\ Lists' = M
<1>1. Lists' = M
  BY ListsAre DEF Lists
<1> QED BY <1>1 DEF IInv

\* What a step does to the queues: the process p joins that of d, whose key
\* is k, or the i-th process of the queue of d leaves.
Gets(d, p, k) ==
  /\ d \in Semds
  /\ key' = [key EXCEPT ![d] = k]
  /\ IF IsActive(Lists, d) THEN key[d] = k
     ELSE \A e \in Semds : IsActive(Lists, e) => key[e] # k
  /\ Lists'[SProcq(d)] = Append(Lists[SProcq(d)], PList(p))
  /\ \A e \in Semds : e # d => Lists'[SProcq(e)] = Lists[SProcq(e)]

Loses(d, i) ==
  /\ d \in Semds
  /\ key' = key
  /\ Lists'[SProcq(d)] = RemoveAt(Lists[SProcq(d)], i)
  /\ \A e \in Semds : e # d => Lists'[SProcq(e)] = Lists[SProcq(e)]

LEMMA InsertOld ==
  ASSUME IInv, NEW k \in Keys, NEW p \in Pcbs, GetSemd(k) # NULL,
         Alone(links, PList(p)), links' = Queued(links, p, GetSemd(k)),
         semAdd' = [semAdd EXCEPT ![p] = k], UNCHANGED key
  PROVE  IInv' /\ Gets(GetSemd(k), p, k)
<1> DEFINE d == GetSemd(k)
           h == SProcq(d)
           t == Append(Lists[h], PList(p))
           M == [Lists EXCEPT ![h] = t]
<1>1. d \in Semds /\ IsActive(Lists, d) /\ key[d] = k
  BY SearchFinds DEF Searched
<1> HIDE DEF d
<1>2. h \in Heads /\ PList(p) \in Structs \ Heads
  BY <1>1, StructsDiffer DEF Heads
<1>3. /\ Holds(links, Structs, Lists) /\ Fits(Lists, key, semAdd)
      /\ DOMAIN Lists = Heads /\ Lists = [g \in Heads |-> Lists[g]]
  BY HeldBefore
<1>4. Loose(Lists, PList(p))
  BY <1>2, <1>3, AloneIsLoose
<1>5. Holds(links', Structs, M)
  <2> HIDE DEF h
  <2>1. Holds(ListAddTail(links, PList(p), h), Structs, M)
    BY <1>2, <1>3, <1>4, ListOperations
  <2> QED BY <2>1 DEF Queued, d, h
<1>6. key' \in [Semds -> Keys \cup {NULL}] /\ semAdd' \in [Pcbs -> Keys \cup {NULL}]
  BY DEF IInv
<1>7. Fits(M, key', semAdd')
  <2>1. semAdd \in [Pcbs -> Keys \cup {NULL}] /\ key' = key
    BY DEF IInv
  <2>2. Fits(M, key, [semAdd EXCEPT ![p] = key[d]])
    BY <1>1, <1>3, <1>4, <2>1, FitsQueued
  <2> QED BY <1>1, <2>1, <2>2
<1>8. DOMAIN M = Heads /\ M = [g \in Heads |-> M[g]]
  BY <1>3
<1>9. M[h] = t /\ \A e \in Semds : e # d => M[SProcq(e)] = Lists[SProcq(e)]
  BY <1>1, <1>2, <1>3, StructsDiffer DEF Heads
<1> HIDE DEF M
<1>10. IInv' /\ Lists' = M
  BY <1>5, <1>6, <1>7, <1>8, HeldAfter
<1>11. key' = [key EXCEPT ![d] = k]
  BY <1>1 DEF IInv
<1>12. Gets(d, p, k)
  BY <1>1, <1>9, <1>10, <1>11 DEF Gets
<1> QED BY <1>10, <1>12 DEF d

LEMMA Leaves ==
  ASSUME IInv, NEW d \in Semds, IsActive(Lists, d),
         NEW i \in 1..Len(Lists[SProcq(d)]),
         links' = Retired(ListDel(links, Lists[SProcq(d)][i]), d),
         UNCHANGED <<key, semAdd>>
  PROVE  IInv' /\ Loses(d, i)
<1> DEFINE h == SProcq(d)
           q == Lists[h]
           t == RemoveAt(q, i)
           m1 == ListDel(links, q[i])
           L1 == [Lists EXCEPT ![h] = t]
<1>1. /\ Holds(links, Structs, Lists) /\ Fits(Lists, key, semAdd)
      /\ DOMAIN Lists = Heads /\ Lists = [g \in Heads |-> Lists[g]]
      /\ \A g \in Heads : Lists[g] \in Seq(Structs) /\ NoRepetition(Lists[g])
  BY HeldBefore
<1>2. /\ h \in Heads /\ SemdH \in Heads /\ SemdFreeH \in Heads
      /\ h # SemdH /\ h # SemdFreeH /\ SemdH # SemdFreeH
      /\ SLink(d) \in Structs \ Heads
  BY StructsDiffer DEF Heads
<1>3. q \in Seq(PLists) /\ NoRepetition(q)
  BY <1>1, <1>2 DEF Fits
<1>4. Holds(m1, Structs, L1)
  <2> HIDE DEF h
  <2>1. \A j \in 1..Len(Lists[h]) :
          Holds(ListDel(links, Lists[h][j]), Structs,
                [Lists EXCEPT ![h] = RemoveAt(Lists[h], j)])
    BY <1>1, <1>2, ListOperations
  <2>2. i \in 1..Len(Lists[h])
    BY DEF h
  <2> QED BY <2>1, <2>2
<1>5. t \in Seq(PLists) /\ Range(t) \subseteq Range(q)
  <2> HIDE DEF q
  <2>1. i \in 1..Len(q)
    BY DEF q
  <2>2. t \in Seq(PLists) /\ Removed(t, q, i)
    BY <1>3, <2>1, RemoveAtRemoves
  <2> HIDE DEF t
  <2> QED BY <1>3, <2>1, <2>2, RemovedResult
<1> HIDE DEF t
<1>6. /\ DOMAIN L1 = Heads /\ L1 = [g \in Heads |-> L1[g]] /\ L1[h] = t
      /\ \A g \in Heads : g # h => L1[g] = Lists[g]
  BY <1>1, <1>2
<1> HIDE DEF L1
<1>7. \A e \in Semds : e # d => SProcq(e) \in Heads /\ SProcq(e) # h
  BY StructsDiffer DEF Heads
<1>8. key' \in [Semds -> Keys \cup {NULL}] /\ semAdd' \in [Pcbs -> Keys \cup {NULL}]
  BY DEF IInv
<1>9. CASE t # <<>>
  <2>1. ~ListEmpty(m1, h)
    BY <1>2, <1>4, <1>6, <1>9, HeldList
  <2>2. links' = m1
    BY <2>1 DEF Retired
  <2>3. Fits(L1, key', semAdd')
    <3>1. Fits([Lists EXCEPT ![SProcq(d)] = t], key, semAdd)
      BY <1>1, <1>5, <1>9, FitsLess
    <3> QED BY <3>1 DEF L1
  <2>4. IInv' /\ Lists' = L1
    BY <1>4, <1>6, <1>8, <2>2, <2>3, HeldAfter
  <2>5. Loses(d, i)
    BY <1>6, <1>7, <2>4 DEF Loses, t
  <2> QED BY <2>4, <2>5
<1>10. CASE t = <<>>
  <2> DEFINE a == L1[SemdH]
             f == L1[SemdFreeH]
             n == SLink(d)
  <2>1. a = Lists[SemdH] /\ f = Lists[SemdFreeH]
    BY <1>2, <1>6
  <2>2. a \in Seq(SLinks) /\ f \in Seq(SLinks) /\ NoRepetition(a) /\ n \in SLinks
    BY <1>1, <1>2, <2>1 DEF Fits, SLinks
  <2>3. PICK j \in 1..Len(a) : a[j] = n
    <3>1. n \in Range(a)
      BY <2>1 DEF IsActive
    <3>2. Range(a) = {a[x] : x \in 1..Len(a)}
      BY <2>2, RangeEquality
    <3> QED BY <3>1, <3>2
  <2> DEFINE b == RemoveAt(a, j)
             m2 == ListDel(m1, n)
             L2 == [L1 EXCEPT ![SemdH] = b]
  <2>4. Holds(m2, Structs, L2) /\ Loose(L2, n)
    <3>1. \A x \in 1..Len(L1[SemdH]) :
            /\ Holds(ListDel(m1, L1[SemdH][x]), Structs,
                     [L1 EXCEPT ![SemdH] = RemoveAt(L1[SemdH], x)])
            /\ Loose([L1 EXCEPT ![SemdH] = RemoveAt(L1[SemdH], x)], L1[SemdH][x])
      BY <1>2, <1>4, <1>6, ListOperations
    <3> QED BY <2>3, <3>1
  <2>5. b \in Seq(SLinks) /\ Removed(b, a, j)
    BY <2>2, RemoveAtRemoves
  <2> HIDE DEF b
  <2>6. /\ DOMAIN L2 = Heads /\ L2 = [g \in Heads |-> L2[g]] /\ L2[SemdH] = b
        /\ \A g \in Heads : g # SemdH => L2[g] = L1[g]
    BY <1>2, <1>6
  <2> HIDE DEF L2, m1, m2
  <2> DEFINE c == <<n>> \o f
             m3 == ListAdd(m2, n, SemdFreeH)
             L3 == [L2 EXCEPT ![SemdFreeH] = c]
  <2>7. Holds(m3, Structs, L3)
    <3>1. f = L2[SemdFreeH] /\ SemdFreeH \in DOMAIN L2 /\ n \in Structs
      BY <1>2, <2>6
    <3> HIDE DEF f, n
    <3>2. Holds(ListAdd(m2, n, SemdFreeH), Structs,
                [L2 EXCEPT ![SemdFreeH] = <<n>> \o L2[SemdFreeH]])
      BY <2>4, <3>1, ListOperations
    <3> QED BY <3>1, <3>2
  <2>8. c \in Seq(SLinks) /\ Range(c) = Range(f) \cup {n}
    <3> HIDE DEF f, n
    <3>1. c \in Seq(SLinks) /\ Inserted(c, f, n, 1)
      BY <2>2, EndsInsert
    <3> HIDE DEF c
    <3> QED BY <2>2, <3>1, InsertedRange
  <2> HIDE DEF c
  <2>9. /\ DOMAIN L3 = Heads /\ L3 = [g \in Heads |-> L3[g]] /\ L3[SemdFreeH] = c
        /\ \A g \in Heads : g # SemdFreeH => L3[g] = L2[g]
    BY <1>2, <2>6
  <2> HIDE DEF L3, m3
  <2>10. links' = m3
    <3>1. ListEmpty(m1, h)
      BY <1>2, <1>4, <1>6, <1>10, HeldList
    <3> QED BY <3>1 DEF Retired, m1, m2, m3
  <2>11. /\ L3[h] = <<>>
         /\ \A e \in Semds : e # d => L3[SProcq(e)] = Lists[SProcq(e)]
         /\ L3[SemdH] = b
    <3>1. L3[h] = t
      BY <1>2, <1>6, <2>6, <2>9
    <3>2. ASSUME NEW e \in Semds, e # d PROVE L3[SProcq(e)] = Lists[SProcq(e)]
      <4> DEFINE g == SProcq(e)
      <4>1. g \in Heads /\ g # h /\ g # SemdH /\ g # SemdFreeH
        BY <1>7, <3>2, StructsDiffer
      <4> HIDE DEF g
      <4>2. L3[g] = Lists[g]
        BY <1>6, <2>6, <2>9, <4>1
      <4> QED BY <4>2 DEF g
    <3> QED BY <1>2, <1>10, <2>6, <2>9, <3>1, <3>2
  <2>12. Fits(L3, key', semAdd')
    <3>1. /\ L3[SemdFreeH] \in Seq(SLinks) /\ L3[SemdH] \in Seq(SLinks)
          /\ Range(L3[SemdFreeH]) = Range(Lists[SemdFreeH]) \cup {SLink(d)}
      BY <2>1, <2>5, <2>8, <2>9, <2>11
    <3>2. /\ Removed(L3[SemdH], Lists[SemdH], j) /\ NoRepetition(Lists[SemdH])
          /\ Lists[SemdH][j] = SLink(d)
      BY <2>1, <2>2, <2>3, <2>5, <2>11
    <3>3. Fits(L3, key, semAdd)
      <4>1. j \in Int
        OBVIOUS
      <4>2. L3[SProcq(d)] = <<>>
        BY <2>11
      <4> HIDE DEF h, a, f, n
      <4> QED BY <1>1, <2>11, <3>1, <3>2, <4>1, <4>2, FitsRetired
    <3> QED BY <3>3
  <2>13. IInv' /\ Lists' = L3
    BY <1>8, <2>7, <2>9, <2>10, <2>12, HeldAfter
  <2>14. Loses(d, i)
    BY <1>10, <2>11, <2>13 DEF Loses, t
  <2> QED BY <2>13, <2>14
<1> QED BY <1>9, <1>10

LEMMA InsertNew ==
  ASSUME IInv, NEW k \in Keys, NEW p \in Pcbs, GetSemd(k) = NULL,
         ~ListEmpty(links, SemdFreeH), Alone(links, PList(p)),
         LET d == Container(links.next[SemdFreeH])
             taken == InitListHead(ListDel(links, SLink(d)), SProcq(d))
         IN  /\ links' = Queued(Linked(taken, d, k), p, d)
             /\ key' = [key EXCEPT ![d] = k],
         semAdd' = [semAdd EXCEPT ![p] = k]
  PROVE  IInv' /\ \E d \in Semds : Gets(d, p, k)
<1> DEFINE d == Container(links.next[SemdFreeH])
           n == SLink(d)
           h == SProcq(d)
           a == Lists[SemdH]
           f == Lists[SemdFreeH]
           m1 == ListDel(links, n)
           L1 == [Lists EXCEPT ![SemdFreeH] = RemoveAt(f, 1)]
<1>1. /\ Holds(links, Structs, Lists) /\ Fits(Lists, key, semAdd)
      /\ DOMAIN Lists = Heads /\ Lists = [g \in Heads |-> Lists[g]]
      /\ \A g \in Heads : Lists[g] \in Seq(Structs) /\ NoRepetition(Lists[g])
  BY HeldBefore
<1>2. SemdH \in Heads /\ SemdFreeH \in Heads /\ SemdH # SemdFreeH
      /\ PList(p) \in Structs \ Heads
  BY StructsDiffer DEF Heads
<1>3. a \in Seq(SLinks) /\ f \in Seq(SLinks) /\ NoRepetition(f)
  BY <1>1, <1>2 DEF Fits
<1>4. f # <<>> /\ links.next[SemdFreeH] = f[1] /\ 1 \in 1..Len(f)
  <2>1. f # <<>>
    BY <1>1, <1>2, HeldList
  <2>2. links.next[SemdFreeH] = f[1]
    BY <1>1, <1>2, <2>1, HeldList
  <2>3. 1 \in 1..Len(f)
    BY <1>3, <2>1, EmptySeq
  <2> QED BY <2>1, <2>2, <2>3
<1>5. d \in Semds /\ n = f[1]
  BY <1>3, <1>4, LinksFacts
<1> HIDE DEF d
<1>6. /\ h \in Heads /\ h # SemdH /\ h # SemdFreeH
      /\ n \in Structs \ Heads /\ n \in SLinks /\ PList(p) # n
      /\ \A e \in Semds : e # d => /\ SProcq(e) \in Heads /\ SProcq(e) # h
                                   /\ SProcq(e) # SemdH /\ SProcq(e) # SemdFreeH
  BY <1>5, StructsDiffer DEF Heads, SLinks
<1>7. ~IsActive(Lists, d) /\ Lists[h] = <<>>
  <2>1. n \in Range(f)
    <3>1. Range(f) = {f[x] : x \in 1..Len(f)}
      BY <1>3, RangeEquality
    <3> QED BY <1>4, <1>5, <3>1
  <2>2. Range(a) \cap Range(f) = {}
    BY <1>1, <1>2, ListsApart
  <2>3. ~IsActive(Lists, d)
    BY <2>1, <2>2 DEF IsActive
  <2> QED BY <1>1, <1>5, <2>3 DEF Fits
<1>8. Loose(Lists, PList(p))
  BY <1>1, <1>2, AloneIsLoose
\* list_del, from the free list
<1>9. Holds(m1, Structs, L1) /\ Loose(L1, n)
  <2>1. \A x \in 1..Len(Lists[SemdFreeH]) :
          /\ Holds(ListDel(links, Lists[SemdFreeH][x]), Structs,
                   [Lists EXCEPT ![SemdFreeH] = RemoveAt(Lists[SemdFreeH], x)])
          /\ Loose([Lists EXCEPT ![SemdFreeH] = RemoveAt(Lists[SemdFreeH], x)],
                   Lists[SemdFreeH][x])
    BY <1>1, <1>2, ListOperations
  <2> QED BY <1>4, <1>5, <2>1
<1> DEFINE c == RemoveAt(f, 1)
<1>10. c \in Seq(SLinks) /\ Range(c) = Range(f) \ {n}
  <2> HIDE DEF f
  <2>1. c \in Seq(SLinks) /\ Removed(c, f, 1)
    BY <1>3, <1>4, RemoveAtRemoves
  <2> HIDE DEF c
  <2> QED BY <1>3, <1>5, <2>1, RemovedResult
<1> HIDE DEF c
<1>11. /\ DOMAIN L1 = Heads /\ L1 = [g \in Heads |-> L1[g]] /\ L1[SemdFreeH] = c
       /\ \A g \in Heads : g # SemdFreeH => L1[g] = Lists[g]
  BY <1>1, <1>2 DEF c
<1> HIDE DEF L1
\* INIT_LIST_HEAD, of an empty list
<1>12. InitListHead(m1, h) = m1
  BY <1>6, <1>7, <1>9, <1>11, EmptyIsAlone
<1> HIDE DEF m1
\* list_add_tail, into semd_h
<1> DEFINE m2 == Linked(m1, d, k)
<1>13. /\ \A e \in Semds : IsActive(Lists, e) => key[e] # k
       /\ \E i \in 1..Len(a)+1 :
            /\ Place(Lists, key, k, i)
            /\ IF i = Len(a)+1 THEN FirstFrom(k) = NULL
               ELSE FirstFrom(k) \in Semds /\ SLink(FirstFrom(k)) = a[i]
  <2>1. NULL \notin Semds
    BY SemdsFacts
  <2> QED BY <2>1, SearchFinds DEF Searched
<1>14. PICK i \in 1..Len(a)+1 :
         /\ Place(Lists, key, k, i)
         /\ IF i = Len(a)+1 THEN FirstFrom(k) = NULL
            ELSE FirstFrom(k) \in Semds /\ SLink(FirstFrom(k)) = a[i]
  BY <1>13
<1>15. \E t \in Seq(SLinks) :
         /\ Inserted(t, a, n, i)
         /\ Holds(m2, Structs, [L1 EXCEPT ![SemdH] = t])
  <2>1. L1[SemdH] = a /\ SemdH \in DOMAIN L1 /\ n \in Structs
    BY <1>2, <1>6, <1>11
  <2>2. CASE i = Len(a)+1
    <3>1. m2 = ListAddTail(m1, n, SemdH)
      BY <1>14, <2>2 DEF Linked
    <3> HIDE DEF a, n, m2
    <3>2. Append(a, n) \in Seq(SLinks) /\ Inserted(Append(a, n), a, n, i)
      BY <1>3, <1>6, <2>2, EndsInsert
    <3>3. Holds(ListAddTail(m1, n, SemdH), Structs, [L1 EXCEPT ![SemdH] = Append(L1[SemdH], n)])
      BY <1>9, <2>1, ListOperations
    <3> QED BY <2>1, <3>1, <3>2, <3>3
  <2>3. CASE i # Len(a)+1
    <3>1. FirstFrom(k) # NULL /\ SLink(FirstFrom(k)) = a[i] /\ i \in 1..Len(a)
      <4>1. Len(a) \in Nat
        BY <1>3
      <4> HIDE DEF a
      <4> QED BY <1>14, <2>3, <4>1, SemdsFacts
    <3>2. m2 = ListAddTail(m1, n, a[i])
      BY <3>1 DEF Linked
    <3> HIDE DEF a, n, m2
    <3>3. InsertAt(a, i, n) \in Seq(SLinks) /\ Inserted(InsertAt(a, i, n), a, n, i)
      BY <1>3, <1>6, <3>1, InsertAtInserts
    <3>4. \A x \in 1..Len(L1[SemdH]) :
            Holds(ListAddTail(m1, n, L1[SemdH][x]), Structs,
                  [L1 EXCEPT ![SemdH] = InsertAt(L1[SemdH], x, n)])
      BY <1>9, <2>1, ListOperations
    <3> QED BY <2>1, <3>1, <3>2, <3>3, <3>4
  <2> QED BY <2>2, <2>3
<1>16. PICK t \in Seq(SLinks) :
         /\ Inserted(t, a, n, i)
         /\ Holds(m2, Structs, [L1 EXCEPT ![SemdH] = t])
  BY <1>15
<1> DEFINE L2 == [L1 EXCEPT ![SemdH] = t]
<1>17. /\ DOMAIN L2 = Heads /\ L2 = [g \in Heads |-> L2[g]] /\ L2[SemdH] = t
       /\ \A g \in Heads : g # SemdH => L2[g] = L1[g]
  BY <1>2, <1>11
<1>18. Holds(m2, Structs, L2)
  BY <1>16
<1> HIDE DEF L2, m2
<1>19. Range(t) = Range(a) \cup {n}
  <2>1. i \in Nat
    BY <1>3, <1>14
  <2> HIDE DEF a, n
  <2> QED BY <1>3, <1>6, <1>16, <2>1, InsertedRange
\* list_add_tail, of the process
<1> DEFINE m3 == Queued(m2, p, d)
           L3 == [L2 EXCEPT ![h] = Append(L2[h], PList(p))]
<1>20. Loose(L2, PList(p))
  <2>1. PList(p) \notin Range(a) /\ PList(p) \notin Range(f)
    BY <1>1, <1>2, <1>8 DEF Loose
  <2>2. PList(p) \notin Range(L2[SemdH]) /\ PList(p) \notin Range(L2[SemdFreeH])
    BY <1>2, <1>6, <1>10, <1>11, <1>17, <1>19, <2>1
  <2>3. ASSUME NEW g \in Heads PROVE PList(p) \notin Range(L2[g])
    <3>1. CASE g # SemdH /\ g # SemdFreeH
      <4>1. L2[g] = Lists[g]
        BY <1>11, <1>17, <3>1
      <4> QED BY <1>1, <1>8, <4>1 DEF Loose
    <3> QED BY <2>2, <3>1
  <2> QED BY <1>2, <1>17, <2>3 DEF Loose
<1>21. Holds(m3, Structs, L3)
  <2> HIDE DEF h
  <2>1. Holds(ListAddTail(m2, PList(p), h), Structs, L3)
    BY <1>2, <1>6, <1>17, <1>18, <1>20, ListOperations
  <2> QED BY <2>1 DEF Queued, h
<1>22. L2[h] = <<>> /\ Append(L2[h], PList(p)) = <<PList(p)>>
  <2>1. L2[h] = <<>>
    BY <1>6, <1>7, <1>11, <1>17
  <2>2. \A s : s = <<>> => Append(s, PList(p)) = <<PList(p)>>
    OBVIOUS
  <2> QED BY <2>1, <2>2
<1>23. /\ DOMAIN L3 = Heads /\ L3 = [g \in Heads |-> L3[g]]
       /\ L3[h] = <<PList(p)>>
       /\ \A g \in Heads : g # h => L3[g] = L2[g]
  BY <1>6, <1>17, <1>22
<1> HIDE DEF L3
<1>24. /\ L3[SemdH] = t /\ L3[SemdFreeH] = c
       /\ \A e \in Semds : e # d => L3[SProcq(e)] = Lists[SProcq(e)]
  <2>1. L3[SemdH] = t /\ L3[SemdFreeH] = c
    BY <1>2, <1>6, <1>11, <1>17, <1>23
  <2>2. ASSUME NEW e \in Semds, e # d PROVE L3[SProcq(e)] = Lists[SProcq(e)]
    <3> DEFINE g == SProcq(e)
    <3>1. g \in Heads /\ g # h /\ g # SemdH /\ g # SemdFreeH
      BY <1>6, <2>2
    <3> HIDE DEF g
    <3>2. L3[g] = Lists[g]
      BY <1>11, <1>17, <1>23, <3>1
    <3> QED BY <3>2 DEF g
  <2> QED BY <2>1, <2>2
<1>25. key' = [key EXCEPT ![d] = k] /\ links' = m3
  BY <1>12 DEF d, m3, m2, m1
<1> HIDE DEF m3
<1>26. /\ key \in [Semds -> Keys \cup {NULL}] /\ semAdd \in [Pcbs -> Keys \cup {NULL}]
       /\ key' \in [Semds -> Keys \cup {NULL}] /\ semAdd' \in [Pcbs -> Keys \cup {NULL}]
  BY <1>25 DEF IInv
<1>27. Fits(L3, key', semAdd')
  <2>1. /\ L3[SemdFreeH] \in Seq(SLinks) /\ L3[SemdH] \in Seq(SLinks)
        /\ Range(L3[SemdFreeH]) = Range(Lists[SemdFreeH]) \ {SLink(d)}
        /\ Inserted(L3[SemdH], Lists[SemdH], SLink(d), i)
        /\ L3[SProcq(d)] = <<PList(p)>>
    BY <1>10, <1>16, <1>23, <1>24
  <2>2. \A e \in Semds : PList(p) \notin Range(Lists[SProcq(e)])
    BY <1>1, <1>8 DEF Loose, Heads
  <2>3. i \in Nat
    BY <1>3, <1>14
  <2>4. Fits(L3, [key EXCEPT ![d] = k], [semAdd EXCEPT ![p] = k])
    <3> HIDE DEF a, f, h, n
    <3> QED BY <1>1, <1>5, <1>7, <1>14, <1>24, <1>26, <2>1, <2>2, <2>3, FitsActivated
  <2> QED BY <1>25, <2>4
<1>28. IInv' /\ Lists' = L3
  BY <1>21, <1>23, <1>25, <1>26, <1>27, HeldAfter
<1>29. Gets(d, p, k)
  BY <1>5, <1>7, <1>13, <1>22, <1>23, <1>24, <1>25, <1>28, <1>6, <1>11, <1>17 DEF Gets
<1> QED BY <1>5, <1>28, <1>29

----------------------------------------------------------------------------
(* initASL *)

\* The links before initASL, and the recursive function in Init up to n.
Single == [next |-> [n \in Structs |-> n], prev |-> [n \in Structs |-> n]]
FreedStep(f, d) == IF d = 0 THEN Single ELSE ListAdd(f[d-1], SLink(d), SemdFreeH)
IsFreed(f, n) == f = [d \in 0..n |-> FreedStep(f, d)]

LEMMA FreedExists == \A n \in Nat : \E f : IsFreed(f, n)
<1> DEFINE Good == {n \in Nat : \E f : IsFreed(f, n)}
<1>1. 0 \in Good
  <2> DEFINE f == [d \in 0..0 |-> Single]
  <2>1. \A d \in 0..0 : FreedStep(f, d) = Single
    BY DEF FreedStep
  <2>2. IsFreed(f, 0)
    BY <2>1 DEF IsFreed
  <2> QED BY <2>2
<1>2. ASSUME NEW n \in Nat, n \in Good PROVE n+1 \in Good
  <2>1. PICK f : IsFreed(f, n)
    BY <1>2
  <2> DEFINE g == [d \in 0..(n+1) |-> FreedStep(f, d)]
  <2>2. \A d \in 0..n : g[d] = f[d]
    BY <2>1 DEF IsFreed
  <2> HIDE DEF g
  <2>3. \A d \in 0..(n+1) : FreedStep(f, d) = FreedStep(g, d)
    <3>1. FreedStep(f, 0) = FreedStep(g, 0)
      BY DEF FreedStep
    <3>2. ASSUME NEW d \in 1..(n+1) PROVE FreedStep(f, d) = FreedStep(g, d)
      <4>1. f[d-1] = g[d-1]
        BY <2>2
      <4> QED BY <4>1 DEF FreedStep
    <3>3. \A d \in 0..(n+1) : d = 0 \/ d \in 1..(n+1)
      OBVIOUS
    <3> QED BY <3>1, <3>2, <3>3
  <2>4. IsFreed(g, n+1)
    BY <2>3 DEF IsFreed, g
  <2>5. n+1 \in Nat
    OBVIOUS
  <2> QED BY <2>4, <2>5
<1> HIDE DEF Good
<1>3. \A n \in Nat : n \in Good
  BY <1>1, <1>2, SetInduction
<1> QED BY <1>3 DEF Good

\* All lists empty but the free list, which is s.
OnlyFree(s) == [h \in Heads |-> IF h = SemdFreeH THEN s ELSE <<>>]

\* Nothing is linked with anything: all lists are empty.
LEMMA SingleHolds == Holds(Single, Structs, OnlyFree(<<>>))
<1>1. Heads \in SUBSET Structs
  BY StructsDiffer
<1>2. OnlyFree(<<>>) = [h \in Heads |-> <<>>]
  BY DEF OnlyFree
<1> QED BY <1>1, <1>2, NothingLinked DEF Single

\* After initASL all descriptors are in the free list.
LEMMA FreedHolds ==
  ASSUME NEW f, IsFreed(f, PoolSize)
  PROVE  \E s \in Seq(SLinks) :
           /\ Range(s) = {SLink(d) : d \in Semds}
           /\ Holds(f[PoolSize], Structs, OnlyFree(s))
<1> DEFINE Fine(n) == \E s \in Seq(SLinks) :
                        /\ Range(s) = {SLink(d) : d \in 1..n}
                        /\ Holds(f[n], Structs, OnlyFree(s))
           Good == {n \in Nat : n <= PoolSize => Fine(n)}
<1>1. PoolSize \in Nat
  BY PoolAssumption
<1>2. \A d \in 0..PoolSize : f[d] = FreedStep(f, d)
  BY DEF IsFreed
<1>3. 0 \in Good
  <2>1. f[0] = Single
    BY <1>1, <1>2 DEF FreedStep
  <2>2. \A s : s = <<>> => s \in Seq(SLinks) /\ Len(s) = 0
    OBVIOUS
  <2> DEFINE s == <<>>
  <2>3. s \in Seq(SLinks) /\ Len(s) = 0
    BY <2>2
  <2>4. Holds(f[0], Structs, OnlyFree(s))
    BY <2>1, SingleHolds
  <2> HIDE DEF s
  <2>5. Range(s) = {s[i] : i \in 1..Len(s)}
    BY <2>3, RangeEquality
  <2>6. Range(s) = {SLink(d) : d \in 1..0}
    BY <2>3, <2>5
  <2>7. Fine(0)
    BY <2>3, <2>4, <2>6
  <2> QED BY <2>7
<1>4. ASSUME NEW n \in Nat, n \in Good PROVE n+1 \in Good
  <2> SUFFICES ASSUME n+1 <= PoolSize PROVE Fine(n+1)
    OBVIOUS
  <2>1. Fine(n) /\ n+1 \in Semds
    BY <1>1, <1>4 DEF Semds
  <2>2. PICK s \in Seq(SLinks) :
          /\ Range(s) = {SLink(d) : d \in 1..n}
          /\ Holds(f[n], Structs, OnlyFree(s))
    BY <2>1
  <2> DEFINE x == SLink(n+1)
             t == <<x>> \o s
             L == OnlyFree(s)
  <2>3. f[n+1] = ListAdd(f[n], x, SemdFreeH)
    <3>1. n+1 \in 0..PoolSize /\ n+1 # 0 /\ (n+1)-1 = n
      BY <1>1
    <3> QED BY <1>2, <3>1 DEF FreedStep
  <2>4. /\ DOMAIN L = Heads /\ SemdFreeH \in Heads /\ L[SemdFreeH] = s
        /\ \A h \in Heads : h # SemdFreeH => L[h] = <<>>
    BY DEF OnlyFree, Heads
  <2>5. x \in SLinks /\ x \in Structs \ Heads
    BY <2>1, StructsDiffer DEF SLinks
  <2>6. x \notin Range(s)
    <3>1. \A d \in 1..n : d \in Semds /\ d # n+1
      BY <1>1, <2>1 DEF Semds
    <3>2. \A d \in 1..n : SLink(d) # x
      BY <2>1, <3>1, StructsDiffer
    <3> QED BY <2>2, <3>2
  <2>7. Loose(L, x)
    <3>1. \A e : e = <<>> => e \in Seq({}) /\ Len(e) = 0
      OBVIOUS
    <3>2. ASSUME NEW e, e = <<>> PROVE x \notin Range(e)
      <4>1. Range(e) = {e[i] : i \in 1..Len(e)}
        BY <3>1, <3>2, RangeEquality
      <4> QED BY <3>1, <3>2, <4>1
    <3> QED BY <2>4, <2>5, <2>6, <3>2 DEF Loose
  <2>8. Holds(f[n+1], Structs, [L EXCEPT ![SemdFreeH] = t])
    <3> HIDE DEF L, x
    <3>1. Holds(f[n], Structs, L)
      BY <2>2 DEF L
    <3>2. Holds(ListAdd(f[n], x, SemdFreeH), Structs,
                [L EXCEPT ![SemdFreeH] = <<x>> \o L[SemdFreeH]])
      BY <2>4, <2>5, <2>7, <3>1, ListOperations
    <3> QED BY <2>3, <2>4, <3>2
  <2>9. [L EXCEPT ![SemdFreeH] = t] = OnlyFree(t)
    BY DEF OnlyFree
  <2>10. t \in Seq(SLinks) /\ Range(t) = Range(s) \cup {x}
    <3> HIDE DEF x
    <3>1. t \in Seq(SLinks) /\ Inserted(t, s, x, 1)
      BY <2>2, <2>5, EndsInsert
    <3> HIDE DEF t
    <3> QED BY <2>2, <2>5, <3>1, InsertedRange
  <2>11. Range(t) = {SLink(d) : d \in 1..n+1}
    <3> HIDE DEF t
    <3>1. \A d : d \in 1..n+1 <=> d \in 1..n \/ d = n+1
      OBVIOUS
    <3> QED BY <2>2, <2>10, <3>1
  <2> HIDE DEF t, L
  <2> QED BY <2>8, <2>9, <2>10, <2>11
<1> HIDE DEF Good
<1>5. PoolSize \in Good
  BY <1>1, <1>3, <1>4, SetInduction
<1> QED BY <1>1, <1>5 DEF Good, Semds

LEMMA Initially == Init => IInv /\ Lists[SemdH] = <<>>
<1> SUFFICES ASSUME Init PROVE IInv /\ Lists[SemdH] = <<>>
  OBVIOUS
<1> DEFINE f == CHOOSE g : IsFreed(g, PoolSize)
<1>1. links = f[PoolSize]
  BY DEF Init, IsFreed, FreedStep, Single
<1>2. IsFreed(f, PoolSize)
  <2>1. PoolSize \in Nat
    BY PoolAssumption
  <2> QED BY <2>1, FreedExists
<1> HIDE DEF f
<1>3. PICK s \in Seq(SLinks) :
        /\ Range(s) = {SLink(d) : d \in Semds}
        /\ Holds(links, Structs, OnlyFree(s))
  BY <1>1, <1>2, FreedHolds
<1> DEFINE L == OnlyFree(s)
<1>4. /\ DOMAIN L = Heads /\ L = [h \in Heads |-> L[h]]
      /\ L[SemdFreeH] = s /\ L[SemdH] = <<>>
      /\ \A d \in Semds : L[SProcq(d)] = <<>>
  BY StructsDiffer DEF OnlyFree, Heads
<1>5. Holds(links, Structs, L)
  BY <1>3
<1> HIDE DEF L
<1>6. Lists = L
  BY <1>4, <1>5, ListsAre DEF Lists
<1>7. Fits(L, key, semAdd)
  <2>1. \A e : e = <<>> =>
          /\ e \in Seq(SLinks) /\ e \in Seq(PLists) /\ e \in Seq({}) /\ Len(e) = 0
    OBVIOUS
  <2>2. ASSUME NEW e, e = <<>> PROVE Range(e) = {}
    <3>1. Range(e) = {e[i] : i \in 1..Len(e)}
      BY <2>1, <2>2, RangeEquality
    <3> QED BY <2>1, <2>2, <3>1
  <2>3. \A d \in Semds : ~IsActive(L, d)
    BY <1>4, <2>2 DEF IsActive
  <2>4. L[SemdH] \in Seq(SLinks) /\ Len(L[SemdH]) = 0 /\ L[SemdFreeH] \in Seq(SLinks)
    BY <1>3, <1>4, <2>1
  <2>5. \A d \in Semds : L[SProcq(d)] \in Seq(PLists) /\ Range(L[SProcq(d)]) = {}
    BY <1>4, <2>1, <2>2
  <2>6. \A d \in Semds : SLink(d) \in Range(L[SemdFreeH])
    BY <1>3, <1>4
  <2>7. \A i, j \in 1..Len(L[SemdH]) :
          i < j => key[Container(L[SemdH][i])] < key[Container(L[SemdH][j])]
    BY <2>4
  <2> QED BY <1>4, <2>3, <2>4, <2>5, <2>6, <2>7 DEF Fits
<1>8. key \in [Semds -> Keys \cup {NULL}] /\ semAdd \in [Pcbs -> Keys \cup {NULL}]
  BY DEF Init
<1> QED BY <1>4, <1>5, <1>6, <1>7, <1>8 DEF IInv

----------------------------------------------------------------------------
(* The invariant *)

LEMMA StutterKeeps ==
  ASSUME IInv, UNCHANGED <<links, key, semAdd>>
  PROVE  IInv' /\ Lists' = Lists
<1>1. Lists' = Lists
  BY DEF Lists
<1> QED BY <1>1 DEF IInv

\* insertBlocked puts p last in the queue of k, or finds no descriptor.
LEMMA InsertBlockedDoes ==
  ASSUME IInv, NEW k \in Keys, NEW p \in Pcbs, InsertBlocked(k, p)
  PROVE  /\ IInv'
         /\ \/ /\ Alone(links, PList(p)) /\ result' = FALSE
               /\ \E d \in Semds :
                    Gets(d, p, k) /\ (IsActive(Lists, d) \/ Lists[SemdFreeH] # <<>>)
            \/ /\ Lists[SemdFreeH] = <<>> /\ result' = TRUE
               /\ \A d \in Semds : IsActive(Lists, d) => key[d] # k
               /\ UNCHANGED <<links, key, semAdd>>
<1>1. ListEmpty(links, SemdFreeH) <=> Lists[SemdFreeH] = <<>>
  <2>1. Holds(links, Structs, Lists) /\ SemdFreeH \in DOMAIN Lists
    BY HeldBefore DEF Heads
  <2> QED BY <2>1, HeldList
<1>2. \/ GetSemd(k) \in Semds /\ IsActive(Lists, GetSemd(k))
      \/ GetSemd(k) = NULL /\ \A d \in Semds : IsActive(Lists, d) => key[d] # k
  BY SearchFinds DEF Searched
<1>3. CASE GetSemd(k) # NULL
  <2>1. /\ Alone(links, PList(p)) /\ links' = Queued(links, p, GetSemd(k))
        /\ semAdd' = [semAdd EXCEPT ![p] = k] /\ result' = FALSE
        /\ UNCHANGED key
    BY <1>3 DEF InsertBlocked
  <2>2. IInv' /\ Gets(GetSemd(k), p, k)
    BY <1>3, <2>1, InsertOld
  <2> QED BY <1>2, <1>3, <2>1, <2>2
<1>4. CASE GetSemd(k) = NULL /\ ~ListEmpty(links, SemdFreeH)
  <2>1. /\ Alone(links, PList(p)) /\ result' = FALSE
        /\ LET d == Container(links.next[SemdFreeH])
               taken == InitListHead(ListDel(links, SLink(d)), SProcq(d))
           IN  /\ links' = Queued(Linked(taken, d, k), p, d)
               /\ key' = [key EXCEPT ![d] = k]
        /\ semAdd' = [semAdd EXCEPT ![p] = k]
    BY <1>4 DEF InsertBlocked
  <2>2. IInv' /\ \E d \in Semds : Gets(d, p, k)
    BY <1>4, <2>1, InsertNew
  <2> QED BY <1>1, <1>4, <2>1, <2>2
<1>5. CASE GetSemd(k) = NULL /\ ListEmpty(links, SemdFreeH)
  <2>1. result' = TRUE /\ UNCHANGED <<links, key, semAdd>>
    BY <1>5 DEF InsertBlocked
  <2>2. \A d \in Semds : IsActive(Lists, d) => key[d] # k
    BY <1>2, <1>5, SemdsFacts
  <2> QED BY <1>1, <1>5, <2>1, <2>2, StutterKeeps
<1> QED BY <1>3, <1>4, <1>5

\* removeBlocked takes the first of the queue of k.
LEMMA RemoveBlockedDoes ==
  ASSUME IInv, NEW k \in Keys, RemoveBlocked(k)
  PROVE  /\ IInv'
         /\ \/ \E d \in Semds :
                 /\ IsActive(Lists, d) /\ key[d] = k /\ Loses(d, 1)
                 /\ 1 \in 1..Len(Lists[SProcq(d)])
                 /\ result' = Container(Lists[SProcq(d)][1])
            \/ /\ \A d \in Semds : IsActive(Lists, d) => key[d] # k
               /\ result' = NULL /\ UNCHANGED <<links, key, semAdd>>
<1>1. \/ /\ GetSemd(k) \in Semds /\ IsActive(Lists, GetSemd(k))
         /\ key[GetSemd(k)] = k
      \/ GetSemd(k) = NULL /\ \A d \in Semds : IsActive(Lists, d) => key[d] # k
  BY SearchFinds DEF Searched
<1>2. CASE GetSemd(k) # NULL
  <2> DEFINE d == GetSemd(k)
             h == SProcq(d)
             q == Lists[h]
  <2>1. d \in Semds /\ IsActive(Lists, d) /\ key[d] = k
    BY <1>1, <1>2
  <2>2. /\ links' = Retired(ListDel(links, links.next[h]), d)
        /\ result' = Container(links.next[h]) /\ UNCHANGED <<key, semAdd>>
    BY <1>2 DEF RemoveBlocked
  <2> HIDE DEF d
  <2>3. q # <<>> /\ q \in Seq(PLists) /\ 1 \in 1..Len(q)
    <3>1. q # <<>> /\ q \in Seq(PLists)
      BY <2>1, HeldBefore DEF Fits
    <3> QED BY <3>1, EmptySeq
  <2>4. links.next[h] = q[1]
    <3>1. Holds(links, Structs, Lists) /\ h \in DOMAIN Lists
      BY <2>1, HeldBefore DEF Heads
    <3> QED BY <2>3, <3>1, HeldList
  <2>5. IInv' /\ Loses(d, 1)
    BY <2>1, <2>2, <2>3, <2>4, Leaves
  <2> QED BY <2>1, <2>2, <2>3, <2>4, <2>5
<1>3. CASE GetSemd(k) = NULL
  <2>1. result' = NULL /\ UNCHANGED <<links, key, semAdd>>
    BY <1>3 DEF RemoveBlocked
  <2>2. \A d \in Semds : IsActive(Lists, d) => key[d] # k
    BY <1>1, <1>3, SemdsFacts
  <2> QED BY <2>1, <2>2, StutterKeeps
<1> QED BY <1>2, <1>3

\* A process that waits is found by outBlocked: p_semAdd is its key.
LEMMA WaitingIsFound ==
  ASSUME IInv, NEW p \in Pcbs, NEW d \in Semds, PList(p) \in Range(Lists[SProcq(d)])
  PROVE  Named(p) = d /\ Found(p)
<1> DEFINE q == Lists[SProcq(d)]
<1>1. Fits(Lists, key, semAdd)
  BY HeldBefore
<1>2. q \in Seq(PLists) /\ semAdd[p] = key[d]
  BY <1>1 DEF Fits
<1>3. PICK i \in 1..Len(q) : q[i] = PList(p)
  BY <1>2, RangeEquality
<1>4. IsActive(Lists, d) /\ key[d] \in Keys
  <2>1. q # <<>>
    <3>1. \A e : e = <<>> => Len(e) = 0
      OBVIOUS
    <3> HIDE DEF q
    <3> QED BY <1>3, <3>1
  <2> QED BY <1>1, <2>1 DEF Fits
<1>5. GetSemd(key[d]) = d
  <2> DEFINE e == GetSemd(key[d])
  <2>1. \/ e \in Semds /\ IsActive(Lists, e) /\ key[e] = key[d]
        \/ \A o \in Semds : IsActive(Lists, o) => key[o] # key[d]
    BY <1>4, SearchFinds DEF Searched
  <2> HIDE DEF e
  <2>2. e \in Semds /\ IsActive(Lists, e) /\ key[e] = key[d]
    BY <1>4, <2>1
  <2>3. e = d
    BY <1>1, <1>4, <2>2, ActiveFacts
  <2> QED BY <2>3 DEF e
<1>6. semAdd[p] # NULL
  BY <1>2, <1>4, NullAssumption
<1>7. Named(p) = d
  BY <1>2, <1>5, <1>6 DEF Named
<1>8. Contents(SProcq(d)) = Objects(q)
  BY ObjectsOfLists DEF Heads
<1>9. Len(Contents(SProcq(d))) = Len(q) /\ Contents(SProcq(d))[i] = p
  <2>1. Container(q[i]) = p /\ Len(q) \in Nat
    BY <1>2, <1>3, StructsDiffer
  <2> HIDE DEF q
  <2> QED BY <1>3, <1>8, <2>1 DEF Objects
<1>10. d # NULL
  BY SemdsFacts
<1> QED BY <1>3, <1>7, <1>9, <1>10 DEF Found

\* outBlocked takes p out of the queue it is in, if it is in one.
LEMMA OutBlockedDoes ==
  ASSUME IInv, NEW p \in Pcbs, OutBlocked(p)
  PROVE  /\ IInv'
         /\ \/ \E d \in Semds : \E i \in 1..Len(Lists[SProcq(d)]) :
                 /\ IsActive(Lists, d) /\ Lists[SProcq(d)][i] = PList(p)
                 /\ Loses(d, i) /\ result' = p
            \/ /\ \A d \in Semds : PList(p) \notin Range(Lists[SProcq(d)])
               /\ result' = NULL /\ UNCHANGED <<links, key, semAdd>>
<1>1. CASE Found(p)
  <2> DEFINE d == Named(p)
             q == Lists[SProcq(d)]
  <2>1. /\ links' = Retired(ListDel(links, PList(p)), d)
        /\ result' = p /\ UNCHANGED <<key, semAdd>>
    BY <1>1 DEF OutBlocked
  <2>2. d # NULL /\ \E i \in 1..Len(Contents(SProcq(d))) : Contents(SProcq(d))[i] = p
    BY <1>1 DEF Found
  <2>3. d \in Semds /\ IsActive(Lists, d)
    <3>1. semAdd[p] \in Keys /\ d = GetSemd(semAdd[p])
      BY <2>2 DEF Named, IInv
    <3> QED BY <2>2, <3>1, SearchFinds DEF Searched
  <2> HIDE DEF d
  <2>4. q \in Seq(PLists)
    BY <2>3, HeldBefore DEF Fits
  <2>5. Contents(SProcq(d)) = Objects(q)
    BY <2>3, ObjectsOfLists DEF Heads
  <2>6. PICK i \in 1..Len(q) : Container(q[i]) = p
    <3>1. Len(q) \in Nat
      BY <2>4
    <3> HIDE DEF q
    <3> QED BY <2>2, <2>5, <3>1 DEF Objects
  <2>7. q[i] = PList(p)
    BY <2>4, <2>6, LinksFacts
  <2>8. IInv' /\ Loses(d, i)
    BY <2>1, <2>3, <2>6, <2>7, Leaves
  <2> QED BY <2>1, <2>3, <2>6, <2>7, <2>8
<1>2. CASE ~Found(p)
  <2>1. result' = NULL /\ UNCHANGED <<links, key, semAdd>>
    BY <1>2 DEF OutBlocked
  <2>2. \A d \in Semds : PList(p) \notin Range(Lists[SProcq(d)])
    BY <1>2, WaitingIsFound
  <2> QED BY <2>1, <2>2, StutterKeeps
<1> QED BY <1>1, <1>2

LEMMA NextKeepsIInv ==
  ASSUME IInv, [Next]_vars
  PROVE  IInv'
<1>1. ASSUME NEW k \in Keys, NEW p \in Pcbs, InsertBlocked(k, p) PROVE IInv'
  BY <1>1, InsertBlockedDoes
<1>2. ASSUME NEW k \in Keys, RemoveBlocked(k) PROVE IInv'
  BY <1>2, RemoveBlockedDoes
<1>3. ASSUME NEW k \in Keys, HeadBlocked(k) PROVE IInv'
  BY <1>3, StutterKeeps DEF HeadBlocked
<1>4. ASSUME NEW p \in Pcbs, OutBlocked(p) PROVE IInv'
  BY <1>4, OutBlockedDoes
<1>5. ASSUME UNCHANGED vars PROVE IInv'
  BY <1>5, StutterKeeps DEF vars
<1> QED BY <1>1, <1>2, <1>3, <1>4, <1>5 DEF Next

\* The lists of the module are whole, in order and apart, for good.
THEOREM IInvHolds == Spec => []IInv
<1>1. Init => IInv
  BY Initially
<1>2. IInv /\ [Next]_vars => IInv'
  BY NextKeepsIInv
<1> QED BY <1>1, <1>2, PTL DEF Spec

\* LinksIntact, for every pool.
THEOREM LinksIntactHolds == Spec => []LinksIntact
<1>1. IInv => LinksIntact
  BY DEF IInv, Holds, Whole, LinksIntact
<1> QED BY <1>1, IInvHolds, PTL

\* DescriptorsInOrder, for every pool.
THEOREM DescriptorsInOrderHolds == Spec => []DescriptorsInOrder
<1>1. IInv => DescriptorsInOrder
  <2> SUFFICES ASSUME IInv PROVE DescriptorsInOrder
    OBVIOUS
  <2> DEFINE In(d, list) == \E i \in 1..Len(list) : list[i] = d
             a == Lists[SemdH]
             f == Lists[SemdFreeH]
  <2>1. Holds(links, Structs, Lists) /\ Fits(Lists, key, semAdd) /\ DOMAIN Lists = Heads
    BY HeldBefore
  <2>2. SemdH \in Heads /\ SemdFreeH \in Heads /\ SemdH # SemdFreeH
        /\ \A d \in Semds : SProcq(d) \in Heads
    BY StructsDiffer DEF Heads
  <2>3. a \in Seq(SLinks) /\ f \in Seq(SLinks)
    BY <2>1 DEF Fits
  <2>4. ASSUME NEW s \in Seq(SLinks), NEW d \in Semds
        PROVE  In(d, Objects(s)) <=> SLink(d) \in Range(s)
    <3>1. Range(s) = {s[i] : i \in 1..Len(s)} /\ Len(s) \in Nat
      BY RangeEquality
    <3>2. \A i \in 1..Len(s) : SLink(Container(s[i])) = s[i]
      BY LinksFacts
    <3>3. Len(Objects(s)) = Len(s) /\ \A i \in 1..Len(s) : Objects(s)[i] = Container(s[i])
      BY <3>1 DEF Objects
    <3> QED BY <3>1, <3>2, <3>3, StructsDiffer
  <2>5. Contents(SemdH) = Objects(a) /\ Contents(SemdFreeH) = Objects(f)
    BY <2>2, ObjectsOfLists
  <2>6. \A d \in Semds : In(d, Contents(SemdH)) <=> IsActive(Lists, d)
    BY <2>3, <2>4, <2>5 DEF IsActive
  <2>7. \A d \in Semds : In(d, Contents(SemdFreeH)) <=> SLink(d) \in Range(f)
    BY <2>3, <2>4, <2>5
  <2>8. Range(a) \cap Range(f) = {}
    BY <2>1, <2>2, ListsApart
  <2>9. \A d \in Semds : ListEmpty(links, SProcq(d)) <=> Lists[SProcq(d)] = <<>>
    BY <2>1, <2>2, HeldList
  <2>10. ASSUME NEW d \in Semds
         PROVE  /\ In(d, Contents(SemdH)) = ~In(d, Contents(SemdFreeH))
                /\ In(d, Contents(SemdH)) = ~ListEmpty(links, SProcq(d))
    <3>1. In(d, Contents(SemdH)) <=> IsActive(Lists, d)
      BY <2>6
    <3>2. In(d, Contents(SemdFreeH)) <=> ~IsActive(Lists, d)
      BY <2>1, <2>7, <2>8 DEF Fits, IsActive
    <3>3. ListEmpty(links, SProcq(d)) <=> ~IsActive(Lists, d)
      BY <2>1, <2>9 DEF Fits
    <3>4. /\ In(d, Contents(SemdH)) <=> ~In(d, Contents(SemdFreeH))
          /\ In(d, Contents(SemdH)) <=> ~ListEmpty(links, SProcq(d))
      BY <3>1, <3>2, <3>3
    <3> QED BY <3>4, Zenon DEF ListEmpty
  <2>11. ASSUME NEW i \in 1..Len(Contents(SemdH)), NEW j \in 1..Len(Contents(SemdH)),
                i < j
         PROVE  key[Contents(SemdH)[i]] < key[Contents(SemdH)[j]]
    <3>1. \A x, y \in 1..Len(a) : x < y => key[Container(a[x])] < key[Container(a[y])]
      BY <2>1 DEF Fits
    <3> HIDE DEF a
    <3>2. /\ Len(Contents(SemdH)) = Len(a)
          /\ \A x \in 1..Len(a) : Contents(SemdH)[x] = Container(a[x])
      BY <2>3, <2>5 DEF Objects
    <3> QED BY <2>11, <3>1, <3>2
  <2> QED BY <2>10, <2>11 DEF DescriptorsInOrder
<1> QED BY <1>1, IInvHolds, PTL

----------------------------------------------------------------------------
(* The map from keys to queues *)

\* The objects of a list with a struct more or less.
LEMMA ObjectsFacts ==
  ASSUME NEW s \in Seq(PLists)
  PROVE  /\ Objects(s) \in Seq(Pcbs) /\ Len(Objects(s)) = Len(s)
         /\ \A i \in 1..Len(s) : Objects(s)[i] = Container(s[i])
         /\ Objects(s) = <<>> <=> s = <<>>
         /\ \A p \in Pcbs : Objects(Append(s, PList(p))) = Append(Objects(s), p)
         /\ \A i \in 1..Len(s) : Objects(RemoveAt(s, i)) = RemoveAt(Objects(s), i)
<1>1. ASSUME NEW r \in Seq(PLists)
      PROVE  /\ Len(r) \in Nat /\ Objects(r) \in Seq(Pcbs) /\ Len(Objects(r)) = Len(r)
             /\ \A i \in 1..Len(r) : Objects(r)[i] = Container(r[i])
  <2>1. Len(r) \in Nat /\ \A i \in 1..Len(r) : Container(r[i]) \in Pcbs
    BY LinksFacts
  <2> QED BY <2>1 DEF Objects
<1>2. Objects(s) = <<>> <=> s = <<>>
  <2>1. Objects(s) = <<>> <=> Len(Objects(s)) = 0
    BY <1>1, EmptySeq
  <2>2. s = <<>> <=> Len(s) = 0
    BY EmptySeq
  <2> QED BY <1>1, <2>1, <2>2
<1>3. ASSUME NEW p \in Pcbs
      PROVE  Objects(Append(s, PList(p))) = Append(Objects(s), p)
  <2> DEFINE t == Append(s, PList(p))
             o == Append(Objects(s), p)
  <2>1. PList(p) \in PLists /\ Container(PList(p)) = p
    BY StructsDiffer DEF PLists
  <2>2. /\ t \in Seq(PLists) /\ Len(t) = Len(s)+1 /\ t[Len(s)+1] = PList(p)
        /\ \A i \in 1..Len(s) : t[i] = s[i]
    BY <2>1, AppendProperties
  <2>3. /\ o \in Seq(Pcbs) /\ Len(o) = Len(s)+1 /\ o[Len(s)+1] = p
        /\ \A i \in 1..Len(s) : o[i] = Container(s[i])
    BY <1>1, AppendProperties
  <2> HIDE DEF t, o
  <2>4. /\ Objects(t) \in Seq(Pcbs) /\ Len(Objects(t)) = Len(t)
        /\ \A i \in 1..Len(t) : Objects(t)[i] = Container(t[i])
    BY <1>1, <2>2
  <2>5. \A i \in 1..Len(t) : Objects(t)[i] = o[i]
    BY <1>1, <2>1, <2>2, <2>3, <2>4
  <2>6. Objects(t) = o
    BY <2>2, <2>3, <2>4, <2>5, SeqEqual
  <2> QED BY <2>6 DEF t, o
<1>4. ASSUME NEW i \in 1..Len(s)
      PROVE  Objects(RemoveAt(s, i)) = RemoveAt(Objects(s), i)
  <2> DEFINE t == RemoveAt(s, i)
             q == Objects(s)
             o == RemoveAt(q, i)
  <2>1. t \in Seq(PLists) /\ Removed(t, s, i)
    BY RemoveAtRemoves
  <2>2. q \in Seq(Pcbs) /\ Len(q) = Len(s) /\ \A j \in 1..Len(s) : q[j] = Container(s[j])
    BY <1>1
  <2> HIDE DEF q
  <2>3. o \in Seq(Pcbs) /\ Removed(o, q, i)
    BY <2>2, RemoveAtRemoves
  <2> HIDE DEF t, o
  <2>4. /\ Objects(t) \in Seq(Pcbs) /\ Len(Objects(t)) = Len(t)
        /\ \A j \in 1..Len(t) : Objects(t)[j] = Container(t[j])
    BY <1>1, <2>1
  <2>5. Len(s) \in Nat /\ Len(t) = Len(s)-1 /\ Len(o) = Len(s)-1
    BY <2>1, <2>2, <2>3 DEF Removed
  <2>6. ASSUME NEW j \in 1..Len(s)-1 PROVE Container(t[j]) = o[j]
    <3>1. /\ t[j] = IF j < i THEN s[j] ELSE s[j+1]
          /\ o[j] = IF j < i THEN q[j] ELSE q[j+1]
      BY <2>1, <2>2, <2>3 DEF Removed
    <3>2. j \in 1..Len(s) /\ j+1 \in 1..Len(s)
      BY <2>5
    <3> QED BY <2>2, <3>1, <3>2
  <2>7. Objects(t) = o
    BY <2>3, <2>4, <2>5, <2>6, SeqEqual
  <2> QED BY <2>7 DEF t, o, q
<1> QED BY <1>1, <1>2, <1>3, <1>4

\* QueueOf finds the queue of the descriptor whose key is k.
QueueRead ==
  \A k \in Keys :
    /\ \A d \in Semds : IsActive(Lists, d) /\ key[d] = k =>
         QueueOf(k) = Objects(Lists[SProcq(d)])
    /\ (\A d \in Semds : IsActive(Lists, d) => key[d] # k) => QueueOf(k) = <<>>

LEMMA QueuesAre == IInv => QueueRead
<1> SUFFICES ASSUME IInv, NEW k \in Keys
             PROVE  /\ \A d \in Semds : IsActive(Lists, d) /\ key[d] = k =>
                         QueueOf(k) = Objects(Lists[SProcq(d)])
                    /\ (\A d \in Semds : IsActive(Lists, d) => key[d] # k) =>
                         QueueOf(k) = <<>>
  BY DEF QueueRead
<1> DEFINE a == Lists[SemdH]
           active == Contents(SemdH)
           named == {i \in 1..Len(active) : key[active[i]] = k}
<1>1. Fits(Lists, key, semAdd)
  BY HeldBefore
<1>2. /\ Len(a) \in Nat
      /\ \A i \in 1..Len(a) :
           Container(a[i]) \in Semds /\ IsActive(Lists, Container(a[i]))
      /\ \A d \in Semds : IsActive(Lists, d) =>
           \E i \in 1..Len(a) : Container(a[i]) = d
      /\ \A d, e \in Semds :
           IsActive(Lists, d) /\ IsActive(Lists, e) /\ key[d] = key[e] => d = e
  BY <1>1, ActiveFacts
<1>3. Len(active) = Len(a) /\ \A i \in 1..Len(a) : active[i] = Container(a[i])
  BY <1>2, ObjectsOfLists DEF Objects, Heads
<1>4. \A d \in Semds : SProcq(d) \in Heads
  BY DEF Heads
<1>5. ASSUME NEW d \in Semds, IsActive(Lists, d), key[d] = k
      PROVE  QueueOf(k) = Objects(Lists[SProcq(d)])
  <2> DEFINE c == CHOOSE i \in named : TRUE
  <2>1. named # {}
    BY <1>2, <1>3, <1>5
  <2>2. c \in 1..Len(a) /\ key[active[c]] = k
    BY <1>3, <2>1
  <2>3. QueueOf(k) = Contents(SProcq(active[c]))
    BY <2>1 DEF QueueOf
  <2> HIDE DEF c
  <2>4. active[c] = d
    BY <1>2, <1>3, <1>5, <2>2
  <2> QED BY <1>4, <2>3, <2>4, ObjectsOfLists
<1>6. ASSUME \A d \in Semds : IsActive(Lists, d) => key[d] # k
      PROVE  QueueOf(k) = <<>>
  <2>1. named = {}
    BY <1>2, <1>3, <1>6
  <2> QED BY <2>1 DEF QueueOf
<1> QED BY <1>5, <1>6

QueueMap == [k \in Keys |-> QueueOf(k)]

\* The queues that a step leaves alone.
LEMMA OthersStay ==
  ASSUME IInv, IInv', NEW k \in Keys, NEW d \in Semds,
         IsActive(Lists, d) => key[d] = k, key'[d] = k,
         \A e \in Semds : e # d => key'[e] = key[e],
         \A e \in Semds : e # d => Lists'[SProcq(e)] = Lists[SProcq(e)]
  PROVE  \A j \in Keys : j # k => QueueOf(j)' = QueueOf(j)
<1> SUFFICES ASSUME NEW j \in Keys, j # k PROVE QueueOf(j)' = QueueOf(j)
  OBVIOUS
<1>1. QueueRead
  BY QueuesAre
<1>2. IInv' => QueueRead'
  BY QueuesAre, PTL
<1>3. Fits(Lists, key, semAdd) /\ Fits(Lists', key', semAdd')
  BY DEF IInv
<1>4. ASSUME NEW e \in Semds
      PROVE  IsActive(Lists', e) /\ key'[e] = j <=> IsActive(Lists, e) /\ key[e] = j
  <2>1. IsActive(Lists, e) <=> Lists[SProcq(e)] # <<>>
    BY <1>3 DEF Fits
  <2>2. IsActive(Lists', e) <=> Lists'[SProcq(e)] # <<>>
    BY <1>3 DEF Fits
  <2> QED BY <2>1, <2>2
<1>5. CASE \E e \in Semds : IsActive(Lists, e) /\ key[e] = j
  <2>1. PICK e \in Semds : IsActive(Lists, e) /\ key[e] = j
    BY <1>5
  <2>2. QueueOf(j) = Objects(Lists[SProcq(e)])
    BY <1>1, <2>1 DEF QueueRead
  <2>3. QueueOf(j)' = Objects(Lists'[SProcq(e)])
    BY <1>2, <1>4, <2>1 DEF QueueRead
  <2> QED BY <2>1, <2>2, <2>3
<1>6. CASE \A e \in Semds : IsActive(Lists, e) => key[e] # j
  <2>1. QueueOf(j) = <<>>
    BY <1>1, <1>6 DEF QueueRead
  <2>2. QueueOf(j)' = <<>>
    BY <1>2, <1>4, <1>6 DEF QueueRead
  <2> QED BY <2>1, <2>2
<1> QED BY <1>5, <1>6

\* Each queue of the map is that of an active descriptor, or empty.
LEMMA MapFacts ==
  ASSUME IInv
  PROVE  /\ \A d \in Semds : IsActive(Lists, d) =>
              /\ key[d] \in Keys /\ Lists[SProcq(d)] \in Seq(PLists)
              /\ Lists[SProcq(d)] # <<>>
              /\ QueueMap[key[d]] = Objects(Lists[SProcq(d)])
         /\ \A k \in Keys : QueueMap[k] # <<>> =>
              \E d \in Semds : IsActive(Lists, d) /\ key[d] = k
         /\ \A k \in Keys : QueueMap[k] \in Seq(Pcbs)
<1>1. QueueRead
  BY QueuesAre
<1>2. ASSUME NEW d \in Semds, IsActive(Lists, d)
      PROVE  /\ key[d] \in Keys /\ Lists[SProcq(d)] \in Seq(PLists)
             /\ Lists[SProcq(d)] # <<>>
  BY <1>2 DEF IInv, Fits
<1>3. ASSUME NEW d \in Semds, IsActive(Lists, d)
      PROVE  QueueMap[key[d]] = Objects(Lists[SProcq(d)])
  BY <1>1, <1>2, <1>3 DEF QueueRead, QueueMap
<1>4. ASSUME NEW k \in Keys, \A d \in Semds : IsActive(Lists, d) => key[d] # k
      PROVE  QueueMap[k] = <<>>
  BY <1>1, <1>4 DEF QueueRead, QueueMap
<1>5. ASSUME NEW k \in Keys PROVE QueueMap[k] \in Seq(Pcbs)
  <2>1. CASE \E d \in Semds : IsActive(Lists, d) /\ key[d] = k
    BY <1>2, <1>3, <2>1, ObjectsFacts
  <2>2. CASE \A d \in Semds : IsActive(Lists, d) => key[d] # k
    BY <1>4, <2>2, EmptySeq
  <2> QED BY <2>1, <2>2
<1> QED BY <1>2, <1>3, <1>4, <1>5

\* A process that joins the queue of a descriptor joins that of its key.
LEMMA GetsAppends ==
  ASSUME IInv, IInv', NEW k \in Keys, NEW p \in Pcbs, NEW d \in Semds, Gets(d, p, k)
  PROVE  QueueMap' = [QueueMap EXCEPT ![k] = Append(QueueMap[k], p)]
<1> DEFINE q == Lists[SProcq(d)]
           t == Append(q, PList(p))
<1>1. QueueRead
  BY QueuesAre
<1>2. IInv' => QueueRead'
  BY QueuesAre, PTL
<1>3. Fits(Lists, key, semAdd) /\ Fits(Lists', key', semAdd')
      /\ key \in [Semds -> Keys \cup {NULL}]
  BY DEF IInv
<1>4. /\ key'[d] = k /\ \A e \in Semds : e # d => key'[e] = key[e]
      /\ IF IsActive(Lists, d) THEN key[d] = k
         ELSE \A e \in Semds : IsActive(Lists, e) => key[e] # k
      /\ Lists'[SProcq(d)] = t
      /\ \A e \in Semds : e # d => Lists'[SProcq(e)] = Lists[SProcq(e)]
  BY <1>3 DEF Gets
<1>5. q \in Seq(PLists) /\ (IsActive(Lists, d) <=> q # <<>>)
  BY <1>3 DEF Fits
<1>6. t # <<>>
  <2>1. PList(p) \in PLists
    BY DEF PLists
  <2> HIDE DEF q
  <2> QED BY <1>5, <2>1, AppendResult
<1> HIDE DEF t
<1>7. QueueOf(k) = Objects(q)
  <2>1. CASE IsActive(Lists, d)
    BY <1>1, <1>4, <2>1 DEF QueueRead
  <2>2. CASE ~IsActive(Lists, d)
    <3>1. QueueOf(k) = <<>>
      BY <1>1, <1>4, <2>2 DEF QueueRead
    <3> QED BY <1>5, <2>2, <3>1, ObjectsFacts
  <2> QED BY <2>1, <2>2
<1>8. QueueOf(k)' = Append(QueueOf(k), p)
  <2>1. IsActive(Lists', d)
    BY <1>3, <1>4, <1>6 DEF Fits
  <2>2. QueueOf(k)' = Objects(t)
    BY <1>2, <1>4, <2>1 DEF QueueRead
  <2>3. Objects(t) = Append(Objects(q), p)
    <3> HIDE DEF q
    <3> QED BY <1>5, ObjectsFacts DEF t
  <2> QED BY <1>7, <2>2, <2>3
<1>9. \A j \in Keys : j # k => QueueOf(j)' = QueueOf(j)
  BY <1>4, OthersStay
<1> QED BY <1>8, <1>9 DEF QueueMap

\* A process that leaves the queue of a descriptor leaves that of its key.
LEMMA LosesRemoves ==
  ASSUME IInv, IInv', NEW d \in Semds, IsActive(Lists, d),
         NEW i \in 1..Len(Lists[SProcq(d)]), Loses(d, i),
         NEW k \in Keys, key[d] = k
  PROVE  QueueMap' = [QueueMap EXCEPT ![k] = RemoveAt(QueueMap[k], i)]
<1> DEFINE q == Lists[SProcq(d)]
           t == RemoveAt(q, i)
<1>1. QueueRead
  BY QueuesAre
<1>2. IInv' => QueueRead'
  BY QueuesAre, PTL
<1>3. Fits(Lists, key, semAdd) /\ Fits(Lists', key', semAdd')
  BY DEF IInv
<1>4. /\ key' = key /\ Lists'[SProcq(d)] = t
      /\ \A e \in Semds : e # d => Lists'[SProcq(e)] = Lists[SProcq(e)]
  BY DEF Loses
<1>5. q \in Seq(PLists)
  BY <1>3 DEF Fits
<1> HIDE DEF t
<1>6. QueueOf(k) = Objects(q)
  BY <1>1, <1>5 DEF QueueRead
<1>7. Objects(t) = RemoveAt(Objects(q), i) /\ t \in Seq(PLists)
  <2>1. i \in 1..Len(q)
    OBVIOUS
  <2> HIDE DEF q
  <2> QED BY <1>5, <2>1, ObjectsFacts, RemoveAtRemoves DEF t
<1>8. QueueOf(k)' = Objects(t)
  <2>1. CASE IsActive(Lists', d)
    <3>1. key'[d] = k
      BY <1>4
    <3> QED BY <1>2, <1>4, <1>5, <2>1, <3>1 DEF QueueRead
  <2>2. CASE ~IsActive(Lists', d)
    <3>1. t = <<>>
      BY <1>3, <1>4, <2>2 DEF Fits
    <3>2. Objects(t) = <<>>
      BY <1>7, <3>1, ObjectsFacts
    <3>3. ASSUME NEW e \in Semds, IsActive(Lists', e) PROVE key'[e] # k
      <4>1. e # d
        BY <2>2, <3>3
      <4>2. IsActive(Lists, e)
        <5>1. Lists'[SProcq(e)] # <<>>
          BY <1>3, <3>3 DEF Fits
        <5> QED BY <1>3, <1>4, <4>1, <5>1 DEF Fits
      <4> QED BY <1>3, <1>4, <4>1, <4>2, ActiveFacts
    <3>4. QueueOf(k)' = <<>>
      BY <1>2, <1>5, <3>3 DEF QueueRead
    <3> QED BY <3>2, <3>4
  <2> QED BY <2>1, <2>2
<1>9. \A j \in Keys : j # k => QueueOf(j)' = QueueOf(j)
  BY <1>4, <1>5, OthersStay
<1> QED BY <1>6, <1>7, <1>8, <1>9 DEF QueueMap

LEMMA StutterKeepsMap ==
  ASSUME UNCHANGED <<links, key, semAdd>>
  PROVE  QueueMap' = QueueMap
BY DEF QueueMap, QueueOf, Contents

----------------------------------------------------------------------------
(* The refinement *)

InUse == {k \in Keys : QueueMap[k] # <<>>}

LEMMA InUseAreActive ==
  ASSUME IInv, NEW k \in Keys
  PROVE  k \in InUse <=> \E d \in Semds : IsActive(Lists, d) /\ key[d] = k
<1>1. ASSUME NEW d \in Semds, IsActive(Lists, d), key[d] = k PROVE QueueMap[k] # <<>>
  <2>1. /\ Lists[SProcq(d)] \in Seq(PLists) /\ Lists[SProcq(d)] # <<>>
        /\ QueueMap[k] = Objects(Lists[SProcq(d)])
    BY <1>1, MapFacts
  <2> QED BY <2>1, ObjectsFacts
<1>2. QueueMap[k] # <<>> => \E d \in Semds : IsActive(Lists, d) /\ key[d] = k
  BY MapFacts
<1> QED BY <1>1, <1>2 DEF InUse

\* As many keys are in use as descriptors are active: the free list is empty
\* exactly when all of the pool is used.
LEMMA PoolInUse ==
  ASSUME IInv
  PROVE  /\ Cardinality(InUse) \in Nat /\ Cardinality(InUse) <= PoolSize
         /\ Cardinality(InUse) = PoolSize <=> Lists[SemdFreeH] = <<>>
<1> DEFINE A == {d \in Semds : IsActive(Lists, d)}
           f == [d \in A |-> key[d]]
<1>1. Fits(Lists, key, semAdd) /\ Holds(links, Structs, Lists) /\ DOMAIN Lists = Heads
  BY HeldBefore
<1>2. f \in Bijection(A, InUse)
  <2>1. \A d, e \in A : key[d] = key[e] => d = e
    BY <1>1, ActiveFacts
  <2>2. \A d \in A : key[d] \in Keys
    BY <1>1 DEF Fits
  <2>3. \A d \in A : key[d] \in InUse
    BY <2>2, InUseAreActive
  <2>4. \A k \in InUse : \E d \in A : key[d] = k
    BY InUseAreActive DEF InUse
  <2> HIDE DEF A
  <2>5. f \in [A -> InUse] /\ \A d \in A : f[d] = key[d]
    BY <2>3
  <2>6. f \in Injection(A, InUse)
    BY <2>1, <2>5 DEF Injection, IsInjective
  <2>7. f \in Surjection(A, InUse)
    BY <2>4, <2>5 DEF Surjection
  <2> QED BY <2>6, <2>7 DEF Bijection
<1>3. IsFiniteSet(Semds) /\ Cardinality(Semds) = PoolSize
  <2>1. PoolSize \in Nat /\ PoolSize >= 1
    BY PoolAssumption
  <2>2. 1 \in Int /\ PoolSize \in Int /\ ~(1 > PoolSize) /\ PoolSize-1+1 = PoolSize
    BY <2>1
  <2> QED BY <2>2, FS_Interval DEF Semds
<1>4. A \in SUBSET Semds
  OBVIOUS
<1>5. IsFiniteSet(A) /\ Cardinality(A) <= PoolSize
      /\ (Cardinality(Semds) = Cardinality(A) => Semds = A)
  <2> HIDE DEF A
  <2> QED BY <1>3, <1>4, FS_Subset
<1>6. Cardinality(InUse) = Cardinality(A) /\ Cardinality(A) \in Nat
  <2> HIDE DEF A, f
  <2>1. ExistsBijection(A, InUse)
    BY <1>2 DEF ExistsBijection
  <2> QED BY <1>5, <2>1, FS_Bijection, FS_CardinalityType
<1>7. A = Semds <=> Lists[SemdFreeH] = <<>>
  <2> DEFINE s == Lists[SemdFreeH]
  <2>1. s \in Seq(SLinks)
    BY <1>1 DEF Fits
  <2>2. Range(s) = {s[i] : i \in 1..Len(s)} /\ Len(s) \in Nat /\ (s = <<>> <=> Len(s) = 0)
    <3> HIDE DEF s
    <3> QED BY <2>1, RangeEquality, EmptySeq
  <2>3. ASSUME s # <<>> PROVE A # Semds
    <3>1. 1 \in 1..Len(s)
      BY <2>2, <2>3
    <3>2. s[1] \in Range(s) /\ Container(s[1]) \in Semds /\ SLink(Container(s[1])) = s[1]
      BY <2>1, <2>2, <3>1, LinksFacts
    <3>3. Range(Lists[SemdH]) \cap Range(s) = {}
      BY <1>1, ListsApart, StructsDiffer DEF Heads
    <3>4. ~IsActive(Lists, Container(s[1]))
      BY <3>2, <3>3 DEF IsActive
    <3> QED BY <3>2, <3>4
  <2>4. ASSUME s = <<>> PROVE A = Semds
    <3>1. Range(s) = {}
      BY <2>2, <2>4
    <3> QED BY <1>1, <3>1 DEF Fits
  <2> QED BY <2>3, <2>4
<1> QED BY <1>3, <1>5, <1>6, <1>7

\* A process waits in a queue of the map when it does in that of a descriptor.
LEMMA BlockedIsLinked ==
  ASSUME IInv, NEW k \in Keys, NEW i \in 1..Len(QueueMap[k])
  PROVE  /\ k \in InUse
         /\ PList(QueueMap[k][i]) \in UNION {Range(Lists[SProcq(d)]) : d \in Semds}
<1>1. QueueMap[k] # <<>>
  <2>1. \A e : e = <<>> => Len(e) = 0
    OBVIOUS
  <2> QED BY <2>1
<1>2. PICK d \in Semds : IsActive(Lists, d) /\ key[d] = k
  BY <1>1, MapFacts
<1> DEFINE q == Lists[SProcq(d)]
<1>3. q \in Seq(PLists) /\ QueueMap[k] = Objects(q)
  BY <1>2, MapFacts
<1>4. i \in 1..Len(q) /\ QueueMap[k][i] = Container(q[i])
  BY <1>3, ObjectsFacts
<1>5. PList(Container(q[i])) = q[i] /\ q[i] \in Range(q)
  <2>1. Range(q) = {q[j] : j \in 1..Len(q)}
    BY <1>3, RangeEquality
  <2> HIDE DEF q
  <2> QED BY <1>3, <1>4, <2>1, LinksFacts
<1> QED BY <1>1, <1>2, <1>4, <1>5 DEF InUse

\* The instance has a Cardinality of its own, with the same definition.
LEMMA SameCardinality == \A S : Map!Cardinality(S) = Cardinality(S)
BY DEF Map!Cardinality, Cardinality

LEMMA InsertRefines ==
  ASSUME IInv, NEW k \in Keys, NEW p \in Pcbs, InsertBlocked(k, p)
  PROVE  Map!Insert(k, p)
<1>1. /\ Map!InUse = InUse
      /\ Map!Blocked(p) <=>
           \E j \in Keys : \E i \in 1..Len(QueueMap[j]) : QueueMap[j][i] = p
  BY DEF Map!InUse, Map!Blocked, InUse, QueueMap
<1>2. /\ Cardinality(InUse) \in Nat /\ Cardinality(InUse) <= PoolSize
      /\ Cardinality(InUse) = PoolSize <=> Lists[SemdFreeH] = <<>>
  BY PoolInUse
<1>3. PoolSize \in Nat
  BY PoolAssumption
<1>4. CASE /\ Alone(links, PList(p)) /\ result' = FALSE
           /\ \E d \in Semds :
                Gets(d, p, k) /\ (IsActive(Lists, d) \/ Lists[SemdFreeH] # <<>>)
  <2>1. PICK d \in Semds :
          Gets(d, p, k) /\ (IsActive(Lists, d) \/ Lists[SemdFreeH] # <<>>)
    BY <1>4
  <2>2. IInv'
    BY InsertBlockedDoes
  <2>3. QueueMap' = [QueueMap EXCEPT ![k] = Append(QueueMap[k], p)]
    BY <2>1, <2>2, GetsAppends
  <2>4. k \in InUse \/ Cardinality(InUse) < PoolSize
    <3>1. CASE IsActive(Lists, d)
      <4>1. key[d] = k
        BY <2>1, <3>1 DEF Gets
      <4> QED BY <3>1, <4>1, InUseAreActive
    <3>2. CASE Lists[SemdFreeH] # <<>>
      BY <1>2, <1>3, <3>2
    <3> QED BY <2>1, <3>1, <3>2
  <2>5. ~Map!Blocked(p)
    <3>1. Loose(Lists, PList(p))
      BY <1>4, HeldBefore, StructsDiffer, AloneIsLoose
    <3>2. \A d1 \in Semds : PList(p) \notin Range(Lists[SProcq(d1)])
      BY <3>1, HeldBefore DEF Loose, Heads
    <3> QED BY <1>1, <3>2, BlockedIsLinked
  <2> QED BY <1>1, <1>4, <2>3, <2>4, <2>5, SameCardinality DEF Map!Insert, QueueMap
<1>5. CASE /\ Lists[SemdFreeH] = <<>> /\ result' = TRUE
           /\ \A d \in Semds : IsActive(Lists, d) => key[d] # k
           /\ UNCHANGED <<links, key, semAdd>>
  <2>1. k \notin InUse /\ Cardinality(InUse) = PoolSize
    BY <1>2, <1>5, InUseAreActive
  <2>2. QueueMap' = QueueMap
    BY <1>5, StutterKeepsMap
  <2> QED BY <1>1, <1>5, <2>1, <2>2, SameCardinality
       DEF Map!Insert, QueueMap
<1> QED BY <1>4, <1>5, InsertBlockedDoes

\* The library's RemoveAt of the first element is Tail.
LEMMA FirstRemoved ==
  ASSUME NEW S, NEW q \in Seq(S), q # <<>>
  PROVE  RemoveAt(q, 1) = Tail(q) /\ q[1] = Head(q) /\ 1 \in 1..Len(q)
<1>1. Len(q) \in Nat \ {0}
  BY EmptySeq
<1>2. SubSeq(q, 1, 1-1) = <<>>
  BY SubSeqEmpty
<1>3. Tail(q) = SubSeq(q, 2, Len(q)) /\ Tail(q) \in Seq(S)
  BY TailIsSubSeq, HeadTailProperties
<1>4. <<>> \o Tail(q) = Tail(q)
  BY <1>3, ConcatEmptySeq
<1>5. RemoveAt(q, 1) = SubSeq(q, 1, 1-1) \o SubSeq(q, 1+1, Len(q))
  BY DEF RemoveAt
<1>6. RemoveAt(q, 1) = Tail(q)
  BY <1>2, <1>3, <1>4, <1>5
<1> QED BY <1>1, <1>6

LEMMA RemoveRefines ==
  ASSUME IInv, NEW k \in Keys, RemoveBlocked(k)
  PROVE  Map!Remove(k)
<1>1. Map!InUse = InUse
  BY DEF Map!InUse, InUse, QueueMap
<1>2. ASSUME NEW d \in Semds, IsActive(Lists, d), key[d] = k, Loses(d, 1),
             1 \in 1..Len(Lists[SProcq(d)]),
             result' = Container(Lists[SProcq(d)][1])
      PROVE  Map!Remove(k)
  <2> DEFINE q == QueueMap[k]
  <2>1. IInv'
    BY RemoveBlockedDoes
  <2>2. k \in InUse /\ q \in Seq(Pcbs) /\ q # <<>>
    BY <1>2, InUseAreActive, MapFacts DEF InUse
  <2>3. QueueMap' = [QueueMap EXCEPT ![k] = RemoveAt(QueueMap[k], 1)]
    BY <1>2, <2>1, LosesRemoves
  <2>4. RemoveAt(q, 1) = Tail(q) /\ q[1] = Head(q)
    <3> HIDE DEF q
    <3> QED BY <2>2, FirstRemoved
  <2>5. result' = q[1]
    <3>1. Lists[SProcq(d)] \in Seq(PLists) /\ q = Objects(Lists[SProcq(d)])
      BY <1>2, MapFacts
    <3> QED BY <1>2, <3>1, ObjectsFacts
  <2> QED BY <1>1, <2>2, <2>3, <2>4, <2>5 DEF Map!Remove, QueueMap
<1>3. ASSUME \A d \in Semds : IsActive(Lists, d) => key[d] # k,
             result' = NULL, UNCHANGED <<links, key, semAdd>>
      PROVE  Map!Remove(k)
  <2>1. k \notin InUse
    BY <1>3, InUseAreActive
  <2>2. QueueMap' = QueueMap
    BY <1>3, StutterKeepsMap
  <2> QED BY <1>1, <1>3, <2>1, <2>2 DEF Map!Remove, QueueMap
<1> QED BY <1>2, <1>3, RemoveBlockedDoes

LEMMA HeadRefines ==
  ASSUME IInv, NEW k \in Keys, HeadBlocked(k)
  PROVE  Map!Peek(k)
<1>1. Map!InUse = InUse
  BY DEF Map!InUse, InUse, QueueMap
<1>2. QueueMap' = QueueMap
  BY StutterKeepsMap DEF HeadBlocked
<1>3. \/ /\ GetSemd(k) \in Semds /\ IsActive(Lists, GetSemd(k))
         /\ key[GetSemd(k)] = k
      \/ GetSemd(k) = NULL /\ \A d \in Semds : IsActive(Lists, d) => key[d] # k
  BY SearchFinds DEF Searched
<1>4. result' = IF k \in InUse THEN Head(QueueMap[k]) ELSE NULL
  <2>1. CASE GetSemd(k) = NULL
    <3>1. k \notin InUse
      BY <1>3, <2>1, SemdsFacts, InUseAreActive
    <3> QED BY <2>1, <3>1 DEF HeadBlocked
  <2>2. CASE GetSemd(k) # NULL
    <3> DEFINE d == GetSemd(k)
               q == Lists[SProcq(d)]
    <3>1. d \in Semds /\ IsActive(Lists, d) /\ key[d] = k
      BY <1>3, <2>2
    <3>2. result' = Container(links.next[SProcq(d)])
      BY <2>2 DEF HeadBlocked
    <3> HIDE DEF d
    <3>3. /\ q \in Seq(PLists) /\ q # <<>>
          /\ QueueMap[k] = Objects(q) /\ k \in InUse
      BY <3>1, MapFacts, InUseAreActive
    <3>4. links.next[SProcq(d)] = q[1]
      <4>1. Holds(links, Structs, Lists) /\ SProcq(d) \in DOMAIN Lists
        BY <3>1, HeldBefore DEF Heads
      <4> QED BY <3>3, <4>1, HeldList
    <3> DEFINE o == QueueMap[k]
    <3>5. o \in Seq(Pcbs) /\ o # <<>> /\ o[1] = Container(q[1])
      <4> HIDE DEF q
      <4>1. 1 \in 1..Len(q)
        BY <3>3, EmptySeq
      <4> QED BY <3>3, <4>1, ObjectsFacts
    <3>6. Head(o) = o[1]
      <4> HIDE DEF o
      <4> QED BY <3>5, FirstRemoved
    <3> QED BY <3>2, <3>3, <3>4, <3>5, <3>6
  <2> QED BY <2>1, <2>2
<1> QED BY <1>1, <1>2, <1>4 DEF Map!Peek, QueueMap

LEMMA OutRefines ==
  ASSUME IInv, NEW p \in Pcbs, OutBlocked(p)
  PROVE  Map!Out(p)
<1>1. Map!Blocked(p) <=>
        \E j \in Keys : \E i \in 1..Len(QueueMap[j]) : QueueMap[j][i] = p
  BY DEF Map!Blocked, QueueMap
<1>2. ASSUME NEW d \in Semds, NEW i \in 1..Len(Lists[SProcq(d)]),
             IsActive(Lists, d), Lists[SProcq(d)][i] = PList(p),
             Loses(d, i), result' = p
      PROVE  Map!Out(p)
  <2>1. IInv'
    BY OutBlockedDoes
  <2>2. PICK k \in Keys : key[d] = k
    BY <1>2, MapFacts
  <2>3. QueueMap' = [QueueMap EXCEPT ![k] = RemoveAt(QueueMap[k], i)]
    BY <1>2, <2>1, <2>2, LosesRemoves
  <2>4. i \in 1..Len(QueueMap[k]) /\ QueueMap[k][i] = p
    <3>1. /\ Lists[SProcq(d)] \in Seq(PLists)
          /\ QueueMap[k] = Objects(Lists[SProcq(d)])
      BY <1>2, <2>2, MapFacts
    <3> DEFINE q == Lists[SProcq(d)]
    <3>2. q \in Seq(PLists) /\ i \in 1..Len(q) /\ q[i] = PList(p)
      BY <1>2, <3>1
    <3>3. QueueMap[k] = Objects(q)
      BY <3>1
    <3> HIDE DEF q
    <3>4. i \in 1..Len(Objects(q)) /\ Objects(q)[i] = Container(q[i])
      BY <3>2, ObjectsFacts
    <3> QED BY <3>2, <3>3, <3>4, StructsDiffer
  <2>5. RemoveAt(QueueMap[k], i) =
          SubSeq(QueueMap[k], 1, i-1) \o SubSeq(QueueMap[k], i+1, Len(QueueMap[k]))
    BY DEF RemoveAt
  <2>6. \E kk \in Keys : \E ii \in 1..Len(QueueMap[kk]) :
          /\ QueueMap[kk][ii] = p
          /\ QueueMap' = [QueueMap EXCEPT ![kk] =
                            SubSeq(@, 1, ii-1) \o SubSeq(@, ii+1, Len(@))]
          /\ result' = p
    BY <1>2, <2>3, <2>4, <2>5
  <2> QED BY <2>6 DEF Map!Out, QueueMap
<1>3. ASSUME \A d \in Semds : PList(p) \notin Range(Lists[SProcq(d)]),
             result' = NULL, UNCHANGED <<links, key, semAdd>>
      PROVE  Map!Out(p)
  <2>1. ~Map!Blocked(p)
    BY <1>1, <1>3, BlockedIsLinked
  <2>2. QueueMap' = QueueMap
    BY <1>3, StutterKeepsMap
  <2> QED BY <1>3, <2>1, <2>2 DEF Map!Out, QueueMap
<1> QED BY <1>2, <1>3, OutBlockedDoes

\* Whatever the pool, the pointers implement a map from keys to queues.
THEOREM MapImplemented == Spec => IsMapOfQueues
<1>1. Init => Map!Init
  <2> SUFFICES ASSUME Init PROVE Map!Init
    OBVIOUS
  <2>1. IInv /\ Lists[SemdH] = <<>>
    BY Initially
  <2>2. \A d \in Semds : ~IsActive(Lists, d)
    <3>1. \A e : e = <<>> => e \in Seq({}) /\ Len(e) = 0
      OBVIOUS
    <3>2. ASSUME NEW e, e = <<>> PROVE Range(e) = {}
      <4>1. Range(e) = {e[i] : i \in 1..Len(e)}
        BY <3>1, <3>2, RangeEquality
      <4> QED BY <3>1, <3>2, <4>1
    <3> QED BY <2>1, <3>2 DEF IsActive
  <2>3. \A k \in Keys : QueueOf(k) = <<>>
    BY <2>1, <2>2, QueuesAre DEF QueueRead
  <2> QED BY <2>3 DEF Map!Init, Init
<1>2. IInv /\ [Next]_vars => [Map!Next]_Map!vars
  <2> SUFFICES ASSUME IInv, [Next]_vars PROVE [Map!Next]_Map!vars
    OBVIOUS
  <2>1. ASSUME NEW k \in Keys, NEW p \in Pcbs, InsertBlocked(k, p) PROVE Map!Next
    BY <2>1, InsertRefines DEF Map!Next
  <2>2. ASSUME NEW k \in Keys, RemoveBlocked(k) PROVE Map!Next
    BY <2>2, RemoveRefines DEF Map!Next
  <2>3. ASSUME NEW k \in Keys, HeadBlocked(k) PROVE Map!Next
    BY <2>3, HeadRefines DEF Map!Next
  <2>4. ASSUME NEW p \in Pcbs, OutBlocked(p) PROVE Map!Next
    BY <2>4, OutRefines DEF Map!Next
  <2>5. ASSUME UNCHANGED vars PROVE UNCHANGED Map!vars
    <3>1. QueueMap' = QueueMap /\ result' = result
      BY <2>5, StutterKeepsMap DEF vars
    <3> QED BY <3>1 DEF Map!vars, QueueMap
  <2> QED BY <2>1, <2>2, <2>3, <2>4, <2>5 DEF Next
<1> QED BY <1>1, <1>2, IInvHolds, PTL DEF Spec, IsMapOfQueues, Map!Spec
============================================================================
