----------------------------- MODULE TreeProofs -----------------------------
(***************************************************************************)
(* For any number of PCBs, the pointers of the process tree and p_parent   *)
(* agree, findPcbByPid finds whom it is asked for, and a termination takes *)
(* its recursion to whole lists and leaves whole lists behind.             *)
(***************************************************************************)
EXTENDS Tree, ListsProofs

Heads == {PcbFreeH} \cup {PChild(p) : p \in Pcbs}
PLists == {PList(p) : p \in Pcbs}
PSibs == {PSib(p) : p \in Pcbs}

\* Every list of the module, by its head.
Lists == [h \in Heads |-> Elements(links, h)]

IsFree(L, p) == PList(p) \in Range(L[PcbFreeH])

\* The lists L agree with the parents par: a process is in the list of its
\* parent, and in no other; a free PCB is outside of the tree.
Linked(L, par) ==
  /\ L[PcbFreeH] \in Seq(PLists)
  /\ \A p \in Pcbs : L[PChild(p)] \in Seq(PSibs)
  /\ \A p, c \in Pcbs : PSib(c) \in Range(L[PChild(p)]) <=> par[c] = p
  /\ \A p \in Pcbs : IsFree(L, p) => par[p] = NULL /\ L[PChild(p)] = <<>>

\* The pids pd were given in order, below nx: of parents before children, of
\* children from the first to the last, and to no two processes.
Numbered(L, par, pd, nx) ==
  /\ \A p \in Pcbs : pd[p] < nx
  /\ \A p \in Pcbs : ~IsFree(L, p) => pd[p] >= 1
  /\ \A p, q \in Pcbs :
       ~IsFree(L, p) /\ ~IsFree(L, q) /\ pd[p] = pd[q] => p = q
  /\ \A c \in Pcbs : par[c] # NULL => pd[par[c]] < pd[c]
  /\ \A p \in Pcbs : \A i, j \in 1..Len(L[PChild(p)]) :
       i < j => pd[L[PChild(p)][i][2]] < pd[L[PChild(p)][j][2]]

\* The processes without parent are those being terminated and at most one
\* more.
Rooted(L, par, cs) ==
  /\ NoRepetition(cs)
  /\ \A i \in 1..Len(cs) : ~IsFree(L, cs[i]) /\ par[cs[i]] = NULL
  /\ \A p, q \in Pcbs :
       /\ ~IsFree(L, p) /\ par[p] = NULL /\ p \notin Range(cs)
       /\ ~IsFree(L, q) /\ par[q] = NULL /\ q \notin Range(cs)
       => p = q

\* The inductive invariant.
IInv ==
  /\ TypeOK
  /\ Holds(links, Structs, Lists)
  /\ Linked(Lists, parent)
  /\ Numbered(Lists, parent, pid, nextPid)
  /\ Rooted(Lists, parent, calls)

----------------------------------------------------------------------------
(* Structs and sequences of them *)

LEMMA PcbsFacts ==
  /\ Pcbs \subseteq Nat /\ NULL \notin Pcbs /\ MaxProc \in Pcbs
  /\ IsFiniteSet(Pcbs) /\ Cardinality(Pcbs) = MaxProc
<1>1. MaxProc \in Nat /\ MaxProc >= 1
  BY MaxProcAssumption
<1>2. 1 \in Int /\ MaxProc \in Int /\ ~(1 > MaxProc) /\ MaxProc-1+1 = MaxProc
  BY <1>1
<1>3. IsFiniteSet(Pcbs) /\ Cardinality(Pcbs) = MaxProc
  BY <1>2, FS_Interval DEF Pcbs
<1> QED BY <1>1, <1>3 DEF Pcbs, NULL

\* Structs of different kinds, or of different PCBs, are different.
LEMMA StructsDiffer ==
  /\ \A p \in Pcbs : PList(p) \in Structs \ Heads /\ PList(p)[2] = p
  /\ \A p \in Pcbs : PSib(p) \in Structs \ Heads /\ PSib(p)[2] = p
  /\ \A p \in Pcbs : PChild(p) \in Heads /\ PChild(p) # PcbFreeH
  /\ PcbFreeH \in Heads /\ Heads \subseteq Structs
  /\ \A p, q \in Pcbs : PList(p) # PSib(q)
  /\ \A p, q \in Pcbs : PList(p) = PList(q) => p = q
  /\ \A p, q \in Pcbs : PSib(p) = PSib(q) => p = q
  /\ \A p, q \in Pcbs : PChild(p) = PChild(q) => p = q
BY DEF PList, PChild, PSib, PcbFreeH, Heads, Structs

LEMMA StructsFinite == IsFiniteSet(Structs)
<1>1. IsFiniteSet(PLists)
  <2> DEFINE f == [p \in Pcbs |-> PList(p)]
  <2>1. f \in Surjection(Pcbs, PLists)
    BY DEF PLists, Surjection
  <2> HIDE DEF f
  <2> QED BY <2>1, PcbsFacts, FS_Surjection
<1>2. IsFiniteSet(PSibs)
  <2> DEFINE f == [p \in Pcbs |-> PSib(p)]
  <2>1. f \in Surjection(Pcbs, PSibs)
    BY DEF PSibs, Surjection
  <2> HIDE DEF f
  <2> QED BY <2>1, PcbsFacts, FS_Surjection
<1> DEFINE c == {PChild(p) : p \in Pcbs}
<1>3. IsFiniteSet(c)
  <2> DEFINE f == [p \in Pcbs |-> PChild(p)]
  <2>1. f \in Surjection(Pcbs, c)
    BY DEF Surjection
  <2> HIDE DEF f, c
  <2> QED BY <2>1, PcbsFacts, FS_Surjection
<1> DEFINE a == PLists \cup c
           b == a \cup PSibs
<1> HIDE DEF c
<1>4. IsFiniteSet(a)
  BY <1>1, <1>3, FS_Union
<1> HIDE DEF a
<1>5. IsFiniteSet(b)
  BY <1>2, <1>4, FS_Union
<1> HIDE DEF b
<1>6. IsFiniteSet(b \cup {PcbFreeH})
  BY <1>5, FS_AddElement
<1>7. Structs = b \cup {PcbFreeH}
  BY DEF Structs, a, b, c, PLists, PSibs
<1> QED BY <1>6, <1>7

\* A sequence of p_lists or p_sibs, element by element.
LEMMA LinksFacts ==
  /\ \A s \in Seq(PLists) : \A i \in 1..Len(s) : s[i][2] \in Pcbs /\ PList(s[i][2]) = s[i]
  /\ \A s \in Seq(PSibs) : \A i \in 1..Len(s) : s[i][2] \in Pcbs /\ PSib(s[i][2]) = s[i]
<1>1. ASSUME NEW s \in Seq(PLists), NEW i \in 1..Len(s)
      PROVE  s[i][2] \in Pcbs /\ PList(s[i][2]) = s[i]
  <2>1. s[i] \in PLists
    BY ElementOfSeq
  <2> QED BY <2>1, StructsDiffer DEF PLists
<1>2. ASSUME NEW s \in Seq(PSibs), NEW i \in 1..Len(s)
      PROVE  s[i][2] \in Pcbs /\ PSib(s[i][2]) = s[i]
  <2>1. s[i] \in PSibs
    BY ElementOfSeq
  <2> QED BY <2>1, StructsDiffer DEF PSibs
<1> QED BY <1>1, <1>2

LEMMA EmptyRange == \A e : e = <<>> => Range(e) = {}
<1>1. \A e : e = <<>> => e \in Seq(Nat) /\ Len(e) = 0
  OBVIOUS
<1>2. \A e \in Seq(Nat) : Range(e) = {e[i] : i \in 1..Len(e)}
  BY RangeEquality
<1>3. ASSUME NEW e \in Seq(Nat), Len(e) = 0 PROVE Range(e) = {}
  <2>1. Range(e) = {e[i] : i \in 1..Len(e)}
    BY <1>2
  <2> QED BY <1>3, <2>1
<1> QED BY <1>1, <1>3

\* What IInv says of the lists, of Live and of Children.
LEMMA HeldBefore ==
  ASSUME IInv
  PROVE  /\ Holds(links, Structs, Lists)
         /\ DOMAIN Lists = Heads /\ Lists = [h \in Heads |-> Lists[h]]
         /\ \A h \in Heads : Lists[h] \in Seq(Structs) /\ NoRepetition(Lists[h])
<1>1. Holds(links, Structs, Lists)
  BY DEF IInv
<1>2. DOMAIN Lists = Heads /\ Lists = [h \in Heads |-> Lists[h]]
  BY DEF Lists
<1> QED BY <1>1, <1>2, ListsApart

LEMMA LiveAreNotFree ==
  ASSUME IInv
  PROVE  \A p : p \in Live <=> p \in Pcbs /\ ~IsFree(Lists, p)
<1> DEFINE f == Lists[PcbFreeH]
           o == Contents(PcbFreeH)
<1>1. f \in Seq(PLists) /\ Len(f) \in Nat
  BY DEF IInv, Linked
<1>2. Elements(links, PcbFreeH) = f
  BY DEF Lists, Heads
<1>3. o = [i \in 1..Len(f) |-> f[i][2]]
  BY <1>2 DEF Contents
<1>4. \A i \in 1..Len(f) : f[i][2] \in Pcbs /\ PList(f[i][2]) = f[i]
  BY <1>1, LinksFacts
<1>5. Range(f) = {f[i] : i \in 1..Len(f)}
  BY <1>1, RangeEquality
<1> HIDE DEF f, o
<1>6. o \in Seq(Pcbs) /\ Len(o) = Len(f) /\ \A i \in 1..Len(f) : o[i] = f[i][2]
  BY <1>1, <1>3, <1>4
<1>7. Range(o) = {o[i] : i \in 1..Len(o)}
  BY <1>6, RangeEquality
<1>8. ASSUME NEW p \in Pcbs PROVE p \in Range(o) <=> PList(p) \in Range(f)
  <2>1. ASSUME NEW i \in 1..Len(f), o[i] = p PROVE f[i] = PList(p)
    BY <1>4, <1>6, <2>1
  <2>2. ASSUME NEW i \in 1..Len(f), f[i] = PList(p) PROVE o[i] = p
    BY <1>6, <2>2, StructsDiffer
  <2> QED BY <1>5, <1>6, <1>7, <2>1, <2>2
<1> QED BY <1>8 DEF Live, IsFree, f, o

LEMMA ChildrenAre ==
  ASSUME IInv, NEW p \in Pcbs
  PROVE  LET s == Lists[PChild(p)]
         IN  /\ s \in Seq(PSibs) /\ Children(p) \in Seq(Pcbs)
             /\ Len(Children(p)) = Len(s)
             /\ \A i \in 1..Len(s) : Children(p)[i] = s[i][2]
             /\ \A c \in Pcbs : c \in Range(Children(p)) <=> parent[c] = p
<1> DEFINE s == Lists[PChild(p)]
           o == Children(p)
<1>1. s \in Seq(PSibs) /\ Len(s) \in Nat
  BY DEF IInv, Linked
<1>2. Elements(links, PChild(p)) = s
  BY DEF Lists, Heads
<1>3. o = [i \in 1..Len(s) |-> s[i][2]]
  BY <1>2 DEF Contents, Children
<1>4. \A i \in 1..Len(s) : s[i][2] \in Pcbs /\ PSib(s[i][2]) = s[i]
  BY <1>1, LinksFacts
<1>5. \A c \in Pcbs : PSib(c) \in Range(s) <=> parent[c] = p
  BY DEF IInv, Linked
<1>6. Range(s) = {s[i] : i \in 1..Len(s)}
  BY <1>1, RangeEquality
<1> HIDE DEF s, o
<1>7. o \in Seq(Pcbs) /\ Len(o) = Len(s) /\ \A i \in 1..Len(s) : o[i] = s[i][2]
  BY <1>1, <1>3, <1>4
<1>8. Range(o) = {o[i] : i \in 1..Len(o)}
  BY <1>7, RangeEquality
<1>9. ASSUME NEW c \in Pcbs PROVE c \in Range(o) <=> PSib(c) \in Range(s)
  <2>1. ASSUME NEW i \in 1..Len(s), o[i] = c PROVE s[i] = PSib(c)
    BY <1>4, <1>7, <2>1
  <2>2. ASSUME NEW i \in 1..Len(s), s[i] = PSib(c) PROVE o[i] = c
    BY <1>7, <2>2, StructsDiffer
  <2> QED BY <1>6, <1>7, <1>8, <2>1, <2>2
<1> QED BY <1>1, <1>5, <1>7, <1>9 DEF s, o

----------------------------------------------------------------------------
(* What a step makes of the tree *)

\* Without an element, the rest of a sequence keeps its order.
LEMMA RemovedInOrder ==
  ASSUME NEW S, NEW q \in Seq(S), NEW t \in Seq(S), NEW k \in Int, Removed(t, q, k),
         NEW rank, \A i, j \in 1..Len(q) : i < j => rank[q[i][2]] < rank[q[j][2]]
  PROVE  \A i, j \in 1..Len(t) : i < j => rank[t[i][2]] < rank[t[j][2]]
<1> SUFFICES ASSUME NEW i \in 1..Len(t), NEW j \in 1..Len(t), i < j
             PROVE  rank[t[i][2]] < rank[t[j][2]]
  OBVIOUS
<1>1. /\ Len(q) \in Nat /\ k \in 1..Len(q) /\ Len(t) = Len(q) - 1
      /\ \A x \in 1..Len(q)-1 : t[x] = IF x < k THEN q[x] ELSE q[x+1]
  BY DEF Removed
<1> DEFINE a == IF i < k THEN i ELSE i+1
           b == IF j < k THEN j ELSE j+1
<1>2. a \in 1..Len(q) /\ b \in 1..Len(q) /\ a < b
  BY <1>1
<1>3. t[i] = q[a] /\ t[j] = q[b]
  BY <1>1
<1> HIDE DEF a, b
<1> QED BY <1>2, <1>3

\* What is left of the lists and parents when c, the i-th child of p, is taken
\* from it and is called for.
Cut(L, par, pd, nx, cs, p, c, i) ==
  LET M == [L EXCEPT ![PChild(p)] = RemoveAt(L[PChild(p)], i)]
      pr == [par EXCEPT ![c] = NULL]
  IN  /\ par[c] = p /\ pr \in [Pcbs -> Pcbs \cup {NULL}]
      /\ Linked(M, pr) /\ Numbered(M, pr, pd, nx)
      /\ Rooted(M, pr, Append(cs, c))
      /\ \A q \in Pcbs : IsFree(M, q) <=> IsFree(L, q)

\* A child cut from the list of its parent, for the call on it.
LEMMA CutKeeps ==
  ASSUME NEW L, NEW par \in [Pcbs -> Pcbs \cup {NULL}], NEW pd, NEW nx,
         NEW cs \in Seq(Pcbs), DOMAIN L = Heads,
         \A h \in Heads : NoRepetition(L[h]),
         Linked(L, par), Numbered(L, par, pd, nx), Rooted(L, par, cs),
         NEW p \in Pcbs, NEW c \in Pcbs, NEW i \in Int, i \in 1..Len(L[PChild(p)]),
         L[PChild(p)][i] = PSib(c)
  PROVE  Cut(L, par, pd, nx, cs, p, c, i)
<1> DEFINE s == L[PChild(p)]
           t == RemoveAt(s, i)
           M == [L EXCEPT ![PChild(p)] = t]
           pr == [par EXCEPT ![c] = NULL]
<1>1. s \in Seq(PSibs) /\ NoRepetition(s)
  <2>1. PChild(p) \in Heads
    BY StructsDiffer
  <2> QED BY <2>1 DEF Linked
<1>2. t \in Seq(PSibs) /\ Removed(t, s, i) /\ Range(t) = Range(s) \ {PSib(c)}
  <2>1. i \in 1..Len(s) /\ s[i] = PSib(c)
    OBVIOUS
  <2> HIDE DEF s
  <2>2. t \in Seq(PSibs) /\ Removed(t, s, i)
    BY <1>1, <2>1, RemoveAtRemoves
  <2> HIDE DEF t
  <2> QED BY <1>1, <2>1, <2>2, RemovedResult
<1>3. PSib(c) \in Range(s)
  <2>1. Range(s) = {s[x] : x \in 1..Len(s)}
    BY <1>1, RangeEquality
  <2> QED BY <2>1
<1>4. par[c] = p
  BY <1>3 DEF Linked
<1> HIDE DEF t
<1>5. /\ M[PChild(p)] = t /\ M[PcbFreeH] = L[PcbFreeH]
      /\ \A q \in Pcbs : q # p => M[PChild(q)] = L[PChild(q)]
  BY StructsDiffer
<1>6. pr \in [Pcbs -> Pcbs \cup {NULL}] /\ pr[c] = NULL /\ \A q \in Pcbs : q # c => pr[q] = par[q]
  OBVIOUS
<1>7. NULL \notin Pcbs
  BY PcbsFacts
<1> HIDE DEF M, pr
<1>8. \A q \in Pcbs : IsFree(M, q) <=> IsFree(L, q)
  BY <1>5 DEF IsFree
<1>9. Linked(M, pr)
  <2>1. M[PcbFreeH] \in Seq(PLists)
    BY <1>5 DEF Linked
  <2>2. \A q \in Pcbs : M[PChild(q)] \in Seq(PSibs)
    BY <1>2, <1>5 DEF Linked
  <2>3. ASSUME NEW q \in Pcbs, NEW d \in Pcbs
        PROVE  PSib(d) \in Range(M[PChild(q)]) <=> pr[d] = q
    <3>1. PSib(d) \in Range(L[PChild(q)]) <=> par[d] = q
      BY DEF Linked
    <3>2. PSib(d) = PSib(c) <=> d = c
      BY StructsDiffer
    <3> QED BY <1>2, <1>4, <1>5, <1>6, <1>7, <3>1, <3>2
  <2>4. ASSUME NEW q \in Pcbs, IsFree(M, q)
        PROVE  pr[q] = NULL /\ M[PChild(q)] = <<>>
    <3>1. par[q] = NULL /\ L[PChild(q)] = <<>>
      BY <1>8, <2>4 DEF Linked
    <3>2. q # p
      <4>1. \A e : e = <<>> => Len(e) = 0
        OBVIOUS
      <4>2. Len(s) # 0
        BY <1>1
      <4> QED BY <3>1, <4>1, <4>2
    <3> QED BY <1>5, <1>6, <3>1, <3>2
  <2> QED BY <2>1, <2>2, <2>3, <2>4 DEF Linked
<1>10. Numbered(M, pr, pd, nx)
  <2>1. \A q \in Pcbs : pd[q] < nx
    BY DEF Numbered
  <2>2. \A q \in Pcbs : ~IsFree(M, q) => pd[q] >= 1
    BY <1>8 DEF Numbered
  <2>3. \A q, r \in Pcbs : ~IsFree(M, q) /\ ~IsFree(M, r) /\ pd[q] = pd[r] => q = r
    BY <1>8 DEF Numbered
  <2>4. \A d \in Pcbs : pr[d] # NULL => pd[pr[d]] < pd[d]
    BY <1>6 DEF Numbered
  <2>5. ASSUME NEW q \in Pcbs
        PROVE  \A x, y \in 1..Len(M[PChild(q)]) :
                 x < y => pd[M[PChild(q)][x][2]] < pd[M[PChild(q)][y][2]]
    <3>1. \A x, y \in 1..Len(L[PChild(q)]) :
            x < y => pd[L[PChild(q)][x][2]] < pd[L[PChild(q)][y][2]]
      BY DEF Numbered
    <3>2. CASE q # p
      BY <1>5, <3>1, <3>2
    <3>3. CASE q = p
      <4>1. \A x, y \in 1..Len(s) : x < y => pd[s[x][2]] < pd[s[y][2]]
        BY <3>1, <3>3
      <4> HIDE DEF s
      <4>2. \A x, y \in 1..Len(t) : x < y => pd[t[x][2]] < pd[t[y][2]]
        BY <1>1, <1>2, <4>1, RemovedInOrder
      <4> QED BY <1>5, <3>3, <4>2
    <3> QED BY <3>2, <3>3
  <2> QED BY <2>1, <2>2, <2>3, <2>4, <2>5 DEF Numbered
<1>11. Rooted(M, pr, Append(cs, c))
  <2> DEFINE ds == Append(cs, c)
  <2>1. /\ NoRepetition(cs)
        /\ \A x \in 1..Len(cs) : ~IsFree(L, cs[x]) /\ par[cs[x]] = NULL
    BY DEF Rooted
  <2>2. Range(cs) = {cs[x] : x \in 1..Len(cs)}
    BY RangeEquality
  <2>3. c \notin Range(cs)
    BY <1>4, <1>7, <2>1, <2>2
  <2>4. NoRepetition(ds) /\ Range(ds) = Range(cs) \cup {c}
    BY <2>1, <2>3, AppendResult
  <2>5. /\ Len(ds) = Len(cs)+1 /\ ds[Len(cs)+1] = c /\ Len(cs) \in Nat
        /\ \A x \in 1..Len(cs) : ds[x] = cs[x] /\ cs[x] \in Pcbs
    BY AppendProperties, ElementOfSeq
  <2> HIDE DEF ds
  <2>6. ~IsFree(L, c)
    BY <1>4, <1>7 DEF Linked
  <2>7. \A x \in 1..Len(ds) : ~IsFree(M, ds[x]) /\ pr[ds[x]] = NULL
    <3> SUFFICES ASSUME NEW x \in 1..Len(ds)
                 PROVE  ~IsFree(M, ds[x]) /\ pr[ds[x]] = NULL
      OBVIOUS
    <3>1. CASE x \in 1..Len(cs)
      BY <1>6, <1>8, <2>1, <2>5, <3>1
    <3>2. CASE x = Len(cs)+1
      BY <1>6, <1>8, <2>5, <2>6, <3>2
    <3> QED BY <2>5, <3>1, <3>2
  <2>8. \A q, r \in Pcbs :
          /\ ~IsFree(M, q) /\ pr[q] = NULL /\ q \notin Range(ds)
          /\ ~IsFree(M, r) /\ pr[r] = NULL /\ r \notin Range(ds)
          => q = r
    BY <1>6, <1>8, <2>4 DEF Rooted
  <2> QED BY <2>4, <2>7, <2>8 DEF Rooted, ds
<1> QED BY <1>4, <1>6, <1>8, <1>9, <1>10, <1>11 DEF M, pr, t, Cut

\* The first free PCB, taken as the last child of a process.
LEMMA CreationKeeps ==
  ASSUME NEW L, NEW par \in [Pcbs -> Pcbs \cup {NULL}], NEW pd \in [Pcbs -> Int],
         NEW nx \in Nat, nx >= 1,
         NEW cs \in Seq(Pcbs), DOMAIN L = Heads,
         \A h \in Heads : NoRepetition(L[h]),
         Linked(L, par), Numbered(L, par, pd, nx), Rooted(L, par, cs),
         NEW p \in Pcbs, NEW c \in Pcbs, ~IsFree(L, c), 1 \in 1..Len(L[PcbFreeH]),
         L[PcbFreeH][1] = PList(p)
  PROVE  LET K == [L EXCEPT ![PcbFreeH] = RemoveAt(L[PcbFreeH], 1)]
             M == [K EXCEPT ![PChild(c)] = Append(K[PChild(c)], PSib(p))]
             pr == [par EXCEPT ![p] = c]
         IN  /\ p # c /\ IsFree(L, p) /\ pr \in [Pcbs -> Pcbs \cup {NULL}]
             /\ Linked(M, pr) /\ Numbered(M, pr, [pd EXCEPT ![p] = nx], nx+1)
             /\ Rooted(M, pr, cs)
             /\ \A q \in Pcbs : IsFree(M, q) <=> IsFree(L, q) /\ q # p
<1> DEFINE f == L[PcbFreeH]
           t == RemoveAt(f, 1)
           K == [L EXCEPT ![PcbFreeH] = t]
           s == L[PChild(c)]
           u == Append(s, PSib(p))
           M == [K EXCEPT ![PChild(c)] = Append(K[PChild(c)], PSib(p))]
           pr == [par EXCEPT ![p] = c]
           pe == [pd EXCEPT ![p] = nx]
<1>1. f \in Seq(PLists) /\ NoRepetition(f) /\ s \in Seq(PSibs)
  <2>1. PcbFreeH \in Heads
    BY StructsDiffer
  <2> QED BY <2>1 DEF Linked
<1>2. t \in Seq(PLists) /\ Range(t) = Range(f) \ {PList(p)} /\ PList(p) \in Range(f)
  <2>1. 1 \in 1..Len(f) /\ f[1] = PList(p)
    OBVIOUS
  <2> HIDE DEF f
  <2>2. t \in Seq(PLists) /\ Removed(t, f, 1)
    BY <1>1, <2>1, RemoveAtRemoves
  <2>3. Range(f) = {f[x] : x \in 1..Len(f)}
    BY <1>1, RangeEquality
  <2>4. PList(p) \in Range(f)
    BY <2>1, <2>3
  <2> HIDE DEF t
  <2>5. Range(t) = Range(f) \ {f[1]}
    BY <1>1, <2>1, <2>2, RemovedResult
  <2> QED BY <2>1, <2>2, <2>4, <2>5
<1>3. p # c /\ IsFree(L, p) /\ par[p] = NULL /\ L[PChild(p)] = <<>>
  BY <1>2 DEF IsFree, Linked
<1> HIDE DEF t
<1>4. u \in Seq(PSibs) /\ Range(u) = Range(s) \cup {PSib(p)}
  <2>1. PSib(p) \in PSibs
    BY DEF PSibs
  <2> HIDE DEF s
  <2> QED BY <1>1, <2>1, AppendResult
<1>5. /\ M[PcbFreeH] = t /\ M[PChild(c)] = u
      /\ \A q \in Pcbs : q # c => M[PChild(q)] = L[PChild(q)]
  <2>1. K[PcbFreeH] = t /\ DOMAIN K = Heads /\ K[PChild(c)] = s
        /\ \A q \in Pcbs : K[PChild(q)] = L[PChild(q)]
    BY StructsDiffer
  <2> HIDE DEF K
  <2> QED BY <2>1, StructsDiffer
<1>6. /\ pr \in [Pcbs -> Pcbs \cup {NULL}] /\ pr[p] = c
      /\ \A q \in Pcbs : q # p => pr[q] = par[q]
  OBVIOUS
<1>7. /\ pe[p] = nx /\ \A q \in Pcbs : q # p => pe[q] = pd[q]
  OBVIOUS
<1>8. NULL \notin Pcbs
  BY PcbsFacts
<1> HIDE DEF M, pr, pe
<1>9. \A q \in Pcbs : IsFree(M, q) <=> IsFree(L, q) /\ q # p
  BY <1>2, <1>5, StructsDiffer DEF IsFree
<1>10. Linked(M, pr)
  <2>1. M[PcbFreeH] \in Seq(PLists)
    BY <1>2, <1>5
  <2>2. \A q \in Pcbs : M[PChild(q)] \in Seq(PSibs)
    BY <1>4, <1>5 DEF Linked
  <2>3. ASSUME NEW q \in Pcbs, NEW d \in Pcbs
        PROVE  PSib(d) \in Range(M[PChild(q)]) <=> pr[d] = q
    <3>1. PSib(d) \in Range(L[PChild(q)]) <=> par[d] = q
      BY DEF Linked
    <3>2. PSib(d) = PSib(p) <=> d = p
      BY StructsDiffer
    <3> QED BY <1>3, <1>4, <1>5, <1>6, <1>8, <3>1, <3>2
  <2>4. ASSUME NEW q \in Pcbs, IsFree(M, q)
        PROVE  pr[q] = NULL /\ M[PChild(q)] = <<>>
    <3>1. par[q] = NULL /\ L[PChild(q)] = <<>> /\ q # p /\ q # c
      BY <1>9, <2>4 DEF Linked
    <3> QED BY <1>5, <1>6, <3>1
  <2> QED BY <2>1, <2>2, <2>3, <2>4 DEF Linked
<1>11. Numbered(M, pr, pe, nx+1)
  <2>1. \A q \in Pcbs : pd[q] < nx /\ pd[q] \in Int
    BY DEF Numbered
  <2>2. \A q \in Pcbs : pe[q] < nx+1
    BY <1>7, <2>1
  <2>3. \A q \in Pcbs : ~IsFree(M, q) => pe[q] >= 1
    BY <1>7, <1>9 DEF Numbered
  <2>4. \A q, r \in Pcbs : ~IsFree(M, q) /\ ~IsFree(M, r) /\ pe[q] = pe[r] => q = r
    <3> SUFFICES ASSUME NEW q \in Pcbs, NEW r \in Pcbs, ~IsFree(M, q), ~IsFree(M, r),
                        pe[q] = pe[r]
                 PROVE  q = r
      OBVIOUS
    <3>1. CASE q # p /\ r # p
      BY <1>7, <1>9, <3>1 DEF Numbered
    <3>2. \A o \in Pcbs : o # p => pe[o] # pe[p]
      BY <1>7, <2>1
    <3> QED BY <3>1, <3>2
  <2>5. ASSUME NEW d \in Pcbs, pr[d] # NULL PROVE pe[pr[d]] < pe[d]
    <3>1. CASE d = p
      BY <1>3, <1>6, <1>7, <2>1, <3>1
    <3>2. CASE d # p
      <4>1. pr[d] = par[d] /\ par[d] \in Pcbs
        BY <1>6, <2>5, <3>2
      <4>2. par[d] # p
        <5>1. PSib(d) \notin Range(L[PChild(p)])
          <6>1. \A e : e = <<>> => Len(e) = 0 /\ e \in Seq(PSibs)
            OBVIOUS
          <6>2. Range(L[PChild(p)]) = {L[PChild(p)][x] : x \in 1..0}
            BY <1>3, <6>1, RangeEquality
          <6> QED BY <6>2
        <5> QED BY <5>1 DEF Linked
      <4>3. pd[par[d]] < pd[d]
        BY <2>5, <4>1, <1>8 DEF Numbered
      <4> QED BY <1>7, <3>2, <4>1, <4>2, <4>3
    <3> QED BY <3>1, <3>2
  <2>6. ASSUME NEW q \in Pcbs, NEW x \in 1..Len(M[PChild(q)]),
               NEW y \in 1..Len(M[PChild(q)]), x < y
        PROVE  pe[M[PChild(q)][x][2]] < pe[M[PChild(q)][y][2]]
    <3> DEFINE w == L[PChild(q)]
    <3>1. w \in Seq(PSibs) /\ Len(w) \in Nat
      BY DEF Linked
    <3>2. \A z \in 1..Len(w) : w[z][2] \in Pcbs /\ w[z][2] # p
      <4> SUFFICES ASSUME NEW z \in 1..Len(w) PROVE w[z][2] \in Pcbs /\ w[z][2] # p
        OBVIOUS
      <4>1. w[z] \in Range(w)
        <5>1. Range(w) = {w[o] : o \in 1..Len(w)}
          BY <3>1, RangeEquality
        <5> QED BY <5>1
      <4>2. w[z][2] \in Pcbs /\ PSib(w[z][2]) = w[z]
        <5> HIDE DEF w
        <5> QED BY <3>1, LinksFacts
      <4>3. par[w[z][2]] = q
        BY <4>1, <4>2 DEF Linked
      <4> HIDE DEF w
      <4> QED BY <1>3, <1>8, <4>2, <4>3
    <3>3. \A i, j \in 1..Len(w) : i < j => pd[w[i][2]] < pd[w[j][2]]
      BY DEF Numbered
    <3>4. CASE q # c
      <4>1. M[PChild(q)] = w
        BY <1>5, <3>4
      <4> HIDE DEF w
      <4> QED BY <1>7, <2>6, <3>2, <3>3, <4>1
    <3>5. CASE q = c
      <4>1. M[PChild(q)] = u /\ w = s
        BY <1>5, <3>5
      <4>2. /\ Len(u) = Len(w) + 1 /\ u[Len(w)+1] = PSib(p)
            /\ \A z \in 1..Len(w) : u[z] = w[z]
        <5> HIDE DEF w, s
        <5>1. PSib(p) \in PSibs
          BY DEF PSibs
        <5> QED BY <3>1, <4>1, <5>1, AppendProperties
      <4> HIDE DEF w, u
      <4>3. x \in 1..Len(w) /\ u[x] = w[x] /\ (y \in 1..Len(w) \/ y = Len(w)+1)
        BY <2>6, <3>1, <4>1, <4>2
      <4>4. pe[u[x][2]] = pd[w[x][2]]
        BY <1>7, <3>2, <4>3
      <4>5. CASE y \in 1..Len(w)
        <5>1. pe[u[y][2]] = pd[w[y][2]]
          BY <1>7, <3>2, <4>2, <4>5
        <5> QED BY <2>6, <3>3, <4>1, <4>3, <4>4, <4>5, <5>1
      <4>6. CASE y = Len(w)+1
        <5>1. u[y][2] = p /\ pe[u[y][2]] = nx
          BY <1>7, <4>2, <4>6, StructsDiffer
        <5>2. pd[w[x][2]] < nx
          BY <2>1, <3>2, <4>3
        <5> QED BY <4>1, <4>4, <5>1, <5>2
      <4> QED BY <4>3, <4>5, <4>6
    <3> QED BY <3>4, <3>5
  <2> QED BY <2>2, <2>3, <2>4, <2>5, <2>6 DEF Numbered
<1>12. Rooted(M, pr, cs)
  <2>1. NoRepetition(cs)
    BY DEF Rooted
  <2>2. \A x \in 1..Len(cs) : ~IsFree(M, cs[x]) /\ pr[cs[x]] = NULL
    <3> SUFFICES ASSUME NEW x \in 1..Len(cs)
                 PROVE  ~IsFree(M, cs[x]) /\ pr[cs[x]] = NULL
      OBVIOUS
    <3>1. cs[x] \in Pcbs /\ ~IsFree(L, cs[x]) /\ par[cs[x]] = NULL
      BY ElementOfSeq DEF Rooted
    <3> QED BY <1>3, <1>6, <1>9, <3>1
  <2>3. \A q, r \in Pcbs :
          /\ ~IsFree(M, q) /\ pr[q] = NULL /\ q \notin Range(cs)
          /\ ~IsFree(M, r) /\ pr[r] = NULL /\ r \notin Range(cs)
          => q = r
    BY <1>6, <1>8, <1>9 DEF Rooted
  <2> QED BY <2>1, <2>2, <2>3 DEF Rooted
<1> QED BY <1>3, <1>6, <1>9, <1>10, <1>11, <1>12 DEF M, pr, pe, K, t

\* The innermost call and those around it.
LEMMA FrontFacts ==
  ASSUME NEW S, NEW cs \in Seq(S), cs # <<>>
  PROVE  /\ Len(cs) \in Nat /\ Len(cs) >= 1
         /\ Last(cs) = cs[Len(cs)] /\ Last(cs) \in S
         /\ Front(cs) \in Seq(S) /\ Len(Front(cs)) = Len(cs)-1
         /\ \A x \in 1..Len(Front(cs)) : x \in 1..Len(cs) /\ Front(cs)[x] = cs[x]
         /\ Range(cs) = Range(Front(cs)) \cup {Last(cs)}
<1> DEFINE p == Last(cs)
           ds == Front(cs)
<1>1. Len(cs) \in Nat /\ Len(cs) >= 1 /\ p = cs[Len(cs)] /\ p \in S
  <2>1. Len(cs) \in Nat \ {0}
    BY EmptySeq
  <2> QED BY <2>1, ElementOfSeq DEF Last
<1>2. /\ ds \in Seq(S) /\ Len(ds) = Len(cs)-1
      /\ \A x \in 1..Len(ds) : ds[x] = cs[x]
  <2>1. 1 \in 1..Len(cs)+1 /\ Len(cs)-1 \in 1-1..Len(cs) /\ Len(cs)-1 \in Nat
    BY <1>1
  <2> DEFINE n == Len(cs)-1
  <2>2. 1 \in 1..Len(cs)+1 /\ n \in 1-1..Len(cs) /\ n \in Nat /\ n+1-1 = n
    BY <2>1
  <2> HIDE DEF n
  <2>3. /\ SubSeq(cs, 1, n) \in Seq(S) /\ Len(SubSeq(cs, 1, n)) = n
        /\ \A x \in 1..n : SubSeq(cs, 1, n)[x] = cs[x]
    BY <2>2, SubSeqProperties
  <2> QED BY <2>3 DEF Front, n
<1> HIDE DEF p, ds
<1>3. /\ Range(cs) = {cs[x] : x \in 1..Len(cs)}
      /\ Range(ds) = {ds[x] : x \in 1..Len(ds)}
  BY <1>2, RangeEquality
<1>4. ASSUME NEW x \in 1..Len(cs)
      PROVE  (x \in 1..Len(ds) /\ cs[x] = ds[x]) \/ x = Len(cs)
  BY <1>1, <1>2
<1>5. \A x \in 1..Len(ds) : x \in 1..Len(cs) /\ ds[x] = cs[x]
  BY <1>1, <1>2
<1>6. Range(cs) = Range(ds) \cup {p}
  <2>1. Len(cs) \in 1..Len(cs)
    BY <1>1
  <2> QED BY <1>1, <1>3, <1>4, <1>5, <2>1
<1> QED BY <1>1, <1>2, <1>5, <1>6 DEF p, ds

\* A process without children, of the innermost call, back in the free list.
LEMMA FreeingKeeps ==
  ASSUME NEW L, NEW par \in [Pcbs -> Pcbs \cup {NULL}], NEW pd, NEW nx,
         NEW cs \in Seq(Pcbs), cs # <<>>, DOMAIN L = Heads,
         Linked(L, par), Numbered(L, par, pd, nx), Rooted(L, par, cs),
         L[PChild(Last(cs))] = <<>>
  PROVE  LET p == Last(cs)
             M == [L EXCEPT ![PcbFreeH] = <<PList(p)>> \o L[PcbFreeH]]
         IN  /\ p \in Pcbs /\ par[p] = NULL /\ ~IsFree(L, p)
             /\ Front(cs) \in Seq(Pcbs)
             /\ Linked(M, par) /\ Numbered(M, par, pd, nx)
             /\ Rooted(M, par, Front(cs))
             /\ \A q \in Pcbs : IsFree(M, q) <=> IsFree(L, q) \/ q = p
<1> DEFINE p == Last(cs)
           f == L[PcbFreeH]
           t == <<PList(p)>> \o f
           M == [L EXCEPT ![PcbFreeH] = t]
           ds == Front(cs)
<1>1. Len(cs) \in Nat /\ Len(cs) >= 1 /\ p = cs[Len(cs)] /\ p \in Pcbs
  BY FrontFacts
<1>2. /\ ds \in Seq(Pcbs) /\ Len(ds) = Len(cs)-1
      /\ \A x \in 1..Len(ds) : ds[x] = cs[x]
      /\ Range(cs) = Range(ds) \cup {p}
  BY FrontFacts
<1>3. par[p] = NULL /\ ~IsFree(L, p)
  BY <1>1 DEF Rooted
<1> HIDE DEF p
<1>4. t \in Seq(PLists) /\ Range(t) = Range(f) \cup {PList(p)}
  <2>1. f \in Seq(PLists) /\ PList(p) \in PLists
    BY <1>1 DEF Linked, PLists
  <2> HIDE DEF f
  <2>2. t \in Seq(PLists) /\ Inserted(t, f, PList(p), 1)
    BY <2>1, EndsInsert
  <2> HIDE DEF t
  <2> QED BY <2>1, <2>2, InsertedRange
<1> HIDE DEF t, ds
<1>5. M[PcbFreeH] = t /\ \A q \in Pcbs : M[PChild(q)] = L[PChild(q)]
  BY StructsDiffer
<1> HIDE DEF M
<1>6. \A q \in Pcbs : IsFree(M, q) <=> IsFree(L, q) \/ q = p
  BY <1>1, <1>4, <1>5, StructsDiffer DEF IsFree
<1>7. Linked(M, par)
  <2>1. M[PcbFreeH] \in Seq(PLists)
    BY <1>4, <1>5
  <2>2. /\ \A q \in Pcbs : M[PChild(q)] \in Seq(PSibs)
        /\ \A q, c \in Pcbs : PSib(c) \in Range(M[PChild(q)]) <=> par[c] = q
    BY <1>5 DEF Linked
  <2>3. ASSUME NEW q \in Pcbs, IsFree(M, q)
        PROVE  par[q] = NULL /\ M[PChild(q)] = <<>>
    <3>1. CASE q = p
      BY <1>3, <1>5, <3>1 DEF p
    <3>2. CASE q # p
      BY <1>5, <1>6, <2>3, <3>2 DEF Linked
    <3> QED BY <3>1, <3>2
  <2> QED BY <2>1, <2>2, <2>3 DEF Linked
<1>8. Numbered(M, par, pd, nx)
  <2>1. /\ \A q \in Pcbs : pd[q] < nx
        /\ \A c \in Pcbs : par[c] # NULL => pd[par[c]] < pd[c]
    BY DEF Numbered
  <2>2. /\ \A q \in Pcbs : ~IsFree(M, q) => pd[q] >= 1
        /\ \A q, r \in Pcbs :
             ~IsFree(M, q) /\ ~IsFree(M, r) /\ pd[q] = pd[r] => q = r
    BY <1>6 DEF Numbered
  <2>3. \A q \in Pcbs : \A i, j \in 1..Len(M[PChild(q)]) :
          i < j => pd[M[PChild(q)][i][2]] < pd[M[PChild(q)][j][2]]
    BY <1>5 DEF Numbered
  <2> QED BY <2>1, <2>2, <2>3 DEF Numbered
<1>9. Rooted(M, par, ds)
  <2>1. \A x, y \in 1..Len(cs) : cs[x] = cs[y] => x = y
    BY DEF Rooted, NoRepetition
  <2>2. NoRepetition(ds) /\ \A x \in 1..Len(ds) : ds[x] # p
    <3>1. \A x \in 1..Len(ds) : x \in 1..Len(cs) /\ x # Len(cs) /\ ds[x] = cs[x]
      BY <1>1, <1>2
    <3>2. NoRepetition(ds)
      BY <2>1, <3>1 DEF NoRepetition
    <3>3. Len(cs) \in 1..Len(cs) /\ p = cs[Len(cs)]
      BY <1>1
    <3>4. \A x \in 1..Len(ds) : ds[x] # p
      BY <2>1, <3>1, <3>3
    <3> QED BY <3>2, <3>4
  <2>3. \A x \in 1..Len(ds) : ~IsFree(M, ds[x]) /\ par[ds[x]] = NULL
    <3> SUFFICES ASSUME NEW x \in 1..Len(ds)
                 PROVE  ~IsFree(M, ds[x]) /\ par[ds[x]] = NULL
      OBVIOUS
    <3>1. x \in 1..Len(cs) /\ ds[x] = cs[x] /\ ds[x] \in Pcbs
      BY <1>1, <1>2, ElementOfSeq
    <3>2. ~IsFree(L, cs[x]) /\ par[cs[x]] = NULL
      BY <3>1 DEF Rooted
    <3> QED BY <1>6, <2>2, <3>1, <3>2
  <2>4. \A q, r \in Pcbs :
          /\ ~IsFree(M, q) /\ par[q] = NULL /\ q \notin Range(ds)
          /\ ~IsFree(M, r) /\ par[r] = NULL /\ r \notin Range(ds)
          => q = r
    BY <1>2, <1>6 DEF Rooted
  <2> QED BY <2>2, <2>3, <2>4 DEF Rooted
<1> QED BY <1>1, <1>2, <1>3, <1>6, <1>7, <1>8, <1>9 DEF M, ds, t, p, f

----------------------------------------------------------------------------
(* The steps *)

\* The walks of all lists give back what the memory holds.
LEMMA ListsAre ==
  ASSUME NEW m, NEW M, DOMAIN M = Heads, M = [h \in Heads |-> M[h]],
         Holds(m, Structs, M)
  PROVE  [h \in Heads |-> Elements(m, h)] = M
<1>1. \A h \in Heads : Elements(m, h) = M[h]
  BY StructsFinite, WalksFind
<1> QED BY <1>1

LEMMA HeldAfter ==
  ASSUME NEW M, DOMAIN M = Heads, M = [h \in Heads |-> M[h]],
         Holds(links', Structs, M), Linked(M, parent'),
         Numbered(M, parent', pid', nextPid'), Rooted(M, parent', calls'),
         parent' \in [Pcbs -> Pcbs \cup {NULL}], pid' \in [Pcbs -> 0..MaxPid],
         nextPid' \in 1..MaxPid+1, calls' \in Seq(Pcbs), request' \in 0..MaxPid
  PROVE  IInv' /\ Lists' = M
<1>1. Lists' = M
  BY ListsAre DEF Lists
<1>2. links' \in Memories(Structs)
  BY DEF Holds, Whole
<1> QED BY <1>1, <1>2 DEF IInv, TypeOK

\* What IInv says of pointers followed from a head.
LEMMA FirstOf ==
  ASSUME IInv, NEW h \in Heads
  PROVE  /\ ListEmpty(links, h) <=> Lists[h] = <<>>
         /\ Lists[h] # <<>> => /\ links.next[h] = Lists[h][1]
                               /\ 1 \in 1..Len(Lists[h])
<1>1. Holds(links, Structs, Lists) /\ h \in DOMAIN Lists /\ Lists[h] \in Seq(Structs)
  BY HeldBefore
<1>2. ListEmpty(links, h) <=> Lists[h] = <<>>
  BY <1>1, HeldList
<1>3. Lists[h] # <<>> => links.next[h] = Lists[h][1]
  BY <1>1, HeldList
<1>4. Lists[h] # <<>> => 1 \in 1..Len(Lists[h])
  BY <1>1, EmptySeq
<1> QED BY <1>2, <1>3, <1>4

\* A child cut off, by TerminateProcess or by a call of the recursion.
LEMMA CutDoes ==
  ASSUME IInv, NEW c \in Pcbs, parent[c] # NULL,
         links' = ChildCut(links, c), parent' = [parent EXCEPT ![c] = NULL],
         calls' = Append(calls, c), request' \in 0..MaxPid,
         UNCHANGED <<pid, nextPid>>
  PROVE  IInv' /\ \A q \in Pcbs : IsFree(Lists', q) <=> IsFree(Lists, q)
<1> DEFINE p == parent[c]
           h == PChild(p)
           s == Lists[h]
<1>1. /\ Holds(links, Structs, Lists) /\ Linked(Lists, parent)
      /\ Numbered(Lists, parent, pid, nextPid) /\ Rooted(Lists, parent, calls)
      /\ DOMAIN Lists = Heads /\ \A g \in Heads : NoRepetition(Lists[g])
      /\ parent \in [Pcbs -> Pcbs \cup {NULL}] /\ calls \in Seq(Pcbs)
      /\ pid' \in [Pcbs -> 0..MaxPid] /\ nextPid' \in 1..MaxPid+1
  BY HeldBefore DEF IInv, TypeOK
<1>2. p \in Pcbs /\ h \in Heads /\ s \in Seq(PSibs) /\ PSib(c) \in Range(s)
  <2>1. p \in Pcbs
    BY <1>1
  <2> HIDE DEF p
  <2> QED BY <1>1, <2>1, StructsDiffer DEF Linked, p
<1>3. PICK i \in 1..Len(s) : s[i] = PSib(c)
  <2>1. Range(s) = {s[x] : x \in 1..Len(s)}
    BY <1>2, RangeEquality
  <2> QED BY <1>2, <2>1
<1> DEFINE M == [Lists EXCEPT ![h] = RemoveAt(s, i)]
<1>4. Holds(links', Structs, M)
  <2>1. \A x \in 1..Len(Lists[h]) :
          Holds(ListDel(links, Lists[h][x]), Structs,
                [Lists EXCEPT ![h] = RemoveAt(Lists[h], x)])
    BY <1>1, <1>2, ListOperations
  <2> QED BY <1>3, <2>1 DEF ChildCut
<1>5. /\ parent' \in [Pcbs -> Pcbs \cup {NULL}]
      /\ Linked(M, parent') /\ Numbered(M, parent', pid', nextPid')
      /\ Rooted(M, parent', calls')
      /\ \A q \in Pcbs : IsFree(M, q) <=> IsFree(Lists, q)
  <2> DEFINE pr == [parent EXCEPT ![c] = NULL]
             N == [Lists EXCEPT ![PChild(p)] = RemoveAt(Lists[PChild(p)], i)]
  <2>1. i \in Int /\ i \in 1..Len(Lists[PChild(p)]) /\ Lists[PChild(p)][i] = PSib(c)
    BY <1>3
  <2> HIDE DEF p
  <2>2. /\ pr \in [Pcbs -> Pcbs \cup {NULL}]
        /\ Linked(N, pr) /\ Numbered(N, pr, pid, nextPid)
        /\ Rooted(N, pr, Append(calls, c))
        /\ \A q \in Pcbs : IsFree(N, q) <=> IsFree(Lists, q)
    <3> HIDE DEF h, s, M
    <3>1. p \in Pcbs
      BY <1>2
    <3>2. Cut(Lists, parent, pid, nextPid, calls, p, c, i)
      BY <1>1, <2>1, <3>1, CutKeeps
    <3> QED BY <3>2 DEF Cut
  <2>3. M = N /\ parent' = pr /\ calls' = Append(calls, c)
        /\ pid' = pid /\ nextPid' = nextPid
    OBVIOUS
  <2> HIDE DEF pr, N, M
  <2> QED BY <2>2, <2>3
<1>6. DOMAIN M = Heads /\ M = [g \in Heads |-> M[g]] /\ calls' \in Seq(Pcbs)
  <2>1. DOMAIN M = Heads /\ M = [g \in Heads |-> M[g]]
    BY <1>1, HeldBefore
  <2>2. calls' \in Seq(Pcbs)
    BY <1>1, AppendProperties
  <2> QED BY <2>1, <2>2
<1> HIDE DEF M
<1>7. IInv' /\ Lists' = M
  BY <1>1, <1>4, <1>5, <1>6, HeldAfter
<1> QED BY <1>5, <1>7

\* A free PCB becomes the last child of c.
LEMMA CreateDoes ==
  ASSUME IInv, NEW c \in Live, CreateProcess(c), ~ListEmpty(links, PcbFreeH)
  PROVE  /\ IInv'
         /\ \E p \in Pcbs :
              /\ IsFree(Lists, p)
              /\ \A q \in Pcbs : IsFree(Lists', q) <=> IsFree(Lists, q) /\ q # p
              /\ parent' = [parent EXCEPT ![p] = c]
              /\ pid' = [pid EXCEPT ![p] = nextPid]
<1> DEFINE f == Lists[PcbFreeH]
           p == links.next[PcbFreeH][2]
           K == [Lists EXCEPT ![PcbFreeH] = RemoveAt(f, 1)]
           m == ListDel(links, PList(p))
           h == PChild(c)
           M == [K EXCEPT ![h] = Append(K[h], PSib(p))]
<1>1. /\ Holds(links, Structs, Lists) /\ Linked(Lists, parent)
      /\ Numbered(Lists, parent, pid, nextPid) /\ Rooted(Lists, parent, calls)
      /\ DOMAIN Lists = Heads /\ \A g \in Heads : NoRepetition(Lists[g])
      /\ parent \in [Pcbs -> Pcbs \cup {NULL}] /\ calls \in Seq(Pcbs)
      /\ pid \in [Pcbs -> 0..MaxPid] /\ nextPid \in 1..MaxPid+1
      /\ request \in 0..MaxPid
  BY HeldBefore DEF IInv, TypeOK
<1>2. c \in Pcbs /\ ~IsFree(Lists, c)
  BY LiveAreNotFree
<1>3. PcbFreeH \in Heads
  BY StructsDiffer
<1>4. f # <<>> /\ 1 \in 1..Len(f) /\ links.next[PcbFreeH] = f[1] /\ f \in Seq(PLists)
  BY <1>1, <1>3, FirstOf DEF Linked
<1>5. p \in Pcbs /\ PList(p) = f[1]
  <2> HIDE DEF f
  <2> QED BY <1>4, LinksFacts
<1>6. /\ nextPid <= MaxPid
      /\ links' = ChildInserted(Allocated(links, p), c, p)
      /\ parent' = [parent EXCEPT ![p] = c]
      /\ pid' = [pid EXCEPT ![p] = nextPid]
      /\ nextPid' = nextPid + 1 /\ UNCHANGED <<calls, request>>
  BY DEF CreateProcess, GivenPid
<1> HIDE DEF p
<1>7. /\ p # c /\ IsFree(Lists, p) /\ parent' \in [Pcbs -> Pcbs \cup {NULL}]
      /\ Linked(M, parent') /\ Numbered(M, parent', pid', nextPid')
      /\ Rooted(M, parent', calls')
      /\ \A q \in Pcbs : IsFree(M, q) <=> IsFree(Lists, q) /\ q # p
  <2>1. pid \in [Pcbs -> Int] /\ nextPid \in Nat /\ nextPid >= 1
    <3>1. MaxPid \in Nat
      BY MaxPidAssumption
    <3> QED BY <1>1, <3>1
  <2>2. 1 \in 1..Len(Lists[PcbFreeH]) /\ Lists[PcbFreeH][1] = PList(p)
    BY <1>4, <1>5
  <2> DEFINE pr == [parent EXCEPT ![p] = c]
             pe == [pid EXCEPT ![p] = nextPid]
  <2>3. /\ p # c /\ IsFree(Lists, p) /\ pr \in [Pcbs -> Pcbs \cup {NULL}]
        /\ Linked(M, pr) /\ Numbered(M, pr, pe, nextPid+1) /\ Rooted(M, pr, calls)
        /\ \A q \in Pcbs : IsFree(M, q) <=> IsFree(Lists, q) /\ q # p
    BY <1>1, <1>2, <1>5, <2>1, <2>2, CreationKeeps
  <2>4. parent' = pr /\ pid' = pe /\ nextPid' = nextPid+1 /\ calls' = calls
    BY <1>6
  <2> HIDE DEF M, pr, pe
  <2> QED BY <2>3, <2>4
\* list_del, from the free list
<1>8. Holds(m, Structs, K)
  <2>1. \A x \in 1..Len(Lists[PcbFreeH]) :
          Holds(ListDel(links, Lists[PcbFreeH][x]), Structs,
                [Lists EXCEPT ![PcbFreeH] = RemoveAt(Lists[PcbFreeH], x)])
    BY <1>1, <1>3, ListOperations
  <2> QED BY <1>4, <1>5, <2>1
<1>9. /\ DOMAIN K = Heads /\ K = [g \in Heads |-> K[g]]
      /\ \A g \in Heads : g # PcbFreeH => K[g] = Lists[g]
      /\ K[PcbFreeH] = RemoveAt(f, 1)
  BY <1>1, <1>3, HeldBefore
<1>10. \A q \in Pcbs : PChild(q) \in Heads /\ PChild(q) # PcbFreeH
  BY StructsDiffer
<1>11. \A g \in Heads : \A n \in Pcbs : PSib(n) \in Range(K[g]) => \E q \in Pcbs : parent[n] = q
  <2> SUFFICES ASSUME NEW g \in Heads, NEW n \in Pcbs, PSib(n) \in Range(K[g])
               PROVE  \E q \in Pcbs : parent[n] = q
    OBVIOUS
  <2>1. CASE g = PcbFreeH
    <3>1. RemoveAt(f, 1) \in Seq(PLists)
      <4> HIDE DEF f
      <4> QED BY <1>4, RemoveAtRemoves
    <3>2. Range(K[g]) = {K[g][x] : x \in 1..Len(K[g])}
      BY <1>9, <2>1, <3>1, RangeEquality
    <3>3. PICK x \in 1..Len(K[g]) : PSib(n) = K[g][x]
      BY <3>2
    <3>4. PSib(n) \in PLists
      BY <1>9, <2>1, <3>1, <3>3, ElementOfSeq
    <3> QED BY <3>4, StructsDiffer DEF PLists
  <2>2. CASE g # PcbFreeH
    <3>1. PICK q \in Pcbs : g = PChild(q)
      BY <2>2 DEF Heads
    <3> QED BY <1>1, <1>9, <2>2, <3>1 DEF Linked
  <2> QED BY <2>1, <2>2
<1> HIDE DEF K
\* INIT_LIST_HEAD, twice, of empty lists
<1>12. InitListHead(m, PChild(p)) = m
  <2>1. Lists[PChild(p)] = <<>>
    BY <1>1, <1>5, <1>7 DEF Linked
  <2> HIDE DEF m
  <2> QED BY <1>5, <1>8, <1>9, <1>10, <2>1, EmptyIsAlone
<1>13. Loose(K, PSib(p)) /\ PSib(p) \in Structs
  <2>1. parent[p] = NULL
    BY <1>1, <1>5, <1>7 DEF Linked
  <2>2. PSib(p) \in Structs \ Heads
    BY <1>5, StructsDiffer
  <2> QED BY <1>5, <1>9, <1>11, <2>1, <2>2, PcbsFacts DEF Loose
<1>14. InitListHead(m, PSib(p)) = m
  <2> HIDE DEF m
  <2>1. Alone(m, PSib(p)) /\ m \in Memories(Structs)
    BY <1>8, <1>13, LooseFacts DEF Holds, Whole
  <2> QED BY <1>13, <2>1, InitListHeadAlone
\* list_add_tail, to the children of c
<1>15. Holds(links', Structs, M)
  <2>1. links' = ListAddTail(m, PSib(p), h)
    BY <1>6, <1>12, <1>14 DEF ChildInserted, Allocated
  <2>2. h \in DOMAIN K
    BY <1>2, <1>9, <1>10
  <2> HIDE DEF m, h
  <2> QED BY <1>8, <1>13, <2>1, <2>2, ListOperations
<1>16. DOMAIN M = Heads /\ M = [g \in Heads |-> M[g]]
  BY <1>9
<1>17. pid' \in [Pcbs -> 0..MaxPid] /\ nextPid' \in 1..MaxPid+1
  <2>1. MaxPid \in Nat
    BY MaxPidAssumption
  <2> DEFINE n == nextPid
  <2>2. n \in 0..MaxPid /\ n+1 \in 1..MaxPid+1
    BY <1>1, <1>6, <2>1
  <2> HIDE DEF n
  <2>3. pid' = [pid EXCEPT ![p] = n] /\ nextPid' = n+1
    BY <1>6 DEF n
  <2> QED BY <1>1, <1>5, <2>2, <2>3
<1>18. calls' \in Seq(Pcbs) /\ request' \in 0..MaxPid
  BY <1>1, <1>6
<1> HIDE DEF M
<1>19. IInv' /\ Lists' = M
  BY <1>7, <1>15, <1>16, <1>17, <1>18, HeldAfter
<1> QED BY <1>5, <1>6, <1>7, <1>19

\* A process in no list goes back to the head of the free list.
LEMMA ReturnDoes ==
  ASSUME IInv, Return
  PROVE  /\ IInv' /\ Last(calls) \in Pcbs /\ ~IsFree(Lists, Last(calls))
         /\ \A q \in Pcbs : IsFree(Lists', q) <=> IsFree(Lists, q) \/ q = Last(calls)
<1> DEFINE p == Last(calls)
           f == Lists[PcbFreeH]
           M == [Lists EXCEPT ![PcbFreeH] = <<PList(p)>> \o f]
<1>1. /\ Holds(links, Structs, Lists) /\ Linked(Lists, parent)
      /\ Numbered(Lists, parent, pid, nextPid) /\ Rooted(Lists, parent, calls)
      /\ DOMAIN Lists = Heads
      /\ parent \in [Pcbs -> Pcbs \cup {NULL}] /\ calls \in Seq(Pcbs)
      /\ pid \in [Pcbs -> 0..MaxPid] /\ nextPid \in 1..MaxPid+1
      /\ request \in 0..MaxPid
  BY HeldBefore DEF IInv, TypeOK
<1>2. /\ calls # <<>> /\ ListEmpty(links, PChild(p))
      /\ links' = Freed(links, p) /\ calls' = Front(calls)
      /\ UNCHANGED <<parent, pid, nextPid>>
      /\ request' = NULL \/ request' = request
  BY DEF Return, Idle
<1>3. p \in Pcbs
  <2>1. Len(calls) \in Nat \ {0}
    BY <1>1, <1>2, EmptySeq
  <2> QED BY <1>1, <2>1, ElementOfSeq DEF Last
<1>4. Lists[PChild(p)] = <<>>
  <2> HIDE DEF p
  <2> QED BY <1>2, <1>3, FirstOf, StructsDiffer
<1>5. /\ ~IsFree(Lists, p) /\ Front(calls) \in Seq(Pcbs)
      /\ Linked(M, parent) /\ Numbered(M, parent, pid, nextPid)
      /\ Rooted(M, parent, Front(calls))
      /\ \A q \in Pcbs : IsFree(M, q) <=> IsFree(Lists, q) \/ q = p
  BY <1>1, <1>2, <1>4, FreeingKeeps
<1> HIDE DEF p
<1>6. PList(p) \in Structs /\ Loose(Lists, PList(p)) /\ PcbFreeH \in Heads
  <2>1. PList(p) \in Structs \ Heads /\ PcbFreeH \in Heads
    BY <1>3, StructsDiffer
  <2>2. ASSUME NEW q \in Pcbs PROVE PList(p) \notin Range(Lists[PChild(q)])
    <3> DEFINE s == Lists[PChild(q)]
    <3>1. s \in Seq(PSibs)
      BY <1>1 DEF Linked
    <3>2. Range(s) = {s[x] : x \in 1..Len(s)}
      BY <3>1, RangeEquality
    <3>3. \A x \in 1..Len(s) : s[x] \in PSibs
      <4> HIDE DEF s
      <4> QED BY <3>1, ElementOfSeq
    <3> QED BY <1>3, <3>2, <3>3, StructsDiffer DEF PSibs
  <2> QED BY <1>1, <1>5, <2>1, <2>2 DEF Loose, Heads, IsFree
<1>7. Holds(links', Structs, M)
  BY <1>1, <1>2, <1>6, ListOperations DEF Freed
<1>8. DOMAIN M = Heads /\ M = [g \in Heads |-> M[g]]
  BY <1>1, HeldBefore
<1>9. request' \in 0..MaxPid
  BY <1>1, <1>2, MaxPidAssumption DEF NULL
<1> HIDE DEF M
<1>10. IInv' /\ Lists' = M
  <2>1. calls' \in Seq(Pcbs)
    BY <1>2, <1>5
  <2>2. Linked(M, parent') /\ Numbered(M, parent', pid', nextPid')
        /\ Rooted(M, parent', calls')
    BY <1>2, <1>5
  <2> QED BY <1>1, <1>2, <1>7, <1>8, <1>9, <2>1, <2>2, HeldAfter
<1> QED BY <1>3, <1>5, <1>10 DEF p

LEMMA ParentIsLive ==
  ASSUME IInv, NEW q \in Pcbs, parent[q] # NULL
  PROVE  /\ ~IsFree(Lists, q)
         /\ parent[q] \in Pcbs /\ ~IsFree(Lists, parent[q])
<1>1. /\ parent \in [Pcbs -> Pcbs \cup {NULL}]
      /\ \A p, c \in Pcbs : PSib(c) \in Range(Lists[PChild(p)]) <=> parent[c] = p
      /\ \A p \in Pcbs : IsFree(Lists, p) => parent[p] = NULL /\ Lists[PChild(p)] = <<>>
  BY DEF IInv, TypeOK, Linked
<1>2. PSib(q) \in Range(Lists[PChild(parent[q])])
  BY <1>1
<1> QED BY <1>1, <1>2, EmptyRange

----------------------------------------------------------------------------
(* The way up to the root *)

\* The recursive function in the definition of Root, up to l.
UpStep(f, p, n) ==
  IF n = 0 THEN p
  ELSE IF parent[f[n-1]] = NULL THEN f[n-1] ELSE parent[f[n-1]]

IsUp(f, p, l) == f = [n \in 0..l |-> UpStep(f, p, n)]

LEMMA UpExists ==
  ASSUME NEW p
  PROVE  \A l \in Nat : \E f : IsUp(f, p, l)
<1> DEFINE Good == {l \in Nat : \E f : IsUp(f, p, l)}
<1>1. 0 \in Good
  <2> DEFINE f == [n \in 0..0 |-> p]
  <2>1. \A n \in 0..0 : UpStep(f, p, n) = p
    BY DEF UpStep
  <2>2. IsUp(f, p, 0)
    BY <2>1 DEF IsUp
  <2> QED BY <2>2
<1>2. ASSUME NEW l \in Nat, l \in Good PROVE l+1 \in Good
  <2>1. PICK f : IsUp(f, p, l)
    BY <1>2
  <2> DEFINE g == [n \in 0..(l+1) |-> UpStep(f, p, n)]
  <2>2. \A n \in 0..l : g[n] = f[n]
    BY <2>1 DEF IsUp
  <2> HIDE DEF g
  <2>3. \A n \in 0..(l+1) : UpStep(f, p, n) = UpStep(g, p, n)
    <3>1. UpStep(f, p, 0) = UpStep(g, p, 0)
      BY DEF UpStep
    <3>2. ASSUME NEW n \in 1..(l+1) PROVE UpStep(f, p, n) = UpStep(g, p, n)
      <4>1. f[n-1] = g[n-1]
        BY <2>2
      <4> QED BY <4>1 DEF UpStep
    <3>3. \A n \in 0..(l+1) : n = 0 \/ n \in 1..(l+1)
      OBVIOUS
    <3> QED BY <3>1, <3>2, <3>3
  <2>4. IsUp(g, p, l+1)
    BY <2>3 DEF IsUp, g
  <2>5. l+1 \in Nat
    OBVIOUS
  <2> QED BY <2>4, <2>5
<1> HIDE DEF Good
<1>3. \A l \in Nat : l \in Good
  BY <1>1, <1>2, SetInduction
<1> QED BY <1>3 DEF Good

\* Up is the path from c that Root follows: to its parent, that one's parent,
\* and so on.
IsPath(up, c) ==
  /\ up \in [0..MaxProc -> Pcbs]
  /\ up[0] = c /\ up[MaxProc] = Root(c)
  /\ \A n \in 0..MaxProc-1 :
       up[n+1] = IF parent[up[n]] = NULL THEN up[n] ELSE parent[up[n]]
  /\ \A n \in 0..MaxProc : ~IsFree(Lists, up[n])

LEMMA PathExists ==
  ASSUME IInv, NEW c \in Pcbs, ~IsFree(Lists, c)
  PROVE  \E up : IsPath(up, c)
<1> DEFINE up == CHOOSE f : IsUp(f, c, MaxProc)
<1>1. MaxProc \in Nat /\ MaxProc \in 0..MaxProc /\ 0 \in 0..MaxProc
  BY MaxProcAssumption
<1>2. Root(c) = up[MaxProc]
  BY DEF Root, IsUp, UpStep
<1>3. IsUp(up, c, MaxProc)
  BY <1>1, UpExists
<1> HIDE DEF up
<1>4. up = [n \in 0..MaxProc |-> UpStep(up, c, n)]
  BY <1>3 DEF IsUp
<1>5. up[0] = c
  BY <1>1, <1>4 DEF UpStep
<1>6. ASSUME NEW n \in 0..MaxProc-1
      PROVE  up[n+1] = IF parent[up[n]] = NULL THEN up[n] ELSE parent[up[n]]
  <2>1. n+1 \in 0..MaxProc /\ n+1 # 0 /\ (n+1)-1 = n
    BY <1>1
  <2>2. up[n+1] = UpStep(up, c, n+1)
    BY <1>4, <2>1
  <2> QED BY <2>1, <2>2 DEF UpStep
<1>7. \A q \in Pcbs : parent[q] # NULL =>
        parent[q] \in Pcbs /\ ~IsFree(Lists, parent[q])
  BY ParentIsLive
<1> DEFINE Good == {n \in Nat : n <= MaxProc => up[n] \in Pcbs /\ ~IsFree(Lists, up[n])}
<1>8. 0 \in Good
  BY <1>5
<1>9. ASSUME NEW n \in Nat, n \in Good PROVE n+1 \in Good
  <2> SUFFICES ASSUME n+1 <= MaxProc PROVE up[n+1] \in Pcbs /\ ~IsFree(Lists, up[n+1])
    OBVIOUS
  <2>1. n \in 0..MaxProc-1 /\ up[n] \in Pcbs /\ ~IsFree(Lists, up[n])
    BY <1>1, <1>9
  <2>2. up[n+1] = IF parent[up[n]] = NULL THEN up[n] ELSE parent[up[n]]
    BY <1>6, <2>1
  <2> QED BY <1>7, <2>1, <2>2
<1> HIDE DEF Good
<1>10. \A n \in Nat : n \in Good
  BY <1>8, <1>9, SetInduction
<1>11. \A n \in 0..MaxProc : up[n] \in Pcbs /\ ~IsFree(Lists, up[n])
  BY <1>1, <1>10 DEF Good
<1>12. up \in [0..MaxProc -> Pcbs]
  BY <1>4, <1>11
<1>13. IsPath(up, c)
  BY <1>2, <1>5, <1>6, <1>11, <1>12 DEF IsPath
<1> QED BY <1>13

\* The pids get smaller on the way up.
LEMMA PathDescends ==
  ASSUME IInv, NEW c, NEW up, IsPath(up, c), parent[up[MaxProc]] # NULL
  PROVE  \A i, j \in 0..MaxProc : i < j => pid[up[j]] < pid[up[i]]
<1>1. MaxProc \in Nat /\ pid \in [Pcbs -> Int] /\ up \in [0..MaxProc -> Pcbs]
      /\ \A q \in Pcbs : parent[q] # NULL => pid[parent[q]] < pid[q]
  <2>1. pid \in [Pcbs -> Int]
    <3>1. pid \in [Pcbs -> 0..MaxPid] /\ MaxPid \in Nat
      BY MaxPidAssumption DEF IInv, TypeOK
    <3> QED BY <3>1
  <2>2. \A q \in Pcbs : parent[q] # NULL => pid[parent[q]] < pid[q]
    BY DEF IInv, Numbered
  <2> QED BY <2>1, <2>2, MaxProcAssumption DEF IsPath
<1>2. \A n \in 0..MaxProc-1 :
        up[n+1] = IF parent[up[n]] = NULL THEN up[n] ELSE parent[up[n]]
  BY DEF IsPath
\* Where a parent is missing the path ends, but it does not end.
<1> DEFINE Goes == {n \in Nat : n <= MaxProc => parent[up[MaxProc-n]] # NULL}
<1>3. 0 \in Goes
  BY <1>1
<1>4. ASSUME NEW n \in Nat, n \in Goes PROVE n+1 \in Goes
  <2> SUFFICES ASSUME n+1 <= MaxProc PROVE parent[up[MaxProc-(n+1)]] # NULL
    OBVIOUS
  <2> DEFINE k == MaxProc-(n+1)
  <2>1. k \in 0..MaxProc-1 /\ k+1 = MaxProc-n /\ n <= MaxProc
    BY <1>1
  <2>2. parent[up[k+1]] # NULL
    BY <1>4, <2>1
  <2> HIDE DEF k
  <2>3. parent[up[k]] # NULL
    BY <1>2, <2>1, <2>2
  <2> QED BY <2>3 DEF k
<1> HIDE DEF Goes
<1>5. \A n \in Nat : n \in Goes
  BY <1>3, <1>4, SetInduction
<1>6. ASSUME NEW n \in 0..MaxProc PROVE parent[up[n]] # NULL
  <2>1. MaxProc-n \in Nat /\ MaxProc-n <= MaxProc /\ MaxProc-(MaxProc-n) = n
    BY <1>1
  <2> DEFINE k == MaxProc-n
  <2> HIDE DEF k
  <2>2. k \in Goes /\ k <= MaxProc /\ MaxProc-k = n
    BY <1>5, <2>1 DEF k
  <2> QED BY <2>2 DEF Goes
<1>7. ASSUME NEW n \in 0..MaxProc-1 PROVE pid[up[n+1]] < pid[up[n]]
  <2>1. n \in 0..MaxProc
    BY <1>1
  <2>2. up[n] \in Pcbs /\ parent[up[n]] # NULL
    BY <1>1, <1>6, <2>1
  <2>3. up[n+1] = parent[up[n]]
    BY <1>2, <2>2
  <2> QED BY <1>1, <2>2, <2>3
<1> DEFINE Less == {d \in Nat : \A i \in 0..MaxProc :
                      i+d+1 <= MaxProc => pid[up[i+d+1]] < pid[up[i]]}
<1>8. 0 \in Less
  <2> SUFFICES ASSUME NEW i \in 0..MaxProc, i+0+1 <= MaxProc
               PROVE  pid[up[i+0+1]] < pid[up[i]]
    OBVIOUS
  <2>1. i \in 0..MaxProc-1 /\ i+0+1 = i+1
    BY <1>1
  <2> QED BY <1>7, <2>1
<1>9. ASSUME NEW d \in Nat, d \in Less PROVE d+1 \in Less
  <2> SUFFICES ASSUME NEW i \in 0..MaxProc, i+(d+1)+1 <= MaxProc
               PROVE  pid[up[i+(d+1)+1]] < pid[up[i]]
    OBVIOUS
  <2> DEFINE k == i+d+1
  <2>1. k \in 0..MaxProc-1 /\ k \in 0..MaxProc /\ k+1 = i+(d+1)+1 /\ k <= MaxProc
        /\ k+1 \in 0..MaxProc
    BY <1>1
  <2>2. pid[up[k]] < pid[up[i]]
    BY <1>9, <2>1
  <2> HIDE DEF k
  <2>3. pid[up[k+1]] < pid[up[k]]
    BY <1>7, <2>1
  <2>4. up[k] \in Pcbs /\ up[k+1] \in Pcbs /\ up[i] \in Pcbs
    BY <1>1, <2>1
  <2>5. pid[up[k]] \in Int /\ pid[up[k+1]] \in Int /\ pid[up[i]] \in Int
    BY <1>1, <2>4
  <2>6. pid[up[k+1]] < pid[up[i]]
    BY <2>2, <2>3, <2>5
  <2> QED BY <2>1, <2>6
<1> HIDE DEF Less
<1>10. \A d \in Nat : d \in Less
  BY <1>8, <1>9, SetInduction
<1>11. ASSUME NEW i \in 0..MaxProc, NEW j \in 0..MaxProc, i < j
       PROVE  pid[up[j]] < pid[up[i]]
  <2> DEFINE d == j-i-1
  <2>1. d \in Nat /\ i+d+1 = j /\ j <= MaxProc
    BY <1>1, <1>11
  <2> HIDE DEF d
  <2>2. d \in Less
    BY <1>10, <2>1
  <2> QED BY <2>1, <2>2 DEF Less
<1> QED BY <1>11

\* The root has no parent: a longer path would hold more PCBs than there are.
LEMMA RootIsRoot ==
  ASSUME IInv, NEW c \in Pcbs, ~IsFree(Lists, c)
  PROVE  Root(c) \in Pcbs /\ ~IsFree(Lists, Root(c)) /\ parent[Root(c)] = NULL
<1>1. PICK up : IsPath(up, c)
  BY PathExists
<1>2. MaxProc \in Nat /\ MaxProc \in 0..MaxProc
  BY MaxProcAssumption
<1>3. Root(c) \in Pcbs /\ ~IsFree(Lists, Root(c)) /\ Root(c) = up[MaxProc]
  BY <1>1, <1>2 DEF IsPath
<1>4. ASSUME parent[up[MaxProc]] # NULL PROVE FALSE
  <2>1. \A i, j \in 0..MaxProc : i < j => pid[up[j]] < pid[up[i]]
    BY <1>1, <1>4, PathDescends
  <2>2. pid \in [Pcbs -> Int] /\ up \in [0..MaxProc -> Pcbs]
    <3>1. pid \in [Pcbs -> 0..MaxPid] /\ MaxPid \in Nat
      BY MaxPidAssumption DEF IInv, TypeOK
    <3> QED BY <1>1, <3>1 DEF IsPath
  <2>3. ASSUME NEW i \in 0..MaxProc, NEW j \in 0..MaxProc, up[i] = up[j]
        PROVE  i = j
    <3>1. pid[up[i]] \in Int /\ pid[up[j]] \in Int
      BY <2>2
    <3>2. ~(i < j) /\ ~(j < i)
      BY <2>1, <2>3, <3>1
    <3> QED BY <1>2, <3>2
  <2>4. up \in Injection(0..MaxProc, Pcbs)
    BY <2>2, <2>3 DEF Injection, IsInjective
  <2>5. IsFiniteSet(0..MaxProc) /\ Cardinality(0..MaxProc) = MaxProc+1
    <3>1. 0 \in Int /\ MaxProc \in Int /\ ~(0 > MaxProc) /\ MaxProc-0+1 = MaxProc+1
      BY <1>2
    <3> QED BY <3>1, FS_Interval
  <2>6. Cardinality(0..MaxProc) <= Cardinality(Pcbs)
    BY <2>4, PcbsFacts, FS_Injection
  <2> QED BY <1>2, <2>5, <2>6, PcbsFacts
<1> QED BY <1>3, <1>4

----------------------------------------------------------------------------
(* The search for a pid *)

\* The recursive function in the definition of FindPcbByPid, up to l.
Hits(f, q, d) ==
  {i \in 1..Len(Children(q)) : d # 0 /\ f[d-1][Children(q)[i]] # NULL}

FoundStep(f, id, d) ==
  [q \in Pcbs |->
     IF pid[q] = id THEN q
     ELSE IF Hits(f, q, d) = {} THEN NULL
     ELSE f[d-1][Children(q)[Min(Hits(f, q, d))]]]

IsFound(f, id, l) == f = [d \in 0..l |-> FoundStep(f, id, d)]

LEMMA FoundExists ==
  ASSUME NEW id
  PROVE  \A l \in Nat : \E f : IsFound(f, id, l)
<1>1. \A f, g : FoundStep(f, id, 0) = FoundStep(g, id, 0)
  <2> SUFFICES ASSUME NEW f, NEW g PROVE FoundStep(f, id, 0) = FoundStep(g, id, 0)
    OBVIOUS
  <2>1. \A q : Hits(f, q, 0) = {} /\ Hits(g, q, 0) = {}
    BY DEF Hits
  <2> QED BY <2>1 DEF FoundStep
<1>2. ASSUME NEW f, NEW g, NEW d \in Nat, d # 0, f[d-1] = g[d-1]
      PROVE  FoundStep(f, id, d) = FoundStep(g, id, d)
  <2>1. \A q : Hits(f, q, d) = Hits(g, q, d)
    BY <1>2 DEF Hits
  <2> QED BY <1>2, <2>1 DEF FoundStep
<1> DEFINE Good == {l \in Nat : \E f : IsFound(f, id, l)}
<1>3. 0 \in Good
  <2> DEFINE e == <<>>
             f == [d \in 0..0 |-> FoundStep(e, id, d)]
  <2>1. \A d \in 0..0 : FoundStep(e, id, d) = FoundStep(f, id, d)
    BY <1>1
  <2> HIDE DEF e
  <2>2. f = [d \in 0..0 |-> FoundStep(f, id, d)]
    BY <2>1
  <2> HIDE DEF f
  <2>3. IsFound(f, id, 0)
    BY <2>2 DEF IsFound
  <2> QED BY <2>3
<1>4. ASSUME NEW l \in Nat, l \in Good PROVE l+1 \in Good
  <2>1. PICK f : IsFound(f, id, l)
    BY <1>4
  <2> DEFINE g == [d \in 0..(l+1) |-> FoundStep(f, id, d)]
  <2>2. \A d \in 0..l : g[d] = f[d]
    BY <2>1 DEF IsFound
  <2> HIDE DEF g
  <2>3. \A d \in 0..(l+1) : FoundStep(f, id, d) = FoundStep(g, id, d)
    <3>1. ASSUME NEW d \in 1..(l+1)
          PROVE  FoundStep(f, id, d) = FoundStep(g, id, d)
      <4>1. f[d-1] = g[d-1] /\ d \in Nat /\ d # 0
        BY <2>2
      <4> QED BY <1>2, <4>1
    <3>2. \A d \in 0..(l+1) : d = 0 \/ d \in 1..(l+1)
      OBVIOUS
    <3> QED BY <1>1, <3>1, <3>2
  <2>4. IsFound(g, id, l+1)
    BY <2>3 DEF IsFound, g
  <2>5. l+1 \in Nat
    OBVIOUS
  <2> QED BY <2>4, <2>5
<1> HIDE DEF Good
<1>5. \A l \in Nat : l \in Good
  BY <1>3, <1>4, SetInduction
<1> QED BY <1>5 DEF Good

\* The answers of the calls of FindPcbByPid(., id), by how deep they may go.
IsSearch(f, id) ==
  /\ \A p : FindPcbByPid(p, id) = f[MaxProc][p]
  /\ \A d \in 0..MaxProc : f[d] = FoundStep(f, id, d)

LEMMA SearchExists == \A id : \E f : IsSearch(f, id)
<1> SUFFICES ASSUME NEW id PROVE \E f : IsSearch(f, id)
  OBVIOUS
<1> DEFINE f == CHOOSE g : IsFound(g, id, MaxProc)
<1>1. \A p : FindPcbByPid(p, id) = f[MaxProc][p]
  BY DEF FindPcbByPid, IsFound, FoundStep, Hits
<1>2. IsFound(f, id, MaxProc)
  BY FoundExists, MaxProcAssumption
<1> HIDE DEF f
<1>3. \A d \in 0..MaxProc : f[d] = FoundStep(f, id, d)
  BY <1>2 DEF IsFound
<1> QED BY <1>1, <1>3 DEF IsSearch

\* A call answers with the PCB it starts from, or with what the call for the
\* first child that finds something answers.
LEMMA AHit ==
  ASSUME NEW f, NEW q \in Pcbs, NEW d \in Nat,
         NEW i \in 1..Len(Children(q)), f[d][Children(q)[i]] # NULL
  PROVE  Hits(f, q, d+1) # {}
<1>1. d+1 # 0 /\ (d+1)-1 = d
  OBVIOUS
<1>2. i \in Hits(f, q, d+1)
  BY <1>1 DEF Hits
<1> QED BY <1>2

LEMMA HitsFacts ==
  ASSUME IInv, NEW f, NEW q \in Pcbs, NEW d \in Nat
  PROVE  Hits(f, q, d+1) # {} =>
           LET c == Children(q)[Min(Hits(f, q, d+1))]
           IN  c \in Pcbs /\ parent[c] = q /\ f[d][c] # NULL
<1> DEFINE H == Hits(f, q, d+1)
<1>1. Children(q) \in Seq(Pcbs)
      /\ \A c \in Pcbs : c \in Range(Children(q)) <=> parent[c] = q
  BY ChildrenAre
<1>2. \A i \in 1..Len(Children(q)) : i \in H <=> f[d][Children(q)[i]] # NULL
  <2>1. d+1 # 0 /\ (d+1)-1 = d
    OBVIOUS
  <2> QED BY <2>1 DEF Hits
<1>3. ASSUME H # {}
      PROVE  LET c == Children(q)[Min(H)]
             IN  c \in Pcbs /\ parent[c] = q /\ f[d][c] # NULL
  <2>1. H \in SUBSET Nat /\ \A i \in H : i \in 1..Len(Children(q))
    BY <1>1 DEF Hits
  <2> HIDE DEF H
  <2>2. Min(H) \in H
    BY <1>3, <2>1, MinIsLeast
  <2> DEFINE o == Children(q)
             i == Min(H)
  <2> HIDE DEF i
  <2>3. i \in 1..Len(o) /\ f[d][o[i]] # NULL
    BY <1>2, <2>1, <2>2 DEF i
  <2>4. o[i] \in Pcbs /\ o[i] \in Range(o)
    <3>1. o \in Seq(Pcbs)
      BY <1>1
    <3> HIDE DEF o
    <3>2. Range(o) = {o[x] : x \in 1..Len(o)}
      BY <3>1, RangeEquality
    <3> QED BY <2>3, <3>1, <3>2, ElementOfSeq
  <2> QED BY <1>1, <2>3, <2>4 DEF i
<1> QED BY <1>3

\* Who is found is in use and has the pid.
LEMMA FoundHasPid ==
  ASSUME IInv, NEW id, NEW p \in Pcbs, ~IsFree(Lists, p), FindPcbByPid(p, id) # NULL
  PROVE  LET q == FindPcbByPid(p, id)
         IN  q \in Pcbs /\ ~IsFree(Lists, q) /\ pid[q] = id
<1>1. PICK f : IsSearch(f, id)
  BY SearchExists
<1>2. MaxProc \in Nat
  BY MaxProcAssumption
<1> DEFINE Right(d, q) == f[d][q] # NULL =>
                            f[d][q] \in Pcbs /\ ~IsFree(Lists, f[d][q]) /\ pid[f[d][q]] = id
           Good == {d \in Nat : d <= MaxProc =>
                      \A q \in Pcbs : ~IsFree(Lists, q) => Right(d, q)}
<1>3. ASSUME NEW d \in 0..MaxProc, NEW q \in Pcbs
      PROVE  f[d][q] = IF pid[q] = id THEN q
                       ELSE IF Hits(f, q, d) = {} THEN NULL
                       ELSE f[d-1][Children(q)[Min(Hits(f, q, d))]]
  <2>1. f[d] = FoundStep(f, id, d)
    BY <1>1 DEF IsSearch
  <2> QED BY <2>1 DEF FoundStep
<1>4. 0 \in Good
  <2> SUFFICES ASSUME NEW q \in Pcbs, ~IsFree(Lists, q) PROVE Right(0, q)
    OBVIOUS
  <2>1. 0 \in 0..MaxProc /\ Hits(f, q, 0) = {}
    BY <1>2 DEF Hits
  <2>2. f[0][q] = IF pid[q] = id THEN q ELSE NULL
    BY <1>3, <2>1
  <2> QED BY <2>2
<1>5. ASSUME NEW d \in Nat, d \in Good PROVE d+1 \in Good
  <2> SUFFICES ASSUME d+1 <= MaxProc, NEW q \in Pcbs, ~IsFree(Lists, q)
               PROVE  Right(d+1, q)
    OBVIOUS
  <2>1. d+1 \in 0..MaxProc /\ d+1 \in Nat /\ d+1 # 0 /\ (d+1)-1 = d /\ d <= MaxProc
    BY <1>2
  <2> DEFINE H == Hits(f, q, d+1)
             c == Children(q)[Min(H)]
  <2>2. f[d+1][q] = IF pid[q] = id THEN q ELSE IF H = {} THEN NULL ELSE f[d][c]
    BY <1>3, <2>1
  <2>3. H # {} => c \in Pcbs /\ parent[c] = q /\ f[d][c] # NULL
    BY <2>1, HitsFacts
  <2> HIDE DEF H, c
  <2>4. H # {} => Right(d, c)
    <3> SUFFICES ASSUME H # {} PROVE Right(d, c)
      OBVIOUS
    <3>1. ~IsFree(Lists, c)
      BY <2>3, PcbsFacts, ParentIsLive
    <3> QED BY <1>5, <2>1, <2>3, <3>1
  <2>5. \/ f[d+1][q] = q /\ pid[q] = id
        \/ f[d+1][q] = NULL
        \/ H # {} /\ f[d+1][q] = f[d][c]
    BY <2>2
  <2> QED BY <2>4, <2>5
<1> HIDE DEF Good
<1>6. MaxProc \in Good
  BY <1>2, <1>4, <1>5, SetInduction
<1>7. Right(MaxProc, p)
  BY <1>2, <1>6 DEF Good
<1> QED BY <1>1, <1>7 DEF IsSearch

\* A call for a PCB finds what is below it.
LEMMA AncestorFinds ==
  ASSUME IInv, NEW id, NEW c \in Pcbs, ~IsFree(Lists, c), pid[c] = id
  PROVE  FindPcbByPid(Root(c), id) = c
<1>1. PICK f : IsSearch(f, id)
  BY SearchExists
<1>2. PICK up : IsPath(up, c)
  BY PathExists
<1>3. MaxProc \in Nat /\ MaxProc \in 0..MaxProc
  BY MaxProcAssumption
<1>4. /\ up \in [0..MaxProc -> Pcbs] /\ up[0] = c /\ up[MaxProc] = Root(c)
      /\ \A n \in 0..MaxProc-1 :
           up[n+1] = IF parent[up[n]] = NULL THEN up[n] ELSE parent[up[n]]
  BY <1>2 DEF IsPath
<1>5. ASSUME NEW d \in 0..MaxProc, NEW q \in Pcbs
      PROVE  f[d][q] = IF pid[q] = id THEN q
                       ELSE IF Hits(f, q, d) = {} THEN NULL
                       ELSE f[d-1][Children(q)[Min(Hits(f, q, d))]]
  <2>1. f[d] = FoundStep(f, id, d)
    BY <1>1 DEF IsSearch
  <2> QED BY <2>1 DEF FoundStep
<1>6. NULL \notin Pcbs
  BY PcbsFacts
<1> DEFINE Good == {d \in Nat : d <= MaxProc =>
                      \A n \in 0..d : f[d][up[n]] # NULL}
<1>7. 0 \in Good
  <2>1. 0 \in 0..MaxProc
    BY <1>3
  <2>2. f[0][c] = c
    BY <1>5, <2>1
  <2> QED BY <1>4, <1>6, <2>2
<1>8. ASSUME NEW d \in Nat, d \in Good PROVE d+1 \in Good
  <2> SUFFICES ASSUME d+1 <= MaxProc, NEW n \in 0..d+1 PROVE f[d+1][up[n]] # NULL
    OBVIOUS
  <2>1. d+1 \in 0..MaxProc /\ d+1 \in Nat /\ d+1 # 0 /\ (d+1)-1 = d /\ d <= MaxProc
        /\ \A m \in 0..d : f[d][up[m]] # NULL
    BY <1>3, <1>8
  <2> DEFINE Fine == {m \in Nat : m <= d+1 => f[d+1][up[m]] # NULL}
  <2>2. 0 \in Fine
    <3>1. f[d+1][c] = c
      BY <1>5, <2>1
    <3> QED BY <1>4, <1>6, <3>1
  <2>3. ASSUME NEW m \in Nat, m \in Fine PROVE m+1 \in Fine
    <3> SUFFICES ASSUME m+1 <= d+1 PROVE f[d+1][up[m+1]] # NULL
      OBVIOUS
    <3>1. m \in 0..MaxProc-1 /\ m \in 0..d /\ m \in 0..MaxProc /\ m+1 \in 0..MaxProc
          /\ m <= d+1
      BY <1>3, <2>1
    <3> DEFINE x == up[m]
               q == up[m+1]
    <3>2. x \in Pcbs /\ q \in Pcbs /\ q = IF parent[x] = NULL THEN x ELSE parent[x]
      BY <1>4, <3>1
    <3>3. f[d][x] # NULL /\ f[d+1][x] # NULL
      BY <2>1, <2>3, <3>1
    <3> HIDE DEF x, q
    <3>4. CASE parent[x] = NULL
      BY <3>2, <3>3, <3>4 DEF q
    <3>5. CASE parent[x] # NULL
      <4>1. q = parent[x]
        BY <3>2, <3>5
      <4>2. /\ Children(q) \in Seq(Pcbs) /\ x \in Range(Children(q))
        BY <3>2, <4>1, ChildrenAre
      <4>3. PICK i \in 1..Len(Children(q)) : Children(q)[i] = x
        <5>1. Range(Children(q)) = {Children(q)[y] : y \in 1..Len(Children(q))}
          BY <4>2, RangeEquality
        <5> QED BY <4>2, <5>1
      <4> DEFINE H == Hits(f, q, d+1)
                 z == Children(q)[Min(H)]
      <4>4. H # {} /\ f[d][z] # NULL
        <5>1. f[d][Children(q)[i]] # NULL
          BY <3>3, <4>3
        <5>2. H # {}
          BY <3>2, <5>1, AHit
        <5>3. H # {} => f[d][z] # NULL
          BY <3>2, HitsFacts
        <5> QED BY <5>2, <5>3
      <4>5. f[d+1][q] = IF pid[q] = id THEN q ELSE IF H = {} THEN NULL ELSE f[d][z]
        BY <1>5, <2>1, <3>2
      <4> HIDE DEF H, z
      <4>6. f[d+1][q] # NULL
        BY <1>6, <3>2, <4>4, <4>5
      <4> QED BY <4>6 DEF q
    <3> QED BY <3>4, <3>5
  <2> HIDE DEF Fine
  <2>4. n \in Fine /\ n <= d+1
    <3>1. n \in Nat /\ n <= d+1
      OBVIOUS
    <3>2. \A m \in Nat : m \in Fine
      BY <2>2, <2>3, SetInduction
    <3> QED BY <3>1, <3>2
  <2> QED BY <2>4 DEF Fine
<1> HIDE DEF Good
<1>9. MaxProc \in Good
  BY <1>3, <1>7, <1>8, SetInduction
<1>10. FindPcbByPid(Root(c), id) # NULL
  BY <1>1, <1>3, <1>4, <1>9 DEF Good, IsSearch
<1> DEFINE q == FindPcbByPid(Root(c), id)
<1>11. q \in Pcbs /\ ~IsFree(Lists, q) /\ pid[q] = id
  BY <1>10, RootIsRoot, FoundHasPid
<1> HIDE DEF q
<1>12. q = c
  BY <1>11 DEF IInv, Numbered
<1> QED BY <1>12 DEF q

----------------------------------------------------------------------------
(* initPcbs, and the first process *)

\* The links before initPcbs, and the recursive function in Init up to n.
Single == [next |-> [n \in Structs |-> n], prev |-> [n \in Structs |-> n]]
TableStep(f, p) == IF p = 0 THEN Single ELSE Freed(f[p-1], p)
IsTable(f, n) == f = [p \in 0..n |-> TableStep(f, p)]

LEMMA TableExists == \A n \in Nat : \E f : IsTable(f, n)
<1> DEFINE Good == {n \in Nat : \E f : IsTable(f, n)}
<1>1. 0 \in Good
  <2> DEFINE f == [p \in 0..0 |-> Single]
  <2>1. \A p \in 0..0 : TableStep(f, p) = Single
    BY DEF TableStep
  <2>2. IsTable(f, 0)
    BY <2>1 DEF IsTable
  <2> QED BY <2>2
<1>2. ASSUME NEW n \in Nat, n \in Good PROVE n+1 \in Good
  <2>1. PICK f : IsTable(f, n)
    BY <1>2
  <2> DEFINE g == [p \in 0..(n+1) |-> TableStep(f, p)]
  <2>2. \A p \in 0..n : g[p] = f[p]
    BY <2>1 DEF IsTable
  <2> HIDE DEF g
  <2>3. \A p \in 0..(n+1) : TableStep(f, p) = TableStep(g, p)
    <3>1. TableStep(f, 0) = TableStep(g, 0)
      BY DEF TableStep
    <3>2. ASSUME NEW p \in 1..(n+1) PROVE TableStep(f, p) = TableStep(g, p)
      <4>1. f[p-1] = g[p-1]
        BY <2>2
      <4> QED BY <4>1 DEF TableStep
    <3>3. \A p \in 0..(n+1) : p = 0 \/ p \in 1..(n+1)
      OBVIOUS
    <3> QED BY <3>1, <3>2, <3>3
  <2>4. IsTable(g, n+1)
    BY <2>3 DEF IsTable, g
  <2>5. n+1 \in Nat
    OBVIOUS
  <2> QED BY <2>4, <2>5
<1> HIDE DEF Good
<1>3. \A n \in Nat : n \in Good
  BY <1>1, <1>2, SetInduction
<1> QED BY <1>3 DEF Good

\* All lists empty but the free list, which is s.
OnlyFree(s) == [h \in Heads |-> IF h = PcbFreeH THEN s ELSE <<>>]

\* After initPcbs all PCBs are in the free list, the last one first.
LEMMA TableHolds ==
  ASSUME NEW f, IsTable(f, MaxProc)
  PROVE  \E s \in Seq(PLists) :
           /\ Range(s) = PLists /\ 1 \in 1..Len(s) /\ s[1] = PList(MaxProc)
           /\ Holds(f[MaxProc], Structs, OnlyFree(s))
<1> DEFINE Fine(n) == \E s \in Seq(PLists) :
                        /\ Range(s) = {PList(p) : p \in 1..n}
                        /\ n # 0 => 1 \in 1..Len(s) /\ s[1] = PList(n)
                        /\ Holds(f[n], Structs, OnlyFree(s))
           Good == {n \in Nat : n <= MaxProc => Fine(n)}
<1>1. MaxProc \in Nat /\ MaxProc # 0
  BY MaxProcAssumption
<1>2. \A p \in 0..MaxProc : f[p] = TableStep(f, p)
  BY DEF IsTable
<1>3. 0 \in Good
  <2>1. f[0] = Single
    BY <1>1, <1>2 DEF TableStep
  <2>2. \A s : s = <<>> => s \in Seq(PLists)
    OBVIOUS
  <2> DEFINE s == <<>>
  <2>3. s \in Seq(PLists) /\ Range(s) = {}
    BY <2>2, EmptyRange
  <2>4. Holds(f[0], Structs, OnlyFree(s))
    <3>1. Heads \in SUBSET Structs
      BY StructsDiffer
    <3>2. OnlyFree(s) = [h \in Heads |-> <<>>]
      BY DEF OnlyFree
    <3> QED BY <2>1, <3>1, <3>2, NothingLinked DEF Single
  <2> HIDE DEF s
  <2>5. Range(s) = {PList(p) : p \in 1..0}
    BY <2>3
  <2>6. Fine(0)
    BY <2>3, <2>4, <2>5
  <2> QED BY <2>6
<1>4. ASSUME NEW n \in Nat, n \in Good PROVE n+1 \in Good
  <2> SUFFICES ASSUME n+1 <= MaxProc PROVE Fine(n+1)
    OBVIOUS
  <2>1. Fine(n) /\ n+1 \in Pcbs
    BY <1>1, <1>4 DEF Pcbs
  <2>2. PICK s \in Seq(PLists) :
          /\ Range(s) = {PList(p) : p \in 1..n}
          /\ Holds(f[n], Structs, OnlyFree(s))
    BY <2>1
  <2> DEFINE x == PList(n+1)
             t == <<x>> \o s
             L == OnlyFree(s)
  <2>3. f[n+1] = ListAdd(f[n], x, PcbFreeH)
    <3>1. n+1 \in 0..MaxProc /\ n+1 # 0 /\ (n+1)-1 = n
      BY <1>1
    <3> QED BY <1>2, <3>1 DEF TableStep, Freed
  <2>4. /\ DOMAIN L = Heads /\ PcbFreeH \in Heads /\ L[PcbFreeH] = s
        /\ \A h \in Heads : h # PcbFreeH => L[h] = <<>>
    BY DEF OnlyFree, Heads
  <2>5. x \in PLists /\ x \in Structs \ Heads
    BY <2>1, StructsDiffer DEF PLists
  <2>6. x \notin Range(s)
    <3>1. \A p \in 1..n : p \in Pcbs /\ p # n+1
      BY <1>1, <2>1 DEF Pcbs
    <3>2. \A p \in 1..n : PList(p) # x
      BY <2>1, <3>1, StructsDiffer
    <3> QED BY <2>2, <3>2
  <2>7. Loose(L, x)
    BY <2>4, <2>5, <2>6, EmptyRange DEF Loose
  <2>8. Holds(f[n+1], Structs, [L EXCEPT ![PcbFreeH] = t])
    <3> HIDE DEF L, x
    <3>1. Holds(f[n], Structs, L)
      BY <2>2 DEF L
    <3>2. Holds(ListAdd(f[n], x, PcbFreeH), Structs,
                [L EXCEPT ![PcbFreeH] = <<x>> \o L[PcbFreeH]])
      BY <2>4, <2>5, <2>7, <3>1, ListOperations
    <3> QED BY <2>3, <2>4, <3>2
  <2>9. [L EXCEPT ![PcbFreeH] = t] = OnlyFree(t)
    BY DEF OnlyFree
  <2>10. /\ t \in Seq(PLists) /\ Range(t) = Range(s) \cup {x}
         /\ 1 \in 1..Len(t) /\ t[1] = x
    <3> HIDE DEF x
    <3>1. t \in Seq(PLists) /\ Inserted(t, s, x, 1) /\ Len(s) \in Nat
      BY <2>2, <2>5, EndsInsert
    <3> HIDE DEF t
    <3>2. 1 \in 1..Len(t) /\ t[1] = x
      BY <3>1 DEF Inserted
    <3> QED BY <2>2, <2>5, <3>1, <3>2, InsertedRange
  <2>11. Range(t) = {PList(p) : p \in 1..n+1}
    <3> HIDE DEF t
    <3>1. \A p : p \in 1..n+1 <=> p \in 1..n \/ p = n+1
      OBVIOUS
    <3> QED BY <2>2, <2>10, <3>1
  <2> HIDE DEF t, L
  <2> QED BY <2>8, <2>9, <2>10, <2>11
<1> HIDE DEF Good
<1>5. MaxProc \in Good
  BY <1>1, <1>3, <1>4, SetInduction
<1> QED BY <1>1, <1>5 DEF Good, Pcbs, PLists

LEMMA Initially == Init => IInv /\ \A p \in Pcbs : IsFree(Lists, p) <=> p # MaxProc
<1> SUFFICES ASSUME Init PROVE IInv /\ \A p \in Pcbs : IsFree(Lists, p) <=> p # MaxProc
  OBVIOUS
<1> DEFINE f == CHOOSE g : IsTable(g, MaxProc)
           p == MaxProc
<1>1. links = Allocated(f[MaxProc], p)
  BY DEF Init, IsTable, TableStep, Single
<1>2. IsTable(f, MaxProc)
  BY TableExists, MaxProcAssumption
<1> HIDE DEF f
<1>3. p \in Pcbs /\ NULL \notin Pcbs
  BY PcbsFacts
<1>4. PICK s \in Seq(PLists) :
        /\ Range(s) = PLists /\ 1 \in 1..Len(s) /\ s[1] = PList(p)
        /\ Holds(f[MaxProc], Structs, OnlyFree(s))
  BY <1>2, TableHolds
<1> DEFINE L == OnlyFree(s)
           t == RemoveAt(s, 1)
           M == OnlyFree(t)
           m == ListDel(f[MaxProc], PList(p))
<1>5. /\ DOMAIN L = Heads /\ L[PcbFreeH] = s /\ PcbFreeH \in Heads
      /\ DOMAIN M = Heads /\ M = [h \in Heads |-> M[h]] /\ M[PcbFreeH] = t
      /\ \A h \in Heads : h # PcbFreeH => M[h] = <<>>
      /\ M = [L EXCEPT ![PcbFreeH] = t]
  BY StructsDiffer DEF OnlyFree
<1>6. NoRepetition(s)
  <2>1. Holds(f[MaxProc], Structs, L) /\ PcbFreeH \in DOMAIN L
    BY <1>4, <1>5
  <2> HIDE DEF L
  <2>2. NoRepetition(L[PcbFreeH])
    BY <2>1, ListsApart
  <2> QED BY <1>5, <2>2
<1>7. t \in Seq(PLists) /\ Range(t) = PLists \ {PList(p)}
  <2>1. t \in Seq(PLists) /\ Removed(t, s, 1)
    BY <1>4, RemoveAtRemoves
  <2> HIDE DEF t
  <2> QED BY <1>4, <1>6, <2>1, RemovedResult
\* list_del
<1>8. Holds(m, Structs, M)
  <2>1. Holds(f[MaxProc], Structs, L) /\ PcbFreeH \in DOMAIN L
    BY <1>4, <1>5
  <2> HIDE DEF L
  <2>2. \A x \in 1..Len(L[PcbFreeH]) :
          Holds(ListDel(f[MaxProc], L[PcbFreeH][x]), Structs,
                [L EXCEPT ![PcbFreeH] = RemoveAt(L[PcbFreeH], x)])
    BY <2>1, ListOperations
  <2> HIDE DEF M
  <2> QED BY <1>4, <1>5, <2>2
<1> HIDE DEF M, p, t, m
\* INIT_LIST_HEAD, twice, of empty lists
<1>9. InitListHead(m, PChild(p)) = m
  <2>1. PChild(p) \in DOMAIN M /\ M[PChild(p)] = <<>>
    BY <1>3, <1>5, StructsDiffer
  <2> QED BY <1>8, <2>1, EmptyIsAlone
<1>10. InitListHead(m, PSib(p)) = m
  <2>1. PSib(p) \in Structs \ Heads
    BY <1>3, StructsDiffer
  <2>2. PSib(p) \notin PLists
    BY <1>3, StructsDiffer DEF PLists
  <2>3. Loose(M, PSib(p))
    BY <1>5, <1>7, <2>1, <2>2, EmptyRange DEF Loose
  <2>4. Alone(m, PSib(p)) /\ m \in Memories(Structs)
    BY <1>8, <2>1, <2>3, LooseFacts DEF Holds, Whole
  <2> QED BY <2>1, <2>4, InitListHeadAlone
<1>11. Holds(links, Structs, M)
  BY <1>1, <1>8, <1>9, <1>10 DEF Allocated, m
<1>12. Lists = M
  BY <1>5, <1>11, ListsAre DEF Lists
<1>13. \A q \in Pcbs : IsFree(M, q) <=> q # p
  BY <1>3, <1>5, <1>7, StructsDiffer DEF IsFree, PLists
<1>14. /\ parent = [q \in Pcbs |-> NULL]
       /\ pid = [q \in Pcbs |-> IF q = p THEN 1 ELSE 0]
       /\ nextPid = 2 /\ calls = <<>> /\ request = NULL
  BY DEF Init, p
<1>15. \A q \in Pcbs : M[PChild(q)] = <<>>
  BY <1>5, StructsDiffer
<1>16. \A e : e = <<>> =>
         Len(e) = 0 /\ e \in Seq(PSibs) /\ e \in Seq(Pcbs) /\ NoRepetition(e)
  BY DEF NoRepetition
<1>17. Linked(M, parent)
  <2>1. M[PcbFreeH] \in Seq(PLists)
    BY <1>5, <1>7
  <2>2. \A q \in Pcbs : M[PChild(q)] \in Seq(PSibs) /\ Range(M[PChild(q)]) = {}
    BY <1>15, <1>16, EmptyRange
  <2> QED BY <1>3, <1>14, <1>15, <2>1, <2>2 DEF Linked
<1>18. Numbered(M, parent, pid, nextPid)
  <2>1. \A q \in Pcbs : pid[q] < nextPid
    BY <1>14
  <2>2. \A q \in Pcbs : ~IsFree(M, q) => pid[q] >= 1
    BY <1>13, <1>14
  <2>3. \A q, r \in Pcbs : ~IsFree(M, q) /\ ~IsFree(M, r) /\ pid[q] = pid[r] => q = r
    BY <1>13
  <2>4. \A q \in Pcbs : Len(M[PChild(q)]) = 0
    BY <1>15, <1>16
  <2> QED BY <1>14, <2>1, <2>2, <2>3, <2>4 DEF Numbered
<1>19. Rooted(M, parent, calls)
  <2>1. NoRepetition(calls) /\ Len(calls) = 0
    BY <1>14, <1>16
  <2> QED BY <1>13, <2>1 DEF Rooted
<1>20. TypeOK
  <2>1. links \in Memories(Structs)
    BY <1>11 DEF Holds, Whole
  <2>2. pid \in [Pcbs -> 0..MaxPid] /\ nextPid \in 1..MaxPid+1 /\ request \in 0..MaxPid
    <3>1. MaxPid \in Nat /\ MaxPid >= 1
      BY MaxPidAssumption
    <3>2. 0 \in 0..MaxPid /\ 1 \in 0..MaxPid /\ 2 \in 1..MaxPid+1
      BY <3>1
    <3> QED BY <1>14, <3>2 DEF NULL
  <2> QED BY <1>14, <1>16, <2>1, <2>2 DEF TypeOK
<1> QED BY <1>11, <1>12, <1>13, <1>17, <1>18, <1>19, <1>20 DEF IInv, p

----------------------------------------------------------------------------
(* The invariant *)

LEMMA StutterKeeps == IInv /\ UNCHANGED vars => IInv' /\ Lists' = Lists
<1> SUFFICES ASSUME IInv, UNCHANGED vars PROVE IInv' /\ Lists' = Lists
  OBVIOUS
<1>1. UNCHANGED <<links, parent, pid, nextPid, calls, request>>
  BY DEF vars
<1>2. Lists' = Lists
  BY <1>1 DEF Lists
<1> QED BY <1>1, <1>2 DEF IInv, TypeOK

\* TERMPROCESS never takes more than a live process for its target.
LEMMA TargetIsLive ==
  ASSUME IInv, NEW c \in Live, NEW id, Target(c, id) # NULL
  PROVE  /\ Target(c, id) \in Pcbs /\ ~IsFree(Lists, Target(c, id))
         /\ pid[Target(c, id)] = IF id = 0 THEN pid[c] ELSE id
<1>1. c \in Pcbs /\ ~IsFree(Lists, c)
  BY LiveAreNotFree
<1>2. CASE id = 0
  BY <1>1, <1>2 DEF Target
<1>3. CASE id # 0
  <2>1. Target(c, id) = FindPcbByPid(Root(c), id)
    BY <1>3 DEF Target
  <2>2. Root(c) \in Pcbs /\ ~IsFree(Lists, Root(c))
    BY <1>1, RootIsRoot
  <2> QED BY <1>3, <2>1, <2>2, FoundHasPid
<1> QED BY <1>2, <1>3

\* TerminateProcess cuts its target off, and frees nothing yet.
LEMMA TerminateDoes ==
  ASSUME IInv, NEW c \in Live, NEW id \in 0..MaxPid, TerminateProcess(c, id),
         Target(c, id) # NULL
  PROVE  IInv' /\ \A q \in Pcbs : IsFree(Lists', q) <=> IsFree(Lists, q)
<1> DEFINE t == Target(c, id)
<1>1. /\ calls = <<>> /\ calls' = <<t>> /\ UNCHANGED <<pid, nextPid>>
      /\ parent' = [parent EXCEPT ![t] = NULL]
      /\ links' = IF parent[t] = NULL THEN links ELSE ChildCut(links, t)
      /\ request' = IF id = 0 THEN pid[c] ELSE id
  BY DEF TerminateProcess, Idle
<1>2. t \in Pcbs /\ ~IsFree(Lists, t)
  BY TargetIsLive
<1> HIDE DEF t
<1>3. request' \in 0..MaxPid
  <2>1. c \in Pcbs /\ pid \in [Pcbs -> 0..MaxPid]
    BY LiveAreNotFree DEF IInv, TypeOK
  <2> QED BY <1>1, <2>1
<1>4. CASE parent[t] # NULL
  <2>1. calls' = Append(calls, t)
    BY <1>1
  <2> QED BY <1>1, <1>2, <1>3, <1>4, <2>1, CutDoes
<1>5. CASE parent[t] = NULL
  <2>1. UNCHANGED <<links, parent>>
    <3>1. parent \in [Pcbs -> Pcbs \cup {NULL}]
      BY DEF IInv, TypeOK
    <3> QED BY <1>1, <1>5, <3>1
  <2>2. Lists' = Lists
    BY <2>1 DEF Lists
  <2> DEFINE cs == <<t>>
  <2>3. cs \in Seq(Pcbs) /\ Len(cs) = 1 /\ cs[1] = t
    BY <1>2
  <2> HIDE DEF cs
  <2>4. Rooted(Lists, parent, cs)
    <3>1. Range(cs) = {cs[i] : i \in 1..Len(cs)} /\ NoRepetition(cs)
      BY <2>3, RangeEquality DEF NoRepetition
    <3>2. Len(calls) = 0 /\ Range(calls) = {}
      BY <1>1, EmptyRange
    <3>3. \A p, q \in Pcbs :
            ~IsFree(Lists, p) /\ parent[p] = NULL /\ ~IsFree(Lists, q) /\ parent[q] = NULL
              => p = q
      BY <3>2 DEF IInv, Rooted
    <3> QED BY <1>2, <1>5, <2>3, <3>1, <3>3 DEF Rooted
  <2> QED BY <1>1, <1>3, <2>1, <2>2, <2>3, <2>4 DEF IInv, TypeOK, cs
<1> QED BY <1>4, <1>5

\* A call of the recursion for the first child of the process of its caller.
LEMMA DescendDoes ==
  ASSUME IInv, Descend
  PROVE  /\ IInv' /\ \A q \in Pcbs : IsFree(Lists', q) <=> IsFree(Lists, q)
         /\ Last(calls) \in Pcbs
         /\ \E c \in Pcbs : /\ parent[c] = Last(calls)
                            /\ parent' = [parent EXCEPT ![c] = NULL]
                            /\ calls' = Append(calls, c)
<1> DEFINE p == Last(calls)
           h == PChild(p)
           c == links.next[h][2]
<1>1. /\ calls # <<>> /\ ~ListEmpty(links, h) /\ links' = ChildCut(links, c)
      /\ parent' = [parent EXCEPT ![c] = NULL] /\ calls' = Append(calls, c)
      /\ UNCHANGED <<pid, nextPid, request>>
  BY DEF Descend, Idle
<1>2. p \in Pcbs
  <2>1. calls \in Seq(Pcbs)
    BY DEF IInv, TypeOK
  <2>2. Len(calls) \in Nat \ {0}
    BY <1>1, <2>1, EmptySeq
  <2> QED BY <2>1, <2>2, ElementOfSeq DEF Last
<1> DEFINE s == Lists[h]
<1>3. h \in Heads /\ s \in Seq(PSibs)
  <2> HIDE DEF p
  <2> QED BY <1>2, StructsDiffer DEF IInv, Linked
<1>4. s # <<>> /\ 1 \in 1..Len(s) /\ links.next[h] = s[1]
  <2> HIDE DEF h
  <2> QED BY <1>1, <1>3, FirstOf
<1>5. c \in Pcbs /\ PSib(c) = s[1] /\ PSib(c) \in Range(s)
  <2> HIDE DEF s
  <2>1. Range(s) = {s[i] : i \in 1..Len(s)}
    BY <1>3, RangeEquality
  <2> QED BY <1>3, <1>4, <2>1, LinksFacts
<1> HIDE DEF c
<1>6. parent[c] = p
  <2> HIDE DEF p
  <2> QED BY <1>2, <1>5 DEF IInv, Linked
<1>7. parent[c] # NULL
  BY <1>2, <1>6, PcbsFacts
<1>8. request' \in 0..MaxPid
  BY <1>1 DEF IInv, TypeOK
<1>9. IInv' /\ \A q \in Pcbs : IsFree(Lists', q) <=> IsFree(Lists, q)
  BY <1>1, <1>5, <1>7, <1>8, CutDoes
<1> QED BY <1>1, <1>2, <1>5, <1>6, <1>9

\* IInv is inductive.
LEMMA NextKeepsIInv == IInv /\ [Next]_vars => IInv'
<1> SUFFICES ASSUME IInv, [Next]_vars PROVE IInv'
  OBVIOUS
<1>1. ASSUME NEW c \in Live, CreateProcess(c) PROVE IInv'
  <2>1. CASE ListEmpty(links, PcbFreeH)
    <3>1. UNCHANGED vars
      BY <1>1, <2>1 DEF CreateProcess
    <3> QED BY <3>1, StutterKeeps
  <2>2. CASE ~ListEmpty(links, PcbFreeH)
    BY <1>1, <2>2, CreateDoes
  <2> QED BY <2>1, <2>2
<1>2. ASSUME NEW c \in Live, NEW id \in 0..MaxPid, TerminateProcess(c, id)
      PROVE  IInv'
  <2>1. CASE Target(c, id) = NULL
    <3>1. UNCHANGED vars
      BY <1>2, <2>1 DEF TerminateProcess
    <3> QED BY <3>1, StutterKeeps
  <2>2. CASE Target(c, id) # NULL
    BY <1>2, <2>2, TerminateDoes
  <2> QED BY <2>1, <2>2
<1>3. CASE Descend
  BY <1>3, DescendDoes
<1>4. CASE Return
  BY <1>4, ReturnDoes
<1>5. CASE UNCHANGED vars
  BY <1>5, StutterKeeps
<1> QED BY <1>1, <1>2, <1>3, <1>4, <1>5 DEF Next, Termination

\* Whatever is created and terminated, the lists of children, p_parent, the
\* free list and the pids agree as IInv says, between any two steps of a
\* termination too.
THEOREM IInvHolds == Spec => []IInv
<1>1. Init => IInv
  BY Initially
<1> QED BY <1>1, NextKeepsIInv, PTL DEF Spec

\* The links, p_parent, pids and calls have their types.
THEOREM TypeCorrect == Spec => []TypeOK
<1>1. IInv => TypeOK
  BY DEF IInv
<1> QED BY <1>1, IInvHolds, PTL

\* No link is ever broken, and between two calls the children of a process
\* are those whose p_parent it is, eldest first.
THEOREM TreeConsistentHolds == Spec => []TreeConsistent
<1>1. IInv => TreeConsistent
  <2> SUFFICES ASSUME IInv PROVE TreeConsistent
    OBVIOUS
  <2>1. Circular(links)
    BY DEF IInv, Holds, Whole
  <2>2. ASSUME NEW p \in Live
        PROVE  /\ Range(Children(p)) = {c \in Live : parent[c] = p}
               /\ \A i, j \in 1..Len(Children(p)) :
                    i < j => pid[Children(p)[i]] < pid[Children(p)[j]]
    <3> DEFINE s == Lists[PChild(p)]
               o == Children(p)
    <3>1. p \in Pcbs
      BY LiveAreNotFree
    <3>2. /\ s \in Seq(PSibs) /\ o \in Seq(Pcbs) /\ Len(o) = Len(s)
          /\ \A i \in 1..Len(s) : o[i] = s[i][2]
          /\ \A c \in Pcbs : c \in Range(o) <=> parent[c] = p
      BY <3>1, ChildrenAre
    <3>3. \A i, j \in 1..Len(s) : i < j => pid[s[i][2]] < pid[s[j][2]]
      BY <3>1 DEF IInv, Numbered
    <3> HIDE DEF s, o
    <3>4. \A c \in Range(o) : c \in Pcbs
      <4>1. Range(o) = {o[i] : i \in 1..Len(o)}
        BY <3>2, RangeEquality
      <4> QED BY <3>2, <4>1, ElementOfSeq
    <3>5. \A c \in Pcbs : parent[c] = p => c \in Live
      BY <3>1, PcbsFacts, ParentIsLive, LiveAreNotFree
    <3>6. \A c \in Live : c \in Pcbs
      BY LiveAreNotFree
    <3>7. Range(o) = {c \in Live : parent[c] = p}
      BY <3>2, <3>4, <3>5, <3>6
    <3>8. \A i, j \in 1..Len(o) : i < j => pid[o[i]] < pid[o[j]]
      BY <3>2, <3>3
    <3> QED BY <3>7, <3>8 DEF o
  <2> QED BY <2>1, <2>2 DEF TreeConsistent
<1> QED BY <1>1, IInvHolds, PTL

\* From any process findPcbByPid finds any other by its pid: the way up ends
\* at the root, within as many steps as there are PCBs, and the recursion
\* down from there comes to it no deeper than that.
THEOREM PidsFoundHolds == Spec => []PidsFound
<1>1. IInv => PidsFound
  <2> SUFFICES ASSUME IInv, Idle, NEW c \in Live, NEW p \in Live
               PROVE  FindPcbByPid(Root(c), pid[p]) = p
    BY DEF PidsFound
  <2>1. c \in Pcbs /\ ~IsFree(Lists, c) /\ p \in Pcbs /\ ~IsFree(Lists, p)
    BY LiveAreNotFree
  <2>2. FindPcbByPid(Root(p), pid[p]) = p
    BY <2>1, AncestorFinds
  <2>3. Root(c) = Root(p)
    <3>1. /\ Root(c) \in Pcbs /\ ~IsFree(Lists, Root(c)) /\ parent[Root(c)] = NULL
          /\ Root(p) \in Pcbs /\ ~IsFree(Lists, Root(p)) /\ parent[Root(p)] = NULL
      BY <2>1, RootIsRoot
    <3>2. Range(calls) = {}
      BY EmptyRange DEF Idle
    <3> QED BY <3>1, <3>2 DEF IInv, Rooted
  <2> QED BY <2>2, <2>3
<1> QED BY <1>1, IInvHolds, PTL

----------------------------------------------------------------------------
(* The family of pids *)

\* What Family is, without its CHOOSE: no two processes have one pid.
IsTheFamily(F) ==
  /\ DOMAIN F = {pid[p] : p \in Live} /\ F = [id \in DOMAIN F |-> F[id]]
  /\ \A p \in Live :
       F[pid[p]] = IF parent[p] = NULL THEN NULL ELSE pid[parent[p]]

FamilyRead == IsTheFamily(Family) /\ \A F : IsTheFamily(F) => F = Family

LEMMA FamilyIs == IInv => FamilyRead
<1> SUFFICES ASSUME IInv PROVE FamilyRead
  OBVIOUS
<1>1. \A p, q \in Live : pid[p] = pid[q] => p = q
  BY LiveAreNotFree DEF IInv, Numbered
<1>2. DOMAIN Family = {pid[p] : p \in Live} /\ Family = [id \in DOMAIN Family |-> Family[id]]
  BY DEF Family
<1>3. ASSUME NEW p \in Live
      PROVE  Family[pid[p]] = IF parent[p] = NULL THEN NULL ELSE pid[parent[p]]
  <2> DEFINE o == CHOOSE q \in Live : pid[q] = pid[p]
  <2>1. o \in Live /\ pid[o] = pid[p]
    OBVIOUS
  <2>2. Family[pid[p]] = IF parent[o] = NULL THEN NULL ELSE pid[parent[o]]
    BY DEF Family
  <2> HIDE DEF o
  <2> QED BY <1>1, <2>1, <2>2
<1>4. ASSUME NEW F, IsTheFamily(F) PROVE F = Family
  <2>1. DOMAIN F = DOMAIN Family /\ \A id \in DOMAIN F : F[id] = Family[id]
    BY <1>2, <1>3, <1>4 DEF IsTheFamily
  <2>2. F = [id \in DOMAIN F |-> F[id]]
    BY <1>4 DEF IsTheFamily
  <2> QED BY <1>2, <2>1, <2>2
<1> QED BY <1>2, <1>3, <1>4 DEF IsTheFamily, FamilyRead

\* Progeny, of any family.
Below(F, id) ==
  {x \in DOMAIN F : \A S \in SUBSET DOMAIN F :
     (id \in S /\ \A c \in DOMAIN F : F[c] \in S => c \in S) => x \in S}

LEMMA BelowFacts ==
  ASSUME NEW F, NEW id \in DOMAIN F
  PROVE  /\ id \in Below(F, id)
         /\ \A c \in DOMAIN F : F[c] \in Below(F, id) => c \in Below(F, id)
         /\ \A S \in SUBSET DOMAIN F :
              id \in S /\ (\A c \in DOMAIN F : F[c] \in S => c \in S)
              => Below(F, id) \subseteq S
BY DEF Below

\* While a termination is under way: those no longer alive belonged to the
\* progeny, as those do whose calls are under way, and the others have the
\* parents they had.
Underway ==
  /\ request \in DOMAIN before /\ NULL \notin DOMAIN before
  /\ before = [id \in DOMAIN before |-> before[id]]
  /\ pid[calls[1]] = request
  /\ \A i \in 1..Len(calls) : pid[calls[i]] \in Below(before, request)
  /\ \A p \in Live :
       /\ pid[p] \in DOMAIN before
       /\ parent[p] # NULL => before[pid[p]] = pid[parent[p]]
       /\ parent[p] = NULL /\ p \notin Range(calls) => before[pid[p]] = NULL
  /\ \A id \in DOMAIN before :
       (\E p \in Live : pid[p] = id) \/ id \in Below(before, request)

FamilyInv == IF Idle THEN request = NULL ELSE Underway

\* The abstract variables.
LEMMA AbstractIs ==
  /\ Idle => ProcessFamily!vars = <<Family, nextPid, request>>
  /\ ~Idle => ProcessFamily!vars = <<before, nextPid, request>>
BY DEF ProcessFamily!vars

LEMMA AbstractIsNext ==
  /\ Idle' => ProcessFamily!vars' = <<Family', nextPid', request'>>
  /\ ~Idle' => ProcessFamily!vars' = <<before', nextPid', request'>>
BY DEF ProcessFamily!vars

LiveRead == \A p : p \in Live <=> p \in Pcbs /\ ~IsFree(Lists, p)

LEMMA LiveIs == IInv => LiveRead
BY LiveAreNotFree DEF LiveRead

\* A step from one family to another.
LEMMA FamilyAfter ==
  ASSUME IInv', NEW F, F = [id \in DOMAIN F |-> F[id]],
         DOMAIN F = {pid'[p] : p \in Live'},
         \A p \in Live' :
           F[pid'[p]] = IF parent'[p] = NULL THEN NULL ELSE pid'[parent'[p]]
  PROVE  Family' = F
<1>1. IInv' => FamilyRead'
  BY FamilyIs, PTL
<1>2. IsTheFamily(F)'
  BY DEF IsTheFamily
<1> QED BY <1>1, <1>2 DEF FamilyRead

\* What the family says of pids in use.
LEMMA FamilyFacts ==
  ASSUME IInv
  PROVE  /\ DOMAIN Family = {pid[p] : p \in Live}
         /\ Family = [id \in DOMAIN Family |-> Family[id]]
         /\ \A p \in Live : pid[p] \in DOMAIN Family /\
              Family[pid[p]] = IF parent[p] = NULL THEN NULL ELSE pid[parent[p]]
         /\ \A id \in DOMAIN Family : id # NULL /\ id # nextPid
         /\ \A p, q \in Live : pid[p] = pid[q] => p = q
<1>1. IsTheFamily(Family)
  BY FamilyIs DEF FamilyRead
<1>2. \A p \in Live : p \in Pcbs /\ ~IsFree(Lists, p)
  BY LiveAreNotFree
<1>3. \A p, q \in Live : pid[p] = pid[q] => p = q
  BY <1>2 DEF IInv, Numbered
<1>4. \A p \in Live : pid[p] # NULL /\ pid[p] # nextPid
  <2> SUFFICES ASSUME NEW p \in Live PROVE pid[p] # NULL /\ pid[p] # nextPid
    OBVIOUS
  <2>1. pid[p] >= 1 /\ pid[p] < nextPid /\ pid[p] \in 0..MaxPid /\ nextPid \in 1..MaxPid+1
    BY <1>2 DEF IInv, Numbered, TypeOK
  <2> QED BY <2>1, MaxPidAssumption DEF NULL
<1> QED BY <1>1, <1>3, <1>4 DEF IsTheFamily

LEMMA CreateRefines ==
  ASSUME IInv, FamilyInv, NEW c \in Live, CreateProcess(c), ~ListEmpty(links, PcbFreeH)
  PROVE  FamilyInv' /\ ProcessFamily!Next
<1>1. Idle /\ nextPid' = nextPid+1 /\ UNCHANGED <<calls, request, before>>
  BY DEF CreateProcess
<1>2. IInv'
  BY CreateDoes
<1>3. PICK p \in Pcbs :
        /\ IsFree(Lists, p)
        /\ \A q \in Pcbs : IsFree(Lists', q) <=> IsFree(Lists, q) /\ q # p
        /\ parent' = [parent EXCEPT ![p] = c]
        /\ pid' = [pid EXCEPT ![p] = nextPid]
  BY CreateDoes
<1>4. LiveRead /\ LiveRead'
  <2>1. IInv' => LiveRead'
    BY LiveIs, PTL
  <2> QED BY <1>2, <2>1, LiveIs
<1>5. \A q : q \in Live' <=> q \in Live \/ q = p
  BY <1>3, <1>4 DEF LiveRead
<1>6. p \notin Live /\ c \in Pcbs /\ c # p /\ NULL \notin Pcbs
      /\ \A q \in Live : q \in Pcbs
  BY <1>3, <1>4, PcbsFacts DEF LiveRead
<1>7. parent \in [Pcbs -> Pcbs \cup {NULL}] /\ pid \in [Pcbs -> 0..MaxPid]
  BY DEF IInv, TypeOK
<1>8. /\ parent'[p] = c /\ pid'[p] = nextPid
      /\ \A q \in Pcbs : q # p => parent'[q] = parent[q] /\ pid'[q] = pid[q]
  BY <1>3, <1>7
<1> DEFINE D == DOMAIN Family
           by == pid[c]
           F == [id \in D \cup {nextPid} |-> IF id = nextPid THEN by ELSE Family[id]]
<1>9. /\ D = {pid[q] : q \in Live} /\ nextPid \notin D /\ by \in D
      /\ \A q \in Live : pid[q] \in D /\
           Family[pid[q]] = IF parent[q] = NULL THEN NULL ELSE pid[parent[q]]
  BY FamilyFacts
<1>10. /\ DOMAIN F = D \cup {nextPid} /\ F = [id \in DOMAIN F |-> F[id]]
       /\ F[nextPid] = by /\ \A id \in D : F[id] = Family[id]
  BY <1>9
<1> HIDE DEF D, F
<1>11. DOMAIN F = {pid'[q] : q \in Live'}
  <2>1. \A q \in Live : pid'[q] = pid[q] /\ q \in Live'
    BY <1>5, <1>6, <1>8
  <2>2. p \in Live' /\ pid'[p] = nextPid
    BY <1>5, <1>8
  <2>3. \A q \in Live' : q \in Live \/ q = p
    BY <1>5
  <2> QED BY <1>9, <1>10, <2>1, <2>2, <2>3
<1>12. ASSUME NEW q \in Live'
       PROVE  F[pid'[q]] = IF parent'[q] = NULL THEN NULL ELSE pid'[parent'[q]]
  <2>1. CASE q = p
    BY <1>6, <1>8, <1>10, <2>1
  <2>2. CASE q # p
    <3>1. q \in Live /\ q \in Pcbs /\ parent'[q] = parent[q] /\ pid'[q] = pid[q]
      BY <1>5, <1>6, <1>8, <2>2
    <3>2. parent[q] # NULL => parent[q] \in Pcbs /\ parent[q] # p
      BY <1>3, <3>1, ParentIsLive
    <3>3. parent[q] # NULL => pid'[parent[q]] = pid[parent[q]]
      BY <1>8, <3>2
    <3> QED BY <1>9, <1>10, <3>1, <3>3
  <2> QED BY <2>1, <2>2
<1>13. Family' = F
  BY <1>2, <1>10, <1>11, <1>12, FamilyAfter
<1>14. Idle' /\ request = NULL
  BY <1>1 DEF Idle, FamilyInv
<1>15. FamilyInv'
  BY <1>1, <1>14 DEF FamilyInv
<1>16. ProcessFamily!Create(by)
  BY <1>1, <1>13, <1>14 DEF ProcessFamily!Create, F, D, NULL
<1>17. by \in DOMAIN (IF Idle THEN Family ELSE before)
  BY <1>1, <1>9 DEF D
<1>18. ProcessFamily!Next
  BY <1>16, <1>17 DEF ProcessFamily!Next
<1> QED BY <1>15, <1>18

\* TERMPROCESS, up to its first call.
LEMMA AskRefines ==
  ASSUME IInv, FamilyInv, NEW c \in Live, NEW id \in 0..MaxPid,
         TerminateProcess(c, id), Target(c, id) # NULL
  PROVE  FamilyInv' /\ ProcessFamily!Next
<1> DEFINE t == Target(c, id)
<1>1. /\ Idle /\ calls' = <<t>> /\ UNCHANGED <<pid, nextPid>> /\ before' = Family
      /\ parent' = [parent EXCEPT ![t] = NULL]
      /\ request' = IF id = 0 THEN pid[c] ELSE id
  BY DEF TerminateProcess
<1>2. t \in Pcbs /\ ~IsFree(Lists, t) /\ pid[t] = request'
  BY <1>1, TargetIsLive
<1>3. IInv' /\ \A q \in Pcbs : IsFree(Lists', q) <=> IsFree(Lists, q)
  BY TerminateDoes
<1> HIDE DEF t
<1>4. LiveRead /\ LiveRead'
  <2>1. IInv' => LiveRead'
    BY LiveIs, PTL
  <2> QED BY <1>3, <2>1, LiveIs
<1>5. \A q : q \in Live' <=> q \in Live
  BY <1>3, <1>4 DEF LiveRead
<1>6. t \in Live /\ (\A q \in Live : q \in Pcbs)
  BY <1>2, <1>4 DEF LiveRead
<1>7. /\ DOMAIN Family = {pid[p] : p \in Live}
      /\ Family = [i \in DOMAIN Family |-> Family[i]]
      /\ \A p \in Live : pid[p] \in DOMAIN Family /\
           Family[pid[p]] = IF parent[p] = NULL THEN NULL ELSE pid[parent[p]]
      /\ \A i \in DOMAIN Family : i # NULL
  BY FamilyFacts
<1>8. parent'[t] = NULL /\ \A q \in Pcbs : q # t => parent'[q] = parent[q]
  BY <1>1, <1>2 DEF IInv, TypeOK
<1> DEFINE cs == <<t>>
<1>9. Len(cs) = 1 /\ cs[1] = t /\ Range(cs) = {t} /\ ~Idle'
  <2>1. cs \in Seq(Pcbs) /\ Len(cs) = 1 /\ cs[1] = t
    BY <1>2
  <2> HIDE DEF cs
  <2>2. Range(cs) = {cs[i] : i \in 1..Len(cs)}
    BY <2>1, RangeEquality
  <2>3. calls' = cs /\ cs # <<>>
    <3>1. \A e : e = <<>> => Len(e) = 0
      OBVIOUS
    <3> QED BY <1>1, <2>1, <3>1 DEF cs
  <2> QED BY <2>1, <2>2, <2>3 DEF Idle
<1>10. calls' = cs
  BY <1>1
<1> HIDE DEF cs
<1>11. request' \in DOMAIN Family
  BY <1>2, <1>6, <1>7
<1>12. Underway'
  <2>1. request' \in DOMAIN before' /\ NULL \notin DOMAIN before'
        /\ before' = [i \in DOMAIN before' |-> before'[i]]
    BY <1>1, <1>7, <1>11
  <2>2. pid'[calls'[1]] = request'
    BY <1>1, <1>2, <1>9, <1>10
  <2>3. \A i \in 1..Len(calls') : pid'[calls'[i]] \in Below(before', request')
    BY <1>1, <1>9, <1>10, <1>11, <2>2, BelowFacts
  <2>4. ASSUME NEW p \in Live'
        PROVE  /\ pid'[p] \in DOMAIN before'
               /\ parent'[p] # NULL => before'[pid'[p]] = pid'[parent'[p]]
               /\ parent'[p] = NULL /\ p \notin Range(calls') => before'[pid'[p]] = NULL
    <3>1. p \in Live /\ p \in Pcbs /\ pid'[p] = pid[p] /\ before'[pid'[p]] = Family[pid[p]]
      BY <1>1, <1>5, <1>6
    <3>2. CASE p = t
      BY <1>1, <1>7, <1>8, <1>9, <1>10, <3>1, <3>2
    <3>3. CASE p # t
      BY <1>1, <1>7, <1>8, <3>1, <3>3
    <3> QED BY <3>2, <3>3
  <2>5. \A i \in DOMAIN before' : \E p \in Live' : pid'[p] = i
    BY <1>1, <1>5, <1>7
  <2> QED BY <2>1, <2>2, <2>3, <2>4, <2>5 DEF Underway
<1>13. request = NULL
  BY <1>1 DEF FamilyInv
<1>14. ProcessFamily!Ask(request')
  BY <1>1, <1>9, <1>13 DEF ProcessFamily!Ask, NULL
<1>15. ProcessFamily!Next
  <2>1. request' \in DOMAIN (IF Idle THEN Family ELSE before)
    BY <1>1, <1>11
  <2> QED BY <1>14, <2>1 DEF ProcessFamily!Next
<1> QED BY <1>9, <1>12, <1>15 DEF FamilyInv

\* A call of the recursion changes nothing that CREATEPROCESS and TERMPROCESS
\* promise.
LEMMA DescendRefines ==
  ASSUME IInv, FamilyInv, Descend
  PROVE  FamilyInv' /\ UNCHANGED ProcessFamily!vars
<1>1. ~Idle /\ UNCHANGED <<pid, nextPid, request, before>> /\ Underway
  BY DEF Descend, FamilyInv
<1> DEFINE p == Last(calls)
<1>2. /\ IInv' /\ p \in Pcbs
      /\ \A q \in Pcbs : IsFree(Lists', q) <=> IsFree(Lists, q)
  BY DescendDoes
<1>3. PICK c \in Pcbs : /\ parent[c] = p
                        /\ parent' = [parent EXCEPT ![c] = NULL]
                        /\ calls' = Append(calls, c)
  BY DescendDoes
<1>4. LiveRead /\ LiveRead'
  <2>1. IInv' => LiveRead'
    BY LiveIs, PTL
  <2> QED BY <1>2, <2>1, LiveIs
<1>5. \A q : q \in Live' <=> q \in Live
  BY <1>2, <1>4 DEF LiveRead
<1>6. /\ calls \in Seq(Pcbs) /\ calls # <<>>
      /\ Len(calls) \in Nat /\ Len(calls) >= 1 /\ p = calls[Len(calls)]
  BY <1>1, FrontFacts DEF IInv, TypeOK, Idle
<1> HIDE DEF p
<1>7. /\ Len(calls') = Len(calls)+1 /\ calls'[Len(calls)+1] = c
      /\ \A i \in 1..Len(calls) : calls'[i] = calls[i]
      /\ Range(calls') = Range(calls) \cup {c} /\ ~Idle'
  BY <1>3, <1>6, AppendProperties, AppendResult DEF Idle
<1>8. c \in Live /\ (\A q \in Live : q \in Pcbs) /\ parent[c] # NULL
  <2>1. parent[c] # NULL
    BY <1>2, <1>3, PcbsFacts
  <2> QED BY <1>3, <1>4, <2>1, ParentIsLive DEF LiveRead
<1>9. parent'[c] = NULL /\ \A q \in Pcbs : q # c => parent'[q] = parent[q]
  BY <1>3 DEF IInv, TypeOK
<1>10. Underway'
  <2>1. /\ request' \in DOMAIN before' /\ NULL \notin DOMAIN before'
        /\ before' = [i \in DOMAIN before' |-> before'[i]]
    BY <1>1 DEF Underway
  <2>2. pid'[calls'[1]] = request'
    <3>1. 1 \in 1..Len(calls)
      BY <1>6
    <3>2. calls'[1] = calls[1]
      BY <1>7, <3>1
    <3> QED BY <1>1, <3>2 DEF Underway
  <2>3. pid[c] \in Below(before, request)
    <3>1. Len(calls) \in 1..Len(calls)
      BY <1>6
    <3>2. pid[p] \in Below(before, request)
      BY <1>1, <1>6, <3>1 DEF Underway
    <3>3. pid[c] \in DOMAIN before /\ before[pid[c]] = pid[p]
      BY <1>1, <1>3, <1>8 DEF Underway
    <3>4. request \in DOMAIN before
      BY <1>1 DEF Underway
    <3> QED BY <3>2, <3>3, <3>4, BelowFacts
  <2>4. \A i \in 1..Len(calls') : pid'[calls'[i]] \in Below(before', request')
    <3> SUFFICES ASSUME NEW i \in 1..Len(calls')
                 PROVE  pid[calls'[i]] \in Below(before, request)
      BY <1>1
    <3>1. i \in 1..Len(calls) \/ i = Len(calls)+1
      BY <1>6, <1>7
    <3> QED BY <1>1, <1>7, <2>3, <3>1 DEF Underway
  <2>5. ASSUME NEW q \in Live'
        PROVE  /\ pid'[q] \in DOMAIN before'
               /\ parent'[q] # NULL => before'[pid'[q]] = pid'[parent'[q]]
               /\ parent'[q] = NULL /\ q \notin Range(calls') => before'[pid'[q]] = NULL
    <3>1. q \in Live /\ q \in Pcbs
      BY <1>5, <1>8
    <3>2. /\ pid[q] \in DOMAIN before
          /\ parent[q] # NULL => before[pid[q]] = pid[parent[q]]
          /\ parent[q] = NULL /\ q \notin Range(calls) => before[pid[q]] = NULL
      BY <1>1, <3>1 DEF Underway
    <3>3. CASE q = c
      BY <1>1, <1>7, <1>9, <3>2, <3>3
    <3>4. CASE q # c
      BY <1>1, <1>7, <1>9, <3>1, <3>2, <3>4
    <3> QED BY <3>3, <3>4
  <2>6. \A id \in DOMAIN before' :
          (\E q \in Live' : pid'[q] = id) \/ id \in Below(before', request')
    BY <1>1, <1>5 DEF Underway
  <2> QED BY <2>1, <2>2, <2>4, <2>5, <2>6 DEF Underway
<1>11. UNCHANGED ProcessFamily!vars
  BY <1>1, <1>7, AbstractIs, AbstractIsNext
<1> QED BY <1>7, <1>10, <1>11 DEF FamilyInv

LEMMA ProgenyIs ==
  ~Idle => ProcessFamily!Progeny(request) = Below(before, request)
BY DEF ProcessFamily!Progeny, Below

\* The end of a call: the last one ends the termination, and who is gone by
\* then is the progeny of whom it was asked for.
LEMMA ReturnRefines ==
  ASSUME IInv, FamilyInv, Return
  PROVE  FamilyInv' /\ [ProcessFamily!Next]_(ProcessFamily!vars)
<1> DEFINE p == Last(calls)
<1>1. /\ ~Idle /\ UNCHANGED <<parent, pid, nextPid, before>> /\ Underway
      /\ calls' = Front(calls)
      /\ request' = IF calls' = <<>> THEN NULL ELSE request
  BY DEF Return, FamilyInv
<1>2. /\ IInv' /\ p \in Pcbs /\ ~IsFree(Lists, p)
      /\ \A q \in Pcbs : IsFree(Lists', q) <=> IsFree(Lists, q) \/ q = p
  BY ReturnDoes
<1>3. LiveRead /\ LiveRead'
  <2>1. IInv' => LiveRead'
    BY LiveIs, PTL
  <2> QED BY <1>2, <2>1, LiveIs
<1>4. p \in Live /\ \A q : q \in Live' <=> q \in Live /\ q # p
  BY <1>2, <1>3 DEF LiveRead
<1>5. /\ calls \in Seq(Pcbs) /\ calls # <<>>
      /\ Len(calls) \in Nat /\ Len(calls) >= 1 /\ p = calls[Len(calls)]
      /\ calls' \in Seq(Pcbs) /\ Len(calls') = Len(calls)-1
      /\ \A x \in 1..Len(calls') : x \in 1..Len(calls) /\ calls'[x] = calls[x]
      /\ Range(calls) = Range(calls') \cup {p}
  BY <1>1, FrontFacts DEF IInv, TypeOK, Idle
<1> HIDE DEF p
<1>6. /\ request \in DOMAIN before /\ NULL \notin DOMAIN before
      /\ before = [i \in DOMAIN before |-> before[i]]
      /\ pid[calls[1]] = request
      /\ \A i \in 1..Len(calls) : pid[calls[i]] \in Below(before, request)
  BY <1>1 DEF Underway
<1>7. ASSUME NEW q \in Live
      PROVE  /\ pid[q] \in DOMAIN before
             /\ parent[q] # NULL => before[pid[q]] = pid[parent[q]]
             /\ parent[q] = NULL /\ q \notin Range(calls) => before[pid[q]] = NULL
  BY <1>1 DEF Underway
<1>8. \A id \in DOMAIN before :
        (\E q \in Live' : pid[q] = id) \/ id \in Below(before, request)
  <2> SUFFICES ASSUME NEW id \in DOMAIN before, id \notin Below(before, request)
               PROVE  \E q \in Live' : pid[q] = id
    OBVIOUS
  <2>1. PICK q \in Live : pid[q] = id
    BY <1>1 DEF Underway
  <2>2. q # p
    <3>1. Len(calls) \in 1..Len(calls)
      BY <1>5
    <3> QED BY <1>5, <1>6, <2>1, <3>1
  <2> QED BY <1>4, <2>1, <2>2
<1>9. ASSUME NEW q \in Live'
      PROVE  /\ q \in Live /\ pid[q] \in DOMAIN before
             /\ parent[q] # NULL => before[pid[q]] = pid[parent[q]]
             /\ parent[q] = NULL /\ q \notin Range(calls') => before[pid[q]] = NULL
  BY <1>4, <1>5, <1>7
<1>10. CASE calls' # <<>>
  <2>1. request' = request /\ ~Idle' /\ 1 \in 1..Len(calls')
    <3>1. Len(calls') \in Nat \ {0}
      BY <1>5, <1>10, EmptySeq
    <3> QED BY <1>1, <1>10, <3>1 DEF Idle
  <2>2. Underway'
    <3>1. pid'[calls'[1]] = request'
      BY <1>1, <1>5, <1>6, <2>1
    <3>2. \A i \in 1..Len(calls') : pid'[calls'[i]] \in Below(before', request')
      BY <1>1, <1>5, <1>6, <2>1
    <3>3. \A q \in Live' :
            /\ pid'[q] \in DOMAIN before'
            /\ parent'[q] # NULL => before'[pid'[q]] = pid'[parent'[q]]
            /\ parent'[q] = NULL /\ q \notin Range(calls') => before'[pid'[q]] = NULL
      BY <1>1, <1>9
    <3>4. \A id \in DOMAIN before' :
            (\E q \in Live' : pid'[q] = id) \/ id \in Below(before', request')
      BY <1>1, <1>8, <2>1
    <3> QED BY <1>1, <1>6, <2>1, <3>1, <3>2, <3>3, <3>4 DEF Underway
  <2>3. UNCHANGED ProcessFamily!vars
    BY <1>1, <2>1, AbstractIs, AbstractIsNext
  <2> QED BY <2>1, <2>2, <2>3 DEF FamilyInv
<1>11. CASE calls' = <<>>
  <2>1. Idle' /\ request' = NULL /\ request # NULL
    BY <1>1, <1>6, <1>11 DEF Idle
  <2> DEFINE A == {pid[q] : q \in Live'}
             S == DOMAIN before \ A
             B == Below(before, request)
             F == [id \in DOMAIN before \ B |-> before[id]]
  <2>2. request \in S
    <3>1. p = calls[1]
      <4>1. Len(calls') = 0
        BY <1>11
      <4>2. Len(calls) = 1
        BY <1>5, <4>1
      <4> QED BY <1>5, <4>2
    <3>2. \A q, r \in Live : pid[q] = pid[r] => q = r
      BY FamilyFacts
    <3>3. request \notin A
      BY <1>4, <1>6, <3>1, <3>2
    <3> QED BY <1>6, <3>3
  <2>3. ASSUME NEW id \in DOMAIN before, before[id] \in S PROVE id \in S
    <3> SUFFICES ASSUME NEW q \in Live', pid[q] = id PROVE FALSE
      OBVIOUS
    <3>1. CASE parent[q] = NULL
      <4>1. Range(calls') = {}
        BY <1>11, EmptyRange
      <4>2. before[id] = NULL
        BY <1>9, <3>1, <4>1
      <4> QED BY <1>6, <2>3, <4>2
    <3>2. CASE parent[q] # NULL
      <4>1. before[id] = pid[parent[q]]
        BY <1>9, <3>2
      <4>2. q \in Pcbs /\ parent'[q] # NULL
        BY <1>1, <1>3, <3>2 DEF LiveRead
      <4>3. parent[q] \in Live'
        <5>1. \A o \in Pcbs : parent[o] # NULL => parent[o] \in Pcbs /\ ~IsFree(Lists, parent[o])
          BY ParentIsLive
        <5>2. parent[q] \in Live
          BY <1>3, <3>2, <4>2, <5>1 DEF LiveRead
        <5>3. parent[q] # p
          <6>1. Lists[PChild(p)] = <<>>
            <7> HIDE DEF p
            <7>1. ListEmpty(links, PChild(p)) /\ PChild(p) \in Heads
              BY <1>2, StructsDiffer DEF Return, p
            <7> QED BY <7>1, FirstOf
          <6>2. PSib(q) \notin Range(Lists[PChild(p)])
            BY <6>1, EmptyRange
          <6> QED BY <1>2, <4>2, <6>2 DEF IInv, Linked
        <5> QED BY <1>4, <5>2, <5>3
      <4> QED BY <2>3, <4>1, <4>3
    <3> QED BY <3>1, <3>2
  <2>4. B = S
    <3>1. S \in SUBSET DOMAIN before
      OBVIOUS
    <3>2. B \subseteq S
      <4> HIDE DEF S
      <4> QED BY <1>6, <2>2, <2>3, <3>1, BelowFacts
    <3>3. S \subseteq B
      BY <1>8
    <3> QED BY <3>2, <3>3
  <2>5. A \subseteq DOMAIN before
    BY <1>9
  <2>6. DOMAIN F = A /\ F = [id \in DOMAIN F |-> F[id]] /\ \A id \in A : F[id] = before[id]
    <3> HIDE DEF A, B
    <3> QED BY <2>4, <2>5
  <2>7. Family' = F
    <3>1. DOMAIN F = {pid'[q] : q \in Live'}
      BY <1>1, <2>6
    <3>2. Range(calls') = {}
      BY <1>11, EmptyRange
    <3> HIDE DEF F
    <3>3. \A q \in Live' :
            F[pid'[q]] = IF parent'[q] = NULL THEN NULL ELSE pid'[parent'[q]]
      BY <1>1, <1>9, <2>6, <3>2
    <3> QED BY <1>2, <2>6, <3>1, <3>3, FamilyAfter
  <2>8. ProcessFamily!Terminate
    <3>1. Family' = [id \in DOMAIN before \ ProcessFamily!Progeny(request) |-> before[id]]
      BY <1>1, <2>7, ProgenyIs
    <3> QED BY <1>1, <2>1, <3>1 DEF ProcessFamily!Terminate, NULL
  <2>9. FamilyInv'
    BY <2>1 DEF FamilyInv
  <2> QED BY <2>8, <2>9 DEF ProcessFamily!Next
<1> QED BY <1>10, <1>11

LEMMA StepRefines ==
  IInv /\ FamilyInv /\ [Next]_vars
    => FamilyInv' /\ [ProcessFamily!Next]_(ProcessFamily!vars)
<1> SUFFICES ASSUME IInv, FamilyInv, [Next]_vars
             PROVE  FamilyInv' /\ [ProcessFamily!Next]_(ProcessFamily!vars)
  OBVIOUS
<1>1. ASSUME UNCHANGED vars PROVE FamilyInv' /\ UNCHANGED ProcessFamily!vars
  <2>1. UNCHANGED <<links, parent, pid, nextPid, calls, request, before>>
    BY <1>1 DEF vars
  <2>2. Lists' = Lists /\ Live' = Live /\ Family' = Family /\ (Idle' <=> Idle)
    BY <2>1 DEF Lists, Live, Family, Contents, Idle
  <2>3. FamilyInv'
    BY <2>1, <2>2 DEF FamilyInv, Underway
  <2>4. UNCHANGED ProcessFamily!vars
    BY <2>1, <2>2, AbstractIs, AbstractIsNext
  <2> QED BY <2>3, <2>4
<1>2. ASSUME NEW c \in Live, CreateProcess(c)
      PROVE  FamilyInv' /\ [ProcessFamily!Next]_(ProcessFamily!vars)
  <2>1. CASE ListEmpty(links, PcbFreeH)
    <3>1. UNCHANGED vars
      BY <1>2, <2>1 DEF CreateProcess
    <3> QED BY <1>1, <3>1
  <2>2. CASE ~ListEmpty(links, PcbFreeH)
    BY <1>2, <2>2, CreateRefines
  <2> QED BY <2>1, <2>2
<1>3. ASSUME NEW c \in Live, NEW id \in 0..MaxPid, TerminateProcess(c, id)
      PROVE  FamilyInv' /\ [ProcessFamily!Next]_(ProcessFamily!vars)
  <2>1. CASE Target(c, id) = NULL
    <3>1. UNCHANGED vars
      BY <1>3, <2>1 DEF TerminateProcess
    <3> QED BY <1>1, <3>1
  <2>2. CASE Target(c, id) # NULL
    BY <1>3, <2>2, AskRefines
  <2> QED BY <2>1, <2>2
<1>4. CASE Descend
  BY <1>4, DescendRefines
<1>5. CASE Return
  BY <1>5, ReturnRefines
<1> QED BY <1>1, <1>2, <1>3, <1>4, <1>5 DEF Next, Termination

\* Every creation and every termination is one step of the family of pids, and
\* what a termination does in between is none: who is asked for disappears
\* with all of the progeny, and nobody else.
THEOREM FamilyImplemented == Spec => IsFamily
<1>1. Init => FamilyInv /\ ProcessFamily!Init
  <2> SUFFICES ASSUME Init PROVE FamilyInv /\ ProcessFamily!Init
    OBVIOUS
  <2>1. /\ parent = [q \in Pcbs |-> NULL]
        /\ pid = [q \in Pcbs |-> IF q = MaxProc THEN 1 ELSE 0]
        /\ nextPid = 2 /\ Idle /\ request = NULL
    BY DEF Init, Idle
  <2>2. IInv /\ \A q \in Pcbs : IsFree(Lists, q) <=> q # MaxProc
    BY Initially
  <2>3. \A q : q \in Live <=> q = MaxProc
    BY <2>2, LiveAreNotFree, PcbsFacts
  <2> DEFINE F == [id \in {1} |-> 0]
  <2>4. IsTheFamily(F)
    <3>1. parent[MaxProc] = NULL /\ pid[MaxProc] = 1
      BY <2>1, PcbsFacts
    <3> QED BY <2>3, <3>1 DEF IsTheFamily, NULL
  <2>5. Family = F
    BY <2>2, <2>4, FamilyIs DEF FamilyRead
  <2> QED BY <2>1, <2>5 DEF FamilyInv, ProcessFamily!Init, NULL
<1>2. IInv /\ FamilyInv /\ [Next]_vars
        => FamilyInv' /\ [ProcessFamily!Next]_(ProcessFamily!vars)
  BY StepRefines
<1> QED BY <1>1, <1>2, IInvHolds, PTL DEF Spec, IsFamily, ProcessFamily!Steps

\* No more calls are under way than there are processes: they are for
\* different ones, all of them still alive.
LEMMA CallsFit ==
  ASSUME IInv
  PROVE  /\ calls \in Seq(Pcbs) /\ Len(calls) \in Nat
         /\ IsFiniteSet(Live) /\ Cardinality(Live) \in Nat
         /\ Len(calls) <= Cardinality(Live)
<1>1. calls \in Seq(Pcbs) /\ NoRepetition(calls)
  BY DEF IInv, TypeOK, Rooted
<1>2. Range(calls) = {calls[i] : i \in 1..Len(calls)} /\ Len(calls) \in Nat
  BY <1>1, RangeEquality
<1>3. Range(calls) \subseteq Live
  <2>1. \A i \in 1..Len(calls) : calls[i] \in Pcbs /\ ~IsFree(Lists, calls[i])
    BY <1>1, ElementOfSeq DEF IInv, Rooted
  <2> QED BY <1>2, <2>1, LiveAreNotFree
<1>4. IsFiniteSet(Live) /\ Cardinality(Live) \in Nat
  <2>1. IsFiniteSet(Pcbs)
    BY MaxProcAssumption, FS_Interval DEF Pcbs
  <2>2. Live \subseteq Pcbs
    BY LiveAreNotFree
  <2> QED BY <2>1, <2>2, FS_Subset, FS_CardinalityType
<1>5. Cardinality(Range(calls)) = Len(calls)
  BY <1>1, QueueCardinality
<1>6. Len(calls) <= Cardinality(Live)
  BY <1>3, <1>4, <1>5, FS_Subset
<1> QED BY <1>1, <1>2, <1>4, <1>6

\* CallsFit as a formula, for the state after a step.
CallsFitRead ==
  /\ IsFiniteSet(Live) /\ Cardinality(Live) \in Nat
  /\ Len(calls) <= Cardinality(Live)

LEMMA CallsFitIs == IInv => CallsFitRead
  BY CallsFit DEF CallsFitRead

\* The recursion of terminateProcessTree ends, whatever the tree: it is never
\* deeper than there are processes left, and of the calls and returns that
\* remain each step takes one.
THEOREM RecursionIsBounded == Spec => RecursionBounded
<1> DEFINE Advance == Termination => /\ Len(calls') <= Cardinality(Live')
                                     /\ Remaining' < Remaining
<1>1. IInv /\ [Next]_vars => [Advance]_vars
  <2> SUFFICES ASSUME IInv, Termination, IInv'
               PROVE  /\ Len(calls') <= Cardinality(Live')
                      /\ Remaining' < Remaining
    BY NextKeepsIInv
  <2>1. CallsFitRead /\ CallsFitRead'
    <3>1. IInv' => CallsFitRead'
      BY CallsFitIs, PTL
    <3> QED BY <3>1, CallsFitIs
  <2>2. LiveRead /\ LiveRead'
    <3>1. IInv' => LiveRead'
      BY LiveIs, PTL
    <3> QED BY <3>1, LiveIs
  <2>3. calls \in Seq(Pcbs) /\ Len(calls) \in Nat
    BY CallsFit
  <2> DEFINE l == Cardinality(Live)
             k == Cardinality(Live')
             n == Len(calls)
             m == Len(calls')
  <2>4. l \in Nat /\ k \in Nat /\ n \in Nat /\ m <= k
    BY <2>1, <2>3 DEF CallsFitRead
  <2>5. CASE Descend
    <3>1. \A q \in Pcbs : IsFree(Lists', q) <=> IsFree(Lists, q)
      BY <2>5, DescendDoes
    <3>2. Live' = Live
      BY <2>2, <3>1 DEF LiveRead
    <3>3. PICK c \in Pcbs : calls' = Append(calls, c)
      BY <2>5, DescendDoes
    <3>4. m = n+1
      BY <2>3, <3>3
    <3>5. k = l
      BY <3>2
    <3> HIDE DEF k, l, m, n
    <3>6. 2*k - m < 2*l - n
      BY <2>4, <3>4, <3>5
    <3> QED BY <2>4, <3>6 DEF Remaining, k, l, m, n
  <2>6. CASE Return
    <3> DEFINE p == Last(calls)
    <3>1. /\ p \in Pcbs /\ ~IsFree(Lists, p)
          /\ \A q \in Pcbs : IsFree(Lists', q) <=> IsFree(Lists, q) \/ q = p
      BY <2>6, ReturnDoes
    <3>2. p \in Live /\ Live' = Live \ {p}
      BY <2>2, <3>1 DEF LiveRead
    <3>3. k = l-1
      BY <2>1, <3>2, FS_RemoveElement DEF CallsFitRead
    <3>4. m = n-1
      BY <2>3, <2>6, FrontFacts DEF Return, Idle
    <3> HIDE DEF k, l, m, n
    <3>5. 2*k - m < 2*l - n
      BY <2>4, <3>3, <3>4
    <3> QED BY <2>4, <3>5 DEF Remaining, k, l, m, n
  <2> QED BY <2>5, <2>6 DEF Termination
<1> QED BY <1>1, IInvHolds, PTL DEF Spec, RecursionBounded
============================================================================
