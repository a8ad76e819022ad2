------------------------------- MODULE Tree -------------------------------
(***************************************************************************)
(* Allocation and the process tree of phase1/pcb.c, with the two recursive *)
(* functions of phase2/syscalls.c over it: findPcbByPid, and               *)
(* terminateProcessTree one call at a time.  Calls of the nucleus are      *)
(* atomic; the steps in between show that the recursion, which cuts the    *)
(* tree while it walks it, reaches every process once.                     *)
(***************************************************************************)
EXTENDS ListX, SequencesExt

CONSTANTS
  MaxProc,   \* entries of pcbFree_table
  MaxPid     \* bound of this model: the last pid given, far below an int's

ASSUME MaxProcAssumption == MaxProc \in Nat \ {0}
ASSUME MaxPidAssumption == MaxPid \in Nat \ {0}

Pcbs == 1..MaxProc

\* The null pointer: no entry of the table, and no pid.
NULL == 0

PList(p) == <<"p_list", p>>
PChild(p) == <<"p_child", p>>
PSib(p) == <<"p_sib", p>>
PcbFreeH == <<"pcbFree_h", NULL>>
Structs == {PList(p) : p \in Pcbs} \cup {PChild(p) : p \in Pcbs}
             \cup {PSib(p) : p \in Pcbs} \cup {PcbFreeH}

VARIABLES
  links,     \* next and prev of all structs
  parent,    \* p_parent
  pid,       \* p_pid
  nextPid,   \* next_pid
  calls,     \* the calls of terminateProcessTree under way, innermost last
  request,   \* the pid whose termination is under way; NULL if none
  before     \* history: the family when it was requested

vars == <<links, parent, pid, nextPid, calls, request, before>>

Contents(head) ==
  LET structs == Elements(links, head)
  IN  [i \in 1..Len(structs) |-> structs[i][2]]

Children(p) == Contents(PChild(p))
Live == Pcbs \ Range(Contents(PcbFreeH))

\* The processes alive by their pids, each with the pid of its parent.
Family ==
  [id \in {pid[p] : p \in Live} |->
     LET p == CHOOSE q \in Live : pid[q] = id
     IN  IF parent[p] = NULL THEN NULL ELSE pid[parent[p]]]

----------------------------------------------------------------------------
(* phase1/pcb.c *)

\* freePcb
Freed(m, p) == ListAdd(m, PList(p), PcbFreeH)

\* allocPcb: out of the free list, and the lists of p emptied.
Allocated(m, p) ==
  InitListHead(InitListHead(ListDel(m, PList(p)), PChild(p)), PSib(p))

\* Mutant of ChildInserted: the youngest child first.
ChildFirst(m, prnt, p) == ListAdd(m, PSib(p), PChild(prnt))

\* insertChild
ChildInserted(m, prnt, p) == ListAddTail(m, PSib(p), PChild(prnt))

\* removeChild and outChild.
ChildCut(m, p) == ListDel(m, PSib(p))

----------------------------------------------------------------------------
(* phase2/syscalls.c *)

Idle == calls = <<>>

\* Mutant of GivenPid: ++next_pid for next_pid++.
PreIncremented == nextPid + 1

GivenPid == nextPid

\* CreateProcess of the running process c; nothing without a free PCB.
CreateProcess(c) ==
  /\ Idle
  /\ \/ ListEmpty(links, PcbFreeH) /\ UNCHANGED vars
     \/ /\ ~ListEmpty(links, PcbFreeH) /\ nextPid <= MaxPid
        /\ LET p == links.next[PcbFreeH][2]
           IN  /\ links' = ChildInserted(Allocated(links, p), c, p)
               /\ parent' = [parent EXCEPT ![p] = c]
               /\ pid' = [pid EXCEPT ![p] = GivenPid]
        /\ nextPid' = nextPid + 1
        /\ UNCHANGED <<calls, request, before>>

\* Where following p_parent from p ends.  No path is longer than the table.
Root(p) ==
  LET Up[n \in 0..MaxProc] ==
        IF n = 0 THEN p
        ELSE LET q == Up[n-1] IN IF parent[q] = NULL THEN q ELSE parent[q]
  IN  Up[MaxProc]

\* Mutant of FindPcbByPid: only the first child of each process is visited.
FindFirstBorn(p, id) ==
  LET Found[depth \in 0..MaxProc] == [q \in Pcbs |->
        IF pid[q] = id THEN q
        ELSE IF depth = 0 \/ Children(q) = <<>> THEN NULL
        ELSE Found[depth-1][Children(q)[1]]]
  IN  Found[MaxProc][p]

\* findPcbByPid: in p, and else in the subtrees of its children, in order.
\* Calls are nested no deeper than the table is long.
FindPcbByPid(p, id) ==
  LET Found[depth \in 0..MaxProc] == [q \in Pcbs |->
        LET hits == {i \in 1..Len(Children(q)) :
                       depth # 0 /\ Found[depth-1][Children(q)[i]] # NULL}
        IN  IF pid[q] = id THEN q
            ELSE IF hits = {} THEN NULL
            ELSE Found[depth-1][Children(q)[Min(hits)]]]
  IN  Found[MaxProc][p]

\* The process TerminateProcess is asked for by c; 0 stands for c itself.
Target(c, id) == IF id = 0 THEN c ELSE FindPcbByPid(Root(c), id)

\* TerminateProcess of the running process c, up to its call of
\* terminateProcessTree; a pid of nobody is ignored.
TerminateProcess(c, id) ==
  /\ Idle
  /\ \/ Target(c, id) = NULL /\ UNCHANGED vars
     \/ LET target == Target(c, id)
        IN  /\ target # NULL
            /\ links' = IF parent[target] = NULL THEN links
                        ELSE ChildCut(links, target)
            /\ parent' = [parent EXCEPT ![target] = NULL]
            /\ calls' = <<target>>
            /\ request' = IF id = 0 THEN pid[c] ELSE id
            /\ before' = Family
            /\ UNCHANGED <<pid, nextPid>>

\* Mutant of Descend: headed for the first child without removing it.
DescendAgain ==
  /\ ~Idle
  /\ ~ListEmpty(links, PChild(Last(calls)))
  /\ calls' = Append(calls, links.next[PChild(Last(calls))][2])
  /\ UNCHANGED <<links, parent, pid, nextPid, request, before>>

\* The loop of the innermost call: it removes the first child and calls
\* itself for it.
Descend ==
  /\ ~Idle
  /\ ~ListEmpty(links, PChild(Last(calls)))
  /\ LET child == links.next[PChild(Last(calls))][2]
     IN  /\ links' = ChildCut(links, child)
         /\ parent' = [parent EXCEPT ![child] = NULL]
         /\ calls' = Append(calls, child)
  /\ UNCHANGED <<pid, nextPid, request, before>>

\* Mutant of Return: the loop goes on when no child is left.
LoopOn ==
  /\ ~Idle
  /\ ListEmpty(links, PChild(Last(calls)))
  /\ UNCHANGED vars

\* Mutant of Return: the call does not wait for the end of its loop.
ReturnAfterOne ==
  /\ ~Idle
  /\ links' = Freed(links, Last(calls))
  /\ calls' = Front(calls)
  /\ request' = IF calls' = <<>> THEN NULL ELSE request
  /\ UNCHANGED <<parent, pid, nextPid, before>>

\* The innermost call when no child is left: it frees its process and
\* returns.
Return ==
  /\ ~Idle
  /\ ListEmpty(links, PChild(Last(calls)))
  /\ links' = Freed(links, Last(calls))
  /\ calls' = Front(calls)
  /\ request' = IF calls' = <<>> THEN NULL ELSE request
  /\ UNCHANGED <<parent, pid, nextPid, before>>

----------------------------------------------------------------------------

\* initPcbs, and main()'s first process.
Init ==
  /\ LET single == [next |-> [n \in Structs |-> n],
                    prev |-> [n \in Structs |-> n]]
         Table[p \in 0..MaxProc] ==
           IF p = 0 THEN single ELSE Freed(Table[p-1], p)
     IN  links = Allocated(Table[MaxProc], MaxProc)
  /\ parent = [p \in Pcbs |-> NULL]
  /\ pid = [p \in Pcbs |-> IF p = MaxProc THEN 1 ELSE 0]
  /\ nextPid = 2
  /\ calls = <<>>
  /\ request = NULL
  /\ before = <<>>

Termination == Descend \/ Return

Next ==
  \/ \E c \in Live : CreateProcess(c)
  \/ \E c \in Live, id \in 0..MaxPid : TerminateProcess(c, id)
  \/ Termination

\* The processor goes on with a system call once it has begun.
Spec == Init /\ [][Next]_vars /\ WF_vars(Termination)

----------------------------------------------------------------------------
(* Properties *)

TypeOK ==
  /\ links \in Memories(Structs)
  /\ parent \in [Pcbs -> Pcbs \cup {NULL}]
  /\ pid \in [Pcbs -> 0..MaxPid]
  /\ nextPid \in 1..MaxPid+1
  /\ calls \in Seq(Pcbs)
  /\ request \in 0..MaxPid

\* Between two calls the two representations of the tree agree: the children
\* of p are those whose p_parent is p, eldest first, whichever PCBs have been
\* freed and reused; and no link of any list is broken, ever.
TreeConsistent ==
  /\ Circular(links)
  /\ Idle => \A p \in Live :
       /\ Range(Children(p)) = {c \in Live : parent[c] = p}
       /\ \A i, j \in 1..Len(Children(p)) :
            i < j => pid[Children(p)[i]] < pid[Children(p)[j]]

\* A pid names one process, and from any process findPcbByPid finds it.
PidsFound ==
  Idle => \A c, p \in Live : FindPcbByPid(Root(c), pid[p]) = p

ProcessFamily == INSTANCE ProcessFamily
  WITH family <- IF Idle THEN Family ELSE before

\* All of it together is a family tree of pids, from which TERMPROCESS takes
\* in one step the process asked for and its progeny, and nobody else.
IsFamily == ProcessFamily!Steps

\* Every termination comes to its end, as the family promises.
Terminates == []<>Idle /\ ProcessFamily!Fairness

\* The calls of terminateProcessTree and the returns that are yet to come:
\* each process alive may have to be called for and to return, each call
\* under way only to return.
Remaining == 2 * Cardinality(Live) - Len(calls)

\* The recursion is never nested deeper than there are processes left, and
\* each of its steps is one towards its end, although it takes the tree it
\* walks apart.
RecursionBounded ==
  [][Termination => /\ Len(calls') <= Cardinality(Live')
                    /\ Remaining' < Remaining]_vars
============================================================================
