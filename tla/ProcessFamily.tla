--------------------------- MODULE ProcessFamily ---------------------------
(***************************************************************************)
(* What CREATEPROCESS and TERMPROCESS promise: a family of processes known *)
(* by pids that are never given twice, from which a process disappears     *)
(* together with its whole progeny.                                        *)
(***************************************************************************)
EXTENDS Naturals

VARIABLES
  family,    \* the parent of each process alive; 0 for the first process
  nextPid,   \* the next pid
  request    \* the process to be terminated; 0 if none

vars == <<family, nextPid, request>>

\* id and its descendants: the least set with id and the children of its
\* elements.
Progeny(id) ==
  {x \in DOMAIN family : \A S \in SUBSET DOMAIN family :
     (/\ id \in S
      /\ \A c \in DOMAIN family : family[c] \in S => c \in S) => x \in S}

Init == family = [id \in {1} |-> 0] /\ nextPid = 2 /\ request = 0

Create(by) ==
  /\ request = 0
  /\ family' = [id \in DOMAIN family \cup {nextPid} |->
                  IF id = nextPid THEN by ELSE family[id]]
  /\ nextPid' = nextPid + 1
  /\ UNCHANGED request

Ask(id) == request = 0 /\ request' = id /\ UNCHANGED <<family, nextPid>>

Terminate ==
  /\ request # 0
  /\ family' = [id \in DOMAIN family \ Progeny(request) |-> family[id]]
  /\ request' = 0
  /\ UNCHANGED nextPid

Next == (\E id \in DOMAIN family : Create(id) \/ Ask(id)) \/ Terminate

\* What may happen, and what must: a process asked for does disappear.
Steps == Init /\ [][Next]_vars
Fairness == WF_vars(Terminate)

Spec == Steps /\ Fairness
============================================================================
