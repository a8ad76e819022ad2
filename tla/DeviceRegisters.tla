-------------------------- MODULE DeviceRegisters --------------------------
(***************************************************************************)
(* The way of an I/O operation from DOIO to the end of its interrupt by    *)
(* addresses, registers and semaphore indices: the semaphore is found from *)
(* the address of the command register when the operation begins, and from *)
(* interrupt line, bitmap and status registers when it ends.  A terminal   *)
(* is two devices behind one bit of the bitmap.  All 40 devices are there. *)
(***************************************************************************)
EXTENDS Integers, Sequences

CONSTANTS
  Procs,     \* processes that do I/O
  NULL,
  Failures   \* the status codes of unsuccessful transmissions: external

Lines == 3..7
Numbers == 0..7
Terminal == 7

\* The status codes the model tells apart; Done is a terminal's, and stands
\* for whatever the other devices end with.
Ready == 1
Busy == 3
Done == 5

ASSUME FailuresAssumption ==
  Failures \subseteq Int /\ Failures \cap {Ready, Busy, Done} = {}
ASSUME NullAssumption ==
  NULL \notin Procs \cup {Ready, Busy, Done} \cup Failures

\* A device, or a half of a terminal: interrupt line, number, and which of
\* its two pairs of status and command registers.
Halves == {h \in Lines \X Numbers \X {"first", "transm"} :
             h[1] # Terminal => h[3] = "first"}

VARIABLES
  status,    \* the status register of each half
  pending,   \* the halves whose interrupt is pending: external
  sem,       \* deviceSemaphores, but for the clock's
  queue,     \* the processes blocked on each of them
  asked,     \* the half each process last began an operation on
  got        \* what its DOIO returned; NULL while it waits

vars == <<status, pending, sem, queue, asked, got>>

----------------------------------------------------------------------------
(* Addresses and indices *)

START_DEVREG == \h10000054

\* The device registers of a line's device, and the command register of a
\* half: the second or the fourth word.
DevAddrBase(line, devNo) ==
  START_DEVREG + (line - 3) * \h80 + devNo * \h10
CommandAddr(h) ==
  DevAddrBase(h[1], h[2]) + IF h[3] = "transm" THEN \hC ELSE \h4

\* Mutant of DevIndex: the offset of the status register for the command's.
StatusOffset(commandAddr) ==
  LET offset == commandAddr - START_DEVREG
      index == offset \div \h10
  IN  IF index >= 32 /\ offset % \h10 = \h8 THEN index + 8 ELSE index

\* DOIO's index, from the address of a command register.
DevIndex(commandAddr) ==
  LET offset == commandAddr - START_DEVREG
      index == offset \div \h10
  IN  IF index >= 32 /\ offset % \h10 = \hC THEN index + 8 ELSE index

\* Mutant of SemIndex: no shift to the transmitters' semaphores.
NoShift(h) == (h[1] - 3) * 8 + h[2]

\* handleDevice's index.
SemIndex(h) ==
  (h[1] - 3) * 8 + h[2] + IF h[3] = "transm" THEN 8 ELSE 0

Indices == 0..47

\* The number of the device handleDevice serves: the lowest bit of the bitmap.
DevNo(line) ==
  CHOOSE n \in Numbers :
    /\ \E h \in pending : h[1] = line /\ h[2] = n
    /\ \A h \in pending : h[1] = line => n <= h[2]

\* Mutant of ServedHalf: every interrupt of a terminal is a transmission's.
TransmitterOnly(line) ==
  IF line = Terminal THEN <<line, DevNo(line), "transm">>
  ELSE <<line, DevNo(line), "first">>

\* The half handleDevice serves: the transmitter of a terminal if it has
\* transmitted, or else the receiver.
ServedHalf(line) ==
  IF line = Terminal /\ status[<<line, DevNo(line), "transm">>] = Done
  THEN <<line, DevNo(line), "transm">>
  ELSE <<line, DevNo(line), "first">>

----------------------------------------------------------------------------

\* DOIO of p on h.  No interrupt is pending while a process runs.  The clients
\* do not ask a working device for another operation.
DoIO(p, h) ==
  /\ pending = {} /\ got[p] # NULL /\ status[h] # Busy
  /\ LET index == DevIndex(CommandAddr(h))
     IN  /\ sem' = [sem EXCEPT ![index] = @ - 1]
         /\ queue' = [queue EXCEPT ![index] = Append(@, p)]
  /\ status' = [status EXCEPT ![h] = Busy]
  /\ asked' = [asked EXCEPT ![p] = h]
  /\ got' = [got EXCEPT ![p] = NULL]
  /\ UNCHANGED pending

\* A half ends its operation, and its interrupt becomes pending.
Complete(h) ==
  /\ status[h] = Busy
  /\ \E code \in {Done} \cup IF h[3] = "transm" THEN Failures ELSE {} :
       status' = [status EXCEPT ![h] = code]
  /\ pending' = pending \cup {h}
  /\ UNCHANGED <<sem, queue, asked, got>>

\* handleDevice: acknowledges a half and wakes the process that waits for it.
\* A working half does not heed an acknowledgement.
HandleDevice(line) ==
  /\ \E h \in pending : h[1] = line
  /\ LET h == ServedHalf(line)
         index == SemIndex(h)
     IN  /\ status' = [status EXCEPT ![h] = IF @ = Busy THEN Busy ELSE Ready]
         /\ pending' = pending \ {h}
         /\ sem' = [sem EXCEPT ![index] = @ + 1]
         /\ \/ /\ sem'[index] <= 0 /\ queue[index] # <<>>
               /\ queue' = [queue EXCEPT ![index] = Tail(@)]
               /\ got' = [got EXCEPT ![Head(queue[index])] = status[h]]
            \/ /\ sem'[index] > 0 \/ queue[index] = <<>>
               /\ UNCHANGED <<queue, got>>
  /\ UNCHANGED asked

Init ==
  /\ status = [h \in Halves |-> Ready]
  /\ pending = {}
  /\ sem = [i \in Indices |-> 0]
  /\ queue = [i \in Indices |-> <<>>]
  /\ asked \in [Procs -> {<<Terminal, 0, "transm">>}]
  /\ got = [p \in Procs |-> Done]

Next ==
  \/ \E p \in Procs, h \in Halves : DoIO(p, h)
  \/ \E h \in Halves : Complete(h)
  \/ \E line \in Lines : HandleDevice(line)

\* Devices finish, and a pending interrupt is taken.
Spec ==
  /\ Init /\ [][Next]_vars
  /\ \A h \in Halves : WF_vars(Complete(h))
  /\ \A line \in Lines : WF_vars(HandleDevice(line))

----------------------------------------------------------------------------
(* Properties *)

\* The two computations of the index meet: every half at work, or done and
\* not yet acknowledged, has its process alone in the queue of its semaphore,
\* and no other semaphore of the 48 has waiters or a value other than zero.
OperationsMatchWaiters ==
  \A h \in Halves :
    LET index == SemIndex(h)
        mine == {p \in Procs : got[p] = NULL /\ asked[p] = h}
    IN  /\ sem[index] + Len(queue[index]) = 0
        /\ IF status[h] = Busy \/ h \in pending
           THEN \E p \in mine : mine = {p} /\ queue[index] = <<p>>
           ELSE mine = {} /\ queue[index] = <<>>

\* A process is woken with the status of an operation that has ended, never
\* with that of a half still at work or at rest, as it would be if the
\* interrupt of one half of a terminal were taken for one of the other.
ResultIsFinal ==
  \A p \in Procs : got[p] # NULL => got[p] \in {Done} \cup Failures

\* Every operation is answered in the end, whatever the other devices do.
OperationAnswered == \A p \in Procs : got[p] = NULL ~> got[p] # NULL
============================================================================
