---------------------------- MODULE SdCardProofs ----------------------------
(***************************************************************************)
(* Proofs about the driver of the SD card.                                 *)
(*                                                                         *)
(* First about Mci, the transfers: its type invariant, that the flag of    *)
(* the interrupt handler ends no wait but its own, and that diskio.c keeps *)
(* the promise of Disk.                                                    *)
(*                                                                         *)
(* Then about SdCard: that, and what CardInitProofs proves of the          *)
(* initialisation, holds of both together.  Each part leaves the variables *)
(* of the other alone; they share only the count of faults, which both     *)
(* keep within its bound.                                                  *)
(***************************************************************************)
EXTENDS SdCard, TLAPS

\* The locations between the selection of the card and the wait.
Preparing == {"load", "clear", "disable", "check", "flag", "enable", "command", "start"}
Parting   == {"deselect", "unselect"}

\* Which call can be where.
OpAt ==
    /\ pc = "idle" <=> reg.op = "none"
    /\ pc = "load" => reg.op = "write"
    /\ pc \in Preparing \cup {"wait"} => reg.op \in {"read", "write"}
    /\ pc = "copy" => reg.op = "read"
    /\ pc = "ready" => reg.op = "sync"
    /\ pc \in Parting /\ reg.then # "select" => reg.op # "write"

\* DATA_BLK_END is up, or still to come, only for the block of this call, once,
\* and before the handler has cleared MCI_Block_End_Flag.
BlkEndMine ==
    /\ "blkEnd" \in status \cup coming => pc = "wait" /\ moved /\ flag = 1
    /\ ~("blkEnd" \in status /\ "blkEnd" \in coming)

\* The data path is on only in the wait for a block that has not been moved.
PathMine ==
    path # "off" => /\ pc = "wait" /\ ~moved
                    /\ path = (IF reg.op = "read" THEN "rx" ELSE "tx")

\* The flag is set before the command goes out, and stays so until the end.
FlagSet ==
    /\ pc \in {"command", "start"} => flag = 1
    /\ pc = "enable" /\ reg.op = "write" => flag = 1
    /\ pc = "wait" /\ ~moved => flag = 1

MovedAt ==
    /\ pc \in Preparing \cup {"select", "fail"} => ~moved
    /\ pc \in Parting /\ reg.then # "done" => ~moved
    /\ pc = "copy" => moved
    /\ pc = "done" /\ reg.op = "write" => moved

\* The card is programming only after a write, until the next command.
BusyAt ==
    card.st = "prg" => \/ pc \in {"idle", "select"}
                       \/ pc = "deselect" /\ reg.then = "select"
                       \/ pc \in {"wait", "done"} /\ reg.op = "write"

\* What is in the buffers.
Content ==
    /\ pc \in {"start", "wait"} => card.sect = reg.sect
    /\ pc \in (Preparing \ {"load"}) \cup {"wait"} /\ reg.op = "write" => wblock = reg.value
    /\ pc \in {"wait", "copy"} /\ moved /\ reg.op = "read" => rblock = blk[reg.sect]
    /\ pc \in Parting /\ reg.then = "done" /\ reg.op = "read" => reg.value = blk[reg.sect]
    /\ pc = "done" /\ reg.op = "read" => reg.value = blk[reg.sect]

IInv == TypeOK /\ OpAt /\ BlkEndMine /\ PathMine /\ FlagSet /\ MovedAt /\ BusyAt /\ Content

-----------------------------------------------------------------------------
(* Type correctness.                                                       *)

LEMMA Defaults == Anything \in Values /\ Nowhere \in Sectors
BY SectorAssumption DEF Anything, Nowhere

LEMMA RequestType ==
    ASSUME NEW op \in CallOps \cup {"none"}, NEW s \in Sectors, NEW v \in Values
    PROVE  Request(op, s, v) \in Regs
BY RetriesAssumption DEF Request, Regs

\* The locals of a call keep their type when it goes on, and the card when it
\* changes its state.
LEMMA RegType ==
    ASSUME reg \in Regs
    PROVE  /\ \A l \in {"select", "done", "fail"} : [reg EXCEPT !.then = l] \in Regs
           /\ ~LastTry => [reg EXCEPT !.tries = @ - 1] \in Regs
           /\ \A v \in Values : [reg EXCEPT !.value = v, !.then = "done"] \in Regs
<1>1. \A l \in {"select", "done", "fail"} : [reg EXCEPT !.then = l] \in Regs
  BY DEF Regs
<1>2. ASSUME ~LastTry PROVE [reg EXCEPT !.tries = @ - 1] \in Regs
  <2>1. reg.tries - 1 \in 1 .. Retries
    BY <1>2, RetriesAssumption DEF Regs, LastTry
  <2> QED
    BY <2>1 DEF Regs
<1>3. \A v \in Values : [reg EXCEPT !.value = v, !.then = "done"] \in Regs
  BY DEF Regs
<1> QED
  BY <1>1, <1>2, <1>3

LEMMA CardType ==
    ASSUME card \in Cards, NEW st \in CardStates
    PROVE  /\ [card EXCEPT !.st = st] \in Cards
           /\ \A s \in Sectors : [card EXCEPT !.st = st, !.sect = s] \in Cards
           /\ \A v \in Values : [card EXCEPT !.st = st, !.in = v] \in Cards
BY DEF Cards

LEMMA RegFields ==
    ASSUME reg \in Regs
    PROVE  /\ reg.op \in CallOps \cup {"none"} /\ reg.sect \in Sectors
           /\ reg.value \in Values /\ reg.then \in {"select", "done", "fail"}
BY DEF Regs

LEMMA CardFields ==
    ASSUME card \in Cards
    PROVE  card.st \in CardStates /\ card.sect \in Sectors /\ card.in \in Values
BY DEF Cards

LEMMA InitType == Init => TypeOK
<1> SUFFICES ASSUME Init PROVE TypeOK
  OBVIOUS
<1>1. card \in Cards
  BY Defaults DEF Init, Cards, CardStates
<1>2. reg \in Regs
  BY Defaults, RequestType DEF Init
<1>3. answer \in [res : {"none", "ok", "error"}, value : Values]
  BY Defaults DEF Init
<1>4. faults \in 0 .. MaxFaults
  BY FaultAssumption DEF Init
<1> QED
  BY <1>1, <1>2, <1>3, <1>4, Defaults DEF Init, TypeOK, Pcs

LEMMA CallsType == TypeOK /\ Calls => TypeOK'
<1> SUFFICES ASSUME TypeOK, Calls PROVE TypeOK'
  OBVIOUS
<1>1. reg' \in Regs
  BY Defaults, RequestType
  DEF Calls, disk_read, disk_write, disk_ioctl, Begin, CallOps
<1>2. pc' \in Pcs /\ moved' = FALSE
  BY DEF Calls, disk_read, disk_write, disk_ioctl, Begin, Pcs
<1>3. UNCHANGED <<hw, enabled, flag, bufs, answer, faults>>
  BY DEF Calls, disk_read, disk_write, disk_ioctl, Begin, Fine
<1> QED
  BY <1>1, <1>2, <1>3 DEF TypeOK, hw, bufs

LEMMA FaultsType ==
    ASSUME faults \in 0 .. MaxFaults, NEW k, Fault(k) \/ Fine
    PROVE  faults' \in 0 .. MaxFaults
BY FaultAssumption DEF Fault, Fine

\* The steps of the driver that leave the locals alone, or change only .then.
LEMMA FailedType ==
    ASSUME TypeOK, Failed \/ Retry
    PROVE  reg' \in Regs /\ pc' \in Pcs
<1>1. reg \in Regs /\ pc \in Pcs
  BY DEF TypeOK
<1>2. CASE Failed
  BY <1>1, <1>2, RegType DEF Failed, Then, Pcs
<1>3. CASE Retry
  BY <1>1, <1>3, RegType DEF Retry, Failed, Then, Pcs
<1> QED
  BY <1>2, <1>3

LEMMA DriverType == TypeOK /\ Driver => TypeOK'
<1> SUFFICES ASSUME TypeOK, Driver PROVE TypeOK'
  OBVIOUS
<1>0. /\ faults \in 0 .. MaxFaults /\ reg \in Regs /\ card \in Cards
      /\ reg.op \in CallOps \cup {"none"} /\ reg.value \in Values /\ reg.sect \in Sectors
      /\ reg.then \in {"select", "done", "fail"}
  BY RegFields DEF TypeOK
<1> USE DEF hw, bufs
<1>1. CASE DESELECT
  <2>1. reg' = reg /\ pc' \in Pcs
    BY <1>0, <1>1 DEF DESELECT, Then, Pcs
  <2>2. card' \in Cards /\ faults' \in 0 .. MaxFaults
    BY <1>0, <1>1, CardType, FaultsType DEF DESELECT, CardStates
  <2> QED
    BY <1>1, <2>1, <2>2 DEF DESELECT, TypeOK
<1>2. CASE SELECT
  <2>1. reg' = reg /\ pc' \in Pcs
    BY <1>2 DEF SELECT, Then, Pcs, TypeOK
  <2>2. card' \in Cards /\ faults' = faults
    BY <1>0, <1>2, CardType DEF SELECT, CardStates, Fine
  <2> QED
    BY <1>2, <2>1, <2>2 DEF SELECT, TypeOK
<1>3. CASE Load \/ Clear \/ Disable \/ SetFlag \/ Enable
  BY <1>0, <1>3 DEF Load, Clear, Disable, SetFlag, Enable, Then, Fine, Pcs, Flags, TypeOK
<1>4. CASE CheckStatus
  <2>1. reg' \in Regs /\ pc' \in Pcs /\ faults' \in 0 .. MaxFaults
    BY <1>0, <1>4, FailedType, FaultsType DEF CheckStatus, Then, Pcs
  <2> QED
    BY <1>4, <2>1 DEF CheckStatus, TypeOK
<1>5. CASE Command
  <2>1. reg' \in Regs /\ pc' \in Pcs /\ faults' \in 0 .. MaxFaults
    BY <1>0, <1>5, FailedType, FaultsType DEF Command, Then, Pcs
  <2>2. card' \in Cards
    BY <1>0, <1>5, CardType DEF Command, CardStates
  <2> QED
    BY <1>5, <2>1, <2>2 DEF Command, TypeOK
<1>6. CASE Start \/ Wait
  BY <1>6 DEF Start, Wait, Then, Fine, Pcs, TypeOK
<1>7. CASE Copy \/ wait_ready
  <2>1. rblock \in Values
    BY DEF TypeOK
  <2>2. reg' \in Regs
    BY <1>0, <1>7, <2>1, RegType DEF Copy, wait_ready
  <2> QED
    BY <1>7, <2>2 DEF Copy, wait_ready, Fine, Pcs, TypeOK
<1>8. CASE Return
  <2>1. reg' \in Regs
    BY <1>8, Defaults, RequestType DEF Return
  <2>2. answer' \in [res : {"none", "ok", "error"}, value : Values]
    BY <1>0, <1>8 DEF Return
  <2> QED
    BY <1>8, <2>1, <2>2 DEF Return, Fine, Pcs, TypeOK
<1> QED
  BY <1>1, <1>2, <1>3, <1>4, <1>5, <1>6, <1>7, <1>8 DEF Driver

LEMMA HandlerType == TypeOK /\ MCI_IRQHandler => TypeOK'
<1> SUFFICES ASSUME TypeOK, MCI_IRQHandler PROVE TypeOK'
  OBVIOUS
<1>1. status' \subseteq Flags
  BY DEF MCI_IRQHandler, TypeOK
<1>2. enabled' \in BOOLEAN /\ flag' \in {0, 1}
  BY DEF MCI_IRQHandler, TypeOK
<1> QED
  BY <1>1, <1>2 DEF MCI_IRQHandler, Fine, bufs, TypeOK

LEMMA HardwareType == TypeOK /\ Hardware => TypeOK'
<1> SUFFICES ASSUME TypeOK, Hardware PROVE TypeOK'
  OBVIOUS
<1>0. /\ card \in Cards /\ card.sect \in Sectors /\ card.in \in Values
      /\ blk \in [Sectors -> Values] /\ wblock \in Values
      /\ faults \in 0 .. MaxFaults
  BY CardFields DEF TypeOK
<1> USE DEF Driven
<1>1. CASE CardSends
  <2>1. card' \in Cards /\ faults' \in 0 .. MaxFaults
    BY <1>0, <1>1, CardType, FaultsType DEF CardSends, Leaves, CardStates
  <2>2. rblock' \in Values /\ path' \in {"off", "rx", "tx"} /\ moved' \in BOOLEAN
    <3>1. path \in {"off", "rx", "tx"} /\ moved \in BOOLEAN /\ rblock \in Values
      BY DEF TypeOK
    <3>2. rblock' \in Values
      BY <1>0, <1>1, <3>1 DEF CardSends
    <3> QED
      BY <1>1, <3>1, <3>2 DEF CardSends
  <2>3. coming' \subseteq Flags \ {"error"} /\ status' \subseteq Flags
    BY <1>1 DEF CardSends, TypeOK, Flags
  <2> QED
    BY <1>1, <2>1, <2>2, <2>3 DEF CardSends, TypeOK
<1>2. CASE CardTakes
  <2>1. card' \in Cards /\ faults' \in 0 .. MaxFaults
    BY <1>0, <1>2, CardType, FaultsType DEF CardTakes, Leaves, CardStates
  <2>2. path' \in {"off", "rx", "tx"} /\ moved' \in BOOLEAN
    BY <1>2 DEF CardTakes, TypeOK
  <2>3. coming' \subseteq Flags \ {"error"} /\ status' \subseteq Flags
    BY <1>2 DEF CardTakes, TypeOK, Flags
  <2> QED
    BY <1>2, <2>1, <2>2, <2>3 DEF CardTakes, TypeOK
<1>3. CASE CardPrograms
  <2>1. card' \in Cards /\ blk' \in [Sectors -> Values]
    BY <1>0, <1>3, CardType DEF CardPrograms, Leaves, CardStates
  <2> QED
    BY <1>3, <2>1 DEF CardPrograms, Fine, TypeOK
<1>4. CASE DataTimeout
  BY <1>4 DEF DataTimeout, Fine, Flags, TypeOK
<1>5. CASE \E f \in Flags : Signal(f)
  BY <1>5 DEF Signal, Fine, TypeOK
<1> QED
  BY <1>1, <1>2, <1>3, <1>4, <1>5 DEF Hardware

LEMMA StutterType == TypeOK /\ UNCHANGED vars => TypeOK'
BY DEF TypeOK, vars, hw, bufs

\* Every variable of the driver keeps its type, for every set of sectors and
\* blocks, number of retries and set of faults.
THEOREM DriverTypeCorrect == Spec => []TypeOK
<1>1. TypeOK /\ [Next]_vars => TypeOK'
  BY CallsType, DriverType, HandlerType, HardwareType, StutterType DEF Next
<1> QED
  BY InitType, <1>1, PTL DEF Spec

-----------------------------------------------------------------------------
(* The inductive invariant.  Each lemma is one group of steps; the locals   *)
(* and the card are records, hence the facts about their fields.            *)

LEMMA InitI == Init => IInv
BY InitType DEF Init, Request, IInv, OpAt, BlkEndMine, PathMine, FlagSet,
    MovedAt, BusyAt, Content, Preparing, Parting

LEMMA DriverI == IInv /\ Driver => IInv'
<1> SUFFICES ASSUME IInv, Driver PROVE IInv'
  OBVIOUS
<1>0. TypeOK /\ TypeOK'
  BY DriverType DEF IInv
<1>a. /\ reg \in Regs /\ reg.op \in CallOps \cup {"none"}
       /\ reg.then \in {"select", "done", "fail"} /\ card \in Cards
  BY <1>0, RegFields DEF TypeOK
<1> USE DEF IInv, OpAt, BlkEndMine, PathMine, FlagSet,
    MovedAt, BusyAt, Content, Preparing, Parting, hw, bufs
<1>1. CASE DESELECT
  BY <1>0, <1>a, <1>1 DEF DESELECT, Settled, Then, Cards
<1>2. CASE SELECT
  BY <1>0, <1>a, <1>2 DEF SELECT, Then, CallOps
<1>3. CASE Load
  BY <1>0, <1>3 DEF Load, Then
<1>4. CASE Clear
  BY <1>0, <1>4 DEF Clear, Then
<1>5. CASE Disable
  BY <1>0, <1>5 DEF Disable, Then
<1>6. CASE CheckStatus
  BY <1>0, <1>a, <1>6 DEF CheckStatus, Then, Failed, Regs
<1>7. CASE SetFlag
  BY <1>0, <1>7 DEF SetFlag, Then
<1>8. CASE Enable
  BY <1>0, <1>8 DEF Enable, Then
<1>9. CASE Command
  BY <1>0, <1>a, <1>9 DEF Command, Then, Retry, Failed, Regs, Cards
<1>10. CASE Start
  BY <1>0, <1>10 DEF Start, Then
<1>11. CASE Wait
  BY <1>0, <1>11 DEF Wait, Then, Waited
<1>12. CASE Copy
  BY <1>0, <1>12 DEF Copy
<1>13. CASE wait_ready
  BY <1>0, <1>13 DEF wait_ready
<1>14. CASE Return
  BY <1>0, <1>14 DEF Return, Request
<1> QED
  BY <1>1, <1>2, <1>3, <1>4, <1>5, <1>6, <1>7, <1>8, <1>9, <1>10,
     <1>11, <1>12, <1>13, <1>14 DEF Driver

LEMMA HardwareI == IInv /\ Hardware => IInv'
<1> SUFFICES ASSUME IInv, Hardware PROVE IInv'
  OBVIOUS
<1>0. TypeOK /\ TypeOK'
  BY HardwareType DEF IInv
<1>a. card \in Cards
  BY <1>0 DEF TypeOK
<1> USE DEF IInv, OpAt, BlkEndMine, PathMine, FlagSet,
    MovedAt, BusyAt, Content, Preparing, Parting, Driven
<1>1. CASE CardSends
  BY <1>0, <1>1 DEF CardSends, Leaves
<1>2. CASE CardTakes
  BY <1>0, <1>a, <1>2 DEF CardTakes, Leaves, Cards
<1>3. CASE CardPrograms
  BY <1>0, <1>3 DEF CardPrograms, Leaves
<1>4. CASE DataTimeout
  BY <1>0, <1>4 DEF DataTimeout
<1>5. CASE \E f \in Flags : Signal(f)
  BY <1>0, <1>5 DEF Signal
<1> QED
  BY <1>1, <1>2, <1>3, <1>4, <1>5 DEF Hardware

LEMMA CallsI == IInv /\ Calls => IInv'
<1> SUFFICES ASSUME IInv, Calls PROVE IInv'
  OBVIOUS
<1>0. TypeOK /\ TypeOK'
  BY CallsType DEF IInv
<1> USE DEF IInv, OpAt, BlkEndMine, PathMine, FlagSet,
    MovedAt, BusyAt, Content, Preparing, Parting, hw, bufs
<1>1. CASE \E s \in Sectors : disk_read(s)
  BY <1>0, <1>1 DEF disk_read, Begin, Request
<1>2. CASE \E s \in Sectors, v \in Values : disk_write(s, v)
  BY <1>0, <1>2 DEF disk_write, Begin, Request
<1>3. CASE disk_ioctl
  BY <1>0, <1>3 DEF disk_ioctl, Begin, Request
<1> QED
  BY <1>1, <1>2, <1>3 DEF Calls

\* The handler serves DATA_BLK_END only if it is up; it is then the end of the
\* block of this call.
LEMMA HandlerI == IInv /\ MCI_IRQHandler => IInv'
<1> SUFFICES ASSUME IInv, MCI_IRQHandler PROVE IInv'
  OBVIOUS
<1>0. TypeOK /\ TypeOK' /\ status \subseteq Flags
  BY HandlerType DEF IInv, TypeOK
<1>1. UNCHANGED <<card, blk, path, coming, rblock, wblock, pc, reg, moved>>
  BY DEF MCI_IRQHandler, bufs
<1>2. status' \subseteq status /\ Served \in status
  BY <1>0 DEF MCI_IRQHandler, Served, Flags
<1>3. CASE Served = "blkEnd"
  <2>1. "blkEnd" \notin status' /\ "blkEnd" \notin coming'
    BY <1>1, <1>2, <1>3 DEF MCI_IRQHandler, IInv, BlkEndMine
  <2>2. pc = "wait" /\ moved
    BY <1>2, <1>3 DEF IInv, BlkEndMine
  <2> QED
    BY <1>0, <1>1, <2>1, <2>2
    DEF IInv, OpAt, BlkEndMine, PathMine, FlagSet, MovedAt, BusyAt, Content, Preparing
<1>4. CASE Served # "blkEnd"
  <2>1. flag' = flag
    BY <1>4 DEF MCI_IRQHandler, Ends
  <2> QED
    BY <1>0, <1>1, <1>2, <2>1
    DEF IInv, OpAt, BlkEndMine, PathMine, FlagSet, MovedAt, BusyAt, Content
<1> QED
  BY <1>3, <1>4

LEMMA StutterI == IInv /\ UNCHANGED vars => IInv'
BY StutterType
DEF IInv, OpAt, BlkEndMine, PathMine, FlagSet, MovedAt, BusyAt, Content, vars, hw, bufs

LEMMA StepI == IInv /\ [Next]_vars => IInv'
BY CallsI, DriverI, HandlerI, HardwareI, StutterI DEF Next

LEMMA Invariant == Spec => []IInv
BY InitI, StepI, PTL DEF Spec

\* The wait of disk_read or disk_write never ends because of the flag of
\* another transfer.
THEOREM WaitEndsForItsBlock == Spec => []FlagMeansDone
<1>1. IInv => FlagMeansDone
  BY DEF IInv, FlagSet, MovedAt, FlagMeansDone
<1> QED
  BY Invariant, <1>1, PTL

-----------------------------------------------------------------------------
(* The driver implements Disk: every step is a step of Disk or changes      *)
(* nothing that Disk speaks of.                                             *)

LEMMA InitRefines == Init => Promise!Init
BY Defaults DEF Init, Request, Promise!Init, Promise!NoCall, Stored, Unsafe, Pending

\* A call begins.
LEMMA CallsRefine == IInv /\ Calls => Promise!Next
<1> SUFFICES ASSUME IInv, Calls PROVE Promise!Next
  OBVIOUS
<1>1. Pending = Promise!NoCall
  BY DEF IInv, OpAt, Calls, disk_read, disk_write, disk_ioctl, Begin, Pending, Promise!NoCall
<1>2. UNCHANGED <<Stored, Unsafe, answer>>
  BY DEF Calls, disk_read, disk_write, disk_ioctl, Begin, hw, Stored, Unsafe
<1>3. Pending' \in Promise!Requests
  <2>1. ASSUME NEW s \in Sectors, disk_read(s)
        PROVE  Pending' \in [op : {"read"}, sect : Sectors]
    BY <2>1 DEF disk_read, Begin, Request, Pending
  <2>2. ASSUME NEW s \in Sectors, NEW v \in Values, disk_write(s, v)
        PROVE  Pending' \in [op : {"write"}, sect : Sectors, value : Values, taken : {FALSE}]
    BY <2>2 DEF disk_write, Begin, Request, Pending
  <2>3. ASSUME disk_ioctl
        PROVE  Pending' = Promise!Sync
    BY <2>3 DEF disk_ioctl, Begin, Request, Pending, Promise!Sync
  <2> QED
    BY <2>1, <2>2, <2>3 DEF Calls, Promise!Requests
<1>4. Promise!Begin(Pending')
  BY <1>1, <1>2 DEF Promise!Begin
<1> QED
  BY <1>3, <1>4 DEF Promise!Next

\* The only steps of the driver that Disk sees are those that return.
LEMMA ReturnRefines == IInv /\ Return => Promise!Next
<1> SUFFICES ASSUME IInv, Return PROVE Promise!Next
  OBVIOUS
<1> DEFINE res == IF pc = "done" THEN "ok" ELSE "error"
<1>1. /\ reg.value \in Values /\ reg.sect \in Sectors
      /\ reg.op \in CallOps
  BY RegFields DEF IInv, TypeOK, OpAt, Return
<1>2. Pending.op = reg.op
  BY <1>1 DEF Pending, CallOps
<1>3. Pending # Promise!NoCall /\ Pending' = Promise!NoCall
  BY <1>1, <1>2 DEF Return, Request, Pending, Promise!NoCall, CallOps
<1>4. Pending.op = "read" /\ res = "ok" => reg.value = Stored[Pending.sect]
  BY <1>1, <1>2 DEF IInv, Content, BusyAt, Pending, Stored
<1>5. Pending.op = "write" => (res = "ok" <=> Pending.taken)
  BY <1>1, <1>2 DEF IInv, TypeOK, MovedAt, Return, Pending
<1>6. Pending.op = "sync" /\ res = "ok" => Unsafe = {}
  BY <1>2 DEF IInv, BusyAt, Unsafe
<1>7. UNCHANGED <<Stored, Unsafe>> /\ answer' = [res |-> res, value |-> reg.value]
  BY DEF Return, hw, Stored, Unsafe
<1>8. Promise!Return(res, reg.value)
  BY <1>3, <1>4, <1>5, <1>6, <1>7 DEF Promise!Return
<1> QED
  BY <1>1, <1>8 DEF Promise!Next

LEMMA DriverRefines ==
    IInv /\ Driver /\ ~Return => UNCHANGED <<Stored, Unsafe, Pending, answer>>
<1> SUFFICES ASSUME IInv, Driver, ~Return
             PROVE  UNCHANGED <<Stored, Unsafe, Pending, answer>>
  OBVIOUS
<1>0. card \in Cards /\ reg \in Regs
  BY DEF IInv, TypeOK
<1>1. blk' = blk /\ answer' = answer /\ moved' = moved
  BY DEF Driver, DESELECT, SELECT, Load, Clear, Disable, CheckStatus, SetFlag,
     Enable, Command, Start, Wait, Copy, wait_ready, hw
<1>2. card' = card \/ (card.st # "prg" /\ card'.st # "prg")
  BY <1>0 DEF IInv, BusyAt, Cards, Driver, DESELECT, SELECT, Load, Clear, Disable, CheckStatus,
     SetFlag, Enable, Command, Start, Wait, Copy, wait_ready, hw
<1>3. /\ reg'.op = reg.op /\ reg'.sect = reg.sect
      /\ reg.op = "write" => reg'.value = reg.value
  <2>1. CASE Copy
    BY <1>0, <2>1 DEF Copy, IInv, OpAt, Regs
  <2>2. CASE wait_ready
    BY <1>0, <2>2 DEF wait_ready, Regs
  <2>3. CASE CheckStatus \/ Command
    BY <1>0, <2>3 DEF CheckStatus, Command, Then, Failed, Retry, Regs
  <2>4. CASE DESELECT \/ SELECT \/ Load \/ Clear \/ Disable \/ SetFlag \/ Enable \/ Start \/ Wait
    BY <2>4 DEF DESELECT, SELECT, Load, Clear, Disable, SetFlag, Enable, Start, Wait, Then
  <2> QED
    BY <2>1, <2>2, <2>3, <2>4 DEF Driver
<1> QED
  BY <1>1, <1>2, <1>3 DEF Stored, Unsafe, Pending

\* The card takes the block of a disk_write, or has programmed it.
LEMMA HardwareRefines ==
    IInv /\ Hardware => Promise!Next \/ UNCHANGED <<Stored, Unsafe, Pending, answer>>
<1> SUFFICES ASSUME IInv, Hardware
             PROVE  Promise!Next \/ UNCHANGED <<Stored, Unsafe, Pending, answer>>
  OBVIOUS
<1>0. /\ card \in Cards /\ card.sect \in Sectors /\ blk \in [Sectors -> Values]
      /\ reg.value \in Values /\ reg.sect \in Sectors /\ reg.op \in CallOps \cup {"none"}
  BY CardFields, RegFields DEF IInv, TypeOK
<1>1. UNCHANGED <<reg, answer>>
  BY DEF Hardware, CardSends, CardTakes, CardPrograms, DataTimeout, Signal, Driven
<1>2. CASE CardSends
  <2>1. moved' = moved \/ reg.op = "read"
    BY <1>0, <1>2 DEF CardSends, IInv, PathMine, OpAt, CallOps
  <2>2. card.st # "prg" /\ card'.st # "prg" /\ blk' = blk
    BY <1>0, <1>2 DEF CardSends, Leaves, Cards
  <2> QED
    BY <1>1, <2>1, <2>2 DEF Stored, Unsafe, Pending
<1>3. CASE CardTakes
  <2>1. /\ pc = "wait" /\ ~moved /\ reg.op = "write" /\ card.sect = reg.sect
        /\ wblock = reg.value /\ card.st # "prg" /\ blk' = blk
    BY <1>3 DEF CardTakes, IInv, PathMine, OpAt, Content
  <2>2. CASE card'.st = "prg"
    <3>1. /\ card' = [card EXCEPT !.st = "prg", !.in = wblock]
          /\ moved' = TRUE
      BY <1>0, <1>3, <2>2 DEF CardTakes, Leaves, Cards
    <3>2. card'.sect = reg.sect /\ card'.in = reg.value
      BY <1>0, <2>1, <3>1 DEF Cards
    <3>3. Stored' = [Stored EXCEPT ![reg.sect] = reg.value]
      BY <1>0, <2>1, <2>2, <3>2 DEF Stored
    <3>4. Unsafe' = Unsafe \cup {reg.sect}
      BY <2>1, <2>2, <3>2 DEF Unsafe
    <3>5. /\ Pending  = Promise!Write(reg.sect, reg.value, FALSE)
          /\ Pending' = Promise!Write(reg.sect, reg.value, TRUE)
      BY <1>1, <2>1, <3>1 DEF Pending, Promise!Write, IInv, TypeOK
    <3>6. Promise!Take(reg.sect, reg.value)
      BY <1>1, <3>3, <3>4, <3>5 DEF Promise!Take
    <3> QED
      BY <1>0, <3>6 DEF Promise!Next
  <2>3. CASE card'.st # "prg"
    <3>1. moved' = moved
      BY <1>0, <1>3, <2>3 DEF CardTakes, Cards
    <3> QED
      BY <1>1, <2>1, <2>3, <3>1 DEF Stored, Unsafe, Pending
  <2> QED
    BY <2>2, <2>3
<1>4. CASE CardPrograms
  <2>1. card'.st = "tran" /\ card'.sect = card.sect
    BY <1>0, <1>4 DEF CardPrograms, Leaves, Cards
  <2>2. Stored' = Stored
    BY <1>0, <1>4, <2>1 DEF CardPrograms, Stored
  <2>3. Pending' = Pending
    BY <1>1, <1>4 DEF CardPrograms, Pending
  <2>4. Promise!Program(card.sect)
    BY <1>1, <1>4, <2>1, <2>2, <2>3 DEF CardPrograms, Unsafe, Promise!Program
  <2> QED
    BY <1>0, <2>4 DEF Promise!Next
<1>5. CASE DataTimeout \/ \E f \in Flags : Signal(f)
  BY <1>1, <1>5 DEF DataTimeout, Signal, Stored, Unsafe, Pending
<1> QED
  BY <1>2, <1>3, <1>4, <1>5 DEF Hardware

LEMMA StepRefines == IInv /\ [Next]_vars => [Promise!Next]_(Promise!vars)
<1> SUFFICES ASSUME IInv, [Next]_vars PROVE [Promise!Next]_(Promise!vars)
  OBVIOUS
<1>1. CASE Calls
  BY <1>1, CallsRefine
<1>2. CASE Driver
  BY <1>2, ReturnRefines, DriverRefines DEF Promise!vars
<1>3. CASE MCI_IRQHandler
  BY <1>3 DEF MCI_IRQHandler, Promise!vars, Stored, Unsafe, Pending
<1>4. CASE Hardware
  BY <1>4, HardwareRefines DEF Promise!vars
<1>5. CASE UNCHANGED vars
  BY <1>5 DEF vars, hw, Promise!vars, Stored, Unsafe, Pending
<1> QED
  BY <1>1, <1>2, <1>3, <1>4, <1>5 DEF Next

\* disk_read, disk_write and disk_ioctl keep the promise of Disk, for every set
\* of sectors and blocks, number of retries and number and kind of faults.
THEOREM DriverImplementsDisk == Spec => DiskImplemented
BY InitRefines, Invariant, StepRefines, PTL DEF Spec, DiskImplemented, Promise!Spec

-----------------------------------------------------------------------------
(* The whole driver.                                                       *)

\* CardInit with its proofs: the same definitions as Card, under a name of
\* their own, hence the lemmas that begin with Same.
Bringup == INSTANCE CardInitProofs WITH Tries <- InitTries, Faults <- InitFaults

SdIInv == Bringup!IInv /\ IInv

-----------------------------------------------------------------------------
(* Card and Bringup are the same.                                           *)

LEMMA SameParameters == Bringup!Parameters
BY CardAssumption DEF Card!Parameters, Bringup!Parameters, Card!AllKinds, Bringup!AllKinds,
   Card!Commands, Bringup!Commands, Card!FaultKinds, Bringup!FaultKinds

LEMMA SameInit == Card!Init => Bringup!Init
BY DEF Card!Init, Bringup!Init, Card!Cold, Bringup!Cold

LEMMA SameType == Bringup!CardTypeOK => CardTypeOK
BY DEF CardTypeOK, Card!CardTypeOK, Bringup!CardTypeOK, Card!Sds, Bringup!Sds,
   Card!Types, Bringup!Types, Card!RCAs, Bringup!RCAs, Card!Places, Bringup!Places,
   Card!InLoop, Bringup!InLoop, Card!States, Bringup!States

LEMMA SameSound == Bringup!InitSound => InitSound
BY DEF InitSound, Card!InitSound, Bringup!InitSound, Card!Address, Bringup!Address

LEMMA SameNext == Card!Next => Bringup!Next
<1> USE DEF
    Card!Cold, Bringup!Cold, Card!Fault, Bringup!Fault, Card!Fine,
    Bringup!Fine, Card!Exchange, Bringup!Exchange, Card!Replies,
    Bringup!Replies, Card!IsSD, Bringup!IsSD, Card!Address, Bringup!Address,
    Card!Addressed, Bringup!Addressed, Card!To, Bringup!To, Card!ToApp,
    Bringup!ToApp, Card!Fails, Bringup!Fails, Card!LastTry, Bringup!LastTry,
    Card!Again, Bringup!Again, Card!AppAddress, Bringup!AppAddress,
    Card!MCI_Send_ACMD, Bringup!MCI_Send_ACMD, Card!AskedForCapacity,
    Bringup!AskedForCapacity, Card!WakesUp, Bringup!WakesUp, Card!Woken,
    Bringup!Woken, Card!GivesUpType, Bringup!GivesUpType, Card!AfterWidth,
    Bringup!AfterWidth, Card!NotCounted, Bringup!NotCounted, Card!WidthFails,
    Bringup!WidthFails, Card!Selectable, Bringup!Selectable, Card!vars,
    Bringup!vars, Card!host, Bringup!host, Card!RCAs, Bringup!RCAs
<1>1. Card!disk_initialize => Bringup!disk_initialize
  BY DEF Card!disk_initialize, Bringup!disk_initialize
<1>2. Card!MCI_Go_Idle_State => Bringup!MCI_Go_Idle_State
  BY DEF Card!MCI_Go_Idle_State, Bringup!MCI_Go_Idle_State
<1>3. Card!MCI_Send_IF_Cond => Bringup!MCI_Send_IF_Cond
  BY DEF Card!MCI_Send_IF_Cond, Bringup!MCI_Send_IF_Cond
<1>4. Card!app41 => Bringup!app41
  BY DEF Card!app41, Bringup!app41
<1>5. Card!MCI_Send_ACMD_OP_Cond => Bringup!MCI_Send_ACMD_OP_Cond
  BY DEF Card!MCI_Send_ACMD_OP_Cond, Bringup!MCI_Send_ACMD_OP_Cond
<1>6. Card!MCI_Send_OP_Cond => Bringup!MCI_Send_OP_Cond
  BY DEF Card!MCI_Send_OP_Cond, Bringup!MCI_Send_OP_Cond
<1>7. Card!MCI_Check_CID => Bringup!MCI_Check_CID
  BY DEF Card!MCI_Check_CID, Bringup!MCI_Check_CID
<1>8. Card!MCI_Set_Address => Bringup!MCI_Set_Address
  BY DEF Card!MCI_Set_Address, Bringup!MCI_Set_Address
<1>9. Card!MCI_Send_CSD => Bringup!MCI_Send_CSD
  BY DEF Card!MCI_Send_CSD, Bringup!MCI_Send_CSD
<1>10. Card!MCI_Select_Card => Bringup!MCI_Select_Card
  BY DEF Card!MCI_Select_Card, Bringup!MCI_Select_Card
<1>11. Card!app6 => Bringup!app6
  BY DEF Card!app6, Bringup!app6
<1>12. Card!MCI_Send_ACMD_Bus_Width => Bringup!MCI_Send_ACMD_Bus_Width
  BY DEF Card!MCI_Send_ACMD_Bus_Width, Bringup!MCI_Send_ACMD_Bus_Width
<1>13. Card!MCI_Set_BlockLen => Bringup!MCI_Set_BlockLen
  BY DEF Card!MCI_Set_BlockLen, Bringup!MCI_Set_BlockLen
<1>14. Card!CheckStatus => Bringup!CheckStatus
  BY DEF Card!CheckStatus, Bringup!CheckStatus
<1>15. Card!app13 => Bringup!app13
  BY DEF Card!app13, Bringup!app13
<1>16. Card!MCI_Sd_Status => Bringup!MCI_Sd_Status
  BY DEF Card!MCI_Sd_Status, Bringup!MCI_Sd_Status
<1>17. Card!CardSends => Bringup!CardSends
  BY DEF Card!CardSends, Bringup!CardSends
<1>18. Card!SELECT => Bringup!SELECT
  BY DEF Card!SELECT, Bringup!SELECT
<1>19. Card!Waits => Bringup!Waits
  BY DEF Card!Waits, Bringup!Waits
<1> QED
  BY <1>1, <1>2, <1>3, <1>4, <1>5, <1>6, <1>7, <1>8, <1>9, <1>10, <1>11, <1>12, <1>13,
     <1>14, <1>15, <1>16, <1>17, <1>18, <1>19
  DEF Card!Next, Bringup!Next, Card!CardNext, Bringup!CardNext

-----------------------------------------------------------------------------
(* The invariants of both parts are invariants of the whole.               *)

LEMMA SdInitRight == SdInit => SdIInv
BY InitI, SameParameters, SameInit, Bringup!InitRight DEF SdInit, SdIInv

\* A step of the initialisation counts a fault at most; the transfers do not
\* look at the count.
LEMMA InitialisingRight == SdIInv /\ Initialising(Card!Next) => SdIInv'
<1> SUFFICES ASSUME SdIInv, Initialising(Card!Next) PROVE SdIInv'
  OBVIOUS
<1>1. Bringup!IInv'
  BY SameParameters, SameNext, Bringup!StepRight DEF SdIInv, Initialising
<1>2. faults' \in 0 .. MaxFaults
  BY <1>1 DEF Bringup!IInv, Bringup!CardTypeOK
<1>3. TypeOK'
  BY <1>2 DEF SdIInv, IInv, TypeOK, Initialising, hw, bufs
<1>4. IInv'
  BY <1>3 DEF SdIInv, Initialising, hw, bufs, IInv, OpAt, BlkEndMine, PathMine, FlagSet,
     MovedAt, BusyAt, Content
<1> QED
  BY <1>1, <1>4 DEF SdIInv

\* And the other way round.
LEMMA UpRight == SdIInv /\ Up(Next) => SdIInv'
<1> SUFFICES ASSUME SdIInv, Up(Next) PROVE SdIInv'
  OBVIOUS
<1>1. IInv'
  BY StepI DEF SdIInv, Up
<1>2. faults' \in 0 .. MaxFaults
  BY <1>1 DEF IInv, TypeOK
<1>3. Bringup!CardTypeOK'
  BY <1>2 DEF SdIInv, Up, initVars, Bringup!IInv, Bringup!CardTypeOK
<1>4. Bringup!IInv'
  BY <1>3 DEF SdIInv, Up, initVars, Bringup!IInv, Bringup!MmcApart, Bringup!TypeRight,
     Bringup!Agreed, Bringup!Addressed, Bringup!Address
<1> QED
  BY <1>1, <1>4 DEF SdIInv

LEMMA RestRight == SdIInv /\ UNCHANGED allVars => SdIInv'
BY StutterI DEF SdIInv, allVars, initVars, vars, Bringup!IInv, Bringup!CardTypeOK, Bringup!MmcApart,
   Bringup!TypeRight, Bringup!Agreed, Bringup!Addressed, Bringup!Address

LEMMA SdInvariant == SdSpec => []SdIInv
<1>1. SdIInv /\ [SdNext]_allVars => SdIInv'
  BY InitialisingRight, UpRight, RestRight DEF SdNext
<1> QED
  BY SdInitRight, <1>1, PTL DEF SdSpec

-----------------------------------------------------------------------------
(* The theorems.                                                           *)

\* Every variable of the driver keeps its type, from power-up on: no loop of
\* disk_initialize goes on after its last try, no command of disk_read or
\* disk_write is tried more than Retries times.
THEOREM CardTypesCorrect == SdSpec => [](CardTypeOK /\ TypeOK)
<1>1. SdIInv => CardTypeOK /\ TypeOK
  BY SameType DEF SdIInv, Bringup!IInv, IInv
<1> QED
  BY SdInvariant, <1>1, PTL

\* A disk_initialize that reports success has found card and driver in
\* agreement, whatever was lost on the way and whatever was tried before, and
\* the transfers that follow do not disturb it.
THEOREM CardAgrees == SdSpec => []InitSound
<1>1. SdIInv => InitSound
  BY Bringup!SoundFromInv, SameSound DEF SdIInv
<1> QED
  BY SdInvariant, <1>1, PTL

\* From power-up on, the wait of disk_read or disk_write never ends because of
\* the flag of another transfer.
THEOREM CardWaitsForItsBlock == SdSpec => []FlagMeansDone
<1>1. SdIInv => FlagMeansDone
  BY DEF SdIInv, IInv, FlagSet, MovedAt, FlagMeansDone
<1> QED
  BY SdInvariant, <1>1, PTL

\* The driver with its initialisation implements Disk: the steps of
\* disk_initialize change nothing that Disk speaks of.
THEOREM CardImplementsDisk == SdSpec => DiskImplemented
<1>1. SdInit => Promise!Init
  BY InitRefines DEF SdInit
<1>2. SdIInv /\ [SdNext]_allVars => [Promise!Next]_(Promise!vars)
  <2> SUFFICES ASSUME SdIInv, [SdNext]_allVars PROVE [Promise!Next]_(Promise!vars)
    OBVIOUS
  <2>1. CASE Up(Next)
    BY <2>1, StepRefines DEF Up, SdIInv
  <2>2. CASE Initialising(Card!Next)
    BY <2>2 DEF Initialising, hw, Promise!vars, Stored, Unsafe, Pending
  <2>3. CASE UNCHANGED allVars
    BY <2>3 DEF allVars, vars, hw, Promise!vars, Stored, Unsafe, Pending
  <2> QED
    BY <2>1, <2>2, <2>3 DEF SdNext
<1> QED
  BY <1>1, <1>2, SdInvariant, PTL DEF SdSpec, DiskImplemented, Promise!Spec
=============================================================================
