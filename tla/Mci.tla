-------------------------------- MODULE Mci --------------------------------
(***************************************************************************)
(* The SD card driver: disk_read, disk_write and disk_ioctl(CTRL_SYNC) of  *)
(* diskio.c for one sector, on MCI_Read_Block and MCI_Write_Block of mci.c *)
(* with DMA, against MCI_IRQHandler, the controller and the card.          *)
(*                                                                         *)
(* main() and the handler share MCI_Block_End_Flag.  One step of the       *)
(* driver is one command to the card or one access to what the handler or  *)
(* the controller can change meanwhile.  The loops of SELECT, DESELECT and *)
(* wait_ready ask the card for its state until they see the one they want: *)
(* a step that waits.  They stop early only if Timer2 becomes 0, and no    *)
(* code of the program ever decrements it.                                 *)
(***************************************************************************)
EXTENDS Integers, FiniteSets

CONSTANTS
    Sectors, Values,
    Retries,    \* bound: attempts at a command, 0x20 in mci.c
    Faults,     \* what may go wrong, see FaultKinds
    MaxFaults   \* bound: how often

FaultKinds ==
    {"mute",    \* the card does not answer CMD13 for a whole MCI_Send_Status
     "lost",    \* a command does not reach the card
     "answer",  \* the card obeys, but its answer is lost or garbled
     "data",    \* the data block is damaged, late, or not fetched in time
     "early"}   \* the card sends before the controller listens

ASSUME RetriesAssumption == Retries \in Nat \ {0}
ASSUME SectorAssumption == Sectors # {} /\ Values # {}
ASSUME FaultAssumption == Faults \subseteq FaultKinds /\ MaxFaults \in Nat

VARIABLES
    card,       \* the card: state, sector of the command, block it programs
    blk,        \* the memory of the card
    path,       \* MCI_DATA_CTRL: what the controller listens for or sends
    coming,     \* flags of a finished block not raised yet
    status,     \* MCI_STATUS, the data flags
    enabled,    \* MCI_MASK0: the data interrupts are enabled
    flag,       \* MCI_Block_End_Flag
    rblock, wblock,  \* ReadBlock and WriteBlock, the DMA buffers
    pc, reg,    \* the call in progress and its arguments
    moved,      \* the block of this call has been transferred
    answer,     \* result of the last call, and what it read
    faults      \* how much has gone wrong

hw   == <<card, blk, path, coming, status>>
bufs == <<rblock, wblock>>
vars == <<hw, enabled, flag, bufs, pc, reg, moved, answer, faults>>

CardStates == {"stby", "tran", "data", "rcv", "prg"}
Flags == {"dataEnd", "blkEnd", "error"}
CallOps == {"read", "write", "sync"}
Pcs   == {"idle", "deselect", "unselect", "select", "load", "clear", "disable",
          "check", "flag", "enable", "command", "start", "wait", "copy", "ready",
          "done", "fail"}
Cards == [st : CardStates, sect : Sectors, in : Values]
Regs  == [op : CallOps \cup {"none"}, sect : Sectors, value : Values,
          tries : 1 .. Retries, then : {"select", "done", "fail"}]
Anything == CHOOSE v \in Values : TRUE
Nowhere  == CHOOSE s \in Sectors : TRUE
Request(op, s, v) ==
    [op |-> op, sect |-> s, value |-> v, tries |-> Retries, then |-> "select"]

Init ==
    /\ card = [st |-> "tran", sect |-> Nowhere, in |-> Anything]
    /\ blk \in [Sectors -> Values]
    /\ path = "off" /\ coming = {} /\ status = {}
    /\ enabled = FALSE /\ flag = 0
    /\ rblock = Anything /\ wblock = Anything
    /\ pc = "idle" /\ reg = Request("none", Nowhere, Anything)
    /\ moved = FALSE
    /\ answer = [res |-> "none", value |-> Anything]
    /\ faults = 0

\* Something goes wrong, or nothing does.
Fault(k) == k \in Faults /\ faults < MaxFaults /\ faults' = faults + 1
Fine     == UNCHANGED faults

-----------------------------------------------------------------------------
(* The calls.                                                              *)

Begin(op, s, v, first) ==
    /\ pc = "idle" /\ pc' = first
    /\ reg' = Request(op, s, v) /\ moved' = FALSE
    /\ Fine
    /\ UNCHANGED <<hw, enabled, flag, bufs, answer>>

disk_read(s)     == Begin("read", s, Anything, "deselect")
disk_write(s, v) == Begin("write", s, v, "deselect")
disk_ioctl       == Begin("sync", Nowhere, Anything, "select")

Then(l) == pc' = l /\ UNCHANGED reg

\* Mutant: the card is expected to be selected still.
Selected == {"tran"}

\* DESELECT: waits for stby or trans, and takes the card from trans to stby by
\* CMD7 without an address, which no card answers.
Settled == {"tran", "stby"}
DESELECT ==
    \/ /\ pc = "deselect" /\ card.st \in Settled
       /\ Then(IF card.st = "tran" THEN "unselect" ELSE reg.then)
       /\ Fine /\ UNCHANGED card
       /\ UNCHANGED <<blk, path, coming, status, enabled, flag, bufs, moved, answer>>
    \/ /\ pc = "unselect" /\ Then(reg.then)
       /\ \/ card' = [card EXCEPT !.st = "stby"] /\ Fine
          \/ UNCHANGED card /\ Fault("lost")
       /\ UNCHANGED <<blk, path, coming, status, enabled, flag, bufs, moved, answer>>

\* SELECT: CMD7 until the card is in trans.  It asks again after each attempt,
\* so it does not matter whether the card's answer arrives.
SELECT ==
    /\ pc = "select"
    /\ \/ card.st = "stby" /\ card' = [card EXCEPT !.st = "tran"]
          /\ UNCHANGED <<pc, reg>>
       \/ card.st = "tran" /\ UNCHANGED card
          /\ Then(CASE reg.op = "read"  -> "clear"
                    [] reg.op = "write" -> "load"
                    [] OTHER            -> "ready")
    /\ Fine
    /\ UNCHANGED <<blk, path, coming, status, enabled, flag, bufs, moved, answer>>

\* disk_write copies the caller's sector into the DMA buffer.
Load ==
    /\ pc = "load" /\ Then("clear")
    /\ wblock' = reg.value
    /\ Fine
    /\ UNCHANGED <<hw, enabled, flag, rblock, moved, answer>>

\* MCI_Read_Block and MCI_Write_Block: first the old flags go, then the data
\* path of the controller is switched off.
Clear ==
    /\ pc = "clear" /\ Then("disable")
    /\ status' = {}
    /\ Fine
    /\ UNCHANGED <<card, blk, path, coming, enabled, flag, bufs, moved, answer>>

Disable ==
    /\ pc = "disable" /\ Then("check")
    /\ path' = "off" /\ coming' = {}
    /\ Fine
    /\ UNCHANGED <<card, blk, status, enabled, flag, bufs, moved, answer>>

\* A block command that failed: disk_write returns as it is, disk_read
\* deselects the card.
Failed ==
    IF reg.op = "write" THEN Then("fail")
    ELSE pc' = "deselect" /\ reg' = [reg EXCEPT !.then = "fail"]

\* MCI_CheckStatus: without an answer the driver sends CMD12, which a card in
\* trans ignores, and gives up.
CheckStatus ==
    /\ pc = "check"
    /\ \/ card.st = "tran" /\ Then(IF reg.op = "read" THEN "enable" ELSE "flag") /\ Fine
       \/ Failed /\ Fault("mute")
    /\ UNCHANGED <<hw, enabled, flag, bufs, moved, answer>>

\* A read enables the interrupts and then sets the flag, a write the other way
\* round.
SetFlag ==
    /\ pc = "flag" /\ Then(IF reg.op = "read" THEN "command" ELSE "enable")
    /\ flag' = 1
    /\ Fine
    /\ UNCHANGED <<hw, enabled, bufs, moved, answer>>

Enable ==
    /\ pc = "enable" /\ Then(IF reg.op = "read" THEN "flag" ELSE "command")
    /\ enabled' = TRUE
    /\ Fine
    /\ UNCHANGED <<hw, flag, bufs, moved, answer>>


-----------------------------------------------------------------------------
(* MCI_Send_Read_Block, MCI_Send_Write_Block, and the data path.           *)

\* Mutant: the retries are counted to 0 before the last one.
NoneLeft == reg.tries = 0

LastTry == reg.tries = 1
Retry ==
    IF LastTry THEN Failed
    ELSE reg' = [reg EXCEPT !.tries = @ - 1] /\ UNCHANGED pc

\* CMD17 and CMD24, which a card obeys in trans only.  Every attempt clears the
\* flags.  The card may obey although the driver does not get its answer.
Command ==
    /\ pc = "command" /\ status' = {}
    /\ \/ /\ card.st = "tran"
          /\ card' = [card EXCEPT !.st = IF reg.op = "read" THEN "data" ELSE "rcv",
                                  !.sect = reg.sect]
          /\ \/ Then("start") /\ Fine
             \/ Retry /\ Fault("answer")
       \/ card.st = "tran" /\ UNCHANGED card /\ Retry /\ Fault("lost")
       \/ card.st # "tran" /\ UNCHANGED card /\ Retry /\ Fine
    /\ UNCHANGED <<blk, path, coming, enabled, flag, bufs, moved, answer>>

\* The DMA channel and the data path are switched on after the answer.
Start ==
    /\ pc = "start" /\ Then("wait")
    /\ path' = IF reg.op = "read" THEN "rx" ELSE "tx"
    /\ Fine
    /\ UNCHANGED <<card, blk, coming, status, enabled, flag, bufs, moved, answer>>

\* Mutant: the flag is not waited for.
NotWaited == TRUE

\* while ( MCI_Block_End_Flag == 1 ) in disk_read and disk_write.
Waited == flag = 0
Wait ==
    /\ pc = "wait" /\ Waited
    /\ Then(IF reg.op = "read" THEN "copy" ELSE "done")
    /\ Fine
    /\ UNCHANGED <<hw, enabled, flag, bufs, moved, answer>>

Copy ==
    /\ pc = "copy" /\ pc' = "deselect"
    /\ reg' = [reg EXCEPT !.value = rblock, !.then = "done"]
    /\ Fine
    /\ UNCHANGED <<hw, enabled, flag, bufs, moved, answer>>

\* wait_ready of disk_ioctl(CTRL_SYNC).
wait_ready ==
    /\ pc = "ready" /\ card.st \in {"tran", "stby"}
    /\ pc' = "deselect" /\ reg' = [reg EXCEPT !.then = "done"]
    /\ Fine
    /\ UNCHANGED <<hw, enabled, flag, bufs, moved, answer>>

Return ==
    /\ pc \in {"done", "fail"} /\ pc' = "idle"
    /\ answer' = [res |-> IF pc = "done" THEN "ok" ELSE "error", value |-> reg.value]
    /\ reg' = Request("none", Nowhere, Anything) /\ moved' = FALSE
    /\ Fine
    /\ UNCHANGED <<hw, enabled, flag, bufs>>

Driver ==
    \/ DESELECT \/ SELECT \/ Load \/ Clear \/ Disable \/ CheckStatus \/ SetFlag
    \/ Enable \/ Command \/ Start \/ Wait \/ Copy \/ wait_ready \/ Return

-----------------------------------------------------------------------------
(* MCI_IRQHandler runs as long as an enabled flag is up: it serves an error *)
(* before the end of the data, and that before the end of the block.  Only  *)
(* the last one disables the interrupts and clears MCI_Block_End_Flag.      *)

Served ==
    CASE "error" \in status   -> "error"
      [] "dataEnd" \in status -> "dataEnd"
      [] OTHER                -> "blkEnd"
\* Mutant: DATA_END clears the flag.
EndsOrFails(f) == f # "error"
Ends(f) == f = "blkEnd"

MCI_IRQHandler ==
    /\ enabled /\ status # {}
    /\ status' = status \ {Served}
    /\ IF Ends(Served) THEN flag' = 0 /\ enabled' = FALSE ELSE UNCHANGED <<flag, enabled>>
    /\ Fine
    /\ UNCHANGED <<card, blk, path, coming, bufs, pc, reg, moved, answer>>

-----------------------------------------------------------------------------
(* The card and the data path of the controller.                           *)

Driven == <<enabled, flag, wblock, pc, reg, answer>>
Leaves == card' = [card EXCEPT !.st = "tran"]

\* A block sent to a controller that does not listen is lost.  While the
\* driver switches the data path on the card is normally not ready to send.
CardSends ==
    /\ card.st = "data" /\ Leaves
    /\ \/ /\ path = "rx" /\ Fine
          /\ rblock' = blk[card.sect] /\ moved' = TRUE
          /\ coming' = {"dataEnd", "blkEnd"} /\ path' = "off" /\ UNCHANGED status
       \/ /\ path = "rx" /\ Fault("data")
          /\ rblock' \in Values /\ UNCHANGED moved
          /\ status' = status \cup {"error"} /\ path' = "off" /\ UNCHANGED coming
       \/ /\ path # "rx" /\ IF pc = "start" THEN Fault("early") ELSE Fine
          /\ UNCHANGED <<rblock, moved, coming, status, path>>
    /\ UNCHANGED <<blk, Driven>>

CardTakes ==
    /\ card.st = "rcv" /\ path = "tx" /\ path' = "off"
    /\ \/ /\ card' = [card EXCEPT !.st = "prg", !.in = wblock] /\ Fine
          /\ coming' = {"dataEnd", "blkEnd"} /\ moved' = TRUE /\ UNCHANGED status
       \/ /\ Leaves /\ Fault("data")
          /\ status' = status \cup {"error"} /\ UNCHANGED <<coming, moved>>
    /\ UNCHANGED <<blk, rblock, Driven>>

CardPrograms ==
    /\ card.st = "prg" /\ Leaves
    /\ blk' = [blk EXCEPT ![card.sect] = card.in]
    /\ Fine
    /\ UNCHANGED <<path, coming, status, rblock, moved, Driven>>

\* MCI_DATA_TMR runs out on a block that does not come.
DataTimeout ==
    /\ path = "rx" /\ card.st # "data" /\ path' = "off"
    /\ status' = status \cup {"error"}
    /\ Fine
    /\ UNCHANGED <<card, blk, coming, rblock, moved, Driven>>

Signal(f) ==
    /\ f \in coming /\ coming' = coming \ {f}
    /\ status' = status \cup {f}
    /\ Fine
    /\ UNCHANGED <<card, blk, path, rblock, moved, Driven>>

Hardware ==
    \/ CardSends \/ CardTakes \/ CardPrograms \/ DataTimeout
    \/ \E f \in Flags : Signal(f)

-----------------------------------------------------------------------------

Calls ==
    \/ \E s \in Sectors : disk_read(s)
    \/ \E s \in Sectors, v \in Values : disk_write(s, v)
    \/ disk_ioctl

Next == Calls \/ Driver \/ MCI_IRQHandler \/ Hardware
Spec == Init /\ [][Next]_vars

\* The processor runs on, the handler is served, and the card and the
\* controller finish what they have begun.  Nobody has to make a call.
FairSpec ==
    Spec /\ WF_vars(Driver) /\ WF_vars(MCI_IRQHandler) /\ WF_vars(Hardware)

-----------------------------------------------------------------------------
(* Properties.                                                             *)

\* Every variable keeps its type; in particular no command is tried more than
\* Retries times.
TypeOK ==
    /\ card \in Cards
    /\ blk \in [Sectors -> Values]
    /\ path \in {"off", "rx", "tx"}
    /\ coming \subseteq Flags \ {"error"} /\ status \subseteq Flags
    /\ enabled \in BOOLEAN /\ flag \in {0, 1}
    /\ rblock \in Values /\ wblock \in Values
    /\ pc \in Pcs
    /\ reg \in Regs
    /\ moved \in BOOLEAN
    /\ answer \in [res : {"none", "ok", "error"}, value : Values]
    /\ faults \in 0 .. MaxFaults

\* MCI_Block_End_Flag is shared by all transfers and is cleared by the second
\* of two interrupts: when the wait of disk_read or disk_write ends, it is the
\* block of this call that has been transferred, never what was left of an
\* earlier one or of an error.
FlagMeansDone == pc \in {"wait", "copy"} /\ flag = 0 => moved

\* What Disk speaks of: the block a card programs counts as stored, and is the
\* only one that is not safe.
Stored == [s \in Sectors |->
             IF card.st = "prg" /\ card.sect = s THEN card.in ELSE blk[s]]
Unsafe == IF card.st = "prg" THEN {card.sect} ELSE {}
Pending ==
    CASE reg.op = "read"  -> [op |-> "read", sect |-> reg.sect]
      [] reg.op = "write" -> [op |-> "write", sect |-> reg.sect,
                              value |-> reg.value, taken |-> moved]
      [] OTHER            -> [op |-> reg.op]
Promise == INSTANCE Disk WITH
    stored <- Stored, unsafe <- Unsafe, call <- Pending, answer <- answer

\* The calls of diskio.c keep the promise of Disk, whatever goes wrong below:
\* a read delivers the sector it was asked for, a write reports success iff
\* the card took the block, CTRL_SYNC succeeds only when the card has
\* programmed everything.
DiskImplemented == Promise!Spec

\* Every call returns, however often commands are lost or the card is mute, if
\* no answer is lost after the card obeyed and no data block is damaged.
CallsReturn == pc # "idle" ~> pc = "idle"

\* A hard error of the transfer makes disk_read and disk_write return
\* RES_ERROR (ffat_chan/doc_eng/en/dread.html, dwrite.html): the wait for
\* MCI_Block_End_Flag ends.
HardErrorReturned == pc = "wait" ~> pc # "wait"

\* The loops of SELECT, DESELECT and wait_ready give up when Timer2, the
\* "1000Hz decrement timer" of diskio.c, has run out.
TimeoutsEnd == \A l \in {"deselect", "select", "ready"} : pc = l ~> pc # l

=============================================================================
