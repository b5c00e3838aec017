------------------------------- MODULE SdCard -------------------------------
(***************************************************************************)
(* The SD card driver from the start: CardInit until disk_initialize has   *)
(* succeeded, then Mci.  CardInit leaves the card selected and idle, which *)
(* is where Mci begins; what it has found out stays as it is.  Faults come *)
(* out of one budget.                                                      *)
(***************************************************************************)
EXTENDS Mci

CONSTANTS
    Kinds, InitTries, InitFaults, MaxBusy   \* see CardInit

VARIABLES sd, type, rca, width, place, tries, appTries, stat
initVars == <<sd, type, rca, width, place, tries, appTries, stat>>
allVars == <<vars, initVars>>

Card == INSTANCE CardInit WITH Tries <- InitTries, Faults <- InitFaults
ASSUME CardAssumption == Card!Parameters

SdInit == Init /\ Card!Init

Up(A) == place = "up" /\ A /\ UNCHANGED initVars
Initialising(A) ==
    /\ A
    /\ UNCHANGED <<hw, enabled, flag, bufs, pc, reg, moved, answer>>

SdNext == Initialising(Card!Next) \/ Up(Next)
SdSpec == SdInit /\ [][SdNext]_allVars

\* As in Mci; the processor runs on, and the card sends what it has to send.
SdFairSpec ==
    /\ SdSpec
    /\ WF_allVars(Initialising(Card!CardNext))
    /\ WF_allVars(Up(Driver)) /\ WF_allVars(Up(MCI_IRQHandler)) /\ WF_allVars(Up(Hardware))

-----------------------------------------------------------------------------
(* Properties.                                                             *)

\* Every variable of the initialisation keeps its type.
CardTypeOK == Card!CardTypeOK

\* When disk_initialize reports success the driver and the card agree on
\* address, bus width, block length and capacity, whatever command or answer
\* was lost or damaged on the way and whatever was tried before.
InitSound == Card!InitSound

\* A card that is back in idle is brought up, although it is busy for a while
\* and although fewer commands than there are tries do not reach it.
InitComesUp == place = "CMD8" /\ sd.st = "idle" ~> place = "up"

=============================================================================
