------------------------------ MODULE CardInit ------------------------------
(***************************************************************************)
(* disk_initialize of diskio.c on the commands of mci.c: which card is     *)
(* there, its address, its bus width, its block length.  One step is one   *)
(* command with its answer, and each has its own idea of a good answer and *)
(* its own number of tries.  The card follows the state diagram of the SD  *)
(* and MMC specifications, which the comments of the code cite: a command  *)
(* it does not expect in its state, or not for its address, it ignores.    *)
(***************************************************************************)
EXTENDS Integers

CONSTANTS
    Kinds,      \* the cards that may be there
    Tries,      \* attempts at each command
    Faults,     \* what may go wrong, see FaultKinds
    MaxFaults,  \* bound: how often
    MaxBusy     \* bound: how often a card answers that it is still powering up

FaultKinds ==
    {"unsent",  \* a command does not reach the card
     "answer",  \* the card obeys, but its answer is lost
     "crc",     \* the answer has a wrong check sum
     "mute",    \* the card does not answer CMD13 for a whole MCI_Send_Status
     "data"}    \* the block of the SD status is damaged

Commands == {"CMD8", "CMD55", "ACMD41", "CMD1", "CMD2", "CMD3", "CMD9", "CMD7",
             "ACMD6", "CMD16", "ACMD13"}
AllKinds == {"mmc", "sd1", "sd2", "sdhc"}
\* What a module that uses this one has to see to.
Parameters ==
    /\ Kinds \subseteq AllKinds
    /\ Tries \in [Commands -> Nat \ {0}]
    /\ Faults \subseteq FaultKinds /\ MaxFaults \in Nat
    /\ MaxBusy \in Nat

VARIABLES
    sd,         \* the card
    type,       \* MCI_CardType
    rca,        \* CardRCA
    width,      \* the bus width of the controller
    place,      \* the command that comes next
    tries,      \* the tries left of its loop ...
    appTries,   \* ... and of the CMD55 before an ACMD
    stat,       \* Stat has STA_NOINIT
    faults      \* how much has gone wrong

host == <<type, rca, width, place, tries, appTries, stat>>
vars == <<sd, host, faults>>

Types == {"unknown", "MMC", "SDSC", "SDHC", "SDV2"}
RCAs  == 0 .. 2     \* 1 is the address the driver gives to an MMC card
States == {"idle", "ready", "ident", "stby", "tran", "data"}
Places == {"off", "CMD0", "CMD8", "app41", "ACMD41", "CMD1", "CMD2", "CMD3", "CMD9",
           "CMD7", "app6", "ACMD6", "len64", "check", "app13", "ACMD13", "data",
           "len512", "SELECT", "up"}
InLoop == Places \ {"off", "CMD0", "check", "data", "SELECT", "up"}
Sds == [kind : Kinds, st : States, rca : RCAs, width : {1, 4}, len : {64, 512},
        app : BOOLEAN,            \* the next command is an ACMD
        v2 : BOOLEAN,             \* it has seen CMD8
        busy : 0 .. MaxBusy]
Cold(k, b) == [kind |-> k, st |-> "idle", rca |-> 0, width |-> 1, len |-> 512,
               app |-> FALSE, v2 |-> FALSE, busy |-> b]

\* After a reset of the processor alone the card is where it was.
Init ==
    /\ \E k \in Kinds, b \in 0 .. MaxBusy :
           sd \in {Cold(k, b), [Cold(k, b) EXCEPT !.st = "tran", !.rca = 2]}
    /\ type = "unknown" /\ rca = 0 /\ width = 1
    /\ place = "off" /\ tries = 0 /\ appTries = 0
    /\ stat = TRUE
    /\ faults = 0

-----------------------------------------------------------------------------
(* The command path.                                                       *)

Fault(k) == k \in Faults /\ faults < MaxFaults /\ faults' = faults + 1
Fine     == UNCHANGED faults

\* MCI_SendCmd and MCI_GetCmdResp: a card that expects the command becomes
\* next, and the driver sees a good answer, a bad check sum, or a timeout.
Exchange(expected, next, reply) ==
    \/ expected /\ sd' = next /\
        \/ reply = "good" /\ Fine
        \/ reply = "crc"  /\ Fault("crc")
        \/ reply = "none" /\ Fault("answer")
    \/ expected /\ UNCHANGED sd /\ reply = "none" /\ Fault("unsent")
    \/ ~expected /\ UNCHANGED sd /\ reply = "none" /\ Fine

Replies == {"good", "crc", "none"}
IsSD == sd.kind # "mmc"

\* The address the commands use: an MMC card has a fixed one.
Address == IF type = "MMC" THEN 1 ELSE rca
Addressed == Address # 0 /\ Address = sd.rca

To(p, c) == place' = p /\ tries' = Tries[c] /\ UNCHANGED appTries
ToApp(p, c) == place' = p /\ tries' = Tries[c] /\ appTries' = Tries["CMD55"]
\* A failure: disk_initialize goes to power_off.
Fails == place' = "SELECT" /\ tries' = 0 /\ UNCHANGED appTries

\* Mutant: one try too many.
NoneLeft == tries = 0

LastTry == tries = 1
Again(p, fail) ==
    IF LastTry THEN fail
    ELSE place' = p /\ tries' = tries - 1 /\ appTries' = Tries["CMD55"]

-----------------------------------------------------------------------------
(* MCI_Init and MCI_CardInit.                                              *)

\* MCI_Init switches the power of the card off and on if it was on; on some
\* boards that has no effect.  The bus width of the controller stays.
disk_initialize ==
    /\ place = "off"
    /\ sd' \in {sd} \cup {Cold(sd.kind, b) : b \in 0 .. MaxBusy}
    /\ type' = "unknown" /\ place' = "CMD0"
    /\ Fine /\ UNCHANGED <<rca, width, tries, appTries, stat>>

\* MCI_Go_Idle_State: there is no answer to CMD0, so it is sent once.
MCI_Go_Idle_State ==
    /\ place = "CMD0" /\ To("CMD8", "CMD8")
    /\ \/ Fine /\ sd' \in {Cold(sd.kind, b) : b \in 0 .. MaxBusy}
       \/ Fault("unsent") /\ UNCHANGED sd
    /\ UNCHANGED <<type, rca, width, stat>>

\* MCI_Send_IF_Cond: only a card of version 2 answers, and a wrong check sum
\* is good enough.
MCI_Send_IF_Cond ==
    /\ place = "CMD8"
    /\ \E reply \in Replies :
        /\ Exchange(sd.st = "idle" /\ sd.kind \in {"sd2", "sdhc"},
                    [sd EXCEPT !.v2 = TRUE], reply)
        /\ IF reply # "none" THEN ToApp("app41", "ACMD41") /\ type' = "SDV2"
           ELSE Again("CMD8", ToApp("app41", "ACMD41")) /\ UNCHANGED type
    /\ UNCHANGED <<rca, width, stat>>

\* MCI_Send_ACMD: CMD55.  The argument is the address if the type is known.
AppAddress == IF type \in {"SDSC", "SDHC"} THEN rca ELSE 0
MCI_Send_ACMD(p, acmd, fail) ==
    /\ place = p
    /\ \E reply \in Replies :
        /\ Exchange(IsSD /\ \/ sd.st = "idle" /\ AppAddress = 0
                            \/ sd.st \in {"stby", "tran", "data"} /\ AppAddress = sd.rca,
                    [sd EXCEPT !.app = TRUE], reply)
        /\ CASE reply = "good" -> place' = acmd /\ UNCHANGED <<tries, appTries>>
             [] reply # "good" /\ appTries > 1 ->
                    appTries' = appTries - 1 /\ UNCHANGED <<place, tries>>
             [] OTHER -> fail
    /\ UNCHANGED <<type, rca, width, stat>>

\* MCI_CardType is not set before MCI_CardInit is over; it holds here whether
\* CMD8 was answered.
app41 ==
    MCI_Send_ACMD("app41", "ACMD41", Again("app41", To("CMD1", "CMD1")))

\* Mutant: the argument of ACMD41 never asks for high capacity.
NeverAsked == FALSE

\* A card that is still busy says so; a card of high capacity stays busy unless
\* it has seen CMD8 and is asked for high capacity.
AskedForCapacity == sd.v2 /\ type = "SDV2"
WakesUp ==
    CASE sd.busy > 0 -> [sd EXCEPT !.app = FALSE, !.busy = @ - 1]
      [] sd.busy = 0 /\ sd.kind = "sdhc" /\ ~AskedForCapacity ->
             [sd EXCEPT !.app = FALSE]
      [] OTHER -> [sd EXCEPT !.app = FALSE, !.st = "ready"]
\* The answers to ACMD41 and CMD1 have no check sum.
Woken(reply) == reply # "none" /\ sd'.st = "ready"

MCI_Send_ACMD_OP_Cond ==
    /\ place = "ACMD41"
    /\ \E reply \in Replies :
        /\ Exchange(sd.app /\ sd.st = "idle", WakesUp, reply)
        /\ IF Woken(reply)
           THEN To("CMD2", "CMD2") /\ type' = IF sd.kind = "sdhc" THEN "SDHC" ELSE "SDSC"
           ELSE Again("app41", To("CMD1", "CMD1")) /\ UNCHANGED type
    /\ UNCHANGED <<rca, width, stat>>

\* If this fails too the type is unknown, or SDV2 when CMD8 was answered, which
\* disk_initialize does not take for a failure.
GivesUpType == IF type = "SDV2" THEN To("CMD2", "CMD2") ELSE Fails
MCI_Send_OP_Cond ==
    /\ place = "CMD1"
    /\ \E reply \in Replies :
        /\ Exchange(sd.kind = "mmc" /\ sd.st = "idle", WakesUp, reply)
        /\ IF Woken(reply) THEN To("CMD2", "CMD2") /\ type' = "MMC"
           ELSE Again("CMD1", GivesUpType) /\ UNCHANGED type
    /\ UNCHANGED <<rca, width, stat>>

-----------------------------------------------------------------------------
(* Address, data and selection.                                            *)

MCI_Check_CID ==
    /\ place = "CMD2"
    /\ \E reply \in Replies :
        /\ Exchange(sd.st = "ready", [sd EXCEPT !.st = "ident"], reply)
        /\ IF reply # "none" THEN To("CMD3", "CMD3") ELSE Again("CMD2", Fails)
    /\ UNCHANGED <<type, rca, width, stat>>

\* MCI_Set_Address: an SD card chooses its address, and a new one when it is
\* asked again in stby, which the driver takes for a failure.  After a wrong
\* check sum the driver looks at a response nobody has written.
MCI_Set_Address ==
    /\ place = "CMD3"
    /\ \E reply \in Replies, a \in RCAs \ {0} :
        /\ Exchange(sd.st = "ident" \/ (IsSD /\ sd.st = "stby"),
                    [sd EXCEPT !.st = "stby", !.rca = IF IsSD THEN a ELSE Address], reply)
        /\ \/ /\ reply = "good" /\ sd.st = "ident"
              /\ To("CMD9", "CMD9") /\ rca' = IF IsSD THEN a ELSE 0
           \/ reply = "crc" /\ To("CMD9", "CMD9") /\ rca' \in RCAs
           \/ /\ ~(reply = "good" /\ sd.st = "ident")
              /\ Again("CMD3", Fails) /\ UNCHANGED rca
    /\ UNCHANGED <<type, width, stat>>

MCI_Send_CSD ==
    /\ place = "CMD9"
    /\ \E reply \in Replies :
        /\ Exchange(sd.st = "stby" /\ Addressed, sd, reply)
        /\ IF reply = "good" THEN To("CMD7", "CMD7") ELSE Again("CMD9", Fails)
    /\ UNCHANGED <<type, rca, width, stat>>

\* MCI_Select_Card, then SD_Set_BusWidth, which switches the controller before
\* it asks the card.
MCI_Select_Card ==
    /\ place = "CMD7"
    /\ \E reply \in Replies :
        /\ Exchange(sd.st = "stby" /\ Addressed, [sd EXCEPT !.st = "tran"], reply)
        /\ CASE reply = "good" /\ type \in {"SDSC", "SDHC"} ->
                    ToApp("app6", "ACMD6") /\ width' = 4
             [] reply = "good" /\ type \notin {"SDSC", "SDHC"} ->
                    To("len512", "CMD16") /\ UNCHANGED width
             [] OTHER -> Again("CMD7", Fails) /\ UNCHANGED width
    /\ UNCHANGED <<type, rca, stat>>

-----------------------------------------------------------------------------
(* Bus width, SD status and block length.                                  *)

AfterWidth == IF type = "SDHC" THEN To("len64", "CMD16") ELSE To("len512", "CMD16")
\* Mutant: the result of SD_Set_BusWidth is ignored.
Ignored == AfterWidth

\* MCI_Send_ACMD_Bus_Width: a failure of CMD55 does not count.
NotCounted == appTries' = Tries["CMD55"] /\ UNCHANGED <<place, tries>>
app6 == MCI_Send_ACMD("app6", "ACMD6", NotCounted)

WidthFails == Fails
MCI_Send_ACMD_Bus_Width ==
    /\ place = "ACMD6"
    /\ \E reply \in Replies :
        /\ Exchange(sd.app /\ sd.st = "tran", [sd EXCEPT !.app = FALSE, !.width = 4], reply)
        /\ IF reply = "good" THEN AfterWidth ELSE Again("app6", WidthFails)
    /\ UNCHANGED <<type, rca, width, stat>>

\* MCI_Set_BlockLen for the SD status of a card of high capacity, and for the
\* sectors of every card.
MCI_Set_BlockLen ==
    /\ place \in {"len64", "len512"}
    /\ \E reply \in Replies :
        /\ Exchange(sd.st = "tran",
                    [sd EXCEPT !.len = IF place = "len64" THEN 64 ELSE 512], reply)
        /\ CASE reply = "good" /\ place = "len64" ->
                    place' = "check" /\ UNCHANGED <<tries, appTries, stat>>
             [] reply = "good" /\ place = "len512" ->
                    place' = "up" /\ stat' = FALSE /\ tries' = 0 /\ appTries' = 0
             [] OTHER -> Again(place, Fails) /\ UNCHANGED stat
    /\ UNCHANGED <<type, rca, width>>

\* MCI_Sd_Status: MCI_CheckStatus, then ACMD13 until it is answered.
CheckStatus ==
    /\ place = "check"
    /\ \/ sd.st = "tran" /\ Addressed /\ ToApp("app13", "ACMD13") /\ Fine
       \/ Fails /\ Fault("mute")
    /\ UNCHANGED <<sd, type, rca, width, stat>>

app13 == MCI_Send_ACMD("app13", "ACMD13", Again("app13", Fails))

MCI_Sd_Status ==
    /\ place = "ACMD13"
    /\ \E reply \in Replies :
        /\ Exchange(sd.app /\ sd.st = "tran", [sd EXCEPT !.app = FALSE, !.st = "data"], reply)
        /\ IF reply = "good" THEN place' = "data" /\ UNCHANGED <<tries, appTries>>
           ELSE Again("app13", Fails)
    /\ UNCHANGED <<type, rca, width, stat>>

\* The card sends the status.  MCI_get_sd_status waits for it as long as it
\* takes: Timer2 stands still, and a damaged block never clears the flag.
CardSends ==
    /\ sd.st = "data" /\ sd' = [sd EXCEPT !.st = "tran"]
    /\ \/ place = "data" /\ To("len512", "CMD16") /\ Fine
       \/ place = "data" /\ UNCHANGED <<place, tries, appTries>> /\ Fault("data")
       \/ place # "data" /\ UNCHANGED <<place, tries, appTries>> /\ Fine
    /\ UNCHANGED <<type, rca, width, stat>>

\* power_off: SELECT asks for the status of the card and selects it, without
\* end if the card does not answer to the address; wait_ready, DESELECT, and
\* the power goes off.
Selectable == sd.st = "tran" \/ (sd.st = "stby" /\ type # "unknown")
SELECT ==
    /\ place = "SELECT" /\ Addressed /\ Selectable
    /\ \/ /\ sd.st = "stby" /\ sd' = [sd EXCEPT !.st = "tran"]
          /\ UNCHANGED <<place, stat>>
       \/ /\ sd.st = "tran" /\ sd' = [sd EXCEPT !.st = "stby"]
          /\ place' = "off" /\ stat' = TRUE
    /\ Fine /\ UNCHANGED <<type, rca, width, tries, appTries>>

Waits ==
    /\ \/ place = "SELECT" /\ ~(Addressed /\ Selectable)
       \/ place = "data" /\ sd.st # "data"
    /\ UNCHANGED vars

CardNext ==
    \/ MCI_Go_Idle_State \/ MCI_Send_IF_Cond \/ app41 \/ MCI_Send_ACMD_OP_Cond
    \/ MCI_Send_OP_Cond \/ MCI_Check_CID \/ MCI_Set_Address \/ MCI_Send_CSD
    \/ MCI_Select_Card \/ app6 \/ MCI_Send_ACMD_Bus_Width \/ MCI_Set_BlockLen
    \/ CheckStatus \/ app13 \/ MCI_Sd_Status \/ CardSends \/ SELECT

Next == disk_initialize \/ CardNext \/ Waits
Spec == Init /\ [][Next]_vars

-----------------------------------------------------------------------------
(* Properties.                                                             *)

\* Every variable keeps its type, and no loop goes on after its last try.
CardTypeOK ==
    /\ sd \in Sds
    /\ type \in Types /\ rca \in RCAs /\ width \in {1, 4}
    /\ place \in Places
    /\ tries \in Nat /\ (place \in InLoop => tries > 0)
    /\ appTries \in 0 .. Tries["CMD55"] /\ (place \in {"app41", "app6", "app13"} => appTries > 0)
    /\ stat \in BOOLEAN
    /\ faults \in 0 .. MaxFaults

\* When disk_initialize reports success the card and the driver agree: it is
\* selected under the address the driver uses, takes sectors of 512 bytes over
\* as many lines as the controller drives, and if its type was found it is
\* addressed by blocks exactly when it has high capacity.
InitSound ==
    place = "up" =>
        /\ sd.st = "tran" /\ Address = sd.rca /\ sd.len = 512
        /\ type # "SDV2" => /\ sd.width = width
                            /\ type = "SDHC" <=> sd.kind = "sdhc"
=============================================================================
