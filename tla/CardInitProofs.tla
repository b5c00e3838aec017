--------------------------- MODULE CardInitProofs ---------------------------
(***************************************************************************)
(* Proofs about CardInit: the types, and that a disk_initialize that       *)
(* reports success leaves card and driver in agreement, for any kinds of   *)
(* card, any number of tries and any number of faults.                     *)
(*                                                                         *)
(* What makes it so is gathered on the way: from CMD2 on the type is right *)
(* or SDV2, from CMD7 on the card is selected under the address the driver *)
(* uses, and from ACMD6 on a card of the SD family has its four lines.  An *)
(* MMC card never takes part in an ACMD.                                   *)
(***************************************************************************)
EXTENDS CardInit, TLAPS

Selected == {"app6", "ACMD6", "len64", "check", "app13", "ACMD13", "data", "len512", "up"}
Widened  == Selected \ {"app6", "ACMD6"}
Typed    == Selected \cup {"CMD2", "CMD3", "CMD9", "CMD7"}

\* Only a card of the SD family has anything to do with an ACMD.
MmcApart ==
    sd.kind = "mmc" => /\ ~sd.app /\ sd.width = 1 /\ width = 1
                       /\ type \notin {"SDSC", "SDHC"}

TypeRight ==
    place \in Typed =>
        \/ type = "SDV2"
        \/ type = "MMC" /\ sd.kind = "mmc"
        \/ type = "SDHC" /\ sd.kind = "sdhc"
        \/ type = "SDSC" /\ sd.kind \in {"sd1", "sd2"}

Agreed ==
    /\ place \in Selected => Addressed /\ sd.st \in {"tran", "data"}
    /\ place \in {"app6", "ACMD6"} => width = 4
    /\ place \in Widened /\ type \in {"SDSC", "SDHC"} => sd.width = 4 /\ width = 4
    /\ place = "up" => sd.st = "tran" /\ sd.len = 512

IInv == CardTypeOK /\ MmcApart /\ TypeRight /\ Agreed

-----------------------------------------------------------------------------
(* The operators.                                                          *)

\* A card that is powered up or reset, and one that changed its state, its
\* address, and so on.
LEMMA ColdType ==
    ASSUME Parameters, NEW k \in Kinds, NEW b \in 0 .. MaxBusy
    PROVE  /\ Cold(k, b) \in Sds
           /\ Cold(k, b).kind = k /\ Cold(k, b).width = 1 /\ ~Cold(k, b).app
BY DEF Sds, Cold, States, RCAs

LEMMA SdField ==
    ASSUME NEW s \in Sds
    PROVE  /\ \A w \in BOOLEAN : [s EXCEPT !.v2 = w] \in Sds /\ [s EXCEPT !.app = w] \in Sds
           /\ \A l \in {64, 512} : [s EXCEPT !.len = l] \in Sds
           /\ \A w \in {1, 4} : [s EXCEPT !.width = w] \in Sds
           /\ \A st \in States : [s EXCEPT !.st = st] \in Sds
           /\ \A a \in RCAs : [s EXCEPT !.rca = a] \in Sds
           /\ \A b \in 0 .. MaxBusy : [s EXCEPT !.busy = b] \in Sds
BY DEF Sds

LEMMA SdTypes ==
    ASSUME Parameters, NEW s \in Sds
    PROVE  /\ s.kind \in Kinds
           /\ \A w \in {1, 4} : [s EXCEPT !.app = FALSE, !.width = w] \in Sds
           /\ \A st \in States : /\ [s EXCEPT !.app = FALSE, !.st = st] \in Sds
                                 /\ \A a \in RCAs : [s EXCEPT !.st = st, !.rca = a] \in Sds
           /\ s.busy > 0 => [s EXCEPT !.app = FALSE, !.busy = s.busy - 1] \in Sds
<1>1. s.busy \in 0 .. MaxBusy /\ s.kind \in Kinds /\ MaxBusy \in Nat
  BY DEF Sds, Parameters
<1> DEFINE t == [s EXCEPT !.app = FALSE]
<1>2. t \in Sds
  <2>1. FALSE \in BOOLEAN
    OBVIOUS
  <2> QED
    BY <2>1, SdField
<1>3. \A w \in {1, 4} : [t EXCEPT !.width = w] \in Sds
  BY <1>2, SdField
<1>4. \A st \in States : [t EXCEPT !.st = st] \in Sds
  BY <1>2, SdField
<1>5. s.busy > 0 => [t EXCEPT !.busy = s.busy - 1] \in Sds
  <2>1. s.busy > 0 => s.busy - 1 \in 0 .. MaxBusy
    BY <1>1
  <2> QED
    BY <2>1, <1>2, SdField
<1>6. \A st \in States, a \in RCAs : [[s EXCEPT !.st = st] EXCEPT !.rca = a] \in Sds
  <2> TAKE st \in States, a \in RCAs
  <2>1. [s EXCEPT !.st = st] \in Sds
    BY SdField
  <2> QED
    BY <2>1, SdField
<1>7. \A w : [s EXCEPT !.app = FALSE, !.width = w] = [t EXCEPT !.width = w]
  OBVIOUS
<1>8. \A st : [s EXCEPT !.app = FALSE, !.st = st] = [t EXCEPT !.st = st]
  OBVIOUS
<1>9. [s EXCEPT !.app = FALSE, !.busy = s.busy - 1] = [t EXCEPT !.busy = s.busy - 1]
  OBVIOUS
<1>10. \A st, a : [s EXCEPT !.st = st, !.rca = a] = [[s EXCEPT !.st = st] EXCEPT !.rca = a]
  OBVIOUS
<1> HIDE DEF t
<1> QED
  BY <1>1, <1>3, <1>4, <1>5, <1>6, <1>7, <1>8, <1>9, <1>10

LEMMA FaultType ==
    ASSUME Parameters, faults \in 0 .. MaxFaults, NEW k, Fault(k) \/ Fine
    PROVE  faults' \in 0 .. MaxFaults
BY DEF Parameters, Fault, Fine

\* The ends of a loop leave it with a try left, or for good.
LoopOK ==
    /\ place \in Places /\ tries \in Nat /\ (place \in InLoop => tries > 0)
    /\ appTries \in 0 .. Tries["CMD55"]
    /\ place \in {"app41", "app6", "app13"} => appTries > 0

LEMMA ToType ==
    ASSUME Parameters, LoopOK, NEW p \in Places \ {"app41", "app6", "app13"},
           NEW c \in Commands, To(p, c)
    PROVE  LoopOK' /\ place' = p
BY DEF Parameters, LoopOK, To, Places, InLoop

LEMMA ToAppType ==
    ASSUME Parameters, LoopOK, NEW p \in Places, NEW c \in Commands, ToApp(p, c)
    PROVE  LoopOK' /\ place' = p
<1>1. Tries["CMD55"] \in Nat \ {0} /\ Tries[c] \in Nat \ {0}
  BY DEF Parameters, Commands
<1> QED
  BY <1>1 DEF LoopOK, ToApp, Places, InLoop

LEMMA FailsType ==
    ASSUME LoopOK, Fails
    PROVE  LoopOK' /\ place' = "SELECT"
BY DEF LoopOK, Fails, Places, InLoop

Back(p) == tries # 1 /\ place' = p /\ tries' = tries - 1 /\ appTries' = Tries["CMD55"]

LEMMA BackType ==
    ASSUME Parameters, LoopOK, tries > 0, NEW p \in Places, Back(p)
    PROVE  LoopOK' /\ place' = p
<1>1. Tries["CMD55"] \in Nat \ {0}
  BY DEF Parameters, Commands
<1> QED
  BY <1>1 DEF LoopOK, Back, Places, InLoop

\* What else a card is after one of its fields has changed.
LEMMA SdKept ==
    ASSUME NEW s \in Sds
    PROVE  /\ LET t == [s EXCEPT !.v2 = TRUE]
              IN  t.kind = s.kind /\ t.st = s.st /\ t.rca = s.rca /\ t.width = s.width
                  /\ t.len = s.len /\ t.app = s.app
           /\ \A w \in BOOLEAN :
              LET t == [s EXCEPT !.app = w]
              IN  t.kind = s.kind /\ t.st = s.st /\ t.rca = s.rca /\ t.width = s.width
                  /\ t.len = s.len /\ t.app = w
           /\ \A b :
              LET t == [s EXCEPT !.app = FALSE, !.busy = b]
              IN  t.kind = s.kind /\ t.st = s.st /\ t.rca = s.rca /\ t.width = s.width
                  /\ t.len = s.len /\ ~t.app
           /\ \A l \in {64, 512} :
              LET t == [s EXCEPT !.len = l]
              IN  t.kind = s.kind /\ t.st = s.st /\ t.rca = s.rca /\ t.width = s.width
                  /\ t.len = l /\ t.app = s.app
           /\ \A w \in {1, 4} :
              LET t == [s EXCEPT !.app = FALSE, !.width = w]
              IN  t.kind = s.kind /\ t.st = s.st /\ t.rca = s.rca /\ t.width = w
                  /\ t.len = s.len /\ ~t.app
           /\ \A st \in States :
              LET t == [s EXCEPT !.st = st]
              IN  t.kind = s.kind /\ t.st = st /\ t.rca = s.rca /\ t.width = s.width
                  /\ t.len = s.len /\ t.app = s.app
           /\ \A st \in States :
              LET t == [s EXCEPT !.app = FALSE, !.st = st]
              IN  t.kind = s.kind /\ t.st = st /\ t.rca = s.rca /\ t.width = s.width
                  /\ t.len = s.len /\ ~t.app
           /\ \A st \in States, a \in RCAs :
              LET t == [s EXCEPT !.st = st, !.rca = a]
              IN  t.kind = s.kind /\ t.st = st /\ t.rca = a /\ t.width = s.width
                  /\ t.len = s.len /\ t.app = s.app
BY DEF Sds

-----------------------------------------------------------------------------
(* The invariant, action by action.                                        *)

\* What the other parts need to know of a card that is not reset.
SameCard == sd' \in Sds /\ sd'.kind = sd.kind /\ faults' \in 0 .. MaxFaults

\* The parts make the whole.
LEMMA Together ==
    ASSUME SameCard, LoopOK', type' \in Types, rca' \in RCAs, width' \in {1, 4},
           stat' \in BOOLEAN, MmcApart', TypeRight', Agreed'
    PROVE  IInv'
BY DEF IInv, CardTypeOK, LoopOK, SameCard

LEMMA Parts ==
    ASSUME IInv
    PROVE  /\ sd \in Sds /\ LoopOK /\ type \in Types /\ rca \in RCAs /\ width \in {1, 4}
           /\ stat \in BOOLEAN /\ faults \in 0 .. MaxFaults
           /\ MmcApart /\ TypeRight /\ Agreed
           /\ place \in InLoop => tries > 0
BY DEF IInv, CardTypeOK, LoopOK

LEMMA InitRight == ASSUME Parameters PROVE Init => IInv
<1> SUFFICES ASSUME Init PROVE IInv
  OBVIOUS
<1>1. PICK k \in Kinds, b \in 0 .. MaxBusy :
          sd \in {Cold(k, b), [Cold(k, b) EXCEPT !.st = "tran", !.rca = 2]}
  BY DEF Init
<1>2. Cold(k, b) \in Sds /\ Cold(k, b).width = 1 /\ ~Cold(k, b).app
  BY <1>1, ColdType
<1>3. sd \in Sds /\ sd.width = 1 /\ ~sd.app
  <2>1. "tran" \in States /\ 2 \in RCAs
    BY DEF States, RCAs
  <2>2. [Cold(k, b) EXCEPT !.st = "tran", !.rca = 2] \in Sds
    BY <1>2, <2>1, SdTypes
  <2>3. /\ [Cold(k, b) EXCEPT !.st = "tran", !.rca = 2].width = 1
        /\ ~[Cold(k, b) EXCEPT !.st = "tran", !.rca = 2].app
    BY <1>2, <2>1, SdKept
  <2> QED
    BY <1>1, <1>2, <2>2, <2>3
<1>4. Tries["CMD55"] \in Nat /\ MaxFaults \in Nat
  BY DEF Parameters, Commands
<1>5. place = "off" /\ tries = 0 /\ appTries = 0 /\ type = "unknown" /\ width = 1
      /\ rca = 0 /\ stat = TRUE /\ faults = 0
  BY DEF Init
<1>6. CardTypeOK
  BY <1>3, <1>4, <1>5 DEF CardTypeOK, Places, InLoop, Types, RCAs
<1> QED
  BY <1>3, <1>5, <1>6 DEF IInv, MmcApart, TypeRight, Agreed, Typed, Selected, Widened

LEMMA InitialiseRight ==
    ASSUME Parameters, IInv, disk_initialize
    PROVE  IInv'
<1> USE Parts
<1>1. SameCard /\ (sd' = sd \/ (sd'.width = 1 /\ ~sd'.app))
  <2>1. faults' \in 0 .. MaxFaults
    BY DEF disk_initialize, Fine
  <2>2. sd.kind \in Kinds
    BY SdTypes
  <2>3. sd' = sd \/ \E b \in 0 .. MaxBusy : sd' = Cold(sd.kind, b)
    BY DEF disk_initialize
  <2> QED
    BY <2>1, <2>2, <2>3, ColdType DEF SameCard
<1>2. /\ place' = "CMD0" /\ type' = "unknown"
      /\ UNCHANGED <<rca, width, tries, appTries, stat>>
  BY DEF disk_initialize
<1>3. LoopOK'
  BY <1>2 DEF LoopOK, Places, InLoop
<1>4. MmcApart'
  BY <1>1, <1>2 DEF MmcApart, SameCard
<1>5. TypeRight' /\ Agreed'
  BY <1>2 DEF TypeRight, Agreed, Typed, Selected, Widened
<1> QED
  BY <1>1, <1>2, <1>3, <1>4, <1>5, Together DEF Types

LEMMA GoIdleRight ==
    ASSUME Parameters, IInv, MCI_Go_Idle_State
    PROVE  IInv'
<1> USE Parts
<1>1. SameCard /\ (sd' = sd \/ (sd'.width = 1 /\ ~sd'.app))
  <2>1. faults' \in 0 .. MaxFaults
    BY FaultType DEF MCI_Go_Idle_State
  <2>2. sd.kind \in Kinds
    BY SdTypes
  <2>3. sd' = sd \/ \E b \in 0 .. MaxBusy : sd' = Cold(sd.kind, b)
    BY DEF MCI_Go_Idle_State
  <2> QED
    BY <2>1, <2>2, <2>3, ColdType DEF SameCard
<1>2. UNCHANGED <<type, rca, width, stat>>
  BY DEF MCI_Go_Idle_State
<1>3. LoopOK' /\ place' = "CMD8"
  <2>1. To("CMD8", "CMD8")
    BY DEF MCI_Go_Idle_State
  <2>2. "CMD8" \in Places \ {"app41", "app6", "app13"} /\ "CMD8" \in Commands
    BY DEF Places, Commands
  <2> QED
    BY <2>1, <2>2, ToType
<1>4. MmcApart'
  BY <1>1, <1>2 DEF MmcApart, SameCard
<1>5. TypeRight' /\ Agreed'
  BY <1>3 DEF TypeRight, Agreed, Typed, Selected, Widened
<1> QED
  BY <1>1, <1>2, <1>3, <1>4, <1>5, Together DEF Types

\* Before CMD2, and in power_off, only what is said of an MMC card matters.
LEMMA Untyped ==
    ASSUME place' \notin Typed
    PROVE  TypeRight' /\ Agreed'
BY DEF TypeRight, Agreed, Typed, Selected, Widened

LEMMA IFCondRight ==
    ASSUME Parameters, IInv, MCI_Send_IF_Cond
    PROVE  IInv'
<1> USE Parts
<1>1. PICK reply \in Replies :
        /\ Exchange(sd.st = "idle" /\ sd.kind \in {"sd2", "sdhc"}, [sd EXCEPT !.v2 = TRUE], reply)
        /\ IF reply # "none" THEN ToApp("app41", "ACMD41") /\ type' = "SDV2"
           ELSE Again("CMD8", ToApp("app41", "ACMD41")) /\ UNCHANGED type
  BY DEF MCI_Send_IF_Cond
<1>2. place = "CMD8" /\ UNCHANGED <<rca, width, stat>>
  BY DEF MCI_Send_IF_Cond
<1>3. sd' = sd \/ sd' = [sd EXCEPT !.v2 = TRUE]
  BY <1>1 DEF Exchange
<1>4. faults' \in 0 .. MaxFaults
  BY <1>1, FaultType DEF Exchange
<1>5. SameCard /\ sd'.app = sd.app /\ sd'.width = sd.width
  <2>1. TRUE \in BOOLEAN
    OBVIOUS
  <2>2. [sd EXCEPT !.v2 = TRUE] \in Sds
    BY <2>1, SdField
  <2>3. /\ [sd EXCEPT !.v2 = TRUE].kind = sd.kind /\ [sd EXCEPT !.v2 = TRUE].app = sd.app
        /\ [sd EXCEPT !.v2 = TRUE].width = sd.width
    BY SdKept
  <2> QED
    BY <1>3, <1>4, <2>2, <2>3 DEF SameCard
<1>6. ToApp("app41", "ACMD41") \/ Back("CMD8")
  BY <1>1 DEF Again, LastTry, Back
<1>7. LoopOK' /\ place' \in {"app41", "CMD8"}
  <2>1. {"app41", "CMD8"} \subseteq Places /\ "ACMD41" \in Commands /\ tries > 0
    BY <1>2 DEF Places, Commands, InLoop
  <2> QED
    BY <1>6, <2>1, ToAppType, BackType
<1>8. type' \in {type, "SDV2"}
  BY <1>1
<1>9. MmcApart'
  BY <1>2, <1>5, <1>8 DEF MmcApart, SameCard
<1>10. TypeRight' /\ Agreed'
  BY <1>7, Untyped DEF Typed, Selected
<1> QED
  BY <1>2, <1>5, <1>7, <1>8, <1>9, <1>10, Together DEF Types

\* CMD55, up to what follows when it is lost too often.
AppSent(acmd, lost) ==
    \/ place' = acmd /\ UNCHANGED <<tries, appTries>>
    \/ appTries > 1 /\ appTries' = appTries - 1 /\ UNCHANGED <<place, tries>>
    \/ lost

LEMMA AppCard ==
    ASSUME Parameters, IInv, app41 \/ app6 \/ app13
    PROVE  /\ SameCard /\ sd'.st = sd.st /\ sd'.rca = sd.rca /\ sd'.width = sd.width
           /\ sd'.len = sd.len
           /\ sd'.app # sd.app => sd.kind # "mmc"
           /\ UNCHANGED <<type, rca, width, stat>>
           /\ MmcApart'
<1> USE Parts
<1>1. PICK reply \in Replies :
        Exchange(IsSD /\ \/ sd.st = "idle" /\ AppAddress = 0
                         \/ sd.st \in {"stby", "tran", "data"} /\ AppAddress = sd.rca,
                 [sd EXCEPT !.app = TRUE], reply)
  BY DEF app41, app6, app13, MCI_Send_ACMD
<1>2. UNCHANGED <<type, rca, width, stat>>
  BY DEF app41, app6, app13, MCI_Send_ACMD
<1>3. sd' = sd \/ (IsSD /\ sd' = [sd EXCEPT !.app = TRUE])
  BY <1>1 DEF Exchange
<1>4. faults' \in 0 .. MaxFaults
  BY <1>1, FaultType DEF Exchange
<1>5. TRUE \in BOOLEAN
  OBVIOUS
<1>6. /\ SameCard /\ sd'.st = sd.st /\ sd'.rca = sd.rca /\ sd'.width = sd.width
      /\ sd'.len = sd.len
  <2> DEFINE t == [sd EXCEPT !.app = TRUE]
  <2>1. t \in Sds
    BY <1>5, SdField
  <2>2. t.kind = sd.kind /\ t.st = sd.st /\ t.rca = sd.rca /\ t.width = sd.width
        /\ t.len = sd.len
    BY <1>5, SdKept
  <2> HIDE DEF t
  <2> QED
    BY <1>3, <1>4, <2>1, <2>2 DEF SameCard, t
<1>7. sd'.app # sd.app => sd.kind # "mmc"
  BY <1>3 DEF IsSD
<1> QED
  BY <1>2, <1>6, <1>7 DEF MmcApart, SameCard

LEMMA App41Right ==
    ASSUME Parameters, IInv, app41
    PROVE  IInv'
<1> USE Parts
<1>1. place = "app41" /\ (AppSent("ACMD41", To("CMD1", "CMD1")) \/ Back("app41"))
  BY DEF app41, MCI_Send_ACMD, AppSent, Again, LastTry, Back
<1>2. LoopOK' /\ place' \in {"ACMD41", "CMD1", "app41"}
  <2>1. tries > 0
    BY <1>1 DEF InLoop, Places
  <2>2. CASE AppSent("ACMD41", FALSE)
    <3>1. Tries["CMD55"] \in Nat
      BY DEF Parameters, Commands
    <3> QED
      BY <1>1, <2>1, <2>2, <3>1 DEF AppSent, LoopOK, Places, InLoop
  <2>3. CASE To("CMD1", "CMD1")
    BY <2>3, ToType DEF Places, Commands
  <2>4. CASE Back("app41")
    BY <2>1, <2>4, BackType DEF Places
  <2> QED
    BY <1>1, <2>2, <2>3, <2>4 DEF AppSent
<1>3. TypeRight' /\ Agreed'
  BY <1>2, Untyped DEF Typed, Selected
<1> QED
  BY <1>2, <1>3, AppCard, Together

LEMMA App6Right ==
    ASSUME Parameters, IInv, app6
    PROVE  IInv'
<1> USE Parts
<1>1. /\ place = "app6"
      /\ \/ AppSent("ACMD6", FALSE)
         \/ appTries' = Tries["CMD55"] /\ UNCHANGED <<place, tries>>
  BY DEF app6, MCI_Send_ACMD, AppSent, NotCounted
<1>2. LoopOK' /\ place' \in {"ACMD6", "app6"}
  <2>1. Tries["CMD55"] \in Nat \ {0}
    BY DEF Parameters, Commands
  <2> QED
    BY <1>1, <2>1 DEF AppSent, LoopOK, Places, InLoop
<1>3. TypeRight'
  BY <1>1, AppCard DEF TypeRight, Typed, Selected, SameCard
<1>4. Agreed'
  BY <1>1, <1>2, AppCard DEF Agreed, Selected, Widened, Addressed, Address
<1> QED
  BY <1>2, <1>3, <1>4, AppCard, Together

LEMMA App13Right ==
    ASSUME Parameters, IInv, app13
    PROVE  IInv'
<1> USE Parts
<1>1. /\ place = "app13"
      /\ AppSent("ACMD13", FALSE) \/ Back("app13") \/ Fails
  BY DEF app13, MCI_Send_ACMD, AppSent, Again, LastTry, Back
<1>2. LoopOK' /\ place' \in {"ACMD13", "app13", "SELECT"}
  <2>1. tries > 0
    BY <1>1 DEF InLoop, Places
  <2>2. CASE AppSent("ACMD13", FALSE)
    <3>1. Tries["CMD55"] \in Nat
      BY DEF Parameters, Commands
    <3> QED
      BY <1>1, <2>1, <2>2, <3>1 DEF AppSent, LoopOK, Places, InLoop
  <2>3. CASE Back("app13")
    BY <2>1, <2>3, BackType DEF Places
  <2> QED
    BY <1>1, <2>2, <2>3, FailsType
<1>3. TypeRight'
  BY <1>1, <1>2, AppCard DEF TypeRight, Typed, Selected, SameCard
<1>4. Agreed'
  BY <1>1, <1>2, AppCard DEF Agreed, Selected, Widened, Addressed, Address
<1> QED
  BY <1>2, <1>3, <1>4, AppCard, Together

\* The answer to ACMD41 and CMD1: the card is as before but for its power-up.
LEMMA WakesUpType ==
    ASSUME Parameters, sd \in Sds
    PROVE  /\ WakesUp \in Sds /\ WakesUp.kind = sd.kind /\ ~WakesUp.app
           /\ WakesUp.width = sd.width
<1>1. "ready" \in States
  BY DEF States
<1>2. [sd EXCEPT !.app = FALSE] \in Sds
  <2>1. FALSE \in BOOLEAN
    OBVIOUS
  <2> QED
    BY <2>1, SdField
<1>3. [sd EXCEPT !.app = FALSE, !.st = "ready"] \in Sds
  BY <1>1, SdTypes
<1>4. sd.busy > 0 => [sd EXCEPT !.app = FALSE, !.busy = sd.busy - 1] \in Sds
  BY SdTypes
<1>5. \/ WakesUp = [sd EXCEPT !.app = FALSE]
      \/ WakesUp = [sd EXCEPT !.app = FALSE, !.st = "ready"]
      \/ sd.busy > 0 /\ WakesUp = [sd EXCEPT !.app = FALSE, !.busy = sd.busy - 1]
  <2>1. sd.busy \in Nat
    BY DEF Sds, Parameters
  <2> QED
    BY <2>1 DEF WakesUp
<1>6. FALSE \in BOOLEAN
  OBVIOUS
<1>7. CASE WakesUp = [sd EXCEPT !.app = FALSE]
  <2>1. LET t == [sd EXCEPT !.app = FALSE]
        IN  t.kind = sd.kind /\ ~t.app /\ t.width = sd.width
    BY <1>6, SdKept
  <2> QED
    BY <1>2, <1>7, <2>1
<1>8. CASE WakesUp = [sd EXCEPT !.app = FALSE, !.st = "ready"]
  <2>1. LET t == [sd EXCEPT !.app = FALSE, !.st = "ready"]
        IN  t.kind = sd.kind /\ ~t.app /\ t.width = sd.width
    BY <1>1, SdKept
  <2> QED
    BY <1>3, <1>8, <2>1
<1>9. CASE sd.busy > 0 /\ WakesUp = [sd EXCEPT !.app = FALSE, !.busy = sd.busy - 1]
  <2>1. LET t == [sd EXCEPT !.app = FALSE, !.busy = sd.busy - 1]
        IN  t.kind = sd.kind /\ ~t.app /\ t.width = sd.width
    BY SdKept
  <2> QED
    BY <1>4, <1>9, <2>1
<1> QED
  BY <1>5, <1>7, <1>8, <1>9

LEMMA SdOpCondRight ==
    ASSUME Parameters, IInv, MCI_Send_ACMD_OP_Cond
    PROVE  IInv'
<1> USE Parts
<1>1. PICK reply \in Replies :
        /\ Exchange(sd.app /\ sd.st = "idle", WakesUp, reply)
        /\ IF Woken(reply)
           THEN To("CMD2", "CMD2") /\ type' = IF sd.kind = "sdhc" THEN "SDHC" ELSE "SDSC"
           ELSE Again("app41", To("CMD1", "CMD1")) /\ UNCHANGED type
  BY DEF MCI_Send_ACMD_OP_Cond
<1>2. place = "ACMD41" /\ UNCHANGED <<rca, width, stat>>
  BY DEF MCI_Send_ACMD_OP_Cond
<1>3. (reply = "none" /\ sd' = sd) \/ (sd.app /\ sd' \in {sd, WakesUp})
  BY <1>1 DEF Exchange
<1>4. faults' \in 0 .. MaxFaults
  BY <1>1, FaultType DEF Exchange
<1>5. SameCard /\ sd'.width = sd.width /\ (sd'.app => sd.app)
  BY <1>3, <1>4, WakesUpType DEF SameCard
<1>6. LoopOK' /\ place' \in {"CMD2", "CMD1", "app41"}
  <2>1. tries > 0
    BY <1>2 DEF InLoop, Places
  <2>2. To("CMD2", "CMD2") \/ To("CMD1", "CMD1") \/ Back("app41")
    BY <1>1 DEF Again, LastTry, Back
  <2> QED
    BY <2>1, <2>2, ToType, BackType DEF Places, Commands
<1>7. /\ \/ type' = type
         \/ sd.app /\ type' = IF sd.kind = "sdhc" THEN "SDHC" ELSE "SDSC"
      /\ place' = "CMD2" => type' = IF sd.kind = "sdhc" THEN "SDHC" ELSE "SDSC"
  <2>1. CASE Woken(reply)
    BY <1>1, <1>3, <2>1 DEF Woken
  <2>2. CASE ~Woken(reply)
    BY <1>1, <2>2 DEF Again, LastTry, Back, To
  <2> QED
    BY <2>1, <2>2
<1>8. place' = "CMD2" => sd.app
  <2>1. place' = "CMD2" => Woken(reply)
    BY <1>1 DEF Again, LastTry, Back, To
  <2> QED
    BY <1>3, <2>1 DEF Woken
<1>9. MmcApart'
  BY <1>2, <1>5, <1>7 DEF MmcApart, SameCard
<1>10. sd.kind \in {"sd1", "sd2", "sdhc", "mmc"}
  BY SdTypes DEF Parameters, AllKinds
<1>11. TypeRight'
  BY <1>5, <1>6, <1>7, <1>8, <1>10 DEF TypeRight, Typed, Selected, SameCard, MmcApart
<1>12. Agreed'
  BY <1>6 DEF Agreed, Selected, Widened
<1> QED
  BY <1>2, <1>5, <1>6, <1>7, <1>9, <1>11, <1>12, Together DEF Types

LEMMA MmcOpCondRight ==
    ASSUME Parameters, IInv, MCI_Send_OP_Cond
    PROVE  IInv'
<1> USE Parts
<1>1. PICK reply \in Replies :
        /\ Exchange(sd.kind = "mmc" /\ sd.st = "idle", WakesUp, reply)
        /\ IF Woken(reply) THEN To("CMD2", "CMD2") /\ type' = "MMC"
           ELSE Again("CMD1", GivesUpType) /\ UNCHANGED type
  BY DEF MCI_Send_OP_Cond
<1>2. place = "CMD1" /\ UNCHANGED <<rca, width, stat>>
  BY DEF MCI_Send_OP_Cond
<1>3. (reply = "none" /\ sd' = sd) \/ (sd.kind = "mmc" /\ sd' \in {sd, WakesUp})
  BY <1>1 DEF Exchange
<1>4. faults' \in 0 .. MaxFaults
  BY <1>1, FaultType DEF Exchange
<1>5. SameCard /\ sd'.width = sd.width /\ (sd'.app => sd.app)
  BY <1>3, <1>4, WakesUpType DEF SameCard
<1>6. LoopOK' /\ place' \in {"CMD2", "CMD1", "SELECT"}
  <2>1. tries > 0
    BY <1>2 DEF InLoop, Places
  <2>2. To("CMD2", "CMD2") \/ Fails \/ Back("CMD1")
    BY <1>1 DEF Again, LastTry, Back, GivesUpType
  <2> QED
    BY <2>1, <2>2, ToType, BackType, FailsType DEF Places, Commands
<1>7. /\ type' = type \/ (type' = "MMC" /\ sd.kind = "mmc")
      /\ place' = "CMD2" => type' = "SDV2" \/ (type' = "MMC" /\ sd.kind = "mmc")
  <2>1. CASE Woken(reply)
    BY <1>1, <1>3, <2>1 DEF Woken
  <2>2. CASE ~Woken(reply)
    BY <1>1, <2>2 DEF Again, LastTry, Back, GivesUpType, To, Fails
  <2> QED
    BY <2>1, <2>2
<1>8. MmcApart'
  BY <1>2, <1>5, <1>7 DEF MmcApart, SameCard
<1>9. TypeRight'
  BY <1>5, <1>6, <1>7 DEF TypeRight, Typed, Selected, SameCard
<1>10. Agreed'
  BY <1>6 DEF Agreed, Selected, Widened
<1> QED
  BY <1>2, <1>5, <1>6, <1>7, <1>8, <1>9, <1>10, Together DEF Types

LEMMA CIDRight ==
    ASSUME Parameters, IInv, MCI_Check_CID
    PROVE  IInv'
<1> USE Parts
<1>1. PICK reply \in Replies :
        /\ Exchange(sd.st = "ready", [sd EXCEPT !.st = "ident"], reply)
        /\ IF reply # "none" THEN To("CMD3", "CMD3") ELSE Again("CMD2", Fails)
  BY DEF MCI_Check_CID
<1>2. place = "CMD2" /\ UNCHANGED <<type, rca, width, stat>>
  BY DEF MCI_Check_CID
<1>3. SameCard /\ sd'.width = sd.width /\ sd'.app = sd.app
  <2>1. "ident" \in States
    BY DEF States
  <2>2. sd' = sd \/ sd' = [sd EXCEPT !.st = "ident"]
    BY <1>1 DEF Exchange
  <2>3. [sd EXCEPT !.st = "ident"] \in Sds
    BY <2>1, SdField
  <2>4. LET t == [sd EXCEPT !.st = "ident"]
        IN  t.kind = sd.kind /\ t.width = sd.width /\ t.app = sd.app
    BY <2>1, SdKept
  <2>5. faults' \in 0 .. MaxFaults
    BY <1>1, FaultType DEF Exchange
  <2> QED
    BY <2>2, <2>3, <2>4, <2>5 DEF SameCard
<1>4. LoopOK' /\ place' \in {"CMD2", "CMD3", "SELECT"}
  <2>1. tries > 0
    BY <1>2 DEF InLoop, Places
  <2>2. To("CMD3", "CMD3") \/ Fails \/ Back("CMD2")
    BY <1>1 DEF Again, LastTry, Back
  <2> QED
    BY <2>1, <2>2, ToType, BackType, FailsType DEF Places, Commands
<1>5. MmcApart' /\ TypeRight'
  BY <1>2, <1>3, <1>4 DEF MmcApart, TypeRight, Typed, Selected, SameCard
<1>6. Agreed'
  BY <1>4 DEF Agreed, Selected, Widened
<1> QED
  BY <1>2, <1>3, <1>4, <1>5, <1>6, Together

LEMMA AddressRight ==
    ASSUME Parameters, IInv, MCI_Set_Address
    PROVE  IInv'
<1> USE Parts
<1> DEFINE x(a) == IF IsSD THEN a ELSE Address
<1>1. PICK reply \in Replies, a \in RCAs \ {0} :
        /\ Exchange(sd.st = "ident" \/ (IsSD /\ sd.st = "stby"),
                    [sd EXCEPT !.st = "stby", !.rca = x(a)], reply)
        /\ \/ /\ reply = "good" /\ sd.st = "ident"
              /\ To("CMD9", "CMD9") /\ rca' = IF IsSD THEN a ELSE 0
           \/ reply = "crc" /\ To("CMD9", "CMD9") /\ rca' \in RCAs
           \/ /\ ~(reply = "good" /\ sd.st = "ident")
              /\ Again("CMD3", Fails) /\ UNCHANGED rca
  BY DEF MCI_Set_Address
<1>2. place = "CMD3" /\ UNCHANGED <<type, width, stat>>
  BY DEF MCI_Set_Address
<1>3. SameCard /\ sd'.width = sd.width /\ sd'.app = sd.app
  <2>1. "stby" \in States /\ x(a) \in RCAs
    BY DEF States, RCAs, Address, IInv, CardTypeOK
  <2>2. sd' = sd \/ sd' = [sd EXCEPT !.st = "stby", !.rca = x(a)]
    BY <1>1 DEF Exchange
  <2>3. [sd EXCEPT !.st = "stby", !.rca = x(a)] \in Sds
    BY <2>1, SdTypes
  <2>4. LET t == [sd EXCEPT !.st = "stby", !.rca = x(a)]
        IN  t.kind = sd.kind /\ t.width = sd.width /\ t.app = sd.app
    BY <2>1, SdKept
  <2>5. faults' \in 0 .. MaxFaults
    BY <1>1, FaultType DEF Exchange
  <2> QED
    BY <2>2, <2>3, <2>4, <2>5 DEF SameCard
<1>4. LoopOK' /\ place' \in {"CMD3", "CMD9", "SELECT"}
  <2>1. tries > 0
    BY <1>2 DEF InLoop, Places
  <2>2. To("CMD9", "CMD9") \/ Fails \/ Back("CMD3")
    BY <1>1 DEF Again, LastTry, Back
  <2> QED
    BY <2>1, <2>2, ToType, BackType, FailsType DEF Places, Commands
<1>5. MmcApart' /\ TypeRight'
  BY <1>2, <1>3, <1>4 DEF MmcApart, TypeRight, Typed, Selected, SameCard
<1>6. Agreed'
  BY <1>4 DEF Agreed, Selected, Widened
<1>7. rca' \in RCAs
  BY <1>1 DEF RCAs
<1> QED
  BY <1>2, <1>3, <1>4, <1>5, <1>6, <1>7, Together

LEMMA CSDRight ==
    ASSUME Parameters, IInv, MCI_Send_CSD
    PROVE  IInv'
<1> USE Parts
<1>1. PICK reply \in Replies :
        /\ Exchange(sd.st = "stby" /\ Addressed, sd, reply)
        /\ IF reply = "good" THEN To("CMD7", "CMD7") ELSE Again("CMD9", Fails)
  BY DEF MCI_Send_CSD
<1>2. place = "CMD9" /\ UNCHANGED <<type, rca, width, stat>>
  BY DEF MCI_Send_CSD
<1>3. SameCard /\ sd' = sd
  <2>1. sd' = sd
    BY <1>1 DEF Exchange
  <2>2. faults' \in 0 .. MaxFaults
    BY <1>1, FaultType DEF Exchange
  <2> QED
    BY <2>1, <2>2 DEF SameCard
<1>4. LoopOK' /\ place' \in {"CMD9", "CMD7", "SELECT"}
  <2>1. tries > 0
    BY <1>2 DEF InLoop, Places
  <2>2. To("CMD7", "CMD7") \/ Fails \/ Back("CMD9")
    BY <1>1 DEF Again, LastTry, Back
  <2> QED
    BY <2>1, <2>2, ToType, BackType, FailsType DEF Places, Commands
<1>5. MmcApart' /\ TypeRight'
  BY <1>2, <1>3, <1>4 DEF MmcApart, TypeRight, Typed, Selected, SameCard
<1>6. Agreed'
  BY <1>4 DEF Agreed, Selected, Widened
<1> QED
  BY <1>2, <1>3, <1>4, <1>5, <1>6, Together

\* From here on the card is in tran, under the address the driver uses.
LEMMA SelectRight ==
    ASSUME Parameters, IInv, MCI_Select_Card
    PROVE  IInv'
<1> USE Parts
<1>1. PICK reply \in Replies :
        /\ Exchange(sd.st = "stby" /\ Addressed, [sd EXCEPT !.st = "tran"], reply)
        /\ CASE reply = "good" /\ type \in {"SDSC", "SDHC"} ->
                    ToApp("app6", "ACMD6") /\ width' = 4
             [] reply = "good" /\ type \notin {"SDSC", "SDHC"} ->
                    To("len512", "CMD16") /\ UNCHANGED width
             [] OTHER -> Again("CMD7", Fails) /\ UNCHANGED width
  BY DEF MCI_Select_Card
<1>2. place = "CMD7" /\ UNCHANGED <<type, rca, stat>>
  BY DEF MCI_Select_Card
<1>3. \/ /\ reply = "good" /\ type \in {"SDSC", "SDHC"}
         /\ ToApp("app6", "ACMD6") /\ width' = 4
      \/ /\ reply = "good" /\ type \notin {"SDSC", "SDHC"}
         /\ To("len512", "CMD16") /\ UNCHANGED width
      \/ Again("CMD7", Fails) /\ UNCHANGED width
  BY <1>1
<1>4. /\ SameCard /\ sd'.width = sd.width /\ sd'.app = sd.app /\ sd'.rca = sd.rca
      /\ reply = "good" => Addressed /\ sd'.st = "tran"
  <2>1. "tran" \in States
    BY DEF States
  <2>2. sd' = sd \/ sd' = [sd EXCEPT !.st = "tran"]
    BY <1>1 DEF Exchange
  <2>3. [sd EXCEPT !.st = "tran"] \in Sds
    BY <2>1, SdField
  <2>4. LET t == [sd EXCEPT !.st = "tran"]
        IN  t.kind = sd.kind /\ t.width = sd.width /\ t.app = sd.app /\ t.rca = sd.rca
            /\ t.st = "tran"
    BY <2>1, SdKept
  <2>5. faults' \in 0 .. MaxFaults
    BY <1>1, FaultType DEF Exchange
  <2>6. reply = "good" => Addressed /\ sd' = [sd EXCEPT !.st = "tran"]
    BY <1>1 DEF Exchange
  <2> QED
    BY <2>2, <2>3, <2>4, <2>5, <2>6 DEF SameCard
<1>5. LoopOK'
  <2>1. tries > 0
    BY <1>2 DEF InLoop, Places
  <2>2. To("len512", "CMD16") \/ ToApp("app6", "ACMD6") \/ Fails \/ Back("CMD7")
    BY <1>3 DEF Again, LastTry, Back
  <2> QED
    BY <2>1, <2>2, ToType, ToAppType, BackType, FailsType DEF Places, Commands
<1>6. \/ place' \in {"CMD7", "SELECT"} /\ width' = width
      \/ reply = "good" /\ place' = "app6" /\ width' = 4 /\ type \in {"SDSC", "SDHC"}
      \/ reply = "good" /\ place' = "len512" /\ width' = width /\ type \notin {"SDSC", "SDHC"}
  BY <1>2, <1>3 DEF Again, LastTry, Fails, To, ToApp
<1>7. MmcApart'
  BY <1>2, <1>4, <1>6 DEF MmcApart, SameCard
<1>8. TypeRight'
  BY <1>2, <1>4, <1>6 DEF TypeRight, Typed, Selected, SameCard
<1>9. Agreed'
  BY <1>2, <1>4, <1>6 DEF Agreed, Selected, Widened, Addressed, Address
<1>10. width' \in {1, 4}
  BY <1>6
<1> QED
  BY <1>2, <1>4, <1>5, <1>7, <1>8, <1>9, <1>10, Together

LEMMA BusWidthRight ==
    ASSUME Parameters, IInv, MCI_Send_ACMD_Bus_Width
    PROVE  IInv'
<1> USE Parts
<1>1. PICK reply \in Replies :
        /\ Exchange(sd.app /\ sd.st = "tran", [sd EXCEPT !.app = FALSE, !.width = 4], reply)
        /\ IF reply = "good" THEN AfterWidth ELSE Again("app6", WidthFails)
  BY DEF MCI_Send_ACMD_Bus_Width
<1>2. place = "ACMD6" /\ UNCHANGED <<type, rca, width, stat>>
  BY DEF MCI_Send_ACMD_Bus_Width
<1>3. /\ SameCard /\ sd'.st = sd.st /\ sd'.rca = sd.rca /\ sd'.len = sd.len
      /\ reply = "good" => sd'.width = 4
      /\ sd' = sd \/ (sd.app /\ ~sd'.app)
  <2>1. 4 \in {1, 4}
    OBVIOUS
  <2>2. sd' = sd \/ (sd.app /\ sd' = [sd EXCEPT !.app = FALSE, !.width = 4])
    BY <1>1 DEF Exchange
  <2>3. [sd EXCEPT !.app = FALSE, !.width = 4] \in Sds
    BY <2>1, SdTypes
  <2>4. LET t == [sd EXCEPT !.app = FALSE, !.width = 4]
        IN  t.kind = sd.kind /\ t.st = sd.st /\ t.rca = sd.rca /\ t.len = sd.len
            /\ ~t.app /\ t.width = 4
    BY <2>1, SdKept
  <2>5. faults' \in 0 .. MaxFaults
    BY <1>1, FaultType DEF Exchange
  <2>6. reply = "good" => sd' = [sd EXCEPT !.app = FALSE, !.width = 4]
    BY <1>1 DEF Exchange
  <2> QED
    BY <2>2, <2>3, <2>4, <2>5, <2>6 DEF SameCard
<1>4. LoopOK' /\ (place' \in {"SELECT", "app6"} \/ (reply = "good" /\ place' \in {"len64", "len512"}))
  <2>1. tries > 0
    BY <1>2 DEF InLoop, Places
  <2>2. Fails \/ Back("app6") \/ (reply = "good" /\ (To("len64", "CMD16") \/ To("len512", "CMD16")))
    BY <1>1 DEF Again, LastTry, Back, WidthFails, AfterWidth
  <2> QED
    BY <2>1, <2>2, ToType, BackType, FailsType DEF Places, Commands
<1>5. MmcApart'
  BY <1>2, <1>3 DEF MmcApart, SameCard
<1>6. TypeRight'
  BY <1>2, <1>3, <1>4 DEF TypeRight, Typed, Selected, SameCard
<1>7. Agreed'
  BY <1>2, <1>3, <1>4 DEF Agreed, Selected, Widened, Addressed, Address
<1> QED
  BY <1>2, <1>3, <1>4, <1>5, <1>6, <1>7, Together

\* The last step of a success: the sectors are to have 512 bytes.
LEMMA BlockLenRight ==
    ASSUME Parameters, IInv, MCI_Set_BlockLen
    PROVE  IInv'
<1> USE Parts
<1> DEFINE l == IF place = "len64" THEN 64 ELSE 512
<1>1. PICK reply \in Replies :
        /\ Exchange(sd.st = "tran", [sd EXCEPT !.len = l], reply)
        /\ CASE reply = "good" /\ place = "len64" ->
                    place' = "check" /\ UNCHANGED <<tries, appTries, stat>>
             [] reply = "good" /\ place = "len512" ->
                    place' = "up" /\ stat' = FALSE /\ tries' = 0 /\ appTries' = 0
             [] OTHER -> Again(place, Fails) /\ UNCHANGED stat
  BY DEF MCI_Set_BlockLen
<1>2. place \in {"len64", "len512"} /\ UNCHANGED <<type, rca, width>>
  BY DEF MCI_Set_BlockLen
<1>3. \/ /\ reply = "good" /\ place = "len64"
         /\ place' = "check" /\ UNCHANGED <<tries, appTries, stat>>
      \/ /\ reply = "good" /\ place = "len512"
         /\ place' = "up" /\ stat' = FALSE /\ tries' = 0 /\ appTries' = 0
      \/ Again(place, Fails) /\ UNCHANGED stat
  BY <1>1, <1>2
<1>4. /\ SameCard /\ sd'.st = sd.st /\ sd'.rca = sd.rca /\ sd'.width = sd.width
      /\ sd'.app = sd.app
      /\ reply = "good" => sd'.len = l /\ sd.st = "tran"
  <2>1. l \in {64, 512}
    OBVIOUS
  <2> HIDE DEF l
  <2>2. sd' = sd \/ sd' = [sd EXCEPT !.len = l]
    BY <1>1 DEF Exchange
  <2>3. [sd EXCEPT !.len = l] \in Sds
    <3>1. /\ [sd EXCEPT !.len = 64] \in Sds
          /\ [sd EXCEPT !.len = 512] \in Sds
      BY DEF Sds
    <3> QED
      BY <2>1, <3>1
  <2>4. LET t == [sd EXCEPT !.len = l]
        IN  t.kind = sd.kind /\ t.st = sd.st /\ t.rca = sd.rca /\ t.width = sd.width
            /\ t.app = sd.app /\ t.len = l
    BY <2>1, SdKept
  <2>5. faults' \in 0 .. MaxFaults
    BY <1>1, FaultType DEF Exchange
  <2>6. reply = "good" => sd' = [sd EXCEPT !.len = l] /\ sd.st = "tran"
    BY <1>1 DEF Exchange
  <2> QED
    BY <2>2, <2>3, <2>4, <2>5, <2>6 DEF SameCard
<1>5. LoopOK'
  <2>1. tries > 0 /\ place \in Places /\ Tries["CMD55"] \in Nat
    BY <1>2 DEF InLoop, Places, Parameters, Commands
  <2>2. CASE place' = "check" /\ UNCHANGED <<tries, appTries>>
    BY <2>1, <2>2 DEF LoopOK, InLoop, Places
  <2>3. CASE place' = "up" /\ tries' = 0 /\ appTries' = 0
    BY <2>1, <2>3 DEF LoopOK, InLoop, Places
  <2>4. CASE Again(place, Fails)
    <3>1. Fails \/ Back(place)
      BY <2>4 DEF Again, LastTry, Back
    <3> QED
      BY <2>1, <3>1, BackType, FailsType
  <2> QED
    BY <1>3, <2>2, <2>3, <2>4
<1>6. \/ place' \in {place, "SELECT"}
      \/ reply = "good" /\ place' = "check"
      \/ reply = "good" /\ place = "len512" /\ place' = "up"
  BY <1>3 DEF Again, Fails
<1>7. MmcApart'
  BY <1>2, <1>4 DEF MmcApart, SameCard
<1>8. TypeRight'
  BY <1>2, <1>4, <1>6 DEF TypeRight, Typed, Selected, SameCard
<1>9. Agreed'
  <2>1. place' \in Selected => Addressed' /\ sd'.st \in {"tran", "data"}
    BY <1>2, <1>4, <1>6 DEF Agreed, Selected, Addressed, Address
  <2>2. place' \in Widened /\ type' \in {"SDSC", "SDHC"} => sd'.width = 4 /\ width' = 4
    BY <1>2, <1>4, <1>6 DEF Agreed, Selected, Widened
  <2>3. place' \notin {"app6", "ACMD6"}
    BY <1>2, <1>6
  <2>4. place' = "up" => sd'.st = "tran" /\ sd'.len = 512
    BY <1>2, <1>4, <1>6
  <2> QED
    BY <2>1, <2>2, <2>3, <2>4 DEF Agreed
<1>10. stat' \in BOOLEAN
  BY <1>3
<1> QED
  BY <1>2, <1>4, <1>5, <1>7, <1>8, <1>9, <1>10, Together

LEMMA CheckRight ==
    ASSUME Parameters, IInv, CheckStatus
    PROVE  IInv'
<1> USE Parts
<1>1. /\ place = "check" /\ UNCHANGED <<sd, type, rca, width, stat>>
      /\ ToApp("app13", "ACMD13") \/ Fails
  BY DEF CheckStatus
<1>2. SameCard
  BY <1>1, FaultType DEF CheckStatus, SameCard
<1>3. LoopOK' /\ place' \in {"app13", "SELECT"}
  BY <1>1, ToAppType, FailsType DEF Places, Commands
<1>4. MmcApart' /\ TypeRight'
  BY <1>1, <1>3 DEF MmcApart, TypeRight, Typed, Selected
<1>5. Agreed'
  BY <1>1, <1>3 DEF Agreed, Selected, Widened, Addressed, Address
<1> QED
  BY <1>1, <1>2, <1>3, <1>4, <1>5, Together

LEMMA StatusRight ==
    ASSUME Parameters, IInv, MCI_Sd_Status
    PROVE  IInv'
<1> USE Parts
<1>1. PICK reply \in Replies :
        /\ Exchange(sd.app /\ sd.st = "tran", [sd EXCEPT !.app = FALSE, !.st = "data"], reply)
        /\ IF reply = "good" THEN place' = "data" /\ UNCHANGED <<tries, appTries>>
           ELSE Again("app13", Fails)
  BY DEF MCI_Sd_Status
<1>2. place = "ACMD13" /\ UNCHANGED <<type, rca, width, stat>>
  BY DEF MCI_Sd_Status
<1>3. /\ SameCard /\ sd'.rca = sd.rca /\ sd'.width = sd.width
      /\ sd'.st \in {"tran", "data"} /\ (sd'.app => sd.app)
  <2>1. "data" \in States
    BY DEF States
  <2>2. sd' = sd \/ sd' = [sd EXCEPT !.app = FALSE, !.st = "data"]
    BY <1>1 DEF Exchange
  <2>3. [sd EXCEPT !.app = FALSE, !.st = "data"] \in Sds
    BY <2>1, SdTypes
  <2>4. LET t == [sd EXCEPT !.app = FALSE, !.st = "data"]
        IN  t.kind = sd.kind /\ t.st = "data" /\ t.rca = sd.rca /\ t.width = sd.width
            /\ ~t.app
    BY <2>1, SdKept
  <2>5. faults' \in 0 .. MaxFaults
    BY <1>1, FaultType DEF Exchange
  <2>6. sd.st \in {"tran", "data"}
    BY <1>2 DEF Agreed, Selected
  <2> QED
    BY <2>2, <2>3, <2>4, <2>5, <2>6 DEF SameCard
<1>4. LoopOK' /\ place' \in {"data", "app13", "SELECT"}
  <2>1. tries > 0
    BY <1>2 DEF InLoop, Places
  <2>2. CASE place' = "data" /\ UNCHANGED <<tries, appTries>>
    BY <2>1, <2>2 DEF LoopOK, InLoop, Places
  <2>3. CASE Fails \/ Back("app13")
    BY <2>1, <2>3, BackType, FailsType DEF Places
  <2> QED
    BY <1>1, <2>2, <2>3 DEF Again, LastTry, Back
<1>5. MmcApart'
  BY <1>2, <1>3 DEF MmcApart, SameCard
<1>6. TypeRight'
  BY <1>2, <1>3, <1>4 DEF TypeRight, Typed, Selected, SameCard
<1>7. Agreed'
  BY <1>2, <1>3, <1>4 DEF Agreed, Selected, Widened, Addressed, Address
<1> QED
  BY <1>2, <1>3, <1>4, <1>5, <1>6, <1>7, Together

\* The card goes back to tran by itself; the driver may be anywhere.
LEMMA SendsRight ==
    ASSUME Parameters, IInv, CardSends
    PROVE  IInv'
<1> USE Parts
<1>1. /\ sd.st = "data" /\ sd' = [sd EXCEPT !.st = "tran"]
      /\ UNCHANGED <<type, rca, width, stat>>
      /\ \/ place = "data" /\ To("len512", "CMD16")
         \/ UNCHANGED <<place, tries, appTries>>
  BY DEF CardSends
<1>2. /\ SameCard /\ sd'.rca = sd.rca /\ sd'.width = sd.width /\ sd'.len = sd.len
      /\ sd'.st = "tran" /\ sd'.app = sd.app
  <2>1. "tran" \in States
    BY DEF States
  <2>2. [sd EXCEPT !.st = "tran"] \in Sds
    BY <2>1, SdField
  <2>3. LET t == [sd EXCEPT !.st = "tran"]
        IN  t.kind = sd.kind /\ t.st = "tran" /\ t.rca = sd.rca /\ t.width = sd.width
            /\ t.len = sd.len /\ t.app = sd.app
    BY <2>1, SdKept
  <2>4. faults' \in 0 .. MaxFaults
    BY FaultType DEF CardSends
  <2> QED
    BY <1>1, <2>2, <2>3, <2>4 DEF SameCard
<1>3. LoopOK' /\ (place' = place \/ (place = "data" /\ place' = "len512"))
  <2>1. CASE To("len512", "CMD16") /\ place = "data"
    BY <2>1, ToType DEF Places, Commands
  <2>2. CASE UNCHANGED <<place, tries, appTries>>
    BY <2>2 DEF LoopOK
  <2> QED
    BY <1>1, <2>1, <2>2
<1>4. MmcApart'
  BY <1>1, <1>2 DEF MmcApart, SameCard
<1>5. TypeRight'
  BY <1>1, <1>2, <1>3 DEF TypeRight, Typed, Selected, SameCard
<1>6. Agreed'
  BY <1>1, <1>2, <1>3 DEF Agreed, Selected, Widened, Addressed, Address
<1> QED
  BY <1>1, <1>2, <1>3, <1>4, <1>5, <1>6, Together

LEMMA PowerOffRight ==
    ASSUME Parameters, IInv, SELECT
    PROVE  IInv'
<1> USE Parts
<1>1. /\ place = "SELECT" /\ UNCHANGED <<type, rca, width, tries, appTries>>
      /\ \/ sd' = [sd EXCEPT !.st = "tran"] /\ UNCHANGED <<place, stat>>
         \/ sd' = [sd EXCEPT !.st = "stby"] /\ place' = "off" /\ stat' = TRUE
  BY DEF SELECT
<1>2. SameCard /\ sd'.width = sd.width /\ sd'.app = sd.app
  <2>1. {"tran", "stby"} \subseteq States
    BY DEF States
  <2>2. [sd EXCEPT !.st = "tran"] \in Sds /\ [sd EXCEPT !.st = "stby"] \in Sds
    BY <2>1, SdField
  <2>3. \A st \in {"tran", "stby"} :
            LET t == [sd EXCEPT !.st = st]
            IN  t.kind = sd.kind /\ t.width = sd.width /\ t.app = sd.app
    BY <2>1, SdKept
  <2>4. faults' \in 0 .. MaxFaults
    BY DEF SELECT, Fine
  <2> QED
    BY <1>1, <2>2, <2>3, <2>4 DEF SameCard
<1>3. LoopOK' /\ place' \in {"SELECT", "off"}
  BY <1>1 DEF LoopOK, InLoop, Places
<1>4. MmcApart'
  BY <1>1, <1>2 DEF MmcApart, SameCard
<1>5. TypeRight' /\ Agreed'
  BY <1>3, Untyped DEF Typed, Selected
<1>6. stat' \in BOOLEAN
  BY <1>1
<1> QED
  BY <1>1, <1>2, <1>3, <1>4, <1>5, <1>6, Together

LEMMA StutterRight ==
    ASSUME IInv, UNCHANGED vars
    PROVE  IInv'
BY DEF IInv, vars, host, CardTypeOK, MmcApart, TypeRight, Agreed, Addressed, Address

LEMMA StepRight == ASSUME Parameters PROVE IInv /\ [Next]_vars => IInv'
<1> SUFFICES ASSUME IInv, [Next]_vars PROVE IInv'
  OBVIOUS
<1>1. CASE CardNext
  BY <1>1, GoIdleRight, IFCondRight, App41Right, SdOpCondRight, MmcOpCondRight, CIDRight,
     AddressRight, CSDRight, SelectRight, App6Right, BusWidthRight, BlockLenRight,
     CheckRight, App13Right, StatusRight, SendsRight, PowerOffRight DEF CardNext
<1>2. CASE disk_initialize
  BY <1>2, InitialiseRight
<1>3. CASE Waits \/ UNCHANGED vars
  BY <1>3, StutterRight DEF Waits
<1> QED
  BY <1>1, <1>2, <1>3 DEF Next

LEMMA SoundFromInv == IInv => InitSound
<1> SUFFICES ASSUME IInv, place = "up" PROVE InitSound
  BY DEF InitSound
<1>1. sd.st = "tran" /\ sd.len = 512 /\ Address = sd.rca
  BY DEF IInv, Agreed, Selected, Addressed
<1>2. type # "SDV2" => (type = "SDHC" <=> sd.kind = "sdhc") /\ sd.width = width
  BY DEF IInv, Agreed, TypeRight, MmcApart, Typed, Selected, Widened
<1> QED
  BY <1>1, <1>2 DEF InitSound

-----------------------------------------------------------------------------
(* The theorems.                                                           *)

\* Every variable of the initialisation keeps its type, and no loop of
\* disk_initialize goes on after its last try.
THEOREM InitTypeCorrect == ASSUME Parameters PROVE Spec => []CardTypeOK
<1>1. Init => IInv
  BY InitRight
<1>2. IInv /\ [Next]_vars => IInv'
  BY StepRight
<1>3. IInv => CardTypeOK
  BY DEF IInv
<1> QED
  BY <1>1, <1>2, <1>3, PTL DEF Spec

\* A disk_initialize that reports success has found card and driver in
\* agreement: selected under the address the driver uses, sectors of 512 bytes,
\* and, if the type was found, the same bus width and the right addressing.
THEOREM SuccessIsSound == ASSUME Parameters PROVE Spec => []InitSound
<1>1. Init => IInv
  BY InitRight
<1>2. IInv /\ [Next]_vars => IInv'
  BY StepRight
<1> QED
  BY <1>1, <1>2, SoundFromInv, PTL DEF Spec

=============================================================================
