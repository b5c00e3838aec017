---------------------------- MODULE CameraProofs ----------------------------
(***************************************************************************)
(* Proofs about Camera, for any number of tries, of calls and of faults:   *)
(* the types; that the size getPic returns is that of the picture in the   *)
(* buffer, unless it was damaged itself; and, as long as no damaged bytes  *)
(* have passed for what was expected, what the tries are worth: up to how  *)
(* many faults the picture is this call's and is delivered at all.         *)
(***************************************************************************)
EXTENDS Camera, TLAPS

\* A loop is never entered without a try left.
TryLeft == pc = "send" => left > 0

\* From the header to the last byte the camera sends nothing else, and getPic
\* has no size before it.
HeaderSeen ==
    /\ pc = "picture" =>
           /\ cmd = "getPicture" /\ size \in Pictures \cup {Wrong}
           /\ size \in Pictures => acks = <<>> /\ data.part = "image" /\ data.pic = size
    /\ pc = "done" /\ size \in Pictures => image = size
    /\ pc \notin {"picture", "done", "abort"} => size = Unknown

IInv == TypeOK /\ TryLeft /\ HeaderSeen

Acks == Commands \cup {"NAK"}

-----------------------------------------------------------------------------
(* The operators.                                                          *)

LEMMA DataType ==
    /\ Nothing \in Data
    /\ \A p \in {"none", "SYNC", "header", "image"}, n \in Pictures :
          [part |-> p, pic |-> n] \in Data
    /\ \A d \in Data : /\ d.pic \in Pictures /\ [d EXCEPT !.part = "image"] \in Data
                       /\ [d EXCEPT !.part = "image"].part = "image"
                       /\ [d EXCEPT !.part = "image"].pic = d.pic
BY CallsAssumption DEF Nothing, Data, Pictures

LEMMA AcksType ==
    ASSUME NEW s \in Seq(Acks)
    PROVE  /\ \A a \in Acks : <<a>> \in Seq(Acks) /\ Append(s, a) \in Seq(Acks)
           /\ s # <<>> => Tail(s) \in Seq(Acks)
OBVIOUS

\* Neither of the two is the number of a picture.
LEMMA NoPicture == Unknown \notin Pictures /\ Wrong \notin Pictures /\ Wrong # Unknown
BY CallsAssumption DEF Unknown, Wrong, Pictures

\* What the camera has left when it has been read from for any while.
LEMMA DrainsType ==
    ASSUME acks \in Seq(Acks), data \in Data, Drains
    PROVE  acks' \in Seq(Acks) /\ data' \in Data
<1>1. \A k \in 0 .. Len(acks) : SubSeq(acks, k + 1, Len(acks)) \in Seq(Acks)
  OBVIOUS
<1> QED
  BY <1>1, DataType DEF Drains

LEMMA FaultType ==
    ASSUME faults \in 0 .. MaxFaults, NEW k, Fault(k) \/ Fine
    PROVE  faults' \in 0 .. MaxFaults
BY FaultAssumption DEF Fault, Fine

LEMMA AfterType ==
    ASSUME cmd \in Commands, left \in 0 .. Tries[cmd], NEW c \in Commands, After(c)
    PROVE  /\ pc' \in {"send", "up", "done"} /\ cmd' \in Commands
           /\ left' \in 0 .. Tries[cmd'] /\ (pc' = "send" => left' > 0)
           /\ c = "getPicture" => pc' = "done"
<1>1. \A d \in Commands : Tries[d] \in Nat \ {0}
  BY TriesAssumption
<1>2. \A d \in Commands : Turn(d) => /\ cmd' \in Commands /\ left' \in 0 .. Tries[cmd']
                                     /\ left' > 0
  BY <1>1 DEF Turn
<1> QED
  BY <1>2 DEF After, Commands

LEMMA AgainType ==
    ASSUME cmd \in Commands, left \in 0 .. Tries[cmd], Again
    PROVE  /\ pc' \in {"send", "up", "done"} /\ cmd' \in Commands
           /\ left' \in 0 .. Tries[cmd'] /\ (pc' = "send" => left' > 0)
<1>1. CASE GivesUp
  BY <1>1, AfterType DEF Again
<1>2. CASE ~GivesUp
  <2>1. Tries[cmd] \in Nat
    BY TriesAssumption
  <2> QED
    BY <1>2, <2>1 DEF Again, GivesUp
<1> QED
  BY <1>1, <1>2

LEMMA GetsType ==
    ASSUME TypeOK, NEW c \in Commands, Gets(c)
    PROVE  /\ st' \in States /\ shot' \in Pictures /\ acks' \in Seq(Acks) /\ data' \in Data
           /\ faults' \in 0 .. MaxFaults
<1> USE DEF TypeOK
<1>1. ASSUME Answers(c) PROVE acks' \in Seq(Acks) /\ data' \in Data /\ faults' \in 0 .. MaxFaults
  <2>1. data' \in Data
    BY <1>1, DataType, CallsAssumption DEF Answers, Pictures
  <2>2. acks \in Seq(Acks) /\ c \in Acks
    BY DEF Acks
  <2>3. acks' = <<c>> \/ acks' = Append(acks, c)
    BY <1>1 DEF Answers
  <2>4. acks' \in Seq(Acks)
    BY <2>2, <2>3, AcksType
  <2> QED
    BY <1>1, <2>1, <2>4, FaultType DEF Answers
<1>2. CASE /\ Understands(c) /\ Answers(c)
           /\ st' = CASE c = "sync" -> "woken" [] c = "init" -> "set" [] OTHER -> st
           /\ shot' = IF c = "snapshot" THEN turn ELSE shot
  BY <1>1, <1>2 DEF States
<1>3. CASE acks' = <<"NAK">> /\ st # "asleep" /\ Refuses(c) /\ data' = Nothing /\ UNCHANGED <<st, shot>>
  <2>1. faults' \in 0 .. MaxFaults
    BY <1>3, FaultType DEF Refuses
  <2> QED
    BY <1>3, <2>1, DataType DEF Acks
<1>4. CASE UNCHANGED camera /\ IF Understands(c) /\ st # "asleep" THEN Fault("lost") ELSE Fine
  <2>1. faults' \in 0 .. MaxFaults
    BY <1>4, FaultType
  <2> QED
    BY <1>4, <2>1 DEF camera, Acks
<1> QED
  BY <1>2, <1>3, <1>4 DEF Gets

\* A header is sent when no acknowledgement is left, and the picture is next.
LEMMA SendsType ==
    ASSUME TypeOK, NEW resp, Sends(resp)
    PROVE  /\ acks' \in Seq(Acks) /\ data' \in Data /\ faults' \in 0 .. MaxFaults
           /\ resp = "header" /\ resp = Packet =>
                  acks' = <<>> /\ data'.part = "image" /\ data'.pic = data.pic
<1> USE DEF TypeOK
<1>1. faults' \in 0 .. MaxFaults
  BY FaultType DEF Sends
<1>2. ASSUME Advances
      PROVE  /\ acks' \in Seq(Acks) /\ data' \in Data
             /\ acks = <<>> /\ data.part = "header" =>
                    acks' = <<>> /\ data'.part = "image" /\ data'.pic = data.pic
  <2> DEFINE shown == [data EXCEPT !.part = "image"]
  <2>1. /\ shown \in Data /\ shown.part = "image" /\ shown.pic = data.pic
        /\ Nothing \in Data
    BY DataType
  <2> HIDE DEF shown
  <2>2. acks' \in Seq(Acks)
    <3>1. acks \in Seq(Acks)
      BY DEF Acks
    <3>2. acks' = acks \/ (acks # <<>> /\ acks' = Tail(acks))
      BY <1>2 DEF Advances
    <3> QED
      BY <3>1, <3>2, AcksType
  <2>3. /\ acks # <<>> => data' = data
        /\ acks = <<>> => acks' = acks /\ data' \in {shown, data, Nothing}
        /\ acks = <<>> /\ data.part = "header" => data' = shown
    BY <1>2 DEF Advances, shown
  <2> QED
    BY <2>1, <2>2, <2>3
<1>3. ASSUME Packet = "header" PROVE acks = <<>> /\ data.part = "header"
  <2>1. acks # <<>> => Head(acks) \in Commands \cup {"NAK"}
    OBVIOUS
  <2> QED
    BY <1>3, <2>1 DEF Packet, Commands, Junk
<1>4. acks' \in Seq(Acks) /\ data' \in Data
  BY <1>2 DEF Sends, Acks
<1>5. resp = Packet => Advances
  BY DEF Sends
<1> QED
  BY <1>1, <1>2, <1>3, <1>4, <1>5

-----------------------------------------------------------------------------
(* The steps.                                                              *)

LEMMA InitIInv == Init => IInv
<1> SUFFICES ASSUME Init PROVE IInv
  OBVIOUS
<1>1. Tries["sync"] \in Nat \ {0}
  BY TriesAssumption DEF Commands
<1>2. TypeOK
  <2>1. "asleep" \in States /\ "send" \in Pcs /\ "sync" \in Commands
    BY DEF States, Pcs, Commands
  <2>2. 0 \in Pictures /\ 0 \in 0 .. MaxFaults
    BY CallsAssumption, FaultAssumption DEF Pictures
  <2>3. left \in 0 .. Tries[cmd]
    BY <1>1 DEF Init
  <2>4. /\ acks \in Seq(Commands \cup {"NAK"}) /\ data \in Data
        /\ image \in Pictures \cup {Unknown} /\ deceived \in BOOLEAN
    <3>1. acks = <<>> /\ data = Nothing /\ image = 0 /\ deceived = FALSE
      BY DEF Init
    <3>2. <<>> \in Seq(Commands \cup {"NAK"}) /\ Nothing \in Data
      BY DataType
    <3> QED
      BY <2>2, <3>1, <3>2
  <2>5. /\ st = "asleep" /\ shot = 0 /\ ready = TRUE /\ pc = "send" /\ cmd = "sync"
        /\ snapped = FALSE /\ size = Unknown /\ turn = 0 /\ faults = 0
    BY DEF Init
  <2> QED
    BY <2>1, <2>2, <2>3, <2>4, <2>5 DEF TypeOK
<1>3. TryLeft /\ HeaderSeen
  BY <1>1 DEF Init, TryLeft, HeaderSeen
<1> QED
  BY <1>2, <1>3 DEF IInv

LEMMA CallStep == IInv /\ takePicture => IInv'
<1> SUFFICES ASSUME IInv, takePicture PROVE IInv'
  OBVIOUS
<1> USE DEF takePicture, IInv
<1>1. Tries["snapshot"] \in Nat \ {0} /\ "snapshot" \in Commands
  BY TriesAssumption DEF Commands
<1>2. turn + 1 \in Pictures
  BY CallsAssumption DEF TypeOK, Pictures
<1>3. TypeOK'
  <2>1. /\ turn' \in Pictures /\ snapped' \in BOOLEAN /\ size' \in Pictures \cup {Unknown}
        /\ pc' \in Pcs
    BY <1>2 DEF Pcs
  <2>2. cmd' \in Commands /\ left' \in 0 .. Tries[cmd']
    BY <1>1 DEF Turn
  <2>3. UNCHANGED <<st, shot, acks, data, ready, image, faults, deceived>>
    BY DEF camera
  <2> QED
    BY <2>1, <2>2, <2>3 DEF TypeOK
<1>4. TryLeft' /\ HeaderSeen'
  BY <1>1 DEF TryLeft, HeaderSeen, Turn
<1> QED
  BY <1>3, <1>4

LEMMA ReadyStep == IInv /\ CameraReady => IInv'
BY DEF IInv, TypeOK, TryLeft, HeaderSeen, CameraReady, camera, result

LEMMA SendStep == IInv /\ Send => IInv'
<1> SUFFICES ASSUME IInv, Send PROVE IInv'
  OBVIOUS
<1> USE DEF Send, IInv
<1>1. left \in 0 .. Tries[cmd] /\ left > 0 /\ Tries[cmd] \in Nat
  BY TriesAssumption DEF TypeOK, TryLeft
<1>2. left' \in 0 .. Tries[cmd]
  BY <1>1 DEF Count
<1>3. TypeOK'
  BY <1>2, GetsType DEF TypeOK, Pcs, result, Acks
<1>4. TryLeft' /\ HeaderSeen'
  BY DEF TryLeft, HeaderSeen, result
<1> QED
  BY <1>3, <1>4

LEMMA ReceiveStep == IInv /\ Receive => IInv'
<1> SUFFICES ASSUME IInv, Receive PROVE IInv'
  OBVIOUS
<1>1. PICK resp \in Packets :
        /\ Sends(resp)
        /\ deceived' = (deceived \/ (isAck(resp, cmd) /\ resp # Packet))
        /\ snapped' = (snapped \/ (cmd = "snapshot" /\ isAck(resp, cmd) /\ resp = Packet))
        /\ \/ Again \/ After(cmd)
           \/ pc' \in {"second", "acknowledge"} /\ UNCHANGED <<cmd, left>>
  BY DEF Receive, Deceives
<1>2. UNCHANGED <<st, shot, ready, result, turn>> /\ pc = "receive"
  BY DEF Receive
<1>3. /\ pc' \in {"send", "up", "done", "second", "acknowledge"} /\ cmd' \in Commands
      /\ left' \in 0 .. Tries[cmd'] /\ (pc' = "send" => left' > 0)
  BY <1>1, AgainType, AfterType DEF IInv, TypeOK
<1>4. snapped' \in BOOLEAN /\ deceived' \in BOOLEAN
  BY <1>1 DEF IInv, TypeOK
<1>5. TypeOK'
  <2>1. acks' \in Seq(Acks) /\ data' \in Data /\ faults' \in 0 .. MaxFaults
    BY <1>1, SendsType DEF IInv
  <2>2. /\ st \in States /\ shot \in Pictures /\ ready \in BOOLEAN /\ turn \in Pictures
        /\ image \in Pictures \cup {Unknown} /\ size \in Pictures \cup {Unknown, Wrong}
    BY DEF IInv, TypeOK
  <2>3. pc' \in Pcs
    BY <1>3 DEF Pcs
  <2>4. /\ st' = st /\ shot' = shot /\ ready' = ready /\ turn' = turn
        /\ image' = image /\ size' = size
    BY <1>2 DEF result
  <2>5. /\ st' \in States /\ shot' \in Pictures /\ ready' \in BOOLEAN /\ turn' \in Pictures
        /\ image' \in Pictures \cup {Unknown} /\ size' \in Pictures \cup {Unknown, Wrong}
    BY <2>2, <2>4
  <2> QED
    BY <1>3, <1>4, <2>1, <2>3, <2>5 DEF TypeOK, Acks
<1>6. TryLeft' /\ HeaderSeen'
  BY <1>2, <1>3, NoPicture DEF IInv, TryLeft, HeaderSeen, result
<1> QED
  BY <1>5, <1>6 DEF IInv

LEMMA SecondStep == IInv /\ Second => IInv'
<1> SUFFICES ASSUME IInv, Second PROVE IInv'
  OBVIOUS
<1> USE DEF IInv
<1>1. PICK resp \in Packets :
        /\ Sends(resp) /\ deceived' \in BOOLEAN
        /\ \/ pc' = "acknowledge" /\ UNCHANGED <<cmd, left, size>>
           \/ /\ cmd = "getPicture" /\ resp \in {"header", Misread}
              /\ pc' = "picture" /\ UNCHANGED <<cmd, left>>
              /\ size' = IF resp = Packet THEN data.pic ELSE Wrong
           \/ Again /\ UNCHANGED size
  BY DEF Second, GoodHeader, WrongHeader, Deceives
<1>2. UNCHANGED <<st, shot, ready, snapped, image, turn>> /\ pc = "second"
  BY DEF Second
<1>3. /\ pc' \in {"send", "up", "done", "acknowledge", "picture"} /\ cmd' \in Commands
      /\ left' \in 0 .. Tries[cmd'] /\ (pc' = "send" => left' > 0)
      /\ pc' = "picture" => /\ cmd' = "getPicture" /\ resp \in {"header", Misread}
                            /\ size' = IF resp = Packet THEN data.pic ELSE Wrong
      /\ pc' # "picture" => size' = size
  BY <1>1, AgainType DEF TypeOK
<1>4. /\ size' \in Pictures \cup {Unknown, Wrong}
      /\ pc' = "picture" => size' \in Pictures \cup {Wrong}
  BY <1>3, DataType DEF TypeOK
<1>5. TypeOK'
  BY <1>1, <1>2, <1>3, <1>4, SendsType DEF TypeOK, Pcs, Acks
<1>6. size = Unknown
  BY <1>2 DEF HeaderSeen
<1>8. Packet # Misread
  BY DEF Packet, Misread, Junk, Commands, TypeOK
<1>9. ASSUME pc' = "picture", size' \in Pictures
      PROVE  acks' = <<>> /\ data'.part = "image" /\ data'.pic = size'
  <2>1. resp = Packet /\ resp = "header" /\ size' = data.pic
    BY <1>3, <1>8, <1>9, NoPicture
  <2> QED
    BY <1>1, <2>1, SendsType
<1>7. TryLeft' /\ HeaderSeen'
  BY <1>3, <1>4, <1>6, <1>9, NoPicture DEF TryLeft, HeaderSeen
<1> QED
  BY <1>5, <1>7

LEMMA AcknowledgeStep == IInv /\ Acknowledge => IInv'
<1> SUFFICES ASSUME IInv, Acknowledge PROVE IInv'
  OBVIOUS
<1> USE DEF IInv
<1>1. /\ pc = "acknowledge" /\ After(cmd)
      /\ UNCHANGED <<shot, acks, data, ready, snapped, result, turn, deceived>>
  BY DEF Acknowledge
<1>2. st' \in States /\ faults' \in 0 .. MaxFaults
  BY FaultType DEF Acknowledge, States, TypeOK
<1>3. /\ pc' \in {"send", "up", "done"} /\ cmd' \in Commands
      /\ left' \in 0 .. Tries[cmd'] /\ (pc' = "send" => left' > 0)
  BY <1>1, AfterType DEF TypeOK
<1>4. TypeOK'
  <2>1. /\ shot \in Pictures /\ acks \in Seq(Commands \cup {"NAK"}) /\ data \in Data
        /\ ready \in BOOLEAN /\ turn \in Pictures /\ snapped \in BOOLEAN /\ deceived \in BOOLEAN
        /\ image \in Pictures \cup {Unknown} /\ size \in Pictures \cup {Unknown, Wrong}
    BY DEF TypeOK
  <2>2. pc' \in Pcs
    BY <1>3 DEF Pcs
  <2>3. /\ shot' = shot /\ acks' = acks /\ data' = data /\ ready' = ready /\ turn' = turn
        /\ snapped' = snapped /\ deceived' = deceived /\ image' = image /\ size' = size
    BY <1>1 DEF result
  <2>4. /\ shot' \in Pictures /\ acks' \in Seq(Commands \cup {"NAK"}) /\ data' \in Data
        /\ ready' \in BOOLEAN /\ turn' \in Pictures /\ snapped' \in BOOLEAN /\ deceived' \in BOOLEAN
        /\ image' \in Pictures \cup {Unknown} /\ size' \in Pictures \cup {Unknown, Wrong}
    BY <2>1, <2>3
  <2> QED
    BY <1>2, <1>3, <2>2, <2>4 DEF TypeOK
<1>5. TryLeft' /\ HeaderSeen'
  BY <1>1, <1>3, NoPicture DEF TryLeft, HeaderSeen, result
<1> QED
  BY <1>4, <1>5

LEMMA PictureStep == IInv /\ Picture => IInv'
<1> SUFFICES ASSUME IInv, Picture PROVE IInv'
  OBVIOUS
<1> USE DEF IInv
<1>1. /\ pc = "picture"
      /\ UNCHANGED <<st, shot, ready, snapped, size, turn, faults, deceived>>
  BY DEF Picture
<1>2. cmd = "getPicture"
  BY <1>1 DEF HeaderSeen
<1>3. /\ pc' \in {"done", "abort"} /\ cmd' \in Commands /\ left' \in 0 .. Tries[cmd']
      /\ pc' = "abort" => size = Wrong
  BY <1>2, AfterType DEF Picture, TypeOK
<1>4. Sent \in Pictures \cup {Unknown} /\ (size \in Pictures => Sent = size)
  BY <1>1, DataType DEF Sent, HeaderSeen, TypeOK
<1>5. /\ image' \in Pictures \cup {Unknown} /\ acks' \in Seq(Acks) /\ data' \in Data
      /\ size \in Pictures => image' = size
  <2>1. CASE size # Wrong
    BY <1>4, <2>1, DataType DEF Picture, TypeOK, Acks
  <2>2. CASE size = Wrong
    BY <1>4, <2>2, DrainsType, NoPicture DEF Picture, TypeOK, Acks
  <2> QED
    BY <2>1, <2>2
<1>6. TypeOK'
  BY <1>1, <1>3, <1>5 DEF TypeOK, Pcs, Acks
<1>7. TryLeft' /\ HeaderSeen'
  BY <1>1, <1>3, <1>5 DEF TryLeft, HeaderSeen
<1> QED
  BY <1>6, <1>7

LEMMA Invariant == Spec => []IInv
<1>1. IInv /\ [Next]_vars => IInv'
  <2>1. IInv /\ UNCHANGED vars => IInv'
    BY DEF IInv, TypeOK, TryLeft, HeaderSeen, vars, camera, result
  <2> QED
    BY <2>1, CallStep, ReadyStep, SendStep, ReceiveStep, SecondStep, AcknowledgeStep, PictureStep
    DEF Next, Driver
<1> QED
  BY <1>1, InitIInv, PTL DEF Spec

-----------------------------------------------------------------------------
(* The theorems.                                                           *)

\* No variable leaves its type: no loop of spitest.c makes more attempts than
\* it should, and the size is that of a picture, damaged, or nobody's.
THEOREM ExchangeTypeCorrect == Spec => []TypeOK
<1>1. IInv => TypeOK
  BY DEF IInv
<1> QED
  BY <1>1, Invariant, PTL

\* When getPic returns the size of a picture, the buffer holds this picture,
\* however many commands and answers were lost, refused or late, and whatever
\* damaged ones were taken for; a size that was damaged itself is excluded.
THEOREM SizeOfThePicture == Spec => []PictureWhole
<1>1. IInv => PictureWhole
  BY DEF IInv, HeaderSeen, PictureWhole
<1> QED
  BY <1>1, Invariant, PTL

-----------------------------------------------------------------------------
(* What the tries are worth.  A picture of an earlier call can be taken    *)
(* for that of this one only when an acknowledgement of its snapshot is    *)
(* left over: each try at getPicture reads one, unless two things go       *)
(* wrong.  And a try at a command that the camera is ready for fails only  *)
(* when something goes wrong in this very try.                             *)

SnapTries == Tries["snapshot"]
PicTries  == Tries["getPicture"]

Taking == cmd \in {"snapshot", "getPicture"}

Places ==
    /\ pc = "up" => cmd = "quality"
    /\ pc \in {"picture", "done"} => cmd = "getPicture"
    /\ pc = "second" => cmd \in {"sync", "getPicture"}
    /\ pc = "acknowledge" => cmd \in {"sync", "quality"}
    /\ Taking <=> turn > 0
    /\ shot <= turn
    /\ size # Wrong /\ pc # "abort"

\* Every acknowledgement that is left over has cost a fault.
AcksFew == Len(acks) <= faults + (IF pc = "receive" THEN 1 ELSE 0)

\* The acknowledgement of a snapshot that is the i-th to be read.
Stale(i) == acks[i] = "snapshot"
Dear(n, i) == 2 * (PicTries - left) + i <= n
Lag ==
    \A i \in 1 .. Len(acks) : Stale(i) =>
        /\ Taking /\ st = "set" /\ shot # 0
        /\ cmd = "snapshot" =>
               \/ shot = turn
               \/ faults > 2 * PicTries /\ (pc = "receive" => faults > 2 * PicTries + 1)
        /\ cmd = "getPicture" => Dear(IF pc = "receive" THEN faults + 1 ELSE faults, i)
        /\ pc = "done" => left = 0

\* When the camera holds the picture of this call, it sends no other.
Own ==
    /\ shot = turn /\ data.part \in {"header", "image"} => data.pic = turn
    /\ shot = turn /\ size # Unknown => size = turn
    /\ snapped => shot = turn \/ faults > 2 * PicTries + 1

\* The tries that are gone have cost a fault each, but for the one that may
\* still be answered.
Paid(n) == Tries[cmd] - left <= n
Answered ==
    IF cmd = "snapshot" THEN acks = <<"snapshot">>
    ELSE /\ data.part = "header"
         /\ acks = IF pc = "receive" THEN <<"getPicture">> ELSE <<>>
Tried ==
    Taking /\ st = "set" =>
        /\ cmd = "getPicture" => snapped \/ faults >= SnapTries
        /\ cmd = "snapshot" \/ shot = turn =>
               /\ pc = "send" => Paid(faults)
               /\ pc \in {"receive", "second"} => Paid(faults) \/ (Paid(faults + 1) /\ Answered)
               /\ pc = "done" => size # Unknown \/ faults >= PicTries

Price == Places /\ AcksFew /\ Lag /\ Own /\ Tried

\* The numbers.
LEMMA Amounts ==
    ASSUME TypeOK
    PROVE  /\ left \in Nat /\ faults \in Nat /\ Tries[cmd] \in Nat /\ Len(acks) \in Nat
           /\ SnapTries \in Nat \ {0} /\ PicTries \in Nat \ {0}
           /\ turn \in Nat /\ shot \in Nat /\ data.pic \in Nat /\ left <= Tries[cmd]
<1>1. \A c \in Commands : Tries[c] \in Nat \ {0}
  BY TriesAssumption
<1>2. cmd \in Commands /\ "snapshot" \in Commands /\ "getPicture" \in Commands
  BY DEF TypeOK, Commands
<1>3. Tries[cmd] \in Nat /\ left \in 0 .. Tries[cmd]
  BY <1>1, <1>2 DEF TypeOK
<1>4. faults \in 0 .. MaxFaults /\ acks \in Seq(Acks) /\ turn \in 0 .. MaxCalls /\ shot \in 0 .. MaxCalls
  BY DEF TypeOK, Acks, Pictures
<1>5. data.pic \in 0 .. MaxCalls
  BY DataType DEF TypeOK, Pictures
<1> QED
  BY <1>1, <1>2, <1>3, <1>4, <1>5, FaultAssumption, CallsAssumption DEF SnapTries, PicTries

\* What goes wrong is counted.
LEMMA Counted ==
    ASSUME TypeOK, NEW k
    PROVE  /\ Fault(k) => faults' = faults + 1
           /\ Fine => faults' = faults
BY DEF Fault, Fine

\* The acknowledgements after a command has been sent.
LEMMA Queue ==
    ASSUME NEW s \in Seq(Acks), NEW c \in Acks
    PROVE  /\ Len(<<c>>) = 1 /\ <<c>>[1] = c
           /\ Len(Append(s, c)) = Len(s) + 1
           /\ \A i \in 1 .. Len(s) : Append(s, c)[i] = s[i]
           /\ Append(s, c)[Len(s) + 1] = c
           /\ s # <<>> => /\ Len(Tail(s)) = Len(s) - 1 /\ Len(s) > 0 /\ Head(s) = s[1]
                          /\ \A i \in 1 .. Len(s) - 1 : Tail(s)[i] = s[i + 1]
OBVIOUS

\* What the camera makes of the command in hand.
LEMMA GetsCases ==
    ASSUME TypeOK, NEW c \in Commands, Gets(c)
    PROVE  \/ /\ Understands(c) /\ acks' = <<c>> /\ faults' = faults
              /\ data' = CASE c = "sync"       -> [part |-> "SYNC", pic |-> 0]
                           [] c = "getPicture" -> [part |-> "header", pic |-> shot]
                           [] OTHER            -> Nothing
              /\ st' = CASE c = "sync" -> "woken" [] c = "init" -> "set" [] OTHER -> st
              /\ shot' = IF c = "snapshot" THEN turn ELSE shot
           \/ /\ Understands(c) /\ acks' = Append(acks, c) /\ faults' = faults + 1
              /\ data' = CASE c = "sync"       -> [part |-> "SYNC", pic |-> 0]
                           [] c = "getPicture" -> [part |-> "header", pic |-> shot]
                           [] OTHER            -> Nothing
              /\ st' = CASE c = "sync" -> "woken" [] c = "init" -> "set" [] OTHER -> st
              /\ shot' = IF c = "snapshot" THEN turn ELSE shot
           \/ /\ acks' = <<"NAK">> /\ data' = Nothing /\ UNCHANGED <<st, shot>>
              /\ Understands(c) => faults' = faults + 1
              /\ ~Understands(c) => faults' = faults
           \/ /\ UNCHANGED <<acks, data, st, shot>>
              /\ Understands(c) /\ st # "asleep" => faults' = faults + 1
              /\ ~(Understands(c) /\ st # "asleep") => faults' = faults
<1>1. \A k : Fault(k) => faults' = faults + 1
  BY DEF Fault
<1>2. CASE Answers(c) /\ Understands(c)
  BY <1>1, <1>2 DEF Gets, Answers, Refuses, Fine, camera
<1> QED
  BY <1>1, <1>2 DEF Gets, Answers, Refuses, Fine, camera

\* Nothing has been sent.
LEMMA InitPrice == Init => Price
<1> SUFFICES ASSUME Init PROVE Price
  OBVIOUS
<1>1. TypeOK /\ acks = <<>> /\ turn = 0 /\ shot = 0 /\ cmd = "sync" /\ pc = "send" /\ faults = 0
  BY InitIInv DEF IInv, Init
<1>2. Places /\ AcksFew /\ Lag
  BY <1>1, NoPicture DEF Places, Taking, AcksFew, Lag, Init
<1>3. Own /\ Tried
  BY <1>1 DEF Own, Tried, Taking, Init, Nothing, Unknown
<1> QED
  BY <1>2, <1>3 DEF Price

\* takePicture begins: what is left over from the call before is dear.
LEMMA CallPrice == IInv /\ Price /\ takePicture => Price'
<1> SUFFICES ASSUME IInv, Price, takePicture PROVE Price'
  OBVIOUS
<1>1. /\ pc \in {"up", "done"} /\ pc' = "send" /\ cmd' = "snapshot" /\ left' = SnapTries
      /\ turn' = turn + 1 /\ snapped' = FALSE /\ size' = Unknown
      /\ UNCHANGED <<st, shot, acks, data, faults>>
  BY DEF takePicture, Turn, camera, SnapTries
<1>2. TypeOK /\ Places /\ AcksFew /\ Lag
  BY DEF IInv, Price
<1>3. Places'
  BY <1>1, <1>2, Amounts, NoPicture DEF Places, Taking
<1>4. AcksFew'
  BY <1>1, <1>2 DEF AcksFew
<1>5. ASSUME NEW i \in 1 .. Len(acks), Stale(i)
      PROVE  st = "set" /\ shot # 0 /\ faults > 2 * PicTries
  <2>1. Taking /\ st = "set" /\ shot # 0 /\ pc = "done" /\ left = 0
    BY <1>1, <1>2, <1>5 DEF Lag, Places, Taking
  <2>2. cmd = "getPicture"
    BY <1>2, <2>1 DEF Places
  <2>3. Dear(faults, i)
    BY <1>2, <1>5, <2>1, <2>2 DEF Lag
  <2> QED
    BY <1>2, <2>1, <2>3, Amounts DEF Dear
<1>6. Lag'
  BY <1>1, <1>5 DEF Lag, Stale, Taking
<1>7. Own'
  BY <1>1, <1>2, Amounts DEF Own, Places
<1>8. Tried'
  BY <1>1, <1>2, Amounts DEF Tried, Taking, Paid, SnapTries
<1> QED
  BY <1>3, <1>4, <1>6, <1>7, <1>8 DEF Price

\* The ready pin.
LEMMA ReadyPrice == Price /\ CameraReady => Price'
<1> SUFFICES ASSUME Price, CameraReady PROVE Price'
  OBVIOUS
<1>1. UNCHANGED <<st, shot, acks, data, pc, cmd, left, snapped, size, turn, faults>>
  BY DEF CameraReady, camera, result
<1> QED
  BY <1>1 DEF Price, Places, AcksFew, Lag, Own, Tried, Taking, Stale, Dear, Paid, Answered

\* The command goes out.
LEMMA SendPrice == IInv /\ Price /\ Send => Price'
<1> SUFFICES ASSUME IInv, Price, Send PROVE Price'
  OBVIOUS
<1>1. /\ pc = "send" /\ pc' = "receive" /\ left' = left - 1 /\ size = Unknown
      /\ UNCHANGED <<cmd, snapped, size, turn>> /\ Gets(cmd) /\ left > 0 /\ cmd \in Commands
  BY DEF Send, Count, result, IInv, HeaderSeen, TryLeft, TypeOK
<1>2. TypeOK /\ Places /\ AcksFew /\ Lag /\ Own /\ Tried
  BY DEF IInv, Price
<1> DEFINE Given == /\ data' = CASE cmd = "sync"       -> [part |-> "SYNC", pic |-> 0]
                                 [] cmd = "getPicture" -> [part |-> "header", pic |-> shot]
                                 [] OTHER              -> Nothing
                    /\ st' = CASE cmd = "sync" -> "woken" [] cmd = "init" -> "set" [] OTHER -> st
                    /\ shot' = IF cmd = "snapshot" THEN turn ELSE shot
           A == Understands(cmd) /\ acks' = <<cmd>> /\ faults' = faults /\ Given
           B == Understands(cmd) /\ acks' = Append(acks, cmd) /\ faults' = faults + 1 /\ Given
           C == /\ acks' = <<"NAK">> /\ data' = Nothing /\ UNCHANGED <<st, shot>>
                /\ Understands(cmd) => faults' = faults + 1
                /\ ~Understands(cmd) => faults' = faults
           D == /\ UNCHANGED <<acks, data, st, shot>>
                /\ Understands(cmd) /\ st # "asleep" => faults' = faults + 1
                /\ ~(Understands(cmd) /\ st # "asleep") => faults' = faults
<1>3. A \/ B \/ C \/ D
  BY <1>1, <1>2, GetsCases
<1>4. /\ left \in Nat /\ faults \in Nat /\ Tries[cmd] \in Nat /\ Len(acks) \in Nat
      /\ SnapTries \in Nat \ {0} /\ PicTries \in Nat \ {0} /\ turn \in Nat /\ shot \in Nat
      /\ acks \in Seq(Acks) /\ cmd \in Acks /\ "NAK" \in Acks
  BY <1>1, <1>2, Amounts DEF TypeOK, Acks
<1>5. faults' \in {faults, faults + 1}
  BY <1>3
<1>6. /\ A \/ C => Len(acks') = 1
      /\ A => acks'[1] = cmd
      /\ C => acks'[1] = "NAK"
      /\ B => /\ Len(acks') = Len(acks) + 1 /\ acks'[Len(acks) + 1] = cmd
              /\ \A i \in 1 .. Len(acks) : acks'[i] = acks[i]
  <2>1. acks' = <<cmd>> => Len(acks') = 1 /\ acks'[1] = cmd
    BY <1>4, Queue
  <2>2. acks' = <<"NAK">> => Len(acks') = 1 /\ acks'[1] = "NAK"
    BY <1>4, Queue
  <2>3. acks' = Append(acks, cmd) =>
           /\ Len(acks') = Len(acks) + 1 /\ acks'[Len(acks) + 1] = cmd
           /\ \A i \in 1 .. Len(acks) : acks'[i] = acks[i]
    BY <1>4, Queue
  <2> QED
    BY <2>1, <2>2, <2>3
<1>7. \/ UNCHANGED <<st, shot>>
      \/ cmd \in {"sync", "init"} /\ shot' = shot
      \/ cmd = "snapshot" /\ shot' = turn /\ st' = st
  BY <1>3, <1>1 DEF Commands
<1>8. Understands(cmd) /\ cmd = "snapshot" => st = "set"
  BY DEF Understands
<1>9. Taking /\ st = "set" /\ (cmd = "snapshot" \/ shot # 0) => Understands(cmd)
  BY DEF Understands, Taking
<1>10. Places'
  BY <1>1, <1>2, <1>4, <1>7 DEF Places, Taking
<1>11. AcksFew'
  <2>1. Len(acks) <= faults
    BY <1>1, <1>2, <1>4 DEF AcksFew
  <2>2. \/ Len(acks') = 1
        \/ Len(acks') = Len(acks)
        \/ Len(acks') = Len(acks) + 1 /\ faults' = faults + 1
    BY <1>3, <1>4, <1>6
  <2>3. faults' \in Nat /\ faults <= faults'
    BY <1>4, <1>5
  <2>4. Len(acks') <= faults' + 1
    <3> DEFINE n == Len(acks)
               m == Len(acks')
    <3>1. /\ n \in Nat /\ faults \in Nat /\ n <= faults
          /\ (m = 1 \/ m = n \/ (m = n + 1 /\ faults' = faults + 1))
      BY <2>1, <2>2, <1>4
    <3> HIDE DEF n, m
    <3>2. m <= faults' + 1
      BY <3>1, <2>3
    <3> QED
      BY <3>2 DEF m
  <2> QED
    BY <2>4, <1>1 DEF AcksFew
<1>12. Lag'
  <2> SUFFICES ASSUME NEW i \in 1 .. Len(acks'), acks'[i] = "snapshot"
               PROVE  /\ Taking /\ st' = "set" /\ shot' # 0
                      /\ cmd = "snapshot" => shot' = turn \/ faults' > 2 * PicTries + 1
                      /\ cmd = "getPicture" => 2 * (PicTries - left') + i <= faults' + 1
    BY <1>1, <1>5, <1>4 DEF Lag, Stale, Taking, PicTries, Dear
  <2>1. CASE (A \/ B) /\ cmd = "snapshot"
    <3>1. Taking /\ turn > 0
      BY <1>2, <2>1 DEF Taking, Places
    <3> QED
      BY <2>1, <3>1, <1>8, <1>4
  <2>2. CASE ~((A \/ B) /\ cmd = "snapshot")
    <3>1. i \in 1 .. Len(acks) /\ acks[i] = "snapshot"
      <4>1. i \in Nat /\ i >= 1 /\ i <= Len(acks')
        OBVIOUS
      <4>2. CASE A \/ C
        BY <4>1, <4>2, <1>6, <2>2
      <4>3. CASE B
        <5>1. cmd # "snapshot"
          BY <4>3, <2>2
        <5>2. i <= Len(acks) + 1 /\ i # Len(acks) + 1
          BY <4>1, <4>3, <1>6, <5>1
        <5>3. i \in 1 .. Len(acks)
          BY <4>1, <5>2, <1>4
        <5> QED
          BY <5>3, <4>3, <1>6
      <4>4. CASE D
        BY <4>4
      <4> QED
        BY <1>3, <4>2, <4>3, <4>4
    <3>2. /\ Taking /\ st = "set" /\ shot # 0
          /\ cmd = "snapshot" => shot = turn \/ faults > 2 * PicTries
          /\ cmd = "getPicture" => Dear(faults, i)
      BY <3>1, <1>1, <1>2 DEF Lag, Stale
    <3>3. ~A /\ ~C /\ (B \/ D)
      BY <1>3, <1>6, <1>4, <2>2, <3>1, <3>2 DEF Taking
    <3>4. faults' = faults + 1 /\ shot' = shot /\ st' = "set"
      BY <3>2, <3>3, <1>9, <1>7, <2>2 DEF Taking
    <3>5. cmd = "getPicture" => 2 * (PicTries - left') + i <= faults' + 1
      BY <3>2, <3>4, <1>1, <1>4, <3>1 DEF Dear, PicTries
    <3> QED
      BY <3>2, <3>4, <3>5, <1>4
  <2> QED
    BY <2>1, <2>2
<1>13. Own'
  <2>1. shot' = turn /\ data'.part \in {"header", "image"} => data'.pic = turn
    BY <1>1, <1>2, <1>3 DEF Own, Nothing, Commands
  <2>2. snapped => shot' = turn \/ faults' > 2 * PicTries + 1
    <3>1. snapped => shot = turn \/ faults > 2 * PicTries + 1
      BY <1>2 DEF Own
    <3>2. shot' = shot \/ shot' = turn
      BY <1>7
    <3> QED
      BY <3>1, <3>2, <1>4, <1>5
  <2> QED
    BY <1>1, <2>1, <2>2 DEF Own, PicTries
<1>14. Tried'
  <2> SUFFICES ASSUME Taking, st' = "set"
               PROVE  /\ cmd = "getPicture" => snapped \/ faults' >= SnapTries
                      /\ cmd = "snapshot" \/ shot' = turn =>
                           \/ Tries[cmd] - left' <= faults'
                           \/ Tries[cmd] - left' <= faults' + 1 /\ Answered'
    BY <1>1 DEF Tried, Taking, SnapTries, Paid
  <2>1. st = "set" /\ (cmd = "getPicture" => shot' = shot)
    BY <1>7 DEF Taking
  <2>2. cmd = "getPicture" => snapped \/ faults' >= SnapTries
    BY <1>2, <1>4, <1>5, <2>1 DEF Tried, Taking
  <2>3. ASSUME cmd = "snapshot" \/ shot' = turn
        PROVE  \/ Tries[cmd] - left' <= faults'
               \/ Tries[cmd] - left' <= faults' + 1 /\ Answered'
    <3>1. cmd = "snapshot" \/ (shot = turn /\ shot # 0)
      BY <2>1, <2>3, <1>2, <1>4 DEF Taking, Places
    <3>2. Paid(faults) /\ Understands(cmd)
      BY <1>1, <1>2, <2>1, <3>1, <1>9 DEF Tried
    <3>3. CASE faults' = faults + 1
      BY <1>1, <1>4, <3>2, <3>3 DEF Paid
    <3>4. CASE faults' = faults
      <4>1. A
        BY <1>3, <1>4, <3>2, <3>4, <2>1
      <4>2. Answered'
        BY <4>1, <1>1 DEF Answered, Taking
      <4>3. Tries[cmd] - left' <= faults' + 1
        BY <1>1, <1>4, <3>2, <3>4 DEF Paid
      <4> QED
        BY <4>2, <4>3
    <3> QED
      BY <1>5, <3>3, <3>4
  <2> QED
    BY <2>2, <2>3
<1> QED
  BY <1>10, <1>11, <1>12, <1>13, <1>14 DEF Price

\* What the driver reads: the packet that is next, or other eight bytes.
LEMMA SendsCases ==
    ASSUME TypeOK, NEW resp, Sends(resp)
    PROVE  /\ faults' \in {faults, faults + 1} /\ acks' \in Seq(Acks)
           /\ (resp = Packet /\ faults' = faults) \/ (resp # Packet /\ faults' = faults + 1)
           /\ \A i \in 1 .. Len(acks') : \E j \in 1 .. Len(acks) :
                 acks[j] = acks'[i] /\ i + faults + 1 <= j + faults'
           /\ data'.pic = data.pic \/ data' = Nothing
           /\ data'.part \in {"header", "image"} => data'.pic = data.pic /\ data.part \in {"header", "image"}
           /\ acks # <<>> => Len(acks') + faults + 1 <= Len(acks) + faults' /\ Packet = acks[1]
           /\ acks = <<>> => acks' = <<>>
           /\ acks # <<>> /\ resp = Packet => acks' = Tail(acks) /\ data' = data
<1>1. /\ faults \in Nat /\ acks \in Seq(Acks) /\ Len(acks) \in Nat
      /\ \A k : Fault(k) => faults' = faults + 1
  BY Amounts DEF TypeOK, Acks, Fault
<1>2. acks' \in Seq(Acks)
  BY SendsType
<1>3. acks # <<>> => /\ Len(Tail(acks)) = Len(acks) - 1 /\ Len(acks) > 0 /\ Head(acks) = acks[1]
                     /\ \A i \in 1 .. Len(acks) - 1 : Tail(acks)[i] = acks[i + 1]
  <2>1. "NAK" \in Acks
    BY DEF Acks
  <2> QED
    BY <1>1, <2>1, Queue
<1>4. \/ Advances /\ resp = Packet /\ faults' = faults
      \/ Advances /\ resp # Packet /\ faults' = faults + 1
      \/ UNCHANGED <<acks, data>> /\ resp # Packet /\ faults' = faults + 1
  BY <1>1 DEF Sends, Fine
<1>5. Advances => IF acks # <<>> THEN acks' = Tail(acks) /\ data' = data
                  ELSE /\ acks' = acks
                       /\ \/ data' = [data EXCEPT !.part = "image"] /\ data.part = "header"
                          \/ data' = data /\ data.part = "image"
                          \/ data' = Nothing
  BY DEF Advances
<1>6. /\ data \in Data /\ [data EXCEPT !.part = "image"].pic = data.pic /\ Nothing.part = "none"
  BY DataType DEF TypeOK, Nothing
<1>7. data'.part \in {"header", "image"} => data'.pic = data.pic /\ data.part \in {"header", "image"}
  BY <1>4, <1>5, <1>6
<1>8. data'.pic = data.pic \/ data' = Nothing
  BY <1>4, <1>5, <1>6
<1>9. acks # <<>> => Packet = acks[1]
  BY <1>3 DEF Packet
<1>10. CASE acks = <<>>
  <2>1. acks' = <<>>
    BY <1>4, <1>5, <1>10
  <2>2. 1 .. Len(acks') = {}
    BY <2>1
  <2>3. /\ faults' \in {faults, faults + 1}
        /\ (resp = Packet /\ faults' = faults) \/ (resp # Packet /\ faults' = faults + 1)
    BY <1>4
  <2> QED
    BY <1>2, <1>7, <1>8, <1>10, <2>1, <2>2, <2>3
<1>11. CASE acks # <<>> /\ acks' = Tail(acks)
  <2>1. \A i \in 1 .. Len(acks') : \E j \in 1 .. Len(acks) :
                 acks[j] = acks'[i] /\ i + faults + 1 <= j + faults'
    <3> SUFFICES ASSUME NEW i \in 1 .. Len(acks')
                 PROVE  \E j \in 1 .. Len(acks) : acks[j] = acks'[i] /\ i + faults + 1 <= j + faults'
      OBVIOUS
    <3>1. i + 1 \in 1 .. Len(acks) /\ acks[i + 1] = acks'[i]
      BY <1>3, <1>11, <1>1
    <3>2. faults <= faults' /\ faults' \in Nat /\ i \in Nat
      BY <1>4, <1>1
    <3>3. i + faults + 1 <= (i + 1) + faults'
      <4>1. \A a, b, c \in Nat : b <= c => a + b + 1 <= (a + 1) + c
        OBVIOUS
      <4> QED
        BY <4>1, <3>2, <1>1
    <3> QED
      BY <3>1, <3>3
  <2>2. Len(acks') + faults + 1 <= Len(acks) + faults'
    <3>1. Len(acks') = Len(acks) - 1
      BY <1>3, <1>11
    <3>2. faults' >= faults /\ faults' \in Nat
      BY <1>4, <1>1
    <3> QED
      BY <3>1, <3>2, <1>1
  <2>3. resp = Packet => data' = data
    BY <1>4, <1>5, <1>11
  <2>4. /\ faults' \in {faults, faults + 1}
        /\ (resp = Packet /\ faults' = faults) \/ (resp # Packet /\ faults' = faults + 1)
    BY <1>4
  <2> QED
    BY <1>2, <1>7, <1>8, <1>9, <1>11, <2>1, <2>2, <2>3, <2>4
<1>12. CASE acks # <<>> /\ acks' # Tail(acks)
  <2>1. UNCHANGED <<acks, data>> /\ resp # Packet /\ faults' = faults + 1
    BY <1>4, <1>5, <1>12
  <2>2. \A i \in 1 .. Len(acks') : \E j \in 1 .. Len(acks) :
                 acks[j] = acks'[i] /\ i + faults + 1 <= j + faults'
    <3> SUFFICES ASSUME NEW i \in 1 .. Len(acks')
                 PROVE  \E j \in 1 .. Len(acks) : acks[j] = acks'[i] /\ i + faults + 1 <= j + faults'
      OBVIOUS
    <3>1. i + faults + 1 <= i + faults'
      BY <2>1, <1>1
    <3>2. i \in 1 .. Len(acks) /\ acks[i] = acks'[i]
      BY <2>1
    <3> QED
      BY <3>1, <3>2
  <2>3. Len(acks') + faults + 1 <= Len(acks) + faults'
    BY <1>1, <2>1
  <2> QED
    BY <1>1, <1>2, <1>7, <1>8, <1>9, <1>12, <2>1, <2>2, <2>3
<1> QED
  BY <1>10, <1>11, <1>12

\* The answer comes in.
LEMMA ReceivePrice == IInv /\ Price /\ Receive /\ ~deceived' => Price'
<1> SUFFICES ASSUME IInv, Price, Receive, ~deceived' PROVE Price'
  OBVIOUS
<1>1. PICK resp \in Packets :
        /\ Sends(resp)
        /\ resp = cmd => resp = Packet
        /\ snapped' = (snapped \/ (cmd = "snapshot" /\ isAck(resp, cmd) /\ resp = Packet))
        /\ CASE ~isAck(resp, cmd) -> Again
             [] isAck(resp, cmd) /\ cmd \in {"sync", "getPicture"} ->
                    pc' = "second" /\ UNCHANGED <<cmd, left>>
             [] isAck(resp, cmd) /\ cmd = "quality" ->
                    pc' = "acknowledge" /\ UNCHANGED <<cmd, left>>
             [] OTHER -> After(cmd)
  BY DEF Receive, Deceives, isAck
<1>2. /\ pc = "receive" /\ UNCHANGED <<st, shot, size, turn>> /\ size = Unknown
  BY DEF Receive, result, IInv, HeaderSeen
<1>3. TypeOK /\ Places /\ AcksFew /\ Lag /\ Own /\ Tried /\ cmd \in Commands
  BY DEF IInv, Price, TypeOK
<1>4. /\ faults' \in {faults, faults + 1} /\ acks' \in Seq(Acks)
      /\ (resp = Packet /\ faults' = faults) \/ (resp # Packet /\ faults' = faults + 1)
      /\ \A i \in 1 .. Len(acks') : \E j \in 1 .. Len(acks) :
            acks[j] = acks'[i] /\ i + faults + 1 <= j + faults'
      /\ data'.part \in {"header", "image"} => data'.pic = data.pic /\ data.part \in {"header", "image"}
      /\ acks # <<>> => Len(acks') + faults + 1 <= Len(acks) + faults' /\ Packet = acks[1]
      /\ acks = <<>> => acks' = <<>>
      /\ acks # <<>> /\ resp = Packet => acks' = Tail(acks) /\ data' = data
  BY <1>1, <1>3, SendsCases
<1>5. /\ left \in Nat /\ faults \in Nat /\ Tries[cmd] \in Nat /\ Len(acks) \in Nat
      /\ SnapTries \in Nat \ {0} /\ PicTries \in Nat \ {0} /\ turn \in Nat /\ shot \in Nat
      /\ faults' \in Nat /\ faults <= faults' /\ Len(acks') \in Nat
  <2>1. /\ left \in Nat /\ faults \in Nat /\ Tries[cmd] \in Nat /\ Len(acks) \in Nat
        /\ SnapTries \in Nat \ {0} /\ PicTries \in Nat \ {0} /\ turn \in Nat /\ shot \in Nat
    BY <1>3, Amounts
  <2>2. faults' \in {faults, faults + 1} /\ acks' \in Seq(Acks)
    BY <1>4
  <2>3. faults' \in Nat /\ faults <= faults'
    BY <2>1, <2>2
  <2>4. Len(acks') \in Nat
    BY <2>2
  <2> QED
    BY <2>1, <2>3, <2>4
\* What becomes of the command.
<1>6. \/ resp # cmd /\ left # 0 /\ pc' = "send" /\ UNCHANGED <<cmd, left>>
      \/ resp # cmd /\ left = 0 /\ After(cmd)
      \/ resp = cmd /\ cmd \in {"sync", "getPicture"} /\ pc' = "second" /\ UNCHANGED <<cmd, left>>
      \/ resp = cmd /\ cmd = "quality" /\ pc' = "acknowledge" /\ UNCHANGED <<cmd, left>>
      \/ resp = cmd /\ cmd \in {"init", "snapshot"} /\ After(cmd)
  BY <1>1, <1>3 DEF isAck, Again, GivesUp, Commands
<1>7. After(cmd) =>
        \/ cmd \in {"sync", "init"} /\ pc' = "send" /\ cmd' \in {"init", "quality"}
        \/ cmd = "quality" /\ pc' = "up" /\ cmd' = cmd
        \/ cmd = "snapshot" /\ pc' = "send" /\ cmd' = "getPicture" /\ left' = PicTries
        \/ cmd = "getPicture" /\ pc' = "done" /\ UNCHANGED <<cmd, left>>
  BY <1>3 DEF After, Turn, Commands, PicTries
<1>8. pc' # "receive" /\ pc' # "picture" /\ (Taking <=> cmd' \in {"snapshot", "getPicture"})
  BY <1>6, <1>7 DEF Taking
<1>9. Places'
  BY <1>2, <1>3, <1>6, <1>7, <1>8 DEF Places, Taking
<1>10. Len(acks') <= faults'
  <2>1. Len(acks) <= faults + 1
    BY <1>2, <1>3 DEF AcksFew
  <2> DEFINE n == Len(acks)
             m == Len(acks')
  <2>2. m = 0 \/ m + faults + 1 <= n + faults'
    BY <1>4
  <2>3. n \in Nat /\ m \in Nat /\ n <= faults + 1 /\ faults \in Nat /\ faults' \in Nat
    BY <1>5, <2>1
  <2> HIDE DEF n, m
  <2>4. m <= faults'
    <3>1. \A a, b, c, d \in Nat : (a = 0 \/ a + b + 1 <= c + d) /\ c <= b + 1 => a <= d
      OBVIOUS
    <3> QED
      BY <2>2, <2>3, <3>1
  <2> QED
    BY <2>4 DEF m
<1>11. AcksFew'
  BY <1>8, <1>10, <1>5 DEF AcksFew
\* An answer that is not what the loop waits for has cost a fault.
<1>12. ASSUME Taking, acks = <<cmd>>, resp # cmd PROVE faults' = faults + 1
  <2>1. acks # <<>> /\ acks[1] = cmd
    BY <1>12
  <2> QED
    BY <1>4, <1>12, <2>1
<1>13. Lag'
  <2> SUFFICES ASSUME NEW i \in 1 .. Len(acks'), acks'[i] = "snapshot"
               PROVE  /\ Taking /\ st = "set" /\ shot # 0
                      /\ cmd' = "snapshot" => shot = turn \/ faults' > 2 * PicTries
                      /\ cmd' = "getPicture" => 2 * (PicTries - left') + i <= faults'
                      /\ pc' = "done" => left' = 0
    BY <1>2, <1>8 DEF Lag, Stale, Taking, PicTries, Dear
  <2>1. PICK j \in 1 .. Len(acks) : acks[j] = acks'[i] /\ i + faults + 1 <= j + faults'
    BY <1>4
  <2>2. /\ Taking /\ st = "set" /\ shot # 0
        /\ cmd = "snapshot" => shot = turn \/ faults > 2 * PicTries + 1
        /\ cmd = "getPicture" => 2 * (PicTries - left) + j <= faults + 1
    BY <1>2, <1>3, <2>1 DEF Lag, Stale, Dear
  <2>3. cmd' = "snapshot" => shot = turn \/ faults' > 2 * PicTries
    BY <2>2, <1>5, <1>6, <1>7
  <2>4. CASE cmd = "snapshot"
    <3>1. cmd' = "getPicture" => left' = PicTries
      BY <2>4, <1>6, <1>7
    <3>2. i \in Nat /\ i <= faults'
      BY <1>10, <1>5
    <3>3. pc' # "done"
      BY <2>4, <1>6, <1>7
    <3>4. 2 * (PicTries - PicTries) + i <= faults'
      BY <3>2, <1>5
    <3> QED
      BY <2>2, <2>3, <3>1, <3>3, <3>4
  <2>5. CASE cmd = "getPicture"
    <3>1. left' = left /\ cmd' = cmd /\ (pc' = "done" => left = 0)
      BY <2>5, <1>6, <1>7
    <3>2. 2 * (PicTries - left) + i <= faults'
      <4> DEFINE x == 2 * (PicTries - left)
      <4>1. x \in Int
        BY <1>5
      <4>2. x + j <= faults + 1
        BY <2>2, <2>5
      <4>3. i + faults + 1 <= j + faults' /\ i \in Nat /\ j \in Nat
        BY <2>1
      <4> HIDE DEF x
      <4>4. x + i <= faults'
        <5>1. \A y \in Int, a, b, c, d \in Nat : y + b <= c + 1 /\ a + c + 1 <= b + d => y + a <= d
          OBVIOUS
        <5> QED
          BY <4>1, <4>2, <4>3, <5>1, <1>5
      <4> QED
        BY <4>4 DEF x
    <3> QED
      BY <2>2, <2>3, <3>1, <3>2
  <2> QED
    BY <2>2, <2>4, <2>5 DEF Taking
<1>14. Own'
  <2>1. shot = turn /\ data'.part \in {"header", "image"} => data'.pic = turn
    BY <1>3, <1>4 DEF Own
  <2>2. ASSUME cmd = "snapshot", resp = cmd PROVE shot = turn \/ faults > 2 * PicTries + 1
    <3>1. Packet = "snapshot"
      BY <1>1, <2>2
    <3>2. acks # <<>> /\ acks[1] = "snapshot"
      BY <1>4, <3>1 DEF Packet, Junk
    <3>3. 1 \in 1 .. Len(acks)
      BY <3>2, <1>3 DEF TypeOK
    <3> QED
      BY <3>2, <3>3, <2>2, <1>2, <1>3 DEF Lag, Stale
  <2>3. snapped' => shot = turn \/ faults > 2 * PicTries + 1
    BY <1>1, <1>3, <2>2 DEF Own, isAck
  <2>4. snapped' => shot = turn \/ faults' > 2 * PicTries + 1
    BY <2>3, <1>5
  <2> QED
    BY <2>1, <2>4, <1>2 DEF Own, PicTries
<1>15. Tried'
  <2> SUFFICES ASSUME Taking, st = "set"
               PROVE  /\ cmd' = "getPicture" => snapped' \/ faults' >= SnapTries
                      /\ cmd' = "snapshot" \/ shot = turn =>
                           /\ pc' = "send" => Tries[cmd'] - left' <= faults'
                           /\ pc' = "second" => \/ Tries[cmd'] - left' <= faults'
                                                \/ Tries[cmd'] - left' <= faults' + 1 /\ Answered'
                           /\ pc' = "done" => faults' >= PicTries
    BY <1>2, <1>8 DEF Tried, Taking, SnapTries, PicTries, Paid
  <2>1. cmd = "snapshot" \/ shot = turn =>
           Tries[cmd] - left <= faults \/ (Tries[cmd] - left <= faults + 1 /\ Answered)
    BY <1>2, <1>3 DEF Tried, Paid
  <2>2. (cmd = "snapshot" \/ shot = turn) /\ resp # cmd => Tries[cmd] - left <= faults'
    <3>1. Answered => acks = <<cmd>>
      BY <1>2 DEF Answered, Taking
    <3> QED
      BY <1>5, <1>12, <2>1, <3>1
  <2>3. CASE cmd = "snapshot"
    <3>1. CASE resp = cmd
      <4>1. pc' = "send" /\ cmd' = "getPicture" /\ left' = PicTries /\ snapped'
        BY <1>1, <1>6, <1>7, <2>3, <3>1 DEF isAck
      <4> QED
        BY <4>1, <1>5 DEF PicTries
    <3>2. CASE resp # cmd /\ left # 0
      BY <3>2, <2>2, <2>3, <1>6
    <3>3. CASE resp # cmd /\ left = 0
      <4>1. pc' = "send" /\ cmd' = "getPicture" /\ left' = PicTries
        BY <1>6, <1>7, <2>3, <3>3
      <4>2. faults' >= SnapTries
        BY <2>2, <2>3, <3>3, <1>5 DEF SnapTries
      <4> QED
        BY <4>1, <4>2, <1>5 DEF PicTries
    <3> QED
      BY <3>1, <3>2, <3>3
  <2>4. CASE cmd = "getPicture"
    <3>1. cmd' = cmd /\ left' = left /\ (pc' = "done" => left = 0)
          /\ (pc' \in {"send", "done"} => resp # cmd) /\ (pc' = "second" => resp = cmd)
      BY <1>6, <1>7, <2>4
    <3>2. snapped' \/ faults' >= SnapTries
      <4>1. snapped \/ faults >= SnapTries
        BY <1>3, <2>4 DEF Tried, Taking
      <4> QED
        <5>1. snapped => snapped'
          BY <1>1
        <5>2. faults >= SnapTries => faults' >= SnapTries
          BY <1>5
        <5> QED
          BY <4>1, <5>1, <5>2
    <3>3. ASSUME shot = turn, pc' = "done" PROVE faults' >= PicTries
      BY <3>1, <3>3, <2>2, <2>4, <1>5 DEF PicTries
    <3>4. ASSUME shot = turn, pc' = "second"
          PROVE  \/ Tries[cmd'] - left' <= faults'
                 \/ Tries[cmd'] - left' <= faults' + 1 /\ Answered'
      <4>1. CASE Tries[cmd] - left <= faults
        BY <4>1, <3>1, <1>5
      <4>2. CASE Tries[cmd] - left <= faults + 1 /\ Answered
        <5>1. acks = <<"getPicture">> /\ data.part = "header"
          BY <4>2, <1>2, <2>4 DEF Answered
        <5>2. resp = Packet
          BY <3>1, <3>4, <2>4, <1>1
        <5>3. acks # <<>> /\ Tail(acks) = <<>>
          BY <5>1
        <5>4. acks' = <<>> /\ data' = data
          BY <5>2, <5>3, <1>4
        <5>5. Answered'
          BY <5>1, <5>4, <3>1, <3>4, <2>4 DEF Answered
        <5> QED
          BY <5>5, <4>2, <3>1, <1>5
      <4> QED
        BY <4>1, <4>2, <2>1, <3>4
    <3> QED
      BY <3>1, <3>2, <3>3, <3>4, <2>2, <2>4
  <2> QED
    BY <2>3, <2>4 DEF Taking
<1> QED
  BY <1>9, <1>11, <1>13, <1>14, <1>15 DEF Price

\* What follows the acknowledgement comes in.
LEMMA SecondPrice == IInv /\ Price /\ Second /\ ~deceived' => Price'
<1> SUFFICES ASSUME IInv, Price, Second, ~deceived' PROVE Price'
  OBVIOUS
<1>1. PICK resp \in Packets :
        /\ Sends(resp)
        /\ \/ cmd = "sync" /\ pc' = "acknowledge" /\ UNCHANGED <<cmd, left, size>>
           \/ /\ cmd = "getPicture" /\ resp = "header"
              /\ resp = Packet
              /\ pc' = "picture" /\ size' = data.pic /\ UNCHANGED <<cmd, left>>
           \/ /\ cmd # "sync" /\ ~(cmd = "getPicture" /\ resp = "header")
              /\ Again /\ UNCHANGED size
  <2>1. Packet # Misread
    BY DEF Packet, Misread, Junk, Commands, IInv, TypeOK
  <2> QED
    BY <2>1 DEF Second, GoodHeader, WrongHeader, Deceives
<1>2. /\ pc = "second" /\ UNCHANGED <<st, shot, snapped, turn>> /\ size = Unknown
  BY DEF Second, IInv, HeaderSeen
<1>3. TypeOK /\ Places /\ AcksFew /\ Lag /\ Own /\ Tried /\ cmd \in Commands
  BY DEF IInv, Price, TypeOK
<1>4. /\ faults' \in {faults, faults + 1} /\ acks' \in Seq(Acks)
      /\ (resp = Packet /\ faults' = faults) \/ (resp # Packet /\ faults' = faults + 1)
      /\ \A i \in 1 .. Len(acks') : \E j \in 1 .. Len(acks) :
            acks[j] = acks'[i] /\ i + faults + 1 <= j + faults'
      /\ data'.part \in {"header", "image"} => data'.pic = data.pic /\ data.part \in {"header", "image"}
      /\ acks # <<>> => Len(acks') + faults + 1 <= Len(acks) + faults' /\ Packet = acks[1]
      /\ acks = <<>> => acks' = <<>>
  BY <1>1, <1>3, SendsCases
<1>5. /\ left \in Nat /\ faults \in Nat /\ Tries[cmd] \in Nat /\ Len(acks) \in Nat
      /\ SnapTries \in Nat \ {0} /\ PicTries \in Nat \ {0} /\ turn \in Nat /\ shot \in Nat
      /\ faults' \in Nat /\ faults <= faults' /\ Len(acks') \in Nat
  <2>1. /\ left \in Nat /\ faults \in Nat /\ Tries[cmd] \in Nat /\ Len(acks) \in Nat
        /\ SnapTries \in Nat \ {0} /\ PicTries \in Nat \ {0} /\ turn \in Nat /\ shot \in Nat
    BY <1>3, Amounts
  <2>2. faults' \in {faults, faults + 1} /\ acks' \in Seq(Acks)
    BY <1>4
  <2>3. faults' \in Nat /\ faults <= faults'
    BY <2>1, <2>2
  <2>4. Len(acks') \in Nat
    BY <2>2
  <2> QED
    BY <2>1, <2>3, <2>4
<1>6. \/ cmd = "sync" /\ pc' = "acknowledge" /\ size' = size
      \/ /\ cmd = "getPicture" /\ resp = "header" /\ resp = Packet
         /\ pc' = "picture" /\ size' = data.pic
      \/ cmd = "getPicture" /\ resp # "header" /\ left # 0 /\ pc' = "send" /\ size' = size
      \/ cmd = "getPicture" /\ resp # "header" /\ left = 0 /\ pc' = "done" /\ size' = size
  BY <1>1, <1>2, <1>3 DEF Again, GivesUp, After, Places
<1>7. UNCHANGED <<cmd, left>>
  BY <1>1, <1>2, <1>3 DEF Again, GivesUp, After, Places
<1>8. Places'
  <2>1. size # Wrong /\ pc # "abort"
    BY <1>3 DEF Places
  <2>2. data.pic # Wrong
    BY <1>3, DataType, NoPicture DEF TypeOK
  <2>3. size' # Wrong /\ pc' # "abort"
    BY <1>6, <2>1, <2>2
  <2> QED
    BY <1>2, <1>3, <1>6, <1>7, <2>3 DEF Places, Taking
<1>9. AcksFew'
  <2>1. Len(acks) <= faults
    BY <1>2, <1>3, <1>5 DEF AcksFew
  <2>2. Len(acks') = 0 \/ Len(acks') + faults + 1 <= Len(acks) + faults'
    BY <1>4
  <2>3. \A a, b, c, d \in Nat : (a = 0 \/ a + b + 1 <= c + d) /\ c <= b => a <= d
    OBVIOUS
  <2>4. Len(acks') <= faults'
    BY <2>1, <2>2, <2>3, <1>5
  <2> QED
    BY <2>4, <1>5, <1>6 DEF AcksFew
<1>10. Lag'
  <2> SUFFICES ASSUME NEW i \in 1 .. Len(acks'), acks'[i] = "snapshot"
               PROVE  /\ Taking /\ st = "set" /\ shot # 0 /\ cmd # "snapshot"
                      /\ cmd = "getPicture" => 2 * (PicTries - left) + i <= faults'
                      /\ pc' = "done" => left = 0
    BY <1>2, <1>6, <1>7 DEF Lag, Stale, Taking, PicTries, Dear
  <2>1. PICK j \in 1 .. Len(acks) : acks[j] = acks'[i] /\ i + faults + 1 <= j + faults'
    BY <1>4
  <2>2. /\ Taking /\ st = "set" /\ shot # 0 /\ cmd # "snapshot"
        /\ cmd = "getPicture" => 2 * (PicTries - left) + j <= faults
    BY <1>2, <1>3, <2>1 DEF Lag, Stale, Dear, Places
  <2>3. cmd = "getPicture" => 2 * (PicTries - left) + i <= faults'
    <3> DEFINE x == 2 * (PicTries - left)
    <3>1. x \in Int
      BY <1>5
    <3>2. cmd = "getPicture" => x + j <= faults
      BY <2>2
    <3>3. i \in Nat /\ j \in Nat
      OBVIOUS
    <3> HIDE DEF x
    <3>4. \A y \in Int, a, b, c, d \in Nat : y + b <= c /\ a + c + 1 <= b + d => y + a <= d
      OBVIOUS
    <3>5. cmd = "getPicture" => x + i <= faults'
      BY <3>1, <3>2, <3>3, <3>4, <2>1, <1>5
    <3> QED
      BY <3>5 DEF x
  <2> QED
    BY <2>2, <2>3, <1>6
\* A header comes when no acknowledgement is left.
<1>11. resp = "header" /\ resp = Packet => acks = <<>> /\ data.part = "header"
  <2>1. acks # <<>> => Head(acks) \in Commands \cup {"NAK"}
    BY <1>3 DEF TypeOK
  <2> QED
    BY <2>1 DEF Packet, Commands, Junk
<1>12. Own'
  <2>1. shot = turn /\ data'.part \in {"header", "image"} => data'.pic = turn
    BY <1>3, <1>4 DEF Own
  <2>2. shot = turn /\ size' # Unknown => size' = turn
    BY <1>2, <1>3, <1>6, <1>11 DEF Own
  <2>3. snapped => shot = turn \/ faults' > 2 * PicTries + 1
    <3>1. snapped => shot = turn \/ faults > 2 * PicTries + 1
      BY <1>3 DEF Own
    <3> QED
      BY <3>1, <1>5
  <2> QED
    BY <2>1, <2>2, <2>3, <1>2 DEF Own, PicTries
<1>13. Tried'
  <2> SUFFICES ASSUME cmd = "getPicture", st = "set"
               PROVE  /\ snapped \/ faults' >= SnapTries
                      /\ shot = turn /\ resp # "header" => Tries[cmd] - left <= faults'
    <3>1. pc' = "done" /\ Tries[cmd] - left <= faults' => faults' >= PicTries \/ cmd # "getPicture"
      BY <1>6, <1>5 DEF PicTries
    <3> QED
      BY <3>1, <1>2, <1>3, <1>6, <1>7 DEF Tried, Taking, SnapTries, PicTries, Paid, Places
  <2>1. /\ snapped \/ faults >= SnapTries
        /\ shot = turn => Tries[cmd] - left <= faults \/ (Tries[cmd] - left <= faults + 1 /\ Answered)
    BY <1>2, <1>3 DEF Tried, Paid, Taking
  <2>2. snapped \/ faults' >= SnapTries
    BY <2>1, <1>5
  <2>3. ASSUME Answered, resp # "header" PROVE faults' = faults + 1
    BY <2>3, <1>2, <1>4 DEF Answered, Packet
  <2>4. shot = turn /\ resp # "header" => Tries[cmd] - left <= faults'
    <3>1. faults <= faults' /\ (Answered /\ resp # "header" => faults' = faults + 1)
      BY <2>3, <1>5
    <3> QED
      BY <2>1, <3>1, <1>5
  <2> QED
    BY <2>2, <2>4
<1> QED
  BY <1>8, <1>9, <1>10, <1>12, <1>13 DEF Price

\* The driver acknowledges.
LEMMA AcknowledgePrice == IInv /\ Price /\ Acknowledge => Price'
<1> SUFFICES ASSUME IInv, Price, Acknowledge PROVE Price'
  OBVIOUS
<1>1. /\ pc = "acknowledge" /\ After(cmd)
      /\ UNCHANGED <<shot, acks, data, snapped, size, turn>>
  BY DEF Acknowledge, result
<1>2. TypeOK /\ Places /\ AcksFew /\ Lag /\ Own /\ cmd \in {"sync", "quality"}
  BY <1>1 DEF IInv, Price, Places
<1>3. \/ pc' = "send" /\ cmd' = "init"
      \/ pc' = "up" /\ cmd' = "quality"
  BY <1>1, <1>2 DEF After, Turn
<1>4. faults \in Nat /\ faults' \in Nat /\ faults <= faults' /\ Len(acks) \in Nat /\ PicTries \in Nat
  <2>1. faults' = faults \/ faults' = faults + 1
    BY DEF Acknowledge, Fine, Fault
  <2> QED
    BY <2>1, <1>2, Amounts
<1>5. Places'
  BY <1>1, <1>2, <1>3 DEF Places, Taking
<1>6. AcksFew'
  <2>1. Len(acks) <= faults
    BY <1>1, <1>2, <1>4 DEF AcksFew
  <2>2. Len(acks) <= faults'
    BY <2>1, <1>4
  <2> QED
    BY <2>2, <1>1, <1>3, <1>4 DEF AcksFew
<1>7. Lag'
  BY <1>1, <1>2 DEF Lag, Stale, Taking
<1>8. Own'
  <2>1. snapped => shot = turn \/ faults > 2 * PicTries + 1
    BY <1>2 DEF Own
  <2>2. snapped => shot = turn \/ faults' > 2 * PicTries + 1
    BY <2>1, <1>4
  <2> QED
    BY <2>2, <1>1, <1>2 DEF Own, PicTries
<1>9. Tried'
  BY <1>3 DEF Tried, Taking
<1> QED
  BY <1>5, <1>6, <1>7, <1>8, <1>9 DEF Price

\* The picture comes in.
LEMMA PicturePrice == IInv /\ Price /\ Picture => Price'
<1> SUFFICES ASSUME IInv, Price, Picture PROVE Price'
  OBVIOUS
<1>1. /\ pc = "picture" /\ After(cmd) /\ data' = Nothing
      /\ UNCHANGED <<st, shot, acks, snapped, size, turn, faults>>
  BY DEF Picture, Price, Places
<1>2. TypeOK /\ Places /\ AcksFew /\ Own /\ Tried /\ HeaderSeen
  BY DEF IInv, Price
<1>3. /\ cmd = "getPicture" /\ acks = <<>> /\ data.pic = size /\ size # Unknown
  BY <1>1, <1>2, NoPicture DEF HeaderSeen, Places
<1>4. pc' = "done" /\ UNCHANGED <<cmd, left>>
  BY <1>1, <1>3 DEF After
<1>5. Places'
  BY <1>1, <1>2, <1>3, <1>4 DEF Places, Taking
<1>6. AcksFew'
  BY <1>1, <1>2, <1>4 DEF AcksFew
<1>7. Lag'
  BY <1>1, <1>3 DEF Lag
<1>8. Own'
  BY <1>1, <1>2 DEF Own, Nothing
<1>9. Tried'
  BY <1>1, <1>2, <1>3, <1>4 DEF Tried, Taking
<1> QED
  BY <1>5, <1>6, <1>7, <1>8, <1>9 DEF Price

\* The prices hold until damaged bytes are taken for what was expected.
Worth == deceived \/ Price

LEMMA PriceHolds == Spec => [](IInv /\ Worth)
<1>1. Init => Worth
  BY InitPrice DEF Worth
<1>2. IInv /\ Worth /\ [Next]_vars => Worth'
  <2> SUFFICES ASSUME IInv, Worth, [Next]_vars, ~deceived' PROVE Price'
    BY DEF Worth
  <2>1. Price /\ UNCHANGED vars => Price'
    BY DEF vars, camera, result, Price, Places, AcksFew, Lag, Own, Tried, Taking, Stale, Dear, Paid,
           Answered
  <2>2. ~deceived
    BY DEF Next, Driver, vars, takePicture, CameraReady, Send, Receive, Second, Acknowledge, Picture,
           Deceives, IInv, TypeOK
  <2>3. Price
    BY <2>2 DEF Worth
  <2> QED
    BY <2>1, <2>3, CallPrice, ReadyPrice, SendPrice, ReceivePrice, SecondPrice, AcknowledgePrice,
       PicturePrice
    DEF Next, Driver
<1> QED
  BY <1>1, <1>2, Invariant, PTL DEF Spec

\* With getSnapshot's answer not reported and late answers about, the picture
\* that getPic returns the size of is still the one of this call, once the
\* camera has acknowledged the snapshot: as long as no damaged bytes have passed
\* for an acknowledgement or a header, to mix up two calls takes more than two
\* faults for each try at getPicture, and one more.
THEOREM PictureOfThisCall ==
    Spec => [](faults <= 2 * Tries["getPicture"] + 1 /\ ~deceived => PictureFresh)
<1>1. IInv /\ Worth => (faults <= 2 * Tries["getPicture"] + 1 /\ ~deceived => PictureFresh)
  <2> SUFFICES ASSUME IInv, Price, faults <= 2 * PicTries + 1, size \in Pictures, snapped
               PROVE  size = turn
    BY DEF PictureFresh, PicTries, Worth
  <2>1. faults \in Nat /\ PicTries \in Nat
    BY Amounts DEF IInv
  <2>2. shot = turn
    BY <2>1 DEF Price, Own
  <2> QED
    BY <2>2, NoPicture DEF Price, Own
<1> QED
  BY <1>1, PriceHolds, PTL

\* The tries of getSnapshot and getPic suffice: with a camera that is set up,
\* takePicture delivers the new picture as long as fewer things have gone wrong
\* than it has tries at either command, whichever they were, and no damaged
\* bytes have passed for an acknowledgement or a header.
THEOREM TriesAreEnough == Spec => []RetriesSuffice
<1>1. IInv /\ Worth => RetriesSuffice
  <2> SUFFICES ASSUME IInv, Price, pc = "done", st = "set", faults < SnapTries, faults < PicTries
               PROVE  size = turn /\ image = turn
    BY DEF RetriesSuffice, SnapTries, PicTries, Worth
  <2>1. faults \in Nat /\ PicTries \in Nat \ {0} /\ SnapTries \in Nat
    BY Amounts DEF IInv
  <2>2. cmd = "getPicture"
    BY DEF Price, Places
  <2>3. snapped
    BY <2>1, <2>2 DEF Price, Tried, Taking
  <2>4. shot = turn
    BY <2>1, <2>3 DEF Price, Own
  <2>5. size # Unknown
    BY <2>1, <2>2, <2>4 DEF Price, Tried, Taking
  <2>6. size = turn
    BY <2>4, <2>5 DEF Price, Own
  <2> QED
    BY <2>6 DEF IInv, HeaderSeen, TypeOK
<1> QED
  BY <1>1, PriceHolds, PTL

=============================================================================
