------------------------------- MODULE Camera -------------------------------
(***************************************************************************)
(* setupCamera and takePicture of spitest.c over SPISend and SPIReceive of *)
(* spi.c, against the OV529 camera on the other end of the bus.            *)
(*                                                                         *)
(* Every transfer waits for the camera's ready pin.  An attempt at a       *)
(* command is a transfer out and one in, and the loop ends with the right  *)
(* acknowledgement or with the last try.  The camera is modelled from what *)
(* the code expects of it: it answers a command it has got with an         *)
(* acknowledgement, and getPicture also with a header and the picture.     *)
(* A picture is named by the call of takePicture it was taken in.          *)
(***************************************************************************)
EXTENDS Integers, Sequences

CONSTANTS
    Tries,      \* attempts at each command
    Faults,     \* what may go wrong, see FaultKinds
    MaxFaults,  \* bound: how often
    MaxCalls    \* bound: calls of takePicture

Commands == {"sync", "init", "quality", "snapshot", "getPicture"}
FaultKinds ==
    {"lost",     \* a command does not reach the camera as one it knows
     "refused",  \* the camera is busy and answers with a NAK
     "garbled",  \* the eight bytes that come in are damaged: into any others
     "late"}     \* an answer is not there yet, and comes after all

ASSUME TriesAssumption == Tries \in [Commands -> Nat \ {0}]
ASSUME FaultAssumption == Faults \subseteq FaultKinds /\ MaxFaults \in Nat
ASSUME CallsAssumption == MaxCalls \in Nat

VARIABLES
    st,      \* the camera: asleep, woken by sync, synchronised, set up
    shot,    \* the picture it holds, 0 for none
    acks,    \* the acknowledgements it has still to send ...
    data,    \* ... and what follows them
    ready,   \* the ready pin
    pc, cmd, left,   \* the driver: its place, the command, the tries left
    snapped,         \* the camera has acknowledged this call's snapshot
    image, size,     \* the buffer at 0x40004000, and the size getPic returns
    turn,            \* calls of takePicture so far
    faults,          \* how much has gone wrong
    deceived         \* damaged bytes have been taken for what was expected

camera == <<st, shot, acks, data>>
result == <<image, size>>
vars == <<camera, ready, pc, cmd, left, snapped, result, turn, faults, deceived>>

States == {"asleep", "woken", "synced", "set"}
Pcs == {"send", "receive", "second", "acknowledge", "picture", "up", "done",
        "abort"}
Pictures == 0 .. MaxCalls
Nothing == [part |-> "none", pic |-> 0]
Data == [part : {"none", "SYNC", "header", "image"}, pic : Pictures]
Unknown == -1     \* an int nobody has assigned, bytes that are no picture
Wrong == -2       \* the size of no picture
Misread == "misread"  \* a header with other size bytes than the camera's
Junk == "junk"        \* eight bytes that are no packet
\* An acknowledgement has its command's name.
Packets == Commands \cup {"NAK", "SYNC", "header", Misread, Junk}

Init ==
    /\ st = "asleep" /\ shot = 0 /\ acks = <<>> /\ data = Nothing
    /\ ready = TRUE
    /\ pc = "send" /\ cmd = "sync" /\ left = Tries["sync"]
    /\ snapped = FALSE
    /\ image = 0 /\ size = Unknown
    /\ turn = 0
    /\ faults = 0 /\ deceived = FALSE

\* Something goes wrong, or nothing does.
Fault(k) == k \in Faults /\ faults < MaxFaults /\ faults' = faults + 1
Fine     == UNCHANGED faults

-----------------------------------------------------------------------------
(* The camera.                                                             *)

\* What it makes of a command: it may need several syncs to wake up, takes an
\* init only when it has been synchronised, and pictures when it is set up.
Understands(c) ==
    CASE c = "sync" -> TRUE
      [] c = "init" -> st \in {"synced", "set"}
      [] c = "getPicture" -> st = "set" /\ shot # 0
      [] OTHER -> st = "set"

\* It drops what it had still to send, or only a picture it had begun.
Answers(c) ==
    /\ \/ acks' = <<c>> /\ Fine
       \/ acks' = Append(acks, c) /\ acks # <<>> /\ Fault("late")
    /\ data' = CASE c = "sync"       -> [part |-> "SYNC", pic |-> 0]
                 [] c = "getPicture" -> [part |-> "header", pic |-> shot]
                 [] OTHER            -> Nothing

Refuses(c) == IF Understands(c) THEN Fault("refused") ELSE Fine

Gets(c) ==
    \/ /\ Understands(c) /\ Answers(c)
       /\ st' = CASE c = "sync" -> "woken" [] c = "init" -> "set" [] OTHER -> st
       /\ shot' = IF c = "snapshot" THEN turn ELSE shot
    \/ acks' = <<"NAK">> /\ st # "asleep" /\ Refuses(c) /\ data' = Nothing /\ UNCHANGED <<st, shot>>
    \/ UNCHANGED camera /\ IF Understands(c) /\ st # "asleep" THEN Fault("lost") ELSE Fine

\* The next eight bytes it has to send.
Packet ==
    CASE acks # <<>> -> Head(acks)
      [] acks = <<>> /\ data.part \in {"SYNC", "header"} -> data.part
      [] OTHER -> Junk

\* After a header comes the picture, which goes on for long.
Advances ==
    IF acks # <<>> THEN acks' = Tail(acks) /\ UNCHANGED data
    ELSE /\ UNCHANGED acks
         /\ data' \in CASE data.part = "header" -> {[data EXCEPT !.part = "image"]}
                        [] data.part = "image"  -> {data, Nothing}
                        [] OTHER                -> {Nothing}

Sends(resp) ==
    \/ resp = Packet /\ Advances /\ Fine
    \/ resp # Packet /\ Advances /\ Fault("garbled")
    \/ resp = Junk /\ Packet # Junk /\ UNCHANGED <<acks, data>> /\ Fault("late")

\* It sends as long as it is asked to, nobody knows how long.
Drains ==
    /\ \E k \in 0 .. Len(acks) : acks' = SubSeq(acks, k + 1, Len(acks))
    /\ \/ UNCHANGED data
       \/ acks' = <<>> /\ data' = Nothing
       \/ acks' = <<>> /\ data.part = "header" /\ data' = [data EXCEPT !.part = "image"]

CameraReady ==
    /\ ~ready /\ ready' = TRUE
    /\ UNCHANGED <<camera, pc, cmd, left, snapped, result, turn, faults, deceived>>

-----------------------------------------------------------------------------
(* The driver.                                                             *)

Turn(c) == cmd' = c /\ left' = Tries[c]

\* setupCamera and takePicture go through their commands in order, whatever
\* became of the one before.
After(c) ==
    CASE c = "sync"     -> pc' = "send" /\ Turn("init")
      [] c = "init"     -> pc' = "send" /\ Turn("quality")
      [] c = "quality"  -> pc' = "up" /\ UNCHANGED <<cmd, left>>
      [] c = "snapshot" -> pc' = "send" /\ Turn("getPicture")
      [] OTHER          -> pc' = "done" /\ UNCHANGED <<cmd, left>>

takePicture ==
    /\ pc \in {"up", "done"} /\ turn < MaxCalls
    /\ turn' = turn + 1 /\ snapped' = FALSE /\ size' = Unknown
    /\ pc' = "send" /\ Turn("snapshot")
    /\ UNCHANGED <<camera, ready, image, faults, deceived>>

\* Mutant: every try is the last but one.
Endless(n) == n

\* SPISend of the command.  The camera may be busy with it for a while.
Count(n) == n - 1
Send ==
    /\ pc = "send" /\ ready
    /\ Gets(cmd)
    /\ ready' \in BOOLEAN
    /\ left' = Count(left) /\ pc' = "receive"
    /\ UNCHANGED <<cmd, snapped, result, turn, deceived>>

\* Mutant: isAck compares the first three bytes only.
AnyPacket(resp, c) == resp # Junk

\* isAck: the answer is the acknowledgement of this command.  It takes any
\* fourth byte but that of a NAK; of the packets of a camera only an
\* acknowledgement has the command in the fifth byte and zeros in the last two.
isAck(resp, c) == resp = c

\* Mutant: the last try is not the last.
OneTooMany == left < 0

GivesUp == left = 0
Again ==
    IF GivesUp THEN After(cmd)
    ELSE pc' = "send" /\ UNCHANGED <<cmd, left>>

\* What passes a check without being what the camera sent.
Deceives(resp, passed) == deceived' = (deceived \/ (passed /\ resp # Packet))

\* SPIReceive of the answer.
Receive ==
    /\ pc = "receive" /\ ready
    /\ \E resp \in Packets :
        /\ Sends(resp)
        /\ Deceives(resp, isAck(resp, cmd))
        /\ snapped' = (snapped \/ (cmd = "snapshot" /\ isAck(resp, cmd) /\ resp = Packet))
        /\ CASE ~isAck(resp, cmd) -> Again
             [] isAck(resp, cmd) /\ cmd \in {"sync", "getPicture"} ->
                    pc' = "second" /\ UNCHANGED <<cmd, left>>
             [] isAck(resp, cmd) /\ cmd = "quality" ->
                    pc' = "acknowledge" /\ UNCHANGED <<cmd, left>>
             [] OTHER -> After(cmd)
    /\ UNCHANGED <<st, shot, ready, result, turn>>

\* Mutant: a wrong header ends the loop.
LeavesLoop == After(cmd)
\* Mutant: the header is not looked at.
AnyHeader(resp) == TRUE

\* SPIReceive of what follows the acknowledgement.  sendSync goes on whatever
\* comes; a wrong header makes getPic send getPicture again.  Only the first
\* four bytes of a header are looked at, the size is in the last three.
WrongHeader == Again
GoodHeader(resp) == resp \in {"header", Misread}
Second ==
    /\ pc = "second" /\ ready
    /\ \E resp \in Packets :
        /\ Sends(resp)
        /\ Deceives(resp, cmd = "getPicture" /\ GoodHeader(resp))
        /\ CASE cmd = "sync" -> pc' = "acknowledge" /\ UNCHANGED <<cmd, left, size>>
             [] cmd = "getPicture" /\ GoodHeader(resp) ->
                    /\ pc' = "picture" /\ UNCHANGED <<cmd, left>>
                    /\ size' = IF resp = Packet THEN data.pic ELSE Wrong
             [] OTHER -> WrongHeader /\ UNCHANGED size
    /\ UNCHANGED <<st, shot, ready, snapped, image, turn>>

\* SPISend of acksync and of ackimgqual, to which no answer is awaited.
Acknowledge ==
    /\ pc = "acknowledge" /\ ready
    /\ IF cmd = "sync" /\ st = "woken"
       THEN \/ st' = "synced" /\ Fine
            \/ UNCHANGED st /\ Fault("lost")
       ELSE UNCHANGED st /\ Fine
    /\ After(cmd)
    /\ UNCHANGED <<shot, acks, data, ready, snapped, result, turn, deceived>>

\* SPIReceive of as many bytes as the header says.  With a damaged size these
\* are too many or too few, and more than there is of memory behind the buffer
\* is a data abort, from which nothing returns.
Sent == IF acks = <<>> /\ data.part = "image" THEN data.pic ELSE Unknown
Picture ==
    /\ pc = "picture" /\ ready
    /\ \/ /\ size # Wrong
          /\ image' = Sent /\ data' = Nothing /\ UNCHANGED acks
          /\ After(cmd)
       \/ /\ size = Wrong
          /\ image' \in {image, Sent, Unknown} /\ Drains
          /\ \/ After(cmd)
             \/ pc' = "abort" /\ UNCHANGED <<cmd, left>>
    /\ UNCHANGED <<st, shot, ready, snapped, size, turn, faults, deceived>>

Driver == Send \/ Receive \/ Second \/ Acknowledge \/ Picture

Next == takePicture \/ Driver \/ CameraReady
Spec == Init /\ [][Next]_vars

\* The processor runs on.  That the camera becomes ready again is its own
\* affair: no count and no timer bounds the loops on the pin.
FairSpec == Spec /\ WF_vars(Driver) /\ WF_vars(CameraReady)

-----------------------------------------------------------------------------
(* Properties.                                                             *)

\* Every variable keeps its type: no loop makes more attempts than it should,
\* and the camera owes no more acknowledgements than were lost to the driver.
TypeOK ==
    /\ st \in States /\ shot \in Pictures
    /\ acks \in Seq(Commands \cup {"NAK"}) /\ data \in Data
    /\ ready \in BOOLEAN
    /\ pc \in Pcs /\ cmd \in Commands /\ left \in 0 .. Tries[cmd]
    /\ snapped \in BOOLEAN
    /\ image \in Pictures \cup {Unknown} /\ size \in Pictures \cup {Unknown, Wrong}
    /\ turn \in Pictures
    /\ faults \in 0 .. MaxFaults /\ deceived \in BOOLEAN

\* getPic sends getPicture again after a wrong header, although the camera may
\* have begun to send the picture, and an answer that came late may be taken
\* for the header: unless the header itself was damaged where nobody looks, in
\* its size bytes, the size getPic returns is that of the picture in the buffer.
PictureWhole == pc = "done" /\ size \in Pictures => image = size

\* getSnapshot does not report whether it was acknowledged, and late answers
\* may still be there for the commands after it: when the camera has
\* acknowledged the snapshot and getPic returns the size of a picture, it is
\* the one of this call, never the one before.
PictureFresh == pc = "done" /\ size \in Pictures /\ snapped => size = turn

\* With a camera that is set up, takePicture delivers the new picture as long
\* as less goes wrong than it has tries, and no damaged bytes happen to pass
\* for the acknowledgement or the header that is expected: isAck leaves two
\* bytes of an answer unchecked, getPic four of a header.
RetriesSuffice ==
    /\ pc = "done" /\ st = "set" /\ ~deceived
    /\ faults < Tries["snapshot"] /\ faults < Tries["getPicture"]
    => size = turn /\ image = turn

\* If the ready pin comes back each time, setupCamera and takePicture return,
\* however deaf the camera is; only a damaged size may stop the program.
CameraReturns == pc = "send" ~> pc \in {"up", "done"} \/ (pc = "abort" /\ size = Wrong)

=============================================================================
