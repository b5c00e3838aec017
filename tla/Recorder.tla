------------------------------ MODULE Recorder ------------------------------
(***************************************************************************)
(* The application: main() of UAC_MAIN.c with the file wrappers of FAT.c,  *)
(* running against the push-button interrupt handler EINT3_Handler of      *)
(* extint.c.                                                               *)
(*                                                                         *)
(* The main program and the interrupt handler share three plain ints:      *)
(* takeSnapshot, startRecording and stopRecording.  An interrupt may come  *)
(* between any two reads or writes of them; while the handler runs - and   *)
(* it busy-waits until the button is released - main() is frozen.          *)
(*                                                                         *)
(* FatFs is seen through its API.  A call either does what it promises or, *)
(* for the kinds of failure listed in Faults, ends as ff.c lets a failed   *)
(* call end; every result is ignored, exactly as FAT.c ignores it.  The    *)
(* camera is seen through getSnapshot()/getPic(): it delivers a new image, *)
(* its size bytes are damaged on the way, or the retries run out and an    *)
(* uninitialised size comes back.                                          *)
(***************************************************************************)
EXTENDS Integers, Sequences

CONSTANTS
    Chunk,       \* bytes of one f_write of image data (512 in FAT.c)
    ImageSizes,  \* sizes of the camera's images
    Leftovers,   \* sizes main() may get when getPic() goes wrong: any int
    Ram,         \* bytes from the image buffer to the end of the memory
    Faults,      \* kinds of failure that may happen, see FaultKinds
    MaxPresses,  \* bound: falling edges of all buttons together
    MaxFrames    \* bound: images of one recording

FaultKinds == {"unlink", "open", "write", "full", "close", "camera"}

ASSUME ChunkAssumption   == Chunk \in Nat \ {0}
ASSUME RamAssumption     == Ram \in Nat
ASSUME SizesAssumption   == ImageSizes \subseteq 1 .. Ram /\ ImageSizes # {}
ASSUME LeftoverAssumption == Leftovers \subseteq Int
ASSUME FaultsAssumption  == Faults \subseteq FaultKinds
ASSUME BoundsAssumption  == MaxPresses \in Nat /\ MaxFrames \in Nat

Buttons == {"snap", "start", "stop"}            \* P0.6, P0.7, P0.8
Names   == {"snapshot.jpg", "size.bin", "video.bin"}
NoName  == "none"

VARIABLES
    pc,              \* where main() is
    takeSnapshot,    \* the three flags of UAC_MAIN.c, 0 or 1
    startRecording,
    stopRecording,
    pins,            \* pins[b] is 0 while button b is held down
    pend,            \* the GPIO interrupt is latched
    isr,             \* where EINT3_Handler is, "idle" when it does not run
    sampled,         \* d0, d1, d2 of EINT3_Handler
    presses,         \* falling edges so far
    file1, file2,    \* the two FIL objects of FAT.c
    volume,          \* what is on the card: name -> file
    session,         \* number of SDOpenSnapshot/SDOpenVideo calls so far
    frames,          \* images taken in this session
    image,           \* the image getPic() received last: session, number
    size,            \* the local variable size of main()
    left             \* size in writeToSDCard's loop, what is still to write

flags   == <<takeSnapshot, startRecording, stopRecording>>
buttons == <<pins, pend, presses>>
handler == <<isr, sampled>>
files   == <<file1, file2, volume>>
frame   == <<session, frames, image, size, left>>
vars    == <<pc, flags, buttons, handler, files, frame>>

\* The calls of a snapshot and of a recording, in program order.
SnapPc == {"snapUnlink", "snapOpen", "snapGet", "snapSize", "snapData",
           "snapClose1", "snapClose2", "snapDone"}
RecPc  == {"recUnlink1", "recUnlink2", "recOpen1", "recOpen2", "recTest",
           "recGet", "recSize", "recData", "recClose1", "recClose2",
           "recDone1", "recDone2"}
MainPc == {"init", "arm", "mount", "snap?", "rec?", "stop?1", "stop?2",
           "stop0", "abort"} \cup SnapPc \cup RecPc
IsrPc  == {"idle", "sample", "snap", "snapHeld", "start", "startHeld", "stop",
           "stopHeld"}

\* One f_write that reached a file: the session it was made in, the image at
\* the beginning of the buffer, the size main() had for it, the bytes written.
Record  == [ses : Nat, img : Nat \X Nat, of : Int, len : Nat]
File    == [present : BOOLEAN, data : Seq(Record)]
Handle  == [fs : BOOLEAN, err : BOOLEAN, name : Names \cup {NoName}]

Gone    == [present |-> FALSE, data |-> <<>>]
Closed  == [fs |-> FALSE, err |-> FALSE, name |-> NoName]

TypeOK ==
    /\ pc \in MainPc
    /\ takeSnapshot \in {0, 1}
    /\ startRecording \in {0, 1}
    /\ stopRecording \in {0, 1}
    /\ pins \in [Buttons -> {0, 1}]
    /\ pend \in BOOLEAN
    /\ isr \in IsrPc
    /\ sampled \in [Buttons -> {0, 1}]
    /\ presses \in Nat
    /\ file1 \in Handle
    /\ file2 \in Handle
    /\ volume \in [Names -> File]
    /\ session \in Nat
    /\ frames \in Nat
    /\ image \in Nat \X Nat
    /\ size \in Int
    /\ left \in Int

Init ==
    /\ pc = "init"
    /\ takeSnapshot = 0 /\ startRecording = 0 /\ stopRecording = 0
    /\ pins = [b \in Buttons |-> 1]
    /\ pend = FALSE
    /\ isr = "idle"
    /\ sampled = [b \in Buttons |-> 1]
    /\ presses = 0
    /\ file1 = Closed /\ file2 = Closed
    /\ volume = [n \in Names |-> Gone]
    /\ session = 0 /\ frames = 0
    /\ image = <<0, 0>>
    /\ size = 0 /\ left = 0

-----------------------------------------------------------------------------
(* The FatFs calls.  Each names the outcomes of one call on one name or    *)
(* file object; a call whose fault kind is not in Faults only succeeds.    *)

\* f_unlink: a failed call returns before the entry is marked deleted, or
\* after it (remove_chain or sync failed), so the name may be gone or not.
f_unlink(n) ==
    \/ volume' = [volume EXCEPT ![n] = Gone]
    \/ "unlink" \in Faults /\ UNCHANGED volume

\* f_open(.., 7) = READ|WRITE|CREATE_NEW: FR_EXIST when the name is there.
\* The file object is invalidated before anything else can fail.
CanCreate(n) == ~volume[n].present

KeepHandle(f) == f                              \* mutant: not invalidated
Invalidate(f) == [f EXCEPT !.fs = FALSE]

f_open(f, n, f2, vol) ==
    \/ /\ CanCreate(n)
       /\ f2 = [fs |-> TRUE, err |-> FALSE, name |-> n]
       /\ vol = [volume EXCEPT ![n] = [present |-> TRUE, data |-> <<>>]]
    \/ /\ CanCreate(n) => "open" \in Faults
       /\ f2 = Invalidate(f)
       /\ vol = volume

\* f_write of len bytes: rejected on an invalid object or after an earlier
\* error; an error sets FA__ERROR and leaves the file size as it was; a full
\* disk stores a prefix and still returns FR_OK.
Appended(n, len) ==
    IF len = 0 THEN volume
    ELSE [volume EXCEPT ![n].data = Append(@,
             [ses |-> session, img |-> image, of |-> size, len |-> len])]

FileSize(n) ==
    LET data == volume[n].data
        sum[k \in 0 .. Len(data)] ==
            IF k = 0 THEN 0 ELSE sum[k - 1] + data[k].len
    IN  sum[Len(data)]

\* The length is unsigned for f_write, so a negative one is close to 4 GB: the
\* call does nothing when the size of the file would wrap.
Writable(f)   == f.fs /\ ~f.err
Takes(f, len) == Writable(f) /\ (len < 0 => FileSize(f.name) < -len)

\* mem is the memory there is from the caller's data on.  Past its end is a
\* data abort, from which nothing returns (crt0.S); a card that fails or is
\* full before that ends the call in time.
Overruns(f, len, mem) == Takes(f, len) /\ ~(0 =< len /\ len =< mem)

f_write(f, len, mem, f2, vol) ==
    \/ ~Takes(f, len) /\ f2 = f /\ vol = volume
    \/ /\ Takes(f, len) /\ 0 =< len /\ len =< mem
       /\ f2 = f /\ vol = Appended(f.name, len)
    \/ /\ Takes(f, len) /\ "write" \in Faults
       /\ f2 = [f EXCEPT !.err = TRUE] /\ vol = volume
    \/ /\ Takes(f, len) /\ "full" \in Faults
       /\ \E k \in 0 .. mem : (len > 0 => k < len) /\ vol = Appended(f.name, k)
       /\ f2 = f

\* f_close: the object is invalidated only when f_sync succeeded.
f_close(f, f2) ==
    \/ f2 = Invalidate(f)
    \/ f.fs /\ "close" \in Faults /\ f2 = f

-----------------------------------------------------------------------------
(* main(): one action per call or per access to a flag.  main() only runs  *)
(* while the handler does not.                                             *)

At(l)   == isr = "idle" /\ pc = l
Goto(l) == pc' = l

\* IoInit: the interrupt is armed by EINTInit (edges are latched from here
\* on) and taken from enable_interrupt() on; then the card is mounted.
IoInit ==
    /\ \/ At("init")  /\ Goto("arm")       \* SPIInit .. EINTInit
       \/ At("arm")   /\ Goto("mount")     \* SRAMInit, enable_interrupt
       \/ At("mount") /\ Goto("snap?")     \* initSDCard
    /\ UNCHANGED <<flags, buttons, handler, files, frame>>

SnapshotWantedIdle == takeSnapshot # 0 /\ startRecording = 0 \* mutant
SnapshotWanted == takeSnapshot # 0

TestSnapshot ==
    /\ At("snap?")
    /\ IF SnapshotWanted THEN Goto("snapUnlink") ELSE Goto("rec?")
    /\ UNCHANGED <<flags, buttons, handler, files, frame>>

\* A session starts with the first call of SDOpenSnapshot or SDOpenVideo.
NewSession ==
    /\ session' = session + 1
    /\ frames' = 0
    /\ UNCHANGED <<image, size, left>>

SDOpenSnapshot ==
    \/ /\ At("snapUnlink") /\ Goto("snapOpen")
       /\ f_unlink("snapshot.jpg")
       /\ NewSession
       /\ UNCHANGED <<flags, buttons, handler, file1, file2>>
    \/ /\ At("snapOpen") /\ Goto("snapGet")
       /\ f_open(file2, "snapshot.jpg", file2', volume')
       /\ UNCHANGED <<flags, buttons, handler, file1, frame>>

SDOpenVideo ==
    \/ /\ At("recUnlink1") /\ Goto("recUnlink2")
       /\ f_unlink("size.bin")
       /\ NewSession
       /\ UNCHANGED <<flags, buttons, handler, file1, file2>>
    \/ /\ At("recUnlink2") /\ Goto("recOpen1")
       /\ f_unlink("video.bin")
       /\ UNCHANGED <<flags, buttons, handler, file1, file2, frame>>
    \/ /\ At("recOpen1") /\ Goto("recOpen2")
       /\ f_open(file1, "size.bin", file1', volume')
       /\ UNCHANGED <<flags, buttons, handler, file2, frame>>
    \/ /\ At("recOpen2") /\ Goto("recTest")
       /\ f_open(file2, "video.bin", file2', volume')
       /\ UNCHANGED <<flags, buttons, handler, file1, frame>>

\* getSnapshot(); size = getPic(): the new image replaces the one in the
\* buffer.  The size bytes that come before it are not checked, so a damaged
\* one is a wrong number of bytes to receive, and past the memory with more
\* than it holds.  When the tries run out nothing is received and the size is
\* an int that was never assigned.
AfterPicture == IF pc = "snapGet" THEN "snapSize" ELSE "recSize"

TakePicture ==
    /\ At("snapGet") \/ At("recGet")
    /\ frames' = frames + 1
    /\ \/ /\ size' \in ImageSizes /\ image' = <<session, frames + 1>>
          /\ Goto(AfterPicture)
       \/ /\ "camera" \in Faults /\ size' \in {s \in Leftovers : s > 0}
          /\ image' = <<session, frames + 1>>
          /\ Goto(IF size' > Ram THEN "abort" ELSE AfterPicture)
       \/ /\ "camera" \in Faults /\ size' \in Leftovers /\ UNCHANGED image
          /\ Goto(AfterPicture)
    /\ UNCHANGED <<flags, buttons, handler, files, session, left>>

\* writeToSDCard: the size goes to file1, the image in chunks to file2.
SizeOfInt == 4
LastChunkRounded == left % Chunk                \* mutant: full last chunk lost
LastChunk == left

WriteSize ==
    /\ \/ At("snapSize") /\ Goto("snapData")
       \/ At("recSize")  /\ Goto("recData")
    /\ f_write(file1, SizeOfInt, SizeOfInt, file1', volume')
    /\ left' = size
    /\ UNCHANGED <<flags, buttons, handler, file2, session, frames, image, size>>

ChunkLen == IF left > Chunk THEN Chunk ELSE LastChunk
Behind   == Ram - (size - left)                 \* the memory from data on

WriteData ==
    \/ /\ \/ At("snapData") /\ Goto(IF left > Chunk THEN pc ELSE "snapClose1")
          \/ At("recData")  /\ Goto(IF left > Chunk THEN pc ELSE "recTest")
       /\ f_write(file2, ChunkLen, Behind, file2', volume')
       /\ left' = IF left > Chunk THEN left - Chunk ELSE left
       /\ UNCHANGED <<flags, buttons, handler, file1, session, frames, image, size>>
    \/ /\ At("snapData") \/ At("recData")
       /\ Overruns(file2, ChunkLen, Behind) /\ Goto("abort")
       /\ UNCHANGED <<flags, buttons, handler, files, frame>>

\* __dabt: b .   The exception has disabled the interrupts.
Aborted == At("abort") /\ UNCHANGED vars

closeFile ==
    \/ /\ \/ At("snapClose1") /\ Goto("snapClose2")
          \/ At("recClose1")  /\ Goto("recClose2")
       /\ f_close(file1, file1')
       /\ UNCHANGED <<flags, buttons, handler, file2, volume, frame>>
    \/ /\ \/ At("snapClose2") /\ Goto("snapDone")
          \/ At("recClose2")  /\ Goto("recDone1")
       /\ f_close(file2, file2')
       /\ UNCHANGED <<flags, buttons, handler, file1, volume, frame>>

SnapshotDone ==
    /\ At("snapDone") /\ Goto("rec?")
    /\ takeSnapshot' = 0
    /\ UNCHANGED <<startRecording, stopRecording, buttons, handler, files, frame>>

RecordingWantedNoStop == startRecording # 0 /\ stopRecording = 0 \* mutant
RecordingWanted == startRecording # 0

TestRecording ==
    /\ At("rec?")
    /\ IF RecordingWanted THEN Goto("recUnlink1") ELSE Goto("stop?1")
    /\ UNCHANGED <<flags, buttons, handler, files, frame>>

\* while (stopRecording != 1): once MaxFrames images are stored the loop goes
\* round without storing more, so that the bound never keeps it from stopping.
StopSeenOnce == stopRecording = 1 /\ frames = 0  \* mutant: the test is hoisted
StopSeen == stopRecording = 1

TestStop ==
    /\ At("recTest")
    /\ \/ ~StopSeen /\ Goto(IF frames < MaxFrames THEN "recGet" ELSE "recTest")
       \/ StopSeen  /\ Goto("recClose1")
    /\ UNCHANGED <<flags, buttons, handler, files, frame>>

RecordingDone ==
    \/ /\ At("recDone1") /\ Goto("recDone2")
       /\ startRecording' = 0
       /\ UNCHANGED <<takeSnapshot, stopRecording, buttons, handler, files, frame>>
    \/ /\ At("recDone2") /\ Goto("stop?1")
       /\ stopRecording' = 0
       /\ UNCHANGED <<takeSnapshot, startRecording, buttons, handler, files, frame>>

\* if (startRecording==0 && stopRecording) stopRecording=0: two reads and a
\* write, with room for an interrupt in between.
DropStop ==
    \/ /\ \/ At("stop?1") /\ Goto(IF startRecording = 0 THEN "stop?2" ELSE "snap?")
          \/ At("stop?2") /\ Goto(IF stopRecording # 0 THEN "stop0" ELSE "snap?")
       /\ UNCHANGED <<flags, buttons, handler, files, frame>>
    \/ /\ At("stop0") /\ Goto("snap?")
       /\ stopRecording' = 0
       /\ UNCHANGED <<takeSnapshot, startRecording, buttons, handler, files, frame>>

Main ==
    \/ IoInit \/ TestSnapshot \/ SDOpenSnapshot \/ TakePicture \/ WriteSize
    \/ WriteData \/ closeFile \/ SnapshotDone \/ TestRecording
    \/ SDOpenVideo \/ TestStop \/ RecordingDone \/ DropStop \/ Aborted

-----------------------------------------------------------------------------
(* EINT3_Handler and the buttons.  The handler does not nest.              *)

InHandler(l) == isr = l
Leave(l)     == isr' = l

\* Interrupts are enabled once enable_interrupt() has run.  The latch is
\* cleared first and the pins are read after it, so an edge in between is
\* both sampled and latched again.
EnterHandler ==
    /\ InHandler("idle") /\ Leave("sample")
    /\ pend /\ pc \notin {"init", "arm", "abort"}
    /\ pend' = FALSE
    /\ UNCHANGED <<pc, flags, pins, presses, sampled, files, frame>>

SamplePins ==
    /\ InHandler("sample") /\ Leave("snap")
    /\ sampled' = pins
    /\ UNCHANGED <<pc, flags, buttons, files, frame>>

\* A button that was up when the pins were read is not looked at again, even
\* if it goes down while the handler waits for another one.
SkipButton ==
    /\ \/ InHandler("snap")  /\ sampled["snap"] = 1  /\ Leave("start")
       \/ InHandler("start") /\ sampled["start"] = 1 /\ Leave("stop")
       \/ InHandler("stop")  /\ sampled["stop"] = 1  /\ Leave("idle")
    /\ UNCHANGED <<pc, flags, buttons, sampled, files, frame>>

Counted(flag) == flag + 1                       \* mutant: presses are counted
Raised(flag)  == 1

SetFlag ==
    /\ \/ /\ InHandler("snap") /\ sampled["snap"] = 0 /\ Leave("snapHeld")
          /\ takeSnapshot' = Raised(takeSnapshot)
          /\ UNCHANGED <<startRecording, stopRecording>>
       \/ /\ InHandler("start") /\ sampled["start"] = 0 /\ Leave("startHeld")
          /\ startRecording' = Raised(startRecording)
          /\ UNCHANGED <<takeSnapshot, stopRecording>>
       \/ /\ InHandler("stop") /\ sampled["stop"] = 0 /\ Leave("stopHeld")
          /\ stopRecording' = Raised(stopRecording)
          /\ UNCHANGED <<takeSnapshot, startRecording>>
    /\ UNCHANGED <<pc, buttons, sampled, files, frame>>

\* while (!d) d = the pin
AwaitRelease ==
    /\ \/ InHandler("snapHeld")  /\ pins["snap"] = 1  /\ Leave("start")
       \/ InHandler("startHeld") /\ pins["start"] = 1 /\ Leave("stop")
       \/ InHandler("stopHeld")  /\ pins["stop"] = 1  /\ Leave("idle")
    /\ UNCHANGED <<pc, flags, buttons, sampled, files, frame>>

Handler == EnterHandler \/ SamplePins \/ SkipButton \/ SetFlag \/ AwaitRelease

Press(b) ==
    /\ pins[b] = 1 /\ presses < MaxPresses
    /\ pins' = [pins EXCEPT ![b] = 0]
    /\ presses' = presses + 1
    /\ pend' = (pend \/ pc # "init")
    /\ UNCHANGED <<pc, flags, handler, files, frame>>

Release(b) ==
    /\ pins[b] = 0
    /\ pins' = [pins EXCEPT ![b] = 1]
    /\ UNCHANGED <<pc, flags, pend, presses, handler, files, frame>>

User == \E b \in Buttons : Press(b) \/ Release(b)

Next == Main \/ Handler \/ User

Spec == Init /\ [][Next]_vars

\* The processor never stops, and a button that is down is released some
\* time.  Nobody has to press anything.
FairSpec ==
    /\ Spec
    /\ WF_vars(Main) /\ WF_vars(Handler)
    /\ \A b \in Buttons : WF_vars(Release(b))

-----------------------------------------------------------------------------
(* Correctness.                                                            *)

\* An image file holds what was written in one session, whatever call fails:
\* f_open invalidates the file object first, so after a failed f_unlink or
\* f_open the writes of the session are rejected instead of being appended to
\* what an earlier session left (FAT.c ignores every result).  Not all of it
\* need be pictures of that session: after a failed getPic() main() writes
\* what the buffer still holds.  But once a picture of the session is in the
\* file, every write after it starts with a picture of the session as well.
ImagesKeepTheirSession ==
    \A n \in {"snapshot.jpg", "video.bin"} :
        LET data == volume[n].data
        IN  \A i, j \in DOMAIN data :
                /\ data[i].ses = data[j].ses
                /\ (i < j /\ data[i].img[1] = data[i].ses) =>
                       data[j].img[1] = data[j].ses

\* While an image is written, no file object still refers to a name that has
\* been unlinked: its clusters may belong to another file by then.  A file
\* object stays valid after a failed f_close, and SDOpenVideo unlinks the very
\* names such an object refers to.
NoWriteToDeleted ==
    pc \in {"snapSize", "snapData", "recSize", "recData"} =>
        \A f \in {file1, file2} : f.fs => volume[f.name].present

\* Why both hold: file1 is never anything but size.bin and survives a failed
\* f_close only with its file on the card, and from the f_open of a session to
\* its last f_close a valid file2 is the image file of this very session, and
\* with a picture of this session in it the buffer holds one too.
SnapOpenPc == {"snapGet", "snapSize", "snapData", "snapClose1", "snapClose2"}
RecOpenPc  == {"recTest", "recGet", "recSize", "recData", "recClose1", "recClose2"}

Fresh(f, n) ==
    f.fs => /\ f.name = n
            /\ volume[n].present
            /\ \A i \in DOMAIN volume[n].data :
                   /\ volume[n].data[i].ses = session
                   /\ volume[n].data[i].img[1] = session => image[1] = session

HandlesFresh ==
    /\ file1.fs => file1.name = "size.bin"
    /\ (file1.fs /\ pc \notin {"recUnlink2", "recOpen1"}) =>
           volume["size.bin"].present
    /\ pc \in SnapOpenPc => Fresh(file2, "snapshot.jpg")
    /\ pc \in RecOpenPc => Fresh(file2, "video.bin")

\* A snapshot leaves the last recording alone.  writeToSDCard writes the size
\* to file1, which SDOpenSnapshot does not open: unless an f_close of size.bin
\* failed before, that write goes nowhere.
SnapshotKeepsRecording ==
    [][(pc \in SnapPc) =>
           /\ volume'["video.bin"] = volume["video.bin"]
           /\ ~file1.fs => volume'["size.bin"] = volume["size.bin"]]_vars

\* Bytes of a file, and of video.bin, that belong to image img.
BytesOf(img, data) ==
    LET sum[k \in 0 .. Len(data)] ==
            IF k = 0 THEN 0
            ELSE sum[k - 1] + (IF data[k].img = img THEN data[k].len ELSE 0)
    IN  sum[Len(data)]

Stored(img) == BytesOf(img, volume["video.bin"].data)

\* When no call fails, size.bin lists the images of video.bin: one entry per
\* image, in order, and as many bytes in video.bin as the entry says.  Between
\* the two unlinks and in the middle of an image the files may disagree.
SizesMatchVideo ==
    pc \notin {"recUnlink2", "recData"} =>
        LET sizes == volume["size.bin"].data
            video == volume["video.bin"].data
        IN  /\ \A i \in DOMAIN sizes : Stored(sizes[i].img) = sizes[i].of
            /\ \A j \in DOMAIN video : \E i \in DOMAIN sizes :
                   sizes[i].img = video[j].img
            /\ \A i, j \in DOMAIN sizes :
                   i < j => sizes[i].img[2] < sizes[j].img[2]

\* Pressing stop during a recording ends it: main() sees the flag that the
\* handler set between two of its instructions, closes both files and leaves.
StopEndsRecording == (pc \in RecPc /\ stopRecording = 1) ~> (pc = "recDone2")

\* A snapshot asked for while main() is at the head of its loop is taken, and
\* one asked for during a recording is taken once the recording is stopped.
SnapshotServed ==
    /\ (takeSnapshot = 1 /\ pc = "snap?") ~> (pc = "snapDone")
    /\ (takeSnapshot = 1 /\ pc \in RecPc /\ stopRecording = 1) ~> (pc = "snapDone")

\* A recording asked for while none is in progress gets its files opened and
\* its loop entered, even if the stop button was pressed before.
StartServed == (startRecording = 1 /\ pc \notin RecPc) ~> (pc = "recTest")
=============================================================================
