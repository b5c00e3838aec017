--------------------------- MODULE RecorderProofs ---------------------------
(***************************************************************************)
(* Proofs about the application, for every chunk size, every set of image  *)
(* sizes and of sizes nobody assigned, every amount of memory, every       *)
(* combination of failing calls and without a bound on the presses or the  *)
(* images of a recording.                                                  *)
(***************************************************************************)
EXTENDS Recorder, WellFoundedInduction, TLAPS

\* An f_write that reaches a file keeps the volume well formed.
LEMMA AppendedType ==
    ASSUME TypeOK, NEW n, NEW len \in Nat
    PROVE  Appended(n, len) \in [Names -> File]
<1> DEFINE r == [ses |-> session, img |-> image, of |-> size, len |-> len]
<1>1. r \in Record
  BY DEF TypeOK, Record
<1>2. ASSUME NEW m \in Names
      PROVE  [volume[m] EXCEPT !.data = Append(@, r)] \in File
  <2>1. volume[m] \in File
    BY DEF TypeOK
  <2>2. Append(volume[m].data, r) \in Seq(Record)
    BY <1>1, <2>1 DEF File
  <2> QED
    BY <2>1, <2>2 DEF File
<1>3. [volume EXCEPT ![n].data = Append(@, r)] \in [Names -> File]
  <2> HIDE DEF r
  <2> QED
    BY <1>2 DEF TypeOK
<1> QED
  BY <1>3 DEF Appended, TypeOK

\* One f_write call keeps the file object and the volume well formed.
LEMMA WriteType ==
    ASSUME TypeOK, NEW f \in Handle, NEW len \in Int, NEW mem \in Int, NEW g, NEW v,
           f_write(f, len, mem, g, v)
    PROVE  g \in Handle /\ v \in [Names -> File]
<1>1. [f EXCEPT !.err = TRUE] \in Handle
  BY DEF Handle
<1>2. \A k \in Nat : Appended(f.name, k) \in [Names -> File]
  BY AppendedType
<1>3. 0 .. mem \subseteq Nat /\ (0 =< len => len \in Nat)
  OBVIOUS
<1> QED
  BY <1>1, <1>2, <1>3 DEF f_write, TypeOK

\* The length and the memory of a chunk are integers.
LEMMA ChunkType ==
    ASSUME TypeOK
    PROVE  ChunkLen \in Int /\ Behind \in Int
<1>1. Chunk \in Int /\ Ram \in Int /\ size \in Int /\ left \in Int
  BY ChunkAssumption, RamAssumption DEF TypeOK
<1> QED
  BY <1>1 DEF ChunkLen, Behind, LastChunk

\* One f_open call keeps the file object and the volume well formed.
LEMMA OpenType ==
    ASSUME TypeOK, NEW f \in Handle, NEW n \in Names, NEW g, NEW v,
           f_open(f, n, g, v)
    PROVE  g \in Handle /\ v \in [Names -> File]
<1>1. [fs |-> TRUE, err |-> FALSE, name |-> n] \in Handle
  BY DEF Handle
<1>2. Invalidate(f) \in Handle
  BY DEF Invalidate, Handle
<1>3. [present |-> TRUE, data |-> <<>>] \in File
  BY DEF File
<1> QED
  BY <1>1, <1>2, <1>3 DEF f_open, TypeOK

\* One f_unlink call keeps the volume well formed.
LEMMA UnlinkType ==
    ASSUME TypeOK, NEW n \in Names, f_unlink(n)
    PROVE  volume' \in [Names -> File]
<1>1. Gone \in File
  BY DEF Gone, File
<1> QED
  BY <1>1 DEF f_unlink, TypeOK

\* One f_close call keeps the file object well formed.
LEMMA CloseType ==
    ASSUME NEW f \in Handle, NEW g, f_close(f, g)
    PROVE  g \in Handle
BY DEF f_close, Invalidate, Handle

\* The variables of the application stay within their types: in particular
\* the flags, written by main() and by the handler, are never anything but 0
\* and 1, which while (stopRecording != 1) relies on.
THEOREM TypeCorrect == Spec => []TypeOK
<1>1. Init => TypeOK
  <2>1. Closed \in Handle /\ Gone \in File
    BY DEF Closed, Handle, Gone, File
  <2>2. SUFFICES ASSUME Init PROVE TypeOK
    OBVIOUS
  <2>3. pins \in [Buttons -> {0, 1}] /\ sampled \in [Buttons -> {0, 1}]
    BY <2>2 DEF Init
  <2>4. volume \in [Names -> File]
    BY <2>1, <2>2 DEF Init
  <2>5. pc \in MainPc /\ isr \in IsrPc
    BY <2>2 DEF Init, MainPc, IsrPc
  <2>6. size \in Int /\ left \in Int /\ image \in Nat \X Nat
    BY <2>2 DEF Init
  <2> QED
    BY <2>1, <2>2, <2>3, <2>4, <2>5, <2>6 DEF Init, TypeOK
<1>2. TypeOK /\ [Next]_vars => TypeOK'
  <2> SUFFICES ASSUME TypeOK, [Next]_vars PROVE TypeOK'
    OBVIOUS
  <2> USE DEF flags, buttons, handler, files, frame, At, Goto, MainPc, SnapPc, RecPc
  <2>1. CASE IoInit
    BY <2>1 DEF IoInit, TypeOK
  <2>2. CASE TestSnapshot
    BY <2>2 DEF TestSnapshot, TypeOK
  <2>3. CASE SDOpenSnapshot
    <3>1. volume' \in [Names -> File] /\ file2' \in Handle
      BY <2>3, UnlinkType, OpenType DEF SDOpenSnapshot, TypeOK, Names
    <3> QED
      BY <2>3, <3>1 DEF SDOpenSnapshot, NewSession, TypeOK
  <2>4. CASE SDOpenVideo
    <3>1. volume' \in [Names -> File] /\ file1' \in Handle /\ file2' \in Handle
      BY <2>4, UnlinkType, OpenType DEF SDOpenVideo, TypeOK, Names
    <3> QED
      BY <2>4, <3>1 DEF SDOpenVideo, NewSession, TypeOK
  <2>5. CASE TakePicture
    <3>1. size' \in Int
      <4>1. size' \in ImageSizes \cup Leftovers
        BY <2>5 DEF TakePicture
      <4>2. ImageSizes \subseteq Int /\ Leftovers \subseteq Int
        BY SizesAssumption, LeftoverAssumption, RamAssumption
      <4> QED
        BY <4>1, <4>2
    <3>2. image' \in Nat \X Nat /\ frames' \in Nat
      BY <2>5 DEF TakePicture, TypeOK
    <3>3. pc' \in MainPc
      BY <2>5 DEF TakePicture, AfterPicture
    <3> QED
      BY <2>5, <3>1, <3>2, <3>3 DEF TakePicture, TypeOK
  <2>6. CASE WriteSize
    <3>1. volume' \in [Names -> File] /\ file1' \in Handle
      BY <2>6, WriteType DEF WriteSize, TypeOK, SizeOfInt
    <3> QED
      BY <2>6, <3>1 DEF WriteSize, TypeOK
  <2>7. CASE WriteData
    <3>1. volume' \in [Names -> File] /\ file2' \in Handle
      BY <2>7, ChunkType, WriteType DEF WriteData, TypeOK
    <3>2. left' \in Int
      BY <2>7, ChunkAssumption DEF WriteData, TypeOK
    <3> QED
      BY <2>7, <3>1, <3>2 DEF WriteData, TypeOK
  <2>8. CASE closeFile
    <3>1. file1' \in Handle /\ file2' \in Handle
      BY <2>8, CloseType DEF closeFile, TypeOK
    <3> QED
      BY <2>8, <3>1 DEF closeFile, TypeOK
  <2>9. CASE SnapshotDone
    BY <2>9 DEF SnapshotDone, TypeOK
  <2>10. CASE TestRecording
    BY <2>10 DEF TestRecording, TypeOK
  <2>11. CASE TestStop
    BY <2>11 DEF TestStop, TypeOK
  <2>12. CASE RecordingDone
    BY <2>12 DEF RecordingDone, TypeOK
  <2>13. CASE DropStop
    BY <2>13 DEF DropStop, TypeOK
  <2>14. CASE Handler
    BY <2>14 DEF Handler, EnterHandler, SamplePins, SkipButton, SetFlag,
                 AwaitRelease, InHandler, Leave, Raised, IsrPc, TypeOK
  <2>15. CASE User
    <3>1. CASE \E b \in Buttons : Press(b)
      <4>1. pins' \in [Buttons -> {0, 1}] /\ presses' \in Nat
        BY <3>1 DEF Press, TypeOK
      <4>2. pend' \in BOOLEAN
        BY <3>1 DEF Press
      <4> QED
        BY <3>1, <4>1, <4>2 DEF Press, TypeOK
    <3>2. CASE \E b \in Buttons : Release(b)
      <4>1. pins' \in [Buttons -> {0, 1}]
        BY <3>2 DEF Release, TypeOK
      <4> QED
        BY <3>2, <4>1 DEF Release, TypeOK
    <3> QED
      BY <2>15, <3>1, <3>2 DEF User
  <2>16. CASE UNCHANGED vars
    BY <2>16 DEF vars, TypeOK
  <2>17. CASE Aborted
    BY <2>16, <2>17 DEF Aborted
  <2> QED
    BY <2>1, <2>2, <2>3, <2>4, <2>5, <2>6, <2>7, <2>8, <2>9, <2>10, <2>11,
       <2>12, <2>13, <2>14, <2>15, <2>16, <2>17 DEF Next, Main
<1> QED
  BY <1>1, <1>2, PTL DEF Spec

-----------------------------------------------------------------------------
(* The files keep the images of one session, and nothing is written to a   *)
(* file that was deleted.                                                  *)

\* What one appended record does to the files.
LEMMA AppendedEffect ==
    ASSUME TypeOK, NEW n \in Names, NEW len \in Nat, NEW m \in Names
    PROVE  LET v == Appended(n, len)
           IN  /\ v[m].present = volume[m].present
               /\ m # n => v[m] = volume[m]
               /\ \A i \in DOMAIN v[m].data :
                     \/ i \in DOMAIN volume[m].data /\ v[m].data[i] = volume[m].data[i]
                     \/ /\ m = n
                        /\ v[m].data[i].ses = session /\ v[m].data[i].img = image
                        /\ \A j \in DOMAIN volume[m].data : j < i
<1> DEFINE r == [ses |-> session, img |-> image, of |-> size, len |-> len]
           w == [volume EXCEPT ![n].data = Append(@, r)]
<1>1. r \in Record /\ r.ses = session /\ r.img = image
  BY DEF TypeOK, Record
<1>2. volume \in [Names -> File]
  BY DEF TypeOK
<1> HIDE DEF r
<1>3. m # n => w[m] = volume[m]
  BY <1>2
<1>4. w[n] = [volume[n] EXCEPT !.data = Append(@, r)]
  BY <1>2
<1>5. volume[n] \in File
  BY <1>2
<1>6. w[n].present = volume[n].present /\ w[n].data = Append(volume[n].data, r)
  BY <1>4, <1>5 DEF File
<1>7. volume[n].data \in Seq(Record)
  BY <1>5 DEF File
<1>8. ASSUME NEW i \in DOMAIN Append(volume[n].data, r)
      PROVE  \/ i \in DOMAIN volume[n].data
                /\ Append(volume[n].data, r)[i] = volume[n].data[i]
             \/ /\ Append(volume[n].data, r)[i] = r
                /\ \A j \in DOMAIN volume[n].data : j < i
  BY <1>1, <1>7
<1> HIDE DEF w
<1>9. CASE len = 0
  BY <1>9 DEF Appended
<1>10. CASE len # 0
  <2>1. Appended(n, len) = w
    BY <1>10 DEF Appended, r, w
  <2>2. CASE m # n
    BY <2>1, <2>2, <1>3
  <2>3. CASE m = n
    BY <2>1, <2>3, <1>1, <1>6, <1>8
  <2> QED
    BY <2>2, <2>3
<1> QED
  BY <1>9, <1>10

\* What one f_write does: nothing happens to an invalid file object, and a
\* valid one stays valid, keeps its name and at most appends to its file.
LEMMA WriteEffect ==
    ASSUME TypeOK, NEW f \in Handle, NEW len \in Int, NEW mem \in Int, NEW g, NEW v,
           f_write(f, len, mem, g, v), f.fs => f.name \in Names
    PROVE  /\ g.fs = f.fs /\ g.name = f.name
           /\ ~f.fs => v = volume
           /\ \A m \in Names :
                /\ v[m].present = volume[m].present
                /\ m # f.name => v[m] = volume[m]
                /\ \A i \in DOMAIN v[m].data :
                      \/ i \in DOMAIN volume[m].data /\ v[m].data[i] = volume[m].data[i]
                      \/ /\ m = f.name
                         /\ v[m].data[i].ses = session /\ v[m].data[i].img = image
                         /\ \A j \in DOMAIN volume[m].data : j < i
<1>1. g.fs = f.fs /\ g.name = f.name
  BY DEF f_write, Handle
<1>2. ~f.fs => v = volume
  BY DEF f_write, Takes, Writable
<1>3. v = volume \/ (f.fs /\ \E k \in Nat : v = Appended(f.name, k))
  <2>1. 0 .. mem \subseteq Nat /\ (0 =< len => len \in Nat)
    OBVIOUS
  <2> QED
    BY <2>1 DEF f_write, Takes, Writable
<1>4. CASE v = volume
  BY <1>1, <1>4
<1>5. CASE f.fs /\ \E k \in Nat : v = Appended(f.name, k)
  <2>1. PICK k \in Nat : v = Appended(f.name, k)
    BY <1>5
  <2>2. f.name \in Names
    BY <1>5
  <2> QED
    BY <1>1, <1>2, <2>1, <2>2, AppendedEffect
<1> QED
  BY <1>3, <1>4, <1>5

\* The invariant that is inductive: the two properties and their reason.
Apart == ImagesKeepTheirSession /\ NoWriteToDeleted /\ HandlesFresh

\* The reason gives the second property.
LEMMA FreshMeansPresent == HandlesFresh => NoWriteToDeleted
BY DEF HandlesFresh, NoWriteToDeleted, Fresh, SnapOpenPc, RecOpenPc

\* A step that leaves the files and the session alone keeps the invariant, as
\* long as it does not enter the part of a session where file2 has to be fresh;
\* the buffer may get a picture of the session.
LEMMA QuietStep ==
    ASSUME Apart, UNCHANGED <<files, session>>,
           image' = image \/ image'[1] = session,
           pc' = pc \/ pc' \notin SnapOpenPc \cup RecOpenPc
                    \/ (pc \in SnapOpenPc /\ pc' \in SnapOpenPc)
                    \/ (pc \in RecOpenPc /\ pc' \in RecOpenPc),
           pc \in {"recUnlink2", "recOpen1"} => pc' = pc
    PROVE  Apart'
<1>1. UNCHANGED <<file1, file2, volume, session>>
  BY DEF files
<1>2. ImagesKeepTheirSession'
  BY <1>1 DEF Apart, ImagesKeepTheirSession
<1>3. HandlesFresh'
  <2>1. SnapOpenPc \cap RecOpenPc = {}
    BY DEF SnapOpenPc, RecOpenPc
  <2> QED
    BY <1>1, <2>1 DEF Apart, HandlesFresh, Fresh
<1>4. NoWriteToDeleted'
  BY <1>3 DEF HandlesFresh, NoWriteToDeleted, Fresh, SnapOpenPc, RecOpenPc
<1> QED
  BY <1>2, <1>3, <1>4 DEF Apart

\* A write of writeToSDCard to either file object keeps the invariant.
LEMMA WriteStep ==
    ASSUME TypeOK, Apart, TypeOK', WriteSize \/ WriteData, pc' # "abort"
    PROVE  Apart'
<1> USE DEF At, Goto
<1>1. PICK m \in {1, 2}, len \in Int, mem \in Int :
        LET f == IF m = 1 THEN file1 ELSE file2
            g == IF m = 1 THEN file1' ELSE file2'
        IN  /\ f_write(f, len, mem, g, volume')
            /\ m = 1 => file2' = file2
            /\ m = 2 => file1' = file1
  <2>1. CASE WriteSize
    BY <2>1 DEF WriteSize, SizeOfInt
  <2>2. CASE WriteData
    BY <2>2, ChunkType DEF WriteData
  <2> QED
    BY <2>1, <2>2
<1>2. UNCHANGED <<session, image>>
  BY DEF WriteSize, WriteData
<1>3. \/ pc \in SnapOpenPc /\ pc' \in SnapOpenPc
      \/ pc \in RecOpenPc /\ pc' \in RecOpenPc
  BY DEF WriteSize, WriteData, SnapOpenPc, RecOpenPc
<1> DEFINE f == IF m = 1 THEN file1 ELSE file2
           g == IF m = 1 THEN file1' ELSE file2'
<1>4. f \in Handle /\ file1 \in Handle /\ file2 \in Handle
  BY DEF TypeOK
<1>5. f.fs => f.name \in Names
  BY <1>3 DEF Apart, HandlesFresh, Fresh, Names
<1>6. /\ g.fs = f.fs /\ g.name = f.name
      /\ ~f.fs => volume' = volume
      /\ \A n \in Names :
           /\ volume'[n].present = volume[n].present
           /\ n # f.name => volume'[n] = volume[n]
           /\ \A i \in DOMAIN volume'[n].data :
                 \/ i \in DOMAIN volume[n].data /\ volume'[n].data[i] = volume[n].data[i]
                 \/ /\ n = f.name
                    /\ volume'[n].data[i].ses = session
                    /\ volume'[n].data[i].img = image
                    /\ \A j \in DOMAIN volume[n].data : j < i
  <2> HIDE DEF f, g
  <2>1. f_write(f, len, mem, g, volume')
    BY <1>1 DEF f, g
  <2> QED
    BY <1>4, <1>5, <2>1, WriteEffect
<1>7. /\ file1'.fs = file1.fs /\ file1'.name = file1.name
      /\ file2'.fs = file2.fs /\ file2'.name = file2.name
  BY <1>1, <1>6
<1>8. HandlesFresh'
  <2>1. file1'.fs => /\ file1'.name = "size.bin"
                     /\ volume'["size.bin"].present
    BY <1>3, <1>6, <1>7 DEF Apart, HandlesFresh, Names, SnapOpenPc, RecOpenPc
  <2>2. ASSUME NEW n \in Names, file2.fs => Fresh(file2, n)
        PROVE  Fresh(file2, n)'
    BY <1>2, <1>6, <1>7, <2>2 DEF Fresh
  <2>3. pc' \in SnapOpenPc => Fresh(file2, "snapshot.jpg")'
    BY <1>3, <2>2 DEF Apart, HandlesFresh, Names, SnapOpenPc, RecOpenPc
  <2>4. pc' \in RecOpenPc => Fresh(file2, "video.bin")'
    BY <1>3, <2>2 DEF Apart, HandlesFresh, Names, SnapOpenPc, RecOpenPc
  <2> QED
    BY <2>1, <2>3, <2>4 DEF HandlesFresh
<1>9. ImagesKeepTheirSession'
  <2>1. ASSUME NEW n \in {"snapshot.jpg", "video.bin"}
        PROVE  \/ volume'[n] = volume[n]
               \/ LET data == volume'[n].data
                  IN  \A i, j \in DOMAIN data :
                          /\ data[i].ses = session
                          /\ (i < j /\ data[i].img[1] = session) =>
                                 data[j].img[1] = session
    <3>1. n \in Names /\ n # "size.bin"
      BY DEF Names
    <3>2. CASE ~f.fs \/ n # f.name
      BY <1>6, <3>1, <3>2
    <3>3. CASE f.fs /\ n = f.name
      <4> DEFINE data == volume[n].data
                 then == volume'[n].data
      <4>1. \A i \in DOMAIN data :
               data[i].ses = session /\ (data[i].img[1] = session => image[1] = session)
        BY <1>1, <1>3, <3>1, <3>3 DEF Apart, HandlesFresh, Fresh
      <4>2. \A i, j \in DOMAIN data :
               (i < j /\ data[i].img[1] = session) => data[j].img[1] = session
        BY <4>1 DEF Apart, ImagesKeepTheirSession
      <4>3. \A i \in DOMAIN then :
               \/ i \in DOMAIN data /\ then[i] = data[i]
               \/ /\ then[i].ses = session /\ then[i].img = image
                  /\ \A j \in DOMAIN data : j < i
        BY <1>6, <3>1, <3>3
      <4>4. DOMAIN data \subseteq Nat /\ DOMAIN then \subseteq Nat
        BY <3>1 DEF TypeOK, File
      <4> HIDE DEF data, then
      <4>5. ASSUME NEW i \in DOMAIN then, NEW j \in DOMAIN then
            PROVE  /\ then[i].ses = session
                   /\ (i < j /\ then[i].img[1] = session) => then[j].img[1] = session
        <5>1. i \in Nat /\ j \in Nat
          BY <4>4
        <5>2. CASE j \in DOMAIN data /\ then[j] = data[j]
          BY <4>1, <4>2, <4>3, <5>1, <5>2
        <5>3. CASE then[j].img = image
          BY <4>1, <4>3, <5>1, <5>3
        <5> QED
          BY <4>3, <5>2, <5>3
      <4> QED
        BY <4>5 DEF then
    <3> QED
      BY <3>2, <3>3
  <2> QED
    BY <2>1 DEF Apart, ImagesKeepTheirSession
<1> QED
  BY <1>8, <1>9, FreshMeansPresent, PTL DEF Apart

\* Opening, after the old file was unlinked or not, keeps the invariant.
LEMMA OpenStep ==
    ASSUME TypeOK, Apart, TypeOK', SDOpenSnapshot \/ SDOpenVideo
    PROVE  Apart'
<1> USE DEF At, Goto, SnapOpenPc, RecOpenPc, Names, frame
<1>1. ASSUME NEW n \in Names, f_unlink(n)
      PROVE  /\ ImagesKeepTheirSession'
             /\ \A m \in Names : m # n => volume'[m] = volume[m]
  BY <1>1 DEF f_unlink, Gone, Apart, ImagesKeepTheirSession, TypeOK
<1>2. ASSUME NEW f \in Handle, NEW n \in Names, NEW g,
             f_open(f, n, g, volume'), UNCHANGED session
      PROVE  /\ ImagesKeepTheirSession'
             /\ \A m \in Names : m # n => volume'[m] = volume[m]
             /\ g.fs => /\ g.name = n
                        /\ volume'[n].present
                        /\ volume'[n].data = <<>>
  <2>1. CASE /\ g = [fs |-> TRUE, err |-> FALSE, name |-> n]
             /\ volume' = [volume EXCEPT ![n] = [present |-> TRUE, data |-> <<>>]]
    BY <2>1 DEF Apart, ImagesKeepTheirSession, TypeOK
  <2>2. CASE g = Invalidate(f) /\ volume' = volume
    BY <2>2 DEF Apart, ImagesKeepTheirSession, Invalidate, Handle
  <2> QED
    BY <1>2, <2>1, <2>2 DEF f_open
<1>3. ASSUME HandlesFresh', ImagesKeepTheirSession' PROVE Apart'
  BY <1>3, FreshMeansPresent, PTL DEF Apart
<1>4. CASE pc = "snapUnlink"
  <2>1. f_unlink("snapshot.jpg") /\ pc' = "snapOpen" /\ UNCHANGED <<file1, file2>>
    BY <1>4 DEF SDOpenSnapshot, SDOpenVideo
  <2> QED
    BY <1>1, <1>3, <1>4, <2>1 DEF HandlesFresh, Apart
<1>5. CASE pc = "snapOpen"
  <2>1. /\ f_open(file2, "snapshot.jpg", file2', volume') /\ pc' = "snapGet"
        /\ UNCHANGED <<file1, session>>
    BY <1>5 DEF SDOpenSnapshot, SDOpenVideo
  <2> QED
    BY <1>2, <1>3, <1>5, <2>1 DEF HandlesFresh, Apart, Fresh, TypeOK
<1>6. CASE pc = "recUnlink1"
  <2>1. f_unlink("size.bin") /\ pc' = "recUnlink2" /\ UNCHANGED <<file1, file2>>
    BY <1>6 DEF SDOpenSnapshot, SDOpenVideo
  <2> QED
    BY <1>1, <1>3, <1>6, <2>1 DEF HandlesFresh, Apart
<1>7. CASE pc = "recUnlink2"
  <2>1. f_unlink("video.bin") /\ pc' = "recOpen1" /\ UNCHANGED <<file1, file2>>
    BY <1>7 DEF SDOpenSnapshot, SDOpenVideo
  <2> QED
    BY <1>1, <1>3, <1>7, <2>1 DEF HandlesFresh, Apart
<1>8. CASE pc = "recOpen1"
  <2>1. /\ f_open(file1, "size.bin", file1', volume') /\ pc' = "recOpen2"
        /\ UNCHANGED <<file2, session>>
    BY <1>8 DEF SDOpenSnapshot, SDOpenVideo
  <2> QED
    BY <1>2, <1>3, <1>8, <2>1 DEF HandlesFresh, Apart, TypeOK
<1>9. CASE pc = "recOpen2"
  <2>1. /\ f_open(file2, "video.bin", file2', volume') /\ pc' = "recTest"
        /\ UNCHANGED <<file1, session>>
    BY <1>9 DEF SDOpenSnapshot, SDOpenVideo
  <2> QED
    BY <1>2, <1>3, <1>9, <2>1 DEF HandlesFresh, Apart, Fresh, TypeOK
<1> QED
  BY <1>4, <1>5, <1>6, <1>7, <1>8, <1>9 DEF SDOpenSnapshot, SDOpenVideo

\* Closing keeps the invariant, whether f_sync fails or not.
LEMMA CloseStep ==
    ASSUME TypeOK, Apart, closeFile
    PROVE  Apart'
<1> USE DEF At, Goto, SnapOpenPc, RecOpenPc, frame
<1>1. ASSUME NEW f \in Handle, NEW g, f_close(f, g)
      PROVE  g.name = f.name /\ (g.fs => f.fs)
  BY <1>1 DEF f_close, Invalidate, Handle
<1>2. /\ file1'.name = file1.name /\ (file1'.fs => file1.fs)
      /\ file2'.name = file2.name /\ (file2'.fs => file2.fs)
  BY <1>1 DEF closeFile, TypeOK
<1>3. UNCHANGED <<volume, session>>
  BY DEF closeFile
<1>4. HandlesFresh'
  BY <1>2, <1>3 DEF closeFile, HandlesFresh, Apart, Fresh
<1>5. ImagesKeepTheirSession'
  BY <1>3 DEF Apart, ImagesKeepTheirSession
<1> QED
  BY <1>4, <1>5, FreshMeansPresent, PTL DEF Apart

\* The conjunction of the two properties with their reason is inductive.
LEMMA ApartInvariant == Spec => []Apart
<1>1. Init => Apart
  <2> SUFFICES ASSUME Init PROVE Apart
    OBVIOUS
  <2>1. ImagesKeepTheirSession
    BY DEF Init, ImagesKeepTheirSession, Gone, Names
  <2>2. HandlesFresh
    BY DEF Init, HandlesFresh, Closed, SnapOpenPc, RecOpenPc
  <2> QED
    BY <2>1, <2>2, FreshMeansPresent DEF Apart
<1>2. TypeOK /\ TypeOK' /\ Apart /\ [Next]_vars => Apart'
  <2> SUFFICES ASSUME TypeOK, TypeOK', Apart, [Next]_vars PROVE Apart'
    OBVIOUS
  <2> USE DEF At, Goto, frame, SnapOpenPc, RecOpenPc
  <2>1. CASE SDOpenSnapshot \/ SDOpenVideo
    BY <2>1, OpenStep
  <2>2. CASE (WriteSize \/ WriteData) /\ pc' # "abort"
    BY <2>2, WriteStep
  <2>11. CASE WriteData /\ pc' = "abort"
    BY <2>11, QuietStep DEF WriteData
  <2>12. CASE WriteSize /\ pc' = "abort"
    BY <2>12 DEF WriteSize
  <2>13. CASE Aborted
    BY <2>13, QuietStep DEF Aborted, vars
  <2>3. CASE closeFile
    BY <2>3, CloseStep
  <2>4. CASE IoInit \/ TestSnapshot \/ SnapshotDone \/ TestRecording
    BY <2>4, QuietStep DEF IoInit, TestSnapshot, SnapshotDone, TestRecording
  <2>5. CASE TakePicture
    BY <2>5, QuietStep DEF TakePicture, AfterPicture
  <2>6. CASE TestStop
    BY <2>6, QuietStep DEF TestStop
  <2>7. CASE RecordingDone \/ DropStop
    BY <2>7, QuietStep DEF RecordingDone, DropStop
  <2>8. CASE Handler
    BY <2>8, QuietStep DEF Handler, EnterHandler, SamplePins, SkipButton,
                           SetFlag, AwaitRelease
  <2>9. CASE User
    BY <2>9, QuietStep DEF User, Press, Release
  <2>10. CASE UNCHANGED vars
    BY <2>10, QuietStep DEF vars
  <2> QED
    BY <2>1, <2>2, <2>3, <2>4, <2>5, <2>6, <2>7, <2>8, <2>9, <2>10, <2>11,
       <2>12, <2>13 DEF Next, Main
<1> QED
  BY <1>1, <1>2, TypeCorrect, PTL DEF Spec, Apart

\* Whatever calls fail, an image file holds what was written in one session
\* (FAT.c ignores every result of FatFs), and once a picture of that session
\* is in it no older one follows.
THEOREM SessionsApart == Spec => []ImagesKeepTheirSession
<1>1. Apart => ImagesKeepTheirSession
  BY DEF Apart
<1> QED
  BY <1>1, ApartInvariant, PTL

\* Every write to an image file starts with a picture of the session it is
\* made in.
OwnPictures ==
    \A n \in {"snapshot.jpg", "video.bin"} : \A i \in DOMAIN volume[n].data :
        volume[n].data[i].img[1] = volume[n].data[i].ses

\* When main() writes, the buffer holds a picture of the session.
WritingPc == {"snapSize", "snapData", "recSize", "recData"}
Own == OwnPictures /\ (pc \in WritingPc => image[1] = session)

\* As long as getPic() does not fail, whatever else does, an image file has
\* only pictures taken in the session it was written in.
THEOREM OnlyOwnPictures ==
    ASSUME "camera" \notin Faults
    PROVE  Spec => []OwnPictures
<1> USE DEF At, Goto, WritingPc
<1>1. Init => Own
  BY DEF Init, Own, OwnPictures, Gone, Names
<1>2. TypeOK /\ Apart /\ Own /\ [Next]_vars => Own'
  <2> SUFFICES ASSUME TypeOK, Apart, Own, [Next]_vars PROVE Own'
    OBVIOUS
  <2>1. CASE UNCHANGED <<volume, session, image>> /\ (pc' \in WritingPc => pc \in WritingPc)
    BY <2>1 DEF Own, OwnPictures
  <2>2. CASE SDOpenSnapshot \/ SDOpenVideo
    <3>1. pc' \notin WritingPc
      BY <2>2 DEF SDOpenSnapshot, SDOpenVideo
    <3>2. ASSUME NEW n \in Names
          PROVE  volume'[n] = volume[n] \/ volume'[n].data = <<>>
      BY <2>2 DEF SDOpenSnapshot, SDOpenVideo, f_unlink, f_open, Gone, TypeOK
    <3> QED
      BY <3>1, <3>2 DEF Own, OwnPictures, Names
  <2>3. CASE TakePicture
    <3>1. UNCHANGED <<volume, session>> /\ image'[1] = session
      BY <2>3 DEF TakePicture, files
    <3> QED
      BY <3>1 DEF Own, OwnPictures
  <2>4. CASE WriteSize
    <3>1. /\ f_write(file1, SizeOfInt, SizeOfInt, file1', volume')
          /\ file1 \in Handle /\ pc \in WritingPc /\ UNCHANGED <<session, image>>
      BY <2>4 DEF WriteSize, TypeOK
    <3>2. file1.fs => file1.name = "size.bin"
      BY DEF Apart, HandlesFresh
    <3>3. SizeOfInt \in Int
      BY DEF SizeOfInt
    <3>4. \A n \in {"snapshot.jpg", "video.bin"} : volume'[n] = volume[n]
      BY <3>1, <3>2, <3>3, WriteEffect DEF Names
    <3> QED
      BY <3>1, <3>4 DEF Own, OwnPictures
  <2>5. CASE WriteData /\ pc' # "abort"
    <3>1. /\ f_write(file2, ChunkLen, Behind, file2', volume')
          /\ file2 \in Handle /\ pc \in WritingPc /\ UNCHANGED <<session, image>>
      BY <2>5 DEF WriteData, TypeOK
    <3>2. file2.fs => file2.name \in Names
      BY <2>5 DEF WriteData, Apart, HandlesFresh, Fresh, SnapOpenPc, RecOpenPc, Names
    <3>3. ASSUME NEW n \in Names, NEW i \in DOMAIN volume'[n].data
          PROVE  \/ i \in DOMAIN volume[n].data /\ volume'[n].data[i] = volume[n].data[i]
                 \/ volume'[n].data[i].ses = session /\ volume'[n].data[i].img = image
      BY <3>1, <3>2, ChunkType, WriteEffect
    <3> QED
      BY <3>1, <3>3 DEF Own, OwnPictures, Names
  <2>6. CASE WriteData /\ pc' = "abort"
    BY <2>1, <2>6 DEF WriteData, files, frame
  <2>7. CASE IoInit \/ TestSnapshot \/ SnapshotDone \/ TestRecording \/ closeFile
    BY <2>1, <2>7 DEF IoInit, TestSnapshot, SnapshotDone, TestRecording, closeFile,
                      files, frame
  <2>8. CASE TestStop \/ RecordingDone \/ DropStop
    BY <2>1, <2>8 DEF TestStop, RecordingDone, DropStop, files, frame
  <2>9. CASE Handler
    BY <2>1, <2>9 DEF Handler, EnterHandler, SamplePins, SkipButton, SetFlag,
                      AwaitRelease, files, frame
  <2>10. CASE User
    BY <2>1, <2>10 DEF User, Press, Release, files, frame
  <2>11. CASE UNCHANGED vars \/ Aborted
    BY <2>1, <2>11 DEF Aborted, vars, files, frame
  <2> QED
    BY <2>2, <2>3, <2>4, <2>5, <2>6, <2>7, <2>8, <2>9, <2>10, <2>11 DEF Next, Main
<1>3. Own => OwnPictures
  BY DEF Own
<1> QED
  BY <1>1, <1>2, <1>3, TypeCorrect, ApartInvariant, PTL DEF Spec

\* While an image is written no valid file object refers to a deleted name,
\* although SDOpenSnapshot and SDOpenVideo ignore every failure.
THEOREM NothingToDeleted == Spec => []NoWriteToDeleted
<1>1. Apart => NoWriteToDeleted
  BY DEF Apart
<1> QED
  BY <1>1, ApartInvariant, PTL

\* And why: in a session a valid file2 is the image file of that session and
\* holds nothing older, a valid file1 is always size.bin.
THEOREM ObjectsOfTheSession == Spec => []HandlesFresh
<1>1. Apart => HandlesFresh
  BY DEF Apart
<1> QED
  BY <1>1, ApartInvariant, PTL

\* A snapshot never touches video.bin, and touches size.bin only when the
\* f_close of size.bin failed in an earlier recording.
THEOREM RecordingSurvivesSnapshot == Spec => SnapshotKeepsRecording
<1> DEFINE Kept ==
      pc \in SnapPc =>
          /\ volume'["video.bin"] = volume["video.bin"]
          /\ ~file1.fs => volume'["size.bin"] = volume["size.bin"]
<1>1. TypeOK /\ Apart /\ [Next]_vars => [Kept]_vars
  <2> SUFFICES ASSUME TypeOK, Apart, [Next]_vars, pc \in SnapPc PROVE Kept
    OBVIOUS
  <2> USE DEF At, Goto, files, SnapPc
  <2>1. CASE SDOpenSnapshot
    BY <2>1 DEF SDOpenSnapshot, f_unlink, f_open, TypeOK, Names
  <2>2. CASE WriteSize
    <3>1. f_write(file1, SizeOfInt, SizeOfInt, file1', volume') /\ file1 \in Handle
      BY <2>2 DEF WriteSize, TypeOK
    <3>2. file1.fs => file1.name = "size.bin"
      BY DEF Apart, HandlesFresh
    <3> QED
      BY <3>1, <3>2, WriteEffect DEF SizeOfInt, Names
  <2>3. CASE WriteData
    <3>1. CASE volume' = volume
      BY <3>1
    <3>2. CASE f_write(file2, ChunkLen, Behind, file2', volume')
      <4>1. file2 \in Handle /\ pc \in SnapOpenPc
        BY <2>3 DEF WriteData, TypeOK, SnapOpenPc
      <4>2. file2.fs => file2.name = "snapshot.jpg"
        BY <4>1 DEF Apart, HandlesFresh, Fresh
      <4> QED
        BY <3>2, <4>1, <4>2, ChunkType, WriteEffect DEF Names
    <3> QED
      BY <2>3, <3>1, <3>2 DEF WriteData
  <2>4. CASE IoInit \/ TestSnapshot \/ SnapshotDone \/ TestRecording \/ TakePicture
    BY <2>4 DEF IoInit, TestSnapshot, SnapshotDone, TestRecording, TakePicture
  <2>5. CASE closeFile \/ SDOpenVideo \/ TestStop \/ RecordingDone \/ DropStop
    BY <2>5 DEF closeFile, SDOpenVideo, TestStop, RecordingDone, DropStop
  <2>6. CASE Handler
    BY <2>6 DEF Handler, EnterHandler, SamplePins, SkipButton, SetFlag, AwaitRelease
  <2>7. CASE User
    BY <2>7 DEF User, Press, Release
  <2>8. CASE UNCHANGED vars \/ Aborted
    BY <2>8 DEF Aborted, vars
  <2> QED
    BY <2>1, <2>2, <2>3, <2>4, <2>5, <2>6, <2>7, <2>8 DEF Next, Main
<1> QED
  BY <1>1, TypeCorrect, ApartInvariant, PTL DEF Spec, SnapshotKeepsRecording

-----------------------------------------------------------------------------
(* The bytes of an image in a file: the recursive sum of BytesOf is proved *)
(* about by induction on the length, from the well-foundedness of Nat.     *)

\* Every set of numbers that is not empty has a least one.
LEMMA LeastNumber ==
    ASSUME NEW T \in SUBSET Nat, T # {}
    PROVE  \E x \in T : \A y \in T : x <= y
<1> DEFINE R == OpToRel(<, Nat)
<1>1. IsWellFoundedOn(R, Nat)
  BY NatLessThanWellFounded
<1>2. \A x, y \in Nat : <<x, y>> \in R <=> x < y
  BY DEF OpToRel
<1> HIDE DEF R
<1>3. PICK x \in T : \A y \in T : ~ (<<y, x>> \in R)
  BY <1>1, WFMin
<1>4. ASSUME NEW y \in T PROVE x <= y
  <2>1. x \in Nat /\ y \in Nat /\ ~(y < x)
    BY <1>2, <1>3
  <2> QED
    BY <2>1
<1> QED
  BY <1>4

\* A set of numbers with 0 and every successor is Nat.
LEMMA AllNumbers ==
    ASSUME NEW P \in SUBSET Nat, 0 \in P, \A n \in P : n + 1 \in P
    PROVE  P = Nat
<1> SUFFICES ASSUME P # Nat PROVE FALSE
  OBVIOUS
<1>1. PICK x \in Nat \ P : \A y \in Nat \ P : x <= y
  BY LeastNumber
<1>2. x - 1 \in Nat /\ x - 1 \in P
  BY <1>1
<1> QED
  BY <1>1, <1>2

\* What one record adds, and that g is the sums of the first m records.
Adds(img, r) == IF r.img = img THEN r.len ELSE 0

SumsTo(g, img, data, m) ==
    g = [k \in 0 .. m |-> IF k = 0 THEN 0 ELSE g[k - 1] + Adds(img, data[k])]

\* The recursive definition of BytesOf defines a function.
LEMMA SumsExist ==
    ASSUME NEW img, NEW data
    PROVE  \A m \in Nat : \E g : SumsTo(g, img, data, m)
<1> DEFINE P == {m \in Nat : \E g : SumsTo(g, img, data, m)}
<1>1. 0 \in P
  <2>1. SumsTo([k \in 0 .. 0 |-> 0], img, data, 0)
    BY DEF SumsTo
  <2> QED
    BY <2>1
<1>2. ASSUME NEW n \in P PROVE n + 1 \in P
  <2>1. PICK g : SumsTo(g, img, data, n)
    OBVIOUS
  <2> DEFINE h == [k \in 0 .. n + 1 |->
                     IF k = n + 1 THEN g[n] + Adds(img, data[n + 1]) ELSE g[k]]
  <2>2. SumsTo(h, img, data, n + 1)
    BY <2>1 DEF SumsTo
  <2> HIDE DEF h
  <2> QED
    BY <2>2
<1> HIDE DEF P
<1>3. P = Nat
  BY <1>1, <1>2, AllNumbers DEF P
<1> QED
  BY <1>3 DEF P

\* So BytesOf is the last of the sums.
LEMMA BytesAreSums ==
    ASSUME NEW img, NEW data \in Seq(Record)
    PROVE  \E g : SumsTo(g, img, data, Len(data)) /\ BytesOf(img, data) = g[Len(data)]
<1> DEFINE g == CHOOSE g : SumsTo(g, img, data, Len(data))
<1>1. SumsTo(g, img, data, Len(data))
  BY SumsExist
<1>2. BytesOf(img, data) = g[Len(data)]
  BY DEF BytesOf, SumsTo, Adds
<1> QED
  BY <1>1, <1>2

\* g are the sums of d, and h those of e, which begins with d.
SumsOf(g, h, img, d, e, m) ==
    /\ SumsTo(g, img, d, Len(d))
    /\ SumsTo(h, img, e, m)
    /\ Len(d) <= m
    /\ \A i \in 1 .. Len(d) : e[i] = d[i]

\* Sums of sequences that agree up to n agree up to n, and are numbers.
LEMMA SumsAgree ==
    ASSUME NEW img, NEW d \in Seq(Record), NEW e, NEW g, NEW h,
           NEW m \in Nat, SumsOf(g, h, img, d, e, m)
    PROVE  \A n \in 0 .. Len(d) : g[n] = h[n] /\ g[n] \in Nat
<1> USE DEF SumsOf
<1> DEFINE P == {n \in Nat : n <= Len(d) => g[n] = h[n] /\ g[n] \in Nat}
<1>1. 0 \in P
  BY DEF SumsTo
<1>2. ASSUME NEW n \in P PROVE n + 1 \in P
  <2>1. SUFFICES ASSUME n + 1 <= Len(d)
                 PROVE  g[n + 1] = h[n + 1] /\ g[n + 1] \in Nat
    OBVIOUS
  <2>2. n \in Nat /\ n + 1 \in 1 .. Len(d) /\ n + 1 \in 0 .. m /\ Len(d) \in Nat
    BY <2>1
  <2>3. g[n] = h[n] /\ g[n] \in Nat
    BY <2>1, <2>2
  <2>4. g[n + 1] = g[n] + Adds(img, d[n + 1])
    BY <2>2 DEF SumsTo
  <2>5. h[n + 1] = h[n] + Adds(img, e[n + 1])
    BY <2>2 DEF SumsTo
  <2>6. Adds(img, d[n + 1]) \in Nat
    <3>1. d[n + 1] \in Record
      BY <2>2
    <3> QED
      BY <3>1 DEF Adds, Record
  <2> QED
    BY <2>2, <2>3, <2>4, <2>5, <2>6
<1> HIDE DEF P
<1>3. P = Nat
  BY <1>1, <1>2, AllNumbers DEF P
<1> QED
  BY <1>3 DEF P

\* The bytes of an image are a number, none in an empty file, and a record
\* that is appended adds its own.
LEMMA BytesNat ==
    ASSUME NEW img, NEW data \in Seq(Record)
    PROVE  BytesOf(img, data) \in Nat
<1>1. PICK g : SumsTo(g, img, data, Len(data)) /\ BytesOf(img, data) = g[Len(data)]
  BY BytesAreSums
<1>2. Len(data) \in Nat /\ Len(data) \in 0 .. Len(data)
  OBVIOUS
<1>3. SumsOf(g, g, img, data, data, Len(data))
  BY <1>1, <1>2 DEF SumsOf
<1>4. \A n \in 0 .. Len(data) : g[n] = g[n] /\ g[n] \in Nat
  BY <1>2, <1>3, SumsAgree
<1> QED
  BY <1>1, <1>2, <1>4

LEMMA BytesEmpty ==
    ASSUME NEW img
    PROVE  BytesOf(img, <<>>) = 0
<1>1. <<>> \in Seq(Record) /\ Len(<<>>) = 0
  OBVIOUS
<1>2. PICK g : SumsTo(g, img, <<>>, 0) /\ BytesOf(img, <<>>) = g[0]
  BY <1>1, BytesAreSums
<1> QED
  BY <1>2 DEF SumsTo

LEMMA BytesAppend ==
    ASSUME NEW img, NEW data \in Seq(Record), NEW r \in Record
    PROVE  BytesOf(img, Append(data, r)) = BytesOf(img, data) + Adds(img, r)
<1> DEFINE e == Append(data, r)
           n == Len(data)
<1>1. e \in Seq(Record) /\ Len(e) = n + 1 /\ n \in Nat /\ n <= n + 1
  OBVIOUS
<1>2. e[n + 1] = r /\ \A i \in 1 .. n : e[i] = data[i]
  OBVIOUS
<1> HIDE DEF e
<1>3. PICK g : SumsTo(g, img, data, n) /\ BytesOf(img, data) = g[n]
  BY BytesAreSums
<1>4. PICK h : SumsTo(h, img, e, n + 1) /\ BytesOf(img, e) = h[n + 1]
  BY <1>1, BytesAreSums
<1>5. \A i \in 0 .. n : g[i] = h[i] /\ g[i] \in Nat
  <2>1. n + 1 \in Nat /\ Len(data) <= n + 1
    BY <1>1
  <2> HIDE DEF n
  <2>2. SumsTo(g, img, data, Len(data)) /\ SumsTo(h, img, e, n + 1)
    BY <1>3, <1>4 DEF n
  <2>3. \A i \in 1 .. Len(data) : e[i] = data[i]
    BY <1>2 DEF n
  <2>4. SumsOf(g, h, img, data, e, n + 1)
    BY <2>1, <2>2, <2>3 DEF SumsOf
  <2>5. \A i \in 0 .. Len(data) : g[i] = h[i] /\ g[i] \in Nat
    BY <2>1, <2>4, SumsAgree
  <2> QED
    BY <2>5 DEF n
<1>6. h[n + 1] = h[n] + Adds(img, e[n + 1])
  BY <1>1, <1>4 DEF SumsTo
<1> QED
  BY <1>1, <1>2, <1>3, <1>4, <1>5, <1>6 DEF e

\* An image no record is of has no bytes.
LEMMA BytesOfOthers ==
    ASSUME NEW img, NEW data \in Seq(Record),
           \A i \in DOMAIN data : data[i].img # img
    PROVE  BytesOf(img, data) = 0
<1>1. PICK g : SumsTo(g, img, data, Len(data)) /\ BytesOf(img, data) = g[Len(data)]
  BY BytesAreSums
<1> DEFINE P == {n \in Nat : n <= Len(data) => g[n] = 0}
<1>2. 0 \in P
  BY <1>1 DEF SumsTo
<1>3. ASSUME NEW n \in P PROVE n + 1 \in P
  <2>1. SUFFICES ASSUME n + 1 <= Len(data) PROVE g[n + 1] = 0
    OBVIOUS
  <2>2. n \in Nat /\ n + 1 \in 1 .. Len(data) /\ Len(data) \in Nat
    BY <2>1
  <2>3. g[n] = 0
    BY <2>1, <2>2
  <2>4. g[n + 1] = g[n] + Adds(img, data[n + 1])
    BY <1>1, <2>2 DEF SumsTo
  <2>5. Adds(img, data[n + 1]) = 0
    BY <2>2 DEF Adds
  <2> QED
    BY <2>3, <2>4, <2>5
<1> HIDE DEF P
<1>4. P = Nat
  BY <1>2, <1>3, AllNumbers DEF P
<1> QED
  BY <1>1, <1>4 DEF P

-----------------------------------------------------------------------------
(* With no failing call size.bin lists the images of video.bin.            *)

Valid(n) == [fs |-> TRUE, err |-> FALSE, name |-> n]

\* Where the two objects are open on the files of a recording.
SizeOpenPc  == {"recOpen2", "recTest", "recGet", "recSize", "recData", "recClose1"}
VideoOpenPc == {"recTest", "recGet", "recSize", "recData", "recClose1", "recClose2"}
LoopPc      == {"recTest", "recGet", "recSize", "recData"}

\* The files agree but for the image im, of which rest bytes are missing.
Agree(sizes, video, im, rest) ==
    /\ \A i \in DOMAIN sizes :
          sizes[i].of = BytesOf(sizes[i].img, video)
                            + (IF sizes[i].img = im THEN rest ELSE 0)
    /\ \A j \in DOMAIN video : \E i \in DOMAIN sizes :
           sizes[i].img = video[j].img
    /\ \A i, j \in DOMAIN sizes : i < j => sizes[i].img[2] < sizes[j].img[2]

\* The images listed so far are those taken in this recording; before its
\* size is written the one in the buffer is later than all of them.
Listed(sizes) ==
    /\ \A i \in DOMAIN sizes : sizes[i].img[2] <= frames
    /\ pc = "recSize" =>
          /\ image[2] = frames
          /\ \A i \in DOMAIN sizes : sizes[i].img[2] < frames
    /\ pc = "recData" => \E i \in DOMAIN sizes : sizes[i].img = image

Rest == IF pc = "recData" THEN left ELSE 0

\* The invariant behind SizesMatchVideo: what is open, what was deleted, which
\* images are listed, and how much of the current one is still to come.
Tidy ==
    /\ IF pc \in SizeOpenPc THEN file1 = Valid("size.bin") ELSE ~file1.fs
    /\ pc \in VideoOpenPc => file2 = Valid("video.bin")
    /\ pc \in {"recUnlink2", "recOpen1"} => volume["size.bin"] = Gone
    /\ pc \in {"recOpen1", "recOpen2"} => volume["video.bin"] = Gone
    /\ pc = "recOpen2" => volume["size.bin"].data = <<>>
    /\ pc \in LoopPc => Listed(volume["size.bin"].data)
    /\ pc # "recUnlink2" =>
          Agree(volume["size.bin"].data, volume["video.bin"].data, image, Rest)

\* Empty files agree.
LEMMA AgreeEmpty == \A im : Agree(<<>>, <<>>, im, 0)
BY DEF Agree

\* When nothing is missing it does not matter which image is in the buffer.
LEMMA AgreeNoRest ==
    ASSUME NEW s, NEW v, NEW im, Agree(s, v, im, 0)
    PROVE  \A other : Agree(s, v, other, 0)
BY DEF Agree

\* The size of a later image is written: all of its bytes are missing.
LEMMA AgreeSize ==
    ASSUME NEW s \in Seq(Record), NEW v \in Seq(Record), NEW r \in Record, NEW im,
           r.of \in Nat, Agree(s, v, im, 0), \A i \in DOMAIN s : s[i].img[2] < r.img[2]
    PROVE  Agree(Append(s, r), v, r.img, r.of)
<1> DEFINE t == Append(s, r)
           n == Len(s) + 1
<1>1. /\ DOMAIN t = 1 .. n /\ DOMAIN s = 1 .. n - 1 /\ n \in Nat
      /\ t[n] = r
      /\ \A i \in DOMAIN s : t[i] = s[i]
  OBVIOUS
<1>2. r.of \in Nat /\ r.img[2] \in Nat
  BY DEF Record
<1> HIDE DEF t, n
<1>3. \A i \in DOMAIN t : i = n \/ i \in DOMAIN s
  BY <1>1
<1>4. \A i \in DOMAIN s : s[i].img # r.img
  <2>1. SUFFICES ASSUME NEW i \in DOMAIN s, s[i].img = r.img PROVE FALSE
    OBVIOUS
  <2>2. s[i].img[2] < r.img[2] /\ s[i].img[2] = r.img[2]
    BY <2>1
  <2> QED
    BY <1>2, <2>2
<1>5. BytesOf(r.img, v) = 0
  <2>1. \A j \in DOMAIN v : v[j].img # r.img
    BY <1>4 DEF Agree
  <2> QED
    BY <2>1, BytesOfOthers
<1>6. ASSUME NEW i \in DOMAIN t
      PROVE  t[i].of = BytesOf(t[i].img, v) + (IF t[i].img = r.img THEN r.of ELSE 0)
  <2>1. CASE i = n
    BY <1>1, <1>2, <1>5, <2>1
  <2>2. CASE i \in DOMAIN s
    <3>1. t[i] = s[i] /\ s[i].img # r.img
      BY <1>1, <1>4, <2>2
    <3>2. s[i].of = BytesOf(s[i].img, v) + (IF s[i].img = im THEN 0 ELSE 0)
      BY <2>2 DEF Agree
    <3> QED
      BY <3>1, <3>2
  <2> QED
    BY <1>3, <2>1, <2>2
<1>7. ASSUME NEW j \in DOMAIN v PROVE \E i \in DOMAIN t : t[i].img = v[j].img
  <2>1. PICK i \in DOMAIN s : s[i].img = v[j].img
    BY DEF Agree
  <2>2. i \in DOMAIN t /\ t[i] = s[i]
    BY <1>1
  <2> QED
    BY <2>1, <2>2
<1>8. ASSUME NEW i \in DOMAIN t, NEW j \in DOMAIN t, i < j
      PROVE  t[i].img[2] < t[j].img[2]
  <2>1. i \in DOMAIN s /\ t[i] = s[i]
    BY <1>1, <1>8
  <2>2. CASE j = n
    BY <1>1, <2>1, <2>2
  <2>3. CASE j \in DOMAIN s
    BY <1>1, <1>8, <2>1, <2>3 DEF Agree
  <2> QED
    BY <1>3, <2>2, <2>3
<1> QED
  BY <1>6, <1>7, <1>8 DEF Agree, t

\* Some of the missing bytes of a listed image are written.
LEMMA AgreeData ==
    ASSUME NEW s \in Seq(Record), NEW v \in Seq(Record), NEW r \in Record,
           NEW rest \in Nat, Agree(s, v, r.img, r.len + rest),
           \E i \in DOMAIN s : s[i].img = r.img
    PROVE  Agree(s, Append(v, r), r.img, rest)
<1> DEFINE w == Append(v, r)
           n == Len(v) + 1
<1>1. /\ DOMAIN w = 1 .. n /\ DOMAIN v = 1 .. n - 1 /\ n \in Nat
      /\ w[n] = r
      /\ \A i \in DOMAIN v : w[i] = v[i]
  OBVIOUS
<1>2. ASSUME NEW im PROVE BytesOf(im, w) = BytesOf(im, v) + Adds(im, r)
  BY BytesAppend
<1>3. r.len \in Nat
  BY DEF Record
<1> HIDE DEF w, n
<1>4. ASSUME NEW i \in DOMAIN s
      PROVE  s[i].of = BytesOf(s[i].img, w) + (IF s[i].img = r.img THEN rest ELSE 0)
  <2>1. s[i].of = BytesOf(s[i].img, v)
                     + (IF s[i].img = r.img THEN r.len + rest ELSE 0)
    BY DEF Agree
  <2>2. BytesOf(s[i].img, v) \in Nat
    BY BytesNat
  <2>3. \A a, b, c \in Nat : a + (b + c) = (a + b) + c /\ a + 0 = (a + 0) + 0
    OBVIOUS
  <2>4. CASE s[i].img = r.img
    BY <1>2, <1>3, <2>1, <2>2, <2>3, <2>4 DEF Adds
  <2>5. CASE s[i].img # r.img
    <3>1. Adds(s[i].img, r) = 0
      BY <2>5 DEF Adds
    <3> QED
      BY <1>2, <2>1, <2>2, <2>3, <2>5, <3>1
  <2> QED
    BY <2>4, <2>5
<1>5. ASSUME NEW j \in DOMAIN w PROVE \E i \in DOMAIN s : s[i].img = w[j].img
  <2>1. CASE j = n
    BY <1>1, <2>1
  <2>2. CASE j \in DOMAIN v
    BY <1>1, <2>2 DEF Agree
  <2> QED
    BY <1>1, <2>1, <2>2
<1> QED
  BY <1>4, <1>5 DEF Agree, w

\* What the calls do when no call fails.
LEMMA NoFaultCalls ==
    ASSUME Faults = {}, NEW f, NEW n, NEW g, NEW v
    PROVE  /\ f_unlink(n) => volume' = [volume EXCEPT ![n] = Gone]
           /\ f_open(f, n, g, v) /\ ~volume[n].present =>
                 /\ g = Valid(n)
                 /\ v = [volume EXCEPT ![n] = [present |-> TRUE, data |-> <<>>]]
           /\ f_close(f, g) => g = Invalidate(f)
BY DEF f_unlink, f_open, f_close, CanCreate, Valid

\* A write from memory that is there is made in full.
LEMMA NoFaultWrite ==
    ASSUME Faults = {}, NEW f, NEW len \in Nat, NEW mem \in Int, len =< mem,
           NEW g, NEW v, f_write(f, len, mem, g, v)
    PROVE  /\ g = f
           /\ v = IF f.fs /\ ~f.err THEN Appended(f.name, len) ELSE volume
<1>1. Takes(f, len) <=> (f.fs /\ ~f.err)
  BY DEF Takes, Writable
<1> QED
  BY <1>1 DEF f_write

\* What main() has of an image fits the memory, when no call fails.
Fits ==
    /\ pc \in WritingPc => size \in Nat /\ size =< Ram
    /\ pc \in {"snapData", "recData"} => left \in Nat /\ left =< size

\* ... so that no chunk is read from past the end.
LEMMA FittingChunk ==
    ASSUME TypeOK, Fits, pc \in {"snapData", "recData"}
    PROVE  ChunkLen \in Nat /\ Behind \in Int /\ ChunkLen =< left /\ ChunkLen =< Behind
<1>1. /\ Chunk \in Nat \ {0} /\ Ram \in Nat /\ size \in Nat /\ left \in Nat
      /\ size =< Ram /\ left =< size
  BY ChunkAssumption, RamAssumption DEF Fits, WritingPc
<1> QED
  BY <1>1 DEF ChunkLen, LastChunk, Behind

\* When no call fails the data fits.
LEMMA FitsInvariant ==
    ASSUME Faults = {}
    PROVE  Spec => []Fits
<1> USE DEF At, Goto, WritingPc, frame
<1>1. Init => Fits
  BY DEF Init, Fits
<1>2. TypeOK /\ Fits /\ [Next]_vars => Fits'
  <2> SUFFICES ASSUME TypeOK, Fits, [Next]_vars PROVE Fits'
    OBVIOUS
  <2>1. CASE /\ UNCHANGED <<size, left>> /\ (pc' \in WritingPc => pc \in WritingPc)
             /\ pc' \in {"snapData", "recData"} => pc \in {"snapData", "recData"}
    BY <2>1 DEF Fits
  <2>2. CASE SDOpenSnapshot \/ SDOpenVideo
    BY <2>2 DEF Fits, SDOpenSnapshot, SDOpenVideo
  <2>3. CASE TakePicture
    <3>1. size' \in ImageSizes /\ pc' \in {"snapSize", "recSize"}
      BY <2>3 DEF TakePicture, AfterPicture
    <3>2. size' \in Nat /\ size' =< Ram
      BY <3>1, SizesAssumption, RamAssumption
    <3> QED
      BY <3>1, <3>2 DEF Fits
  <2>4. CASE WriteSize
    <3>1. pc \in WritingPc /\ left' = size /\ size' = size
      BY <2>4 DEF WriteSize
    <3> QED
      BY <3>1 DEF Fits
  <2>5. CASE WriteData
    <3>1. /\ pc \in {"snapData", "recData"} /\ size' = size
          /\ left' = left \/ (left > Chunk /\ left' = left - Chunk)
      BY <2>5 DEF WriteData
    <3>2. left \in Nat /\ left =< size /\ size \in Nat /\ Chunk \in Nat \ {0}
      BY <3>1, ChunkAssumption DEF Fits
    <3>3. left' \in Nat /\ left' =< size
      BY <3>1, <3>2
    <3> QED
      BY <3>1, <3>3 DEF Fits
  <2>6. CASE IoInit \/ TestSnapshot \/ SnapshotDone \/ TestRecording \/ closeFile
    BY <2>1, <2>6 DEF IoInit, TestSnapshot, SnapshotDone, TestRecording, closeFile
  <2>7. CASE TestStop \/ RecordingDone \/ DropStop
    BY <2>1, <2>7 DEF TestStop, RecordingDone, DropStop
  <2>8. CASE Handler
    BY <2>1, <2>8 DEF Handler, EnterHandler, SamplePins, SkipButton, SetFlag,
                      AwaitRelease
  <2>9. CASE User
    BY <2>1, <2>9 DEF User, Press, Release
  <2>10. CASE UNCHANGED vars \/ Aborted
    BY <2>1, <2>10 DEF Aborted, vars
  <2> QED
    BY <2>2, <2>3, <2>4, <2>5, <2>6, <2>7, <2>8, <2>9, <2>10 DEF Next, Main
<1> QED
  BY <1>1, <1>2, TypeCorrect, PTL DEF Spec

\* A step that leaves the files, the images and the place alone.
LEMMA TidyStutter ==
    ASSUME Tidy, UNCHANGED <<pc, files, frames, image, left>>
    PROVE  Tidy'
BY DEF Tidy, files, Listed, Rest

\* A step outside a recording that leaves its files alone.
LEMMA TidyOutside ==
    ASSUME Tidy, ~file1'.fs, UNCHANGED <<volume["size.bin"], volume["video.bin"]>>,
           pc \notin {"recUnlink2", "recOpen1", "recOpen2"} \cup VideoOpenPc,
           pc' \notin {"recUnlink2", "recOpen1", "recOpen2"} \cup VideoOpenPc
    PROVE  Tidy'
<1> USE DEF VideoOpenPc
<1>1. Rest = 0 /\ Rest' = 0
  BY DEF Rest
<1>2. Agree(volume["size.bin"].data, volume["video.bin"].data, image, 0)
  BY <1>1 DEF Tidy
<1>3. Agree(volume'["size.bin"].data, volume'["video.bin"].data, image', 0)
  BY <1>2, AgreeNoRest
<1> QED
  BY <1>1, <1>3 DEF Tidy, SizeOpenPc, LoopPc

\* Opening deletes the files of the last recording and creates empty ones; for
\* a snapshot only snapshot.jpg is touched.
LEMMA TidyOpen ==
    ASSUME Faults = {}, TypeOK, Tidy, SDOpenSnapshot \/ SDOpenVideo
    PROVE  Tidy'
<1> USE DEF At, Goto, frame, Names
<1>1. volume \in [Names -> File]
  BY DEF TypeOK
<1>2. CASE pc = "snapUnlink"
  <2>1. f_unlink("snapshot.jpg") /\ pc' = "snapOpen" /\ UNCHANGED file1
    BY <1>2 DEF SDOpenSnapshot, SDOpenVideo
  <2>2. UNCHANGED <<volume["size.bin"], volume["video.bin"]>>
    BY <1>1, <2>1, NoFaultCalls
  <2> QED
    BY <1>2, <2>1, <2>2, TidyOutside DEF Tidy, SizeOpenPc, VideoOpenPc
<1>3. CASE pc = "snapOpen"
  <2>1. /\ f_open(file2, "snapshot.jpg", file2', volume')
        /\ pc' = "snapGet" /\ UNCHANGED file1
    BY <1>3 DEF SDOpenSnapshot, SDOpenVideo
  <2>2. UNCHANGED <<volume["size.bin"], volume["video.bin"]>>
    BY <1>1, <2>1 DEF f_open
  <2> QED
    BY <1>3, <2>1, <2>2, TidyOutside DEF Tidy, SizeOpenPc, VideoOpenPc
<1> USE DEF Tidy, SizeOpenPc, VideoOpenPc, LoopPc
<1>4. CASE pc = "recUnlink1"
  <2>1. f_unlink("size.bin") /\ pc' = "recUnlink2" /\ UNCHANGED <<file1, file2>>
    BY <1>4 DEF SDOpenSnapshot, SDOpenVideo
  <2>2. volume'["size.bin"] = Gone
    BY <1>1, <2>1, NoFaultCalls
  <2> QED
    BY <1>4, <2>1, <2>2
<1>5. CASE pc = "recUnlink2"
  <2>1. f_unlink("video.bin") /\ pc' = "recOpen1" /\ UNCHANGED <<file1, file2>>
    BY <1>5 DEF SDOpenSnapshot, SDOpenVideo
  <2>2. volume'["size.bin"] = Gone /\ volume'["video.bin"] = Gone
    BY <1>1, <1>5, <2>1, NoFaultCalls
  <2>3. Agree(volume'["size.bin"].data, volume'["video.bin"].data, image', 0)
    BY <2>2, AgreeEmpty DEF Gone
  <2> QED
    BY <1>5, <2>1, <2>2, <2>3 DEF Rest
<1>6. CASE pc = "recOpen1"
  <2>1. /\ f_open(file1, "size.bin", file1', volume') /\ pc' = "recOpen2"
        /\ UNCHANGED <<file2, image, left>>
    BY <1>6 DEF SDOpenSnapshot, SDOpenVideo
  <2>2. ~volume["size.bin"].present /\ volume["video.bin"] = Gone
    BY <1>6 DEF Gone
  <2>3. /\ file1' = Valid("size.bin")
        /\ volume'["size.bin"].data = <<>> /\ volume'["video.bin"] = Gone
    <3>1. /\ file1' = Valid("size.bin")
          /\ volume' = [volume EXCEPT !["size.bin"] = [present |-> TRUE, data |-> <<>>]]
      BY <2>1, <2>2, NoFaultCalls
    <3> QED
      BY <1>1, <2>2, <3>1
  <2>4. Agree(volume'["size.bin"].data, volume'["video.bin"].data, image', 0)
    BY <2>3, AgreeEmpty DEF Gone
  <2> QED
    BY <1>6, <2>1, <2>3, <2>4 DEF Rest
<1>7. CASE pc = "recOpen2"
  <2>1. /\ f_open(file2, "video.bin", file2', volume') /\ pc' = "recTest"
        /\ UNCHANGED <<file1, image, left>>
    BY <1>7 DEF SDOpenSnapshot, SDOpenVideo
  <2>2. ~volume["video.bin"].present /\ volume["size.bin"].data = <<>>
    BY <1>7 DEF Gone
  <2>3. /\ file2' = Valid("video.bin")
        /\ volume'["size.bin"].data = <<>> /\ volume'["video.bin"].data = <<>>
    <3>1. /\ file2' = Valid("video.bin")
          /\ volume' = [volume EXCEPT !["video.bin"] = [present |-> TRUE, data |-> <<>>]]
      BY <2>1, <2>2, NoFaultCalls
    <3> QED
      BY <1>1, <2>2, <3>1
  <2>4. Agree(volume'["size.bin"].data, volume'["video.bin"].data, image', 0)
    BY <2>3, AgreeEmpty
  <2>5. Listed(volume["size.bin"].data)'
    BY <2>1, <2>3 DEF Listed
  <2> QED
    BY <1>7, <2>1, <2>3, <2>4, <2>5 DEF Rest
<1> QED
  BY <1>2, <1>3, <1>4, <1>5, <1>6, <1>7 DEF SDOpenSnapshot, SDOpenVideo

\* A new image is later than every image listed.
LEMMA TidyPicture ==
    ASSUME Faults = {}, TypeOK, Tidy, TakePicture
    PROVE  Tidy'
<1> USE DEF At, Goto
<1>1. CASE pc = "snapGet"
  BY <1>1, TidyOutside DEF TakePicture, AfterPicture, files, Tidy, SizeOpenPc, VideoOpenPc
<1>2. CASE pc = "recGet"
  <2>1. /\ pc' = "recSize" /\ image' = <<session, frames + 1>>
        /\ frames' = frames + 1 /\ UNCHANGED files
    BY <1>2 DEF TakePicture, AfterPicture
  <2> DEFINE s == volume["size.bin"].data
             v == volume["video.bin"].data
  <2>2. volume' = volume /\ file1' = file1 /\ file2' = file2
    BY <2>1 DEF files
  <2>3. Agree(s, v, image', 0)
    BY <1>2, AgreeNoRest DEF Tidy, Rest
  <2>4. s \in Seq(Record) /\ frames \in Nat /\ \A i \in DOMAIN s : s[i].img[2] <= frames
    BY <1>2 DEF TypeOK, File, Names, Tidy, Listed, LoopPc
  <2>5. \A i \in DOMAIN s : s[i].img[2] \in Nat
    <3>1. SUFFICES ASSUME NEW i \in DOMAIN s PROVE s[i].img[2] \in Nat
      OBVIOUS
    <3>2. s[i] \in Record
      BY <2>4
    <3> QED
      BY <3>2 DEF Record
  <2>6. \A i \in DOMAIN s : s[i].img[2] < frames'
    BY <2>1, <2>4, <2>5
  <2>7. image'[2] = frames'
    BY <2>1
  <2>8. Listed(volume["size.bin"].data)'
    BY <2>1, <2>2, <2>4, <2>5, <2>6, <2>7 DEF Listed
  <2> QED
    BY <1>2, <2>1, <2>2, <2>3, <2>8
       DEF Tidy, Rest, SizeOpenPc, VideoOpenPc, LoopPc
<1> QED
  BY <1>1, <1>2 DEF TakePicture

\* The size of the image is listed; after a snapshot the write goes nowhere.
LEMMA TidySize ==
    ASSUME Faults = {}, TypeOK, Fits, Tidy, WriteSize
    PROVE  Tidy'
<1> USE DEF At, Goto
<1>4. SizeOfInt \in Nat /\ SizeOfInt \in Int /\ SizeOfInt =< SizeOfInt
  BY DEF SizeOfInt
<1>5. f_write(file1, SizeOfInt, SizeOfInt, file1', volume')
  BY DEF WriteSize
<1>1. /\ file1' = file1
      /\ volume' = IF file1.fs /\ ~file1.err
                    THEN Appended(file1.name, SizeOfInt) ELSE volume
  BY <1>4, <1>5, NoFaultWrite
<1>2. CASE pc = "snapSize"
  <2>1. ~file1.fs /\ volume' = volume /\ pc' = "snapData"
    BY <1>1, <1>2 DEF WriteSize, Tidy, SizeOpenPc
  <2> QED
    BY <1>1, <1>2, <2>1, TidyOutside DEF VideoOpenPc
<1>3. CASE pc = "recSize"
  <2> DEFINE s == volume["size.bin"].data
             v == volume["video.bin"].data
             r == [ses |-> session, img |-> image, of |-> size, len |-> SizeOfInt]
  <2>1. /\ pc' = "recData" /\ left' = size
        /\ UNCHANGED <<file2, frames, image, size>>
    BY <1>3 DEF WriteSize
  <2>2. s \in Seq(Record) /\ v \in Seq(Record) /\ r \in Record
    BY DEF TypeOK, File, Names, Record, SizeOfInt
  <2>3. r.img = image /\ r.of = size /\ r.of \in Nat
    BY <1>3 DEF Fits, WritingPc
  <2>4. Agree(s, v, image, 0) /\ \A i \in DOMAIN s : s[i].img[2] < image[2]
    BY <1>3 DEF Tidy, Rest, Listed, LoopPc
  <2>5. volume' = [volume EXCEPT !["size.bin"].data = Append(@, r)]
    <3>1. file1.fs /\ ~file1.err /\ file1.name = "size.bin"
      BY <1>3 DEF Tidy, SizeOpenPc, Valid
    <3> QED
      BY <1>1, <3>1 DEF Appended, SizeOfInt
  <2>6. /\ volume'["size.bin"].data = Append(s, r)
        /\ volume'["video.bin"].data = v
    <3>1. volume \in [Names -> File]
      BY DEF TypeOK
    <3> HIDE DEF r
    <3> QED
      BY <2>5, <3>1 DEF Names, File
  <2>7. \A i \in DOMAIN s : s[i].img[2] <= frames
    BY <1>3 DEF Tidy, Listed, LoopPc
  <2>8. image[2] = frames /\ frames \in Nat
    BY <1>3 DEF Tidy, Listed, LoopPc, TypeOK
  <2> HIDE DEF r, s, v
  <2>9. Agree(Append(s, r), v, image, size)
    BY <2>2, <2>3, <2>4, AgreeSize
  <2>10. \A i \in DOMAIN Append(s, r) :
            Append(s, r)[i].img[2] <= frames
    BY <2>2, <2>3, <2>7, <2>8
  <2>11. \E i \in DOMAIN Append(s, r) : Append(s, r)[i].img = image
    <3>1. /\ Len(s) + 1 \in DOMAIN Append(s, r)
          /\ Append(s, r)[Len(s) + 1] = r
      BY <2>2
    <3> QED
      BY <2>3, <3>1
  <2>12. Listed(volume["size.bin"].data)'
    BY <2>1, <2>6, <2>10, <2>11 DEF Listed
  <2>13. Agree(volume["size.bin"].data, volume["video.bin"].data, image, Rest)'
    BY <2>1, <2>6, <2>9 DEF Rest
  <2> QED
    BY <1>1, <1>3, <2>1, <2>12, <2>13 DEF Tidy, SizeOpenPc, VideoOpenPc, LoopPc
<1> QED
  BY <1>2, <1>3 DEF WriteSize

\* Every chunk brings the bytes of the image closer to its listed size, and
\* the last one brings them there.
LEMMA TidyData ==
    ASSUME Faults = {}, TypeOK, Apart, Fits, Tidy, WriteData
    PROVE  Tidy'
<1> USE DEF At, Goto
<1> DEFINE len  == ChunkLen
           more == IF left > Chunk THEN left - Chunk ELSE 0
<1>5. pc \in {"snapData", "recData"}
  BY DEF WriteData
<1>1. len \in Nat /\ more \in Nat /\ left = len + more /\ left \in Nat
  BY <1>5, ChunkAssumption DEF Fits, ChunkLen, LastChunk
<1>6. len =< Behind /\ Behind \in Int /\ len \in Int
  BY <1>1, <1>5, FittingChunk
<1>7. ~Overruns(file2, ChunkLen, Behind)
  BY <1>1, <1>6 DEF Overruns
<1>8. f_write(file2, len, Behind, file2', volume')
  BY <1>7 DEF WriteData
<1>2. /\ file2' = file2
      /\ volume' = IF file2.fs /\ ~file2.err
                    THEN Appended(file2.name, len) ELSE volume
  <2> HIDE DEF len
  <2> QED
    BY <1>1, <1>6, <1>8, NoFaultWrite
<1>3. CASE pc = "snapData"
  <2>1. file2.fs => file2.name = "snapshot.jpg"
    BY <1>3 DEF Apart, HandlesFresh, Fresh, SnapOpenPc
  <2>2. file2 \in Handle
    BY DEF TypeOK
  <2>3. UNCHANGED <<volume["size.bin"], volume["video.bin"]>>
    <3> HIDE DEF len
    <3> QED
      BY <1>6, <1>8, <2>1, <2>2, WriteEffect DEF Names
  <2>4. pc' \in {"snapData", "snapClose1"} /\ file1' = file1
    BY <1>3, <1>7 DEF WriteData
  <2>5. ~file1.fs
    BY <1>3 DEF Tidy, SizeOpenPc
  <2> QED
    BY <1>3, <2>3, <2>4, <2>5, TidyOutside DEF VideoOpenPc
<1>4. CASE pc = "recData"
  <2> DEFINE s == volume["size.bin"].data
             v == volume["video.bin"].data
             r == [ses |-> session, img |-> image, of |-> size, len |-> len]
  <2>1. UNCHANGED <<file1, frames, image>>
    BY <1>7 DEF WriteData
  <2>2. s \in Seq(Record) /\ v \in Seq(Record)
    BY DEF TypeOK, File, Names
  <2>3. r \in Record
    <3> HIDE DEF len
    <3> QED
      BY <1>1 DEF Record, TypeOK
  <2>4. r.img = image /\ r.len = len
    OBVIOUS
  <2>5. Agree(s, v, image, len + more) /\ \E i \in DOMAIN s : s[i].img = image
    BY <1>1, <1>4 DEF Tidy, Rest, Listed, LoopPc
  <2>6. volume' = Appended("video.bin", len)
    <3>1. file2.fs /\ ~file2.err /\ file2.name = "video.bin"
      BY <1>4 DEF Tidy, VideoOpenPc, Valid
    <3> HIDE DEF len
    <3> QED
      BY <1>2, <3>1
  <2>7. volume \in [Names -> File]
    BY DEF TypeOK
  <2>8. volume'["size.bin"].data = s
    BY <2>6, <2>7 DEF Appended, Names
  <2>9. Agree(s, volume'["video.bin"].data, image, more)
    <3>1. CASE len = 0
      <4>1. volume' = volume
        BY <2>6, <3>1 DEF Appended
      <4>2. len + more = more
        BY <1>1, <3>1
      <4> QED
        BY <2>5, <4>1, <4>2
    <3>2. CASE len # 0
      <4>1. volume'["video.bin"].data = Append(v, r)
        <5>1. volume' = [volume EXCEPT !["video.bin"].data = Append(@, r)]
          BY <2>6, <3>2 DEF Appended
        <5> HIDE DEF r
        <5> QED
          BY <2>7, <5>1 DEF Names, File
      <4> HIDE DEF r, s, v, len, more
      <4> QED
        BY <1>1, <2>2, <2>3, <2>4, <2>5, <4>1, AgreeData
    <3> QED
      BY <3>1, <3>2
  <2>10. \/ pc' = "recData" /\ left' = more
         \/ pc' = "recTest" /\ more = 0
    BY <1>4, <1>7 DEF WriteData
  <2>11. Rest' = more
    BY <2>10 DEF Rest
  <2>12. Listed(volume["size.bin"].data)'
    BY <1>4, <2>1, <2>5, <2>8, <2>10 DEF Tidy, LoopPc, Listed
  <2>13. Agree(volume["size.bin"].data, volume["video.bin"].data, image, Rest)'
    BY <2>1, <2>8, <2>9, <2>11
  <2> QED
    BY <1>2, <1>4, <2>1, <2>10, <2>12, <2>13
    DEF Tidy, SizeOpenPc, VideoOpenPc, LoopPc
<1> QED
  BY <1>3, <1>4 DEF WriteData

\* Closing changes neither file.
LEMMA TidyClose ==
    ASSUME Faults = {}, TypeOK, Tidy, closeFile
    PROVE  Tidy'
<1> USE DEF At, Goto, frame, SizeOpenPc, VideoOpenPc, LoopPc
<1>1. UNCHANGED <<volume, image, left>>
  BY DEF closeFile
<1>2. file1 \in Handle
  BY DEF TypeOK
<1>3. ~Invalidate(file1).fs
  BY <1>2 DEF Invalidate, Handle
<1>4. CASE pc \in {"snapClose1", "snapClose2"}
  <2>1. ~file1.fs /\ pc' \in {"snapClose2", "snapDone"}
    BY <1>4 DEF Tidy, closeFile
  <2>2. ~file1'.fs
    BY <1>3, <2>1, NoFaultCalls DEF closeFile
  <2> QED
    BY <1>1, <1>4, <2>1, <2>2, TidyOutside
<1>5. CASE pc = "recClose1"
  <2>1. pc' = "recClose2" /\ file1' = Invalidate(file1) /\ file2' = file2
    BY <1>5, NoFaultCalls DEF closeFile
  <2> QED
    BY <1>1, <1>3, <1>5, <2>1 DEF Tidy, Rest
<1>6. CASE pc = "recClose2"
  <2>1. pc' = "recDone1" /\ file1' = file1
    BY <1>6 DEF closeFile
  <2> QED
    BY <1>1, <1>6, <2>1 DEF Tidy, Rest
<1> QED
  BY <1>4, <1>5, <1>6 DEF closeFile

\* When no call fails the invariant holds.
LEMMA TidyInvariant ==
    ASSUME Faults = {}
    PROVE  Spec => []Tidy
<1>1. Init => Tidy
  <2> SUFFICES ASSUME Init PROVE Tidy
    OBVIOUS
  <2>1. Agree(<<>>, <<>>, image, 0)
    BY AgreeEmpty
  <2> QED
    BY <2>1 DEF Init, Tidy, Rest, Closed, Gone, Names, SizeOpenPc, VideoOpenPc, LoopPc
<1>2. TypeOK /\ Apart /\ Fits /\ Tidy /\ [Next]_vars => Tidy'
  <2> SUFFICES ASSUME TypeOK, Apart, Fits, Tidy, [Next]_vars PROVE Tidy'
    OBVIOUS
  <2> USE DEF At, Goto, frame, SizeOpenPc, VideoOpenPc, LoopPc
  <2>1. CASE SDOpenSnapshot \/ SDOpenVideo
    BY <2>1, TidyOpen
  <2>2. CASE TakePicture
    BY <2>2, TidyPicture
  <2>3. CASE WriteSize
    BY <2>3, TidySize
  <2>4. CASE WriteData
    BY <2>4, TidyData
  <2>5. CASE closeFile
    BY <2>5, TidyClose
  <2>6. CASE IoInit \/ TestSnapshot \/ SnapshotDone \/ TestRecording
             \/ RecordingDone \/ DropStop
    <3>1. /\ pc \notin {"recUnlink2", "recOpen1", "recOpen2"} \cup VideoOpenPc
          /\ pc' \notin {"recUnlink2", "recOpen1", "recOpen2"} \cup VideoOpenPc
          /\ UNCHANGED files
      BY <2>6 DEF IoInit, TestSnapshot, SnapshotDone, TestRecording,
                  RecordingDone, DropStop
    <3>2. ~file1'.fs /\ UNCHANGED volume
      BY <3>1 DEF files, Tidy
    <3> QED
      BY <3>1, <3>2, TidyOutside
  <2>7. CASE TestStop
    <3>1. /\ pc = "recTest" /\ pc' \in {"recTest", "recGet", "recClose1"}
          /\ UNCHANGED <<file1, file2, volume, frames, image>>
      BY <2>7 DEF TestStop, files
    <3> QED
      BY <3>1 DEF Tidy, Rest, Listed
  <2>8. CASE Handler
    BY <2>8, TidyStutter DEF Handler, EnterHandler, SamplePins, SkipButton,
                             SetFlag, AwaitRelease
  <2>9. CASE User
    BY <2>9, TidyStutter DEF User, Press, Release
  <2>10. CASE UNCHANGED vars \/ Aborted
    BY <2>10, TidyStutter DEF Aborted, vars
  <2> QED
    BY <2>1, <2>2, <2>3, <2>4, <2>5, <2>6, <2>7, <2>8, <2>9, <2>10
    DEF Next, Main
<1> QED
  BY <1>1, <1>2, TypeCorrect, ApartInvariant, FitsInvariant, PTL DEF Spec

\* As long as no call fails, size.bin lists the images of video.bin in order,
\* each with as many bytes as main() said, wherever the chunk boundary falls
\* and whenever a button interrupts.  Each kind of failure refutes this:
\* FAT.c looks at no result.
THEOREM FilesAgree ==
    ASSUME Faults = {}
    PROVE  Spec => []SizesMatchVideo
<1>1. TypeOK /\ Tidy => SizesMatchVideo
  <2> SUFFICES ASSUME TypeOK, Tidy, pc \notin {"recUnlink2", "recData"}
               PROVE  SizesMatchVideo
    BY DEF SizesMatchVideo
  <2> DEFINE s == volume["size.bin"].data
             v == volume["video.bin"].data
  <2>1. Agree(s, v, image, 0)
    BY DEF Tidy, Rest
  <2>2. v \in Seq(Record)
    BY DEF TypeOK, File, Names
  <2>3. ASSUME NEW i \in DOMAIN s PROVE Stored(s[i].img) = s[i].of
    <3>1. s[i].of = BytesOf(s[i].img, v) + (IF s[i].img = image THEN 0 ELSE 0)
      BY <2>1 DEF Agree
    <3>2. BytesOf(s[i].img, v) \in Nat
      BY <2>2, BytesNat
    <3> QED
      BY <3>1, <3>2 DEF Stored
  <2> QED
    BY <2>1, <2>3 DEF Agree, SizesMatchVideo
<1> QED
  BY <1>1, TidyInvariant, TypeCorrect, PTL
=============================================================================
