# UAC: a formal model of the camera recorder

The program (`src/FINAL INTEGRATION`, C for an NXP LPC2468 ARM7) takes JPEG
pictures with a serial camera and stores them on an SD card: a push-button takes
one snapshot (`snapshot.jpg`), another starts a recording (`video.bin` with the
sizes of its images in `size.bin`), a third stops it.  This directory holds TLA+
modules translated from that code, the TLC configurations that check them and
TLAPS proofs about them.

## 1. The system

| Component | Source | State | Operations | Talks to |
|---|---|---|---|---|
| Recorder application | `UAC_MAIN.c`, `FAT.c`, `extint.c` | flags `takeSnapshot`, `startRecording`, `stopRecording`; file objects `file1`, `file2`; image buffer | `main` loop, `SDOpenSnapshot`, `SDOpenVideo`, `writeToSDCard`, `closeFile`; `EINT3_Handler` | FatFs by calls, camera by calls, the handler by shared plain ints |
| FatFs volume | `ffat_chan/ff.c` | `FATFS`: window (`win`, `winsect`, `winflag`), `last_clust`, `free_clust`; allocation table and directory on the card | `move_window`, `sync`, `create_chain`, `remove_chain`, `trace_path`, `reserve_direntry`, `f_open`, `f_write`, `f_sync`, `f_close`, `f_unlink`, `f_getfree`, `f_rename`, `f_mkdir`, `f_truncate` ... | block device by `disk_read`, `disk_write`, `disk_ioctl` |
| FatFs file I/O | `ffat_chan/ff.c` | `FIL`: `fptr`, `fsize`, one-sector `buffer`, `FA__DIRTY` | `f_read`, `f_write`, `f_lseek`, `f_truncate` | volume, block device |
| FatFs formatting and mounting | `ffat_chan/ff.c`, `ff.h` | none: the records of the card | `f_mkfs`, `auto_mount`, `check_fs`; `make_dirfile`, `get_fileinfo` | volume, block device |
| Time stamps | `rtc.c`, `diskio.c` | the registers of the clock | `RTCGetTime`, `get_fattime` | FatFs by calls |
| Block device and SD controller | `drivers_mthomas/diskio.c`, `drivers_nxp/mci.c`, `dma.c` | `Stat`, `Timer2`, `MCI_Block_End_Flag`, controller status and mask, card state | `disk_*`, `MCI_*_Block`, `MCI_IRQHandler`, card identification | card by commands; the handler by a volatile flag |
| Camera protocol | `spitest.c`, `spi.c` | `SPIRDData`, `acksync`, chip select | `sendSync`, `getInit`, `getImageQuality`, `getSnapshot`, `getPic` | OV529 over SPI |
| Monitor | `monitor.c` | none that matters | `xatoi`, `xitoa`, `xprintf`, `get_line` | UART |
| Support | `irq.c`, `target.c`, `timer.c`, `rtc.c`, `uart.c`, `sysinit.c`, `crt0.S`, `comm.c` (built, but all commented out) | hardware registers | set-up | hardware |

Two things run: `main()` and the interrupt handlers.  There is no operating
system and handlers do not nest; while `EINT3_Handler` runs (it busy-waits until
the button is released) `main()` is frozen.  `main()` shares three plain `int`
flags with `EINT3_Handler` and `MCI_Block_End_Flag` with `MCI_IRQHandler`.

What is hard here:

* a button interrupt between any two accesses of `main()` to the flags;
* every result of FatFs and of the camera is ignored, so a failed call is
  followed by the rest of the session as if it had succeeded;
* power failure between any two sector transfers of one FatFs call (pulling the
  plug is how the device is switched off);
* one dirty window shared by table and directory, whose write-back happens
  later and in the order in which the window moves, not in the order of the calls;
* waits without a timeout, and a timeout counter nothing decrements.

What makes each component correct: a session's file holds what was written in that
session and only that, presses are served (application); no two files share a cluster
on the card or in memory, what was closed survives, free space is accounted for,
calls end (volume); a file behaves as a byte array (file I/O); what `f_mkfs` writes
is what a mount finds (formatting); the initialisation succeeds only if card and
driver agree, a transfer that reports success moved the right sector, every
transfer ends (block device); an image is returned with its own size unless that was
damaged on the way, and a new one after a new snapshot (camera).  `PROJECT.json` lists the
hazards line by line.

## 2. What is modelled

### Recorder.tla, RecorderMC.tla

`main()`, the wrappers of `FAT.c` and `EINT3_Handler`.  `pc` says where `main()`
is; each FatFs call, and each read or write of a shared flag, is one step.
`isr`, `sampled`, `pins`, `pend` are the handler, its local copies of the pins,
the pins and the latched interrupt.  The handler clears the latch first and
reads the pins afterwards, so an edge in between is sampled and latched again;
a button that was up when sampled is skipped even if it goes down while the
handler waits for another.

FatFs appears through its results: a call does what it promises or, for the
kinds in `Faults`, ends as `ff.c` lets a failed call end.  `f_open` clears
`fp->fs` first (ff.c:834), `f_close` clears it only after a successful `f_sync`
(ff.c:1128), an error in `f_write` sets `FA__ERROR`, a full disk stores a
prefix and returns `FR_OK`.  The content of a file is the sequence of writes that
reached it, each tagged with its session, the image at the beginning of the buffer
(session and number) and the size `main()` had for it.

`TakePicture` is `getSnapshot` and `getPic` in one step, with what `Camera` says may come
of them: a new image with its size; a new image with a damaged size, which is the number
of bytes received; or, when the tries run out, no image and a `size` nobody assigned
(spitest.c:294, 359).  `Leftovers` are these sizes, any integers, negative and huge ones
among them.  The image buffer begins behind all variables and the stack
(`LPC2478-ROM.ld`:14, FAT.c:48), so a size too large harms nothing until it runs past the
end of the memory (`Ram`): that is a data abort, and the program stops in `__dabt: b .`
with the interrupts off (`Aborted`, crt0.S:80).  In `f_write` a negative length is one near
4 GB: it does nothing when the file is long enough for the sum to wrap (`Takes`,
ff.c:1008), and else writes on until the memory or the card ends (`Overruns`).

`RecorderMC` gives `Leftovers` their values and has the `VIEW` of the first run, which takes
states that differ only in dead variables for one, and looks at the sessions of a record
only, which is all the properties of that run read.

`if (startRecording==0 && stopRecording) stopRecording=0` is three steps, with
room for interrupts between them.

### FatVolume.tla

The allocation table, its copy, the root directory and the window of `ff.c`, on a
FAT16 layout with a static root directory and one sector per cluster.  The card
is `fat`, `copy`, `dir`, `data` (whose data a cluster holds); `win` is the
window; `fs` holds `fs_type # 0`, `last_clust`, `free_clust`; `fil` the `FIL`
objects; `pc` and `reg` the call in progress and its locals.

A call is a sequence of steps, and every transfer is one: `WriteBack` (the dirty
window), `WriteCopy` (the same sector of the second table, result ignored),
`ReadWindow`, `WriteData`.  A step that needs sector `Target` waits until
`move_window` has made the window show it.  `get_cluster` and `put_cluster` on
the same sector are merged: no transfer can come between them.  A failed
transfer leaves card and buffer alone and the call ends the way its error path
does (`IoError`): `f_write` sets `FA__ERROR` and stores 1 in `org_clust` if it was
creating the chain, `f_sync` and `f_close` leave the object open.

The calls that work on entries are there as well: `f_stat`, `f_utime`, `f_chmod`,
`f_rename` (which reserves and writes the new entry before it erases the old one)
and the listing by `f_opendir` and `f_readdir`, which is one step per entry and is
not interleaved with other calls.  `f_mount` forgets what is in memory; it is
called when no file is open, or at any time with the habit `"abandon"`.

`Crash` may come at any moment: the card keeps what it has, everything in
memory starts afresh.

What the application may do is bounded by `Habits`: without `"retry"` it does
not repeat an `f_close` that failed, without `"abandon"` it does not reopen a
file object that is open (this program does, after a failed `f_close`), without
`"getfree"` it does not ask for the free space, without `"admin"` it does not use
the calls on entries, without `"remount"` it mounts only once.  It never opens one file twice or
deletes an open one, which FatFs R0.05 does not support.

### FatVolumeMC.tla, and the modules it samples: Format, Layout, DirName, Clock

`FatVolumeMC` adds the symmetry sets: names and file objects are interchangeable.
Clusters and slots are not, they are scanned in order.

It also evaluates, as named `ASSUME`s, samples of what `FatVolume` takes for granted.
These modules are pure functions without a state, so they have no run of their own;
TLC evaluates the samples whenever it runs `FatVolumeMC`.

* `Format`: `f_mkfs` dividing the card and `auto_mount` working it out again, with the
  sizes that `disk_ioctl` computes from the registers of the card.  `EverySubType`,
  `MountFindsVolume` and `BlocksFit` hold; `OldRecordFound` documents a surprise, see
  below.  `FormatProofs` has the general statements.
* `Layout`: where `ff.h` puts the fields of the records and how `LD_` and `ST_` read
  and write them (`FieldsApart`, `SignatureFound`, `LoadedAsStored`).
* `DirName`: `make_dirfile` and `get_fileinfo`.  `ShownNameFindsEntry` says that a name as
  a listing shows it finds its entry again; `PairsChanged` that this is not so for
  the second bytes of S-JIS pairs.
* `Clock`: the registers of the clock read one by one while it runs, and the packed
  stamp.  `NeverBehind`: never earlier than the beginning of the call; `MayRunAhead`:
  but possibly later than its end.

### FatFile.tla, ByteFile.tla, FatFileMC.tla

The `FIL` object: `fptr`, `csect`, `curr_clust`, `curr_sect`, the one-sector buffer and
`FA__DIRTY`, with `f_open`, `f_read`, `f_write`, `f_lseek`, `f_truncate`, `f_sync` and
`f_close`.  A step is one round of a loop or one transfer: `GetCluster` (the next
cluster, or a new one), `ReadDirect` and `WriteDirect` (whole sectors, straight
between caller and card), `FlushBuffer`, `FillBuffer`, `CopyOut`, `CopyIn`; `Walk`, `Arrive`
and `Land` are `f_lseek`.  The chain is a sequence of clusters and `curr_clust` a place
in it; how the table keeps the chain is the matter of `FatVolume`.  Other files take
and free clusters as they like, so any search for a cluster may come back empty.

`ByteFile` is the abstract file: a sequence of bytes with a position.  `FatFile`
refines it: the bytes are the sectors of the chain seen through the buffer.  The
abstract file promises nothing once the object is not `sane`, and these are the cases
in which `ff.c` does not behave like a file of bytes:

* after an error (`FA__ERROR`);
* when whole sectors go past the buffer and one of them is in it: `f_write` leaves the
  older copy in the buffer, `f_read` gives the older copy on the card (`Overlaps`).

An error-free sequence of calls can reach the second case.  `Wrap` is 4 GB scaled down; a
write that would take the file there is refused (ff.c:1008) and no position wraps.

The answers are those of the code: `FR_OK` also when a write is refused near 4 GB (no
bytes), when the card is full (ff.c:1021, 1058: the bytes so far) and when `f_lseek` is
clipped (1152, 1184).  `AnswerRight` says in which cases `FR_OK` may mean less than what was
asked for, and that the position is behind the bytes that were counted.

`f_truncate` frees a cluster although a dirty sector of it may be in the buffer, which
the next flush writes to a cluster that may belong to another file by then; the
model has the write, and the file's own bytes are not affected.

### Disk.tla

What `ff.c` may rely on below it, as an abstract specification: a call begins
and returns; between the two a write may be taken by the card, which programs it
later.  A read that returns `RES_OK` returns the stored sector, a write returns
`RES_OK` if and only if the card took it, `CTRL_SYNC` returns `RES_OK` only when
nothing is left to program.  A call need not return.

### Mci.tla

`disk_read`, `disk_write` (one sector) and `disk_ioctl(CTRL_SYNC)` with
`MCI_Read_Block`, `MCI_Write_Block`, `MCI_IRQHandler`, the controller and the
card.  One step of the driver (`pc`, `reg`) is one command to the card or one
access to something the handler or the controller changes too: `Clear` and
`Disable` are `MCI_CLEAR = 0x7FF` and `MCI_DATA_CTRL = 0`, `SetFlag` and `Enable`
set `MCI_Block_End_Flag` and the data interrupts (a read does it in the opposite
order of a write), `Command` is one attempt of `MCI_Send_Read_Block` or
`MCI_Send_Write_Block`, `Start` switches the data path on, `Wait` is the loop on
the flag.  `status` and `enabled` are the data flags of `MCI_STATUS` and their mask;
the handler serves one flag per step in the code's order of priority.

The card (`card`, `blk`) has the states of the SD state diagram that the driver
can see.  It is external code, modelled by what the driver asks of it: `CardSends`,
`CardTakes`, `CardPrograms`, with `DataTimeout` and `Signal` for the controller.
`Faults` chooses what goes wrong: a command is lost, a command is obeyed but its
answer is lost, CMD13 is not answered for a whole `MCI_Send_Status`, a block is
damaged or late, a block is sent before the data path is on.

`SELECT`, `DESELECT` and `wait_ready` ask the card for its state until they like
it; each loop is one step that waits.  `Timer2` is not a variable: the program
never changes it after it is set to a positive value.  `MCI_CheckStatus` fails only
if the card is mute, and the CMD12 it is followed by has no effect on a card in
`tran`.  Left out: the moment between the end of a block and the last word leaving
the DMA channel, the error interrupts of the receiver that `MCI_TXDisable` leaves
enabled when no block is under way, and the parameter and `Stat` checks.

`Promise` is the refinement mapping to `Disk`: a block a card is programming counts
as stored, and as the only one that is not safe.

### CardInit.tla, SdCard.tla, SdCardMC.tla

`CardInit` is `disk_initialize` with `MCI_CardInit` down to the single command: CMD0,
CMD8, ACMD41, CMD1, CMD2, CMD3, CMD9, CMD7, ACMD6, CMD16 and ACMD13 with their loops
(`tries`, and `appTries` for the CMD55 in front of an ACMD), and `power_off`.  `place` is the
command that comes next.  Each command has its own idea of a good answer: CMD8
takes one with a wrong check sum, CMD3 goes on with a response nobody has written
after a wrong check sum, a failed CMD55 before ACMD6 does not count as a try.  The card
is one of four kinds, cold or left in `tran` by a reset of the processor alone.

`SdCard` composes it with `Mci`: the initialisation until it has succeeded, then the
transfers, with faults out of one budget.  The two runs of the driver are runs of
`SdCard`, so everything the transfers promise is checked from power-up on.

What the model shows of the initialisation without a property of its own: if the
answers to ACMD41 and CMD1 are lost, the type stays `SDV2` and `disk_initialize` still
succeeds (`InitSound` then promises neither width nor addressing); a lost answer to CMD3
or CMD7 makes the retries useless, because the card has moved on; `power_off` ends in a
`SELECT` without end if the card does not know the address; the 4-bit width of the
controller is not reset; nothing detects a flipped bit in an answer without a check
sum.

### Camera.tla, CameraMC.tla, Monitor.tla

`setupCamera` and `takePicture` of `spitest.c` on `SPISend` and `SPIReceive`: `sync`, `init`,
`quality`, `snapshot`, `getPicture`, each a loop of at most `Tries` attempts, an attempt a
packet out and one in.  The camera is modelled from what the code expects of it: the
acknowledgements it still owes (`acks`) and what follows them (`data`).  Commands and
answers are lost, refused, garbled or late.  Damage turns a packet into any other, one
the code takes for what it expects among them: `isAck` leaves two bytes of an answer
unchecked, and `getPic` the last four of a header, three of which are the size
(spitest.c:329-343).  So a header may be `Misread`: the size returned is `Wrong`, and as many
bytes are received, too few, too many, or more than there is of memory (`"abort"`).
`deceived` remembers that something damaged has passed a check.  A picture is named by the
call of `takePicture` in which it was taken, so a size and a buffer can be compared with the
call and with each other.  Damage to the picture itself is not modelled: the protocol
cannot detect it.  `resetCam` and `record` are never called.

`Monitor` is `xitoa`, `xprintf`'s widths and `xatoi` on a word of `Word` values.  `CameraMC`
samples it: `NumbersReadBack`, `WidthKept`, and `Oddities` (a width of two digits
counts eleven for ten, `%04d` puts the sign behind the zeros, `xatoi` takes `:` to `?` as
hexadecimal digits).

### The proof modules

`RecorderProofs`, `FatVolumeProofs` and `FatVolumeDurable` (which builds on it),
`FatFileProofs`, `FormatProofs`, `CardInitProofs`, `SdCardProofs` (for `Mci` and `SdCard`)
and `CameraProofs`, see section 4.

## 3. The runs

| Run | Bounds | What it shows |
|---|---|---|
| `recorder_faults` | 3 presses, two images per session, 2 bytes in chunks of 1 and 2 bytes of memory, sizes -1, 1 and 3 when the camera fails, every fault | `TypeOK`; `ImagesKeepTheirSession`, `NoWriteToDeleted` and their reason `HandlesFresh`; `SnapshotKeepsRecording` |
| `recorder_live` | 3 presses, two images, sizes at and off the chunk boundary, no faults | `SizesMatchVideo`; `StopEndsRecording`, `SnapshotServed`, `StartServed` |
| `volume_faults` | 2 clusters over two table sectors, 2 slots over two directory sectors, 2 names, one object, failures of mount, read, write and power | `TypeOK`, `WindowCoherent`, `CrashSafe`, `FilesApart`, `Durable` |
| `volume_crash` | as above with two objects open at once and two copies of the table; power failure, and writes of the copy may fail | `CrashSafe`, `FilesApart`, `Durable` |
| `volume_live` | one object, no faults; `f_getfree`, the calls on entries, repeated mounts | `FreeCountExact`, `NoLostCluster`, `FilesApart`, `Durable`, `CallsReturn` |
| `file` | 3 clusters of 2 sectors of 2 bytes, `Wrap` = 12, 5 calls with sizes 1, 2, 5 and offsets on and off every boundary, every fault | `TypeOK`, `PositionRight`, `AnswerRight`, `Saved`, `FileImplemented`, `CallsReturn` |
| `mci_faults` | `SdCard`: 4 kinds of card, 2 tries of every command, 2 sectors, 2 blocks, any 2 faults of every kind | `TypeOK`, `FlagMeansDone`, `CardTypeOK`, `InitSound`, `DiskImplemented` |
| `mci_live` | `SdCard`: SDHC and MMC, 5 tries in the initialisation, any 3 lost commands or mute CMD13 | `CallsReturn`, `InitComesUp` |
| `camera` | the tries of the code (60, 15, 1, 15, 30), 3 pictures, any 5 faults of every kind | `TypeOK`, `PictureWhole`, `PictureFresh`, `RetriesSuffice`, `CameraReturns` |
| `mci_data_error` | one damaged block | violation of `HardErrorReturned`, see below |
| `mci_timeout` | one lost answer | violation of `TimeoutsEnd`, see below |
| `volume_retry` | failing writes, `f_close` may be repeated | violation of `ClosedDataOnCard`, see below |

Bounds.  Three presses are enough for start, stop and one more press at any
moment, and for two sessions on the same file with faults in either.  Two data
clusters split over two table sectors let every allocation and removal move the
window between sectors, fill the card with two files of one cluster or one file
of two, and make the search wrap round; two slots in different sectors separate
the directory entries of two files.  `MaxSize` bounds a file to the card.
`MaxPresses` and `MaxFrames` bound what the user does; once `MaxFrames` images
are stored the recording loop goes round without storing more, so the bound
never keeps it from seeing the stop flag.  Two faults are enough to lose every
attempt at a command (`Retries` and `Tries` are 2 instead of 0x20 and more), or to
let one transfer fail and disturb the next; two sectors and two blocks tell a right
transfer from a wrong one.  `mci_faults` does not check for deadlock: after a damaged
block the program does stop.  In `file`, two sectors of two bytes make every case of
alignment (inside a sector, on a sector, on a cluster), a write of five bytes crosses
a cluster and has a part in front, a whole sector and a part behind, three clusters fill
up, and five calls are an open, three calls and a close; `MaxCalls` is why it may stop.
In `camera` the tries are those of the code and the five faults fewer: a stale picture
after an acknowledged snapshot needs, with 30 tries of `getPicture`, 62 faults
(`PictureOfThisCall` in section 4), which the bound excludes.  Five are enough for every
kind of fault in one call, damage that passes a check included, and for answers of one
call that are read in the next.

`"admin"` is not combined with power failures: `f_rename` writes the new entry before it
erases the old one, so a power failure in between leaves two entries with one chain
(`CrashSafe` would be false), which `ff.c` accepts rather than losing the file.

Fairness.  `Recorder!FairSpec` is weakly fair to `main()` and to the handler (one
processor that never stops, each of them is always enabled when it can run) and
to the release of a button that is down; nobody has to press anything.
`FatVolume!FairSpec` and `FatFile!FairSpec` are weakly fair to the steps of a call that
has begun.  `Mci!FairSpec` is weakly fair to the driver, to the handler, and to the card
and controller finishing what they have begun; `SdCard!SdFairSpec` adds the commands of
the initialisation.  `Camera!FairSpec` is weakly fair to the driver and to the ready
pin coming back: the second is an assumption about the camera, since no count and no
timer bounds the loops on the pin.  No fairness is assumed of faults or of calls.

What the properties mean beyond their names: `CrashSafe` is a statement about
the card alone, at every instant, so it is what a restart finds.  `FilesApart` is
the same statement about what the program sees (window over card, open objects
over entries).  `Durable` ties the return value of `f_close` and `f_sync` to the
card from then on, through renames too.  The three of them read the first table only: `ff.c` never reads the second,
so a failed write of the copy, which `volume_crash` has, has no effect that could be seen.
`ImagesKeepTheirSession` does not say that all a file holds are pictures of its session:
after a failed `getPic` `main()` writes what the buffer holds, be it of a session before.
It says that the writes are all of one session, and that no older picture follows a new one.
`PictureWhole` compares the size returned with the picture in the buffer, `PictureFresh` with
the call that asked for it; `PictureWhole` and `RetriesSuffice` leave out the calls in which
the size bytes were damaged, or damage passed for the right packet, which the code cannot
know.  `CameraReturns` then adds that only such a size may stop the program.
`InitSound` says when the success of `disk_initialize` can be believed.

### The disagreements found

`volume_retry`: `f_sync` clears `FA__WRITTEN` (ff.c:1100) before `sync()` has
written the window.  If that write fails the call returns `FR_RW_ERROR`, but a
second `f_close` then finds nothing to do and returns `FR_OK`, although start
cluster and size never reached the card.  `doc_eng/en/close.html:49` says: "If any
data has been written to the file, the cached information of the file is
written back to the disk."  The recorder itself does not repeat `f_close`.

`mci_data_error`: a CRC error, timeout, underrun or overrun of a data block makes
`MCI_DataErrorProcess` clear the status bit, and nothing else.  `MCI_Block_End_Flag`
stays 1, and `disk_read` (diskio.c:515) or `disk_write` (588) waits for it for ever,
while `doc_eng/en/dread.html:47` has `RES_ERROR` for "Any hard error occured during
the read operation".

`mci_timeout`: the answer to CMD24 is lost; the card waits for the block and refuses
the retries; `disk_write` returns `RES_ERROR` without a CMD12; the next call waits
in `DESELECT` for a card in `tran` or `stby`.  The loop would end on `Timer2`, the
"1000Hz decrement timer" (diskio.c:63), but `disk_timerproc` is never called.

### Behaviour met while modelling

Not disagreements with a statement of the repository, but worth knowing; the models have
them, and the properties are stated so as to say where they bite.

* File buffer: direct transfers do not look at the buffer (ff.c:943, 1038); `f_truncate`
  does not either, and an error of `remove_chain` leaves a chain cut half way.
* `write.html:60` says of fewer bytes written than asked for "it means the disk got full";
  near 4 GB (ff.c:1008) `f_write` returns `FR_OK` and no bytes on a card with room.
  `AnswerRight` has both cases, and `lseek.html:53-57` those of a clipped `f_lseek`.
* The size of a picture is used unchecked (spitest.c:343), or not assigned at all (359):
  damaged or left over it can stop the program in a data abort, in the middle of a session.
* `f_rename` is not atomic against power failure, see above.
* `f_mkfs` writes the partition table into the window as it was left: if that held the boot
  record of an older volume, sector 0 keeps its signature and a mount takes it for the
  volume (`OldRecordFound`).  It stores the size of a FAT16 table in 16 bits and does
  not check that there is room for a whole erase block (`Fits`; true of every card with
  blocks of at most 16 MB).
* The clock is never set or started by this program; a stamp read while the
  registers change may be up to a year ahead, never behind.

## 4. The proofs

All are for every value of the constants that meets the named `ASSUME`s of the module
concerned.

`RecorderProofs`, for every chunk size, set of image sizes and of sizes left over (any
integers), amount of memory, set of faults and bound:

* `TypeCorrect`: `Spec => []TypeOK`;
* `SessionsApart`: `Spec => []ImagesKeepTheirSession`;
* `NothingToDeleted`: `Spec => []NoWriteToDeleted`;
* `OnlyOwnPictures`: if `"camera" \notin Faults`, every write to an image file starts with a
  picture taken in the session it is made in;
* `ObjectsOfTheSession`: `Spec => []HandlesFresh`;
* `RecordingSurvivesSnapshot`: `Spec => SnapshotKeepsRecording`;
* `FilesAgree`: `Spec => []SizesMatchVideo` if `Faults = {}`.

Neither safety property is inductive: that writes land in the right file depends
on what the handles can refer to.  The inductive invariant `Apart` adds
`HandlesFresh`: `file1` is never anything but `size.bin` and, outside the two
steps between its unlink and its reopening, its file is on the card; from the
`f_open` of a session to its last `f_close` a valid `file2` is this session's
image file, holds nothing written in another session, and has a picture of this session
only if the buffer has one too.  The proof has one lemma per group of
steps of `main()` (unlink, open, write, close, flag tests) and one for the handler and
buttons, which leave files alone.

`FilesAgree` is about a recorder whose calls all succeed: TLC refutes `SizesMatchVideo` as
soon as any one kind of failure is allowed.  Its invariant `Tidy` says which files are open
and which are deleted where in `main()`, that the images of `size.bin` are those of the session
in order (`Listed`), and that `video.bin` has as many bytes of each as `size.bin` says, but for
the rest of the image that is being written (`Agree`).  The bytes of an image are a recursive
sum over the file; what an `f_write` adds to it is proved by induction on the length of the
file, from the well-foundedness of `Nat` in the library (`LeastNumber`, `AllNumbers`,
`SumsExist`): the library's own induction theorems take an operator as a parameter and
cannot be used.

`FatVolumeProofs`, for every layout of table and directory (`FatSector` and `DirSector`
arbitrary), set of names, number of file objects, set of faults and habits:

* `VolumeTypeCorrect`: `Spec => []TypeOK`.  `TypeOK` is inductive only because its
  part `CallOK` says which locals of a call are valid where: `reg.rs` is a cluster
  when `remove_chain` or the reopening uses it, the window shows a sector when an
  entry is changed in it.
* `WindowAlwaysCoherent`: `Spec => []WindowCoherent`, inductive relative to
  `TypeOK`: every step that changes the card's table or directory is a write of
  the window, every step that changes the window marks it dirty or reads it
  afresh.

There is one lemma per action; the long records `fil` and `reg` have lemmas of their
own on what an assignment to one field keeps.

Its second half, for the same constants, provided `"admin" \notin Habits` (no `f_rename`,
which gives two entries one chain for a while, see section 3):

* `CardSurvivesCrash`: `Spec => []CrashSafe`;
* `FilesStayApart`: `Spec => []FilesApart`.

Neither is inductive: that a freed cluster is in no other chain, or that a new one may be
linked, depends on whose it is, and no variable says that.  The invariant `ApartInv`
says that there *is* an assignment of clusters to slots (`own`; 0 for clusters of a chain
that is being removed or was lost) under which no link leaves its owner's
clusters, no two links meet, and the head of a chain belongs to its entry or file object
and is pointed to by no link (`Vol`); and that the call in progress has found what it
goes by (`Found`: the cluster `remove_chain` comes to is the head of a chain of nobody, the
one `create_chain` has marked is referred to by nobody, the entry `f_open` empties is
blank and no object is open on it).  It holds twice: of the volume the program sees
(`NowApart`) and of the card without open objects (`CardApart`), which is why a power failure
costs at most clusters of nobody.  Six lemmas about tables and directories (`Mark`, `Link`,
`Free`, `Release`, `Store`, `ObjectChanges`) say what a change does to `Vol`; every action
is one of them, or changes nothing.  `own` changes where clusters change hands, in `Mark`
and `Release` only.

Its third part is about a card whose transfers succeed (a mount and the copy of the table
may fail), under the same assumption on `Habits`:

* `FreeCountStaysExact`: `Spec => []FreeCountExact`, if `NoFaults` (`Faults` without `read` and
  `write`; power may fail).  The invariant `FreeInv` has what is between two of the counter's
  changes: a cluster that is marked is counted one step later (`Taken`), the cluster
  `remove_chain` is at is in use (`Removing`), and `f_getfree` has counted the sectors before
  the one it is at (`Counting`).  It rests on `NowApart`: a link to a freed cluster would let
  `remove_chain` count it twice.
* `NothingIsLost`: `Spec => []NoLostCluster`, if `NoFaults` and `AllCloses` (neither `crash` nor
  `abandon`).  The invariant `KeptInv` says that there *is* a numbering of the clusters
  under which every cluster in use is a head or has the number after that of a cluster that
  links to it (`Reached`): an allocation numbers one cluster, everything else keeps the
  numbers, so no step has to speak of whole chains.  A head can be forgotten where a file
  object is closed, which needs `Stored` (without anything to store it starts where its
  entry does), and where the volume is mounted again, which needs `Held` (between two calls
  the window holds something back only if a file object does).  At the end, `WalksExist` turns
  the numbers into a walk from a head by induction, `WalkIsShort` bounds it (its numbers
  differ, so do its clusters) and `WalkIsChain` says that it is what `Chain` computes.

TLC refutes both as soon as `read` or `write` is among the `Faults`, and the second one with
`crash` or `abandon` alone.

`FatVolumeDurable`, for the same constants, *every* set of `Faults`, files abandoned or not,
and any number of remounts, provided `"admin" \notin Habits` and `"retry" \notin Habits`:

* `ClosedFilesAreDurable`: `Spec => []Durable`: what `f_close` or `f_sync` answered `FR_OK` for
  is on the card, entry and every sector, until that file is written, emptied or deleted.

Without the second assumption it is false (`ClosedDataOnCard`, section 3).  The first one is
that of `ApartInv`, which this proof uses throughout: a write or a removal cannot touch the
sectors of a file that has other clusters.  The invariant `Promised` has two halves, each about
what the program sees (`FatNow`, `DirNow`) *and* what the card has (`fat`, `dir`).

The directory, `DirInv`: a promised file has its entry in both, with the size promised
(`Owed`); no entry is behind the end mark or behind one of its own name (`Ordered`, which
`reserve_direntry` keeps because of what `trace_path` has found out, `Searched`); an object
that `f_close` will let go at once has an entry that is up to date in both (`Settled`, but for
the object whose `f_sync` waits for the window: `Flushing`); and no promise stands for a file
that is being written, emptied or deleted (`Unpromised`).

The data, `DataInv`: from each entry the program sees, and from each file object, a walk along
links goes through as many clusters, filled with that file's data, as its size says
(`EntriesRun`, `ObjectsRun`), and the current cluster of the object is where its file pointer
says (`AtCurrent`).  From each entry on the card *one* walk goes along the links of both
tables (`CardRuns`): so the write of a sector or the removal of a chain, which go by the
table in the window, spare what only the card still says.  For this the entry seen has the same
start, or nobody has it (`Loose`).  `WalksApart` then says that walks from two heads never
meet, by induction with `LeastNumber`, and `KeptFilled`, `FreedWalk` and `GrownWalk` what a
write, a removal and an allocation leave of a walk.  The invariant would not hold without the
order in which `ff.c` does things: between the moment an entry is emptied and its first cluster
is freed the window is written back, because table and directory are in different sectors
(`TableShown`), so the card never has an entry whose clusters are gone.

TLC had checked `Promised` first, on bounds like those of `volume_faults`.

`FatFileProofs`, for every size of a sector, number of sectors in a cluster (1 to 128, as
`auto_mount` accepts), `Wrap` that is a multiple of the cluster's size (2^32 is), set of
clusters, sizes, offsets and faults, and any number of calls:

* `FileTypeOK`, `FilePositionRight`, `FileAnswerRight`, `FileSaved`: `Spec => []` of
  `TypeOK`, `PositionRight`, `AnswerRight` and `Saved`;
* `FileRefines`: `Spec => FileImplemented`, the refinement of the file of bytes `ByteFile`
  (while `sane`, see section 2).

`PositionRight` speaks of the moments between two calls; within a call `curr_clust`,
`csect` and the position are set one after the other.  The invariant `IInv` says of each
stage what is right already: `Placed` (cluster and sector are those of the byte *before*
the position, which is what FatFs stores), `Entered` (those of the byte at it, once the
loop has moved on to a cluster), `Held` (inside a sector the buffer has that sector),
`Moving`, `Walking` and `Landing` (how position, bytes left and bytes done add up in the
loop, in `f_lseek`'s walk and after it), `Simple` and `LongEnough` (no cluster twice in
the chain, and enough of them for the size), `Coherent` (a clean buffer shows the card,
except for the one `Fresh` sector behind the end of the file that `f_write` takes over
without reading it) and `Marked` (what the card or the entry lacks is marked by
`FA__DIRTY` or `FA__WRITTEN`).  A first part of the module is the arithmetic of
positions: `Row` and `Col` are the cluster and the sector of a byte, `Split` and `Join`
say that with the remainder they are the position, `NextByte`, `Boundary`, `SpanOf` and
`CeilSector` what the tests of `ff.c` (`fptr % SS`, `csect >= csize`, a whole number
of sectors, the rounding up in `f_lseek`) find out about them.  Only there the sizes
of sector and cluster are multiplied out.

`AnswerRight` needs an invariant of its own, `Owes`, on top of `IInv`: what a call still owes
its caller at each stage (`LoopOwes`: nothing has been dropped but what lies behind the end
of a file that is read; `WalkOwes` and `LandOwes`: `f_lseek` is on its way to its goal, or to
the end it is cut to; a loop that is left early has filled the chain, `Filled`).  There is a
lemma for every action.

For the refinement the file of bytes is the chain read through the buffer
(`Through`).  `WhereInjective` says that two bytes of a chain without repetition are in
one place only if they are one byte, so that a write of a sector touches no other byte of
the file; every transfer then replaces a piece of the file by a piece of the caller's
bytes (`Patch`, for both ways past the buffer and through it), gives such a piece
(`TakeStep`), or moves sectors between buffer and card, which nobody sees
(`QuietStep`, `FlushStep`, `FillBufferFile`).

The first half of `SdCardProofs` is about `Mci`, for every set of sectors and blocks, number
of retries, and number and mix of faults:

* `DriverTypeCorrect`: `Spec => []TypeOK`;
* `WaitEndsForItsBlock`: `Spec => []FlagMeansDone`;
* `DriverImplementsDisk`: `Spec => DiskImplemented`, the refinement of `Disk`.

The inductive invariant `IInv` says whose a pending `DATA_BLK_END` is (`BlkEndMine`:
only that of the call in its wait, once, and before the flag is cleared), that the
data path is on only in that wait (`PathMine`), that the flag is set before the
command goes out (`FlagSet`), where the block has been moved (`MovedAt`), when the
card can be programming (`BusyAt`) and what the DMA buffers hold (`Content`).  With it
every step is one of `Begin`, `Take`, `Program`, `Return` of `Disk` or changes nothing
`Disk` speaks of.

`CardInitProofs`, for every set of kinds of card, number of tries and faults:

* `InitTypeCorrect`: `Spec => []CardTypeOK`;
* `SuccessIsSound`: `Spec => []InitSound`.

`InitSound` speaks of the last step only.  The invariant gathers what the steps before it
have established: `MmcApart` (an MMC card never takes part in an ACMD, so its width stays 1),
`TypeRight` (from CMD2 on the type is that of the card or `SDV2`), `Agreed` (from CMD7
on the card is selected under the address in use, from the end of ACMD6 on it has four
lines like the controller).

The second half of `SdCardProofs` carries both over to the composition, `SdSpec`:

* `CardTypesCorrect`, `CardAgrees`, `CardWaitsForItsBlock`, `CardImplementsDisk`.

Each part leaves the variables of the other alone but for the shared count of faults; the
invariant of the whole is the conjunction, and the steps of the initialisation are
stutters of `Disk`.

`CameraProofs`, for every number of tries, faults and calls:

* `ExchangeTypeCorrect`: `Spec => []TypeOK`;
* `SizeOfThePicture`: `Spec => []PictureWhole`, by an invariant that ties a header which was
  taken for one to the picture that follows it (`HeaderSeen`), and the tries left to the
  places of the loops (`TryLeft`);
* `TriesAreEnough`: `Spec => []RetriesSuffice`;
* `PictureOfThisCall`: `Spec => [](faults <= 2 * Tries["getPicture"] + 1 /\ ~deceived =>
  PictureFresh)`.

The last two rest on what a try costs (`Price`).  A try at a command the camera is ready for
fails only when something goes wrong in this very try (`Tried`: tries gone are
faults spent, but for an answer that is still to be read).  And an acknowledgement of the
snapshot that is left over when `getPic` begins is read by one of its tries unless two
things go wrong in each, the command is lost and the answer late (`Lag`: an
acknowledgement `i` packets away from being read has cost `2 * (tries gone) + i` faults),
so that the next call of `takePicture` can take it for its own only after two
faults per try and two more.  The bound is sharp: with one try at the snapshot and two at
getPicture, TLC finds a stale picture after six faults.  `PictureFresh` is thus not
true without a bound, for a program that runs long enough on a bad line: `getSnapshot`
and `getPic` do not empty the receiver before they begin.

`FormatProofs`, for every number of sectors, erase block and cluster size for which
`f_mkfs` formats: `MountFindsTheVolume`, `TableHoldsEveryCluster`, `ClustersApart`,
`RootDirCleared`, `FreeCountRight`.  They are theorems about the arithmetic of `f_mkfs` and
`auto_mount`, not about a specification with steps.

Only model-checked: liveness (outside this prover's reach), and the samples of `DirName`, `Clock`, `Layout` and `Monitor`.

How the levels fit: `FatVolume` takes from below that a transfer either does what
it says or fails and changes nothing, which is what `Disk` promises.  It does not
have the sectors the card has taken and not yet programmed when power fails, except
that `sync` ends with `CTRL_SYNC`.  `Recorder` has the results that `FatVolume` and `Camera`
can give, `FatFile` the chain that `FatVolume` keeps.

## 5. What is not modelled

* `f_mkdir`, sub-directories and `trace_path` through them, and the growing directory of a
  FAT32 volume: the program uses the root directory only.
* Entries of a FAT12 table that lie across two sectors, and the updates of the FSInfo
  record of FAT32.
* Transfers of several blocks: `disk_read` reads them one by one, and `disk_write` is never
  asked for more than one by this program, whose `f_write` calls are of at most 512 bytes
  (but for the length near 4 GB that a negative size left by `getPic` becomes, see `Recorder`);
  and the ioctl codes other than `CTRL_SYNC` and the sizes.
* `put_dump` and `get_line` of the monitor, the UART, and the set-up of clock, pins,
  timers, vectored interrupts and the real-time clock: register writes without decisions.
* Start-up code, the register headers (`LPC23xx.h`, `LPC24xx.h`), and code that is not in the
  build (`mcitest.c` and the like).

What could follow: a `Disk` under `FatVolume` in which a power failure loses what is not
safe yet, and the theorems about `FatVolume` with `f_rename` (an entry that is about to be
erased has the same start as the new one: `EntriesOK` would have to except it).
