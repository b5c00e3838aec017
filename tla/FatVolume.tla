----------------------------- MODULE FatVolume -----------------------------
(***************************************************************************)
(* The FAT volume behind the FatFs calls of ff.c: the allocation table,    *)
(* the root directory, and the one-sector window through which ff.c reads  *)
(* and changes both.  A FAT16 layout: a static root directory, two copies  *)
(* of the table, one sector per cluster.  File data moves in whole         *)
(* sectors; the byte buffer of a FIL is a matter of its own.               *)
(*                                                                         *)
(* Every disk transfer is a step, so power may fail between any two of     *)
(* them.  A transfer may fail for the kinds listed in Faults: then the     *)
(* card is unchanged (mci.c starts the data phase only after the command   *)
(* was accepted) and so is the buffer (disk_read copies on success only).  *)
(***************************************************************************)
EXTENDS Integers, FiniteSets

CONSTANTS
    Names,      \* file names
    Handles,    \* FIL objects of the application
    MaxClust,   \* fs->max_clust: clusters are 2 .. MaxClust - 1
    PerFat,     \* FAT entries per sector
    NSlots,     \* entries of the root directory
    PerDir,     \* directory entries per sector
    NFats,      \* copies of the table, 1 or 2
    MaxSize,    \* bound: sectors of one file
    Faults,     \* kinds of transfer that may fail, see FaultKinds
    Habits      \* what the application may do, see HabitKinds

FaultKinds == {"mount", "read", "write", "copy", "crash"}
HabitKinds == {"retry",     \* call f_close or f_sync again after it failed
               "abandon",   \* f_open, or f_mount, with a file object still open
               "getfree",   \* ask for the free space
               "admin",     \* list, look at, rename and mark entries
               "remount"}   \* call f_mount again

ASSUME LayoutAssumption ==
    /\ MaxClust \in Nat /\ MaxClust > 2 /\ NFats \in {1, 2}
    /\ PerFat \in Nat \ {0} /\ PerDir \in Nat \ {0} /\ NSlots \in Nat \ {0}
ASSUME BoundAssumption == MaxSize \in Nat
ASSUME FaultAssumption == Faults \subseteq FaultKinds /\ Habits \subseteq HabitKinds

Clusters == 2 .. MaxClust - 1
Slots    == 1 .. NSlots
Eoc      == MaxClust             \* 0x0FFFFFFF: anything >= max_clust
Unknown  == -1                   \* free_clust = 0xFFFFFFFF
Links    == {0, Eoc} \cup Clusters

End      == "end"                \* first byte of a name: 0, and all that follow
Deleted  == "deleted"            \* 0xE5
None     == "none"
ASSUME NameAssumption == {End, Deleted, None} \cap Names = {}

\* Sector numbers: the table, then the directory; 0 is the boot sector.
FatSector(c) == 1 + c \div PerFat
LastFat      == FatSector(MaxClust - 1)
DirSector(s) == LastFat + 1 + (s - 1) \div PerDir
Sectors      == {FatSector(c) : c \in Clusters} \cup {DirSector(s) : s \in Slots}

VARIABLES
    fat, copy, dir, data,  \* the card: table, its copy, directory, file data
    win,                   \* winsect, winflag and win[] of the FATFS object
    mw,                    \* inside move_window: the copy is still to be written
    fs,                    \* fs_type, last_clust, free_clust
    fil,                   \* the FIL objects
    pc, reg,               \* the call in progress and its local variables
    promise                \* sectors of a file whose f_close or f_sync returned
                           \* FR_OK, or Unknown

card == <<fat, copy, dir, data>>
vars == <<card, win, mw, fs, fil, pc, reg, promise>>

Entry  == [name : Names \cup {End, Deleted}, clust : Links \cup {1}, size : Nat,
           ro : BOOLEAN]    \* AM_RDO
Blank(name) == [name |-> name, clust |-> 0, size |-> 0, ro |-> FALSE]

Fil ==
    [open : BOOLEAN, name : Names \cup {None}, written : BOOLEAN, error : BOOLEAN,
     fptr : Nat, fsize : Nat, org : Links \cup {1}, curr : Links, slot : Slots,
     changed : BOOLEAN,   \* created or written through this object
     failed : BOOLEAN]    \* the last f_sync or f_close failed
Closed ==
    [open |-> FALSE, name |-> None, written |-> FALSE, error |-> FALSE,
     fptr |-> 0, fsize |-> 0, org |-> 0, curr |-> 0, slot |-> 1,
     changed |-> FALSE, failed |-> FALSE]

Ops == {"none", "open", "write", "sync", "close", "unlink", "getfree",
        "stat", "list", "utime", "chmod", "rename"}
Modes == {"new", "always", "existing"}
Pcs == {"idle", "trace", "reserve", "remove", "reopen", "stat", "scan",
        "link", "data", "entry", "flush", "count", "list", "erase"}
NoCall ==
    [op |-> "none", h |-> None, n |-> None,
     mode |-> "existing", slot |-> 1, clust |-> 0, rs |-> 0, ncl |-> 0,
     scl |-> 0, cnt |-> 0,
     new |-> None, old |-> 0, entry |-> Blank(Deleted), kept |-> Unknown]

\* The window over one sector, as disk_read fills it.
FatIn(s) == {c \in Clusters : FatSector(c) = s}
DirIn(s) == {d \in Slots : DirSector(d) = s}
ReadSector(s) ==
    [sect |-> s, dirty |-> FALSE,
     fat |-> [c \in FatIn(s) |-> fat[c]], dir |-> [d \in DirIn(s) |-> dir[d]]]

Unmounted == [mounted |-> FALSE, last |-> 0, free |-> Unknown]

Init ==
    /\ fat = [c \in Clusters |-> 0] /\ copy = fat
    /\ dir = [s \in Slots |-> Blank(End)]
    /\ data = [c \in Clusters |-> None]
    /\ win = ReadSector(0) /\ mw = FALSE
    /\ fs = Unmounted
    /\ fil = [h \in Handles |-> Closed]
    /\ pc = "idle" /\ reg = NoCall
    /\ promise = [n \in Names |-> Unknown]

-----------------------------------------------------------------------------
(* move_window.  A step of a call that needs sector Target waits until the *)
(* window shows it; Flushed is what move_window(fs, 0) waits for.          *)

Target ==
    CASE pc \in {"trace", "reserve", "reopen", "entry", "list", "erase"}
                                                              -> DirSector(reg.slot)
      [] pc \in {"remove", "stat", "link"}                      -> FatSector(reg.clust)
      [] pc = "scan"                                            -> FatSector(reg.ncl)
      [] pc = "count"                                           -> reg.cnt
      [] OTHER                                                  -> 0

\* Steps that do not look at a sector: a chain is removed, a search is over.
ChainEnd == pc = "remove" /\ reg.clust \notin Clusters
ScanEnd  == pc = "scan" /\ reg.ncl = 0
Looking  == pc \notin {"idle", "data"} /\ ~ChainEnd /\ ~ScanEnd

Moving  == Looking /\ Target # win.sect
Here(l) == pc = l /\ ~mw /\ Looking /\ Target = win.sect
Unflushed == pc = "flush" /\ ~mw                \* mutant: without looking
Flushed == pc = "flush" /\ ~mw /\ (~win.dirty \/ win.sect = 0)

Return == pc' = "idle" /\ reg' = NoCall

\* A transfer of the call in progress failed.  f_write marks the file object,
\* whose start cluster is 1 if it was to be allocated; f_sync and f_close leave
\* it open; the others have nothing to undo.
Creating == reg.op = "write" /\ pc = "scan" /\ reg.clust = 0
IoError ==
    /\ fil' = CASE reg.op = "write" ->
                     [fil EXCEPT ![reg.h].error = TRUE,
                                 ![reg.h].org = IF Creating THEN 1 ELSE @]
                [] reg.op \in {"sync", "close"} -> [fil EXCEPT ![reg.h].failed = TRUE]
                [] OTHER -> fil
    /\ Return

CleanFirst(w) == [w EXCEPT !.dirty = FALSE]     \* mutant: winflag = 0 too early
Kept(w)       == w

WriteBack ==
    /\ Moving /\ win.dirty /\ ~mw
    /\ \/ /\ fat' = [c \in Clusters |-> IF FatSector(c) = win.sect THEN win.fat[c] ELSE fat[c]]
          /\ dir' = [s \in Slots |-> IF DirSector(s) = win.sect THEN win.dir[s] ELSE dir[s]]
          /\ win' = [win EXCEPT !.dirty = FALSE]
          /\ mw' = (NFats = 2 /\ win.sect <= LastFat)
          /\ UNCHANGED <<fil, pc, reg>>
       \/ /\ "write" \in Faults
          /\ win' = Kept(win)
          /\ IoError
          /\ UNCHANGED <<fat, dir, mw>>
    /\ UNCHANGED <<copy, data, fs, promise>>

\* The copy of the table gets the same sector; its result is ignored.
Copied(f) == [c \in Clusters |-> IF FatSector(c) = win.sect THEN f[c] ELSE copy[c]]

WriteCopy ==
    /\ mw /\ mw' = FALSE
    /\ \/ copy' = Copied(win.fat)
       \/ "copy" \in Faults /\ UNCHANGED copy
    /\ UNCHANGED <<fat, dir, data, win, fs, fil, pc, reg, promise>>

ReadWindow ==
    /\ Moving /\ ~win.dirty /\ ~mw /\ Target # 0
    /\ \/ win' = ReadSector(Target) /\ UNCHANGED <<fil, pc, reg>>
       \/ "read" \in Faults /\ UNCHANGED win /\ IoError
    /\ UNCHANGED <<card, mw, fs, promise>>

move_window == WriteBack \/ WriteCopy \/ ReadWindow

-----------------------------------------------------------------------------
(* The calls.  The application keeps to what FatFs expects: it does not    *)
(* open a file twice or delete it while it is open, and after an f_close   *)
(* or f_sync that failed it does not ask again (see Habits).               *)

Idle == pc = "idle"
Busy(n) == \E h \in Handles : fil[h].open /\ fil[h].name = n

\* auto_mount: fine, mounted just now, or not possible.
Mounts == IF fs.mounted THEN UNCHANGED fs
          ELSE fs' = [mounted |-> TRUE, last |-> 0, free |-> Unknown]
MountFails == ~fs.mounted /\ "mount" \in Faults /\ UNCHANGED fs

Begin(l, r) == pc' = l /\ reg' = r

f_open(h, n, mode) ==
    /\ Idle
    /\ fil[h].open => "abandon" \in Habits
    /\ \A g \in Handles \ {h} : ~(fil[g].open /\ fil[g].name = n)
    /\ fil' = [fil EXCEPT ![h] = Closed]
    /\ \/ /\ Mounts
          /\ Begin("trace", [NoCall EXCEPT !.op = "open", !.h = h, !.n = n, !.mode = mode])
          /\ promise' = IF mode = "always" THEN [promise EXCEPT ![n] = Unknown] ELSE promise
       \/ MountFails /\ UNCHANGED <<pc, reg, promise>>
    /\ UNCHANGED <<card, win, mw>>

f_unlink(n) ==
    /\ Idle /\ ~Busy(n)
    /\ \/ /\ Mounts
          /\ Begin("trace", [NoCall EXCEPT !.op = "unlink", !.n = n])
          /\ promise' = [promise EXCEPT ![n] = Unknown]
       \/ MountFails /\ UNCHANGED <<pc, reg, promise>>
    /\ UNCHANGED <<card, win, mw, fil>>

\* create_chain's search: the next cluster to look at after c when it started
\* at scl, 0 when it has come round.
NextForever(c, scl) == IF c + 1 >= MaxClust THEN 2 ELSE c + 1 \* mutant
NextClust(c, scl) ==
    IF c + 1 < MaxClust THEN c + 1 ELSE IF 2 > scl THEN 0 ELSE 2

ScanFrom(scl, r) == Begin("scan", [r EXCEPT !.scl = scl, !.ncl = NextClust(scl, scl)])

\* One sector is written at the file pointer: along the chain of the file
\* (create_chain follows it) or after its end (create_chain stretches it).
f_write(h) ==
    LET f == fil[h]
        r == [NoCall EXCEPT !.op = "write", !.h = h]
    IN  /\ Idle /\ f.open /\ ~f.error /\ f.fptr < MaxSize
        /\ promise' = [promise EXCEPT ![f.name] = Unknown]
        /\ \/ /\ f.fptr = 0 /\ f.org = 0
              /\ ScanFrom(IF fs.last \in 1 .. MaxClust - 1 THEN fs.last ELSE 1, r)
              /\ UNCHANGED fil
           \/ /\ f.fptr = 0 /\ f.org \in Clusters
              /\ Begin("data", r)
              /\ fil' = [fil EXCEPT ![h].curr = f.org]
           \/ /\ f.fptr = 0 /\ f.org \notin Clusters \cup {0}
              /\ fil' = [fil EXCEPT ![h].error = TRUE]
              /\ UNCHANGED <<pc, reg>>
           \/ /\ f.fptr > 0
              /\ Begin("stat", [r EXCEPT !.clust = f.curr])
              /\ UNCHANGED fil
        /\ UNCHANGED <<card, win, mw, fs>>

\* f_sync, and f_close which is f_sync and then forgets the file object.
Syncs(h, op) ==
    LET f == fil[h]
    IN  /\ Idle /\ f.open
        /\ f.failed => "retry" \in Habits
        /\ IF f.written
           THEN /\ Begin("entry", [NoCall EXCEPT !.op = op, !.h = h, !.slot = f.slot])
                /\ UNCHANGED <<fil, promise>>
           ELSE /\ UNCHANGED <<pc, reg>>
                /\ fil' = IF op = "close" THEN [fil EXCEPT ![h] = Closed] ELSE fil
                /\ promise' = IF f.changed THEN [promise EXCEPT ![f.name] = f.fsize]
                                           ELSE promise
        /\ UNCHANGED <<card, win, mw, fs>>

f_sync(h)  == Syncs(h, "sync")
f_close(h) == Syncs(h, "close")

f_getfree ==
    /\ Idle /\ "getfree" \in Habits
    /\ \/ /\ Mounts
          /\ IF fs.free \in 0 .. MaxClust - 2 THEN UNCHANGED <<pc, reg>>
             ELSE Begin("count", [NoCall EXCEPT !.op = "getfree", !.cnt = 1])
       \/ MountFails /\ UNCHANGED <<pc, reg>>
    /\ UNCHANGED <<card, win, mw, fil, promise>>

\* The calls on an entry by its name: f_stat looks at it, f_utime and f_chmod
\* change it and write it back.  Times are not part of an entry here, of the
\* attributes only AM_RDO is.
Named(n, op, r) ==
    /\ Idle /\ "admin" \in Habits
    /\ \/ Mounts /\ Begin("trace", [r EXCEPT !.op = op, !.n = n])
       \/ MountFails /\ UNCHANGED <<pc, reg>>
    /\ UNCHANGED <<card, win, mw, fil, promise>>

f_stat(n)      == Named(n, "stat", NoCall)
f_utime(n)     == Named(n, "utime", NoCall)
f_chmod(n, ro) == Named(n, "chmod", [NoCall EXCEPT !.entry.ro = ro])

\* Neither name may be in use.
f_rename(n, m) ==
    /\ ~Busy(n) /\ ~Busy(m) /\ n # m
    /\ Named(n, "rename", [NoCall EXCEPT !.new = m])

\* f_opendir of the root directory, and then f_readdir up to the end of it.
f_opendir ==
    /\ Idle /\ "admin" \in Habits
    /\ \/ Mounts /\ Begin("list", [NoCall EXCEPT !.op = "list"])
       \/ MountFails /\ UNCHANGED <<pc, reg>>
    /\ UNCHANGED <<card, win, mw, fil, promise>>

Call ==
    \/ \E h \in Handles, n \in Names, mode \in Modes : f_open(h, n, mode)
    \/ \E n \in Names : f_stat(n) \/ f_utime(n) \/ \E ro \in BOOLEAN : f_chmod(n, ro)
    \/ \E n, m \in Names : f_rename(n, m)
    \/ f_opendir
    \/ \E n \in Names : f_unlink(n)
    \/ \E h \in Handles : f_write(h) \/ f_sync(h) \/ f_close(h)
    \/ f_getfree

-----------------------------------------------------------------------------
(* The steps of a call.                                                    *)

\* Changes to the window.
SetLink(c, v)  == win' = [win EXCEPT !.fat[c] = v, !.dirty = TRUE]
SetEntry(d, e) == win' = [win EXCEPT !.dir[d] = e, !.dirty = TRUE]

\* f_open succeeds: the file object refers to entry e in slot reg.slot.
OpenFile(e, created) ==
    /\ fil' = [fil EXCEPT ![reg.h] =
                 [Closed EXCEPT !.open = TRUE, !.name = reg.n, !.written = created,
                                !.changed = created, !.fsize = e.size,
                                !.org = e.clust, !.slot = reg.slot]]
    /\ Return

\* trace_path: the entries up to the end mark are compared with the name.
Last(d) == d = NSlots
Creates == reg.op = "open" /\ reg.mode # "existing"
NotFound ==
    IF Creates \/ reg.old # 0
    THEN pc' = "reserve" /\ reg' = [reg EXCEPT !.slot = 1]
    ELSE Return

KeepName(e)  == e                               \* mutant: the entry stays
Deletion(e)  == Blank(Deleted)
KeepStart(e) == e                               \* mutant: the start stays
Emptied(e)   == Blank(e.name)
NoHead(e)    == 0                               \* mutant: the chain stays
Head(e)      == e.clust

\* The entry is found and must not be touched, or need not be: FR_EXIST,
\* FR_DENIED, or the answer of f_stat.
LeftAlone(e) ==
    \/ reg.op = "open" /\ (reg.mode = "new" \/ e.ro)
    \/ reg.op = "unlink" /\ e.ro
    \/ reg.op = "stat"
    \/ reg.op = "rename" /\ reg.old # 0

TracePath ==
    /\ Here("trace")
    /\ LET e == win.dir[reg.slot]
           Found == e.name = reg.n /\ ~LeftAlone(e)
       IN  \/ /\ e.name = End \/ (e.name # reg.n /\ Last(reg.slot))
              /\ NotFound
              /\ UNCHANGED <<win, fil>>
           \/ /\ e.name \notin {End, reg.n} /\ ~Last(reg.slot)
              /\ reg' = [reg EXCEPT !.slot = @ + 1]
              /\ UNCHANGED <<win, fil, pc>>
           \/ /\ e.name = reg.n /\ LeftAlone(e)
              /\ Return
              /\ UNCHANGED <<win, fil>>
           \/ /\ Found /\ reg.op = "unlink"
              /\ SetEntry(reg.slot, Deletion(e))
              /\ pc' = "remove" /\ reg' = [reg EXCEPT !.clust = Head(e)]
              /\ UNCHANGED fil
           \/ /\ Found /\ reg.op = "open" /\ reg.mode = "always"
              /\ SetEntry(reg.slot, Emptied(e))
              /\ pc' = "remove"
              /\ reg' = [reg EXCEPT !.clust = Head(e), !.rs = e.clust]
              /\ UNCHANGED fil
           \/ /\ Found /\ reg.op = "open" /\ reg.mode = "existing"
              /\ OpenFile(e, FALSE)
              /\ UNCHANGED win
           \/ /\ Found /\ reg.op \in {"utime", "chmod"}
              /\ SetEntry(reg.slot,
                     IF reg.op = "chmod" THEN [e EXCEPT !.ro = reg.entry.ro] ELSE e)
              /\ pc' = "flush" /\ UNCHANGED <<fil, reg>>
           \/ /\ Found /\ reg.op = "rename"
              /\ reg' = [reg EXCEPT !.old = reg.slot, !.entry = e,
                                    !.n = reg.new, !.slot = 1]
              /\ UNCHANGED <<win, fil, pc>>
    /\ UNCHANGED <<card, mw, fs, promise>>

f_readdir ==
    /\ Here("list")
    /\ IF win.dir[reg.slot].name = End \/ Last(reg.slot) THEN Return
       ELSE reg' = [reg EXCEPT !.slot = @ + 1] /\ UNCHANGED pc
    /\ UNCHANGED <<card, win, mw, fs, fil, promise>>

NewlyMade(e) == Blank(reg.n)                    \* mutant: start and size are lost
Renamed(e)   == [e EXCEPT !.name = reg.n]

\* reserve_direntry takes the first entry that is not in use; a static
\* directory does not grow.  f_open writes a new entry into it, f_rename the
\* old one under its new name.
ReserveEntry ==
    /\ Here("reserve")
    /\ LET e == win.dir[reg.slot]
       IN  \/ /\ e.name \in {End, Deleted} /\ reg.op = "open"
              /\ SetEntry(reg.slot, Blank(reg.n))
              /\ OpenFile(Blank(reg.n), TRUE)
           \/ /\ e.name \in {End, Deleted} /\ reg.op = "rename"
              /\ SetEntry(reg.slot, Renamed(reg.entry))
              /\ pc' = "erase" /\ reg' = [reg EXCEPT !.slot = reg.old]
              /\ UNCHANGED fil
           \/ /\ e.name \in Names /\ ~Last(reg.slot)
              /\ reg' = [reg EXCEPT !.slot = @ + 1]
              /\ UNCHANGED <<win, fil, pc>>
           \/ /\ e.name \in Names /\ Last(reg.slot)
              /\ Return
              /\ UNCHANGED <<win, fil>>
    /\ UNCHANGED <<card, mw, fs, promise>>

\* The old entry goes last.  What data says of the contents, and what was
\* promised, is now said of the new name.
EraseOld ==
    /\ Here("erase")
    /\ LET n == reg.entry.name
       IN  /\ SetEntry(reg.slot, Deletion(win.dir[reg.slot]))
           /\ data' = [c \in Clusters |-> IF data[c] = n THEN reg.n ELSE data[c]]
           /\ promise' = [promise EXCEPT ![n] = Unknown]
           /\ pc' = "flush" /\ reg' = [reg EXCEPT !.kept = promise[n]]
    /\ UNCHANGED <<fat, copy, dir, mw, fs, fil>>

\* remove_chain frees the clusters from the head on.  What they held counts as
\* lost from then on.
Counted(free, d) == IF free = Unknown THEN Unknown ELSE free + d

RemoveChain ==
    \/ /\ Here("remove")
       /\ SetLink(reg.clust, 0)
       /\ fs' = [fs EXCEPT !.free = Counted(@, 1)]
       /\ data' = [data EXCEPT ![reg.clust] = None]
       /\ reg' = [reg EXCEPT !.clust = win.fat[reg.clust]]
       /\ UNCHANGED <<fat, copy, dir, mw, fil, pc, promise>>
    \/ /\ ChainEnd /\ ~mw /\ reg.op = "unlink"
       /\ pc' = "flush" /\ win' = [win EXCEPT !.dirty = TRUE]
       /\ UNCHANGED <<card, mw, fs, fil, reg, promise>>
    \/ /\ ChainEnd /\ ~mw /\ reg.op = "open"
       /\ pc' = "reopen"
       /\ UNCHANGED <<card, win, mw, fs, fil, reg, promise>>

HoleSigned(rs) == rs - 1                        \* mutant: no wrap-around
HoleBefore(rs) == IF rs = 0 THEN Eoc ELSE rs - 1

\* FA_CREATE_ALWAYS goes on when the window shows the entry again; the
\* search for clusters will start at the hole (rs - 1 wraps round for rs = 0).
Reopen ==
    /\ Here("reopen")
    /\ fs' = [fs EXCEPT !.last = HoleBefore(reg.rs)]
    /\ win' = [win EXCEPT !.dirty = TRUE]
    /\ OpenFile(Blank(reg.n), TRUE)
    /\ UNCHANGED <<card, mw, promise>>

\* f_write with a cluster to write to, without one because the disk is full,
\* and with an error of create_chain.
WriteTo(c) ==
    /\ fil' = [fil EXCEPT ![reg.h].curr = c, ![reg.h].org = IF @ = 0 THEN c ELSE @]
    /\ pc' = "data" /\ UNCHANGED reg
DiskFull ==
    /\ fil' = [fil EXCEPT ![reg.h].written = TRUE, ![reg.h].changed = TRUE,
                          ![reg.h].failed = FALSE]
    /\ Return
BadChain == IoError

\* create_chain on a cluster: it is followed by another one, or the search
\* starts behind it.
ChainStat ==
    /\ Here("stat")
    /\ LET next == win.fat[reg.clust]
       IN  \/ next = 0 /\ BadChain
           \/ next \in Clusters /\ WriteTo(next)
           \/ next = Eoc /\ ScanFrom(reg.clust, reg) /\ UNCHANGED fil
    /\ UNCHANGED <<card, win, mw, fs, promise>>

NotMarked == 0                                  \* mutant: the mark is lost
InUse     == Eoc

\* A free cluster is marked in use at once, in the sector that showed it.
Uncounted(c) == fs' = [fs EXCEPT !.last = c]    \* mutant: still counted free
Allocated(c) == fs' = [fs EXCEPT !.last = c, !.free = Counted(@, -1)]

ChainScan ==
    \/ /\ ScanEnd /\ ~mw
       /\ DiskFull
       /\ UNCHANGED <<card, win, mw, fs, promise>>
    \/ /\ Here("scan") /\ win.fat[reg.ncl] # 0
       /\ IF reg.ncl = reg.scl THEN DiskFull
          ELSE /\ reg' = [reg EXCEPT !.ncl = NextClust(@, reg.scl)]
               /\ UNCHANGED <<fil, pc>>
       /\ UNCHANGED <<card, win, mw, fs, promise>>
    \/ /\ Here("scan") /\ win.fat[reg.ncl] = 0
       /\ SetLink(reg.ncl, InUse)
       /\ IF reg.clust = 0 THEN Allocated(reg.ncl) /\ WriteTo(reg.ncl)
          ELSE pc' = "link" /\ UNCHANGED <<fs, fil, reg>>
       /\ UNCHANGED <<card, mw, promise>>

ChainLink ==
    /\ Here("link")
    /\ SetLink(reg.clust, reg.ncl)
    /\ Allocated(reg.ncl)
    /\ WriteTo(reg.ncl)
    /\ UNCHANGED <<card, mw, promise>>

WriteData ==
    /\ pc = "data" /\ ~mw
    /\ LET f == fil[reg.h]
       IN  \/ /\ data' = [data EXCEPT ![f.curr] = f.name]
              /\ fil' = [fil EXCEPT ![reg.h] =
                   [f EXCEPT !.fptr = @ + 1, !.written = TRUE,
                             !.changed = TRUE, !.failed = FALSE,
                             !.fsize = IF f.fptr + 1 > @ THEN f.fptr + 1 ELSE @]]
           \/ /\ "write" \in Faults /\ UNCHANGED data
              /\ fil' = [fil EXCEPT ![reg.h].error = TRUE]
    /\ Return
    /\ UNCHANGED <<fat, copy, dir, win, mw, fs, promise>>

\* f_sync: the entry gets start and size, then the window is written back.
SyncEntry ==
    /\ Here("entry")
    /\ LET f == fil[reg.h]
       IN  win' = [win EXCEPT !.dir[reg.slot] = [@ EXCEPT !.clust = f.org, !.size = f.fsize],
                              !.dirty = TRUE]
    /\ fil' = [fil EXCEPT ![reg.h].written = FALSE]
    /\ pc' = "flush"
    /\ UNCHANGED <<card, mw, fs, reg, promise>>

\* sync is done: disk_ioctl(CTRL_SYNC) only ever returns when the card is ready.
Synced ==
    /\ Flushed
    /\ LET f == fil[reg.h]
       IN  IF reg.op \in {"unlink", "utime", "chmod"} THEN UNCHANGED <<fil, promise>>
           ELSE IF reg.op = "rename"
           THEN promise' = [promise EXCEPT ![reg.n] = reg.kept] /\ UNCHANGED fil
           ELSE /\ promise' = [promise EXCEPT ![f.name] = f.fsize]
                /\ fil' = IF reg.op = "close" THEN [fil EXCEPT ![reg.h] = Closed]
                          ELSE fil
    /\ Return
    /\ UNCHANGED <<card, win, mw, fs>>

FreeIn(table) == Cardinality({c \in DOMAIN table : table[c] = 0})

CountFree ==
    /\ Here("count")
    /\ LET n == reg.rs + FreeIn(win.fat)
       IN  IF reg.cnt < LastFat
           THEN /\ reg' = [reg EXCEPT !.cnt = @ + 1, !.rs = n]
                /\ UNCHANGED <<fs, pc>>
           ELSE fs' = [fs EXCEPT !.free = n] /\ Return
    /\ UNCHANGED <<card, win, mw, fil, promise>>

Step ==
    \/ move_window \/ TracePath \/ f_readdir \/ ReserveEntry \/ EraseOld
    \/ RemoveChain \/ Reopen
    \/ ChainStat \/ ChainScan \/ ChainLink \/ WriteData \/ SyncEntry
    \/ Synced \/ CountFree

\* The volume object and the window start afresh; a file object that was open
\* is not valid any more.
Restart ==
    /\ win' = ReadSector(0) /\ mw' = FALSE /\ fs' = Unmounted
    /\ fil' = [h \in Handles |-> Closed]
    /\ Return
    /\ UNCHANGED <<card, promise>>

\* f_mount registers the volume object again.  The mount that follows gives it
\* another id: validate refuses every file object opened before, which is then
\* as good as closed.
f_mount ==
    /\ Idle /\ "remount" \in Habits
    /\ (\E h \in Handles : fil[h].open) => "abandon" \in Habits
    /\ Restart

\* Power fails.
Crash == "crash" \in Faults /\ Restart

Next == Call \/ Step \/ f_mount \/ Crash
Spec == Init /\ [][Next]_vars

\* The processor never stops: a call that has begun goes on.
FairSpec == Spec /\ WF_vars(Step)

-----------------------------------------------------------------------------
(* Correctness.                                                            *)

Regs ==
    [op : Ops, h : Handles \cup {None}, n : Names \cup {None}, mode : Modes,
     slot : Slots, clust : Links \cup {1}, rs : Nat, ncl : {0} \cup Clusters,
     scl : Nat, cnt : 0 .. LastFat, new : Names \cup {None}, old : {0} \cup Slots,
     entry : Entry, kept : Nat \cup {Unknown}]

Window(s) ==
    [sect : {s}, dirty : BOOLEAN, fat : [FatIn(s) -> Links], dir : [DirIn(s) -> Entry]]

\* Which locals a call has set where it is, and that a file object past its
\* first sector has a current cluster.
CallOK ==
    /\ reg.op \in {"open", "write", "sync", "close"} => reg.h \in Handles
    /\ reg.op \in {"open", "unlink", "stat", "utime", "chmod", "rename"} => reg.n \in Names
    /\ reg.op = "rename" => reg.new \in Names
    /\ pc = "trace" => reg.op \in {"open", "unlink", "stat", "utime", "chmod", "rename"}
    /\ reg.old # 0 => reg.op = "rename" /\ reg.entry.name \in Names
    /\ pc = "erase" => reg.old # 0 /\ reg.slot = reg.old
    /\ pc \in {"stat", "scan", "link", "data"} => reg.op = "write"
    /\ pc = "stat" => reg.clust \in Clusters
    /\ pc = "link" => reg.ncl \in Clusters
    /\ pc = "data" => fil[reg.h].curr \in Clusters
    /\ pc = "remove" => reg.op \in {"open", "unlink"}
    /\ pc = "reserve" => reg.op = "open" \/ reg.old # 0
    /\ pc = "reopen" => reg.op = "open"
    /\ pc = "entry" => reg.op \in {"sync", "close"}
    /\ pc = "flush" => reg.op \in {"unlink", "sync", "close", "utime", "chmod", "rename"}
    /\ pc \in {"trace", "remove", "reopen"} => reg.rs <= MaxClust
    /\ pc \in {"remove", "reopen"} => win.sect # 0
    /\ \A h \in Handles : fil[h].fptr > 0 => fil[h].curr \in Clusters

TypeOK ==
    /\ fat \in [Clusters -> Links] /\ copy \in [Clusters -> Links]
    /\ dir \in [Slots -> Entry]
    /\ data \in [Clusters -> Names \cup {None}]
    /\ win.sect \in Nat /\ win \in Window(win.sect)
    /\ mw \in BOOLEAN
    /\ fs \in [mounted : BOOLEAN, last : 0 .. MaxClust, free : Nat \cup {Unknown}]
    /\ fil \in [Handles -> Fil]
    /\ pc \in Pcs /\ reg \in Regs
    /\ promise \in [Names -> Nat \cup {Unknown}]
    /\ CallOK

\* A window that is not marked dirty shows what the card has, and the window
\* of the boot sector is never marked: nothing is lost by not writing it back,
\* and nothing is ever written to sector 0.
WindowCoherent ==
    /\ ~win.dirty => win = ReadSector(win.sect)
    /\ win.dirty => win.sect # 0

\* A set of heads and a table without cross links or dangling links: no chain
\* runs into a free cluster, into another chain or into the head of one.
Sound(table, heads, start) ==
    /\ \A c \in Clusters : table[c] \in Clusters => table[table[c]] # 0
    /\ \A c, d \in Clusters :
           table[c] = table[d] /\ table[c] \in Clusters => c = d
    /\ \A h \in heads : start[h] \in Clusters =>
           /\ table[start[h]] # 0
           /\ \A c \in Clusters : table[c] # start[h]
           /\ \A g \in heads : start[g] = start[h] => g = h

LiveSlots(d) == {s \in Slots : d[s].name \in Names}

\* What the card holds is sound after every single transfer, so a power
\* failure costs at most clusters that belong to nobody.
CrashSafe == Sound(fat, LiveSlots(dir), [s \in Slots |-> dir[s].clust])

\* The volume as the program sees it, through the window.
FatNow == [c \in Clusters |-> IF c \in DOMAIN win.fat THEN win.fat[c] ELSE fat[c]]
DirNow == [s \in Slots |-> IF s \in DOMAIN win.dir THEN win.dir[s] ELSE dir[s]]

\* The start cluster of a directory entry, or of the file object open on it.
StartNow(s) ==
    IF \E h \in Handles : fil[h].open /\ fil[h].slot = s
    THEN fil[CHOOSE h \in Handles : fil[h].open /\ fil[h].slot = s].org
    ELSE DirNow[s].clust

\* While f_rename is between its two changes both entries have the chain.
Twin == IF pc = "erase" THEN {reg.old} ELSE {}

\* Two files never share a cluster, and what a file object refers to is
\* allocated, even after calls that failed half-way.
FilesApart ==
    /\ Sound(FatNow, LiveSlots(DirNow) \ Twin, [s \in Slots |-> StartNow(s)])
    /\ \A h \in Handles : fil[h].open =>
           /\ DirNow[fil[h].slot].name = fil[h].name
           /\ fil[h].curr \in Clusters => FatNow[fil[h].curr] # 0
           /\ \A g \in Handles : fil[g].open /\ fil[g].slot = fil[h].slot => g = h

\* The k-th cluster of the chain from c, Eoc behind its end.
Chain(table, c, k) ==
    LET at[i \in 0 .. k] ==
            IF i = 0 THEN c
            ELSE IF at[i - 1] \in Clusters THEN table[at[i - 1]] ELSE Eoc
    IN  at[k]

OnCard(n, size) ==
    \E s \in Slots :
        /\ dir[s].name = n /\ dir[s].size = size
        /\ \A d \in 1 .. s - 1 : dir[d].name \notin {n, End}
        /\ \A k \in 1 .. size :
               LET c == Chain(fat, dir[s].clust, k - 1)
               IN  c \in Clusters /\ data[c] = n

\* What f_close or f_sync returned FR_OK for is on the card: it survives a
\* power failure and whatever is done to other files, until it is written,
\* truncated or deleted itself.  (With "retry" among the Habits this fails: see
\* ClosedDataOnCard.)
Durable == \A n \in Names : promise[n] # Unknown => OnCard(n, promise[n])

\* What the documentation says of f_close and f_sync for a file with data: when
\* they return FR_OK the cached information has been written to the disk.
ClosedDataOnCard == \A n \in Names : promise[n] > 0 => OnCard(n, promise[n])

\* Without failing transfers the free count that f_getfree found stays what the
\* table says, over every allocation and removal.
FreeCountExact == Idle /\ fs.free # Unknown => fs.free = FreeIn(FatNow)

\* Without failing transfers every cluster in use belongs to a file: emptying,
\* deleting and running into a full card leave no chain behind.
Owned(s) == {Chain(FatNow, StartNow(s), k) : k \in 0 .. MaxClust} \cap Clusters
NoLostCluster ==
    Idle => \A c \in Clusters : FatNow[c] # 0 =>
                \E s \in LiveSlots(DirNow) : c \in Owned(s)

\* Every call returns: the search for a free cluster ends on a full card, and
\* no chain that is followed is circular.
CallsReturn == (pc # "idle") ~> (pc = "idle")
=============================================================================
