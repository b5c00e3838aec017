------------------------------ MODULE FatFile -------------------------------
(***************************************************************************)
(* The file object of ff.c: its byte buffer, its position, and the calls   *)
(* that move bytes.  Whole sectors go between the caller and the card, the *)
(* rest goes through the buffer of one sector.  One file is modelled, one  *)
(* step is one round of a loop or one transfer; its cluster chain is a     *)
(* sequence of clusters, curr_clust a place in it, and how the table keeps *)
(* it is the matter of FatVolume.  Other files take and free clusters as   *)
(* they like, so that a search for a cluster may fail at any time.         *)
(* The 4 GB that a DWORD can count are Wrap bytes here.                    *)
(***************************************************************************)
EXTENDS Integers, Sequences, SequencesExt

CONSTANTS
    SS,         \* bytes of a sector
    csize,      \* sectors of a cluster
    Clusters,   \* the clusters of the card
    Wrap,       \* where a DWORD wraps round
    Values,     \* the values a byte may have ...
    Old,        \* ... and what the bytes of the card hold at first
    Modes,      \* how the file may be opened: sets of "read" and "write"
    Sizes,      \* bound: how many bytes a call asks for
    Offsets,    \* bound: where f_lseek goes
    MaxCalls,   \* bound: calls
    Faults      \* kinds of transfer that may fail, see FaultKinds

FaultKinds == {"read", "write",     \* of file data
               "table",             \* in create_chain, get_cluster, remove_chain
               "entry", "sync"}     \* in f_sync, before and after the entry is set

ASSUME GeometryAssumption ==
    /\ SS \in Nat \ {0} /\ csize \in 1 .. 128 /\ Wrap \in Nat \ {0}
    /\ Wrap % (SS * csize) = 0
ASSUME CallAssumption ==
    /\ Sizes \subseteq 0 .. Wrap - 1 /\ Offsets \subseteq 0 .. Wrap - 1
    /\ MaxCalls \in Nat /\ Modes \subseteq SUBSET {"read", "write"}
ASSUME ValueAssumption == 0 .. 2 \subseteq Values /\ Old \in Values
ASSUME FaultAssumption == Faults \subseteq FaultKinds

VARIABLES
    disk,       \* the sectors of the card
    entry,      \* the directory entry, as the window shows it
    chain,      \* the clusters that are linked from the first one of the file
    fp,         \* the file object
    buffer,     \* its sector buffer
    pc, reg,    \* the call in progress and its local variables
    answer,     \* what the last call returned
    sane        \* the file object is in order, see Abort and Overlaps

vars == <<disk, entry, chain, fp, buffer, pc, reg, answer, sane>>

Cluster  == SS * csize                  \* bytes of a cluster
Sector   == Clusters \X (0 .. csize - 1)
NoSector == <<>>                        \* curr_sect = 0
Top      == 255                         \* csect at the top of the file
Content  == [0 .. SS - 1 -> Values]

\* org_clust is 0 or the first of the chain.
Fil ==
    [open : BOOLEAN, mode : Modes \cup {{}}, error : BOOLEAN, written : BOOLEAN,
     dirty : BOOLEAN, fptr : 0 .. Wrap - 1, fsize : 0 .. Wrap - 1,
     curr_clust : 0 .. Wrap, csect : (0 .. csize) \cup {Top},
     curr_sect : Sector \cup {NoSector}]
NoFil ==
    [open |-> FALSE, mode |-> {}, error |-> FALSE, written |-> FALSE,
     dirty |-> FALSE, fptr |-> 0, fsize |-> 0,
     curr_clust |-> 0, csect |-> Top, curr_sect |-> NoSector]

Ops == {"open", "read", "write", "seek", "sync", "close", "truncate"}
NoCall == [op |-> "open", todo |-> 0, done |-> 0, from |-> 0, nsect |-> NoSector,
           wbuff |-> <<>>, rbuff |-> <<>>, n |-> 0, calls |-> 0]
NoAnswer == [op |-> "open", result |-> "ok", n |-> 0, done |-> 0, from |-> 0]

Init ==
    /\ disk = [s \in Sector |-> [i \in 0 .. SS - 1 |-> Old]]
    /\ entry = [used |-> FALSE, size |-> 0]
    /\ chain = <<>>
    /\ fp = NoFil /\ buffer = [i \in 0 .. SS - 1 |-> Old]
    /\ pc = "idle" /\ reg = NoCall /\ answer = NoAnswer /\ sane = TRUE

-----------------------------------------------------------------------------
(* The ends of a call.                                                     *)

Return(result) ==
    /\ pc' = "idle" /\ reg' = [NoCall EXCEPT !.calls = reg.calls]
    /\ answer' = [op |-> reg.op, result |-> result, n |-> reg.n,
                  done |-> reg.done, from |-> reg.from]

\* goto fr_error, fw_error, fk_error or ft_error.
Abort ==
    /\ fp' = [fp EXCEPT !.error = TRUE] /\ sane' = FALSE
    /\ Return("error")

\* The sector with the byte at the position, once its cluster is known.
Here   == <<chain[fp.curr_clust], fp.csect>>
OnSector == fp.fptr % SS = 0                    \* on a sector boundary
NewCluster == OnSector /\ fp.csect >= csize     \* and on a cluster boundary

-----------------------------------------------------------------------------
(* Beginning a call.  validate holds as long as the file object is open.   *)

Begin(op, l, f) ==
    /\ pc' = l
    /\ reg' = [f EXCEPT !.op = op, !.from = fp.fptr, !.calls = reg.calls + 1]

Answer(op, n, result) ==
    /\ reg' = [NoCall EXCEPT !.calls = reg.calls + 1]
    /\ answer' = [op |-> op, result |-> result, n |-> n, done |-> 0, from |-> fp.fptr]
    /\ UNCHANGED pc
Refuse(op, n, result) == Answer(op, n, result) /\ UNCHANGED fp

\* The chain that the entry leads to; the buffer is not cleared.
f_open(mode) ==
    /\ ~fp.open
    /\ fp' = [NoFil EXCEPT !.open = TRUE, !.mode = mode, !.fsize = entry.size]
    /\ chain' = IF entry.used THEN chain ELSE <<>>
    /\ reg' = [NoCall EXCEPT !.calls = reg.calls + 1] /\ answer' = NoAnswer
    /\ UNCHANGED <<disk, entry, buffer, pc, sane>>

Clipped(n) == IF n > fp.fsize - fp.fptr THEN fp.fsize - fp.fptr ELSE n

f_read(n) ==
    /\ fp.open
    /\ CASE fp.error -> Refuse("read", n, "error")
         [] ~fp.error /\ "read" \notin fp.mode -> Refuse("read", n, "denied")
         [] OTHER -> /\ Begin("read", "loop", [NoCall EXCEPT !.todo = Clipped(n), !.n = n])
                     /\ UNCHANGED <<fp, answer>>
    /\ UNCHANGED <<disk, entry, chain, buffer, sane>>

\* The caller's bytes differ from each other and from call to call.
Bytes(n) == [i \in 1 .. n |-> (reg.calls + i) % 3]

NeverTooLong(n) == FALSE                        \* mutant: no check for 4 GB
TooLong(n) == (fp.fsize + n) % Wrap < fp.fsize

\* A write that would take the file over 4 GB is answered with FR_OK and no bytes.
f_write(n) ==
    /\ fp.open
    /\ CASE fp.error -> Refuse("write", n, "error")
         [] ~fp.error /\ "write" \notin fp.mode -> Refuse("write", n, "denied")
         [] ~fp.error /\ "write" \in fp.mode /\ TooLong(n) -> Refuse("write", n, "ok")
         [] OTHER -> /\ Begin("write", "loop", [NoCall EXCEPT !.todo = n, !.n = n,
                                                              !.wbuff = Bytes(n)])
                     /\ UNCHANGED <<fp, answer>>
    /\ UNCHANGED <<disk, entry, chain, buffer, sane>>

-----------------------------------------------------------------------------
(* create_chain, by what it does to the chain of the file: the cluster     *)
(* after the c-th is found, or a free one is linked to it, or there is     *)
(* none, or the table cannot be read or written.                           *)

Free == Clusters \ Range(chain)

Follow(c) == c + 1 <= Len(chain) /\ UNCHANGED chain
Stretch(c) ==
    /\ c = Len(chain)
    /\ \E new \in Free : chain' = Append(chain, new)
Full(c)  == c = Len(chain) /\ UNCHANGED chain
Breaks   == "table" \in Faults /\ UNCHANGED chain

-----------------------------------------------------------------------------
(* The loop of f_read and f_write.                                         *)

InLoop == pc = "loop" /\ reg.todo > 0
Reading == reg.op = "read"
Writing == reg.op = "write"

EnterCluster(c) == [fp EXCEPT !.curr_clust = c, !.csect = 0]

\* The cluster before the position; 0 at the top of the file.
Behind == IF fp.fptr = 0 THEN 0 ELSE fp.curr_clust

\* A write that finds no cluster is over; a read never comes to the end of the
\* chain (PositionRight), where it would abort.
GetCluster ==
    /\ InLoop /\ NewCluster
    /\ \/ Follow(Behind) /\ fp' = EnterCluster(Behind + 1) /\ UNCHANGED <<pc, reg, answer, sane>>
       \/ /\ Writing /\ Stretch(Behind)
          /\ fp' = EnterCluster(Behind + 1)
          /\ UNCHANGED <<pc, reg, answer, sane>>
       \/ /\ Writing /\ Full(Behind)
          /\ pc' = "written"
          /\ UNCHANGED <<fp, reg, answer, sane>>
       \/ /\ fp.fptr > 0 \/ (Writing /\ chain = <<>>)
          /\ Breaks /\ Abort
    /\ UNCHANGED <<disk, entry, buffer>>

\* The bytes that were moved, and the bytes that are left to move.
Advance(f, k) == [f EXCEPT !.fptr = (@ + k) % Wrap]
Moved(k, got) ==
    reg' = [reg EXCEPT !.todo = @ - k, !.done = @ + k, !.rbuff = @ \o got,
                       !.wbuff = SubSeq(@, k + 1, Len(@))]

\* The sectors that go directly, clipped at the end of the cluster.
Unbounded == reg.todo \div SS                   \* mutant: not clipped
Whole == IF fp.csect + reg.todo \div SS > csize THEN csize - fp.csect ELSE reg.todo \div SS
Direct == InLoop /\ OnSector /\ ~NewCluster /\ reg.todo \div SS > 0
Span   == {<<chain[fp.curr_clust], s>> : s \in fp.csect .. fp.csect + Whole - 1}

\* ff.c does not look whether one of them is in the buffer, where it may be
\* newer, or be left behind older, than on the card.
Overlaps == fp.curr_sect \in Span /\ (Writing \/ fp.dirty)

ReadDirect ==
    /\ Direct /\ Reading
    /\ \/ /\ fp' = Advance([fp EXCEPT !.csect = @ + Whole], SS * Whole)
          /\ Moved(SS * Whole,
                   [i \in 1 .. SS * Whole |->
                        disk[<<Here[1], fp.csect + (i - 1) \div SS>>][(i - 1) % SS]])
          /\ sane' = (sane /\ ~Overlaps)
          /\ UNCHANGED <<pc, answer>>
       \/ "read" \in Faults /\ Abort
    /\ UNCHANGED <<disk, entry, chain, buffer>>

WriteDirect ==
    /\ Direct /\ Writing
    /\ \/ /\ fp' = Advance([fp EXCEPT !.csect = @ + Whole], SS * Whole)
          /\ disk' = [s \in Sector |->
                        IF s \in Span
                        THEN [i \in 0 .. SS - 1 |-> reg.wbuff[SS * (s[2] - fp.csect) + i + 1]]
                        ELSE disk[s]]
          /\ Moved(SS * Whole, <<>>)
          /\ sane' = (sane /\ ~Overlaps)
          /\ UNCHANGED <<pc, answer>>
       \/ "write" \in Faults /\ UNCHANGED disk /\ Abort
    /\ UNCHANGED <<entry, chain, buffer>>

\* The buffer changes to another sector: for the loop, or for f_lseek.
Turns(s) ==
    \/ InLoop /\ OnSector /\ ~NewCluster /\ reg.todo \div SS = 0 /\ s = Here
    \/ pc = "land" /\ reg.nsect # NoSector /\ s = reg.nsect
Turning(s) == Turns(s) /\ s # fp.curr_sect

FlushBuffer ==
    /\ \E s \in Sector : Turning(s)
    /\ fp.dirty
    /\ \/ /\ disk' = [disk EXCEPT ![fp.curr_sect] = buffer]
          /\ fp' = [fp EXCEPT !.dirty = FALSE]
          /\ UNCHANGED <<pc, reg, answer, sane>>
       \/ "write" \in Faults /\ UNCHANGED disk /\ Abort
    /\ UNCHANGED <<entry, chain, buffer>>

\* f_write does not read a sector that lies behind the end of the file.
NeverNeeded == Writing                          \* mutant: nor any other
Behindhand  == Writing /\ fp.fptr >= fp.fsize

FillBuffer ==
    /\ \E s \in Sector :
           /\ Turning(s) /\ ~fp.dirty
           /\ \/ /\ buffer' = IF Behindhand THEN buffer ELSE disk[s]
                 /\ fp' = [fp EXCEPT !.curr_sect = s]
                 /\ UNCHANGED <<pc, reg, answer, sane>>
              \/ "read" \in Faults /\ ~Behindhand /\ UNCHANGED buffer /\ Abort
    /\ UNCHANGED <<disk, entry, chain>>

\* The part of a sector that goes through the buffer.  On a boundary csect
\* moves on to the next sector; inside a sector it is there already.
OneShort == SS - 1 - (fp.fptr % SS)             \* mutant: the last byte never
Room == SS - (fp.fptr % SS)
Part == IF Room > reg.todo THEN reg.todo ELSE Room
Copying ==
    /\ InLoop
    /\ OnSector => ~NewCluster /\ reg.todo \div SS = 0 /\ Here = fp.curr_sect
Stepped == IF OnSector THEN [fp EXCEPT !.csect = @ + 1] ELSE fp

CopyOut ==
    /\ Copying /\ Reading
    /\ fp' = Advance(Stepped, Part)
    /\ Moved(Part, [i \in 1 .. Part |-> buffer[(fp.fptr % SS) + i - 1]])
    /\ UNCHANGED <<disk, entry, chain, buffer, pc, answer, sane>>

CopyIn ==
    /\ Copying /\ Writing
    /\ fp' = Advance([Stepped EXCEPT !.dirty = TRUE], Part)
    /\ buffer' = [i \in 0 .. SS - 1 |->
                    IF i >= fp.fptr % SS /\ i < (fp.fptr % SS) + Part
                    THEN reg.wbuff[i - (fp.fptr % SS) + 1] ELSE buffer[i]]
    /\ Moved(Part, <<>>)
    /\ UNCHANGED <<disk, entry, chain, pc, answer, sane>>

\* f_write ends like this when it has written all and when the card is full:
\* with FR_OK, and only the count of bytes tells the caller.
Unmarked(f) == IF f.fptr > f.fsize THEN [f EXCEPT !.fsize = f.fptr] ELSE f  \* mutant
Longer(f) == IF f.fptr > f.fsize THEN [f EXCEPT !.fsize = f.fptr, !.written = TRUE] ELSE f

EndLoop ==
    /\ (pc = "loop" /\ reg.todo = 0) \/ pc = "written"
    /\ fp' = IF Writing THEN [Longer(fp) EXCEPT !.written = TRUE] ELSE fp
    /\ Return("ok")
    /\ UNCHANGED <<disk, entry, chain, buffer, sane>>

-----------------------------------------------------------------------------
(* f_lseek.  The walk starts at the cluster of the byte before the         *)
(* position, if that is not too far, and else at the top; reg.todo is ofs. *)

Goal(ofs) == IF ofs > fp.fsize /\ "write" \notin fp.mode THEN fp.fsize ELSE ofs

NearBy(ofs) == fp.fptr > 0 /\ ofs \div Cluster >= fp.fptr \div Cluster  \* mutant
OnTheWay(ofs) ==
    /\ fp.fptr > 0
    /\ (ofs - 1) \div Cluster >= (fp.fptr - 1) \div Cluster
StartOf(i) == (i \div Cluster) * Cluster

f_lseek(o) ==
    /\ fp.open
    /\ IF fp.error
       THEN Refuse("seek", o, "error") /\ UNCHANGED <<chain, sane>>
       ELSE LET ofs  == Goal(o)
                top  == [fp EXCEPT !.fptr = 0, !.csect = Top]
                call == [NoCall EXCEPT !.n = o]
            IN  \/ /\ ofs = 0
                   /\ fp' = top /\ Begin("seek", "land", call)
                   /\ UNCHANGED <<chain, answer, sane>>
                \/ /\ ofs > 0 /\ OnTheWay(ofs)
                   /\ fp' = [top EXCEPT !.fptr = StartOf(fp.fptr - 1)]
                   /\ Begin("seek", "walk", [call EXCEPT !.todo = ofs - StartOf(fp.fptr - 1)])
                   /\ UNCHANGED <<chain, answer, sane>>
                \/ /\ ofs > 0 /\ ~OnTheWay(ofs) /\ (Follow(0) \/ Stretch(0))
                   /\ fp' = [top EXCEPT !.curr_clust = 1]
                   /\ Begin("seek", "walk", [call EXCEPT !.todo = ofs])
                   /\ UNCHANGED <<answer, sane>>
                \/ /\ ofs > 0 /\ ~OnTheWay(ofs) /\ Full(0)
                   /\ fp' = top /\ Begin("seek", "land", call)
                   /\ UNCHANGED <<answer, sane>>
                \/ /\ ofs > 0 /\ ~OnTheWay(ofs) /\ chain = <<>> /\ Breaks
                   /\ fp' = [top EXCEPT !.error = TRUE] /\ sane' = FALSE
                   /\ Answer("seek", o, "error")
    /\ UNCHANGED <<disk, entry, buffer>>

\* One more cluster; in read mode the chain is only followed.
Walk ==
    /\ pc = "walk" /\ reg.todo > Cluster
    /\ \/ /\ \/ Follow(fp.curr_clust)
             \/ "write" \in fp.mode /\ Stretch(fp.curr_clust)
          /\ fp' = Advance([fp EXCEPT !.curr_clust = @ + 1], Cluster)
          /\ reg' = [reg EXCEPT !.todo = @ - Cluster]
          /\ UNCHANGED <<pc, answer, sane>>
       \/ /\ "write" \in fp.mode /\ Full(fp.curr_clust)
          /\ reg' = [reg EXCEPT !.todo = Cluster]
          /\ UNCHANGED <<fp, pc, answer, sane>>
       \/ Breaks /\ Abort
    /\ UNCHANGED <<disk, entry, buffer>>

\* The walk has reached the cluster; a position inside a sector needs it.
Arrive ==
    /\ pc = "walk" /\ reg.todo <= Cluster
    /\ LET inside == reg.todo % SS # 0
           sect   == reg.todo \div SS
       IN  /\ fp' = Advance([fp EXCEPT !.csect = IF inside THEN sect + 1 ELSE sect], reg.todo)
           /\ reg' = [reg EXCEPT !.nsect =
                         IF inside THEN <<chain[fp.curr_clust], sect>> ELSE NoSector]
    /\ pc' = "land"
    /\ UNCHANGED <<disk, entry, chain, buffer, answer, sane>>

\* FR_OK, wherever the position has come to.
Land ==
    /\ pc = "land" /\ reg.nsect \in {NoSector, fp.curr_sect}
    /\ fp' = Longer(fp)
    /\ Return("ok")
    /\ UNCHANGED <<disk, entry, chain, buffer, sane>>

-----------------------------------------------------------------------------
(* f_truncate, f_sync and f_close.                                         *)

\* The buffer may hold a sector of a cluster that is freed, and may still have
\* to be written to it: f_truncate does not look at the buffer.
CutAfter(c) == SubSeq(chain, 1, c)

f_truncate ==
    /\ fp.open
    /\ \/ fp.error /\ Refuse("truncate", 0, "error") /\ UNCHANGED <<chain, sane>>
       \/ /\ ~fp.error /\ "write" \notin fp.mode
          /\ Refuse("truncate", 0, "denied") /\ UNCHANGED <<chain, sane>>
       \/ /\ ~fp.error /\ "write" \in fp.mode /\ fp.fsize <= fp.fptr
          /\ Refuse("truncate", 0, "ok") /\ UNCHANGED <<chain, sane>>
       \/ /\ ~fp.error /\ "write" \in fp.mode /\ fp.fsize > fp.fptr
          /\ \/ /\ chain' = CutAfter(Behind)
                /\ fp' = [fp EXCEPT !.fsize = fp.fptr, !.written = TRUE]
                /\ Answer("truncate", 0, "ok") /\ UNCHANGED sane
             \/ /\ Breaks
                /\ fp' = [fp EXCEPT !.fsize = fp.fptr, !.written = TRUE, !.error = TRUE]
                /\ sane' = FALSE
                /\ Answer("truncate", 0, "error")
    /\ UNCHANGED <<disk, entry, buffer>>

Closes(op, f) == IF op = "close" THEN NoFil ELSE f

Syncs(op) ==
    /\ fp.open
    /\ IF fp.written
       THEN Begin(op, "sync", NoCall) /\ UNCHANGED <<fp, answer>>
       ELSE fp' = Closes(op, fp) /\ Answer(op, 0, "ok")
    /\ UNCHANGED <<disk, entry, chain, buffer, sane>>

f_sync  == Syncs("sync")
f_close == Syncs("close")

SyncBuffer ==
    /\ pc = "sync" /\ fp.dirty
    /\ \/ /\ disk' = [disk EXCEPT ![fp.curr_sect] = buffer]
          /\ fp' = [fp EXCEPT !.dirty = FALSE]
          /\ UNCHANGED <<pc, reg, answer>>
       \/ "write" \in Faults /\ Return("error") /\ UNCHANGED <<disk, fp>>
    /\ UNCHANGED <<entry, chain, buffer, sane>>

EntryOf(f)  == [used |-> chain # <<>>, size |-> f.fsize]

SyncEntry ==
    /\ pc = "sync" /\ ~fp.dirty
    /\ \/ /\ entry' = EntryOf(fp)
          /\ \/ /\ fp' = Closes(reg.op, [fp EXCEPT !.written = FALSE])
                /\ Return("ok")
             \/ /\ "sync" \in Faults
                /\ fp' = [fp EXCEPT !.written = FALSE]
                /\ Return("error")
       \/ "entry" \in Faults /\ Return("error") /\ UNCHANGED <<entry, fp>>
    /\ UNCHANGED <<disk, chain, buffer, sane>>

-----------------------------------------------------------------------------

Call ==
    /\ pc = "idle" /\ reg.calls < MaxCalls
    /\ \/ \E mode \in Modes : f_open(mode)
       \/ \E n \in Sizes : f_read(n) \/ f_write(n)
       \/ \E o \in Offsets : f_lseek(o)
       \/ f_truncate \/ f_sync \/ f_close

Step ==
    \/ GetCluster \/ ReadDirect \/ WriteDirect \/ FlushBuffer \/ FillBuffer
    \/ CopyOut \/ CopyIn \/ EndLoop \/ Walk \/ Arrive \/ Land
    \/ SyncBuffer \/ SyncEntry

Next == Call \/ Step
Spec == Init /\ [][Next]_vars

\* The processor runs on: a call that has begun goes on.
FairSpec == Spec /\ WF_vars(Step)

-----------------------------------------------------------------------------
(* Correctness.                                                            *)

Regs ==
    [op : Ops, todo : 0 .. Wrap, done : 0 .. Wrap, from : 0 .. Wrap - 1,
     nsect : Sector \cup {NoSector}, n : 0 .. Wrap, calls : 0 .. MaxCalls,
     wbuff : Seq(Values), rbuff : Seq(Values)]
Answers ==
    [op : Ops, result : {"ok", "denied", "error"}, n : 0 .. Wrap,
     done : 0 .. Wrap, from : 0 .. Wrap - 1]

\* Every variable keeps its type.
TypeOK ==
    /\ disk \in [Sector -> Content]
    /\ entry \in [used : BOOLEAN, size : 0 .. Wrap - 1]
    /\ chain \in Seq(Clusters)
    /\ fp \in Fil /\ buffer \in Content
    /\ pc \in {"idle", "loop", "written", "walk", "land", "sync"}
    /\ reg \in Regs /\ answer \in Answers
    /\ sane \in BOOLEAN

\* Between calls the four ways in which a file object tells its position
\* agree: fptr, the cluster of the byte before it, the sector after that byte,
\* and, inside a sector, the sector in the buffer; and the chain is long enough.
PositionRight ==
    pc = "idle" /\ fp.open /\ sane =>
        /\ fp.fptr <= fp.fsize /\ fp.fsize <= Len(chain) * Cluster
        /\ fp.fptr = 0 => fp.csect = Top
        /\ fp.fptr > 0 =>
               /\ fp.curr_clust = (fp.fptr - 1) \div Cluster + 1
               /\ fp.csect = ((fp.fptr - 1) % Cluster) \div SS + 1
               /\ fp.fptr % SS # 0 =>
                      fp.curr_sect = <<chain[fp.curr_clust], fp.csect - 1>>

\* FR_OK does not say that a call did all it was asked to.  Less is read only
\* up to the end of the file; less is written only when the file fills its
\* clusters, or nothing at all because the file would reach 4 GB; and f_lseek
\* stops short of its goal only at the end of a file that is read, or where a
\* file that is written fills its clusters.
Filled == fp.fptr = Len(chain) * Cluster
AnswerRight ==
    pc = "idle" /\ fp.open /\ sane /\ answer.result = "ok" =>
        /\ answer.op \in {"read", "write"} => fp.fptr = answer.from + answer.done
        /\ answer.op = "read" => answer.done = answer.n \/ fp.fptr = fp.fsize
        /\ answer.op = "write" =>
               \/ answer.done = answer.n \/ Filled
               \/ answer.done = 0 /\ fp.fsize + answer.n >= Wrap
        /\ answer.op = "seek" =>
               \/ fp.fptr = answer.n
               \/ fp.fptr < answer.n /\ (IF "write" \in fp.mode THEN Filled ELSE fp.fptr = fp.fsize)

\* The bytes of the file, on the card and through the buffer.
Where(i) == <<chain[i \div Cluster + 1], (i % Cluster) \div SS>>
OnCard(size) == [i \in 1 .. size |-> disk[Where(i - 1)][(i - 1) % SS]]
Through(size) ==
    [i \in 1 .. size |-> IF Where(i - 1) = fp.curr_sect THEN buffer[(i - 1) % SS]
                                                       ELSE disk[Where(i - 1)][(i - 1) % SS]]

\* What a call has left in the buffer is not forgotten: when nothing is marked
\* as written the entry and the card have the file, all of it.
Saved ==
    pc = "idle" /\ fp.open /\ sane /\ ~fp.written =>
        /\ entry = EntryOf(fp)
        /\ OnCard(entry.size) = Through(fp.fsize)

\* The file object implements a file of bytes.
Size == IF ~fp.open THEN entry.size
        ELSE IF Writing /\ pc # "idle" /\ fp.fptr > fp.fsize THEN fp.fptr ELSE fp.fsize
File == INSTANCE ByteFile WITH
            Byte <- Values, Limit <- Wrap, open <- fp.open,
            bytes <- IF sane THEN (IF fp.open THEN Through(Size) ELSE OnCard(Size)) ELSE <<>>,
            pos <- IF pc \in {"walk", "land"} THEN reg.from ELSE fp.fptr,
            given <- reg.wbuff, taken <- reg.rbuff
FileImplemented == File!Spec

\* Every call returns: no loop goes round without moving on.
CallsReturn == pc # "idle" ~> pc = "idle"
=============================================================================
