-------------------------------- MODULE Disk --------------------------------
(***************************************************************************)
(* What ff.c may rely on below it: the promise of disk_read, disk_write    *)
(* and disk_ioctl(CTRL_SYNC) for one sector at a time.  A call that        *)
(* succeeds did what it says, and a write that fails changed nothing.      *)
(* A sector that was written may still be on its way into the memory of    *)
(* the card; CTRL_SYNC succeeds only when none is.                         *)
(***************************************************************************)
CONSTANTS Sectors, Values

VARIABLES
    stored,     \* what a read of each sector would deliver
    unsafe,     \* sectors a power failure could still lose
    call,       \* the call in progress
    answer      \* result of the last call, and what it read

vars == <<stored, unsafe, call, answer>>

NoCall == [op |-> "none"]
Sync   == [op |-> "sync"]
Read(s) == [op |-> "read", sect |-> s]
Write(s, v, taken) == [op |-> "write", sect |-> s, value |-> v, taken |-> taken]

Requests ==
    {Sync} \cup [op : {"read"}, sect : Sectors]
    \cup [op : {"write"}, sect : Sectors, value : Values, taken : {FALSE}]

Init ==
    /\ stored \in [Sectors -> Values] /\ unsafe = {}
    /\ call = NoCall
    /\ answer \in [res : {"none"}, value : Values]

Begin(c) ==
    /\ call = NoCall /\ call' = c
    /\ UNCHANGED <<stored, unsafe, answer>>

\* The card takes the sector of a disk_write; later it has programmed it.
Take(s, v) ==
    /\ call = Write(s, v, FALSE)
    /\ stored' = [stored EXCEPT ![s] = v]
    /\ unsafe' = unsafe \cup {s}
    /\ call' = Write(s, v, TRUE)
    /\ UNCHANGED answer

Program(s) ==
    /\ s \in unsafe /\ unsafe' = unsafe \ {s}
    /\ UNCHANGED <<stored, call, answer>>

Return(res, v) ==
    /\ call # NoCall /\ call' = NoCall
    /\ call.op = "read" /\ res = "ok" => v = stored[call.sect]
    /\ call.op = "write" => (res = "ok" <=> call.taken)
    /\ call.op = "sync" /\ res = "ok" => unsafe = {}
    /\ answer' = [res |-> res, value |-> v]
    /\ UNCHANGED <<stored, unsafe>>

Next ==
    \/ \E c \in Requests : Begin(c)
    \/ \E s \in Sectors, v \in Values : Take(s, v)
    \/ \E s \in Sectors : Program(s)
    \/ \E res \in {"ok", "error"}, v \in Values : Return(res, v)

Spec == Init /\ [][Next]_vars
=============================================================================
