-------------------------------- MODULE Clock -------------------------------
(***************************************************************************)
(* The time stamps of directory entries: RTCGetTime copies the registers   *)
(* of the real-time clock one after the other while it runs, get_fattime   *)
(* packs them.                                                             *)
(***************************************************************************)
EXTENDS Integers, Sequences

-----------------------------------------------------------------------------
(* The clock: its next second.                                             *)

Days(t) == CASE t.mon \in {4, 6, 9, 11} -> 30
             [] t.mon = 2 -> IF t.year % 4 = 0 THEN 29 ELSE 28
             [] OTHER -> 31

Tick(t) ==
    CASE t.sec < 59       -> [t EXCEPT !.sec = @ + 1]
      [] t.min < 59       -> [t EXCEPT !.sec = 0, !.min = @ + 1]
      [] t.hour < 23      -> [t EXCEPT !.sec = 0, !.min = 0, !.hour = @ + 1]
      [] t.mday < Days(t) -> [t EXCEPT !.sec = 0, !.min = 0, !.hour = 0, !.mday = @ + 1]
      [] t.mon < 12       -> [t EXCEPT !.sec = 0, !.min = 0, !.hour = 0, !.mday = 1, !.mon = @ + 1]
      [] OTHER            -> [sec |-> 0, min |-> 0, hour |-> 0, mday |-> 1, mon |-> 1,
                              year |-> t.year + 1]

-----------------------------------------------------------------------------
Registers == <<"sec", "min", "hour", "mday", "mon", "year">>

\* The clock moves on from t after the first k registers were read.
RTCGetTime(t, k) ==
    [r \in DOMAIN t |-> IF \E i \in 1 .. k : Registers[i] = r THEN t[r] ELSE Tick(t)[r]]

\* The two halves of the DWORD.  Seven bits hold the year.
get_fattime(t) ==
    [time |-> t.sec \div 2 + t.min * 2^5 + t.hour * 2^11,
     date |-> (t.mday + t.mon * 2^5 + (t.year - 1980) * 2^9) % 2^16]

NotAfter(s, t) ==
    \/ s.date < t.date
    \/ s.date = t.date /\ s.time <= t.time
=============================================================================
