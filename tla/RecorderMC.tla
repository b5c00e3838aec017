----------------------------- MODULE RecorderMC -----------------------------
(***************************************************************************)
(* The application with two bytes of memory from the image buffer on and   *)
(* images of as many.  A size that was never assigned is negative, less,   *)
(* or more than there is of memory.                                        *)
(***************************************************************************)
EXTENDS Recorder

LeftoversMC == {-1, 1, 3}

\* States that behave alike count as one.  Dead variables are left out: the
\* locals of EINT3_Handler and of writeToSDCard when these do not run, size
\* until getPic() assigns it again, frames until the next session.  Of a
\* record, and of the image, the properties read the sessions only, and a file
\* that is longer than -1 turned round is any that has a record.
InUse(x, alive) == IF alive THEN <<x>> ELSE <<>>
Sessions(data)  == [i \in DOMAIN data |-> <<data[i].ses, data[i].img[1]>>]
Alike ==
    <<pc, flags, buttons, isr, file1, file2, session, image[1],
      [n \in Names |-> <<volume[n].present, Sessions(volume[n].data)>>],
      InUse(sampled, isr # "idle"),
      InUse(frames, pc \in SnapPc \cup RecPc),
      InUse(size, pc \in {"snapSize", "snapData", "recSize", "recData"}),
      InUse(left, pc \in {"snapData", "recData"})>>
=============================================================================
