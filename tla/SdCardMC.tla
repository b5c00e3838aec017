------------------------------ MODULE SdCardMC ------------------------------
(* Instances of SdCard: every loop of the initialisation makes few tries.   *)
EXTENDS SdCard

\* Commands of CardInit, spelled out: Card depends on InitTries.
InitCommands == {"CMD8", "CMD55", "ACMD41", "CMD1", "CMD2", "CMD3", "CMD9", "CMD7",
                 "ACMD6", "CMD16", "ACMD13"}
TriesFew == [c \in InitCommands |-> 2]
TriesEnough == [c \in InitCommands |-> 5]

=============================================================================
