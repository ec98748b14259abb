---------------------------- MODULE DurableMaps -----------------------------
(***************************************************************************)
(* What maps that are kept in files promise.  A map has contents while it  *)
(* is open and a saved copy.  Opening starts from the saved copy.  A save  *)
(* concerns the files that were used since the program started: it copies  *)
(* what is open and removes the copies of what is not, so a map that is    *)
(* closed before the save is dropped from its file.                        *)
(***************************************************************************)
CONSTANTS Maps, FileOf,         \* map -> the file it is kept in
          Contents,             \* what a map may hold
          EMPTY,                \* the contents of a map that was never saved
          CLOSED

VARIABLES mem,          \* map -> its contents while it is open, or CLOSED
          saved,        \* map -> its saved copy
          used          \* the files used since the program started

Init ==
    /\ mem = [m \in Maps |-> CLOSED]
    /\ saved = [m \in Maps |-> EMPTY]
    /\ used = {}

Open == \E m \in Maps :
    /\ mem[m] = CLOSED
    /\ mem' = [mem EXCEPT ![m] = saved[m]]
    /\ used' = used \cup {FileOf[m]}
    /\ UNCHANGED saved

Write == \E m \in Maps, c \in Contents :
    /\ mem[m] # CLOSED
    /\ mem' = [mem EXCEPT ![m] = c]
    /\ UNCHANGED <<saved, used>>

Close == \E m \in Maps :
    /\ mem[m] # CLOSED
    /\ mem' = [mem EXCEPT ![m] = CLOSED]
    /\ UNCHANGED <<saved, used>>

(* the copies after a save of some files *)
Copied(files) ==
    [m \in Maps |-> IF FileOf[m] \notin files THEN saved[m]
                    ELSE IF mem[m] = CLOSED THEN EMPTY ELSE mem[m]]

Save == saved' = Copied(used) /\ UNCHANGED <<mem, used>>

(* The program ends, by itself after a save or at any moment, in the       *)
(* middle of a save too, and starts anew.                                  *)
Restart == \E files \in SUBSET used :
    /\ saved' = Copied(files)
    /\ mem' = [m \in Maps |-> CLOSED]
    /\ used' = {}

Next == Open \/ Write \/ Close \/ Save \/ Restart

Spec == Init /\ [][Next]_<<mem, saved, used>>
=============================================================================
