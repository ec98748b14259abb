------------------------------ MODULE MCStore -------------------------------
(* Maps in files and what the clients of the runs of Store do with them. *)
EXTENDS Store

CONSTANTS fx, fy,       \* two databases of a file
          g             \* the map of another file

TwoFiles == fx :> "f" @@ fy :> "f" @@ g :> "g"
Databases == fx :> "x" @@ fy :> "y" @@ g :> NODB

(* one map of a file at a time *)
InTurn == [maps |-> {fx, fy}, together |-> FALSE, closes |-> TRUE,
           others |-> {"memory"}, records |-> {}]

(* two files, both open until the program ends *)
SideBySide == [maps |-> {fx, g}, together |-> TRUE, closes |-> FALSE,
               others |-> {}, records |-> {}]

(* a file without databases, with mirrors and links *)
WithLinks == [maps |-> {g}, together |-> FALSE, closes |-> TRUE,
              others |-> {"memory", "mirror", "linked"}, records |-> {}]

(* record types but the last one *)
WithRecords == [maps |-> {}, together |-> FALSE, closes |-> TRUE,
                others |-> {"memory"}, records |-> {1}]

Careful == {InTurn, SideBySide, WithLinks, WithRecords}

(* two databases of a file open at once *)
BothDatabases == {[maps |-> {fx, fy}, together |-> TRUE, closes |-> FALSE,
                   others |-> {}, records |-> {}]}
=============================================================================
