------------------------------- MODULE Store --------------------------------
(***************************************************************************)
(* Map handles and files: opening and closing maps with what belongs to    *)
(* them, loading, saving, and the end of the program (src/libqmap.c).      *)
(*                                                                         *)
(* A handle's head is a record                                             *)
(*    open     its arrays are allocated                                    *)
(*    map      the file and database it was opened with, NONE in memory    *)
(*    record   the number of its record type, 0 for none                   *)
(*    phd      its primary, itself when it has none                        *)
(*    linked   the maps linked to it, latest first                         *)
(*    private  the maps opened for it: "inv", an inverse index, and        *)
(*             "vstr", the texts of QM_VSTR fields; 0 when not open        *)
(*    vals     key -> value, NULL for none                                 *)
(* Opening a handle again keeps what the open does not set: a mirror has   *)
(* the map and the record of the handle's former user.                     *)
(*                                                                         *)
(* A file is the sequence of its blocks, each the database and the entries *)
(* of one map.  The entries of maps in memory are left out.                *)
(***************************************************************************)
EXTENDS IdmOps, FiniteSets

CONSTANTS Maps,         \* the maps kept in files
          FileOf, DbOf, \* map -> its file, its database or NODB
          NODB,
          NONE,         \* the map of a handle that is kept in memory
          Keys, Vals, NULL,
          Records,      \* the record types registered, 1 .. Records
          Uses,         \* what the client does, records of
                        \*   maps      the maps in files it opens
                        \*   together  it has several of them open at once
                        \*   closes    it closes them
                        \*   others    what else it opens: "memory" maps,
                        \*             "mirror" maps, "linked" maps
                        \*   records   the record types it uses
          LastHandle    \* bound: the highest handle

ASTRAY == -1            \* a place in a file where no block begins

ASSUME StoreAssumption ==
    /\ NONE \notin Maps /\ NONE \notin [Keys -> Vals \cup {NULL}]
    /\ Records \in Nat /\ LastHandle \in Nat
    /\ \A u \in Uses : u.maps \subseteq Maps /\ u.records \subseteq 1 .. Records

VARIABLES use,          \* what the client does
          hidm,         \* the manager of the handles
          heads,        \* handle -> head
          mine,         \* the handles the client has
          files,        \* the files opened, in the order of qmap_files
          ids,          \* file -> its maps' handles, latest first
          dbs,          \* map -> handle it was opened with last, 0 for none
          mdbs,         \* the handles whose maps are saved
          disk          \* file -> its blocks

vars == <<use, hidm, heads, mine, files, ids, dbs, mdbs, disk>>

Handles == 2 .. LastHandle      \* 0 and 1 are qmap_files and qmap_dbs
Files == {FileOf[m] : m \in Maps}
Empty == [k \in Keys |-> NULL]
NoPrivate == [inv |-> 0, vstr |-> 0]

(* the maps that are open *)
Live == {h \in Handles : heads[h].open}

(* head->file *)
InFile(h, f) == heads[h].map # NONE /\ FileOf[heads[h].map] = f

(* the members of a list that are in S, in their order *)
Those(list, S) ==
    LET kept[n \in 0 .. Len(list)] ==
            IF n = 0 THEN <<>>
            ELSE IF list[n] \in S THEN Append(kept[n - 1], list[n]) ELSE kept[n - 1]
    IN  kept[Len(list)]

-----------------------------------------------------------------------------
(* Opening and closing *)

Unused == [open |-> FALSE, map |-> NONE, record |-> 0, phd |-> 0,
           linked |-> <<>>, private |-> NoPrivate, vals |-> Empty]

(* Faulty: the primary of the former map stays *)
AllocatedLinked(head, h) ==
    [head EXCEPT !.open = TRUE, !.phd = IF @ = 0 THEN h ELSE @,
                 !.linked = <<>>, !.vals = Empty]

(* _qmap_open *)
Allocated(head, h) ==
    [head EXCEPT !.open = TRUE, !.phd = h, !.linked = <<>>, !.vals = Empty]

(* qmap_open, before it loads *)
Opened(hs, h, map, rec) ==
    [hs EXCEPT ![h] = [Allocated(@, h) EXCEPT !.map = map, !.record = rec,
                                              !.private = NoPrivate]]

(* qmap_assoc *)
Linked(hs, h, primary) ==
    [hs EXCEPT ![primary].linked = <<h>> \o @, ![h].phd = primary]

(* Faulty: only the map itself is closed *)
ClosedWithItself(h) == <<h>>

(* qmap_close closes the linked maps, the private ones and the map itself; *)
(* the inverse index of a map of the last record type is passed over.      *)
ClosedWith(h) ==
    LET hd == heads[h]
    IN  hd.linked
        \o (IF hd.private.inv # 0 /\ hd.record > 0 /\ hd.record < Records
              THEN <<hd.private.inv>> ELSE <<>>)
        \o (IF hd.private.vstr # 0 THEN <<hd.private.vstr>> ELSE <<>>)
        \o <<h>>

Closed(head) == [head EXCEPT !.open = FALSE, !.linked = <<>>,
                             !.private = NoPrivate, !.vals = Empty]

-----------------------------------------------------------------------------
(* Loading and saving *)

(* qmap_put of what a block holds *)
Merged(vals, block) ==
    [k \in Keys |-> IF block.vals[k] = NULL THEN vals[k] ELSE block.vals[k]]

(* Faulty: the database of a block is not looked at *)
ReadBlockAny(st, h, blocks, db) ==
    IF st.at \notin DOMAIN blocks THEN st
    ELSE [hs |-> [st.hs EXCEPT ![h].vals = Merged(@, blocks[st.at])],
          at |-> st.at + 1]

(* _qmap_load: the handle gets the block at the place reached, if it is of *)
(* the database asked for.  A block of another one is passed over together *)
(* with the header of the next: that leads to the block after the next     *)
(* when that one is empty, and else into its entries, which no database is *)
(* named like.  The code goes on from there by a size it takes from an     *)
(* entry's bytes, to wherever that leads; here it finds nothing any more.  *)
(* Only with two maps of a file open is there a read after the first.      *)
(* Behind the file's last block zeros are read.                            *)
ReadBlock(st, h, blocks, db) ==
    IF st.at \notin DOMAIN blocks THEN st
    ELSE IF db = NODB \/ blocks[st.at].db = db
      THEN [hs |-> [st.hs EXCEPT ![h].vals = Merged(@, blocks[st.at])],
            at |-> st.at + 1]
    ELSE IF st.at = Len(blocks) \/ blocks[st.at + 1].vals = Empty
      THEN [st EXCEPT !.at = @ + 2]
      ELSE [st EXCEPT !.at = ASTRAY]

(* qmap_load_file: one block for every map of the file that is open *)
Loaded(hs, listed, blocks, db) ==
    LET read[n \in 0 .. Len(listed)] ==
            IF n = 0 THEN [hs |-> hs, at |-> 1]
            ELSE ReadBlock(read[n - 1], listed[n], blocks, db)
    IN  read[Len(listed)].hs

(* qmap_save_file: a block for every map of the file that is open and to   *)
(* be saved; without one the file is left empty.                           *)
SavedFile(f) ==
    LET kept == Those(ids[f], mdbs)
    IN  [i \in DOMAIN kept |-> [db |-> DbOf[heads[kept[i]].map],
                                vals |-> heads[kept[i]].vals]]

(* qmap_save, or the first part of it *)
SavedFiles(fs) == [f \in Files |-> IF f \in fs THEN SavedFile(f) ELSE disk[f]]

-----------------------------------------------------------------------------
(* The program starts: qmap_init *)

FreshIdm == [free |-> <<>>, last |-> 2]
FreshHeads == [h \in Handles |-> Unused]
FreshIds == [f \in Files |-> <<>>]
FreshDbs == [m \in Maps |-> 0]

Init ==
    /\ use \in Uses
    /\ hidm = FreshIdm /\ heads = FreshHeads /\ mine = {}
    /\ files = <<>> /\ ids = FreshIds /\ dbs = FreshDbs /\ mdbs = {}
    /\ disk = [f \in Files |-> <<>>]

(* The map's former handle is no longer saved; it may be closed, or have   *)
(* been given to another map.                                              *)
Marked(m, h) == (IF DbOf[m] = NODB THEN mdbs ELSE mdbs \ {dbs[m]}) \cup {h}

(* The map is marked as one to save and enters the list of its file *)
Enlisted(m, h) ==
    /\ mdbs' = Marked(m, h)
    /\ dbs' = IF DbOf[m] = NODB THEN dbs ELSE [dbs EXCEPT ![m] = h]
    /\ files' = IF Contains(files, FileOf[m]) THEN files ELSE Append(files, FileOf[m])
    /\ ids' = [ids EXCEPT ![FileOf[m]] = <<h>> \o @]

(* What the client opens: a map in a file that is not open already, alone  *)
(* or together with others; a mirrored map only while no handle was given  *)
(* back.                                                                   *)
MayOpen(map, rec, mirrored) ==
    /\ IF map = NONE THEN "memory" \in use.others
       ELSE \A x \in mine : heads[x].map # map /\ (use.together \/ heads[x].map = NONE)
    /\ mirrored => "mirror" \in use.others /\ hidm.free = <<>> /\ rec = 0

(* qmap_open.  With QM_MIRROR the handle next to the map's is associated,  *)
(* whichever handle the mirror got.                                        *)
Open == \E map \in use.maps \cup {NONE}, rec \in use.records \cup {0}, mirrored \in BOOLEAN :
    LET h == IdmNewId(hidm)
        opened == Opened(heads, h, map, rec)
        loaded == IF map = NONE THEN opened
                  ELSE Loaded(opened, <<h>> \o ids[FileOf[map]], disk[FileOf[map]], DbOf[map])
        issued == IdmNew(hidm)
        mirror == IdmNewId(issued)
    IN  /\ MayOpen(map, rec, mirrored)
        /\ hidm' = IF mirrored THEN IdmNew(issued) ELSE issued
        /\ hidm'.last <= LastHandle + 1
        /\ heads' = IF mirrored
                      THEN Linked([loaded EXCEPT ![mirror] = Allocated(@, mirror)], h + 1, h)
                      ELSE loaded
        /\ mine' = mine \cup {h}
        /\ IF map = NONE THEN UNCHANGED <<files, ids, dbs, mdbs>> ELSE Enlisted(map, h)
        /\ UNCHANGED <<use, disk>>

(* Faulty: the handle is not given back *)
IdmRefusedKept(idm) == IdmNew(idm)

(* _qmap_open with QM_MULTIVALUE and without QM_SORTED *)
IdmRefused(idm) == IdmDel(IdmNew(idm), IdmNewId(idm))

OpenRefused ==
    /\ hidm' = IdmRefused(hidm)
    /\ UNCHANGED <<use, heads, mine, files, ids, dbs, mdbs, disk>>

(* qmap_assoc: of a map that has nothing linked to it, to one that is not  *)
(* linked itself; the client leaves it to the primary to close it.  It has *)
(* no record type, so nothing is opened for it.                            *)
Assoc == \E h, primary \in mine :
    /\ "linked" \in use.others
    /\ h # primary /\ heads[h].phd = h /\ heads[primary].phd = primary
    /\ heads[h].linked = <<>> /\ heads[h].map = NONE /\ heads[h].record = 0
    /\ heads' = Linked(heads, h, primary)
    /\ mine' = mine \ {h}
    /\ UNCHANGED <<use, hidm, files, ids, dbs, mdbs, disk>>

(* the first put of a reference or of a QM_VSTR text *)
OpenPrivate == \E h \in mine, which \in {"inv", "vstr"} :
    LET p == IdmNewId(hidm)
    IN  /\ heads[h].record > 0 /\ heads[h].private[which] = 0
        /\ p <= LastHandle
        /\ hidm' = IdmNew(hidm)
        /\ heads' = [Opened(heads, p, NONE, 0) EXCEPT ![h].private[which] = p]
        /\ UNCHANGED <<use, mine, files, ids, dbs, mdbs, disk>>

(* qmap_put and qmap_del *)
Write == \E h \in mine, k \in Keys, v \in Vals \cup {NULL} :
    /\ heads[h].map # NONE
    /\ heads' = [heads EXCEPT ![h].vals[k] = v]
    /\ UNCHANGED <<use, hidm, mine, files, ids, dbs, mdbs, disk>>

(* Faulty: the handle is given back but stays in the file's list *)
UnlistedNot(f, closed) == ids[f]

(* the file's list without the maps that were closed *)
Unlisted(f, closed) ==
    LET left[n \in 0 .. Len(closed)] ==
            IF n = 0 THEN ids[f]
            ELSE IF InFile(closed[n], f)
              THEN RemoveFirst(left[n - 1], closed[n]) ELSE left[n - 1]
    IN  left[Len(closed)]

(* qmap_close *)
Close == \E h \in mine :
    LET closed == Those(ClosedWith(h), Live)
    IN  /\ use.closes
        /\ hidm' = IdmDelAll(hidm, closed)
        /\ heads' = [x \in Handles |-> IF Contains(closed, x)
                                         THEN Closed(heads[x]) ELSE heads[x]]
        /\ mine' = mine \ {h}
        /\ ids' = [f \in Files |-> Unlisted(f, closed)]
        /\ UNCHANGED <<use, files, dbs, mdbs, disk>>

Save ==
    /\ disk' = SavedFiles(Range(files))
    /\ UNCHANGED <<use, hidm, heads, mine, files, ids, dbs, mdbs>>

(* The program ends and is started again: qmap_destruct saves.  It may be  *)
(* killed instead, at any moment: also when qmap_save has written some of  *)
(* the files.                                                              *)
Restart == \E n \in 0 .. Len(files) :
    /\ disk' = SavedFiles({files[i] : i \in 1 .. n})
    /\ hidm' = FreshIdm /\ heads' = FreshHeads /\ mine' = {}
    /\ files' = <<>> /\ ids' = FreshIds /\ dbs' = FreshDbs /\ mdbs' = {}
    /\ UNCHANGED use

Next ==
    \/ Open \/ OpenRefused \/ Assoc \/ OpenPrivate \/ Write \/ Close \/ Save \/ Restart

Spec == Init /\ [][Next]_vars

-----------------------------------------------------------------------------

(* Every handle below the highest is open or listed as free, once, through *)
(* maps that are opened and closed with all that belongs to them.          *)
TypeOK ==
    /\ Accounts(hidm, {0, 1} \cup Live) /\ mine \subseteq Live
    /\ \A h \in Handles :
        /\ heads[h].map \in Maps \cup {NONE} /\ heads[h].phd \in Handles \cup {0}
        /\ heads[h].vals \in [Keys -> Vals \cup {NULL}]
    /\ mdbs \subseteq Handles /\ Range(files) \subseteq Files
    /\ \A f \in Files : \A i \in DOMAIN disk[f] :
        disk[f][i].vals \in [Keys -> Vals \cup {NULL}]

(* The list of a file, from which it is loaded and saved, has the open     *)
(* maps of that file, each once: never a handle that was closed, or given  *)
(* to a mirror or a map of another file since.                             *)
FilesListOpen == \A f \in Files :
    /\ IsInjective(ids[f])
    /\ Range(ids[f]) = {h \in mine : InFile(h, f)}
    /\ ids[f] # <<>> => Contains(files, f)

(* A map's puts go to the maps linked to it: they are open and have it as  *)
(* their primary, although handles are given to other maps when closed.    *)
LinksOpen == \A h \in Live :
    /\ \A l \in Range(heads[h].linked) : l \in Live /\ heads[l].phd = h /\ l # h
    /\ heads[h].phd # h => heads[h].phd \in Live /\ Contains(heads[heads[h].phd].linked, h)
    /\ IsInjective(heads[h].linked)

(* the maps opened for another one *)
Belonging(h) ==
    Range(heads[h].linked) \cup ({heads[h].private.inv, heads[h].private.vstr} \ {0})

(* Every open map is the client's or belongs to one of the client's: what  *)
(* opening or using a map has opened besides is closed with it.            *)
NothingLeaks == Live = mine \cup UNION {Belonging(h) : h \in mine}

(* the entries the file of a map has for it *)
SavedCopy(m) ==
    LET blocks == disk[FileOf[m]]
        at == {i \in DOMAIN blocks : blocks[i].db = DbOf[m]}
    IN  IF at = {} THEN Empty ELSE blocks[Min(at)].vals

InMemory(m) ==
    LET at == {h \in mine : heads[h].map = m}
    IN  IF at = {} THEN NONE ELSE heads[CHOOSE h \in at : TRUE].vals

Durable == INSTANCE DurableMaps WITH
    Contents <- [Keys -> Vals \cup {NULL}], EMPTY <- Empty, CLOSED <- NONE,
    mem <- [m \in Maps |-> InMemory(m)],
    saved <- [m \in Maps |-> SavedCopy(m)], used <- Range(files)

(* Maps in files are durable: what a map held at the last save is what it  *)
(* is opened with, whatever was opened, closed or saved in between and     *)
(* wherever the program was stopped.                                       *)
ImplementsDurable == Durable!Spec

(* A program that starts and opens any one map of a file first finds in it *)
(* what was saved for it.                                                  *)
ReadsBack == \A m \in Maps :
    LET h == 2
        hs == Opened([x \in Handles |-> Unused], h, m, 0)
    IN  Loaded(hs, <<h>>, disk[FileOf[m]], DbOf[m])[h].vals = SavedCopy(m)
=============================================================================
