------------------------------- MODULE Cursors ------------------------------
(***************************************************************************)
(* Cursors over one map while the map is read and changed: qmap_iter,      *)
(* qmap_next and qmap_fin, and the cursors that qmap_get and qmap_del open *)
(* for themselves (src/libqmap.c).  A cursor is a cell of qmap_cursors     *)
(* whose index cursor_idm issues.  qmap_next releases a cursor when it     *)
(* finds no more entries, and qmap_fin releases it whatever happened       *)
(* before; the library's own loops and the examples of qmap.h do both.     *)
(* QM_SORTED maps are read in key order by loops with QM_RANGE; their      *)
(* index, which every change of the map marks for a rebuild, is taken anew *)
(* from the entries whenever it is read.                                   *)
(***************************************************************************)
EXTENDS TableOps

CONSTANTS InitM,        \* the initial capacity, qmap_open's mask + 1
          Hash,         \* the key type's hash
          Clients,      \* the loops that may be under way at once
          Uses,         \* the ways they behave, records of
                        \*   nested  loops are properly nested, and an
                        \*           exhausted cursor may be released again
                        \*   range   loops have QM_RANGE
                        \*   sorted  the map is QM_SORTED
                        \*   calls   from "put", "del", "get"
          MaxM          \* bound: puts that would grow the map further are left out

ASSUME CursorsAssumption ==
    /\ InitM \in Nat \ {0, 1}
    /\ Hash \in [Keys -> Nat]
    /\ IsFiniteSet(Clients)
    /\ \A use \in Uses : use.nested \in BOOLEAN /\ use.range \in BOOLEAN /\ use.sorted \in BOOLEAN

VARIABLES use,          \* how the clients behave
          tab,          \* the table
          idm,          \* cursor_idm
          cur,          \* qmap_cursors: id -> [pos, ipos, key, range]; a cell no
                        \*   loop uses is blank, for qmap_iter writes it first;
                        \*   pos is a place in the index for a loop in key order
          client,       \* client -> [phase, id]
          opened,       \* the nested loops under way, in the order they began
          owed,         \* history, of every loop under way: the positions that
                        \*   had an entry when it began, not deleted or
                        \*   returned since
          seen          \* history: those returned and not deleted since

vars == <<use, tab, idm, cur, client, opened, owed, seen>>

(* one client's cursor each, and the one of a call of the library *)
Ids == 0 .. Cardinality(Clients)

Blank == [pos |-> 0, ipos |-> 0, key |-> NULL, range |-> FALSE]

(* what loops find in the cells *)
InUse(cells, loops) == [id \in Ids |->
    IF \E c \in Clients : loops[c].phase = "open" /\ loops[c].id = id
      THEN cells[id] ELSE Blank]

Idle == [phase |-> "idle", id |-> 0]

Init ==
    /\ use \in Uses
    /\ tab = EmptyTable(InitM, [hash |-> Hash, multi |-> FALSE,
                                nogrow |-> FALSE, shared |-> FALSE])
    /\ idm = IdmInit
    /\ cur = [id \in Ids |-> Blank]
    /\ client = [c \in Clients |-> Idle]
    /\ opened = <<>>
    /\ owed = [c \in Clients |-> {}] /\ seen = [c \in Clients |-> {}]

-----------------------------------------------------------------------------
(* the entries below a key; on a map without duplicate keys, the places of *)
(* the sorted index before the key's                                       *)
Lower(t, key) == {p \in Live(t) : t.omap[p] < key}

(* Where qmap_iter starts: at 0 when no key is given, or the map has no    *)
(* index; at the place in the index of the first key that is not smaller;  *)
(* else at the key's position, or at QM_MISS if the key has none.          *)
Started(t, key, range) ==
    LET id == Lookup(t, key)
        at == CASE key = NULL \/ (range /\ ~use.sorted) -> 0
                [] key # NULL /\ range /\ use.sorted ->
                     Cardinality(Lower(t, key))
                [] OTHER -> IF id = MISS THEN MISS ELSE t.map[id]
    IN  [pos |-> at, ipos |-> at, key |-> key, range |-> range]

(* the entries from the cursor's position on, with QM_RANGE those whose    *)
(* key is not smaller than the cursor's                                    *)
Ahead(t, c) ==
    {p \in Live(t) : /\ c.pos # MISS /\ p >= c.pos
                     /\ c.range /\ c.key # NULL => t.omap[p] >= c.key}

(* sorted_idx[place] after qmap_rebuild_sorted *)
Indexed(t, place) ==
    CHOOSE p \in Live(t) : Cardinality(Lower(t, t.omap[p])) = place

(* Faulty: the cursor steps over an entry, or stays at it *)
MovedTwice(c, place) == [c EXCEPT !.pos = place + 2]
MovedNot(c, place) == [c EXCEPT !.pos = place]

Moved(c, place) == [c EXCEPT !.pos = place + 1]

(* qmap_lnext in key order *)
LnextInOrder(t, c) ==
    IF c.pos >= Cardinality(Live(t)) THEN [sn |-> MISS, cur |-> c]
    ELSE [sn |-> Indexed(t, c.pos), cur |-> Moved(c, c.pos)]

(* qmap_lnext by position: the next entry, or MISS when there is none or,  *)
(* for a cursor on a key, when it is not the one that it started at.       *)
LnextByPosition(t, c) ==
    LET p == Min(Ahead(t, c))
    IN  CASE Ahead(t, c) = {} ->
                [sn |-> MISS,
                 cur |-> IF c.pos = MISS \/ c.pos > t.idm.last THEN c
                         ELSE [c EXCEPT !.pos = t.idm.last]]
          [] Ahead(t, c) # {} /\ c.key # NULL /\ ~c.range /\ p # c.ipos ->
                [sn |-> MISS, cur |-> [c EXCEPT !.pos = p]]
          [] OTHER -> [sn |-> p, cur |-> Moved(c, p)]

Lnext(t, c) ==
    IF c.range /\ use.sorted THEN LnextInOrder(t, c) ELSE LnextByPosition(t, c)

-----------------------------------------------------------------------------

(* may the client act on its cursor now? *)
OnTop(c) == use.nested => Last(opened) = c

Iterating == {c \in Clients : client[c].phase = "open"}

(* A key at which the entries that loops in key order have still to return *)
(* would change their places in the index: the client adds and deletes     *)
(* only keys that are ahead of all loops.                                  *)
Disturbs(key) == use.sorted /\ \E c \in Iterating :
    \/ cur[client[c].id].key # NULL /\ key < cur[client[c].id].key
    \/ \E p \in seen[c] : key <= tab.omap[p]

(* qmap_iter; no loop starts while another still has to call qmap_fin.  Of *)
(* nested loops it does not matter which client's is the next.             *)
Open(c) == \E key \in Keys \cup {NULL} :
    LET id == IdmNewId(idm)
        s  == Started(tab, key, use.range)
    IN  /\ client[c].phase = "idle"
        /\ \A d \in Clients : client[d].phase # "ended"
        /\ use.nested => c = CHOOSE d \in Clients : client[d].phase = "idle"
        /\ idm' = IdmNew(idm)
        /\ client' = [client EXCEPT ![c] = [phase |-> "open", id |-> id]]
        /\ owed' = [owed EXCEPT ![c] =
                IF key = NULL THEN Live(tab)
                ELSE IF use.range THEN {p \in Live(tab) : tab.omap[p] >= key}
                ELSE Live(tab) \cap {s.pos}]
        /\ seen' = [seen EXCEPT ![c] = {}]
        /\ cur' = InUse([cur EXCEPT ![id] = s], client')
        /\ opened' = IF use.nested THEN Append(opened, c) ELSE opened
        /\ UNCHANGED <<use, tab>>

(* qmap_next, while there are entries *)
Fetch(c) ==
    LET next == Lnext(tab, cur[client[c].id])
    IN  /\ client[c].phase = "open" /\ OnTop(c)
        /\ next.sn # MISS
        /\ owed' = [owed EXCEPT ![c] = @ \ {next.sn}]
        /\ seen' = [seen EXCEPT ![c] = @ \cup {next.sn}]
        /\ UNCHANGED <<use, tab, idm, client, opened>>
        /\ cur' = InUse([cur EXCEPT ![client[c].id] = next.cur], client)

(* qmap_next when there is none: the cursor is released *)
End(c) ==
    LET next == Lnext(tab, cur[client[c].id])
    IN  /\ client[c].phase = "open" /\ OnTop(c)
        /\ next.sn = MISS
        /\ idm' = IdmDel(idm, client[c].id)
        /\ \/ client' = [client EXCEPT ![c] = Idle]
           \/ use.nested /\ client' = [client EXCEPT ![c].phase = "ended"]
        /\ cur' = InUse(cur, client')
        /\ opened' = IF use.nested THEN Front(opened) ELSE opened
        /\ seen' = [seen EXCEPT ![c] = {}]
        /\ UNCHANGED <<use, tab, owed>>

(* qmap_fin, early or after the cursor was exhausted *)
Fin(c) ==
    /\ \/ client[c].phase = "open" /\ OnTop(c)
       \/ client[c].phase = "ended"
    /\ idm' = IdmDel(idm, client[c].id)
    /\ client' = [client EXCEPT ![c] = Idle]
    /\ cur' = InUse(cur, client')
    /\ opened' = IF use.nested /\ client[c].phase = "open" THEN Front(opened) ELSE opened
    /\ owed' = [owed EXCEPT ![c] = {}] /\ seen' = [seen EXCEPT ![c] = {}]
    /\ UNCHANGED <<use, tab>>

(* qmap_put *)
Put == \E key \in Keys, val \in Vals :
    /\ "put" \in use.calls
    /\ (\E p \in Live(tab) : tab.omap[p] = key) \/ ~Disturbs(key)
    /\ tab' = PutKey(tab, key, val, MISS).tab
    /\ tab'.m <= MaxM
    /\ UNCHANGED <<use, idm, cur, client, opened, owed, seen>>

(* qmap_get: its cursor is released once, by qmap_lnext or by qmap_fin *)
GetKey == \E key \in Keys :
    LET id == IdmNewId(idm)
    IN  /\ "get" \in use.calls
        /\ UNCHANGED <<use, tab, client, opened, owed, seen>>
        /\ cur' = InUse([cur EXCEPT ![id] = Lnext(tab, Started(tab, key, FALSE)).cur], client)
        /\ idm' = IdmDel(IdmNew(idm), id)

(* qmap_del: its loop runs until qmap_lnext has released the cursor, and   *)
(* then qmap_fin releases it again.                                        *)
Del == \E key \in Keys :
    LET id    == IdmNewId(idm)
        found == Lnext(tab, Started(tab, key, FALSE))
        gone  == DeleteAt(tab, found.sn)
    IN  /\ "del" \in use.calls /\ ~Disturbs(key)
        /\ IF found.sn = MISS
             THEN /\ UNCHANGED <<tab, owed, seen>>
                  /\ cur' = InUse([cur EXCEPT ![id] = found.cur], client)
             ELSE /\ tab' = gone
                  /\ owed' = [c \in Clients |-> owed[c] \ {found.sn}]
                  /\ seen' = [c \in Clients |-> seen[c] \ {found.sn}]
                  /\ cur' = InUse([cur EXCEPT ![id] = Lnext(gone, found.cur).cur], client)
        /\ idm' = IdmDel(IdmDel(IdmNew(idm), id), id)
        /\ UNCHANGED <<use, client, opened>>

Next ==
    \/ \E c \in Clients : Open(c) \/ Fetch(c) \/ End(c) \/ Fin(c)
    \/ Put \/ GetKey \/ Del

(* A loop that has begun calls qmap_next again, unless it calls qmap_fin. *)
Fairness == \A c \in Clients : WF_vars(Fetch(c) \/ End(c))

Spec == Init /\ [][Next]_vars /\ Fairness

-----------------------------------------------------------------------------

(* The table, the cursors and the clients hold what they are declared to. *)
TypeOK ==
    /\ Typed(tab)
    /\ idm \in [free : Seq(Nat), last : Nat]
    /\ cur \in [Ids -> [pos : Nat \cup {MISS}, ipos : Nat \cup {MISS},
                        key : Keys \cup {NULL}, range : BOOLEAN]]
    /\ client \in [Clients -> [phase : {"idle", "open", "ended"}, id : Ids]]
    /\ owed \in [Clients -> SUBSET Nat] /\ seen \in [Clients -> SUBSET Nat]

(* Loops under way have cursors of their own, and cursor_idm accounts for  *)
(* exactly those: the second release of an exhausted cursor never frees    *)
(* one that another loop has been given.                                   *)
Accounted ==
    /\ \A c, d \in Iterating : client[c].id = client[d].id => c = d
    /\ Accounts(idm, {client[c].id : c \in Iterating})

(* An iteration that ended by itself has returned every entry that was     *)
(* there when it began and was not deleted meanwhile, however the map grew *)
(* and changed.                                                            *)
Complete == \A c \in Clients : client[c].phase # "open" => owed[c] = {}

(* No entry is returned twice by one iteration; with QM_RANGE none before  *)
(* the first key, and on a sorted map they come in key order.              *)
Once == \A c \in Iterating :
    LET cell == cur[client[c].id]
        sn   == Lnext(tab, cell).sn
    IN  sn # MISS =>
            /\ sn \notin seen[c]
            /\ use.range /\ cell.key # NULL => tab.omap[sn] >= cell.key
            /\ use.range /\ use.sorted =>
                   \A p \in seen[c] : tab.omap[p] < tab.omap[sn]

(* A cursor moves only when its own loop asks for the next entry; other    *)
(* loops, lookups and deletes that take cursors leave it where it is.      *)
Undisturbed == [][\A c \in Iterating :
    client'[c].phase = "open" /\ ~Fetch(c)
        => cur'[client[c].id] = cur[client[c].id]]_vars

(* Iteration ends although entries are put and the table grows while it    *)
(* goes on.                                                                *)
Ends == \A c \in Clients :
    ~use.nested /\ client[c].phase = "open" ~> client[c].phase # "open"
=============================================================================
