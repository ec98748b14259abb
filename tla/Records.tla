------------------------------ MODULE Records -------------------------------
(***************************************************************************)
(* A record map with a QM_REFERENCE and a QM_MULTI_REFERENCE field, the    *)
(* map its references name, and the two inverse indexes that the puts and  *)
(* deletes of the record map keep up (src/libqmap.c).                      *)
(*                                                                         *)
(* Of a map only keys and positions matter here: a record                  *)
(*    idm    the manager of the positions                                  *)
(*    omap   position -> key, NULL when no item is there                   *)
(* An item of the record map has, at its position, a row of                *)
(*    ref    the key of a target, NULL for the empty text: the code keeps  *)
(*           the text and resolves it anew whenever it needs the position  *)
(*    multi  the positions of targets, one a line; WORD is a line that is  *)
(*           no number, at which reading stops                             *)
(* A row with a NULL reference and no lines is a zeroed struct.            *)
(*                                                                         *)
(* An inverse index maps a target's position to a text of the positions of *)
(* the items that refer to it: its lines, and whether the last one has its *)
(* newline.  An index without an entry for a position is the empty text.   *)
(***************************************************************************)
EXTENDS IdmOps, FiniteSets, FiniteSetsExt

CONSTANTS Sources,      \* keys of the record map
          Targets,      \* keys of the map its fields refer to
          NULL,         \* no key, no text
          WORD,         \* a line of text that is no number
          Uses,         \* what the client does, records of
                        \*   items    the keys it stores
                        \*   fields   the fields it writes: "ref", "multi"
                        \*   regrows  whether it adds a reference to a target
                        \*            of which it removed another one
          MaxLines      \* bound: lines the client writes into a multi field

MISS == -1              \* UINT32_MAX of qmap_pos

ASSUME RecordsAssumption ==
    /\ IsFiniteSet(Sources) /\ IsFiniteSet(Targets)
    /\ Cardinality(Sources) <= 10           \* a position has one digit
    /\ NULL \notin Sources \cup Targets \cup {MISS}
    /\ WORD \notin Nat /\ MaxLines \in Nat
    /\ Uses \subseteq [items : SUBSET Sources, fields : SUBSET {"ref", "multi"},
                       regrows : BOOLEAN]

VARIABLES use,          \* what the client does
          src, tgt,     \* the record map and the map it refers to
          rows,         \* position in src -> row
          invRef, invMulti  \* the inverse indexes: position in tgt -> text

vars == <<use, src, tgt, rows, invRef, invMulti>>

-----------------------------------------------------------------------------
(* Keys and positions *)

Spots(keys) == 0 .. Cardinality(keys) - 1

EmptyMap(keys) == [idm |-> IdmInit, omap |-> [p \in Spots(keys) |-> NULL]]

Live(m) == {p \in 0 .. m.idm.last - 1 : m.omap[p] # NULL}

(* qmap_pos: a scan of the positions *)
Pos(m, key) ==
    LET at == {p \in Live(m) : m.omap[p] = key}
    IN  IF at = {} THEN MISS ELSE Min(at)

(* _qmap_put: a new key takes a position, a known one keeps its own *)
With(m, key) ==
    IF Pos(m, key) # MISS THEN m
    ELSE [idm |-> IdmNew(m.idm), omap |-> [m.omap EXCEPT ![IdmNewId(m.idm)] = key]]

(* Faulty: the position is given back, the key stays *)
WithoutIdmOnly(m, p) == [m EXCEPT !.idm = IdmDel(m.idm, p)]

(* qmap_ndel *)
Without(m, p) == [idm |-> IdmDel(m.idm, p), omap |-> [m.omap EXCEPT ![p] = NULL]]

-----------------------------------------------------------------------------
(* The texts of the inverse indexes *)

NoText == [lines |-> <<>>, ended |-> TRUE]

(* printing one number behind another, without a newline between them *)
RunTogether(a, b) == 10 * a + b

(* Faulty: a position that is listed is listed again *)
InverseAddAgain(text, p) == [lines |-> Append(text.lines, p), ended |-> TRUE]

(* inverse_add *)
InverseAdd(text, p) ==
    IF Contains(text.lines, p) THEN text
    ELSE [lines |-> IF text.ended THEN Append(text.lines, p)
                    ELSE Front(text.lines) \o <<RunTogether(Last(text.lines), p)>>,
          ended |-> TRUE]

(* Faulty: the entry is deleted although other items refer to the target *)
InverseRemoveEntry(text, p) == NoText

(* the lines that do not hold p, in their order *)
Others(lines, p) ==
    LET kept[n \in 0 .. Len(lines)] ==
            IF n = 0 THEN <<>>
            ELSE IF lines[n] = p THEN kept[n - 1] ELSE Append(kept[n - 1], lines[n])
    IN  kept[Len(lines)]

(* inverse_remove: the other lines are printed again, the last one without *)
(* a newline; when there is none the entry is deleted.                     *)
InverseRemove(text, p) ==
    LET rest == Others(text.lines, p) IN [lines |-> rest, ended |-> rest = <<>>]

(* once for every time the field names the target *)
AddedEach(text, times, p) ==
    LET added[n \in 0 .. times] ==
            IF n = 0 THEN text ELSE InverseAdd(added[n - 1], p)
    IN  added[times]

(* how often a field names a target *)
Times(named, tp) == Cardinality({i \in DOMAIN named : named[i] = tp})

(* handle_inverse_put: item p of the record map referred to the targets at *)
(* the positions old and refers to those at new.                           *)
UpdateInverse(inv, old, new, p) ==
    [tp \in DOMAIN inv |->
        CASE tp \in Range(old) \ Range(new) -> InverseRemove(inv[tp], p)
          [] tp \in Range(new) \ Range(old) ->
                AddedEach(inv[tp], Times(new, tp), p)
          [] OTHER -> inv[tp]]

(* the position a reference's text stands for now, if any *)
RefPos(key) == IF Pos(tgt, key) = MISS THEN <<>> ELSE <<Pos(tgt, key)>>

(* parse_positions: the lines up to the first that is no number *)
MultiPos(lines) ==
    IF Contains(lines, WORD)
      THEN SubSeq(lines, 1, SelectInSeq(lines, LAMBDA q : q = WORD) - 1) ELSE lines

(* qmap_inv_get *)
InvGet(inv, p) == Range(inv[p].lines)

-----------------------------------------------------------------------------

Zero == [ref |-> NULL, multi |-> <<>>]

Row(s) == IF Pos(src, s) = MISS THEN Zero ELSE rows[Pos(src, s)]

Init ==
    /\ use \in Uses
    /\ src = EmptyMap(Sources) /\ tgt = EmptyMap(Targets)
    /\ rows = [p \in Spots(Sources) |-> Zero]
    /\ invRef = [tp \in Spots(Targets) |-> NoText]
    /\ invMulti = [tp \in Spots(Targets) |-> NoText]

(* the client adds no line to a text that has lost another one *)
Regrows(inv, old, new) == \E tp \in Range(new) \ Range(old) : ~inv[tp].ended

(* qmap_put of a struct: what it held is compared with what it holds now *)
PutRow(s, row) ==
    LET m == With(src, s)
        p == Pos(m, s)
        old == Row(s)
    IN  /\ use.regrows \/
             ~ (\/ Regrows(invRef, RefPos(old.ref), RefPos(row.ref))
                \/ Regrows(invMulti, MultiPos(old.multi), MultiPos(row.multi)))
        /\ src' = m
        /\ rows' = [rows EXCEPT ![p] = row]
        /\ invRef' = UpdateInverse(invRef, RefPos(old.ref), RefPos(row.ref), p)
        /\ invMulti' = UpdateInverse(invMulti, MultiPos(old.multi), MultiPos(row.multi), p)
        /\ UNCHANGED <<use, tgt>>

Refs == IF "ref" \in use.fields THEN Targets \cup {NULL} ELSE {NULL}
Texts == IF "multi" \in use.fields THEN BoundedSeq(Spots(Targets) \cup {WORD}, MaxLines)
         ELSE {<<>>}

PutStruct == \E s \in use.items, key \in Refs, lines \in Texts :
    PutRow(s, [ref |-> key, multi |-> lines])

(* qmap_put of "item:field"; an item that is missing is created first *)
PutField == \E s \in use.items :
    \/ \E key \in Refs : PutRow(s, [Row(s) EXCEPT !.ref = key])
    \/ \E lines \in Texts : PutRow(s, [Row(s) EXCEPT !.multi = lines])

(* qmap_field_put: a reference to an unknown target is refused *)
FieldPutRef == \E s \in use.items, key \in Refs \ {NULL} :
    /\ Pos(tgt, key) # MISS
    /\ PutRow(s, [Row(s) EXCEPT !.ref = key])

(* qmap_field_put: every known key is replaced by its position *)
FieldPutMulti == \E s \in use.items, keys \in BoundedSeq(Targets, MaxLines) :
    /\ "multi" \in use.fields
    /\ PutRow(s, [Row(s) EXCEPT !.multi =
            [i \in DOMAIN keys |-> IF Pos(tgt, keys[i]) = MISS THEN WORD
                                   ELSE Pos(tgt, keys[i])]])

(* qmap_del of "item:field": the field is zeroed and the struct put again *)
DelField == \E s \in use.items :
    /\ Pos(src, s) # MISS
    /\ \/ PutRow(s, [Row(s) EXCEPT !.ref = NULL])
       \/ PutRow(s, [Row(s) EXCEPT !.multi = <<>>])

(* Faulty: a deleted item stays in the indexes *)
CleanedNot(inv, old, p) == inv

(* clean_inverses_for_pos: item p no longer refers to anything *)
Cleaned(inv, old, p) == UpdateInverse(inv, old, <<>>, p)

(* qmap_del of an item *)
Del == \E s \in use.items :
    LET p == Pos(src, s)
    IN  /\ p # MISS
        /\ invRef' = Cleaned(invRef, RefPos(rows[p].ref), p)
        /\ invMulti' = Cleaned(invMulti, MultiPos(rows[p].multi), p)
        /\ src' = Without(src, p)
        /\ rows' = [rows EXCEPT ![p] = Zero]
        /\ UNCHANGED <<use, tgt>>

(* The client adds and deletes a target only while no reference names it:  *)
(* the map of the targets knows nothing of the indexes.                    *)
Unnamed(t) == \A p \in Live(src) : rows[p].ref # t

PutTarget == \E t \in Targets :
    /\ Unnamed(t)
    /\ tgt' = With(tgt, t)
    /\ UNCHANGED <<use, src, rows, invRef, invMulti>>

DelTarget == \E t \in Targets :
    /\ Unnamed(t) /\ Pos(tgt, t) # MISS
    /\ tgt' = Without(tgt, Pos(tgt, t))
    /\ UNCHANGED <<use, src, rows, invRef, invMulti>>

Next ==
    \/ PutStruct \/ PutField \/ FieldPutRef \/ FieldPutMulti
    \/ DelField \/ Del \/ PutTarget \/ DelTarget

Spec == Init /\ [][Next]_vars

-----------------------------------------------------------------------------

(* The positions of both maps are accounted for, the rows hold keys and    *)
(* lines, and the texts hold positions.                                    *)
TypeOK ==
    /\ Accounts(src.idm, Live(src)) /\ src.omap \in [Spots(Sources) -> Sources \cup {NULL}]
    /\ Accounts(tgt.idm, Live(tgt)) /\ tgt.omap \in [Spots(Targets) -> Targets \cup {NULL}]
    /\ DOMAIN rows = Spots(Sources)
    /\ \A p \in Spots(Sources) :
        /\ rows[p].ref \in Targets \cup {NULL}
        /\ Range(rows[p].multi) \subseteq Spots(Targets) \cup {WORD}
    /\ \A inv \in {invRef, invMulti} : \A tp \in Spots(Targets) :
        /\ Range(inv[tp].lines) \subseteq Nat
        /\ inv[tp].ended \in BOOLEAN

(* qmap_inv_get returns exactly the items that refer to a target, for both *)
(* fields: after any puts of structs and fields and any deletes, with the  *)
(* positions of deleted items and targets given to others.                 *)
InverseExact == \A tp \in Spots(Targets) :
    /\ InvGet(invRef, tp) = {p \in Live(src) : tp \in Range(RefPos(rows[p].ref))}
    /\ InvGet(invMulti, tp) = {p \in Live(src) : tp \in Range(MultiPos(rows[p].multi))}

(* An item that names a target several times, or is put again, is listed   *)
(* once.                                                                   *)
ListedOnce == \A tp \in Spots(Targets) :
    IsInjective(invRef[tp].lines) /\ IsInjective(invMulti[tp].lines)

(* the references as the inverse index reports them *)
Reported(inv) ==
    {e \in Sources \X Spots(Targets) :
        Pos(src, e[1]) # MISS /\ Pos(src, e[1]) \in InvGet(inv, e[2])}

RefIndex == INSTANCE References WITH
    Targets <- Spots(Targets), refs <- Reported(invRef)
MultiIndex == INSTANCE References WITH
    Targets <- Spots(Targets), refs <- Reported(invMulti)

(* Each inverse index is a relation of which a call changes the references *)
(* of the one item it names, and nothing when it names a target.           *)
ImplementsReferences == RefIndex!Spec /\ MultiIndex!Spec
=============================================================================
