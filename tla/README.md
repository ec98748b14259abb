# A formal model of libqmap

libqmap (`src/src/libqmap.c`, `src/src/idm.c`, `src/include/ttypt/`) is an
in-process map library in C: hash maps with optional key order, duplicate keys,
two-way maps, secondary indexes, record types and persistence in a file. It has
no threads; what is hard about it is that few shared data structures (an array
of positions, a list of free ids, a hash index, a sorted index, global arrays
of maps and cursors) must stay in agreement through long sequences of calls,
callbacks and loops that change the map they run over.

This directory holds TLA+ modules translated from that code, TLC runs on small
instances of them and proofs for every instance that TLAPS checks. Line numbers
are those of `src/src/libqmap.c` unless another file is named.

## 1. The system

| Component | State | Operations | Depends on |
|---|---|---|---|
| id manager (`idm.c`, `idm.h`) | `idm_t`: a LIFO list of ids that were given back, and `last`, one more than the highest id in use | `idm_new`, `idm_del`, `idm_push`, `idm_drop`, the lists `ids_*` | nothing |
| hash table | `qmap_head_t` (`n`, `m`, flags) and `qmap_t` (`map`: slot to position; `omap`, `table`: position to key and value; hashes and sizes; `idm` for positions; the payload pool) | `qmap_put`, `qmap_get`, `qmap_del`, `qmap_drop`, growth and rebuilding | id manager, payload pool, type registry |
| sorted index, `QM_MULTIVALUE` | `sorted_idx`, `sorted_n`, the mark `QM_SDIRTY` | `qmap_get_multi`, `qmap_count`, `qmap_del_all`, range scans | hash table |
| cursors | the global array `qmap_cursors` with its own id manager `cursor_idm` | `qmap_iter`, `qmap_next`, `qmap_fin`; every `qmap_get`, `qmap_del` and `qmap_drop` takes one too | hash table, id manager |
| associations, mirrors | `linked` (handles of the secondary maps), `phd` (the primary), the callbacks | `qmap_assoc`, `qmap_assoc_multi`; each put and delete of the primary visits the linked maps | hash table, handles, cursors |
| map handles | the global arrays `qmaps`, `qmap_heads`, the id manager `idm` | `qmap_open`, `qmap_close`, constructor, destructor | id manager, everything above |
| persistence | `qmap_files_hd` (file name to the maps it holds), `qmap_dbs_hd` (database to map), `mdbs`, the mapped file | loading in `qmap_open`, `qmap_save`, saving in the destructor | handles, hash table, cursors |
| records | `qmap_records`, per map `inv_hds` (inverse index of each reference field) and `vstr_hd` | `qmap_record_register`, puts and deletes of `key:field`, `qmap_field_put`, `qmap_inv_get` | hash table, cursors |
| payload pool | per map, blocks in lists by size class | allocation, free, update in place | nothing |
| type registry | `qmap_types`, `types_n` | `qmap_reg`, `qmap_mreg`, `qmap_cmp_set` | nothing |
| command line tool, Rust bindings | none of their own | wrappers of the calls above | the library |

How they interact. A position, issued by a map's id manager, indexes all its
arrays; a slot of `map` holds a position. A linked map that is not a multi
association uses the positions of its primary and points into its payload. A
put or a delete of a primary runs the callbacks of the linked maps and changes
them in the same call. A loop (`qmap_iter` ... `qmap_fin`) leaves its state in a
global cell between calls, so calls of several loops, puts and deletes
interleave; nothing else does.

What makes each component correct:

* id manager: an id has one owner at a time, none is lost, ids stay small;
* hash table: it is a dictionary; slots, positions, counter and free list
  agree; growth is invisible; a table that may grow refuses nothing;
* multivalue: a bag of values under every key; the index lists each entry once
  in key order whenever it is read;
* cursors: a loop returns each entry that lasts through it once, and ends; loops
  have cursors of their own and every cursor comes back;
* associations: a linked map holds exactly what the callback says of the
  primary's entries, at the primary's positions;
* handles: a handle names one map from open to close; a closed map is linked to
  nothing;
* persistence: what is saved is loaded, per database, whatever the order of
  opening and closing;
* records: the inverse index is the inverse of the references stored;
* pool: a block has one owner and is as large as its owner needs.

`PROJECT.json` lists the hazards, one line of code each, with the properties
that are about them.

## 2. The modules

| Module | What it is |
|---|---|
| `IdmOps` | the id manager as operators on a record `[free, last]` |
| `IdAllocator` | abstract: a set of ids in use |
| `Idm` | one id manager and its callers; implements `IdAllocator` |
| `IdmLemmas` | proofs about the operators |
| `TableOps` | a table as a record, and what each internal function of the library makes of it |
| `KeyValueMap` | abstract: a function from keys to values |
| `Qmap` | one map and the calls of its client; implements `KeyValueMap` |
| `TableLemmas`, `QmapProofs` | proofs about the table's operators and about `Qmap` |
| `SortedOps` | the sorted index, its binary searches, and deletion where keys repeat |
| `MultiMap` | abstract: a bag of values under every key |
| `Multivalue` | one `QM_MULTIVALUE` map and the calls of its client; implements `MultiMap` |
| `MultivalueProofs` | proofs about the sorted index, its searches and `Multivalue` |
| `Cursors` | loops over one map with puts, lookups and deletes between their steps |
| `CursorProofs` | proofs about the cursors' ids and cells, and about what loops return |
| `Assoc` | a primary map and a map that `qmap_assoc` links to it, `QM_MULTIVALUE` or not |
| `AssocProofs` | proofs that the two stay in step |
| `References` | abstract: a relation between items and what they refer to |
| `Records` | a record map with both kinds of reference fields and their inverse indexes; each implements `References` |
| `RecordsProofs` | proofs about the inverse texts and about `Records` |
| `DurableMaps` | abstract: maps with contents and a saved copy |
| `Store` | handles, what belongs to a map, files, saving, loading and the end of the program; implements `DurableMaps` |
| `StoreProofs` | proofs about an id manager and its callers (`Idm`), about who owns a handle, and about what is durable |
| `MC*` | values for the constants |

`Qmap`, `Multivalue`, `Cursors` and `Assoc` share `TableOps`, which uses `IdmOps`
for the positions; `Cursors` has a second id manager for the cursors, `Store` one
for the handles, `Records` one for each map's positions, and `Assoc` has two
tables, of which a `QM_MULTIVALUE` secondary is read through `SortedOps`. `Keys`
there holds the keys of both maps, `PrimKeys` those the client gives the
primary. The calls are
operators from a table to a table because each of them is called from several
places (a put from the client, from loading, from a linked map), and because
the lemmas can then be stated of a table, not of a specification.

### How the state corresponds to the code

A table is `[m, n, kind, map, omap, vals, idm, dirty]`. `m`, `n`, `map`, `omap`
and `idm` are the code's; `vals` is `qmap->table`, `dirty` is `QM_SDIRTY`. `kind`
holds the flags that matter, whether the map shares its primary's payload, and
the hash of the key type, a constant of the map. Keys are numbers, because a map
with `QM_AINDEX` uses positions as keys and the sorted index compares keys; a
value is a model value. `NULL` and `MISS` stand for a null pointer and for
`QM_MISS`.

Left out: the sizes of keys and values, the payload blocks (a position's key and
value are its block's content), the static text buffer in which a generated
`QM_STR` key is printed, and messages. A map without `QM_SORTED` never marks
itself clean; the mark has no effect on it and is left out of `Qmap` by staying
set. A linked map's index is marked by every change of the primary, so `Assoc`
keeps none: who reads it rebuilds it.

Each module's actions are whole API calls, because nothing can run between
their steps, except in `Cursors`, where `qmap_iter`, every `qmap_next` and
`qmap_fin` are calls of their own, and in `Store`, where the program may be
killed between the files of a save. `qmap_next` is two actions, `Fetch` when it
finds an entry and `End` when it does not.

In `Cursors` a cell of `qmap_cursors` that no loop uses is kept blank: the next
`qmap_iter` overwrites what it holds, so its content cannot matter, and fewer
states differ. A loop in key order holds a place in the index; as every change
marks the index for a rebuild, the index is computed whenever it is read. `owed`
and `seen` are history: what a loop has still to return, and what it has returned.

`Records` keeps of each map the keys and the positions; that the maps themselves
are dictionaries is `Qmap`'s concern, and an inverse index is a function from
positions to texts for the same reason. A text is a sequence of lines and
whether the last one is ended, since whether the next number is printed into it
depends on that. The code keeps a `QM_REFERENCE` as text and resolves it whenever
it needs the position, so a row holds the key. Plain fields, and `QM_VSTR` texts,
which live in a private map of their own, change no index.

`Store` keeps a head for every handle with the fields that survive a close
(`iflags`, `file` and `record_id` are not reset: a mirror has those of the handle's
former user), and the contents of maps that are kept in files only. A file is a
sequence of blocks. `_qmap_load` passes over a block of another database by its
size and once more by a header's; where that ends is the block after the next, or
the middle of one, `ASTRAY`, where no database's name is found. The code would go on
from the middle of a block by a size read from an entry's bytes, which may lead
anywhere; the model finds nothing more from there. That is a second read for one
`qmap_open`, which takes two maps of a file open at once: neither `store`, whose
clients have one, nor the trace of `store_databases`, which needs the first read
alone, depends on it. A save writes each
file in one step; the mapped file and the file on disk are the same.

## 3. The runs

| Run | Question | Bounds |
|---|---|---|
| `idm` | Do the free list and `last` account for every id, do ids stay as small as the demand, is this an allocator? | 6 ids |
| `qmap_table` | Do arrays, positions, counter and slots agree after any sequence of puts, deletes and clears? | 3 keys, two of which share a home slot; capacity 2 growing up to 8, and capacity 2 with `QM_NOGROW` |
| `qmap_dictionary` | Is the map a dictionary, for clients that do not hit the first finding? Does a put without a key return the entry's slot, and the key where no hash is taken of it? | 4 keys, 2 values, capacity up to 8; five kinds of client: keys of their own or generated ones, home slots apart with deletes or shared without |
| `qmap_lost_entry` | (fails) Is every entry found under its key? | 4 keys, capacity 4 |
| `multivalue` | Is the map a bag per key, is the index right whenever it is read, whatever order `qsort` gives equal keys? | 3 keys, 4 entries, 9 calls, capacity 2 growing |
| `assoc` | Does a linked map stay in step with its primary, through updates, deletes from either side, bulk deletes, drops, growth of either map? | 3 keys, 4 values with 3 secondary keys; capacity up to 8; 2 positions on the secondary's free list, 4 slots in use; secondary keys apart, or all in one home slot, or a `QM_MULTIVALUE` secondary |
| `cursors` | Does each loop return every lasting entry once, undisturbed by other loops, and end? | 2 loops and the library's own cursor, 3 keys, capacity up to 8; four kinds of client: nested loops with deletes, loops in any order, nested loops in key order with deletes, loops by position from a key on |
| `cursors_shared` | (fails) The same with deletes between loops that overlap | as above |
| `records` | Is each inverse index exact through puts of structs and fields, repeated lines, deletes and reused positions? | 3 items and 2 targets with single references, 2 items with up to 2 lines, 1 item with both fields |
| `records_inverse` | (fails) The same when a reference is added to a target that lost one | 3 items, single references |
| `store` | Do handles, links, private maps and the files' lists agree, and is what was open at a save what is loaded, wherever the program is stopped? | 4 handles, 3 maps in 2 files, 1 key, 2 values; four kinds of client |
| `store_databases` | (fails) Is each of two databases saved to one file found again? | 2 maps in one file |

Why the bounds are enough. A probe sequence of length three, a collision that
growth resolves and one that it does not, a table that is full, a free list with
two entries in either order and a growth with positions on the free list all
occur at capacities 2 to 8 with three or four keys; the capacity doubles
twice, so that a rebuild of a rebuilt table occurs. `Clash` gives different keys
one home slot at every capacity. Three keys leave a key below, at and above the
one deleted, and four entries a run of up to four duplicates. Two loops are enough
for one to disturb another, and the third cursor is that of the call between;
the proofs of section 5 extend the results to any number.
Three items give an inverse text a first, a middle and a last line to remove; two
targets let a reference move and a position be given to another target. Four
handles are a primary, its mirror or linked map, a private map, and one more that
takes a handle just given back; two files tell a save that was interrupted from
one that was not.

`multivalue` bounds the calls because every order of equal keys is a state of
its own; nine calls fill the map, grow it twice and delete from it. A client
that made its calls stops, which is the deadlock that run allows. `assoc` allows
it too: the counter of the linked map and its free list grow with every update
and every delete (section 4), so only bounds on both make the run finite, and at
the bounds nothing is left to do. In all the other runs deadlock is an error.

### Fairness

Only `Cursors` states any: weak fairness of `Fetch \/ End`, one client's
`qmap_next`. The loop `while (qmap_next(...))` of the library and of its
examples calls it again whenever it returned, so this is the assumption that a
loop's body returns. No fairness is assumed of puts, deletes or `qmap_fin`. A
loop that puts a new key in each round is not guaranteed to end; the key space
here is finite and `Ends` says that updates and growth do not keep a
loop alive. Nested loops are left out of `Ends`: the outer one waits for the inner
one, which its client may stop calling; and the other clients delete nothing, so that
a loop whose body reuses positions is not covered by `Ends`.

### What the passing runs leave out, and why

* `qmap_dictionary` excludes, by its clients, deleting a key while another shares
  its home slot, since `qmap_lost_entry` shows what happens then. What remains
  true in every case is in `qmap_table`: among others `Slotted`, that such an
  entry still has its slot and is found again after the next growth. No client
  mixes new keys of its own with generated ones: a generated key, which is any
  position, may then be the key of an entry. `ReturnsKey` says that the
  number returned is the generated key for `QM_HNDL` keys alone, for that is
  what the code does; section 4 has the others.
* `cursors` excludes overlapping loops that are not nested together with a delete
  or a second release of an exhausted cursor, which is `cursors_shared`. While
  loops in key order are under way the client adds and deletes only keys ahead of
  all of them: an entry that goes before the place a loop reached moves the others
  in the index, and the loop misses or repeats one.
  Nested loops are opened by the first idle client only: the clients are alike,
  so which of them runs a loop makes no difference.
* `assoc`: no two entries get the same secondary key unless the secondary is
  `QM_MULTIVALUE`, because it can hold one of them only. No key is put
  again when it is: the map would keep the former entry beside the new one at a
  position the primary does not have. The maps are linked while the primary's positions have no
  gap, because `qmap_assoc` numbers the entries it finds anew (line 2045). The
  secondary's key is a part of a value of a fixed size, so the pointer that the
  linked map keeps to it stays valid when the value is replaced. `MaxSlots` keeps
  the number of the secondary's slots in use below that of its slots in the run.
  A call after which a `QM_MULTIVALUE` secondary has no empty slot left is not
  made, in the proofs either: from then on the secondary refuses puts that the
  primary accepts (section 4).
* `records`: the client adds no reference to a target that lost one, which is
  `records_inverse`, and adds and deletes targets only while no `QM_REFERENCE`
  names them, because the map of the targets knows nothing of the indexes.
* `store`: one database of a file is open at a time, which is what
  `store_databases` is about; maps of two files are open together until the
  program ends, because a database opened again takes the mark to be saved from
  its former handle (line 762), whoever has that now; mirrored maps are opened
  only while no handle was given back, because the mirror is taken to be the next
  handle (line 791); linked maps are closed by their primary, which would keep a
  closed one in its list; a map with a record type is not linked to another one;
  and the record type in use is not the last
  one registered, whose inverse indexes are not closed (line 1979).

## 4. Findings

1. **A delete can hide another entry** (`qmap_lost_entry`, line 1595). The
   deleted key's slot is set to `QM_MISS`, with no mark for the keys whose probe
   ran over it. `qmap_get` then returns NULL for a key that is stored and
   counted (`src/include/ttypt/qmap.h:311`, `:319`), and a put stores it twice.
   The next growth repairs it.
2. **Two loops get one cursor** (`cursors_shared`, line 1719). `qmap_del`
   releases its cursor twice, and `idm_del` lists an id that is not the highest
   twice. The next two loops share a cell and one misses entries
   (`src/src/test_extended.c:248`).
3. **Positions run together in an inverse index** (`records_inverse`, line 970).
   `inverse_remove` ends no last line, and `inverse_add` appends to it: of the items
   0, 1 and 2, after the reference of 0 was removed and that of 2 added,
   `qmap_inv_get` returns 12 (`src/include/ttypt/qmap.h:796`).
4. **A database is not found in a shared file** (`store_databases`, line 2431).
   Blocks are written in the reverse order of opening, and a map is given one
   block for each map of the file that is open: the first one opened next time
   looks at one block, which is another's (`src/include/ttypt/qmap.h:208`).

Met while modelling, and outside what the runs check:

* A put without a key into a full `QM_NOGROW` map takes `n` back and not the
  position (line 1171): `idm.last` passes the capacity.
* A put without a key returns the slot of its entry (line 1246). That is the
  generated key, which `src/include/ttypt/qmap.h:336` promises, for `QM_HNDL` keys,
  which are not hashed and lie below the capacity. With `QM_STR` keys, for which
  lines 1162 to 1166 print the position, and with `QM_U32` keys the slot comes
  from a hash, and the client is not told the key. The tests and the command line
  tool use `QM_AINDEX` with `QM_HNDL` only.
* Rebuilding gives each duplicate of a `QM_MULTIVALUE` map a slot, deleting clears
  one at most (line 1595). In the end no slot is empty and a put of a new key is
  refused at 7 of 16 entries, though the map may grow. A linked map loses an
  entry of its primary this way.
* A put of a linked map looks up the slot for the new key before it empties the
  slot of the former key at that position (line 1231). If both have the same home
  slot, the new entry is behind an empty slot, and `qmap_get` on the linked map
  returns NULL. The same update counts the entry again (`NeverUndercounted` states
  what is left), and every delete lists a shared position once more on the
  linked map's free list.
* A map that is closed before the program ends is dropped from its file, the
  example of `src/README.md:44` included: it leaves an empty file. `DurableMaps`
  states this as what a save means.
* A database that is opened again takes the mark to be saved from the handle it
  had before (line 762), and a mirror is taken to be at the handle after the
  map's (line 791): when handles are reused, either may be another map's.
* Inverse indexes of the record type registered last stay open when the map is
  closed (line 1979), and a `QM_VSTR` text stays when its item is deleted (line
  1704).
* The limit on record types is checked before the number is raised (line 2142).
* `qmap_field_put` is documented to store the position of a `QM_REFERENCE`'s target
  (`src/include/ttypt/qmap.h:830`); the code stores the text of its key.

## 5. The proofs

For any number of ids, loops, keys, values, items, lines, handles, maps and files,
and for any hash and capacity:

| Module | Proves | Of |
|---|---|---|
| `QmapProofs` | `TypeOK`, `PositionsOK`, `InBounds`, `CountOK`, `SlotsOK`, `Accepts`, `Slotted`, `Reachable`, `UniqueKeys`, `ReturnsKey`, the refinement of `KeyValueMap` | `Qmap` |
| `MultivalueProofs` | `TypeOK`, `PositionsOK`, `CountOK`, `SortedOK`, `SearchOK`, the refinement of `MultiMap` | `Multivalue` |
| `CursorProofs` | `TypeOK`, `Accounted`, `Undisturbed`, `Complete`, `Once` | `Cursors` |
| `AssocProofs` | `TypeOK`, `InStep`, `NeverUndercounted`, `FindsApart` | `Assoc` |
| `RecordsProofs` | `TypeOK`, `InverseExact`, `ListedOnce`, the refinement of `References` | `Records` |
| `StoreProofs` | `IdTypeOK`, `Partition`, `Compact`, the refinement of `IdAllocator` | `Idm` |
| `StoreProofs` | `TypeOK`, `FilesListOpen`, `LinksOpen`, `NothingLeaks`, the refinement of `DurableMaps` | `Store` |

`IdmLemmas` and `TableLemmas` hold what several of them need.

### What is assumed

The named assumptions on the constants, which TLC evaluates in the runs
(`MaxIdsAssumption`, `TableAssumption`, `UsesAssumption`,
`MultivalueAssumption`, `AssocAssumption`, `CursorsAssumption`,
`RecordsAssumption`, `StoreAssumption`): numbers as keys and values, capacities above one, hashes into
the naturals, finitely many loops, at most ten items, so that a position in an
inverse text has one digit, and clients of `Store` that use the maps and record
types there are. The
other hypotheses stand in the theorems, as definitions:

* `Covered` (`QmapProofs`, all): no `QM_NOGROW` map generates keys, since the
  position of a refused put is lost (line 1171).
* `Unmixed` (`Slotted` and what follows): a client that lets the map generate
  keys puts none of its own. The generated key could otherwise be one in use, and
  its entry would share a slot with the former one.
* `Careful` of `QmapProofs` (`Reachable`, `UniqueKeys`, the refinement): a client
  that deletes has no two keys that share a home slot at the first capacity, and
  therefore at none, or lets the map generate `QM_HNDL` keys, which are their own
  hashes. `qmap_lost_entry` shows what happens else. A client that never
  deletes may have any keys and any hash. `ReturnsKey` is proved without it.
* `Careful` of `CursorProofs`: loops that are not nested leave deleting to others,
  since finding 2 is what happens else. `OrderSafe` (`TypeOK`, `Complete`, `Once`):
  where entries are deleted under loops in key order, no two keys share a home
  slot at the first capacity that holds two entries. With two that do, a delete
  can hide an entry (finding 1), the next put of its key enters it twice, and
  which of the two comes first in the index is not determined. Loops by position
  ask nothing of the hash.
* `PrimaryApart` (`AssocProofs`, all): no two keys the primary is given share a
  home slot at its first capacity. With two that do, a delete can hide an entry
  of the primary (finding 1), and the next put of that key enters it a second
  time in both maps. Nothing is assumed of the secondary's keys: `FindsApart`
  alone, which says so itself, is about those with slots apart.
* `Careful` of `RecordsProofs`: no reference is added to a text that lost one,
  which is finding 3. The runs with and without it differ in `regrows` alone.
* `LastSpared` of `StoreProofs` (all): the client uses no maps of the record type
  registered last, whose inverse indexes are not closed with their map (line
  1979).
* `Alone` and `NamedApart` (`StoreProofs`, the refinement): one map of a file is
  open at a time, and the maps of a file have different databases. With two open,
  finding 4 is what happens. A client that has maps of several files open leaves
  them open, since a database that is opened again takes the mark to be saved
  from its former handle, whoever has that now (line 762). The clients of `store`
  are such clients; that of `store_databases` is not.

The first six theorems of `QmapProofs`, `Slotted` and `ReturnsKey` ask nothing of the hash:
they hold for every collision and every order of puts and deletes. Nor do those of
`MultivalueProofs`, which have no hypotheses at all.

### Along which argument

The id manager. `Partition` says that the free list has no
repetitions, that no id on it is in use, and that both together are the ids below
`last`. Each operator of `IdmOps` has a lemma (`NewAccounts`, `DelAccounts`,
`PushAccounts`, and one for a list of deletes) of how it changes the ids accounted
for; they are stated of any manager and any set of ids, so that the table's proofs
use them for positions and the cursors' for cursors.
`Compact` is not inductive alone: a new id raises `last` only when the list is
empty, and then all ids below `last` are in use, so the invariant adds that
`grants` is the number of ids in use and never above `peak`.

The table. The invariant is `Healthy`: the types, the positions accounted for
and in the arrays, the counter equal to the number of entries, the slots leading
to entries and no two to the same; and for a map that may grow the load below
three quarters, for one that may not that every entry has a slot. The parts need
each other: a put takes the next position, which is in the arrays because the
positions are as many as the entries and the free ones, and a growing map has
room by the bound on its load, which is stated of the counter. A new entry's
slot is one the probe found empty, so no other slot leads to its position. A
delete empties the slot that `Lookup` finds again, which is the one that led `Del`
to the position. A full map without growth refuses nothing it has room for
because an empty slot then means an unused position, and that needs every entry
to have a slot.

The dictionary. `SlottedInv` adds that every entry has a slot, on maps that grow
too, which needs to know what a rebuild computes (`RebuildSound`): every position
gets a slot of its own, the first one on its probe sequence that no lower
position has. `DictInv` adds `Findable`: keys are unique, and the probe sequence of
an entry's key meets no empty slot before the entry's. A put keeps this, for it
fills slots only. A delete does not in general; it does if every entry is in its
home slot (`AtHome`), which `Careful` makes inductive: a rebuild puts entries with
different homes at home, and homes that are apart stay apart when the capacity
doubles (`KeysApartDoubled`). The map then maps to `KeyValueMap` by what `Get` returns,
and each call changes `Get` at its key alone. For `ReturnsKey`, a generated key
is a position that no entry has, so that its lookup ends at an empty slot whatever
the hash; and for keys of which no hash is taken the entries are at home, each
below the capacity in the slot with its own number (`GeneratedHome`).

Duplicates. `MultiInv` is `Healthy` without what it says of slots, which
a `QM_MULTIVALUE` map does not keep, and that an index not marked dirty lists the
entries, keys ascending (`Lists`). `OrdersList` shows that each order `IndexOrders`
allows does, `RoundsFind` that a binary search over such a sequence of any length
ends at the first or the last place of the key, and `MatchesExact` that the stretch
between them is all of its entries, each once. The deletes rest on it: the
positions given back are the key's, once each.

The linked map. `AssocInv` says that the two maps are in step (`Twin`): the same
entries at the same positions, the same `last`, and the callback's keys. What
else it says depends on the linked map. A `QM_MULTIVALUE` one issues its
positions itself, and they are the primary's because both managers are equal, free
list included, and stay so: the same positions are taken and given back in the
same order (`CarriedApart`, `TwinDelete`). Its deletes rest on the lemmas about the
index, and its puts on an empty slot that a lookup of a new key finds. The other
kind is given the primary's positions, and its counter, free list and slots drift
from its entries (`Loose`): an update counts the entry again, a delete lists a
position that the next put takes without looking at the list, and a lookup may
miss a slot that is then left behind. What survives is a bound: the counter, `last`
and every position that a slot holds stay below three quarters of the capacity.
So a put needs one growth at most, a slot is always empty (`LooseSlot`, the
positions in the slots being different), and the position given lies in the
arrays: the primary names one that is below the linked map's `last` or, when all
of those are in use, `last` itself (`MayName`). For secondary keys with slots apart, every entry is also in
its home slot (`Homely`), where the lookup of the key finds it. A call with several
deletes keeps all of this after each of them (`Left`), whichever index each reads.

The cursors. `Accounted` is not inductive: after a loop released its cursor
twice, why is the second release harmless? Because nested loops keep
`cursor_idm` without a free list (`Nested`): the n-th loop under way has cursor
n - 1, `last` is their number, a release is of the highest cursor, and a cursor
that was released before is not below `last`, where `idm_del` ignores it. Loops
in any order release a cursor once, and for them the manager's lemmas suffice
(`Apart`). `last` is then at most the number of loops, so the cell of a call of
the library is one no loop uses, and every call but the loop's own `qmap_next`
leaves its cell alone (`CellStays`).

What loops return. `LInv` says that the entries a loop owes are ahead of its
cursor, and for a loop on a key that the one it owes is where the cursor started
and still stands. Other calls change neither: the cell stays, and the table
retains every entry but the one deleted, at its position and under its key,
through updates and growth (`Retains` in `TableLemmas`). `qmap_lnext` moves the
cursor behind the entry it returns, the least one ahead; when it returns none,
nothing is ahead, or something else than the entry owed. `Once` adds that what
was returned is behind the cursor (`SInv`).

Loops in key order. Their index is taken anew from the entries, so a place in it
means nothing by itself; `OInv` says what the cursor's place counts: the entries
`Passed`, below the loop's first key or not above one that it returned. That set
is closed towards lower keys, so its size is the place of the lowest entry
outside of it (`IndexedNext`), which is the next one returned; and when the place
is past the end, every entry is in the set and none is owed. Puts and deletes
ahead of the loop, which are those the client may make, leave the set as it is
(`CountingKept`). All of this needs that keys are unique, for which the table is
kept as in the dictionary (`Tidy`).

The inverse indexes. `RInv` says of each map that its positions are accounted for
and have different keys, and of each inverse text (`IndexOK`) that its lines are
different and are exactly the positions of the items whose field names its
target. A put replaces an item's references by the difference of what was and
what is: `inverse_remove` cuts out the line that is the position, not one that
contains it, and `inverse_add` appends one when it finds none. The client's
guard, which `Careful` fixes, says that a text which is appended to has its last
line ended; the number then is a line of its own. A position that is given back
is on no line, so the next item there starts with none. `References` is reached by
reading each text as the set of its numbers.

Handles. `Sound` says who has an open handle: the client, or exactly one of the
client's maps, as a map linked to it (`phd` names the primary, and `linked` lists
these maps, each once) or as a map opened for it. A handle that is not the
client's has nothing of its own, so closing a map closes what `Belonging` says and
stops there. `FilesListOpen` and `LinksOpen` need this, for handles are reused: an
open gives a handle that nobody has, which no list holds because lists have open
handles only, and a close takes its handles out of everything at once. That a
mirror keeps the file of the handle's former user is harmless because the mirror
is not the client's and not in a list. The proof follows the three folds of the
code (the maps closed, the file's list without them, the blocks read) with
lemmas about lists that hold a set, each member once (`Lists`).

Durability. `Held` adds what `Alone` brings: no two maps of a file are open, all
that are open are marked to be saved, and every file has at most one block, of
one of its databases (`Short`). Loading then leaves the map that is opened with
that block or, if it is of another database, empty (`LoadedAlone`), and a save of
any part of the files leaves for each file the block of its open map or none
(`SavedShort`). That the mark survives an open of another map needs that the
handle a map was opened with last is still its own, for clients that have several
maps open (`LastHeld`). Each step then is a step of `DurableMaps` or changes
neither memory nor copies.

Inductions over data are carried out on sets of naturals: for a rebuild, a list
of deletes, the rounds of a binary search, the lines of a text and the list of a
file the proof considers the set of the n up to which the claim holds and
applies induction to that set (`Induction`, `Recursion` in `IdmLemmas`), because
the library's theorems take a predicate as parameter. For the same reason the
model has such computations as recursive functions.

### What is only model-checked

The liveness property `Ends`, and with it the fairness, which is beyond TLAPS; and
what the failing runs show. Every other invariant, action property and
refinement that a run checks is proved.

## 6. Not modelled

* The payload pool: size classes and the update in place (line 1207); a
  position's block is its content here. One owner per block would be the
  property.
* `qmap_assoc_multi`, whose linked map keeps pointers to keys that are freed in the
  same call, so that what it then contains is not defined.
* Linked maps of linked maps, two maps linked to one primary, a linked map that is
  dropped or refuses a put by itself (lines 1946 and 1399): its primary
  does not notice.
* Loops over the duplicates of one key of a `QM_MULTIVALUE` map while the map
  changes; `Multivalue` has the reads themselves.
* A file that is torn within a save (line 2519): what it is read as depends on
  the bytes.
* The type registry (two counters), the command line tool and the Rust bindings
  (wrappers), and freeing at exit.

What could be added first is the pool, and then `Assoc` with a second linked map.
