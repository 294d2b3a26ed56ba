---------------------------- MODULE EntityMap -----------------------------
(***************************************************************************)
(* The keyed entity collections of WebSocketProvider                       *)
(* (src/frontend/src/context/WebSocketContext.js): `monsters` and          *)
(* `players` are JavaScript Maps from entity id to the last record written *)
(* and are published as Array.from(map.values()), i.e. in insertion order. *)
(*                                                                         *)
(* A Map is modelled as a sequence of records [id |-> i, v |-> x] with     *)
(* pairwise distinct ids, in Map iteration order, so the published         *)
(* snapshot is the sequence itself.  The record field `v` stands for the   *)
(* whole payload; the `lastUpdate: Date.now()` stamp the reducers add is   *)
(* left out (no property here is about time).                              *)
(***************************************************************************)
EXTENDS Naturals, Sequences, SequencesExt

CONSTANTS
    Ids,       \* entity ids
    Vals,      \* abstract record contents
    NoId       \* the `id` of a list entry that is null or has no `id` field

Record == [id : Ids, v : Vals]

\* An entry of data.monsters / data.players as the server may send it.
Entry == [id : Ids \cup {NoId}, v : Vals]

Keys(m) == {m[k].id : k \in DOMAIN m}

\* Map.prototype.set: a known key is overwritten where it stands, a new key
\* is iterated last.
MapSetIfAbsent(m, r) == IF r.id \in Keys(m) THEN m ELSE Append(m, r)

MapSetMovesToEnd(m, r) ==
    Append(SelectSeq(m, LAMBDA e : e.id # r.id), r)

MapSet(m, r) ==
    IF r.id \in Keys(m)
    THEN [k \in DOMAIN m |-> IF m[k].id = r.id THEN r ELSE m[k]]
    ELSE Append(m, r)

\* Map.prototype.delete: removing an absent key changes nothing.
MapDelete(m, i) == SelectSeq(m, LAMBDA e : e.id # i)

HasIdUnchecked(e) == TRUE

\* `if (monster && monster.id !== undefined)`
HasId(e) == e.id # NoId

\* The forEach over data.monsters (data.players) on a copy of the Map.
Upsert(m, list) ==
    FoldLeft(LAMBDA acc, e : IF HasId(e) THEN MapSet(acc, e) ELSE acc, m, list)

=============================================================================
