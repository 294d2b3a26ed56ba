---------------------------- MODULE EntityStore ----------------------------
(***************************************************************************)
(* One entity collection of WebSocketProvider driven by the three reducers *)
(* that write it (list update, spawn, death), with a history of everything *)
(* they were given, against which the collection is compared with a       *)
(* declarative definition of "last write wins, in insertion order".        *)
(***************************************************************************)
EXTENDS EntityMap, FiniteSets

CONSTANTS
    MaxList,   \* longest entity list in one update frame
    MaxHist,   \* bound on the number of reducer inputs in one behaviour
    SpawnData  \* the data.data of the monster_spawn frames the server may send

(* `hist` records, in processing order, every list entry, spawned record   *)
(* and deletion ([del |-> i]) handed to the reducers; it is not part of    *)
(* the program.                                                            *)

VARIABLES store, hist

vars == <<store, hist>>

Del(i) == [del |-> i]

Room(n) == Len(hist) + n <= MaxHist

Init ==
    /\ store = <<>>
    /\ hist = <<>>

\* case 'monster_update' / 'player_update'
ListUpdate(list) ==
    /\ Room(Len(list))
    /\ store' = Upsert(store, list)
    /\ hist' = hist \o list

\* case 'monster_spawn': newMonsters.set(data.data.id, ...) without an id check
Spawn(r) ==
    /\ Room(1)
    /\ store' = MapSet(store, r)
    /\ hist' = Append(hist, r)

\* case 'monster_death': newMonsters.delete(data.data.id)
Death(i) ==
    /\ Room(1)
    /\ store' = MapDelete(store, i)
    /\ hist' = Append(hist, Del(i))

Next ==
    \/ \E list \in SeqOf(Entry, MaxList) : ListUpdate(list)
    \/ \E r \in SpawnData : Spawn(r)
    \/ \E i \in Ids : Death(i)

Spec == Init /\ [][Next]_vars

-----------------------------------------------------------------------------
(* Reference: what the collection should hold after the history `h`.       *)

IsWrite(e, i) == "id" \in DOMAIN e /\ e.id = i
IsDel(e, i) == "del" \in DOMAIN e /\ e.del = i

\* index of the last write or deletion of i (0 if none)
LastTouch(h, i) == SelectLastInSeq(h, LAMBDA e : IsWrite(e, i) \/ IsDel(e, i))

Present(h, i) == LastTouch(h, i) > 0 /\ IsWrite(h[LastTouch(h, i)], i)

\* index of the write that (re)inserted i: the first one after its last deletion
InsertedAt(h, i) ==
    SelectInSubSeq(h, SelectLastInSeq(h, LAMBDA e : IsDel(e, i)) + 1, Len(h),
                   LAMBDA e : IsWrite(e, i))

TypeOK ==
    /\ store \in Seq(Record)
    /\ hist \in Seq(Entry \cup {Del(i) : i \in Ids})

(* Spec section 8, properties 1-3: after any sequence of update, spawn and *)
(* death frames the collection holds exactly the ids whose last write was  *)
(* not followed by a deletion (data without an id is skipped, spec 7),    *)
(* each once, mapped to its last record, and the published order is the   *)
(* order in which the ids were (re)inserted, as Array.from(map.values())   *)
(* promises.                                                               *)
StoreMatchesHistory ==
    LET P == {i \in Ids : Present(hist, i)}
    IN  /\ Keys(store) = P
        /\ Len(store) = Cardinality(P)
        /\ \A k \in DOMAIN store : store[k] = hist[LastTouch(hist, store[k].id)]
        /\ \A k1, k2 \in DOMAIN store :
              k1 < k2 => InsertedAt(hist, store[k1].id) < InsertedAt(hist, store[k2].id)

=============================================================================
