------------------------- MODULE MCDashboardView -------------------------
(* Instantiation of DashboardView for TLC.                                 *)
EXTENDS DashboardView

MCIds == {"m1", "m2"}
MCStats == {"zeros"}

\* Monster payloads: a complete one, one without `name`, one whose
\* `position` has no `rotation`.
Goblin   == [type |-> "GOBLIN", state |-> "IDLE", name |-> "Goblin", pos |-> "full"]
Nameless == [type |-> "ORC", state |-> "CHASE", name |-> NoData, pos |-> "full"]
Unrotated == [type |-> "ORC", state |-> "FLEE", name |-> "Orc", pos |-> "norot"]

MCVals == {Goblin, Nameless, Unrotated}

Update(i, v) == [type |-> "monster_update", list |-> <<[id |-> i, v |-> v]>>]

\* Updates of either monster with each payload, and deaths.
ViewFrames ==
    {Update(i, v) : i \in MCIds, v \in MCVals} \cup
    {[type |-> "monster_death", data |-> [id |-> i, v |-> Goblin]] : i \in MCIds}

\* Only the complete and the nameless payload.
NamelessFrames == {Update("m1", Goblin), Update("m1", Nameless)}

MCSearches == {"", "gob"}

\* "Goblin".toLowerCase().includes("gob"); a missing name gives FALSE here,
\* the render having thrown on it already (FilterThrows).
MCIncludes(n, q) == n = "Goblin" /\ q = "gob"

=============================================================================
