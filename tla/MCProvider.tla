--------------------------- MODULE MCProvider ---------------------------
(* Instantiation of WebSocketProvider for TLC.                             *)
EXTENDS WebSocketProvider

MCIds == {"m1"}
MCVals == {"a"}
MCStats == {"zeros", "counts"}

\* Frames for the connection runs: one of each kind of effect on the
\* provider's state (store write, log append with the default severity,
\* stats pass-through) and an unparseable frame.
ConnFrames ==
    { Garbage,
      [type |-> "monster_update", list |-> <<[id |-> "m1", v |-> "a"]>>],
      [type |-> "system_message", data |-> [level |-> NoData]],
      [type |-> "server_stats", data |-> "counts"] }

\* ConnFrames and a frame of every type whose payload `data` is missing.
BadFrames ==
    ConnFrames \cup
    {[type |-> t, data |-> NoData] :
        t \in {"monster_spawn", "monster_death", "server_stats",
               "system_message", "bt_execution"}}
\* ConnFrames and a well-formed frame of every other type the router knows,
\* including a player list with an entry without id, and an unknown type.
KnownFrames ==
    ConnFrames \cup
    { [type |-> "player_update", list |-> <<[id |-> NoId, v |-> "a"], [id |-> "m1", v |-> "a"]>>],
      [type |-> "monster_spawn", data |-> [id |-> "m1", v |-> "a"]],
      [type |-> "monster_death", data |-> [id |-> "m1", v |-> "a"]],
      [type |-> "system_message", data |-> [level |-> "warning"]],
      [type |-> "bt_execution", data |-> [monster_name |-> "m1"]],
      [type |-> "player_join"] }
=============================================================================
