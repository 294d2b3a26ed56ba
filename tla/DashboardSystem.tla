-------------------------- MODULE DashboardSystem --------------------------
(***************************************************************************)
(* WebSocketProvider composed with the game server it mirrors (spec        *)
(* section 6: an opaque producer).  The server keeps the set of live       *)
(* monsters and pushes, to every connection open at the time, a            *)
(* monster_spawn or monster_death frame for each lifecycle change and,     *)
(* from time to time, a monster_update with the full list; a monster may   *)
(* also change with no frame until the next full list.  Each connection is *)
(* a FIFO channel; frames still in it when the socket leaves OPEN are      *)
(* never delivered (onmessage fires only while OPEN), and a new connection *)
(* starts empty.  The client side is the provider's own actions, with      *)
(* Receive taking the head of the socket's channel, and the sendMessage    *)
(* calls of a consumer, whose messages travel on an outbound channel of    *)
(* the connection and are lost with it.                                    *)
(***************************************************************************)
EXTENDS WebSocketProvider

CONSTANTS
    MaxChan,    \* capacity of one connection's channel
    MaxEvents,  \* bound on the server's steps in one behaviour
    MaxSends    \* bound on a consumer's sendMessage calls in one behaviour

VARIABLES
    world,      \* the server's live monsters, a Map in spawn order
    chan,       \* chan[s]: frames sent on connection s, not yet delivered
    events,     \* server steps taken
    staleFor,   \* staleFor[s]: the world changed after the last full list sent on s
    announced,  \* history: spawn and death frames the server has sent
    out,        \* out[s]: messages sendMessage put on s, not yet read by the server
    sends       \* sendMessage calls so far; the n-th call's message is n

sysVars == <<vars, world, chan, events, staleFor, announced, out, sends>>
serverVars == <<world, events, announced>>
sendVars == <<out, sends>>

SysInit ==
    /\ Init
    /\ world = <<>>
    /\ chan = [s \in SockIds |-> <<>>]
    /\ events = 0
    /\ staleFor = [s \in SockIds |-> TRUE]
    /\ announced = 0
    /\ out = [s \in SockIds |-> <<>>]
    /\ sends = 0

Open == {s \in SockIds : rs[s] = "OPEN"}

\* The server sends f on every open connection.
Broadcast(f) ==
    /\ \A s \in Open : Len(chan[s]) < MaxChan
    /\ chan' = [s \in SockIds |-> IF s \in Open THEN Append(chan[s], f) ELSE chan[s]]

ServerStep == events < MaxEvents /\ events' = events + 1

ServerSpawn(r) ==
    /\ ServerStep
    /\ r.id \notin Keys(world)
    /\ world' = Append(world, r)
    /\ Broadcast([type |-> "monster_spawn", data |-> r])
    /\ staleFor' = [s \in SockIds |-> TRUE]
    /\ announced' = announced + 1
    /\ UNCHANGED <<vars, sendVars>>

ServerDeath(i) ==
    /\ ServerStep
    /\ i \in Keys(world)
    /\ world' = MapDelete(world, i)
    /\ Broadcast([type |-> "monster_death",
                  data |-> CHOOSE r \in Range(world) : r.id = i])
    /\ staleFor' = [s \in SockIds |-> TRUE]
    /\ announced' = announced + 1
    /\ UNCHANGED <<vars, sendVars>>

\* A live monster changes (moves, is hurt, switches state) with no frame.
ServerChange(r) ==
    /\ ServerStep
    /\ r.id \in Keys(world)
    /\ r \notin Range(world)
    /\ world' = MapSet(world, r)
    /\ staleFor' = [s \in SockIds |-> TRUE]
    /\ UNCHANGED <<vars, chan, announced, sendVars>>

ServerTick ==
    /\ ServerStep
    /\ Broadcast([type |-> "monster_update", list |-> world])
    /\ staleFor' = [s \in SockIds |-> IF s \in Open THEN FALSE ELSE staleFor[s]]
    /\ UNCHANGED <<vars, world, announced, sendVars>>

\* onmessage with the oldest undelivered frame of s.
Deliver(s) ==
    /\ chan[s] # <<>>
    /\ ReceiveFrame(s, Head(chan[s]))
    /\ chan' = [chan EXCEPT ![s] = Tail(@)]
    /\ UNCHANGED <<serverVars, staleFor, sendVars>>

\* A browser or timer step of the client; a connection that is not open
\* after it has lost whatever was in flight, and a new one starts stale.
ClientStep ==
    /\ ConnNext
    /\ chan' = [s \in SockIds |-> IF rs'[s] = "OPEN" THEN chan[s] ELSE <<>>]
    /\ staleFor' = [s \in SockIds |-> IF rs'[s] = "OPEN" THEN staleFor[s] ELSE TRUE]
    /\ out' = [s \in SockIds |-> IF rs'[s] = "OPEN" THEN out[s] ELSE <<>>]
    /\ UNCHANGED <<serverVars, sends>>

\* sendMessage(message) from the current render: socket.send only while the
\* kept socket is OPEN, otherwise the message is dropped without a trace.
SendMessage ==
    /\ ~crashed
    /\ sends < MaxSends
    /\ sends' = sends + 1
    /\ out' = IF socket # Null /\ rs[socket] = "OPEN"
              THEN [out EXCEPT ![socket] = Append(@, sends + 1)]
              ELSE out
    /\ UNCHANGED <<vars, serverVars, chan, staleFor>>

\* The server reads the oldest message on connection s.
ServerRead(s) ==
    /\ out[s] # <<>>
    /\ out' = [out EXCEPT ![s] = Tail(@)]
    /\ UNCHANGED <<vars, serverVars, chan, staleFor, sends>>

SysNext ==
    \/ ClientStep
    \/ \E s \in SockIds : Deliver(s)
    \/ \E r \in Record : ServerSpawn(r) \/ ServerChange(r)
    \/ \E i \in Ids : ServerDeath(i)
    \/ ServerTick
    \/ SendMessage
    \/ \E s \in SockIds : ServerRead(s)

SysSpec == SysInit /\ [][SysNext]_sysVars

-----------------------------------------------------------------------------
(* Properties                                                              *)

SysTypeOK ==
    /\ TypeOK
    /\ world \in Seq(Record)
    /\ chan \in [SockIds -> Seq([type : {"monster_spawn", "monster_death"}, data : Record]
                               \cup [type : {"monster_update"}, list : Seq(Record)])]
    /\ events \in 0..MaxEvents
    /\ staleFor \in [SockIds -> BOOLEAN]
    /\ announced \in 0..MaxEvents
    /\ out \in [SockIds -> Seq(1..MaxSends)]
    /\ sends \in 0..MaxSends

\* Nothing is in flight on the open connection.
Drained(s) == rs[s] = "OPEN" /\ chan[s] = <<>>

(* Spec 1 / 8.1: the store mirrors the server.  Once a full list has been  *)
(* delivered on the open connection, with no server change after it and    *)
(* nothing in flight, every live monster is in the store with its current  *)
(* record, whatever spawns, deaths and lost frames came before.            *)
UpdateRefreshes ==
    \A s \in SockIds :
        (~crashed /\ Drained(s) /\ ~staleFor[s]) =>
            \A k \in DOMAIN world : \E j \in DOMAIN monsters : monsters[j] = world[k]

(* Spec 1 / 4.3: the store holds only entities the server has: once a    *)
(* full list has been delivered on the open connection, with no server     *)
(* change after it and nothing in flight, no monster the server has        *)
(* removed is still shown.  A death frame lost while reconnecting is not   *)
(* repaired by that list: monster_update only upserts.                     *)
NoGhostWhenSynced ==
    \A s \in SockIds :
        (~crashed /\ Drained(s) /\ ~staleFor[s]) =>
            Keys(monsters) \subseteq Keys(world)

(* Spec 8.2 / 4.4: one log entry per lifecycle event: spawn and death     *)
(* entries never outnumber the spawn and death frames the server sent,     *)
(* through reconnects, recycled socket identities and stale closures; a    *)
(* frame reaching the provider over two live sockets would be logged twice.*)
LogNoDuplicates == Len(messages) <= announced

=============================================================================
