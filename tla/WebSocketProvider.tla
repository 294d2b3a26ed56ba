------------------------- MODULE WebSocketProvider -------------------------
(***************************************************************************)
(* WebSocketProvider (src/frontend/src/context/WebSocketContext.js) with   *)
(* the browser WebSocket objects it creates, its reconnect timers, and the *)
(* parts of its host that react to what it publishes: App.js keeps the     *)
(* connection phase and the last server_stats payload, ServerStats.js      *)
(* renders that payload, ConnectionStatus.js offers a reload button.       *)
(*                                                                         *)
(* Every socket event handler and every React commit runs to completion on *)
(* the browser's single event loop, so each handler is one atomic step     *)
(* that also includes the render its setState calls cause.                 *)
(*                                                                         *)
(* Closures.  `connect` is a useCallback over [socket, connectionStatus];  *)
(* the handlers it installs, and the 3 s reconnect timer set in onclose,   *)
(* keep the values of the render that created it.  The mount effect (deps  *)
(* []) calls the first render's connect, whose connectionStatus is         *)
(* 'disconnected'; the timer calls that same closure again, so a socket    *)
(* carries clo[s], the connectionStatus its creating closure saw.  The     *)
(* closure's `socket` is never OPEN when used: connect creates a socket    *)
(* only when its `socket` is not OPEN, and a socket never becomes OPEN     *)
(* again, so the `socket.readyState === OPEN` early return of a closure    *)
(* called from a timer never fires and is not kept.                       *)
(*                                                                         *)
(* Socket identities are recycled: a CLOSED socket's only pending effect   *)
(* is its reconnect timer, which reuses the identity for the socket it     *)
(* creates, or frees it.                                                   *)
(***************************************************************************)
EXTENDS EntityMap, FiniteSets

CONSTANTS
    SockIds,    \* identities of WebSocket objects
    Null,       \* React state `socket` when no socket is kept
    NoData,     \* a field of a frame that is missing (undefined)
    Garbage,    \* a frame JSON.parse rejects or that is not an object
    Frames,     \* the frames the server may send
    StatVals,   \* server_stats payloads; InitStats is App's initial one
    InitStats,
    MaxLog,     \* bound on the length of `messages`
    MaxMounts,  \* 1; 2 when React StrictMode runs the mount effect twice
    HostCalls   \* whether a consumer calls connect() / disconnect()

VARIABLES
    rs,               \* rs[s]: readyState of socket s, "FREE" if unallocated
    failed,           \* failed[s]: s has fired its error event
    clo,              \* clo[s]: connectionStatus seen by the closure that created s
    socket,           \* React state `socket`
    connectionStatus, \* React state, mirrored by App.js through onConnectionChange
    monsters,         \* React state, a Map (EntityStore)
    players,
    messages,         \* React state, the event log
    serverStats,      \* App.js state, set through onServerStatsUpdate
    crashed,          \* a render threw: React unmounted the whole tree
    mounts,           \* times the mount effect has run
    tornDown          \* history: disconnect() called and no connect() since

vars == <<rs, failed, clo, socket, connectionStatus, monsters, players,
          messages, serverStats, crashed, mounts, tornDown>>

Phases == {"disconnected", "connecting", "connected", "error"}
ReadyStates == {"FREE", "CONNECTING", "OPEN", "CLOSING", "CLOSED"}
Levels == {"info", "warning", "error"}

\* Sockets that are trying to connect or are connected.
Live == {s \in SockIds : rs[s] \in {"CONNECTING", "OPEN"}}

\* A state update issued after the tree was unmounted is dropped by React.
Set(old, new) == IF crashed THEN old ELSE new

\* App's own state: its connectionStatus copy, which every provider handler
\* sets together with the provider's (one variable here), and the five
\* counters of serverStats, all 0.
AppInit ==
    /\ connectionStatus = "disconnected"
    /\ serverStats = InitStats

Init ==
    /\ rs = [s \in SockIds |-> "FREE"]
    /\ failed = [s \in SockIds |-> FALSE]
    /\ clo = [s \in SockIds |-> "disconnected"]
    /\ socket = Null
    /\ monsters = <<>>
    /\ players = <<>>
    /\ messages = <<>>
    /\ AppInit
    /\ crashed = FALSE
    /\ mounts = 0
    /\ tornDown = FALSE

\* `new WebSocket(...)` from a connect closure that saw phase c.
NewSocket(s, c) ==
    /\ rs' = [rs EXCEPT ![s] = "CONNECTING"]
    /\ failed' = [failed EXCEPT ![s] = FALSE]
    /\ clo' = [clo EXCEPT ![s] = c]

-----------------------------------------------------------------------------
(* Connection Manager                                                      *)

\* useEffect(() => { connect(); return () => disconnect(); }, []).  The
\* cleanup's disconnect closes over socket = null and never does anything.
MountEveryRender ==
    /\ ~crashed
    /\ \E s \in SockIds : rs[s] = "FREE" /\ NewSocket(s, "disconnected")
    /\ UNCHANGED <<socket, connectionStatus, monsters, players, messages,
                   serverStats, crashed, mounts, tornDown>>

Mount ==
    /\ ~crashed
    /\ mounts < MaxMounts
    /\ \E s \in SockIds : rs[s] = "FREE" /\ NewSocket(s, "disconnected")
    /\ mounts' = mounts + 1
    /\ tornDown' = FALSE
    /\ UNCHANGED <<socket, connectionStatus, monsters, players, messages,
                   serverStats, crashed>>

\* connect() called by a consumer with the current render's closure.
HostConnect ==
    /\ HostCalls /\ ~crashed /\ mounts > 0
    /\ ~(socket # Null /\ rs[socket] = "OPEN")
    /\ \E s \in SockIds : rs[s] = "FREE" /\ NewSocket(s, connectionStatus)
    /\ tornDown' = FALSE
    /\ UNCHANGED <<socket, connectionStatus, monsters, players, messages,
                   serverStats, crashed, mounts>>

\* disconnect(): socket.close(); setSocket(null) -- no timer is cancelled.
HostDisconnect ==
    /\ HostCalls /\ ~crashed /\ mounts > 0
    /\ IF socket # Null
       THEN /\ rs' = [rs EXCEPT ![socket] = IF @ = "OPEN" THEN "CLOSING" ELSE @]
            /\ socket' = Null
       ELSE UNCHANGED <<rs, socket>>
    /\ tornDown' = TRUE
    /\ UNCHANGED <<failed, clo, connectionStatus, monsters, players, messages,
                   serverStats, crashed, mounts>>

SocketOpenNoSetSocket(s) ==
    /\ rs[s] = "CONNECTING"
    /\ rs' = [rs EXCEPT ![s] = "OPEN"]
    /\ connectionStatus' = Set(connectionStatus, "connected")
    /\ UNCHANGED <<failed, clo, socket, monsters, players, messages,
                   serverStats, crashed, mounts, tornDown>>

\* ws.onopen
SocketOpen(s) ==
    /\ rs[s] = "CONNECTING"
    /\ rs' = [rs EXCEPT ![s] = "OPEN"]
    /\ connectionStatus' = Set(connectionStatus, "connected")
    /\ socket' = Set(socket, s)
    /\ UNCHANGED <<failed, clo, monsters, players, messages, serverStats,
                   crashed, mounts, tornDown>>

\* ws.onerror: the transport failed; the browser fires onclose next.
SocketError(s) ==
    /\ rs[s] \in {"CONNECTING", "OPEN", "CLOSING"}
    /\ ~failed[s]
    /\ failed' = [failed EXCEPT ![s] = TRUE]
    /\ rs' = [rs EXCEPT ![s] = "CLOSING"]
    /\ connectionStatus' = Set(connectionStatus, "error")
    /\ UNCHANGED <<clo, socket, monsters, players, messages, serverStats,
                   crashed, mounts, tornDown>>

\* The server closes the connection (closing handshake started).
RemoteClose(s) ==
    /\ rs[s] = "OPEN"
    /\ rs' = [rs EXCEPT ![s] = "CLOSING"]
    /\ UNCHANGED <<failed, clo, socket, connectionStatus, monsters, players,
                   messages, serverStats, crashed, mounts, tornDown>>

SocketCloseNoRetryAfterError(s) ==
    /\ rs[s] = "CLOSING"
    /\ rs' = [rs EXCEPT ![s] = IF failed[s] THEN "FREE" ELSE "CLOSED"]
    /\ connectionStatus' = Set(connectionStatus, "disconnected")
    /\ socket' = Set(socket, Null)
    /\ UNCHANGED <<failed, clo, monsters, players, messages, serverStats,
                   crashed, mounts, tornDown>>

\* ws.onclose: setSocket(null) whichever socket closed, and setTimeout(3000).
\* A CLOSED socket is one whose reconnect timer is pending.
SocketClose(s) ==
    /\ rs[s] = "CLOSING"
    /\ rs' = [rs EXCEPT ![s] = "CLOSED"]
    /\ connectionStatus' = Set(connectionStatus, "disconnected")
    /\ socket' = Set(socket, Null)
    /\ UNCHANGED <<failed, clo, monsters, players, messages, serverStats,
                   crashed, mounts, tornDown>>

\* The timer fires: `if (connectionStatus !== 'connected') connect();` with
\* the closure's connectionStatus, so the stale closure creates a socket.
ReconnectTimerFires(s) ==
    /\ rs[s] = "CLOSED"
    /\ clo[s] # "connected"
    /\ NewSocket(s, clo[s])
    /\ UNCHANGED <<socket, connectionStatus, monsters, players, messages,
                   serverStats, crashed, mounts, tornDown>>

ReconnectTimerSkips(s) ==
    /\ rs[s] = "CLOSED"
    /\ clo[s] = "connected"
    /\ rs' = [rs EXCEPT ![s] = "FREE"]
    /\ UNCHANGED <<failed, clo, socket, connectionStatus, monsters, players,
                   messages, serverStats, crashed, mounts, tornDown>>

-----------------------------------------------------------------------------
(* Message Router and reducers (ws.onmessage)                              *)

SeverityNoDefault(d) == d.level

\* data.data.level || 'info'
Severity(d) == IF d.level = NoData THEN "info" ELSE d.level

\* Types whose handler reads data.data inside a setState updater or, for
\* server_stats, inside ServerStats' render: both run after the try block.
DataTypes == {"monster_spawn", "monster_death", "server_stats",
              "system_message", "bt_execution"}

\* ServerStats' statItems read five fields of App's serverStats.
StatsRenderThrows(d) == d = NoData

\* The handler's updaters, or ServerStats, throw during the next render.
Throws(f) ==
    /\ f # Garbage
    /\ f.type \in DataTypes
    /\ IF f.type = "server_stats" THEN StatsRenderThrows(f.data) ELSE f.data = NoData

\* The handler appends to `messages`.
Logs(f) == f # Garbage /\ f.type \in DataTypes \ {"server_stats"} /\ ~Throws(f)

LogEntryPayload(f) ==
    CASE f.type = "monster_spawn"  -> [type |-> "info", about |-> f.data.id]
      [] f.type = "monster_death"  -> [type |-> "warning", about |-> f.data.v]
      [] f.type = "system_message" -> [type |-> Severity(f.data), about |-> "system"]
      [] f.type = "bt_execution"   -> [type |-> "info", about |-> f.data.monster_name]

LogEntry(f) ==
    CASE f.type = "monster_spawn"  -> [type |-> "info", about |-> f.data.id]
      [] f.type = "monster_death"  -> [type |-> "warning", about |-> f.data.id]
      [] f.type = "system_message" -> [type |-> Severity(f.data), about |-> "system"]
      [] f.type = "bt_execution"   -> [type |-> "info", about |-> f.data.monster_name]

\* The state a successfully rendered frame leaves; JSON.parse failures and
\* unknown types are caught or logged and change nothing.
Handle(f) ==
    /\ monsters' =
         IF f = Garbage THEN monsters
         ELSE CASE f.type = "monster_update" -> Upsert(monsters, f.list)
                [] f.type = "monster_spawn"  -> MapSet(monsters, f.data)
                [] f.type = "monster_death"  -> MapDelete(monsters, f.data.id)
                [] OTHER                     -> monsters
    /\ players' =
         IF f # Garbage /\ f.type = "player_update" THEN Upsert(players, f.list)
         ELSE players
    /\ messages' = IF Logs(f) THEN Append(messages, LogEntry(f)) ELSE messages
    /\ serverStats' =
         IF f # Garbage /\ f.type = "server_stats" THEN f.data ELSE serverStats

\* ws.onmessage on an open socket, while the tree is mounted (afterwards
\* every update it issues is dropped).
ReceiveFrame(s, f) ==
    /\ rs[s] = "OPEN"
    /\ ~crashed
    /\ Logs(f) => Len(messages) < MaxLog
    /\ IF Throws(f)
       THEN /\ crashed' = TRUE
            /\ UNCHANGED <<monsters, players, messages, serverStats>>
       ELSE /\ Handle(f)
            /\ UNCHANGED crashed
    /\ UNCHANGED <<rs, failed, clo, socket, connectionStatus, mounts, tornDown>>

Receive(s) == \E f \in Frames : ReceiveFrame(s, f)

-----------------------------------------------------------------------------
(* Host                                                                    *)

\* ConnectionStatus' getStatusInfo: showButton for disconnected and error.
ReconnectOffered == connectionStatus \in {"disconnected", "error"}

\* window.location.reload(): the page is torn down (its sockets and timers go
\* with it, no handler runs) and the app starts again from Init.
Reload ==
    /\ ~crashed
    /\ ReconnectOffered
    /\ rs' = [s \in SockIds |-> "FREE"]
    /\ failed' = [s \in SockIds |-> FALSE]
    /\ clo' = [s \in SockIds |-> "disconnected"]
    /\ socket' = Null
    /\ connectionStatus' = "disconnected"
    /\ monsters' = <<>>
    /\ players' = <<>>
    /\ messages' = <<>>
    /\ serverStats' = InitStats
    /\ mounts' = 0
    /\ crashed' = FALSE
    /\ tornDown' = FALSE

\* The value the provider publishes (WebSocketContext.js `value`).
Snapshot ==
    [connectionStatus |-> connectionStatus, monsters |-> monsters,
     players |-> players, messages |-> messages]

\* Every step of the running page but the delivery of a frame.
PageNext ==
    \/ Mount
    \/ HostConnect
    \/ HostDisconnect
    \/ \E s \in SockIds :
          \/ SocketOpen(s)
          \/ SocketError(s)
          \/ RemoteClose(s)
          \/ SocketClose(s)
          \/ ReconnectTimerFires(s)
          \/ ReconnectTimerSkips(s)

ConnNext == PageNext \/ Reload

Next == ConnNext \/ \E s \in SockIds : Receive(s)

\* The mount effect runs after the first commit, the browser delivers close
\* once closing has started, and a pending setTimeout fires.  Nothing is
\* assumed of the server, the network or the user.
Fairness ==
    /\ WF_vars(Mount)
    /\ \A s \in SockIds :
          /\ WF_vars(SocketClose(s))
          /\ WF_vars(ReconnectTimerFires(s))
          /\ WF_vars(ReconnectTimerSkips(s))

Spec == Init /\ [][Next]_vars /\ Fairness

-----------------------------------------------------------------------------
(* Properties                                                              *)

LogEntries == [type : Levels, about : Ids \cup {"system"}]

TypeOK ==
    /\ rs \in [SockIds -> ReadyStates]
    /\ failed \in [SockIds -> BOOLEAN]
    /\ clo \in [SockIds -> Phases]
    /\ socket \in SockIds \cup {Null}
    /\ connectionStatus \in Phases
    /\ monsters \in Seq(Record)
    /\ players \in Seq(Record)
    /\ messages \in Seq(LogEntries)
    /\ serverStats \in StatVals \cup {NoData}
    /\ crashed \in BOOLEAN
    /\ mounts \in 0..MaxMounts
    /\ tornDown \in BOOLEAN

(* Spec 4.1 / 5: the socket is owned by one connection manager; through    *)
(* every interleaving of open, error, close, timer and mount, at most one  *)
(* WebSocket is connecting or connected at a time.                         *)
OneLiveSocket == Cardinality(Live) <= 1

(* Spec 3 / 4.5: the published phase agrees with the transport: whenever  *)
(* a socket is open (and frames can change the store) the phase shown is   *)
(* `connected`, and a `connected` phase is backed by the kept socket,      *)
(* which is open or closing.                                               *)
PhaseTracksSocket ==
    ~crashed =>
        /\ \A s \in SockIds : rs[s] = "OPEN" => connectionStatus = "connected"
        /\ connectionStatus = "connected" =>
              socket # Null /\ rs[socket] \in {"OPEN", "CLOSING"}

(* Spec 4.1 / 8.5: a lost connection is retried: whenever no socket is     *)
(* connecting or connected, one eventually is, through the onclose timer   *)
(* of whichever closure created the last socket.                           *)
ReconnectEventually == (Live = {}) ~> (Live # {})

(* Spec 3 / 4.1 / 8.5: while a socket is being opened and none is open,  *)
(* the published phase is `connecting` (ConnectionStatus.js has a label    *)
(* and an animation for it).                                               *)
ConnectingPhaseShown ==
    (~crashed /\ "CONNECTING" \in Range(rs) /\ "OPEN" \notin Range(rs))
        => connectionStatus = "connecting"

(* Spec 4.1 / 7: a single bad frame never tears the application down.     *)
NoCrash == ~crashed

-----------------------------------------------------------------------------
(* Refinement of ConnectionPhase.  The link is the one socket identity in  *)
(* use (the app as shipped never has two), seen through its readyState; a *)
(* CLOSED socket is one whose reconnect timer is pending.                  *)

LinkOf == [CONNECTING |-> "connecting", OPEN |-> "open", CLOSING |-> "closing",
           CLOSED |-> "waiting"]

Link == IF \A s \in SockIds : rs[s] = "FREE" THEN "none"
        ELSE LinkOf[rs[CHOOSE s \in SockIds : rs[s] # "FREE"]]

Abstract == INSTANCE ConnectionPhase WITH link <- Link, phase <- connectionStatus

(* Spec 3 / 4.1 / 5: the sockets, closures and timers of the provider       *)
(* implement one link at a time whose published phase follows it, that is  *)
(* retried after every loss and never abandoned by a timer's stale guard.  *)
ImplementsConnectionPhase == Abstract!Spec

=============================================================================
