--------------------------- MODULE DashboardView ---------------------------
(***************************************************************************)
(* The monster view of the dashboard composed with WebSocketProvider:      *)
(* App.js renders MonsterDashboard, whose filter state (MonsterFilter.js)  *)
(* selects the monsters of the provider's snapshot that become MonsterCard *)
(* elements (MonsterCard.js).                                              *)
(*                                                                         *)
(* Every provider step ends in a commit, and the commit renders the tree.  *)
(* A render that throws (no error boundary) unmounts the whole tree: the   *)
(* state in which the render would throw is followed at once by Unmount,   *)
(* which sets the provider's `crashed`, and nothing else may happen in     *)
(* between.                                                                *)
(*                                                                         *)
(* A monster's payload `v` is a record [type, state, name, pos]: `name` is *)
(* NoData when the server left it out, `pos` is "full", "norot" when      *)
(* `position` has no `rotation`, or "none" when `position` is missing.  Names and search strings are compared through Includes, the   *)
(* case-insensitive substring test of the filter.                          *)
(***************************************************************************)
EXTENDS WebSocketProvider

CONSTANTS
    Searches,      \* strings the user may type in the search box
    Includes(_, _)  \* name.toLowerCase().includes(search.toLowerCase())

VARIABLE filter    \* MonsterDashboard's useState filter

viewVars == <<vars, filter>>

\* The options of MonsterFilter's two selects.
TypeOptions == {"all", "GOBLIN", "ORC", "DRAGON", "SKELETON", "ZOMBIE",
                "NPC_MERCHANT", "NPC_GUARD"}
StateOptions == {"all", "IDLE", "PATROL", "CHASE", "ATTACK", "FLEE", "DEAD"}

DefaultFilter == [type |-> "all", state |-> "all", search |-> ""]

Options == [type |-> TypeOptions, state |-> StateOptions, search |-> Searches]

-----------------------------------------------------------------------------
(* Render (derived from the committed state)                               *)

\* filteredMonsters: the three tests are evaluated for every monster; the
\* search test reads monster.name only when the search box is not empty.
Matches(m) ==
    /\ filter.type = "all" \/ m.v.type = filter.type
    /\ filter.state = "all" \/ m.v.state = filter.state
    /\ filter.search = "" \/ Includes(m.v.name, filter.search)

FilteredMonsters == SelectSeq(monsters, Matches)

\* monsterStats: total and per-type counts over all monsters.
MonsterStats ==
    [total |-> Len(monsters),
     byType |-> [t \in {m.v.type : m \in Range(monsters)} |->
                   Len(SelectSeq(monsters, LAMBDA m : m.v.type = t))]]

\* useMemo's filter throws on `undefined.toLowerCase()`; hooks run before
\* the early return, so this happens behind the spinner too.
FilterThrows == filter.search # "" /\ \E m \in Range(monsters) : m.v.name = NoData

\* MonsterCard: formatPosition(monster.position) reads pos.x, and
\* formatRotation(monster.position.rotation) calls rotation.toFixed.
CardThrows(m) == m.v.pos # "full"

\* What MonsterDashboard returns: the spinner while disconnected, else the
\* header, the filter, and an empty state or one card per filtered monster.
Shown ==
    CASE connectionStatus = "disconnected" -> "spinner"
      [] FilteredMonsters = <<>>           -> "empty"
      [] OTHER                             -> "grid"

DashboardThrows ==
    \/ FilterThrows
    \/ Shown = "grid" /\ \E k \in DOMAIN FilteredMonsters :
                            CardThrows(FilteredMonsters[k])

\* App's render of the mounted tree (ServerStats' own throw is part of the
\* provider's Receive).
RenderThrows == ~crashed /\ DashboardThrows

\* MonsterFilter is rendered, so the user can reach its controls.
FilterVisible == ~crashed /\ Shown # "spinner" /\ ~RenderThrows

HasActiveFilters == filter # DefaultFilter

-----------------------------------------------------------------------------
(* Actions                                                                 *)

FilterChangeNoSpread(key, value) ==
    /\ FilterVisible
    /\ filter' = [k \in {key} |-> value]
    /\ UNCHANGED vars

FilterChangeBehindSpinner(key, value) ==
    /\ ~crashed /\ ~RenderThrows
    /\ filter' = [filter EXCEPT ![key] = value]
    /\ UNCHANGED vars

\* handleFilterChange(key, value): onFilterChange(prev => ({...prev, [key]: value}))
FilterChange(key, value) ==
    /\ FilterVisible
    /\ filter' = [filter EXCEPT ![key] = value]
    /\ UNCHANGED vars

\* clearFilters, on the button shown while hasActiveFilters
ClearFilters ==
    /\ FilterVisible
    /\ HasActiveFilters
    /\ filter' = DefaultFilter
    /\ UNCHANGED vars

\* The commit's render threw: React unmounts the tree.
Unmount ==
    /\ RenderThrows
    /\ crashed' = TRUE
    /\ UNCHANGED <<rs, failed, clo, socket, connectionStatus, monsters, players,
                   messages, serverStats, mounts, tornDown, filter>>

\* Any provider step of the running page, once the previous commit has
\* rendered.
ProviderStep ==
    /\ ~RenderThrows
    /\ PageNext \/ \E s \in SockIds : Receive(s)
    /\ UNCHANGED filter

\* The reload button: the new page mounts MonsterDashboard afresh, with the
\* initial useState filter.
ViewReload ==
    /\ ~RenderThrows
    /\ Reload
    /\ filter' = DefaultFilter

ViewInit == Init /\ filter = DefaultFilter

ViewNext ==
    \/ ProviderStep
    \/ ViewReload
    \/ Unmount
    \/ ClearFilters
    \/ \E key \in DOMAIN Options : \E value \in Options[key] :
          FilterChange(key, value)

ViewSpec == ViewInit /\ [][ViewNext]_viewVars

-----------------------------------------------------------------------------
(* Properties                                                              *)

ViewTypeOK ==
    /\ TypeOK
    /\ filter \in [type : TypeOptions, state : StateOptions, search : Searches]

(* Spec 4.1 / 6: a record the store accepts never makes the application  *)
(* throw: no commit (a frame, a filter change, a reconnect) renders a      *)
(* dashboard whose filter or cards read a field the record lacks.          *)
NoRenderCrash == ~RenderThrows

(* While MonsterDashboard shows its loading spinner, the render does not   *)
(* throw, although the filter's useMemo runs before the early return: the  *)
(* monsters and the filter it reads can only have changed while the phase *)
(* was not `disconnected`, and that render has already succeeded.          *)
SpinnerNeverThrows == Shown = "spinner" => ~RenderThrows

=============================================================================
