-------------------------------- MODULE Picker --------------------------------
(***************************************************************************)
(* One Rofi window and the callbacks that serve it (protocol.py, the picker *)
(* entry of cli.py).  Every key the user presses starts a new process; all *)
(* it knows of the window is what Rofi hands back: the pending action      *)
(* (ROFI_DATA) and the identity of the highlighted row (ROFI_INFO).        *)
(*                                                                         *)
(* Between what was shown and the callback, and between its own steps, the *)
(* configuration is edited and workers and other pickers change the        *)
(* history.  An operation of the store is one step, which StateStore       *)
(* justifies.  A configuration that load_mesh refuses is NoMesh.           *)
(***************************************************************************)
EXTENDS PickerRows

CONSTANTS Configs,      \* what the configuration file may say
          Histories,    \* the history the first window finds
          Times,        \* the values of the clock
          MaxUsage,     \* bound: the connections that the history may count
          Faults,       \* may the store raise, a spawn fail, a callback be killed?
          Edits,        \* may the configuration change?
          OldWindows    \* may the window be one of an older version?

ASSUME PickerAssumption ==
    /\ Configs # {} /\ \A c \in Configs : c = NoMesh \/ ValidMesh(c)
    /\ Histories # {} /\ \A h \in Histories : IsHistory(h)
    /\ Times \subseteq Nat
    /\ MaxUsage \in Nat
    /\ {Faults, Edits, OldWindows} \subseteq BOOLEAN

VARIABLES history,    \* the book of the store
          config,     \* what the configuration file says
          place,      \* shown, a place of the callback, or the end of the window
          rows,       \* what Rofi lists
          cursor,     \* which row it highlights
          data,       \* the action it hands back
          delim,      \* what it splits the output of the script by
          press,      \* the key of the callback: retv, data, info
          mesh,       \* the configuration the callback loaded
          label,      \* the action the callback will show
          started     \* the worker the window has started, if any

windowVars == <<place, rows, cursor, data, delim>>
callbackVars == <<press, mesh, label>>
pickerVars == <<history, config, windowVars, callbackVars, started>>

Actions == {"connect", "forget"}
Callbacks == {"load", "select", "act", "render"}
Places == {"shown", "closed", "garbled"} \cup Callbacks
\* Tab and Shift-Tab go round two actions, so they do the same.
Keypresses == {"initial", "enter", "tab", "retired"}

\* ROFI_INFO: the key of the highlighted row.
Highlighted == IF cursor \in DOMAIN rows THEN {rows[cursor].key} ELSE {}

NewWindow == [retv |-> "initial", data |-> "connect", info |-> {}]

Init ==
    /\ history \in Histories
    /\ config \in Configs
    /\ place = "closed" /\ rows = <<>> /\ cursor = 1 /\ data = "connect" /\ delim = "LF"
    /\ press = NewWindow /\ mesh = NoMesh /\ label = "connect"
    /\ started = {}

\* The process of a callback ends, and its variables with it.
Return == press' = NewWindow /\ mesh' = NoMesh /\ label' = "connect"

\* Rofi ends the window.
Close ==
    /\ place' = "closed"
    /\ rows' = <<>> /\ cursor' = 1 /\ data' = "connect" /\ delim' = "LF"
    /\ Return

-------------------------------------------------------------------------------
\* The user: a new window, a move in the list, a key that calls the script.
Open ==
    /\ place = "closed"
    /\ place' = "load"
    /\ started' = {}
    /\ UNCHANGED <<history, config, rows, cursor, data, delim, callbackVars>>

Move ==
    /\ place = "shown"
    /\ cursor' \in DOMAIN rows \ {cursor}
    /\ UNCHANGED <<history, config, place, rows, data, delim, callbackVars, started>>

Press ==
    /\ place = "shown"
    /\ place' = "load"
    /\ \E retv \in Keypresses \ {"initial"} :
          press' = [retv |-> retv, data |-> data, info |-> Highlighted]
    /\ UNCHANGED <<history, config, rows, cursor, data, delim, mesh, label, started>>

Escape ==
    /\ place \in {"shown", "garbled"}
    /\ Close
    /\ UNCHANGED <<history, config, started>>

\* The window was opened by another version: its action data are not understood.
Upgrade ==
    /\ OldWindows
    /\ place = "shown"
    /\ data' = "alien"
    /\ UNCHANGED <<history, config, place, rows, cursor, delim, callbackVars, started>>

-------------------------------------------------------------------------------
\* _cycle_action, _continuation_action.
Cycle(action) == IF action = "connect" THEN "forget" ELSE "connect"
Continued(pressed) == IF pressed.data \in Actions THEN pressed.data ELSE "connect"

\* dispatch up to the first look at the history: Enter goes on with a known
\* action on a row, anything else shows the list again.
Dispatch ==
    /\ label' = IF press.retv = "tab" /\ press.data \in Actions
                THEN Cycle(press.data) ELSE Continued(press)
    /\ place' = IF press.retv = "enter" /\ press.data \in Actions /\ press.info # {}
                THEN "select" ELSE "render"

\* load_mesh at the start of every callback.
LoadMesh ==
    /\ place = "load" /\ config # NoMesh
    /\ mesh' = config
    /\ Dispatch
    /\ UNCHANGED <<history, config, rows, cursor, data, delim, press, started>>

\* It raises: the message is written in lines, without a row.  A new window stays
\* open to show it and still splits by lines; one that splits by tabs finds no line
\* in it (external: Rofi).
RefuseMesh ==
    /\ place = "load" /\ config = NoMesh
    /\ place' = IF delim = "LF" THEN "shown" ELSE "garbled"
    /\ rows' = <<>>
    /\ Return
    /\ UNCHANGED <<history, config, cursor, data, delim, started>>

\* What store.load makes of the history, under the mesh of the callback.
Loaded == StateFromPayload(mesh, history)
Readings == {Loaded}
KeysOf(listed) == {r.key : r \in listed}

\* (mutant) The identity that Rofi hands back is taken for a row.
Select_Unlisted ==
    /\ place = "select"
    /\ history' = Loaded
    /\ place' = "act"
    /\ UNCHANGED <<config, rows, cursor, data, delim, callbackVars, started>>

\* _selected_row: the row must still be there, by its identity.
Select ==
    /\ place = "select"
    /\ \E read \in Readings :
          /\ history' = read
          /\ place' = IF press.info \subseteq KeysOf(Rows(mesh, read)) THEN "act" ELSE "render"
    /\ UNCHANGED <<config, rows, cursor, data, delim, callbackVars, started>>

\* _launch_row and the worker entries: the id of a managed host, or the row's key.
TaskFor(key) ==
    IF Managed(mesh, key)
    THEN [managed |-> TRUE, name |-> mesh[ResolveToken(mesh, key)].id]
    ELSE [managed |-> FALSE, name |-> key]
IsLocal(hosts, key) ==
    LET i == ResolveToken(hosts, key) IN i # 0 /\ hosts[i].local

\* The worker is started; the output is empty and Rofi closes the window.
Connect ==
    /\ place = "act" /\ press.data = "connect"
    /\ \E key \in press.info : ~IsLocal(mesh, key) /\ started' = {TaskFor(key)}
    /\ Close
    /\ UNCHANGED <<history, config>>

\* The local host is listed if the history names it, but never connected to.
NotLaunched ==
    /\ place = "act" /\ press.data = "connect"
    /\ \E key \in press.info : IsLocal(mesh, key)
    /\ place' = "render"
    /\ UNCHANGED <<history, config, rows, cursor, data, delim, callbackVars, started>>

\* The launcher raises, or starts no worker.
LaunchFails ==
    /\ place = "act" /\ press.data = "connect" /\ Faults
    /\ \E key \in press.info : ~IsLocal(mesh, key)
    /\ place' = "render"
    /\ UNCHANGED <<history, config, rows, cursor, data, delim, callbackVars, started>>

\* (mutant) The row is forgotten that is now where the highlighted one was.
Forget_ByPlace ==
    /\ place = "act" /\ press.data = "forget"
    /\ LET now == SortRows(Rows(mesh, Loaded))
       IN  history' = IF cursor \in DOMAIN now THEN Without(Loaded, now[cursor].key) ELSE Loaded
    /\ label' = "connect"
    /\ place' = "render"
    /\ UNCHANGED <<config, rows, cursor, data, delim, press, mesh, started>>

\* _forget_row: store.remove of the row's host; Connect is the next action.
Forget ==
    /\ place = "act" /\ press.data = "forget"
    /\ label' = "connect"
    /\ place' = "render"
    /\ \E read \in Readings, key \in press.info :
          history' = Without(read, HistoryKey(mesh, TaskFor(key).name))
    /\ UNCHANGED <<config, rows, cursor, data, delim, press, mesh, started>>

\* store.remove raises.
ForgetFails ==
    /\ place = "act" /\ press.data = "forget" /\ Faults
    /\ label' = "connect"
    /\ place' = "render"
    /\ UNCHANGED <<history, config, rows, cursor, data, delim, press, mesh, started>>

\* (mutant) keep-selection alone: Rofi keeps the place, not the row.
NewCursor_KeepsPlace(shown) ==
    IF press.retv = "initial" \/ shown = <<>> THEN 1
    ELSE IF cursor <= Len(shown) THEN cursor ELSE Len(shown)

\* (mutant) A row that is gone is selected at no place.
NewCursor_Lost(shown) ==
    IF press.retv = "initial" \/ shown = <<>> THEN 1 ELSE NewSelection(shown, press.info)

\* keep-selection and new-selection: the row with the identity that was selected;
\* without one Rofi keeps the place (external).
NewCursor(shown) ==
    IF press.retv = "initial" \/ shown = <<>> THEN 1
    ELSE IF NewSelection(shown, press.info) # 0 THEN NewSelection(shown, press.info)
    ELSE IF cursor <= Len(shown) THEN cursor ELSE Len(shown)

\* render: the list as the history is by now.  A new window is told to split by
\* tabs from here on; the output of a callback is separated by tabs already.
Render ==
    /\ place = "render"
    /\ place' = IF press.retv = "initial" \/ delim = "TAB" THEN "shown" ELSE "garbled"
    /\ Return
    /\ data' = label
    /\ delim' = IF press.retv = "initial" THEN "TAB" ELSE delim
    /\ \E read \in Readings : \E listed \in {Rows(mesh, read)} :
          history' = read /\ rows' = SortRows(listed)
    /\ cursor' = NewCursor(rows')
    /\ UNCHANGED <<config, started>>

\* store.load raises or the process is killed: no output, and Rofi ends the window.
Dies ==
    /\ Faults
    /\ place \in Callbacks
    /\ Close
    /\ UNCHANGED <<history, config, started>>

-------------------------------------------------------------------------------
\* The user saves another configuration.
Edit ==
    /\ Edits
    /\ config' \in Configs \ {config}
    /\ UNCHANGED <<history, windowVars, callbackVars, started>>

\* A worker or another picker, under a configuration of its own.
Others ==
    /\ \E hosts \in Configs :
          LET read == StateFromPayload(hosts, history)
          IN  \/ history' = read
              \/ \E k \in DOMAIN read : history' = Without(read, k)
              \/ /\ Total(history) < MaxUsage
                 /\ \E s \in Keys, at \in Times :
                       history' = AddSuccess(read, HistoryKey(hosts, s), at)
    /\ UNCHANGED <<config, windowVars, callbackVars, started>>

User == Open \/ Move \/ Press \/ Escape \/ Upgrade
Callback ==
    LoadMesh \/ RefuseMesh \/ Select \/ Connect \/ NotLaunched \/ Forget \/ Render
Errors == LaunchFails \/ ForgetFails \/ Dies

Next == User \/ Callback \/ Errors \/ Edit \/ Others

Spec == Init /\ [][Next]_pickerVars

-------------------------------------------------------------------------------
\* Every variable keeps its type.
TypeOK ==
    /\ IsHistory(history)
    /\ config \in Configs
    /\ place \in Places
    /\ \A p \in DOMAIN rows : rows[p].key \in Keys /\ rows[p].last \in Nat /\ rows[p].count \in Nat
    /\ cursor \in Nat \ {0}
    /\ data \in Actions \cup {"alien"}
    /\ delim \in {"LF", "TAB"}
    /\ press \in [retv : Keypresses, data : Actions \cup {"alien"}, info : SUBSET Keys]
    /\ mesh \in Configs \cup {NoMesh}
    /\ label \in Actions
    /\ \A t \in started : t \in [managed : BOOLEAN, name : Keys]

\* The list accounts for the history as the callback loaded it (usage.md:5): every
\* remote host has one row, every row is another host, and the rows count each
\* connection once, whichever id, alias or route it was recorded under.
AccountsForHistory ==
    /\ \A p, q \in DOMAIN rows' : rows'[p].key = rows'[q].key => p = q
    /\ RemoteIds(mesh) \subseteq {rows'[p].key : p \in DOMAIN rows'}
    /\ \A p \in DOMAIN rows' : rows'[p].key \in DOMAIN history' \cup RemoteIds(mesh)
    /\ Total(rows') = Total(history')
RowsAccountForHistory ==
    [][place = "render" /\ place' # "closed" /\ place' # "render" => AccountsForHistory]_pickerVars

\* Used hosts come first, the most recent one before the others; then the hosts of
\* the mesh in the order of the file; connection counts decide nothing
\* (docs/guides/usage.md:5-9).
NewestFirst ==
    \A p, q \in DOMAIN rows : p < q =>
        /\ rows[p].last >= rows[q].last
        /\ rows[p].last = rows[q].last /\ rows[p].managed /\ rows[q].managed =>
              rows[p].place < rows[q].place

\* A callback keeps the highlighted row where it still exists, whatever was
\* reordered meanwhile (docs/guides/usage.md:36).
SelectionStays ==
    [][place = "render" /\ place' = "shown" /\ press.retv # "initial" =>
           \A p \in DOMAIN rows' : rows'[p].key \in press.info => cursor' = p]_pickerVars

\* Only Enter under Connect starts a worker, and the worker is for the very host
\* that was highlighted: not for one that took over its place in the list, nor for
\* one that a configuration edited since then makes its name an alias or a route of.
EnterActsOnHighlighted ==
    [][\A t \in started' \ started :
           /\ press.retv = "enter" /\ data = "connect"
           /\ {t.name} = Highlighted
           /\ t.managed <=> t.name \in RemoteIds(mesh)]_pickerVars

\* A step of the window takes at most the highlighted host from the history, and
\* only under Forget; the others keep their times and counts.
ForgetTouchesOneRow ==
    [][place' # place /\ history' # history =>
           \A k \in DOMAIN Loaded :
               \/ k \in DOMAIN history' /\ history'[k] = Loaded[k]
               \/ press.retv = "enter" /\ data = "forget" /\ {k} = Highlighted]_pickerVars

===============================================================================
