------------------------------ MODULE PickerRows ------------------------------
(***************************************************************************)
(* The rows of the picker as data (protocol.py): which host of the mesh or *)
(* of the history each row stands for, in which order they are shown, and  *)
(* where a row is found again.                                             *)
(*                                                                         *)
(* A row keeps its key, its usage and its place among the hosts of the     *)
(* mesh.  Its display and its second line are wording; a managed row never *)
(* needs its display as a tie-break, since places differ.                  *)
(***************************************************************************)
EXTENDS HistoryData

\* Does a token belong to a remote host of the mesh?
Managed(mesh, token) ==
    LET i == ResolveToken(mesh, token) IN i # 0 /\ ~mesh[i].local

\* remote_hosts: all but the first.
Remote(mesh) == DOMAIN mesh \ {1}
RemoteIds(mesh) == {mesh[i].id : i \in Remote(mesh)}

\* managed_usage: the records of managed hosts, added up by host.
ManagedUsage(mesh, history) ==
    Merge(mesh, [k \in {j \in DOMAIN history : Managed(mesh, j)} |-> history[k]])

\* A managed host has a row before its first connection.
ManagedRow(mesh, history, i) ==
    LET usage == ManagedUsage(mesh, history)
        used == mesh[i].id \in DOMAIN usage
    IN  [key |-> mesh[i].id, managed |-> TRUE, place |-> i,
         last  |-> IF used THEN usage[mesh[i].id].last ELSE 0,
         count |-> IF used THEN usage[mesh[i].id].count ELSE 0]

AdHocRow(mesh, history, k) ==
    [key |-> k, managed |-> FALSE, place |-> Len(mesh) + 1,
     last |-> history[k].last, count |-> history[k].count]

\* (mutant) A managed host is listed once it has been used.
Rows_Used(mesh, history) ==
    {ManagedRow(mesh, history, i) : i \in {j \in Remote(mesh) : mesh[j].id \in DOMAIN history}}
    \cup {AdHocRow(mesh, history, k) : k \in DOMAIN history \ RemoteIds(mesh)}

\* _rows: every remote host, and every record that belongs to none.
Rows(mesh, history) ==
    {ManagedRow(mesh, history, i) : i \in Remote(mesh)}
    \cup {AdHocRow(mesh, history, k) :
            k \in {j \in DOMAIN history : ~Managed(mesh, j) /\ j \notin RemoteIds(mesh)}}

-------------------------------------------------------------------------------
\* _sort_rows: used rows, then managed hosts that were never used, then the rest.
Rank(row) == IF row.last # 0 THEN 0 ELSE IF row.managed THEN 1 ELSE 2

\* The order of the sort keys, field by field.
RowPrecedes(r, s) ==
    \/ Rank(r) < Rank(s)
    \/ Rank(r) = Rank(s) /\ r.last > s.last
    \/ Rank(r) = Rank(s) /\ r.last = s.last /\ r.place < s.place
    \/ Rank(r) = Rank(s) /\ r.last = s.last /\ r.place = s.place
        /\ NameRank[r.key] < NameRank[s.key]

\* sorted: the row at p has p - 1 rows before it.
SortRows(rows) ==
    [p \in 1 .. Cardinality(rows) |->
        CHOOSE r \in rows : Cardinality({q \in rows : RowPrecedes(q, r)}) = p - 1]

\* new-selection: where the row with a key is now, 0 if there is none.
NewSelection(shown, info) ==
    LET places == {p \in DOMAIN shown : shown[p].key \in info}
    IN  IF places = {} THEN 0 ELSE CHOOSE p \in places : \A q \in places : p <= q

===============================================================================
