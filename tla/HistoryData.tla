----------------------------- MODULE HistoryData ------------------------------
(***************************************************************************)
(* The connection history as data (state.py, ranking.py): what a stored    *)
(* document means, how rows that name one host are merged, how the list is *)
(* cut to its limit, and what a success or a Forget does to it.            *)
(*                                                                         *)
(* A history is a function from folded hosts to [last, count].  The order  *)
(* of its rows is not stored: sort_hosts makes it a function of the rows   *)
(* (newest first, then by name), and every history the program writes is   *)
(* sorted.  A document of the disk is a function from spellings: two rows  *)
(* for one host are two spellings of it.                                   *)
(***************************************************************************)
EXTENDS MeshConfig

CONSTANTS NameRank,    \* the place of a key in the order of strings
          MaxHosts     \* StateStore.max_hosts, 100 in the program

ASSUME RankAssumption ==
    /\ NameRank \in [Keys -> Nat]
    /\ \A j, k \in Keys : NameRank[j] = NameRank[k] => j = k

ASSUME MaxHostsAssumption == MaxHosts \in Nat \ {0}

Entries == [last : Nat, count : Nat \ {0}]
IsHistory(h) == DOMAIN h \subseteq Keys /\ h \in [DOMAIN h -> Entries]
Empty == [k \in {} |-> [last |-> 0, count |-> 1]]

\* Rows as found in a file: a field that is missing or not an integer is -1.
IsRows(rows) ==
    DOMAIN rows \subseteq Spellings /\ rows \in [DOMAIN rows -> [last : Int, count : Int]]

-------------------------------------------------------------------------------
\* _history_key: the id of the one remote host the value resolves to, or the
\* folded value itself.
HistoryKey(mesh, s) ==
    LET i == ResolveToken(mesh, Fold[s])
    IN  IF i # 0 /\ ~mesh[i].local THEN mesh[i].id ELSE Fold[s]

\* (mutant) A count is taken as it is found.
PositiveInt_Unchecked(n) == n

PositiveInt(n) == IF n > 0 THEN n ELSE 1
NonnegativeInt(n) == IF n >= 0 THEN n ELSE 0

Latest(times) == CHOOSE t \in times : \A u \in times : u <= t

\* The rows that one key stands for, and the connections they count: the
\* counts of several rows add up, so no two rows share a connection.
RowsOf(mesh, rows, k) == {s \in DOMAIN rows : HistoryKey(mesh, s) = k}
Connections(mesh, rows, k) ==
    UNION {{s} \X (1 .. PositiveInt(rows[s].count)) : s \in RowsOf(mesh, rows, k)}

\* (mutant) Of several rows for one host only one counts.
Merge_KeepsOne(mesh, rows) ==
    [k \in {HistoryKey(mesh, s) : s \in DOMAIN rows} |->
        [last  |-> Latest({NonnegativeInt(rows[s].last) : s \in RowsOf(mesh, rows, k)}),
         count |-> Latest({PositiveInt(rows[s].count) : s \in RowsOf(mesh, rows, k)})]]

\* The merge loop of _state_from_payload.
Merge(mesh, rows) ==
    [k \in {HistoryKey(mesh, s) : s \in DOMAIN rows} |->
        [last  |-> Latest({NonnegativeInt(rows[s].last) : s \in RowsOf(mesh, rows, k)}),
         count |-> Cardinality(Connections(mesh, rows, k))]]

\* sort_hosts puts j before k: newer first, then by name; counts play no part.
Outranks(history, j, k) ==
    \/ history[j].last > history[k].last
    \/ history[j].last = history[k].last /\ NameRank[j] < NameRank[k]

\* _trim: the first MaxHosts records of sort_hosts.
Kept(history) ==
    {k \in DOMAIN history :
        Cardinality({j \in DOMAIN history : Outranks(history, j, k)}) < MaxHosts}
Trim(history) == [k \in Kept(history) |-> history[k]]

StateFromPayload(mesh, rows) == Trim(Merge(mesh, rows))

\* (mutant) The newest report wins, whatever its clock said.
Success_Latest(history, k, at) ==
    [last |-> at, count |-> IF k \in DOMAIN history THEN history[k].count + 1 ELSE 1]

\* (mutant) The first success of a host is not counted.
Success_FromZero(history, k, at) ==
    [last |-> at, count |-> IF k \in DOMAIN history THEN history[k].count + 1 ELSE 0]

\* What record_success and remove make of the history they loaded.
Success(history, k, at) ==
    IF k \in DOMAIN history
    THEN [last  |-> IF at > history[k].last THEN at ELSE history[k].last,
          count |-> history[k].count + 1]
    ELSE [last |-> at, count |-> 1]

\* (mutant) The list is not cut after a success is added.
AddSuccess_Untrimmed(history, k, at) ==
    [j \in DOMAIN history \cup {k} |-> IF j = k THEN Success(history, k, at) ELSE history[j]]

AddSuccess(history, k, at) ==
    Trim([j \in DOMAIN history \cup {k} |->
            IF j = k THEN Success(history, k, at) ELSE history[j]])
Without(history, k) == [j \in DOMAIN history \ {k} |-> history[j]]

\* The connections that a history, or a list of rows made from one, counts.
ConnectionsIn(rows) == UNION {{k} \X (1 .. rows[k].count) : k \in DOMAIN rows}
Total(rows) == Cardinality(ConnectionsIn(rows))

-------------------------------------------------------------------------------
(***************************************************************************)
(* Documents: the contents the history file can have.                      *)
(*   absent     there is no such file                                      *)
(*   garbage    not JSON, or JSON that is not an object                    *)
(*   torn       an empty or partial file, after a power loss               *)
(*   alien      an object of another version, or without a list of hosts   *)
(*   foreign    accepted, but not as the program writes it (no version,    *)
(*              rows out of order, rows that are skipped)                  *)
(*   canonical  version 1 with sorted rows; sortMode may be anything       *)
(***************************************************************************)
Formats == {"absent", "garbage", "torn", "alien", "foreign", "canonical"}
IsDocument(doc) == doc \in [format : Formats, rows : {doc.rows}] /\ IsRows(doc.rows)
Absent  == [format |-> "absent", rows |-> Empty]
Garbage == [format |-> "garbage", rows |-> Empty]
Torn    == [format |-> "torn", rows |-> Empty]
Canonical(history) == [format |-> "canonical", rows |-> history]

\* The rows of a document that a reader of history.json accepts.
AcceptedRows(doc) == IF doc.format \in {"foreign", "canonical"} THEN doc.rows ELSE Empty

\* _read_generic, as far as it reads: what cannot be read is an empty history.
ReadGeneric(mesh, doc) == StateFromPayload(mesh, AcceptedRows(doc))

\* _read_generic, where it writes: with a mesh, an object whose version or
\* hosts differ from the history just read is rewritten.
NeedsRewrite(mesh, doc) ==
    /\ mesh # NoMesh
    /\ \/ doc.format \in {"alien", "foreign"}
       \/ doc.format = "canonical" /\ ReadGeneric(mesh, doc) # doc.rows

\* _read_legacy: the version of the other application's file is not looked at.
ReadLegacy(mesh, doc) ==
    StateFromPayload(mesh, IF doc.format \in {"alien", "foreign", "canonical"}
                           THEN doc.rows ELSE Empty)

===============================================================================
