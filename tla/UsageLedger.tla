----------------------------- MODULE UsageLedger ------------------------------
(***************************************************************************)
(* What the connection history promises to the picker and the workers: one *)
(* book of usage, changed one whole operation at a time.  It is started    *)
(* once, from what the DankMaterialShell file held at that moment; after   *)
(* that every change is one success recorded, one host forgotten, or the   *)
(* book folded under a mesh, and each applies to the book as it is then.   *)
(* A power loss may bring back an earlier whole book of those not yet      *)
(* settled on the disk, never a mixture.  Where reads can fail             *)
(* (UnreadableBooks) an operation may take the book for an empty one.      *)
(***************************************************************************)
EXTENDS HistoryData

CONSTANTS Meshes,            \* the configurations the processes may have loaded
          Targets,           \* the hosts that operations name
          Times,             \* the values of the clock
          Imports,           \* what the DankMaterialShell file may hold
          UnreadableBooks    \* may a read of an intact file fail?

VARIABLES book,     \* started: is there a history file; rows: what it records
          settled   \* the books a power loss may leave

ledgerVars == <<book, settled>>

IsBook(b) == b \in [started : BOOLEAN, rows : {b.rows}] /\ IsRows(b.rows)
Started(rows) == [started |-> TRUE, rows |-> rows]

\* What an operation may take the book for, under the mesh of its process.
Readings(mesh) ==
    {StateFromPayload(mesh, book.rows)} \cup (IF UnreadableBooks THEN {Empty} ELSE {})

\* A book written by rename replaces the old one, which the disk may still hold.
Write(rows) ==
    /\ book' = Started(rows)
    /\ settled' = settled \cup {Started(rows)}

-------------------------------------------------------------------------------
Start ==
    /\ ~book.started
    /\ \E mesh \in Meshes, doc \in Imports : Write(ReadLegacy(mesh, doc))

Refold ==
    /\ book.started
    /\ \E mesh \in Meshes : Write(StateFromPayload(mesh, book.rows))

RecordSuccess ==
    /\ book.started
    /\ \E mesh \in Meshes : \E s \in Targets, at \in Times, read \in Readings(mesh) :
          Write(AddSuccess(read, HistoryKey(mesh, s), at))

Forget ==
    /\ book.started
    /\ \E mesh \in Meshes : \E s \in Targets, read \in Readings(mesh) :
          /\ HistoryKey(mesh, s) \in DOMAIN read
          /\ Write(Without(read, HistoryKey(mesh, s)))

\* The directory entry reaches the disk.
Settle == settled' = {book} /\ UNCHANGED book

PowerLoss ==
    \E b \in settled : book' = b /\ settled' = {b}

-------------------------------------------------------------------------------
LedgerInit ==
    /\ IsBook(book)
    /\ settled = {book}

LedgerNext == Start \/ Refold \/ RecordSuccess \/ Forget \/ Settle \/ PowerLoss

LedgerSpec == LedgerInit /\ [][LedgerNext]_ledgerVars

===============================================================================
