------------------------------ MODULE YjsHistory ------------------------------
(***************************************************************************)
(* The persisted history of one file: the rows that                        *)
(* server/src/modules/collab/yjs-history.repository.ts keeps in the tables *)
(* YjsUpdate, YjsSnapshot and YjsRewind.                                   *)
(*                                                                         *)
(* A Yjs document is a join-semilattice: applying an update is a union of  *)
(* the operations it carries.  An encoded update, a snapshot and a live    *)
(* document are therefore all sets of operations, members of Op.           *)
(*                                                                         *)
(* Update rows carry the sequences 1, 2, ... without gap or repetition, so *)
(* the table is a TLA+ sequence; module YjsAppend models the transaction   *)
(* that allocates those sequences and shows that it implements Append.     *)
(***************************************************************************)
EXTENDS Integers, Sequences, FiniteSets

CONSTANT Op                 \* the operations an update can carry

VARIABLES
    updates,                \* updates[q]: the update row of sequence q
    snapshots,              \* snapshots[q]: the latest snapshot row of sequence q
    rewinds                 \* the rewind edges, keyed by the sequence they applied

historyVars == <<updates, snapshots, rewinds>>

RewindEdge == [applied : Nat, target : Nat, previousHead : Nat]

HistoryInit ==
    /\ updates = <<>>
    /\ snapshots = [q \in {} |-> {}]
    /\ rewinds = {}

-----------------------------------------------------------------------------
(* What a reader of the history gets.                                      *)

\* orderBy sequence desc, then createdAt desc: the sequence of the newest of
\* the snapshot rows in rows; 0 when there is none.
Newest(rows) ==
    IF rows = {} THEN 0 ELSE CHOOSE p \in rows : \A r \in rows : r <= p

SnapshotBody(q) == IF q \in DOMAIN snapshots THEN snapshots[q] ELSE {}

\* The operations of the update rows with sequences first..last.
UpdateBodies(first, last) == UNION {updates[i] : i \in first..last}

\* The newest sequence: no snapshot row is ahead of the update rows, so that the
\* larger of the two maxima is that of the updates.
HeadSequence == Len(updates)

\* getHydratedStateAtSequence: the newest snapshot not after q, then the
\* updates that follow it up to q.
HydratedAt(q) ==
    LET base == Newest({p \in DOMAIN snapshots : p <= q})
    IN  SnapshotBody(base) \cup UpdateBodies(base + 1, q)

\* getHydratedState, its two queries answered at one instant.
Hydrated ==
    LET base == Newest(DOMAIN snapshots)
    IN  SnapshotBody(base) \cup UpdateBodies(base + 1, HeadSequence)

\* getHydratedState returns null: no snapshot row and no update row.
NoHistory == updates = <<>> /\ DOMAIN snapshots = {}

-----------------------------------------------------------------------------
(* The writes.                                                             *)

AppendUpdate(body) == updates' = Append(updates, body)

SaveSnapshot(q, body) ==
    snapshots' = [p \in DOMAIN snapshots \cup {q} |->
                    IF p = q THEN body ELSE snapshots[p]]

SaveRewind(applied, target, previousHead) ==
    rewinds' = rewinds \cup
        {[applied |-> applied, target |-> target, previousHead |-> previousHead]}
===============================================================================
