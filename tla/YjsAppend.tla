------------------------------- MODULE YjsAppend -------------------------------
(***************************************************************************)
(* How appendUpdate of yjs-history.repository.ts numbers the updates of    *)
(* one file: a database transaction that reads the file's aggregate row,   *)
(* increments it or creates it, and inserts the update row; once more from *)
(* the start if a unique key was violated (P2002).                         *)
(*                                                                         *)
(* The transactions run at PostgreSQL's READ COMMITTED: a statement sees   *)
(* what was committed when it began, a write of a row waits for the        *)
(* transaction that wrote it last to end, and a unique key is violated     *)
(* only by a committed row.  The tables start empty: one migration created *)
(* all of them.                                                            *)
(***************************************************************************)
EXTENDS Integers, Sequences, FiniteSets

CONSTANTS
    Appender,           \* the calls of appendUpdate, each with its own update
    Nobody,             \* not an appender
    MayFail             \* whether a transaction may be aborted or its answer lost

ASSUME AppenderAssumption == Nobody \notin Appender /\ MayFail \in BOOLEAN

VARIABLES
    aggregate,          \* nextSequence of the committed aggregate row; 0: no row
    rows,               \* rows[q]: the appender whose committed row has sequence q
    snapshotRows,       \* the sequences of the committed snapshot rows
    holder,             \* whose uncommitted transaction wrote the aggregate row
    pc,                 \* the statement each call is at
    attempt,            \* 0, then 1 in the retry
    sequence            \* the sequence its transaction computed

appendVars == <<aggregate, rows, snapshotRows, holder, pc, attempt, sequence>>
tables == <<aggregate, rows, snapshotRows>>

Statement == {"findAggregate", "increment", "latestUpdate", "latestSnapshot",
              "createAggregate", "createUpdate", "commit"}
Outcome == {"persisted", "conflict", "failed"}

AppendInit ==
    /\ aggregate = 0 /\ rows = [q \in {} |-> Nobody] /\ snapshotRows = {}
    /\ holder = Nobody
    /\ pc = [a \in Appender |-> "idle"]
    /\ attempt = [a \in Appender |-> 0]
    /\ sequence = [a \in Appender |-> 0]

Last(sequences) ==
    IF sequences = {} THEN 0
    ELSE CHOOSE q \in sequences : \A r \in sequences : r <= q

Proceed(a, statement) == pc' = [pc EXCEPT ![a] = statement]

\* The transaction of a ends: its lock on the aggregate row is released.
Release(a) == holder' = IF holder = a THEN Nobody ELSE holder

AppendStart(a) ==
    /\ pc[a] = "idle"
    /\ Proceed(a, "findAggregate")
    /\ UNCHANGED <<tables, holder, attempt, sequence>>

FindAggregate(a) ==
    /\ pc[a] = "findAggregate"
    /\ Proceed(a, IF aggregate = 0 THEN "latestUpdate" ELSE "increment")
    /\ UNCHANGED <<tables, holder, attempt, sequence>>

\* Fault: nextSequence is read and written by two statements without a lock.
FaultyIncrement(a) ==
    /\ pc[a] = "increment"
    /\ sequence' = [sequence EXCEPT ![a] = aggregate + 1]
    /\ Proceed(a, "createUpdate")
    /\ UNCHANGED <<tables, holder, attempt>>

Increment(a) ==
    /\ pc[a] = "increment" /\ holder = Nobody
    /\ holder' = a
    /\ sequence' = [sequence EXCEPT ![a] = aggregate + 1]
    /\ Proceed(a, "createUpdate")
    /\ UNCHANGED <<tables, attempt>>

\* Without an aggregate the sequence follows the latest update and snapshot.
LatestUpdate(a) ==
    /\ pc[a] = "latestUpdate"
    /\ sequence' = [sequence EXCEPT ![a] = Last(DOMAIN rows) + 1]
    /\ Proceed(a, "latestSnapshot")
    /\ UNCHANGED <<tables, holder, attempt>>

LatestSnapshot(a) ==
    /\ pc[a] = "latestSnapshot"
    /\ sequence' = [sequence EXCEPT ![a] =
                      IF Last(snapshotRows) < @ THEN @ ELSE Last(snapshotRows) + 1]
    /\ Proceed(a, "createAggregate")
    /\ UNCHANGED <<tables, holder, attempt>>

CreateAggregate(a) ==
    /\ pc[a] = "createAggregate" /\ holder = Nobody /\ aggregate = 0
    /\ holder' = a
    /\ Proceed(a, "createUpdate")
    /\ UNCHANGED <<tables, attempt, sequence>>

CreateUpdate(a) ==
    /\ pc[a] = "createUpdate" /\ sequence[a] \notin DOMAIN rows
    /\ Proceed(a, "commit")
    /\ UNCHANGED <<tables, holder, attempt, sequence>>

\* P2002: a committed row has the key.  The transaction is rolled back, and
\* the first time the call starts over.
Conflict(a) ==
    /\ \/ pc[a] = "createAggregate" /\ aggregate # 0
       \/ pc[a] = "createUpdate" /\ sequence[a] \in DOMAIN rows
    /\ Release(a)
    /\ attempt' = [attempt EXCEPT ![a] = 1]
    /\ Proceed(a, IF attempt[a] = 0 THEN "findAggregate" ELSE "conflict")
    /\ UNCHANGED <<tables, sequence>>

\* Fault: a call whose answer was lost starts over.
FaultyCommit(a) ==
    /\ pc[a] = "commit"
    /\ aggregate' = sequence[a]
    /\ rows' = [q \in DOMAIN rows \cup {sequence[a]} |->
                  IF q = sequence[a] THEN a ELSE rows[q]]
    /\ Release(a)
    /\ \/ Proceed(a, "persisted")
       \/ MayFail /\ Proceed(a, "findAggregate")
    /\ UNCHANGED <<snapshotRows, attempt, sequence>>

\* The answer may be lost: the call throws although the row is there.
Commit(a) ==
    /\ pc[a] = "commit"
    /\ aggregate' = sequence[a]
    /\ rows' = [q \in DOMAIN rows \cup {sequence[a]} |->
                  IF q = sequence[a] THEN a ELSE rows[q]]
    /\ Release(a)
    /\ \/ Proceed(a, "persisted")
       \/ MayFail /\ Proceed(a, "failed")
    /\ UNCHANGED <<snapshotRows, attempt, sequence>>

\* Fault: a lost connection leaves its row locked.
FaultyAbort(a) ==
    /\ MayFail /\ pc[a] \in Statement
    /\ Proceed(a, "failed")
    /\ UNCHANGED <<tables, holder, attempt, sequence>>

\* Any other error, a timeout of the transaction or a lost connection.
Abort(a) ==
    /\ MayFail /\ pc[a] \in Statement
    /\ Release(a)
    /\ Proceed(a, "failed")
    /\ UNCHANGED <<tables, attempt, sequence>>

\* saveSnapshot, for the sequence of an update that was persisted.
SaveSnapshotRow(q) ==
    /\ q \notin snapshotRows
    /\ snapshotRows' = snapshotRows \cup {q}
    /\ UNCHANGED <<aggregate, rows, holder, pc, attempt, sequence>>

AppendStep(a) ==
    \/ FindAggregate(a) \/ Increment(a) \/ LatestUpdate(a) \/ LatestSnapshot(a)
    \/ CreateAggregate(a) \/ CreateUpdate(a) \/ Conflict(a) \/ Commit(a)

AppendNext ==
    \/ \E a \in Appender : AppendStart(a) \/ AppendStep(a) \/ Abort(a)
    \/ \E q \in DOMAIN rows : SaveSnapshotRow(q)

AppendSpec == AppendInit /\ [][AppendNext]_appendVars

\* The database answers every statement that it can.
AppendFairSpec == AppendSpec /\ \A a \in Appender : WF_appendVars(AppendStep(a))

-----------------------------------------------------------------------------
AppendTypeOK ==
    /\ aggregate \in Nat
    /\ DOMAIN rows \subseteq Nat /\ rows \in [DOMAIN rows -> Appender]
    /\ snapshotRows \subseteq Nat
    /\ holder \in Appender \cup {Nobody}
    /\ pc \in [Appender -> {"idle"} \cup Statement \cup Outcome]
    /\ attempt \in [Appender -> {0, 1}]
    /\ sequence \in [Appender -> Nat]

\* The committed sequences are 1, 2, ... without a gap, whatever was retried,
\* aborted or lost, and the aggregate names the last one (the readers of the
\* history return null if they meet a gap).
GapFree == DOMAIN rows = 1..aggregate

\* A call that was answered has exactly one row, the one it was told; a call
\* that was retried or lost its answer has one at most (appendUpdate).
StoredOnce ==
    /\ \A a \in Appender :
          pc[a] = "persisted" =>
              sequence[a] \in DOMAIN rows /\ rows[sequence[a]] = a
    /\ \A q, r \in DOMAIN rows : rows[q] = rows[r] => q = r

\* One retry is enough: a call never throws because of a unique key.
RetrySuffices == \A a \in Appender : pc[a] # "conflict"

\* Whoever waits for the aggregate row waits for a transaction that waits for
\* nothing: the lock is never left behind, and who holds it meets no conflict.
HolderProceeds ==
    holder # Nobody =>
        \/ pc[holder] = "createUpdate" /\ sequence[holder] \notin DOMAIN rows
        \/ pc[holder] = "commit"

\* The committed rows are the history of module YjsHistory, and a commit is
\* its AppendUpdate: nothing is ever inserted before the head, or rewritten.
H == INSTANCE YjsHistory WITH
        Op <- Appender,
        updates <- [q \in 1..Cardinality(DOMAIN rows) |-> {rows[q]}],
        snapshots <- [q \in snapshotRows |-> {}],
        rewinds <- {}

ImplementsAppend ==
    [][\E a \in Appender : H!AppendUpdate({a}) /\ ~ \E q \in DOMAIN rows :
                              rows[q] = a]_rows

\* Every call is answered, however many wait for the same row and whichever of
\* them is aborted (no deadlock of the transactions).
AppendAnswered ==
    \A a \in Appender : pc[a] \in Statement ~> pc[a] \in Outcome
================================================================================
