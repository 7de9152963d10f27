--------------------------- MODULE DocSessionProofs ---------------------------
(***************************************************************************)
(* What holds of DocSession for every number of sockets, handlers, edits,  *)
(* sessions and updates.  The invariants below are inductive together.     *)
(***************************************************************************)
EXTENDS DocSession, YjsAppend, FiniteSetTheorems, SequenceTheorems,
        NaturalsInduction, WellFoundedInduction, TLAPS

\* The rows and the sessions name sequences the history has.
HistoryBounded ==
    /\ DOMAIN snapshots \subseteq 0..HeadSequence
    /\ \A sid \in Session : /\ lastSequence[sid] <= HeadSequence
                            /\ inFlight[sid].sequence <= HeadSequence
    /\ \A e \in rewinds : /\ e.target <= e.previousHead
                          /\ e.previousHead < e.applied
                          /\ e.applied <= HeadSequence

\* What a handler carries between its awaits.
TaskOK(t, head) ==
    /\ t \in Task
    /\ t.pc # "idle" => t.sock \in Socket
    /\ t.pc \in UpdatePc \cup SavePc \cup RewindPc => t.sid \in Session
    /\ t.pc \in UpdatePc \cup RewindPc => t.op \in Edit
    /\ t.sequence <= head /\ t.expected <= head
    /\ t.pc \in RewindPc \ {"rewindAuth", "rewindCheck"}
         => t.target <= t.expected
    /\ t.pc = "rewindRecord" => t.expected < t.sequence

HandlersOK == \A h \in Handler : TaskOK(task[h], HeadSequence)

\* Every join under way may still open a session.
OpeningsBounded == opened + Cardinality(Running(JoinPc)) <= MaxOpen

TypeInv == TypeOK /\ HistoryBounded /\ HandlersOK /\ OpeningsBounded

-----------------------------------------------------------------------------
(* The history.                                                            *)

\* The newest row of a table whose sequences do not exceed n.
LEMMA NewestLemma ==
    ASSUME NEW n \in Nat, NEW held \in SUBSET (0..n)
    PROVE  /\ Newest(held) \in 0..n
           /\ held # {} => Newest(held) \in held
           /\ \A r \in held : r <= Newest(held)
<1>1. CASE held = {}
  BY <1>1 DEF Newest
<1>2. CASE held # {}
  <2> DEFINE distances == {d \in Nat : n - d \in held}
  <2>1. distances # {}
    <3>1. PICK r \in held : TRUE
      BY <1>2
    <3>2. n - r \in Nat /\ n - (n - r) = r
      OBVIOUS
    <3> QED BY <3>1, <3>2
  <2>2. PICK d \in distances : \A e \in distances : d <= e
    <3> DEFINE R == OpToRel(<, Nat)
    <3>1. IsWellFoundedOn(R, Nat)
      BY NatLessThanWellFounded
    <3>2. \A x, y \in Nat : x < y => <<x, y>> \in R
      BY DEF OpToRel
    <3>3. distances \subseteq Nat
      OBVIOUS
    <3> HIDE DEF distances, R
    <3>4. PICK d \in distances : \A e \in distances : ~ (<<e, d>> \in R)
      BY <2>1, <3>1, <3>3, WFMin
    <3>5. \A e \in distances : ~ (e < d)
      BY <3>2, <3>3, <3>4
    <3> QED BY <3>3, <3>5
  <2>4. \A r \in held : n - r \in distances
    BY DEF distances
  <2>5. n - d \in held /\ \A r \in held : r <= n - d
    BY <2>2, <2>4
  <2>6. Newest(held) \in held /\ \A r \in held : r <= Newest(held)
    BY <1>2, <2>5 DEF Newest
  <2> QED BY <2>6
<1> QED BY <1>1, <1>2

\* What the history rebuilds consists of operations.
LEMMA BodiesType ==
    ASSUME HistoryTypeOK, NEW first \in Nat \ {0}, NEW last \in 0..HeadSequence
    PROVE  UpdateBodies(first, last) \subseteq Op
<1>1. \A i \in first..last : updates[i] \in SUBSET Op
  BY DEF HistoryTypeOK, HeadSequence
<1> QED BY <1>1 DEF UpdateBodies

LEMMA SnapshotType ==
    ASSUME HistoryTypeOK, NEW q
    PROVE  SnapshotBody(q) \subseteq Op
BY DEF HistoryTypeOK, SnapshotBody

LEMMA HydratedAtType ==
    ASSUME HistoryTypeOK, HistoryBounded, NEW q \in 0..HeadSequence
    PROVE  HydratedAt(q) \subseteq Op
<1> DEFINE base == Newest({p \in DOMAIN snapshots : p <= q})
<1>1. HeadSequence \in Nat
  BY DEF HistoryTypeOK, HeadSequence
<1>2. {p \in DOMAIN snapshots : p <= q} \in SUBSET (0..q)
  BY <1>1 DEF HistoryBounded
<1>3. base \in 0..q
  BY <1>1, <1>2, NewestLemma
<1> HIDE DEF base
<1>4. UpdateBodies(base + 1, q) \subseteq Op
  BY <1>1, <1>3, BodiesType
<1> QED BY <1>4, SnapshotType DEF HydratedAt, base

-----------------------------------------------------------------------------
(* The steps of a handler.                                                 *)

LEMMA BecomeOK ==
    ASSUME HandlersOK, task \in [Handler -> Task],
           HeadSequence \in Nat, HeadSequence' \in Nat,
           HeadSequence <= HeadSequence',
           NEW h \in Handler, NEW t, TaskOK(t, HeadSequence'), Become(h, t)
    PROVE  HandlersOK' /\ task' \in [Handler -> Task]
<1> DEFINE n == HeadSequence  m == HeadSequence'
<1>1. task' \in [Handler -> Task]
  BY DEF Become, TaskOK
<1>2. ASSUME NEW g \in Handler PROVE TaskOK(task'[g], m)
  <2>1. CASE g = h
    BY <2>1 DEF Become
  <2>2. CASE g # h
    <3>1. task'[g] = task[g] /\ task[g] \in Task /\ TaskOK(task[g], n)
      BY <2>2 DEF Become, HandlersOK
    <3> HIDE DEF n, m
    <3>2. n \in Nat /\ m \in Nat /\ n <= m
      BY DEF n, m
    <3> QED BY <3>1, <3>2 DEF TaskOK, Task
  <2> QED BY <2>1, <2>2
<1> QED BY <1>1, <1>2 DEF HandlersOK

\* No join starts: as many sessions can still be opened.
LEMMA JoinsBounded ==
    ASSUME OpeningsBounded, opened \in Nat, UNCHANGED opened,
           Running(JoinPc)' \subseteq Running(JoinPc)
    PROVE  OpeningsBounded'
<1>1. IsFiniteSet(Running(JoinPc))
  <2>1. Running(JoinPc) \in SUBSET Handler
    BY DEF Running
  <2> QED BY <2>1, ConstantsAssumption, FS_Subset
<1>2. Cardinality(Running(JoinPc)') <= Cardinality(Running(JoinPc))
  BY <1>1, FS_Subset
<1>3. Cardinality(Running(JoinPc)) \in Nat /\ Cardinality(Running(JoinPc)') \in Nat
  BY <1>1, FS_Subset, FS_CardinalityType
<1> DEFINE m == Cardinality(Running(JoinPc))  n == Cardinality(Running(JoinPc)')
<1>4. opened + m <= MaxOpen /\ n <= m /\ m \in Nat /\ n \in Nat /\ opened' = opened
  BY <1>2, <1>3 DEF OpeningsBounded
<1>5. opened' + n <= MaxOpen
  <2> HIDE DEF m, n
  <2> QED BY <1>4, ConstantsAssumption
<1> QED BY <1>5 DEF OpeningsBounded, n

LEMMA NoJoinStarts ==
    ASSUME task \in [Handler -> Task], NEW h \in Handler, NEW t, Become(h, t),
           t.pc \in JoinPc => task[h].pc \in JoinPc
    PROVE  Running(JoinPc)' \subseteq Running(JoinPc)
BY DEF Running, Become

\* A step that moves one handler and leaves everything else alone.
LEMMA HandlerOnly ==
    ASSUME TypeInv, NEW h \in Handler, NEW t, Become(h, t),
           TaskOK(t, HeadSequence),
           t.pc \in JoinPc => task[h].pc \in JoinPc,
           UNCHANGED <<historyVars, accessVars, roomVars, sessionVars,
                       clientVars, witnessVars>>
    PROVE  TypeInv'
<1> USE DEF TypeInv, TypeOK
<1>1. HistoryTypeOK' /\ RoomTypeOK' /\ SessionTypeOK' /\ ClientTypeOK'
  BY DEF historyVars, accessVars, roomVars, sessionVars, clientVars,
         witnessVars, HistoryTypeOK, RoomTypeOK, SessionTypeOK, ClientTypeOK
<1>2. HistoryBounded' /\ HeadSequence' = HeadSequence /\ UNCHANGED opened
  BY DEF historyVars, sessionVars, HistoryBounded, HeadSequence
<1>3. HeadSequence \in Nat /\ opened \in Nat
  BY DEF HistoryTypeOK, HeadSequence, SessionTypeOK, Session
<1>4. HandlersOK' /\ task' \in [Handler -> Task]
  BY <1>2, <1>3, BecomeOK
<1>5. OpeningsBounded'
  BY <1>2, <1>3, JoinsBounded, NoJoinStarts
<1> QED BY <1>1, <1>2, <1>4, <1>5

LEMMA IdleOK ==
    ASSUME NEW n \in Nat
    PROVE  TaskOK(Idle, n)
BY DEF TaskOK, Idle, NewTask, Task, None, UpdatePc, SavePc, RewindPc

\* What a handler starts with.
LEMMA StartOK ==
    ASSUME NEW n \in Nat,
           NEW at \in {"joinAuth", "updateAuth", "saveAuth", "rewindAuth"},
           NEW sock \in Socket, NEW sid \in Session \cup {None},
           NEW op \in Edit \cup {0}, NEW expected \in 0..n, NEW target \in Nat,
           at # "joinAuth" => sid \in Session,
           at \in {"updateAuth", "rewindAuth"} => op \in Edit
    PROVE  TaskOK(NewTask(at, sock, sid, op, expected, target), n)
<1> DEFINE u == NewTask(at, sock, sid, op, expected, target)
<1>1. u \in Task
  <2>1. expected \in Nat
    OBVIOUS
  <2>2. at \in JoinPc \cup UpdatePc \cup SavePc \cup RewindPc
    BY DEF JoinPc, UpdatePc, SavePc, RewindPc
  <2> QED BY <2>1, <2>2 DEF Task, NewTask
<1>2. /\ u.pc = at /\ u.sock = sock /\ u.sid = sid /\ u.op = op
      /\ u.expected = expected /\ u.sequence = 0
  BY DEF NewTask
<1> HIDE DEF u
<1>3. TaskOK(u, n)
  BY <1>1, <1>2 DEF TaskOK, UpdatePc, SavePc, RewindPc
<1> QED BY <1>3 DEF u

LEMMA HandlerOK ==
    ASSUME TypeInv, NEW h \in Handler
    PROVE  /\ TaskOK(task[h], HeadSequence) /\ task[h] \in Task
           /\ HeadSequence \in Nat
BY DEF TypeInv, TypeOK, HandlersOK, TaskOK, HistoryTypeOK, HeadSequence

\* A handler that goes on to pc and keeps what it carries.
LEMMA MoveOK ==
    ASSUME NEW t, NEW n, TaskOK(t, n), NEW at,
           \/ at \in JoinPc /\ t.pc \in JoinPc
           \/ at \in UpdatePc /\ t.pc \in UpdatePc
           \/ at \in SavePc /\ t.pc \in SavePc
           \/ /\ at \in RewindPc \ {"rewindRecord"} /\ t.pc \in RewindPc
              /\ at \notin {"rewindAuth", "rewindCheck"} =>
                    t.target <= t.expected
    PROVE  TaskOK([t EXCEPT !.pc = at], n)
BY DEF TaskOK, Task, OpenPc, JoinPc, UpdatePc, SavePc, RewindPc

\* A handler that opens a session and goes on with what it read.
LEMMA ReadOK ==
    ASSUME NEW n \in Nat, NEW t, TaskOK(t, n), t.pc \in OpenPc,
           NEW at \in OpenPc, NEW position \in 0..n, NEW body \in SUBSET Op
    PROVE  TaskOK([t EXCEPT !.pc = at, !.sequence = position, !.body = body], n)
<1> DEFINE u == [t EXCEPT !.pc = at, !.sequence = position, !.body = body]
<1>1. u \in Task
  <2>1. t \in Task /\ position \in Nat /\ at \in JoinPc
    BY DEF TaskOK, JoinPc
  <2> QED BY <2>1 DEF Task
<1>2. /\ u.pc = at /\ u.sequence = position
      /\ u.sock = t.sock /\ u.expected = t.expected
  BY DEF TaskOK, Task
<1> HIDE DEF u
<1>3. TaskOK(u, n)
  BY <1>1, <1>2 DEF TaskOK, OpenPc, UpdatePc, SavePc, RewindPc
<1> QED BY <1>3 DEF u

LEMMA AuthorizeInv ==
    ASSUME TypeInv, NEW h \in Handler, Authorize(h)
    PROVE  TypeInv'
<1> DEFINE t == task[h]
<1>1. TaskOK(t, HeadSequence) /\ t \in Task /\ HeadSequence \in Nat
  BY HandlerOK
<1>2. PICK u : /\ Become(h, u) 
               /\ \/ u = Idle
                  \/ t.pc = "updateAuth" /\ u = [t EXCEPT !.pc = "updateEvict"]
                  \/ t.pc = "joinAuth" /\ u = [t EXCEPT !.pc = "joinOpen"]
                  \/ t.pc = "updateAuth" /\ u = [t EXCEPT !.pc = "updateApply"]
                  \/ t.pc = "saveAuth" /\ u = [t EXCEPT !.pc = "saveEncode"]
                  \/ t.pc = "rewindAuth" /\ u = [t EXCEPT !.pc = "rewindCheck"]
  BY DEF Authorize
<1>3. TaskOK(u, HeadSequence)
  BY <1>1, <1>2, MoveOK, IdleOK DEF JoinPc, UpdatePc, SavePc, RewindPc
<1>4. u.pc \in JoinPc => t.pc \in JoinPc
  BY <1>1, <1>2 DEF JoinPc, OpenPc, Task, Idle, NewTask
<1> QED BY <1>2, <1>3, <1>4, HandlerOnly DEF Authorize

\* The steps of a join that only read.
LEMMA JoinReadsInv ==
    ASSUME TypeInv, NEW h \in Handler,
           JoinPending(h) \/ OpenSnapshot(h) \/ OpenUpdates(h)
    PROVE  TypeInv'
<1> DEFINE t == task[h]
<1>1. TaskOK(t, HeadSequence) /\ t \in Task /\ HeadSequence \in Nat
  BY HandlerOK
<1>2. HistoryTypeOK /\ HistoryBounded
  BY DEF TypeInv, TypeOK
<1>3. CASE JoinPending(h)
  <2>1. TaskOK([t EXCEPT !.pc = "joinWait"], HeadSequence)
    BY <1>1, <1>3, MoveOK DEF JoinPending, JoinPc
  <2> QED BY <1>1, <1>3, <2>1, HandlerOnly DEF JoinPending, Goto, JoinPc, Task
<1>4. CASE OpenSnapshot(h)
  <2> DEFINE base == Newest(DOMAIN snapshots)
             u == [t EXCEPT !.pc = "openUpdates", !.sequence = base,
                            !.body = SnapshotBody(base)]
             v == [t EXCEPT !.pc = "openContent"]
  <2>1. base \in 0..HeadSequence /\ SnapshotBody(base) \in SUBSET Op
    BY <1>1, <1>2, NewestLemma, SnapshotType DEF HistoryBounded
  <2>2. TaskOK(u, HeadSequence)
    <3> HIDE DEF base
    <3> QED BY <1>1, <1>4, <2>1, ReadOK DEF OpenSnapshot, OpenPc
  <2>3. TaskOK(v, HeadSequence)
    BY <1>1, <1>4, MoveOK DEF OpenSnapshot, OpenPc, JoinPc
  <2>4. t.pc \in JoinPc
    BY <1>4 DEF OpenSnapshot, OpenPc, JoinPc
  <2>5. Become(h, u) \/ Become(h, v)
    BY <1>4 DEF OpenSnapshot
  <2> QED BY <1>4, <2>2, <2>3, <2>4, <2>5, HandlerOnly DEF OpenSnapshot
<1>5. CASE OpenUpdates(h)
  <2> DEFINE base == t.sequence
             head == IF HeadSequence > base THEN HeadSequence ELSE base
             u == [t EXCEPT !.pc = "openInstall", !.sequence = head,
                            !.body = @ \cup UpdateBodies(base + 1, head)]
             v == [t EXCEPT !.pc = "openContent"]
  <2>1. base \in 0..HeadSequence /\ head = HeadSequence
    BY <1>1 DEF TaskOK, Task
  <2>2. UpdateBodies(base + 1, head) \in SUBSET Op
    <3> HIDE DEF base, head
    <3> QED BY <1>1, <1>2, <2>1, BodiesType
  <2>3. TaskOK(u, HeadSequence)
    <3> DEFINE body == t.body \cup UpdateBodies(base + 1, head)
    <3>1. body \in SUBSET Op /\ head \in 0..HeadSequence
      BY <1>1, <2>1, <2>2 DEF Task
    <3> HIDE DEF base, head, body
    <3>2. t.pc \in OpenPc /\ "openInstall" \in OpenPc
      BY <1>5 DEF OpenUpdates, OpenPc
    <3>3. TaskOK([t EXCEPT !.pc = "openInstall", !.sequence = head,
                           !.body = body], HeadSequence)
      BY <1>1, <3>1, <3>2, ReadOK
    <3> QED BY <3>3 DEF body
  <2>4. TaskOK(v, HeadSequence)
    BY <1>1, <1>5, MoveOK DEF OpenUpdates, OpenPc, JoinPc
  <2>5. t.pc \in JoinPc
    BY <1>5 DEF OpenUpdates, OpenPc, JoinPc
  <2>6. Become(h, u) \/ Become(h, v)
    BY <1>5 DEF OpenUpdates
  <2> QED BY <1>5, <2>3, <2>4, <2>5, <2>6, HandlerOnly DEF OpenUpdates
<1> QED BY <1>3, <1>4, <1>5

\* The steps of a save that touch nothing but the handler.
LEMMA SaveReadsInv ==
    ASSUME TypeInv, NEW h \in Handler,
           SaveSkip(h) \/ SaveEncode(h) \/ SaveFails(h)
    PROVE  TypeInv'
<1> DEFINE t == task[h]
<1>1. TaskOK(t, HeadSequence) /\ t \in Task /\ HeadSequence \in Nat
  BY HandlerOK
<1>2. TaskOK(Idle, HeadSequence) /\ Idle.pc \notin JoinPc
  BY <1>1, IdleOK DEF Idle, NewTask, JoinPc, OpenPc
<1>3. CASE SaveSkip(h) \/ SaveFails(h)
  BY <1>2, <1>3, HandlerOnly DEF SaveSkip, SaveFails, Finish
<1>4. CASE SaveEncode(h)
  <2> DEFINE body == doc[t.sid]
             u == [t EXCEPT !.pc = "saveAppend", !.body = body]
  <2>1. body \in SUBSET Op
    BY <1>1, <1>4 DEF TypeInv, TypeOK, SessionTypeOK, TaskOK, SaveEncode, SavePc
  <2>2. TaskOK(u, HeadSequence) /\ u.pc \notin JoinPc
    <3> HIDE DEF body
    <3> QED BY <1>1, <1>4, <2>1 DEF TaskOK, Task, SaveEncode, OpenPc, JoinPc,
                                    UpdatePc, SavePc, RewindPc
  <2> QED BY <1>4, <2>2, HandlerOnly DEF SaveEncode
<1> QED BY <1>3, <1>4

\* The steps of a rewind that touch nothing but the handler.
LEMMA RewindReadsInv ==
    ASSUME TypeInv, NEW h \in Handler,
           RewindCheck(h) \/ RewindTarget(h) \/ RewindReject(h)
    PROVE  TypeInv'
<1> DEFINE t == task[h]
<1>1. TaskOK(t, HeadSequence) /\ t \in Task /\ HeadSequence \in Nat
  BY HandlerOK
<1>2. TaskOK(Idle, HeadSequence) /\ Idle.pc \notin JoinPc
  BY <1>1, IdleOK DEF Idle, NewTask, JoinPc, OpenPc
<1>3. CASE RewindReject(h)
  BY <1>2, <1>3, HandlerOnly DEF RewindReject, Finish
<1>4. CASE RewindCheck(h)
  <2> DEFINE u == [t EXCEPT !.pc = "rewindTarget"]
  <2>1. TaskOK(u, HeadSequence) /\ u.pc \notin JoinPc
    BY <1>1, <1>4, MoveOK DEF RewindCheck, HeadIsExpected, Task, RewindPc,
                              JoinPc, OpenPc
  <2> QED BY <1>4, <2>1, HandlerOnly DEF RewindCheck, Goto
<1>5. CASE RewindTarget(h)
  <2> DEFINE u == [t EXCEPT !.pc = "rewindSnapshot"]
  <2>1. t.target <= t.expected
    BY <1>1, <1>5 DEF TaskOK, RewindTarget, RewindPc
  <2>2. TaskOK(u, HeadSequence) /\ u.pc \notin JoinPc
    BY <1>1, <1>5, <2>1, MoveOK DEF RewindTarget, Task, RewindPc, JoinPc, OpenPc
  <2> QED BY <1>5, <2>2, HandlerOnly DEF RewindTarget, Goto
<1> QED BY <1>3, <1>4, <1>5

\* Everything a socket in the room can start.
LEMMA StartsInv ==
    ASSUME TypeInv, NEW s \in Socket, NEW h \in Handler,
           UpdateStart(s, h) \/ SaveStart(s, h) \/ RewindStart(s, h)
    PROVE  TypeInv'
<1> USE DEF TypeInv, TypeOK
<1>1. HeadSequence \in Nat /\ current \in Session
  BY HandlerOK DEF HistoryTypeOK, HeadSequence, RoomTypeOK, UpdateStart,
                   SaveStart, RewindStart, InRoom
<1>2. CASE SaveStart(s, h)
  <2> DEFINE u == NewTask("saveAuth", s, current, 0, 0, 0)
  <2>1. TaskOK(u, HeadSequence) /\ u.pc \notin JoinPc
    BY <1>1, StartOK DEF NewTask, JoinPc, OpenPc
  <2> QED BY <1>2, <2>1, HandlerOnly DEF SaveStart, Start
<1>3. CASE UpdateStart(s, h) \/ RewindStart(s, h)
  <2>1. edits + 1 \in Edit /\ edits' \in Edit
    BY <1>3, ConstantsAssumption DEF UpdateStart, RewindStart, ClientTypeOK,
                                     Edit
  <2>2. PICK u : Become(h, u) /\ TaskOK(u, HeadSequence) /\ u.pc \notin JoinPc
    <3>1. CASE UpdateStart(s, h)
      <4> DEFINE u == NewTask("updateAuth", s, current, edits + 1, 0, 0)
      <4>1. TaskOK(u, HeadSequence)
        BY <1>1, <2>1, StartOK
      <4>2. u.pc \notin JoinPc
        BY DEF NewTask, JoinPc, OpenPc
      <4> QED BY <3>1, <4>1, <4>2 DEF UpdateStart, Start
    <3>2. CASE RewindStart(s, h)
      <4>1. PICK expected \in 1..HeadSequence, target \in 1..HeadSequence :
               Become(h, NewTask("rewindAuth", s, current, edits + 1, expected,
                                 target))
        BY <3>2 DEF RewindStart, Start
      <4> DEFINE u == NewTask("rewindAuth", s, current, edits + 1, expected,
                              target)
      <4>2. expected \in 0..HeadSequence /\ target \in Nat
        BY <1>1
      <4>3. TaskOK(u, HeadSequence)
        BY <1>1, <2>1, <4>2, StartOK
      <4>4. u.pc \notin JoinPc
        BY DEF NewTask, JoinPc, OpenPc
      <4> QED BY <4>1, <4>3, <4>4
    <3> QED BY <1>3, <3>1, <3>2
  <2>3. HandlersOK' /\ task' \in [Handler -> Task] /\ UNCHANGED opened
        /\ Running(JoinPc)' \subseteq Running(JoinPc)
    <3>1. HeadSequence' = HeadSequence /\ UNCHANGED opened
      BY <1>3 DEF UpdateStart, RewindStart, historyVars, sessionVars,
                  HeadSequence
    <3> QED BY <1>1, <2>2, <3>1, BecomeOK, NoJoinStarts
  <2>4. view' \in [Socket -> SUBSET Op]
    <3>1. edits + 1 \in Op /\ view \in [Socket -> SUBSET Op]
      BY <2>1, ConstantsAssumption DEF ClientTypeOK
    <3>2. view' = view \/ view' = [view EXCEPT ![s] = @ \cup {edits + 1}]
      BY <1>3 DEF UpdateStart, RewindStart
    <3> QED BY <3>1, <3>2
  <2>5. HistoryTypeOK' /\ HistoryBounded' /\ RoomTypeOK' /\ SessionTypeOK'
    BY <1>3 DEF UpdateStart, RewindStart, historyVars, accessVars, roomVars,
                sessionVars, HistoryTypeOK, HistoryBounded, HeadSequence,
                RoomTypeOK, SessionTypeOK
  <2>6. ClientTypeOK'
    BY <1>3, <2>1, <2>4 DEF UpdateStart, RewindStart, witnessVars, ClientTypeOK
  <2>7. OpeningsBounded'
    BY <2>3, JoinsBounded DEF SessionTypeOK, Session
  <2> QED BY <2>3, <2>5, <2>6, <2>7
<1> QED BY <1>2, <1>3

\* A join is only admitted while a session can still be opened for it.
LEMMA JoinStartInv ==
    ASSUME TypeInv, NEW s \in Socket, NEW h \in Handler, JoinStart(s, h)
    PROVE  TypeInv'
<1> USE DEF TypeInv, TypeOK
<1> DEFINE u == NewTask("joinAuth", s, None, 0, 0, 0)
<1>1. HeadSequence \in Nat /\ opened \in Nat
  BY HandlerOK DEF SessionTypeOK, Session
<1>2. TaskOK(u, HeadSequence)
  BY <1>1, StartOK DEF None
<1>3. /\ HistoryTypeOK' /\ HistoryBounded' /\ RoomTypeOK' /\ SessionTypeOK'
      /\ ClientTypeOK' /\ HeadSequence' = HeadSequence /\ UNCHANGED opened
  BY DEF JoinStart, historyVars, accessVars, roomVars, sessionVars, clientVars,
         witnessVars, HistoryTypeOK, HistoryBounded, HeadSequence, RoomTypeOK,
         SessionTypeOK, ClientTypeOK
<1>4. HandlersOK' /\ task' \in [Handler -> Task]
  BY <1>1, <1>2, <1>3, BecomeOK DEF JoinStart, Start
<1>5. OpeningsBounded'
  <2>1. Running(JoinPc)' \subseteq Running(JoinPc) \cup {h}
    BY DEF JoinStart, Start, Become, Running
  <2>2. IsFiniteSet(Running(JoinPc)) /\ Cardinality(Running(JoinPc)) \in Nat
    <3>1. Running(JoinPc) \in SUBSET Handler
      BY DEF Running
    <3> QED BY <3>1, ConstantsAssumption, FS_Subset, FS_CardinalityType
  <2>3. /\ IsFiniteSet(Running(JoinPc) \cup {h})
        /\ Cardinality(Running(JoinPc) \cup {h}) \in Nat
        /\ Cardinality(Running(JoinPc) \cup {h}) <= Cardinality(Running(JoinPc)) + 1
    BY <2>2, FS_AddElement
  <2>4. /\ Cardinality(Running(JoinPc)') \in Nat
        /\ Cardinality(Running(JoinPc)') <= Cardinality(Running(JoinPc) \cup {h})
    BY <2>1, <2>3, FS_Subset, FS_CardinalityType
  <2>5. opened + Cardinality(Running(JoinPc)) < MaxOpen
    BY DEF JoinStart
  <2> DEFINE k == Cardinality(Running(JoinPc))
             m == Cardinality(Running(JoinPc) \cup {h})
             n == Cardinality(Running(JoinPc)')
  <2>6. /\ k \in Nat /\ m \in Nat /\ n \in Nat /\ opened' = opened
        /\ m <= k + 1 /\ n <= m /\ opened + k < MaxOpen
    BY <1>3, <2>2, <2>3, <2>4, <2>5
  <2>7. opened' + n <= MaxOpen
    <3> HIDE DEF k, m, n
    <3> QED BY <1>1, <2>6, ConstantsAssumption
  <2> QED BY <2>7 DEF OpeningsBounded, n
<1> QED BY <1>3, <1>4, <1>5

\* A step that moves no handler and appends nothing.
LEMMA SameHandlers ==
    ASSUME TypeInv, UNCHANGED <<task, updates, opened>>
    PROVE  /\ HandlersOK' /\ task' \in [Handler -> Task] /\ OpeningsBounded'
           /\ HeadSequence' = HeadSequence
BY DEF TypeInv, TypeOK, HandlersOK, OpeningsBounded, HeadSequence, Running

\* A step that ends the handlers hs at once.
LEMMA HandlersEnd ==
    ASSUME TypeInv, NEW hs \in SUBSET Handler, UNCHANGED updates,
           task' = [g \in Handler |-> IF g \in hs THEN Idle ELSE task[g]]
    PROVE  /\ HandlersOK' /\ task' \in [Handler -> Task]
           /\ HeadSequence' = HeadSequence
           /\ Running(JoinPc)' \subseteq Running(JoinPc) \ hs
<1>1. HeadSequence \in Nat /\ HeadSequence' = HeadSequence
  BY DEF TypeInv, TypeOK, HistoryTypeOK, HeadSequence
<1>2. \A g \in Handler : TaskOK(task'[g], HeadSequence)
  BY <1>1, IdleOK DEF TypeInv, HandlersOK
<1>3. Idle.pc \notin JoinPc
  BY DEF Idle, NewTask, JoinPc, OpenPc
<1>4. task' \in [Handler -> Task]
  BY <1>2 DEF TaskOK
<1> QED BY <1>1, <1>2, <1>3, <1>4 DEF HandlersOK, Running

LEMMA RemoveFromRoomInv ==
    ASSUME TypeInv, NEW s \in Socket, RemoveFromRoom(s),
           UNCHANGED <<allowed, pending, edits, witnessVars>>,
           connected' \subseteq connected
    PROVE  RoomTypeOK' /\ ClientTypeOK'
<1>1. view' \in [Socket -> SUBSET Op]
  <2>1. view \in [Socket -> SUBSET Op] /\ {} \in SUBSET Op
    BY DEF TypeInv, TypeOK, ClientTypeOK
  <2>2. view' = [view EXCEPT ![s] = {}]
    BY DEF RemoveFromRoom, Remove
  <2> QED BY <2>1, <2>2
<1> QED BY <1>1 DEF TypeInv, TypeOK, RemoveFromRoom, Remove, RoomTypeOK,
                    ClientTypeOK,
                    witnessVars

LEMMA SocketsInv ==
    ASSUME TypeInv, NEW s \in Socket,
           Connect(s) \/ Disconnect(s) \/ Revoke(s) \/ Grant(s) \/ Leave(s)
    PROVE  TypeInv'
<1> USE DEF TypeInv, TypeOK
<1>1. UNCHANGED <<historyVars, sessionVars, task>>
  BY DEF Connect, Disconnect, Revoke, Grant, Leave
<1>2. /\ HandlersOK' /\ task' \in [Handler -> Task] /\ OpeningsBounded'
      /\ HeadSequence' = HeadSequence
  BY <1>1, SameHandlers DEF historyVars, sessionVars
<1>3. HistoryTypeOK' /\ HistoryBounded' /\ SessionTypeOK'
  BY <1>1, <1>2 DEF historyVars, sessionVars, HistoryTypeOK, HistoryBounded,
                    SessionTypeOK
<1>4. RoomTypeOK' /\ ClientTypeOK'
  <2>1. CASE Connect(s) \/ Revoke(s)
    BY <2>1 DEF Connect, Revoke, roomVars, clientVars, witnessVars,
                RoomTypeOK, ClientTypeOK
  <2>4. CASE Grant(s)
    <3>1. forked' \in BOOLEAN
      BY <2>4 DEF Grant, ClientTypeOK
    <3> QED BY <2>4, <3>1 DEF Grant, roomVars, clientVars, RoomTypeOK,
                              ClientTypeOK
  <2>2. CASE Leave(s)
    BY <2>2, RemoveFromRoomInv DEF Leave, accessVars
  <2>3. CASE Disconnect(s)
    <3>1. CASE s \in joined /\ RemoveFromRoom(s)
      BY <2>3, <3>1, RemoveFromRoomInv DEF Disconnect
    <3>2. CASE ~(s \in joined /\ RemoveFromRoom(s))
      BY <2>3, <3>2 DEF Disconnect, RoomTypeOK, ClientTypeOK, witnessVars
    <3> QED BY <3>1, <3>2
  <2> QED BY <2>1, <2>2, <2>3, <2>4
<1> QED BY <1>2, <1>3, <1>4

LEMMA JoinCreateInv ==
    ASSUME TypeInv, NEW h \in Handler, JoinCreate(h)
    PROVE  TypeInv'
<1> USE DEF TypeInv, TypeOK
<1> DEFINE u == [task[h] EXCEPT !.pc = "openSnapshot"]
<1>1. /\ HistoryTypeOK' /\ HistoryBounded' /\ RoomTypeOK' /\ SessionTypeOK'
      /\ ClientTypeOK' /\ HeadSequence' = HeadSequence /\ UNCHANGED opened
  BY DEF JoinCreate, historyVars, accessVars, sessionVars, clientVars,
         witnessVars, HistoryTypeOK, HistoryBounded, HeadSequence, RoomTypeOK,
         SessionTypeOK, ClientTypeOK
<1>2. TaskOK(u, HeadSequence) /\ HeadSequence \in Nat /\ task[h].pc \in JoinPc
  BY HandlerOK, MoveOK DEF JoinCreate, JoinPc, OpenPc
<1>3. Become(h, u)
  BY DEF JoinCreate, Goto
<1> HIDE DEF u
<1>4. HandlersOK' /\ task' \in [Handler -> Task]
  BY <1>1, <1>2, <1>3, BecomeOK
<1>5. OpeningsBounded'
  BY <1>1, <1>2, <1>3, JoinsBounded, NoJoinStarts DEF SessionTypeOK, Session
<1> QED BY <1>1, <1>4, <1>5

\* Everybody who asked is let into session sid.
LEMMA AttachInv ==
    ASSUME TypeInv, NEW hs \in SUBSET Handler, NEW sid \in Session,
           NEW body \in SUBSET Op, Attach(hs, sid, body),
           \A g \in hs : task[g].pc # "idle",
           UNCHANGED <<updates, accessVars, dirty, edits, witnessVars>>,
           pending' \in BOOLEAN
    PROVE  /\ RoomTypeOK' /\ ClientTypeOK' /\ HandlersOK'
           /\ task' \in [Handler -> Task] /\ HeadSequence' = HeadSequence
           /\ Running(JoinPc)' \subseteq Running(JoinPc) \ hs
<1> USE DEF TypeInv, TypeOK
<1> DEFINE socks == {task[g].sock : g \in hs}
<1>1. socks \in SUBSET Socket
  BY HandlerOK DEF TaskOK
<1> HIDE DEF socks
<1>2. /\ current' = sid /\ joined' = joined \cup socks
      /\ clients' = clients \cup socks /\ authorized' = authorized \cup socks
      /\ view' = [s \in Socket |-> IF s \in socks \cap connected
                                      THEN view[s] \cup body ELSE view[s]]
      /\ task' = [g \in Handler |-> IF g \in hs THEN Idle ELSE task[g]]
  BY DEF Attach, socks
<1>3. RoomTypeOK'
  BY <1>1, <1>2 DEF RoomTypeOK, accessVars
<1>4. ClientTypeOK'
  <2>1. view' \in [Socket -> SUBSET Op]
    BY <1>2 DEF ClientTypeOK
  <2> QED BY <2>1 DEF ClientTypeOK, witnessVars
<1>5. /\ HandlersOK' /\ task' \in [Handler -> Task] /\ HeadSequence' = HeadSequence
      /\ Running(JoinPc)' \subseteq Running(JoinPc) \ hs
  BY <1>2, HandlersEnd
<1> QED BY <1>3, <1>4, <1>5

LEMMA JoinExistingInv ==
    ASSUME TypeInv, NEW h \in Handler, JoinExisting(h)
    PROVE  TypeInv'
<1> USE DEF TypeInv, TypeOK
<1>1. current \in Session /\ doc[current] \in SUBSET Op
  BY DEF JoinExisting, RoomTypeOK, SessionTypeOK
<1>2. UNCHANGED <<historyVars, accessVars, pending, dirty, sessionVars, edits,
                  witnessVars>>
  BY DEF JoinExisting
<1>3. UNCHANGED <<updates, opened>> /\ pending' \in BOOLEAN
  BY <1>2 DEF historyVars, sessionVars, RoomTypeOK
<1>4. /\ RoomTypeOK' /\ ClientTypeOK' /\ HandlersOK'
      /\ task' \in [Handler -> Task] /\ HeadSequence' = HeadSequence
      /\ Running(JoinPc)' \subseteq Running(JoinPc) \ {h}
  BY <1>1, <1>2, <1>3, AttachInv DEF JoinExisting
<1>5. HistoryTypeOK' /\ HistoryBounded' /\ SessionTypeOK'
  BY <1>2, <1>4 DEF historyVars, sessionVars, HistoryTypeOK, HistoryBounded,
                    SessionTypeOK
<1>6. OpeningsBounded'
  BY <1>3, <1>4, JoinsBounded DEF SessionTypeOK, Session
<1> QED BY <1>4, <1>5, <1>6

LEMMA InstallInv ==
    ASSUME TypeInv, NEW h \in Handler, task[h].pc \in OpenPc,
           NEW body \in SUBSET Op, NEW position \in 0..HeadSequence,
           Install(h, body, position)
    PROVE  TypeInv'
<1> USE DEF TypeInv, TypeOK
<1> DEFINE sid == opened + 1
           hs == {h} \cup Running({"joinWait"})
           k == Cardinality(Running(JoinPc))
<1>1. HeadSequence \in Nat /\ opened \in Nat /\ k \in Nat /\ k > 0
      /\ IsFiniteSet(Running(JoinPc)) /\ h \in Running(JoinPc)
  <2>1. h \in Running(JoinPc)
    BY DEF Running, JoinPc
  <2>2. IsFiniteSet(Running(JoinPc)) /\ k \in Nat
    <3>1. Running(JoinPc) \in SUBSET Handler
      BY DEF Running
    <3> QED BY <3>1, ConstantsAssumption, FS_Subset, FS_CardinalityType
  <2>3. k # 0
    BY <2>1, <2>2, FS_EmptySet
  <2> QED BY <2>1, <2>2, <2>3, HandlerOK DEF SessionTypeOK, Session
<1>2. sid \in Session /\ opened + k <= MaxOpen
  <2>1. opened + k <= MaxOpen
    BY DEF OpeningsBounded
  <2> HIDE DEF k
  <2> QED BY <1>1, <2>1, ConstantsAssumption DEF Session
<1>3. /\ hs \in SUBSET Handler /\ h \in hs
      /\ \A g \in hs : task[g].pc # "idle"
  BY DEF Running, OpenPc
<1>4. /\ opened' = sid /\ doc' = [doc EXCEPT ![sid] = body]
      /\ lastSequence' = [lastSequence EXCEPT ![sid] = position]
      /\ pending' = FALSE /\ Attach(hs, sid, body)
      /\ UNCHANGED <<historyVars, accessVars, dirty, sinceSnapshot, inFlight,
                     edits, witnessVars>>
  BY DEF Install
<1>5. /\ RoomTypeOK' /\ ClientTypeOK' /\ HandlersOK'
      /\ task' \in [Handler -> Task] /\ HeadSequence' = HeadSequence
      /\ Running(JoinPc)' \subseteq Running(JoinPc) \ hs
  <2> HIDE DEF hs, sid
  <2> QED BY <1>2, <1>3, <1>4, AttachInv DEF historyVars
<1>6. HistoryTypeOK' /\ SessionTypeOK'
  <2> HIDE DEF sid
  <2> QED BY <1>1, <1>2, <1>4 DEF historyVars, HistoryTypeOK, SessionTypeOK
<1>7. HistoryBounded'
  <2> HIDE DEF sid
  <2> QED BY <1>2, <1>4, <1>5 DEF historyVars, HistoryBounded, SessionTypeOK
<1>8. OpeningsBounded'
  <2> DEFINE n == Cardinality(Running(JoinPc)')
  <2>1. IsFiniteSet(Running(JoinPc) \ {h})
        /\ Cardinality(Running(JoinPc) \ {h}) = k - 1
    BY <1>1, FS_RemoveElement
  <2>2. Running(JoinPc)' \subseteq Running(JoinPc) \ {h}
    BY <1>5
  <2>3. n \in Nat /\ n <= k - 1
    BY <2>1, <2>2, FS_Subset, FS_CardinalityType
  <2>4. opened' + n <= MaxOpen
    <3> HIDE DEF k, n
    <3> QED BY <1>1, <1>2, <1>4, <2>3, ConstantsAssumption
  <2> QED BY <2>4 DEF OpeningsBounded
<1> QED BY <1>5, <1>6, <1>7, <1>8

LEMMA OpenInv ==
    ASSUME TypeInv, NEW h \in Handler, OpenInstall(h) \/ OpenContent(h)
    PROVE  TypeInv'
<1>2. CASE OpenInstall(h)
  BY <1>2, HandlerOK, InstallInv DEF OpenInstall, TaskOK, Task, OpenPc
<1>3. CASE OpenContent(h)
  <2>1. opened + 1 \in Session
    <3>1. h \in Running(JoinPc)
      BY <1>3 DEF OpenContent, Running, JoinPc, OpenPc
    <3>2. IsFiniteSet(Running(JoinPc)) /\ Cardinality(Running(JoinPc)) \in Nat
      <4>1. Running(JoinPc) \in SUBSET Handler
        BY DEF Running
      <4> QED BY <4>1, ConstantsAssumption, FS_Subset, FS_CardinalityType
    <3>3. Cardinality(Running(JoinPc)) # 0
      BY <3>1, <3>2, FS_EmptySet
    <3> DEFINE k == Cardinality(Running(JoinPc))
    <3>4. k \in Nat /\ k # 0 /\ opened \in Nat /\ opened + k <= MaxOpen
      BY <3>2, <3>3 DEF TypeInv, TypeOK, SessionTypeOK, Session, OpeningsBounded
    <3> HIDE DEF k
    <3> QED BY <3>4, ConstantsAssumption DEF Session
  <2>2. {Seed(opened + 1)} \in SUBSET Op /\ 0 \in 0..HeadSequence
    BY <2>1, HandlerOK, ConstantsAssumption DEF SeedOp
  <2> QED BY <1>3, <2>2, InstallInv DEF OpenContent, OpenPc
<1> QED BY <1>2, <1>3

LEMMA OpenFailsInv ==
    ASSUME TypeInv, NEW h \in Handler, OpenFails(h)
    PROVE  TypeInv'
<1> USE DEF TypeInv, TypeOK
<1> DEFINE hs == {h} \cup Running({"joinWait"})
<1>1. hs \in SUBSET Handler
      /\ task' = [g \in Handler |-> IF g \in hs THEN Idle ELSE task[g]]
  BY DEF OpenFails, Running
<1>2. UNCHANGED <<historyVars, accessVars, joined, current, clients,
                  authorized, dirty, sessionVars, clientVars, witnessVars>>
      /\ pending' = FALSE
  BY DEF OpenFails
<1>3. UNCHANGED <<updates, opened>>
  BY <1>2 DEF historyVars, sessionVars
<1>4. /\ HandlersOK' /\ task' \in [Handler -> Task] /\ HeadSequence' = HeadSequence
      /\ Running(JoinPc)' \subseteq Running(JoinPc) \ hs
  <2> HIDE DEF hs
  <2> QED BY <1>1, <1>3, HandlersEnd
<1>5. OpeningsBounded'
  BY <1>3, <1>4, JoinsBounded DEF SessionTypeOK, Session
<1>6. HistoryTypeOK' /\ HistoryBounded' /\ RoomTypeOK' /\ SessionTypeOK'
      /\ ClientTypeOK'
  BY <1>2, <1>4 DEF historyVars, accessVars, sessionVars, clientVars,
         witnessVars, HistoryTypeOK, HistoryBounded, RoomTypeOK, SessionTypeOK,
         ClientTypeOK
<1> QED BY <1>4, <1>5, <1>6

LEMMA CrashInv ==
    ASSUME TypeInv, Crash
    PROVE  TypeInv'
<1> USE DEF TypeInv, TypeOK
<1>1. task' = [g \in Handler |-> IF g \in Handler THEN Idle ELSE task[g]]
  BY DEF Crash
<1>2. UNCHANGED <<historyVars, updates, opened>>
  BY DEF Crash, historyVars
<1>3. /\ HandlersOK' /\ task' \in [Handler -> Task] /\ HeadSequence' = HeadSequence
      /\ Running(JoinPc)' \subseteq Running(JoinPc)
  BY <1>1, <1>2, HandlersEnd
<1>4. OpeningsBounded'
  BY <1>2, <1>3, JoinsBounded DEF SessionTypeOK, Session
<1>5. RoomTypeOK' /\ ClientTypeOK' /\ HistoryTypeOK'
  BY DEF Crash, historyVars, witnessVars, RoomTypeOK, ClientTypeOK,
         HistoryTypeOK, None
<1>6. inFlight' \in [Session -> [sequence : Nat, body : SUBSET Op,
                                  captured : Nat]]
      /\ \A sid \in Session : inFlight'[sid].sequence = 0
  BY DEF Crash, NoSnapshot
<1>7. SessionTypeOK'
  BY <1>6 DEF Crash, SessionTypeOK
<1>8. HistoryBounded'
  <2>1. HeadSequence \in Nat
    BY DEF HistoryTypeOK, HeadSequence
  <2> QED BY <1>3, <1>6, <2>1 DEF Crash, historyVars, HistoryBounded
<1> QED BY <1>3, <1>4, <1>5, <1>7, <1>8

\* The handler ends; its effects are on the room and the documents.
LEMMA HandlerEnds ==
    ASSUME TypeInv, NEW h \in Handler, Finish(h), UNCHANGED <<updates, opened>>
    PROVE  /\ HandlersOK' /\ task' \in [Handler -> Task] /\ OpeningsBounded'
           /\ HeadSequence' = HeadSequence
<1> USE DEF TypeInv, TypeOK
<1>1. task' = [g \in Handler |-> IF g \in {h} THEN Idle ELSE task[g]]
  BY DEF Finish, Become
<1>2. /\ HandlersOK' /\ task' \in [Handler -> Task] /\ HeadSequence' = HeadSequence
      /\ Running(JoinPc)' \subseteq Running(JoinPc)
  BY <1>1, HandlersEnd
<1> QED BY <1>2, JoinsBounded DEF SessionTypeOK, Session

LEMMA BroadcastType ==
    ASSUME TypeInv, NEW op \in Op, NEW except
    PROVE  Broadcast(op, except) \in [Socket -> SUBSET Op]
BY DEF TypeInv, TypeOK, ClientTypeOK, Broadcast

LEMMA UpdateInv ==
    ASSUME TypeInv, NEW h \in Handler, UpdateApply(h) \/ UpdateEvict(h)
    PROVE  TypeInv'
<1> USE DEF TypeInv, TypeOK
<1> DEFINE t == task[h]
<1>1. UNCHANGED <<updates, opened>> /\ Finish(h)
  BY DEF UpdateApply, UpdateEvict, historyVars, sessionVars
<1>2. /\ HandlersOK' /\ task' \in [Handler -> Task] /\ OpeningsBounded'
      /\ HeadSequence' = HeadSequence
  BY <1>1, HandlerEnds
<1>3. TaskOK(t, HeadSequence) /\ t.sock \in Socket
  BY HandlerOK DEF TaskOK, UpdateApply, UpdateEvict
<1>4. CASE UpdateEvict(h)
  <2>1. RoomTypeOK' /\ ClientTypeOK'
    BY <1>3, <1>4, RemoveFromRoomInv DEF UpdateEvict, accessVars
  <2>2. HistoryTypeOK' /\ HistoryBounded' /\ SessionTypeOK'
    BY <1>2, <1>4 DEF UpdateEvict, historyVars, sessionVars, HistoryTypeOK,
                      HistoryBounded, SessionTypeOK
  <2> QED BY <1>2, <2>1, <2>2
<1>5. CASE UpdateApply(h)
  <2>1. t.sid \in Session /\ t.op \in Op
    BY <1>3, <1>5, ConstantsAssumption DEF UpdateApply, TaskOK, UpdatePc
  <2>2. doc' \in [Session -> SUBSET Op]
    <3>1. doc' = [doc EXCEPT ![t.sid] = @ \cup {t.op}]
      BY <1>5 DEF UpdateApply
    <3> QED BY <2>1, <3>1 DEF SessionTypeOK
  <2>3. view' \in [Socket -> SUBSET Op]
    BY <1>5, <2>1, BroadcastType DEF UpdateApply
  <2>4. orphaned' \in SUBSET Op /\ unsent' \in SUBSET Op /\ dirty' \in SUBSET Socket
    BY <1>3, <1>5, <2>1 DEF UpdateApply, ClientTypeOK, RoomTypeOK
  <2>5. RoomTypeOK' /\ ClientTypeOK' /\ SessionTypeOK'
    BY <1>5, <2>2, <2>3, <2>4 DEF UpdateApply, accessVars, RoomTypeOK,
                                  ClientTypeOK, SessionTypeOK
  <2>6. HistoryTypeOK' /\ HistoryBounded'
    BY <1>2, <1>5 DEF UpdateApply, historyVars, HistoryTypeOK, HistoryBounded
  <2> QED BY <1>2, <2>5, <2>6
<1> QED BY <1>4, <1>5

LEMMA AppendAnswerInv ==
    ASSUME TypeInv, NEW h \in Handler, AppendAnswer(h)
    PROVE  TypeInv'
<1> USE DEF TypeInv, TypeOK
<1> DEFINE t == task[h]
           at == IF t.pc = "saveAppend" THEN "saveAck" ELSE "rewindRecord"
           n == HeadSequence
           u == [t EXCEPT !.pc = at, !.sequence = n + 1]
<1>1. TaskOK(t, n) /\ t \in Task /\ n \in Nat
  BY HandlerOK
<1>2. /\ t.pc \in {"saveAppend", "rewindAppend"}
      /\ updates' = Append(updates, t.body) /\ Become(h, u)
      /\ forked' = (forked \/ t.sid # current)
      /\ UNCHANGED <<snapshots, rewinds, accessVars, roomVars, sessionVars,
                     clientVars, acked, orphaned, unsent>>
  BY DEF AppendAnswer, AppendUpdate
<1>3. updates' \in Seq(SUBSET Op) /\ HeadSequence' = n + 1
  BY <1>1, <1>2 DEF HistoryTypeOK, HeadSequence, Task
<1>4. HistoryTypeOK' /\ RoomTypeOK' /\ SessionTypeOK' /\ ClientTypeOK'
  <2>1. forked' \in BOOLEAN
    BY <1>2 DEF ClientTypeOK
  <2> QED BY <1>2, <1>3, <2>1 DEF accessVars, roomVars, sessionVars, clientVars,
               HistoryTypeOK, RoomTypeOK, SessionTypeOK, ClientTypeOK
<1>5. HistoryBounded'
  <2>1. UNCHANGED <<snapshots, rewinds, lastSequence, inFlight>>
    BY <1>2 DEF sessionVars
  <2>2. \A m \in Int : m <= n => m <= n + 1
    BY <1>1
  <2>3. /\ lastSequence \in [Session -> Nat]
        /\ \A sid \in Session : inFlight[sid].sequence \in Nat
        /\ \A e \in rewinds : e.applied \in Nat
    BY DEF SessionTypeOK, HistoryTypeOK, RewindEdge
  <2>4. /\ DOMAIN snapshots \subseteq 0..n
        /\ \A sid \in Session : lastSequence[sid] <= n /\ inFlight[sid].sequence <= n
        /\ \A e \in rewinds : /\ e.target <= e.previousHead
                              /\ e.previousHead < e.applied /\ e.applied <= n
    BY DEF HistoryBounded
  <2>5. DOMAIN snapshots \subseteq 0..(n + 1)
    BY <1>1, <2>4
  <2> HIDE DEF n
  <2> QED BY <1>1, <1>3, <2>1, <2>2, <2>3, <2>4, <2>5 DEF HistoryBounded
<1>6. TaskOK(u, n + 1)
  <2>1. u \in Task
    <3>1. at \in SavePc \cup RewindPc /\ n + 1 \in Nat
      BY <1>1 DEF SavePc, RewindPc
    <3> HIDE DEF at, n
    <3> QED BY <1>1, <3>1 DEF Task
  <2>2. /\ u.pc = at /\ u.sequence = n + 1 /\ u.sock = t.sock /\ u.sid = t.sid
        /\ u.op = t.op /\ u.expected = t.expected /\ u.target = t.target
    BY <1>1 DEF Task
  <2>3. t.expected \in Nat /\ t.expected <= n
    BY <1>1 DEF TaskOK, Task
  <2>4. \/ at = "saveAck" /\ t.pc = "saveAppend"
        \/ at = "rewindRecord" /\ t.pc = "rewindAppend"
    <3>1. CASE t.pc = "saveAppend"
      BY <3>1
    <3>2. CASE t.pc = "rewindAppend"
      BY <3>2
    <3> QED BY <1>2, <3>1, <3>2
  <2> HIDE DEF u, at, n
  <2> QED BY <1>1, <2>1, <2>2, <2>3, <2>4
          DEF TaskOK, UpdatePc, SavePc, RewindPc
<1>7. u.pc \notin JoinPc
  BY <1>1 DEF Task, JoinPc, OpenPc
<1>8. HandlersOK' /\ task' \in [Handler -> Task] /\ OpeningsBounded'
  <2>1. HeadSequence' \in Nat /\ HeadSequence <= HeadSequence'
    BY <1>1, <1>3
  <2>2. UNCHANGED opened /\ opened \in Nat
    BY <1>2 DEF sessionVars, SessionTypeOK, Session
  <2>3. TaskOK(u, HeadSequence')
    BY <1>3, <1>6
  <2> HIDE DEF u
  <2> QED BY <1>1, <1>2, <1>7, <2>1, <2>2, <2>3, BecomeOK, JoinsBounded,
             NoJoinStarts
<1> QED BY <1>4, <1>5, <1>8

\* Saving a row of a sequence the history has.
LEMMA SaveSnapshotOK ==
    ASSUME TypeInv, NEW q \in 0..HeadSequence, NEW body \in SUBSET Op,
           SaveSnapshot(q, body), UNCHANGED <<updates, rewinds>>
    PROVE  /\ HistoryTypeOK' /\ HeadSequence' = HeadSequence
           /\ DOMAIN snapshots' \subseteq 0..HeadSequence
<1> USE DEF TypeInv, TypeOK
<1>1. HeadSequence \in Nat /\ HeadSequence' = HeadSequence
  BY DEF HistoryTypeOK, HeadSequence
<1>2. DOMAIN snapshots' = DOMAIN snapshots \cup {q}
      /\ \A p \in DOMAIN snapshots' : snapshots'[p] \in SUBSET Op
  BY DEF SaveSnapshot, HistoryTypeOK
<1>3. snapshots' \in [DOMAIN snapshots' -> SUBSET Op]
  BY <1>2 DEF SaveSnapshot
<1> QED BY <1>1, <1>2, <1>3 DEF HistoryTypeOK, HistoryBounded

LEMMA SaveAckInv ==
    ASSUME TypeInv, NEW h \in Handler, SaveAck(h)
    PROVE  TypeInv'
<1> USE DEF TypeInv, TypeOK
<1> DEFINE t == task[h]  sid == t.sid  q == t.sequence
           count == sinceSnapshot[sid] + 1
           next == [sequence |-> q, body |-> doc[sid], captured |-> count]
<1>1. TaskOK(t, HeadSequence) /\ t \in Task /\ HeadSequence \in Nat
  BY HandlerOK
<1>2. sid \in Session /\ q \in Nat /\ q <= HeadSequence /\ t.body \in SUBSET Op
  BY <1>1 DEF TaskOK, Task, SaveAck, SavePc
<1>3. count \in Nat /\ doc[sid] \in SUBSET Op
  BY <1>2 DEF SessionTypeOK
<1>4. next \in [sequence : Nat, body : SUBSET Op, captured : Nat]
      /\ next.sequence = q
  <2> HIDE DEF count, q
  <2> QED BY <1>2, <1>3
<1>5. /\ lastSequence' = [lastSequence EXCEPT ![sid] = q]
      /\ sinceSnapshot' = [sinceSnapshot EXCEPT ![sid] = count]
      /\ \/ inFlight' = [inFlight EXCEPT ![sid] = next]
         \/ inFlight' = [inFlight EXCEPT ![sid] = inFlight[sid]]
      /\ dirty' = {} /\ acked' = acked \cup t.body /\ Finish(h)
      /\ UNCHANGED <<historyVars, accessVars, joined, current, clients,
                     authorized, pending, opened, doc, clientVars, orphaned,
                     unsent, forked>>
  BY DEF SaveAck, StartSnapshot
<1> HIDE DEF next, count, sid, q
<1>6. inFlight' \in [Session -> [sequence : Nat, body : SUBSET Op,
                                  captured : Nat]]
      /\ \A x \in Session : inFlight'[x].sequence <= HeadSequence
  BY <1>1, <1>2, <1>4, <1>5 DEF SessionTypeOK, HistoryBounded
<1>7. lastSequence' \in [Session -> Nat]
      /\ \A x \in Session : lastSequence'[x] <= HeadSequence
  BY <1>1, <1>2, <1>5 DEF SessionTypeOK, HistoryBounded
<1>8. SessionTypeOK'
  BY <1>2, <1>3, <1>5, <1>6, <1>7 DEF SessionTypeOK
<1>9. /\ HandlersOK' /\ task' \in [Handler -> Task] /\ OpeningsBounded'
      /\ HeadSequence' = HeadSequence
  BY <1>5, HandlerEnds DEF historyVars
<1>10. HistoryTypeOK' /\ HistoryBounded'
  BY <1>5, <1>6, <1>7, <1>9 DEF historyVars, HistoryTypeOK, HistoryBounded
<1>11. RoomTypeOK' /\ ClientTypeOK'
  BY <1>2, <1>5 DEF accessVars, clientVars, RoomTypeOK, ClientTypeOK
<1> QED BY <1>8, <1>9, <1>10, <1>11

LEMMA SnapshotInv ==
    ASSUME TypeInv, NEW sid \in Session,
    SnapshotSaved(sid) \/ SnapshotFails(sid)
    PROVE  TypeInv'
<1> USE DEF TypeInv, TypeOK
<1> DEFINE T == [sequence : Nat, body : SUBSET Op, captured : Nat]
           left == sinceSnapshot[sid] - inFlight[sid].captured
<1>1. /\ UNCHANGED <<updates, rewinds, accessVars, roomVars, opened, doc,
                     lastSequence, task, clientVars, witnessVars>>
      /\ inFlight' = [inFlight EXCEPT ![sid] = NoSnapshot]
  BY DEF SnapshotSaved, SnapshotWritten, Uncovered, SnapshotFails, historyVars
<1>2. inFlight' \in [Session -> T]
      /\ \A x \in Session : inFlight'[x].sequence <= HeadSequence
  <2>1. NoSnapshot \in T /\ NoSnapshot.sequence = 0
    BY DEF NoSnapshot
  <2>2. HeadSequence \in Nat
    BY DEF HistoryTypeOK, HeadSequence
  <2> QED BY <1>1, <2>1, <2>2 DEF SessionTypeOK, HistoryBounded
<1>3. sinceSnapshot' \in [Session -> Nat]
  <2>1. CASE UNCHANGED sinceSnapshot
    BY <2>1 DEF SessionTypeOK
  <2>2. CASE SnapshotSaved(sid)
    <3>1. inFlight[sid] \in T /\ sinceSnapshot \in [Session -> Nat]
      BY DEF SessionTypeOK
    <3>2. sinceSnapshot' = [sinceSnapshot EXCEPT
                                ![sid] = IF left > 0 THEN left ELSE 0]
      BY <2>2 DEF SnapshotSaved, SnapshotWritten, Uncovered
    <3>3. (IF left > 0 THEN left ELSE 0) \in Nat
      BY <3>1
    <3> HIDE DEF left
    <3> QED BY <3>1, <3>2, <3>3
  <2> QED BY <2>1, <2>2 DEF SnapshotFails
<1>4. HistoryTypeOK' /\ HeadSequence' = HeadSequence
      /\ DOMAIN snapshots' \subseteq 0..HeadSequence
  <2>1. CASE SnapshotSaved(sid)
    <3>1. inFlight[sid].sequence \in 0..HeadSequence
          /\ inFlight[sid].body \in SUBSET Op
      BY DEF SessionTypeOK, HistoryBounded, HistoryTypeOK, HeadSequence
    <3> QED BY <1>1, <2>1, <3>1, SaveSnapshotOK DEF SnapshotSaved,
                                                    SnapshotWritten, Uncovered
  <2>2. CASE UNCHANGED historyVars
    BY <2>2 DEF historyVars, HistoryTypeOK, HeadSequence, HistoryBounded
  <2> QED BY <2>1, <2>2 DEF SnapshotFails
<1>5. SessionTypeOK' /\ RoomTypeOK' /\ ClientTypeOK'
  BY <1>1, <1>2, <1>3 DEF accessVars, roomVars, clientVars, witnessVars,
                          SessionTypeOK, RoomTypeOK, ClientTypeOK
<1>6. HandlersOK' /\ task' \in [Handler -> Task] /\ OpeningsBounded'
  BY <1>1, SameHandlers
<1>7. HistoryBounded'
  BY <1>1, <1>2, <1>4 DEF HistoryBounded
<1> QED BY <1>4, <1>5, <1>6, <1>7

LEMMA RewindSnapshotInv ==
    ASSUME TypeInv, NEW h \in Handler, RewindSnapshot(h)
    PROVE  TypeInv'
<1> USE DEF TypeInv, TypeOK
<1> DEFINE t == task[h]
           u == [t EXCEPT !.pc = "rewindApply"]
           head == t.expected
<1>1. TaskOK(t, HeadSequence) /\ t \in Task /\ HeadSequence \in Nat
  BY HandlerOK
<1>2. head \in 0..HeadSequence /\ HydratedAt(head) \in SUBSET Op
  <2>1. head \in 0..HeadSequence
    BY <1>1 DEF TaskOK, Task
  <2> HIDE DEF head
  <2> QED BY <2>1, HydratedAtType
<1>3. UNCHANGED <<updates, rewinds, accessVars, roomVars, sessionVars,
                  clientVars, witnessVars>> /\ Become(h, u)
  BY DEF RewindSnapshot, Goto
<1>4. HistoryTypeOK' /\ HeadSequence' = HeadSequence
      /\ DOMAIN snapshots' \subseteq 0..HeadSequence
  <2>1. CASE UNCHANGED snapshots
    BY <1>3, <2>1 DEF HistoryTypeOK, HeadSequence, HistoryBounded
  <2>2. CASE SaveSnapshot(head, HydratedAt(head))
    <3> HIDE DEF head
    <3> QED BY <1>2, <1>3, <2>2, SaveSnapshotOK
  <2> QED BY <2>1, <2>2 DEF RewindSnapshot
<1>5. TaskOK(u, HeadSequence) /\ u.pc \notin JoinPc
  <2>1. t.target <= t.expected /\ t.pc \in RewindPc
    BY <1>1 DEF TaskOK, RewindSnapshot, RewindPc
  <2> QED BY <1>1, <2>1, MoveOK DEF Task, RewindPc, JoinPc, OpenPc
<1>6. HandlersOK' /\ task' \in [Handler -> Task] /\ OpeningsBounded'
  <2>1. UNCHANGED opened /\ opened \in Nat
    BY <1>3 DEF sessionVars, SessionTypeOK, Session
  <2> HIDE DEF u
  <2> QED BY <1>1, <1>3, <1>4, <1>5, <2>1, BecomeOK, JoinsBounded, NoJoinStarts
<1>7. RoomTypeOK' /\ SessionTypeOK' /\ ClientTypeOK' /\ HistoryBounded'
  BY <1>3, <1>4 DEF accessVars, roomVars, sessionVars, clientVars, witnessVars,
              RoomTypeOK, SessionTypeOK, ClientTypeOK, HistoryBounded
<1> QED BY <1>4, <1>6, <1>7

LEMMA RewindApplyInv ==
    ASSUME TypeInv, NEW h \in Handler, RewindApply(h)
    PROVE  TypeInv'
<1> USE DEF TypeInv, TypeOK
<1> DEFINE t == task[h]  body == {t.op}
           u == [t EXCEPT !.pc = "rewindAppend", !.body = body]
<1>1. TaskOK(t, HeadSequence) /\ t \in Task /\ HeadSequence \in Nat
  BY HandlerOK
<1>2. t.pc = "rewindApply" /\ t.sid \in Session /\ t.op \in Op
  BY <1>1, ConstantsAssumption DEF RewindApply, TaskOK, RewindPc
<1>3. doc' = [doc EXCEPT ![t.sid] = @ \cup {t.op}] /\ Become(h, u)
      /\ UNCHANGED <<historyVars, accessVars, roomVars, opened, lastSequence,
                     sinceSnapshot, inFlight, clientVars, witnessVars>>
  BY DEF RewindApply
<1>4. HistoryTypeOK' /\ HistoryBounded' /\ RoomTypeOK' /\ ClientTypeOK'
      /\ HeadSequence' = HeadSequence
  BY <1>3 DEF historyVars, accessVars, roomVars, clientVars, witnessVars,
              HistoryTypeOK, HistoryBounded, HeadSequence, RoomTypeOK,
              ClientTypeOK
<1>5. SessionTypeOK'
  <2>1. doc' \in [Session -> SUBSET Op]
    BY <1>2, <1>3 DEF SessionTypeOK
  <2> QED BY <1>3, <2>1 DEF SessionTypeOK
<1>6. TaskOK(u, HeadSequence) /\ u.pc \notin JoinPc
  <2>1. body \in SUBSET Op
    BY <1>2
  <2> HIDE DEF body
  <2>2. u \in Task
    BY <1>1, <2>1 DEF Task, RewindPc
  <2>3. /\ u.pc = "rewindAppend" /\ u.sequence = t.sequence /\ u.sock = t.sock
        /\ u.sid = t.sid /\ u.op = t.op /\ u.expected = t.expected
        /\ u.target = t.target
    BY <1>1 DEF Task
  <2> HIDE DEF u
  <2> QED BY <1>1, <1>2, <2>2, <2>3
          DEF TaskOK, UpdatePc, SavePc, RewindPc, JoinPc, OpenPc
<1>7. HandlersOK' /\ task' \in [Handler -> Task] /\ OpeningsBounded'
  <2>1. UNCHANGED opened /\ opened \in Nat
    BY <1>3 DEF SessionTypeOK, Session
  <2> HIDE DEF u
  <2> QED BY <1>1, <1>3, <1>4, <1>6, <2>1, BecomeOK, JoinsBounded, NoJoinStarts
<1> QED BY <1>4, <1>5, <1>7

LEMMA RewindEndsInv ==
    ASSUME TypeInv, NEW h \in Handler, RewindRecord(h) \/ RewindFails(h)
    PROVE  TypeInv'
<1> USE DEF TypeInv, TypeOK
<1> DEFINE t == task[h]
<1>1. TaskOK(t, HeadSequence) /\ t \in Task /\ HeadSequence \in Nat
  BY HandlerOK
<1>2. t.op \in Op /\ t.sid \in Session /\ t.sock \in Socket
  BY <1>1, ConstantsAssumption
  DEF RewindRecord, Recorded, RewindFails, TaskOK, RewindPc
<1>3. /\ HandlersOK' /\ task' \in [Handler -> Task] /\ OpeningsBounded'
      /\ HeadSequence' = HeadSequence
  <2>1. UNCHANGED <<updates, opened>> /\ Finish(h)
    BY DEF RewindRecord, Recorded, RewindFails, historyVars, sessionVars
  <2> QED BY <2>1, HandlerEnds
<1>4. CASE RewindFails(h)
  <2>1. unsent' \in SUBSET Op
    BY <1>2, <1>4 DEF RewindFails, ClientTypeOK
  <2> QED BY <1>3, <1>4, <2>1
      DEF RewindFails, historyVars, accessVars, roomVars, sessionVars,
          clientVars, HistoryTypeOK, HistoryBounded, RoomTypeOK, SessionTypeOK,
          ClientTypeOK
<1>5. CASE RewindRecord(h)
  <2> DEFINE q == t.sequence
             e == [applied |-> q, target |-> t.target,
                    previousHead |-> t.expected]
  <2>1. /\ q \in Nat /\ q <= HeadSequence /\ t.expected < q
        /\ t.target <= t.expected /\ t.target \in Nat /\ t.expected \in Nat
    BY <1>1, <1>5 DEF TaskOK, Task, RewindRecord, Recorded, RewindPc
  <2>2. /\ rewinds' = rewinds \cup {e}
        /\ lastSequence' = [lastSequence EXCEPT ![t.sid] = q]
        /\ sinceSnapshot' = [sinceSnapshot EXCEPT ![t.sid] = @ + 1]
        /\ dirty' = dirty \cup {t.sock} /\ view' = Broadcast(t.op, {})
        /\ acked' = acked \cup {t.op}
        /\ orphaned' \in {orphaned, orphaned \cup {t.op}}
        /\ UNCHANGED <<updates, snapshots, accessVars, joined, current,
                       clients, authorized, pending, opened, doc, inFlight,
                       edits, unsent, forked>>
    BY <1>5 DEF RewindRecord, Recorded, SaveRewind
  <2>3. e \in RewindEdge
    BY <2>1 DEF RewindEdge
  <2>4. HistoryTypeOK'
    BY <2>2, <2>3 DEF HistoryTypeOK
  <2>5. lastSequence' \in [Session -> Nat]
        /\ \A sid \in Session : lastSequence'[sid] <= HeadSequence
    <3> HIDE DEF q
    <3> QED BY <1>1, <1>2, <2>1, <2>2 DEF SessionTypeOK, HistoryBounded
  <2>6. SessionTypeOK'
    <3>1. sinceSnapshot' \in [Session -> Nat]
      BY <1>2, <2>2 DEF SessionTypeOK
    <3> QED BY <2>2, <2>5, <3>1 DEF SessionTypeOK
  <2>7. HistoryBounded'
    <3>1. /\ e.target <= e.previousHead /\ e.previousHead < e.applied
          /\ e.applied <= HeadSequence
      BY <2>1
    <3> HIDE DEF e
    <3> QED BY <1>3, <2>2, <2>5, <3>1 DEF HistoryBounded
  <2>8. RoomTypeOK' /\ ClientTypeOK'
    <3>1. view' \in [Socket -> SUBSET Op]
      BY <1>2, <2>2, BroadcastType
    <3> QED BY <1>2, <2>2, <3>1 DEF accessVars, RoomTypeOK, ClientTypeOK
  <2> QED BY <1>3, <2>4, <2>6, <2>7, <2>8
<1> QED BY <1>4, <1>5

LEMMA TypeInvInit == Init => TypeInv
<1> SUFFICES ASSUME Init PROVE TypeInv
  OBVIOUS
<1>1. HistoryTypeOK /\ HeadSequence = 0
  BY DEF Init, HistoryInit, HistoryTypeOK, HeadSequence
<1>2. RoomTypeOK /\ ClientTypeOK
  BY DEF Init, RoomTypeOK, ClientTypeOK, None
<1>3. SessionTypeOK /\ \A sid \in Session : inFlight[sid].sequence = 0
  BY DEF Init, SessionTypeOK, NoSnapshot
<1>4. HistoryBounded
  BY <1>1, <1>3 DEF Init, HistoryInit, HistoryBounded
<1>5. HandlersOK /\ task \in [Handler -> Task]
  <2>1. TaskOK(Idle, 0)
    BY IdleOK
  <2> QED BY <1>1, <2>1 DEF Init, HandlersOK, TaskOK
<1>6. OpeningsBounded
  <2>1. Running(JoinPc) = {}
    BY DEF Init, Running, Idle, NewTask, JoinPc, OpenPc
  <2> QED BY <2>1, FS_EmptySet, ConstantsAssumption DEF Init, OpeningsBounded
<1> QED BY <1>1, <1>2, <1>3, <1>4, <1>5, <1>6 DEF TypeInv, TypeOK

LEMMA TypeInvStutter ==
    ASSUME TypeInv, UNCHANGED vars
    PROVE  TypeInv'
<1>1. UNCHANGED <<historyVars, accessVars, roomVars, sessionVars, task,
                  clientVars, witnessVars>>
  BY DEF vars
<1>2. UNCHANGED <<task, updates, opened>>
  BY <1>1 DEF historyVars, sessionVars
<1> QED BY <1>1, <1>2, SameHandlers
    DEF TypeInv, TypeOK, historyVars, accessVars, roomVars, sessionVars,
        clientVars, witnessVars, HistoryTypeOK, RoomTypeOK, SessionTypeOK,
        ClientTypeOK, HistoryBounded

LEMMA TypeInvNext ==
    ASSUME TypeInv, [Next]_vars
    PROVE  TypeInv'
<1>1. ASSUME NEW s \in Socket, SocketEvent(s) PROVE TypeInv'
  BY <1>1, SocketsInv, JoinStartInv, StartsInv DEF SocketEvent
<1>2. ASSUME NEW h \in Handler, HandlerStep(h) PROVE TypeInv'
  <2>1. CASE Authorize(h)
    BY <2>1, AuthorizeInv
  <2>2. CASE JoinStep(h)
    BY <2>2, JoinExistingInv, JoinReadsInv, JoinCreateInv, OpenInv, OpenFailsInv
    DEF JoinStep
  <2>3. CASE UpdateStep(h)
    BY <2>3, UpdateInv DEF UpdateStep
  <2>4. CASE SaveStep(h)
    BY <2>4, SaveReadsInv, AppendAnswerInv, SaveAckInv DEF SaveStep
  <2>5. CASE RewindStep(h)
    BY <2>5, RewindReadsInv, RewindSnapshotInv, RewindApplyInv, RewindEndsInv
    DEF RewindStep
  <2> QED BY <1>2, <2>1, <2>2, <2>3, <2>4, <2>5 DEF HandlerStep
<1>3. ASSUME NEW sid \in Session, SnapshotSaved(sid) \/ SnapshotFails(sid)
      PROVE  TypeInv'
  BY <1>3, SnapshotInv
<1>4. CASE Crash
  BY <1>4, CrashInv
<1>5. CASE UNCHANGED vars
  BY <1>5, TypeInvStutter
<1> QED BY <1>1, <1>2, <1>3, <1>4, <1>5 DEF Next

\* Every variable keeps its type, however many sockets, handlers, sessions,
\* edits and updates there are.
THEOREM TypeCorrect == Spec => []TypeOK
<1>1. Spec => []TypeInv
  BY TypeInvInit, TypeInvNext, PTL DEF Spec
<1> QED BY <1>1, PTL DEF TypeInv

\* No session, snapshot or rewind edge names a sequence the history does not
\* have, and every edge leads from the head it replaced back to an older
\* sequence and on to a newer one.
THEOREM EdgesCorrect == Spec => []EdgesPointBack
<1>1. Spec => []TypeInv
  BY TypeInvInit, TypeInvNext, PTL DEF Spec
<1>2. TypeInv => EdgesPointBack
  BY DEF TypeInv, HistoryBounded, EdgesPointBack
<1> QED BY <1>1, <1>2, PTL

-----------------------------------------------------------------------------
(* The room and the single flight of its opening.                          *)

OpeningInv ==
    /\ pending => current = None /\ \E h \in Handler : Running(OpenPc) = {h}
    /\ ~pending => Running(OpenPc) = {} /\ Running({"joinWait"}) = {}

RoomInv == RoomConsistent /\ OpeningInv

LEMMA RunningBecome ==
    ASSUME TypeInv, NEW h \in Handler, NEW t, Become(h, t), NEW pcs
    PROVE  /\ t.pc \in pcs => Running(pcs)' = Running(pcs) \cup {h}
           /\ t.pc \notin pcs => Running(pcs)' = Running(pcs) \ {h}
BY DEF TypeInv, TypeOK, Running, Become

\* A handler moves that neither opens nor waits, before or after.
LEMMA RoomStill ==
    ASSUME TypeInv, RoomInv, NEW h \in Handler, NEW t, Become(h, t),
           t.pc \notin OpenPc, t.pc # "joinWait", task[h].pc \notin OpenPc,
           UNCHANGED <<joined, current, clients, authorized, pending>>
    PROVE  RoomInv'
<1>1. RoomConsistent'
  BY DEF RoomInv, RoomConsistent
<1>2. Running(OpenPc)' = Running(OpenPc)
  BY RunningBecome DEF Running
<1>3. Running({"joinWait"})' \subseteq Running({"joinWait"})
  BY RunningBecome
<1> QED BY <1>1, <1>2, <1>3 DEF RoomInv, OpeningInv

LEMMA RoomStillEnds ==
    ASSUME TypeInv, RoomInv, NEW h \in Handler, Finish(h),
           task[h].pc \notin OpenPc,
           UNCHANGED <<joined, current, clients, authorized, pending>>
    PROVE  RoomInv'
BY RoomStill DEF Finish, Idle, NewTask, OpenPc

LEMMA RoomRemove ==
    ASSUME TypeInv, RoomInv, NEW s \in Socket, RemoveFromRoom(s),
           UNCHANGED pending,
           \/ UNCHANGED task
           \/ \E h \in Handler : Finish(h) /\ task[h].pc \notin OpenPc
    PROVE  RoomInv'
<1>1. RoomConsistent'
  BY DEF RoomInv, RoomConsistent, RemoveFromRoom, Remove
<1>2. Running(OpenPc)' = Running(OpenPc)
      /\ Running({"joinWait"})' \subseteq Running({"joinWait"})
  <2>1. CASE UNCHANGED task
    BY <2>1 DEF Running
  <2>2. ASSUME NEW h \in Handler, Finish(h), task[h].pc \notin OpenPc
        PROVE  /\ Running(OpenPc)' = Running(OpenPc)
               /\ Running({"joinWait"})' \subseteq Running({"joinWait"})
    <3>1. Become(h, Idle) /\ Idle.pc \notin OpenPc /\ Idle.pc \notin {"joinWait"}
      BY <2>2 DEF Finish, Idle, NewTask, OpenPc
    <3>2. Running(OpenPc)' = Running(OpenPc) \ {h}
      BY <3>1, RunningBecome
    <3>3. Running({"joinWait"})' = Running({"joinWait"}) \ {h}
      BY <3>1, RunningBecome
    <3>4. h \notin Running(OpenPc)
      BY <2>2 DEF Running
    <3> QED BY <3>2, <3>3, <3>4
  <2> QED BY <2>1, <2>2
<1>3. current' \in {None, current}
  BY DEF RemoveFromRoom, Remove
<1> QED BY <1>1, <1>2, <1>3 DEF RoomInv, OpeningInv

\* Those who asked are let in; nobody waits or opens any more.
LEMMA RoomAttach ==
    ASSUME TypeInv, RoomInv, NEW hs \in SUBSET Handler, hs # {},
           NEW sid \in Session, NEW body, Attach(hs, sid, body), ~pending',
           Running(OpenPc) \subseteq hs, Running({"joinWait"}) \subseteq hs
    PROVE  RoomInv'
<1>1. RoomConsistent'
  <2>1. {task[h].sock : h \in hs} # {}
    OBVIOUS
  <2>2. current' # None
    BY DEF Attach, Session, None
  <2> QED BY <2>1, <2>2 DEF Attach, RoomInv, RoomConsistent
<1>2. Running(OpenPc)' = {} /\ Running({"joinWait"})' = {}
  <2>1. Idle.pc \notin OpenPc /\ Idle.pc # "joinWait"
    BY DEF Idle, NewTask, OpenPc
  <2>2. \A h \in Handler : task'[h] = IF h \in hs THEN Idle ELSE task[h]
    BY DEF Attach
  <2> QED BY <2>1, <2>2 DEF Running
<1> QED BY <1>1, <1>2 DEF RoomInv, OpeningInv

LEMMA RoomJoin ==
    ASSUME TypeInv, RoomInv, NEW h \in Handler, JoinStep(h)
    PROVE  RoomInv'
<1> USE DEF RoomInv
<1>1. CASE JoinExisting(h)
  <2>1. ~pending /\ ~pending' /\ current \in Session
    BY <1>1 DEF JoinExisting, OpeningInv, TypeInv, TypeOK, RoomTypeOK
  <2>2. Running(OpenPc) = {} /\ Running({"joinWait"}) = {}
    BY <2>1 DEF OpeningInv
  <2> QED BY <1>1, <2>1, <2>2, RoomAttach DEF JoinExisting
<1>2. CASE JoinPending(h)
  <2> DEFINE u == [task[h] EXCEPT !.pc = "joinWait"]
  <2>1. u.pc = "joinWait" /\ Become(h, u) /\ task[h].pc = "joinOpen" /\ pending
        /\ UNCHANGED roomVars
    BY <1>2, HandlerOK DEF JoinPending, Goto, Task
  <2> HIDE DEF u
  <2>2. Running(OpenPc)' = Running(OpenPc)
    <3>1. "joinWait" \notin OpenPc /\ "joinOpen" \notin OpenPc
      BY DEF OpenPc
    <3>2. Running(OpenPc)' = Running(OpenPc) \ {h}
      BY <2>1, <3>1, RunningBecome
    <3>3. h \notin Running(OpenPc)
      BY <2>1, <3>1 DEF Running
    <3> QED BY <3>2, <3>3
  <2> QED BY <2>1, <2>2 DEF roomVars, RoomConsistent, OpeningInv
<1>3. CASE JoinCreate(h)
  <2> DEFINE u == [task[h] EXCEPT !.pc = "openSnapshot"]
  <2>1. u.pc \in OpenPc /\ Become(h,
  u) /\ ~pending /\ pending' /\ current = None
        /\ UNCHANGED <<joined, current, clients, authorized>>
    BY <1>3, HandlerOK DEF JoinCreate, Goto, Task, OpenPc
  <2> HIDE DEF u
  <2>2. Running(OpenPc)' = {h}
    BY <2>1, RunningBecome DEF OpeningInv
  <2> QED BY <2>1, <2>2 DEF RoomConsistent, OpeningInv
<1>4. CASE OpenSnapshot(h) \/ OpenUpdates(h)
  <2>1. PICK u : Become(h, u) /\ u.pc \in OpenPc /\ task[h].pc \in OpenPc
    <3>1. CASE OpenSnapshot(h)
      BY <3>1, HandlerOK DEF OpenSnapshot, Task, OpenPc
    <3>2. CASE OpenUpdates(h)
      BY <3>2, HandlerOK DEF OpenUpdates, Task, OpenPc
    <3> QED BY <1>4, <3>1, <3>2
  <2>2. UNCHANGED roomVars
    BY <1>4 DEF OpenSnapshot, OpenUpdates
  <2>3. Running(OpenPc)' = Running(OpenPc)
    BY <2>1, RunningBecome DEF Running
  <2>4. Running({"joinWait"})' \subseteq Running({"joinWait"})
    BY <2>1, RunningBecome DEF OpenPc
  <2> QED BY <2>2, <2>3, <2>4 DEF roomVars, RoomConsistent, OpeningInv
<1>5. CASE OpenInstall(h) \/ OpenContent(h)
  <2>1. h \in Running(OpenPc)
    BY <1>5 DEF OpenInstall, OpenContent, Running, OpenPc
  <2>2. Running(OpenPc) = {h}
    BY <2>1 DEF OpeningInv
  <2>3. PICK body : Attach({h} \cup Running({"joinWait"}), opened + 1, body)
    BY <1>5 DEF OpenInstall, OpenContent, Install
  <2>4. ~pending'
    BY <1>5 DEF OpenInstall, OpenContent, Install
  <2>5. opened + 1 \in Session
    <3>1. TypeInv'
      BY <1>5, OpenInv
    <3>2. opened' = opened + 1 /\ opened \in Nat
      BY <1>5 DEF OpenInstall, OpenContent, Install, TypeInv, TypeOK,
                  SessionTypeOK, Session
    <3> QED BY <3>1, <3>2 DEF TypeInv, TypeOK, SessionTypeOK
  <2>6. {h} \cup Running({"joinWait"}) \in SUBSET Handler
    BY DEF Running
  <2> QED BY <2>2, <2>3, <2>4, <2>5, <2>6, RoomAttach
<1>6. CASE OpenFails(h)
  <2>1. h \in Running(OpenPc)
    BY <1>6 DEF OpenFails, Running, OpenPc
  <2>2. Running(OpenPc) = {h}
    BY <2>1 DEF OpeningInv
  <2>3. Idle.pc \notin OpenPc /\ Idle.pc # "joinWait"
    BY DEF Idle, NewTask, OpenPc
  <2>4. Running(OpenPc)' = {} /\ Running({"joinWait"})' = {}
    BY <1>6, <2>2, <2>3 DEF OpenFails, Running
  <2> QED BY <1>6, <2>4 DEF OpenFails, RoomConsistent, OpeningInv
<1> QED BY <1>1, <1>2, <1>3, <1>4, <1>5, <1>6 DEF JoinStep

LEMMA RoomHandler ==
    ASSUME TypeInv, RoomInv, NEW h \in Handler, HandlerStep(h)
    PROVE  RoomInv'
<1> DEFINE t == task[h]
           kept == <<joined, current, clients, authorized, pending>>
<1>1. CASE Authorize(h)
  <2>1. PICK u : Become(h, u) /\ u.pc \notin OpenPc /\ u.pc # "joinWait"
    BY <1>1, HandlerOK DEF Authorize, Task, OpenPc, Idle, NewTask
  <2> QED BY <1>1, <2>1, RoomStill DEF Authorize, OpenPc, roomVars
<1>2. CASE JoinStep(h)
  BY <1>2, RoomJoin
<1>3. CASE UpdateEvict(h)
  <2>1. t.sock \in Socket /\ t.pc \notin OpenPc
    BY <1>3, HandlerOK DEF UpdateEvict, TaskOK, OpenPc
  <2> QED BY <1>3, <2>1, RoomRemove DEF UpdateEvict
<1>4. CASE \/ UpdateApply(h) \/ SaveSkip(h) \/ SaveFails(h) \/ SaveAck(h)
           \/ RewindReject(h) \/ RewindRecord(h) \/ RewindFails(h)
  <2>1. Finish(h) /\ t.pc \notin OpenPc /\ UNCHANGED kept
    BY <1>4 DEF UpdateApply, SaveSkip, SaveFails, SaveAck, RewindReject,
                RewindRecord, Recorded, RewindFails, roomVars, OpenPc
  <2> QED BY <2>1, RoomStillEnds
<1>5. CASE \/ SaveEncode(h) \/ AppendAnswer(h) \/ RewindCheck(h)
           \/ RewindTarget(h) \/ RewindSnapshot(h) \/ RewindApply(h)
  <2>1. PICK u : Become(h, u) /\ u.pc \notin OpenPc /\ u.pc # "joinWait"
    <3>1. CASE SaveEncode(h)
      <4> DEFINE u == [t EXCEPT !.pc = "saveAppend", !.body = doc[t.sid]]
      <4>1. u.pc = "saveAppend"
        BY HandlerOK DEF Task
      <4>2. Become(h, u)
        BY <3>1 DEF SaveEncode
      <4> HIDE DEF u
      <4> QED BY <4>1, <4>2 DEF OpenPc
    <3>2. CASE AppendAnswer(h)
      <4> DEFINE at == IF t.pc = "saveAppend" THEN "saveAck" ELSE "rewindRecord"
                 u == [t EXCEPT !.pc = at, !.sequence = HeadSequence + 1]
      <4>1. u.pc = at
        BY HandlerOK DEF Task
      <4>2. Become(h, u)
        BY <3>2 DEF AppendAnswer
      <4> HIDE DEF u
      <4> QED BY <4>1, <4>2 DEF OpenPc
    <3>3. CASE RewindCheck(h) \/ RewindTarget(h)
      BY <3>3, HandlerOK DEF RewindCheck, RewindTarget, Goto, Task, OpenPc
    <3>4. CASE RewindSnapshot(h)
      BY <3>4, HandlerOK DEF RewindSnapshot, Goto, Task, OpenPc
    <3>5. CASE RewindApply(h)
      <4> DEFINE u == [t EXCEPT !.pc = "rewindAppend", !.body = {t.op}]
      <4>1. u.pc = "rewindAppend"
        BY HandlerOK DEF Task
      <4>2. Become(h, u)
        BY <3>5 DEF RewindApply
      <4> HIDE DEF u
      <4> QED BY <4>1, <4>2 DEF OpenPc
    <3> QED BY <1>5, <3>1, <3>2, <3>3, <3>4, <3>5
  <2>2. t.pc \notin OpenPc /\ UNCHANGED kept
    BY <1>5 DEF SaveEncode, AppendAnswer, RewindCheck, RewindTarget,
                RewindSnapshot, RewindApply, roomVars, OpenPc
  <2> QED BY <2>1, <2>2, RoomStill
<1> QED BY <1>1, <1>2, <1>3, <1>4, <1>5
        DEF HandlerStep, UpdateStep, SaveStep, RewindStep

LEMMA RoomInit == Init => RoomInv
BY DEF Init, RoomInv, RoomConsistent, OpeningInv, Running, Idle, NewTask,
       OpenPc,
       None

LEMMA RoomNext ==
    ASSUME TypeInv, RoomInv, [Next]_vars
    PROVE  RoomInv'
<1>1. ASSUME NEW s \in Socket, SocketEvent(s) PROVE RoomInv'
  <2>1. CASE Connect(s) \/ Revoke(s) \/ Grant(s)
    BY <2>1 DEF Connect, Revoke, Grant, roomVars, RoomInv, RoomConsistent,
                OpeningInv, Running
  <2>2. CASE Leave(s)
    BY <2>2, RoomRemove DEF Leave
  <2>3. CASE Disconnect(s)
    <3>1. CASE s \in joined /\ RemoveFromRoom(s)
      BY <2>3, <3>1, RoomRemove DEF Disconnect
    <3>2. CASE ~(s \in joined /\ RemoveFromRoom(s))
      BY <2>3, <3>2 DEF Disconnect, RoomInv, RoomConsistent, OpeningInv, Running
    <3> QED BY <3>1, <3>2
  <2>4. ASSUME NEW h \in Handler,
               \/ JoinStart(s, h) \/ UpdateStart(s, h)
               \/ SaveStart(s, h) \/ RewindStart(s, h)
        PROVE  RoomInv'
    <3>1. task[h] = Idle /\ UNCHANGED roomVars
      BY <2>4 DEF JoinStart, UpdateStart, SaveStart, RewindStart, Start
    <3>2. PICK u : Become(h, u) /\ u.pc \notin OpenPc /\ u.pc # "joinWait"
      <4>1. PICK at, sid, op, expected, target :
               /\ Become(h, NewTask(at, s, sid, op, expected, target))
               /\ at \in {"joinAuth", "updateAuth", "saveAuth", "rewindAuth"}
        <5>1. CASE JoinStart(s, h)
          BY <5>1, Zenon DEF JoinStart, Start
        <5>2. CASE UpdateStart(s, h)
          BY <5>2, Zenon DEF UpdateStart, Start
        <5>3. CASE SaveStart(s, h)
          BY <5>3, Zenon DEF SaveStart, Start
        <5>4. CASE RewindStart(s, h)
          BY <5>4, Zenon DEF RewindStart, Start
        <5> QED BY <2>4, <5>1, <5>2, <5>3, <5>4
      <4> DEFINE u == NewTask(at, s, sid, op, expected, target)
      <4>2. u.pc = at
        BY DEF NewTask
      <4> HIDE DEF u
      <4>3. Become(h, u)
        BY <4>1 DEF u
      <4> QED BY <4>1, <4>2, <4>3 DEF OpenPc
    <3> QED BY <3>1, <3>2, RoomStill DEF roomVars, Idle, NewTask, OpenPc
  <2> QED BY <1>1, <2>1, <2>2, <2>3, <2>4 DEF SocketEvent
<1>2. ASSUME NEW h \in Handler, HandlerStep(h) PROVE RoomInv'
  BY <1>2, RoomHandler
<1>3. CASE \E sid \in Session : SnapshotSaved(sid) \/ SnapshotFails(sid)
  BY <1>3 DEF SnapshotSaved, SnapshotWritten, Uncovered, SnapshotFails,
              roomVars, RoomInv, RoomConsistent,
              OpeningInv, Running
<1>4. CASE Crash
  BY <1>4 DEF Crash, RoomInv, RoomConsistent, OpeningInv, Running, Idle,
              NewTask, OpenPc, None
<1>5. CASE UNCHANGED vars
  BY <1>5 DEF vars, roomVars, RoomInv, RoomConsistent, OpeningInv, Running
<1> QED BY <1>1, <1>2, <1>3, <1>4, <1>5 DEF Next

LEMMA RoomInvariant == Spec => [](TypeInv /\ RoomInv)
<1>1. Init => TypeInv /\ RoomInv
  BY TypeInvInit, RoomInit
<1>2. TypeInv /\ RoomInv /\ [Next]_vars => (TypeInv /\ RoomInv)'
  BY TypeInvNext, RoomNext
<1> QED BY <1>1, <1>2, PTL DEF Spec

\* A socket is in the room exactly when it is a client of the session the room
\* has now, and that session exists exactly while it has clients.
THEOREM RoomCorrect == Spec => []RoomConsistent
BY RoomInvariant, PTL DEF RoomInv

\* However many joins race, one handler at a time opens the document, only
\* while there is no session, and those who wait for it are waiting for one
\* that is under way.
THEOREM OpeningCorrect == Spec => []SingleOpening
<1>1. TypeInv /\ RoomInv => SingleOpening
  <2> SUFFICES ASSUME TypeInv, RoomInv PROVE SingleOpening
    OBVIOUS
  <2>1. CASE pending
    <3>1. Cardinality(Running(OpenPc)) = 1
      BY <2>1, FS_Singleton DEF RoomInv, OpeningInv
    <3> QED BY <2>1, <3>1 DEF RoomInv, OpeningInv, SingleOpening
  <2>2. CASE ~pending
    <3>1. Cardinality(Running(OpenPc)) = 0
      BY <2>2, FS_EmptySet DEF RoomInv, OpeningInv
    <3> QED BY <2>2, <3>1 DEF RoomInv, OpeningInv, SingleOpening
  <2> QED BY <2>1, <2>2
<1> QED BY <1>1, RoomInvariant, PTL

-----------------------------------------------------------------------------
(* A document is started from the file while it has no history.            *)

\* Who starts a document from the file, and may, found no update: the loader
\* answers null for want of a history or of access, no session appends while
\* the room is being opened, and access that comes back then is excepted.
Watched ==
    \A h \in Running({"openContent"}) :
        HeadSequence = 0 \/ task[h].sock \notin allowed

WatchInv == ~forked => Watched

LEMMA SocketsFork ==
    ASSUME NEW s \in Socket, TypeInv,
           Connect(s) \/ Disconnect(s) \/ Revoke(s) \/ Grant(s) \/ Leave(s)
    PROVE  forked => forked'
<1>1. CASE Grant(s)
  BY <1>1 DEF Grant
<1>2. CASE Connect(s) \/ Disconnect(s) \/ Revoke(s) \/ Leave(s)
  BY <1>2 DEF Connect, Disconnect, Revoke, Leave, witnessVars
<1> QED BY <1>1, <1>2

\* A step that appends nothing, gives nobody access, and lets nobody start a
\* document from the file.
LEMMA WatchStill ==
    ASSUME TypeInv, WatchInv, forked => forked', UNCHANGED updates,
           allowed' \subseteq allowed,
           \A g \in Handler : \/ task'[g] = task[g]
                              \/ task'[g].pc # "openContent"
    PROVE  WatchInv'
<1>1. HeadSequence' = HeadSequence
  BY DEF HeadSequence
<1> QED BY <1>1 DEF WatchInv, Watched, Running

LEMMA WatchBecomes ==
    ASSUME TypeInv, WatchInv, forked => forked', UNCHANGED updates,
           allowed' \subseteq allowed, NEW h \in Handler, NEW t, Become(h, t),
           t.pc # "openContent"
    PROVE  WatchInv'
<1>1. \A g \in Handler : task'[g] = IF g = h THEN t ELSE task[g]
  BY DEF TypeInv, TypeOK, Become
<1> QED BY <1>1, WatchStill

LEMMA WatchSockets ==
    ASSUME TypeInv, WatchInv, NEW s \in Socket, SocketEvent(s)
    PROVE  WatchInv'
<1>1. CASE Connect(s) \/ Disconnect(s) \/ Revoke(s) \/ Leave(s)
  <2>1. UNCHANGED updates /\ task' = task /\ allowed' \subseteq allowed
    BY <1>1 DEF Connect, Disconnect, Revoke, Leave, accessVars, historyVars
  <2>2. forked => forked'
    BY <1>1, SocketsFork
  <2>3. \A g \in Handler : task'[g] = task[g]
    BY <2>1
  <2> QED BY <2>1, <2>2, <2>3, WatchStill, Zenon
<1>2. CASE Grant(s)
  <2>1. /\ UNCHANGED <<historyVars, task>> /\ allowed' = allowed \cup {s}
        /\ forked' = (forked \/ \E h \in Running({"openContent"}) :
                                   task[h].sock = s)
    BY <1>2 DEF Grant
  <2>2. HeadSequence' = HeadSequence
        /\ Running({"openContent"})' = Running({"openContent"})
    BY <2>1 DEF historyVars, HeadSequence, Running
  <2> SUFFICES ASSUME ~forked', NEW h \in Running({"openContent"})
               PROVE  HeadSequence = 0 \/ task[h].sock \notin allowed'
    BY <2>1, <2>2 DEF WatchInv, Watched
  <2>3. ~forked /\ task[h].sock # s
    BY <2>1
  <2> QED BY <2>1, <2>3 DEF WatchInv, Watched
<1>3. ASSUME NEW h \in Handler,
             \/ JoinStart(s, h) \/ UpdateStart(s, h)
             \/ SaveStart(s, h) \/ RewindStart(s, h)
      PROVE  WatchInv'
  <2>1. UNCHANGED <<historyVars, accessVars, witnessVars>>
    BY <1>3 DEF JoinStart, UpdateStart, SaveStart, RewindStart
  <2>2. PICK at, sid, op, expected, target :
           /\ Become(h, NewTask(at, s, sid, op, expected, target))
           /\ at \in {"joinAuth", "updateAuth", "saveAuth", "rewindAuth"}
    <3>1. CASE JoinStart(s, h)
      BY <3>1, Zenon DEF JoinStart, Start
    <3>2. CASE UpdateStart(s, h)
      BY <3>2, Zenon DEF UpdateStart, Start
    <3>3. CASE SaveStart(s, h)
      BY <3>3, Zenon DEF SaveStart, Start
    <3>4. CASE RewindStart(s, h)
      BY <3>4, Zenon DEF RewindStart, Start
    <3> QED BY <1>3, <3>1, <3>2, <3>3, <3>4
  <2> DEFINE u == NewTask(at, s, sid, op, expected, target)
  <2>3. u.pc = at
    BY DEF NewTask
  <2>4. Become(h, u)
    BY <2>2
  <2> HIDE DEF u
  <2> QED BY <2>1, <2>2, <2>3, <2>4, WatchBecomes
          DEF historyVars, accessVars, witnessVars
<1> QED BY <1>1, <1>2, <1>3 DEF SocketEvent

\* The loader answers null: without access, or with no update in the history.
LEMMA WatchOpenReads ==
    ASSUME TypeInv, WatchInv, NEW h \in Handler,
           OpenSnapshot(h) \/ OpenUpdates(h)
    PROVE  WatchInv'
<1> DEFINE t == task[h]
           u == [t EXCEPT !.pc = "openContent"]
<1>1. UNCHANGED <<historyVars, accessVars, witnessVars>>
  BY DEF OpenSnapshot, OpenUpdates
<1>2. TaskOK(t, HeadSequence) /\ t \in Task /\ HeadSequence \in Nat
  BY HandlerOK
<1>3. PICK v : /\ Become(h, v)
               /\ \/ v.pc # "openContent"
                  \/ HeadSequence = 0 \/ t.sock \notin allowed
               /\ v.sock = t.sock
  <2>1. CASE OpenSnapshot(h)
    <3> DEFINE base == Newest(DOMAIN snapshots)
               w == [t EXCEPT !.pc = "openUpdates", !.sequence = base,
                              !.body = SnapshotBody(base)]
    <3>1. Become(h, IF t.sock \in allowed THEN w ELSE u)
      BY <2>1 DEF OpenSnapshot
    <3>2. u.sock = t.sock /\ w.sock = t.sock /\ w.pc = "openUpdates"
      <4> HIDE DEF base
      <4> QED BY <1>2 DEF Task
    <3> HIDE DEF u, w
    <3> QED BY <3>1, <3>2
  <2>2. CASE OpenUpdates(h)
    <3> DEFINE base == t.sequence
               head == IF HeadSequence > base THEN HeadSequence ELSE base
               w == [t EXCEPT !.pc = "openInstall", !.sequence = head,
                              !.body = @ \cup UpdateBodies(base + 1, head)]
    <3>1. head = HeadSequence
      BY <1>2 DEF TaskOK, Task
    <3>2. IF head = 0 THEN Become(h, u) ELSE Become(h, w)
      BY <2>2 DEF OpenUpdates
    <3>3. u.sock = t.sock /\ w.sock = t.sock /\ w.pc = "openInstall"
      <4> HIDE DEF head, base
      <4> QED BY <1>2 DEF Task
    <3> HIDE DEF u, w, head
    <3> QED BY <3>1, <3>2, <3>3
  <2> QED BY <2>1, <2>2
<1>4. \A g \in Handler : task'[g] = IF g = h THEN v ELSE task[g]
  BY <1>3 DEF TypeInv, TypeOK, Become
<1>5. HeadSequence' = HeadSequence /\ allowed' = allowed /\ forked' = forked
  BY <1>1 DEF historyVars, HeadSequence, accessVars, witnessVars
<1> QED BY <1>3, <1>4, <1>5 DEF WatchInv, Watched, Running

\* Who appends for the session the room has now appends while nobody opens it.
LEMMA WatchAppend ==
    ASSUME TypeInv, RoomInv, WatchInv, NEW h \in Handler, AppendAnswer(h)
    PROVE  WatchInv'
<1> SUFFICES ASSUME ~forked' PROVE Watched'
  BY DEF WatchInv
<1> DEFINE t == task[h]
           at == IF t.pc = "saveAppend" THEN "saveAck" ELSE "rewindRecord"
           u == [t EXCEPT !.pc = at, !.sequence = HeadSequence + 1]
<1>1. /\ t.pc \in {"saveAppend", "rewindAppend"}
      /\ Become(h, u) /\ forked' = (forked \/ t.sid # current)
  BY DEF AppendAnswer
<1>2. t.sid = current
  BY <1>1, Zenon
<1>3. current # None
  <2>1. t.sid \in Session
    BY <1>1, HandlerOK DEF TaskOK, SavePc, RewindPc
  <2> QED BY <1>2, <2>1 DEF Session, None
<1>4. Running({"openContent"}) = {}
  <2>1. Running(OpenPc) = {}
    BY <1>3 DEF RoomInv, OpeningInv
  <2> QED BY <2>1 DEF Running, OpenPc
<1>5. u.pc # "openContent"
  BY HandlerOK DEF Task
<1> HIDE DEF u
<1>6. Running({"openContent"})' = Running({"openContent"}) \ {h}
  BY <1>1, <1>5, RunningBecome
<1> QED BY <1>4, <1>6 DEF Watched

LEMMA WatchHandler ==
    ASSUME TypeInv, RoomInv, WatchInv, NEW h \in Handler, HandlerStep(h)
    PROVE  WatchInv'
<1> DEFINE t == task[h]
<1>1. CASE OpenSnapshot(h) \/ OpenUpdates(h)
  BY <1>1, WatchOpenReads
<1>2. CASE AppendAnswer(h)
  BY <1>2, WatchAppend
<1>3. CASE JoinExisting(h) \/ OpenInstall(h) \/ OpenContent(h) \/ OpenFails(h)
  <2>1. /\ UNCHANGED <<updates, allowed, forked>>
        /\ \A g \in Handler : task'[g] \in {task[g], Idle}
    BY <1>3 DEF JoinExisting, OpenInstall, OpenContent, OpenFails, Install,
                Attach, historyVars, accessVars, witnessVars
  <2>2. Idle.pc # "openContent"
    BY DEF Idle, NewTask
  <2> QED BY <2>1, <2>2, WatchStill
<1>4. CASE \/ UpdateApply(h) \/ UpdateEvict(h) \/ SaveSkip(h) \/ SaveFails(h)
           \/ SaveAck(h) \/ RewindReject(h) \/ RewindRecord(h) \/ RewindFails(h)
  <2>1. UNCHANGED <<updates, allowed, forked>> /\ Become(h, Idle)
    BY <1>4 DEF UpdateApply, UpdateEvict, SaveSkip, SaveFails, SaveAck,
                RewindReject, RewindRecord, Recorded, RewindFails, Finish,
                historyVars, accessVars, witnessVars
  <2>2. Idle.pc # "openContent"
    BY DEF Idle, NewTask
  <2> QED BY <2>1, <2>2, WatchBecomes
<1>5. CASE \/ Authorize(h) \/ JoinPending(h) \/ JoinCreate(h) \/ SaveEncode(h)
           \/ RewindCheck(h) \/ RewindTarget(h) \/ RewindSnapshot(h)
           \/ RewindApply(h)
  <2>1. UNCHANGED <<updates, allowed, forked>>
    BY <1>5 DEF Authorize, JoinPending, JoinCreate, SaveEncode, RewindCheck,
                RewindTarget, RewindSnapshot, RewindApply, historyVars,
                accessVars, witnessVars
  <2>2. t \in Task
    BY HandlerOK
  <2>3. PICK u : Become(h, u) /\ u.pc # "openContent"
    <3>1. CASE Authorize(h)
      BY <2>2, <3>1 DEF Authorize, Task, Idle, NewTask
    <3>2. CASE JoinPending(h) \/ JoinCreate(h)
      BY <2>2, <3>2 DEF JoinPending, JoinCreate, Goto, Task
    <3>3. CASE SaveEncode(h)
      <4> DEFINE u == [t EXCEPT !.pc = "saveAppend", !.body = doc[t.sid]]
      <4>1. u.pc = "saveAppend" /\ Become(h, u)
        BY <2>2, <3>3 DEF SaveEncode, Task
      <4> HIDE DEF u
      <4> QED BY <4>1
    <3>4. CASE RewindCheck(h) \/ RewindTarget(h) \/ RewindSnapshot(h)
      BY <2>2, <3>4 DEF RewindCheck, RewindTarget, RewindSnapshot, Goto, Task
    <3>5. CASE RewindApply(h)
      <4> DEFINE u == [t EXCEPT !.pc = "rewindAppend", !.body = {t.op}]
      <4>1. u.pc = "rewindAppend" /\ Become(h, u)
        BY <2>2, <3>5 DEF RewindApply, Task
      <4> HIDE DEF u
      <4> QED BY <4>1
    <3> QED BY <1>5, <3>1, <3>2, <3>3, <3>4, <3>5
  <2> QED BY <2>1, <2>3, WatchBecomes
<1> QED BY <1>1, <1>2, <1>3, <1>4, <1>5
        DEF HandlerStep, JoinStep, UpdateStep, SaveStep, RewindStep

LEMMA WatchInit == Init => WatchInv
BY DEF Init, HistoryInit, WatchInv, Watched, Running, Idle, NewTask

LEMMA WatchNext ==
    ASSUME TypeInv, RoomInv, WatchInv, [Next]_vars
    PROVE  WatchInv'
<1>1. CASE \E s \in Socket : SocketEvent(s)
  BY <1>1, WatchSockets
<1>2. CASE \E h \in Handler : HandlerStep(h)
  BY <1>2, WatchHandler
<1>3. CASE \E sid \in Session : SnapshotSaved(sid) \/ SnapshotFails(sid)
  <2>1. UNCHANGED <<updates, allowed, forked, task>>
    BY <1>3 DEF SnapshotSaved, SnapshotWritten, SnapshotFails, historyVars,
                accessVars, witnessVars
  <2> QED BY <2>1, WatchStill
<1>4. CASE Crash
  <2>1. /\ UNCHANGED <<updates, allowed, forked>>
        /\ \A g \in Handler : task'[g] = Idle
    BY <1>4 DEF Crash, historyVars, witnessVars
  <2> QED BY <2>1, WatchStill DEF Idle, NewTask
<1>5. CASE UNCHANGED vars
  <2>1. UNCHANGED <<updates, allowed, forked, task>>
    BY <1>5 DEF vars, historyVars, accessVars, witnessVars
  <2> QED BY <2>1, WatchStill
<1> QED BY <1>1, <1>2, <1>3, <1>4, <1>5 DEF Next

-----------------------------------------------------------------------------
(* What was acknowledged is rebuilt from the history.                      *)

\* The operations of the first n rows of history.
Content(history, n) == UNION {history[i] : i \in 1..n}

\* What a handler carries, given the documents and the history.
CarryOK(t, docs, history, n) ==
    /\ t.pc = "openUpdates" => Content(history, t.sequence) \subseteq t.body
    /\ t.pc = "openInstall" => Content(history, n) \subseteq t.body
    /\ t.pc \in {"saveAppend", "rewindAppend"} => t.body \subseteq docs[t.sid]
    /\ t.pc \in {"saveAck", "rewindRecord"}
         => t.body \subseteq Content(history, n)
    /\ t.pc = "saveAck" => Content(history, t.sequence) \subseteq docs[t.sid]
    /\ t.pc \in {"rewindAppend", "rewindRecord"} => t.op \in t.body

\* As long as no handler appended for a session that was replaced, each
\* snapshot, and each document it may be taken of, holds all the updates its
\* sequence counts.
Complete ==
    /\ current # None => Content(updates, HeadSequence) \subseteq doc[current]
    /\ \A q \in DOMAIN snapshots : Content(updates, q) \subseteq snapshots[q]
    /\ \A sid \in Session :
          \/ inFlight[sid] = NoSnapshot
          \/ Content(updates, inFlight[sid].sequence)
               \subseteq inFlight[sid].body
    /\ acked \subseteq Content(updates, HeadSequence)
    /\ \A h \in Handler : CarryOK(task[h], doc, updates, HeadSequence)

\* Sessions are numbered as they are opened.
SessionsOpened ==
    /\ current <= opened
    /\ \A h \in Handler : task[h].sid <= opened

DurableInv == SessionsOpened /\ (~forked => Complete)

LEMMA ContentAppend ==
    ASSUME NEW history \in Seq(SUBSET Op), NEW body \in SUBSET Op
    PROVE  /\ \A n \in 0..Len(history) :
                 Content(Append(history, body), n) = Content(history, n)
           /\ Content(Append(history, body), Len(history) + 1) =
                 Content(history, Len(history)) \cup body
<1> DEFINE longer == Append(history, body)  m == Len(history)
<1>1. m \in Nat /\ longer[m + 1] = body /\ \A i \in 1..m : longer[i] = history[i]
  OBVIOUS
<1> HIDE DEF longer, m
<1>2. ASSUME NEW n \in 0..m PROVE Content(longer, n) = Content(history, n)
  <2>1. \A i \in 1..n : longer[i] = history[i]
    BY <1>1
  <2> QED BY <2>1 DEF Content
<1>3. Content(longer, m + 1) = Content(history, m) \cup body
  <2>1. \A i \in Int : i \in 1..(m + 1) <=> i \in 1..m \/ i = m + 1
    BY <1>1
  <2>2. ASSUME NEW x PROVE x \in Content(longer, m + 1) <=>
                           x \in Content(history, m) \/ x \in body
    BY <1>1, <2>1 DEF Content
  <2> QED BY <2>2
<1> QED BY <1>2, <1>3 DEF longer, m

LEMMA ContentMonotone ==
    ASSUME NEW history, NEW m \in Nat, NEW n \in 0..m
    PROVE  Content(history, n) \subseteq Content(history, m)
BY DEF Content

LEMMA ContentEmpty ==
    ASSUME NEW history
    PROVE  Content(history, 0) = {}
BY DEF Content

\* A base that holds the first rows, with the rows after it, holds them all.
LEMMA ContentSplit ==
    ASSUME NEW base \in Nat, NEW n \in Nat, NEW body,
           Content(updates, base) \subseteq body
    PROVE  Content(updates, n) \subseteq body \cup UpdateBodies(base + 1, n)
<1>1. ASSUME NEW i \in 1..n
      PROVE  updates[i] \subseteq body \cup UpdateBodies(base + 1, n)
  <2>1. CASE i <= base
    <3>1. i \in 1..base
      BY <2>1
    <3> QED BY <3>1 DEF Content
  <2>2. CASE i > base
    <3>1. i \in (base + 1)..n
      BY <2>2
    <3> QED BY <3>1 DEF UpdateBodies
  <2> QED BY <2>1, <2>2
<1> QED BY <1>1 DEF Content

LEMMA NewestComplete ==
    ASSUME TypeInv, Complete, NEW q \in 0..HeadSequence
    PROVE  LET base == Newest({p \in DOMAIN snapshots : p <= q})
           IN  /\ base \in 0..q
               /\ Content(updates, base) \subseteq SnapshotBody(base)
<1> DEFINE held == {p \in DOMAIN snapshots : p <= q}
           base == Newest(held)
<1>1. HeadSequence \in Nat
  BY DEF TypeInv, TypeOK, HistoryTypeOK, HeadSequence
<1>2. held \in SUBSET (0..q)
  BY <1>1 DEF TypeInv, HistoryBounded
<1>3. base \in 0..q /\ (held # {} => base \in held)
  <2> HIDE DEF held
  <2> QED BY <1>1, <1>2, NewestLemma
<1>4. CASE held = {}
  <2>1. base = 0
    BY <1>4 DEF Newest
  <2> QED BY <1>3, <2>1, ContentEmpty
<1>5. CASE held # {}
  <2>1. base \in DOMAIN snapshots
    BY <1>3, <1>5
  <2> HIDE DEF base
  <2>2. Content(updates, base) \subseteq SnapshotBody(base)
    BY <2>1 DEF SnapshotBody, Complete
  <2> QED BY <1>3, <2>2 DEF base
<1> QED BY <1>4, <1>5

LEMMA HydratedAtComplete ==
    ASSUME TypeInv, Complete, NEW q \in 0..HeadSequence
    PROVE  Content(updates, q) \subseteq HydratedAt(q)
<1> DEFINE base == Newest({p \in DOMAIN snapshots : p <= q})
<1>1. base \in 0..q /\ Content(updates, base) \subseteq SnapshotBody(base)
      /\ HeadSequence \in Nat
  BY NewestComplete DEF TypeInv, TypeOK, HistoryTypeOK, HeadSequence
<1> HIDE DEF base
<1>2. Content(updates,
q) \subseteq SnapshotBody(base) \cup UpdateBodies(base + 1, q)
  BY <1>1, ContentSplit
<1> QED BY <1>2 DEF HydratedAt, base

\* At the head, every snapshot is eligible: the current state is the one a
\* reader of the newest rows builds.
LEMMA AllEligible ==
    ASSUME TypeInv
    PROVE  {p \in DOMAIN snapshots : p <= HeadSequence} = DOMAIN snapshots
<1>1. HeadSequence \in Nat
  BY DEF TypeInv, TypeOK, HistoryTypeOK, HeadSequence
<1>2. DOMAIN snapshots \subseteq 0..HeadSequence
  BY DEF TypeInv, HistoryBounded
<1> QED BY <1>1, <1>2

LEMMA HydratedIsAtHead ==
    ASSUME TypeInv
    PROVE  Hydrated = HydratedAt(HeadSequence)
BY AllEligible DEF Hydrated, HydratedAt

LEMMA IdleCarries ==
    ASSUME NEW docs, NEW history, NEW n
    PROVE  CarryOK(Idle, docs, history, n) /\ Idle.sid = None
BY DEF CarryOK, Idle, NewTask

LEMMA SessionNumbers ==
    ASSUME TypeInv
    PROVE  /\ opened \in Nat /\ current \in Nat /\ None = 0
           /\ HeadSequence \in Nat
           /\ \A h \in Handler : task[h].sid \in Nat
<1>1. opened \in Nat /\ current \in Nat /\ None = 0
  BY DEF TypeInv, TypeOK, SessionTypeOK, RoomTypeOK, Session, None
<1>2. HeadSequence \in Nat
  BY DEF TypeInv, TypeOK, HistoryTypeOK, HeadSequence
<1>3. ASSUME NEW h \in Handler PROVE task[h].sid \in Nat
  <2>1. task[h].sid \in Session \cup {None}
    BY HandlerOK DEF Task
  <2> QED BY <2>1 DEF Session, None
<1> QED BY <1>1, <1>2, <1>3

\* A step that touches neither the history nor the documents.
LEMMA DurableStill ==
    ASSUME TypeInv, DurableInv,
           UNCHANGED <<updates, snapshots, doc, opened, inFlight, acked>>,
           forked => forked', current' \in {current, None},
           \A g \in Handler :
              \/ task'[g] = task[g]
              \/ /\ task'[g].sid <= opened
                 /\ ~forked => CarryOK(task'[g], doc, updates, HeadSequence)
    PROVE  DurableInv'
<1>1. HeadSequence' = HeadSequence
  BY DEF HeadSequence
<1>2. SessionsOpened'
  BY SessionNumbers DEF DurableInv, SessionsOpened
<1>3. ASSUME Complete, ~forked PROVE Complete'
  BY <1>1, <1>3 DEF Complete
<1> QED BY <1>2, <1>3 DEF DurableInv

\* A handler moves that touches neither the history nor the documents.
LEMMA DurableMoves ==
    ASSUME TypeInv, DurableInv, NEW h \in Handler, NEW t, Become(h, t),
           UNCHANGED <<updates, snapshots, doc, opened, inFlight, acked,
                       forked>>,
           current' \in {current, None}, t.sid <= opened,
           ~forked => CarryOK(t, doc, updates, HeadSequence)
    PROVE  DurableInv'
<1>1. \A g \in Handler : task'[g] = IF g = h THEN t ELSE task[g]
  BY DEF TypeInv, TypeOK, Become
<1> QED BY <1>1, DurableStill

\* A handler moves on to an await before which it carries no operations.
LEMMA DurableGoto ==
    ASSUME TypeInv, DurableInv, NEW h \in Handler, NEW t, Become(h, t),
           UNCHANGED <<updates, snapshots, doc, opened, inFlight, acked,
                       forked>>,
           current' \in {current, None}, t.sid <= opened,
           t.pc \notin {"openUpdates", "openInstall", "saveAppend", "saveAck",
                        "rewindAppend", "rewindRecord"}
    PROVE  DurableInv'
<1>1. CarryOK(t, doc, updates, HeadSequence)
  BY DEF CarryOK
<1> QED BY <1>1, DurableMoves

LEMMA DurableFinish ==
    ASSUME TypeInv, DurableInv, NEW h \in Handler, Finish(h),
           UNCHANGED <<updates, snapshots, doc, opened, inFlight, acked,
                       forked>>,
           current' \in {current, None}
    PROVE  DurableInv'
BY DurableMoves, IdleCarries, SessionNumbers DEF Finish

LEMMA DurableSockets ==
    ASSUME TypeInv, DurableInv, NEW s \in Socket, SocketEvent(s)
    PROVE  DurableInv'
<1>1. CASE Connect(s) \/ Disconnect(s) \/ Revoke(s) \/ Grant(s) \/ Leave(s)
  <2>1. /\ UNCHANGED <<updates, snapshots, doc, opened, inFlight, acked>>
        /\ current' \in {current, None} /\ task' = task
    BY <1>1 DEF Connect, Disconnect, Revoke, Grant, Leave, RemoveFromRoom,
             Remove, roomVars, witnessVars, historyVars, sessionVars
  <2>2. forked => forked'
    BY <1>1, SocketsFork
  <2>3. \A g \in Handler : task'[g] = task[g]
    BY <2>1
  <2> QED BY <2>1, <2>2, <2>3, DurableStill, Zenon
<1>2. ASSUME NEW h \in Handler,
             \/ JoinStart(s, h) \/ UpdateStart(s, h)
             \/ SaveStart(s, h) \/ RewindStart(s, h)
      PROVE  DurableInv'
  <2>1. UNCHANGED <<historyVars, roomVars, sessionVars, witnessVars>>
    BY <1>2 DEF JoinStart, UpdateStart, SaveStart, RewindStart
  <2>2. PICK at, sid, op, expected, target :
           /\ Become(h, NewTask(at, s, sid, op, expected, target))
           /\ sid \in {None, current}
           /\ at \in {"joinAuth", "updateAuth", "saveAuth", "rewindAuth"}
    <3>1. CASE JoinStart(s, h)
      BY <3>1, Zenon DEF JoinStart, Start
    <3>2. CASE UpdateStart(s, h)
      BY <3>2, Zenon DEF UpdateStart, Start
    <3>3. CASE SaveStart(s, h)
      BY <3>3, Zenon DEF SaveStart, Start
    <3>4. CASE RewindStart(s, h)
      BY <3>4, Zenon DEF RewindStart, Start
    <3> QED BY <1>2, <3>1, <3>2, <3>3, <3>4
  <2> DEFINE u == NewTask(at, s, sid, op, expected, target)
  <2>3. u.pc = at /\ u.sid = sid
    BY DEF NewTask
  <2>4. Become(h, u)
    BY <2>2
  <2> HIDE DEF u
  <2>5. u.sid <= opened
    BY <2>2, <2>3, SessionNumbers DEF DurableInv, SessionsOpened
  <2>6. u.pc \notin {"openUpdates", "openInstall", "saveAppend", "saveAck",
                     "rewindAppend", "rewindRecord"}
    BY <2>2, <2>3
  <2>7. UNCHANGED <<updates, snapshots, doc, opened, inFlight, acked, forked,
                    current>>
    BY <2>1 DEF historyVars, roomVars, sessionVars, witnessVars
  <2> QED BY <2>4, <2>5, <2>6, <2>7, DurableGoto
<1> QED BY <1>1, <1>2 DEF SocketEvent

LEMMA DurableReads ==
    ASSUME TypeInv, DurableInv, NEW h \in Handler,
           \/ Authorize(h) \/ JoinPending(h) \/ JoinCreate(h)
           \/ RewindCheck(h) \/ RewindTarget(h)
    PROVE  DurableInv'
<1> DEFINE t == task[h]
<1>1. t \in Task /\ t.sid <= opened /\ Idle.sid <= opened
  BY HandlerOK, IdleCarries, SessionNumbers DEF DurableInv, SessionsOpened
<1>2. UNCHANGED <<updates, snapshots, doc, opened, inFlight, acked, forked,
                  current>>
  BY DEF Authorize, JoinPending, JoinCreate, RewindCheck, RewindTarget,
         historyVars, roomVars, sessionVars, witnessVars
<1>3. PICK u : /\ Become(h, u) /\ (u = Idle \/ u.sid = t.sid)
               /\ u.pc \in {"idle", "joinOpen", "updateApply", "updateEvict",
                            "saveEncode", "rewindCheck", "joinWait",
                            "openSnapshot", "rewindTarget", "rewindSnapshot"}
  <2>1. CASE Authorize(h)
    BY <1>1, <2>1 DEF Authorize, Task, Idle, NewTask
  <2>2. CASE JoinPending(h) \/ JoinCreate(h)
    BY <1>1, <2>2 DEF JoinPending, JoinCreate, Goto, Task
  <2>3. CASE RewindCheck(h) \/ RewindTarget(h)
    BY <1>1, <2>3 DEF RewindCheck, RewindTarget, Goto, Task
  <2> QED BY <2>1, <2>2, <2>3
<1>4. u.sid <= opened
  BY <1>1, <1>3
<1> QED BY <1>2, <1>3, <1>4, DurableGoto

LEMMA DurableEnds ==
    ASSUME TypeInv, DurableInv, NEW h \in Handler,
           \/ UpdateEvict(h) \/ SaveSkip(h) \/ SaveFails(h)
           \/ RewindReject(h) \/ RewindFails(h) \/ JoinExisting(h) \/ OpenFails(h)
    PROVE  DurableInv'
<1>1. CASE \/ UpdateEvict(h) \/ SaveSkip(h) \/ SaveFails(h)
           \/ RewindReject(h) \/ RewindFails(h)
  <2>1. /\ UNCHANGED <<updates, snapshots, doc, opened, inFlight, acked,
                       forked>>
        /\ Finish(h) /\ current' \in {current, None}
    BY <1>1 DEF UpdateEvict, RemoveFromRoom, Remove, SaveSkip, SaveFails,
                RewindReject,
                RewindFails, historyVars, sessionVars, roomVars, witnessVars
  <2> QED BY <2>1, DurableFinish
<1>2. CASE JoinExisting(h) \/ OpenFails(h)
  <2>1. /\ UNCHANGED <<updates, snapshots, doc, opened, inFlight, acked,
                       forked>>
        /\ current' = current
        /\ \A g \in Handler : task'[g] \in {task[g], Idle}
    BY <1>2 DEF JoinExisting, Attach, OpenFails, historyVars, sessionVars,
                witnessVars
  <2>2. \A g \in Handler :
          \/ task'[g] = task[g]
          \/ /\ task'[g].sid <= opened
             /\ ~forked => CarryOK(task'[g], doc, updates, HeadSequence)
    BY <2>1, IdleCarries, SessionNumbers
  <2> QED BY <2>1, <2>2, DurableStill
<1> QED BY <1>1, <1>2

LEMMA DurableOpenReads ==
    ASSUME TypeInv, DurableInv, NEW h \in Handler,
           OpenSnapshot(h) \/ OpenUpdates(h) \/ SaveEncode(h)
    PROVE  DurableInv'
<1> DEFINE t == task[h]
<1>1. TaskOK(t, HeadSequence) /\ t \in Task /\ t.sid <= opened
      /\ HeadSequence \in Nat
  BY HandlerOK DEF DurableInv, SessionsOpened
<1>2. UNCHANGED <<updates, snapshots, doc, opened, inFlight, acked, forked,
                  current>>
  BY DEF OpenSnapshot, OpenUpdates, SaveEncode, historyVars, roomVars,
         sessionVars, witnessVars
<1>3. CASE OpenSnapshot(h)
  <2> DEFINE base == Newest(DOMAIN snapshots)
             u == [t EXCEPT !.pc = "openUpdates", !.sequence = base,
                            !.body = SnapshotBody(base)]
             v == [t EXCEPT !.pc = "openContent"]
  <2>1. /\ u.pc = "openUpdates" /\ u.sequence = base
        /\ u.body = SnapshotBody(base) /\ u.sid = t.sid
        /\ v.pc = "openContent" /\ v.sid = t.sid
    BY <1>1 DEF Task
  <2>2. Become(h, u) \/ Become(h, v)
    BY <1>3 DEF OpenSnapshot
  <2>3. ~forked => Content(updates, base) \subseteq SnapshotBody(base)
    <3>1. {p \in DOMAIN snapshots : p <= HeadSequence} = DOMAIN snapshots
      BY AllEligible
    <3>2. HeadSequence \in 0..HeadSequence
      BY <1>1
    <3> QED BY <3>1, <3>2, NewestComplete DEF DurableInv
  <2> HIDE DEF u, v, base
  <2>4. CASE Become(h, v)
    BY <1>1, <1>2, <2>1, <2>4, DurableGoto
  <2>5. CASE Become(h, u)
    <3>1. ~forked => CarryOK(u, doc, updates, HeadSequence)
      BY <2>1, <2>3 DEF CarryOK
    <3> QED BY <1>1, <1>2, <2>1, <2>5, <3>1, DurableMoves
  <2> QED BY <2>2, <2>4, <2>5
<1>4. CASE OpenUpdates(h)
  <2> DEFINE base == t.sequence
             head == IF HeadSequence > base THEN HeadSequence ELSE base
             body == t.body \cup UpdateBodies(base + 1, head)
             u == [t EXCEPT !.pc = "openInstall", !.sequence = head,
                            !.body = @ \cup UpdateBodies(base + 1, head)]
             v == [t EXCEPT !.pc = "openContent"]
  <2>1. base \in 0..HeadSequence /\ head = HeadSequence
    BY <1>1 DEF TaskOK, Task
  <2>2. /\ u.pc = "openInstall" /\ u.body = body /\ u.sid = t.sid
        /\ v.pc = "openContent" /\ v.sid = t.sid
    <3> HIDE DEF head, base
    <3> QED BY <1>1 DEF Task
  <2>3. Become(h, u) \/ Become(h, v)
    BY <1>4 DEF OpenUpdates
  <2>4. ~forked => Content(updates, HeadSequence) \subseteq body
    <3>1. ~forked => Content(updates, base) \subseteq t.body
      BY <1>4 DEF DurableInv, Complete, CarryOK, OpenUpdates
    <3> HIDE DEF base
    <3> QED BY <1>1, <2>1, <3>1, ContentSplit
  <2> HIDE DEF u, v, base, head, body
  <2>5. CASE Become(h, v)
    BY <1>1, <1>2, <2>2, <2>5, DurableGoto
  <2>6. CASE Become(h, u)
    <3>1. ~forked => CarryOK(u, doc, updates, HeadSequence)
      BY <2>2, <2>4 DEF CarryOK
    <3> QED BY <1>1, <1>2, <2>2, <2>6, <3>1, DurableMoves
  <2> QED BY <2>3, <2>5, <2>6
<1>5. CASE SaveEncode(h)
  <2> DEFINE u == [t EXCEPT !.pc = "saveAppend", !.body = doc[t.sid]]
  <2>1. u.pc = "saveAppend" /\ u.sid = t.sid /\ u.body = doc[t.sid]
    BY <1>1 DEF Task
  <2>2. Become(h, u)
    BY <1>5 DEF SaveEncode
  <2> HIDE DEF u
  <2>3. CarryOK(u, doc, updates, HeadSequence)
    BY <2>1 DEF CarryOK
  <2> QED BY <1>1, <1>2, <2>1, <2>2, <2>3, DurableMoves
<1> QED BY <1>3, <1>4, <1>5

\* Documents only grow, and nobody who carries operations opens a session.
LEMMA CarryGrows ==
    ASSUME NEW t, NEW docs, NEW docs2, NEW history, NEW n,
           docs[t.sid] \subseteq docs2[t.sid],
           CarryOK(t, docs, history, n)
    PROVE  CarryOK(t, docs2, history, n)
BY DEF CarryOK

LEMMA DurableApply ==
    ASSUME TypeInv, DurableInv, NEW h \in Handler,
           UpdateApply(h) \/ RewindApply(h)
    PROVE  DurableInv'
<1> DEFINE t == task[h]
<1>1. TaskOK(t, HeadSequence) /\ t \in Task /\ t.sid \in Session
      /\ t.sid <= opened /\ doc \in [Session -> SUBSET Op]
  BY HandlerOK DEF DurableInv, SessionsOpened, UpdateApply, RewindApply, TaskOK,
                   UpdatePc, RewindPc, TypeInv, TypeOK, SessionTypeOK
<1>2. /\ UNCHANGED <<updates, snapshots, opened, inFlight, acked, forked,
                     current>>
      /\ doc' = [doc EXCEPT ![t.sid] = @ \cup {t.op}]
  BY DEF UpdateApply, RewindApply, historyVars, roomVars, clientVars,
         witnessVars
<1>3. \A sid : doc[sid] \subseteq doc'[sid]
  BY <1>1, <1>2
<1>4. t.op \in doc'[t.sid]
  BY <1>1, <1>2
<1>5. PICK u : /\ Become(h, u) /\ u.sid <= opened
               /\ CarryOK(u, doc', updates, HeadSequence)
  <2>1. CASE UpdateApply(h)
    <3>1. Become(h, Idle) /\ Idle.sid <= opened
      BY <2>1, IdleCarries, SessionNumbers DEF UpdateApply, Finish
    <3> QED BY <3>1, IdleCarries
  <2>2. CASE RewindApply(h)
    <3> DEFINE u == [t EXCEPT !.pc = "rewindAppend", !.body = {t.op}]
    <3>1. u.pc = "rewindAppend" /\ u.sid = t.sid /\ u.op = t.op /\ u.body = {t.op}
      BY <1>1 DEF Task
    <3>2. Become(h, u)
      BY <2>2 DEF RewindApply
    <3> HIDE DEF u
    <3>3. CarryOK(u, doc', updates, HeadSequence)
      BY <1>4, <3>1 DEF CarryOK
    <3> QED BY <1>1, <3>1, <3>2, <3>3
  <2> QED BY <2>1, <2>2
<1>6. \A g \in Handler : task'[g] = IF g = h THEN u ELSE task[g]
  BY <1>5 DEF TypeInv, TypeOK, Become
<1>7. HeadSequence' = HeadSequence
  BY <1>2 DEF HeadSequence
<1>8. SessionsOpened'
  BY <1>2, <1>5, <1>6 DEF DurableInv, SessionsOpened
<1>9. ASSUME Complete PROVE Complete'
  <2>1. \A g \in Handler : CarryOK(task'[g], doc', updates, HeadSequence)
    <3>1. \A g \in Handler : CarryOK(task[g], doc', updates, HeadSequence)
      <4>1. \A g \in Handler : CarryOK(task[g], doc, updates, HeadSequence)
        BY <1>9 DEF Complete
      <4> QED BY <1>3, <4>1, CarryGrows
    <3> QED BY <1>5, <1>6, <3>1
  <2>2. current # None => Content(updates, HeadSequence) \subseteq doc'[current]
    BY <1>3, <1>9 DEF Complete
  <2> QED BY <1>2, <1>7, <1>9, <2>1, <2>2 DEF Complete
<1> QED BY <1>2, <1>8, <1>9 DEF DurableInv

LEMMA DurableInstall ==
    ASSUME TypeInv, WatchInv, DurableInv, NEW h \in Handler,
           OpenInstall(h) \/ OpenContent(h)
    PROVE  DurableInv'
<1> DEFINE sid == opened + 1
<1>1. PICK body, position : Install(h, body, position)
         /\ (Complete /\ ~forked
               => Content(updates, HeadSequence) \subseteq body)
  <2>1. CASE OpenInstall(h)
    <3>1. Complete => Content(updates, HeadSequence) \subseteq task[h].body
      BY <2>1 DEF OpenInstall, Complete, CarryOK
    <3>2. Install(h, task[h].body, task[h].sequence)
      BY <2>1 DEF OpenInstall
    <3> QED BY <3>1, <3>2
  <2>2. CASE OpenContent(h)
    <3>1. Install(h, {Seed(opened + 1)}, 0)
      BY <2>2 DEF OpenContent
    <3>2. ~forked => HeadSequence = 0
      BY <2>2 DEF OpenContent, WatchInv, Watched, Running
    <3>3. ~forked => Content(updates, HeadSequence) = {}
      BY <3>2, ContentEmpty
    <3> QED BY <3>1, <3>3
  <2> QED BY <2>1, <2>2
<1>2. /\ opened' = sid /\ doc' = [doc EXCEPT ![sid] = body] /\ current' = sid
      /\ UNCHANGED <<updates, snapshots, inFlight, acked, forked>>
      /\ \A g \in Handler : task'[g] \in {task[g], Idle}
  BY <1>1 DEF Install, Attach, historyVars, witnessVars
<1>3. sid \in Session /\ doc \in [Session -> SUBSET Op]
  <2>1. TypeInv'
    BY OpenInv
  <2>2. opened' \in Session \cup {0} /\ opened \in Nat
    BY <2>1, SessionNumbers DEF TypeInv, TypeOK, SessionTypeOK
  <2> QED BY <1>2, <2>2 DEF TypeInv, TypeOK, SessionTypeOK
<1>4. \A g \in Handler : task'[g].sid <= opened
  BY <1>2, IdleCarries, SessionNumbers DEF DurableInv, SessionsOpened
<1>5. SessionsOpened'
  <2>1. opened \in Nat /\ \A g \in Handler : task'[g].sid \in Nat
    BY <1>2, IdleCarries, SessionNumbers
  <2> QED BY <1>2, <1>4, <2>1 DEF SessionsOpened
<1>6. ASSUME Complete, ~forked PROVE Complete'
  <2>1. HeadSequence' = HeadSequence
    BY <1>2 DEF HeadSequence
  <2>2. Content(updates, HeadSequence) \subseteq doc'[current']
    BY <1>1, <1>2, <1>3, <1>6
  <2>3. ASSUME NEW g \in Handler
        PROVE  CarryOK(task'[g], doc', updates, HeadSequence)
    <3>1. CASE task'[g] = Idle
      BY <3>1, IdleCarries
    <3>2. CASE task'[g] = task[g]
      <4>1. task[g].sid # sid
        BY <1>4, <3>2, SessionNumbers
      <4>2. doc[task[g].sid] \subseteq doc'[task[g].sid]
        BY <1>2, <1>3, <4>1
      <4> QED BY <1>6, <3>2, <4>2, CarryGrows DEF Complete
    <3> QED BY <1>2, <3>1, <3>2
  <2> QED BY <1>2, <1>6, <2>1, <2>2, <2>3 DEF Complete
<1> QED BY <1>2, <1>5, <1>6 DEF DurableInv

\* Only the document the room has now may append without forking the history,
\* and it holds all the updates before.
LEMMA DurableAppend ==
    ASSUME TypeInv, RoomInv, DurableInv, NEW h \in Handler, AppendAnswer(h)
    PROVE  DurableInv'
<1> DEFINE t == task[h]  n == HeadSequence
           at == IF t.pc = "saveAppend" THEN "saveAck" ELSE "rewindRecord"
           u == [t EXCEPT !.pc = at, !.sequence = n + 1]
<1>1. TaskOK(t, n) /\ t \in Task /\ n \in Nat /\ t.sid \in Session
      /\ t.body \in SUBSET Op /\ updates \in Seq(SUBSET Op) /\ t.sid <= opened
  BY HandlerOK DEF AppendAnswer, TaskOK, Task, SavePc, RewindPc, TypeInv,
                   TypeOK,
                   HistoryTypeOK, DurableInv, SessionsOpened
<1>2. /\ t.pc \in {"saveAppend", "rewindAppend"}
      /\ updates' = Append(updates, t.body) /\ Become(h, u)
      /\ forked' = (forked \/ t.sid # current)
      /\ UNCHANGED <<snapshots, doc, opened, inFlight, acked, current, pending>>
  BY DEF AppendAnswer, AppendUpdate, roomVars, sessionVars
<1>3. HeadSequence' = n + 1
  BY <1>1, <1>2 DEF HeadSequence
<1>4. /\ u.pc = at /\ u.sid = t.sid /\ u.op = t.op /\ u.body = t.body
      /\ u.sequence = n + 1
  BY <1>1 DEF Task
<1>5. \A g \in Handler : task'[g] = IF g = h THEN u ELSE task[g]
  BY <1>2 DEF TypeInv, TypeOK, Become
<1>6. /\ \A m \in 0..n : Content(updates', m) = Content(updates, m)
      /\ Content(updates', n + 1) = Content(updates, n) \cup t.body
  BY <1>1, <1>2, ContentAppend DEF HeadSequence
<1>7. \/ at = "saveAck" /\ t.pc = "saveAppend"
      \/ at = "rewindRecord" /\ t.pc = "rewindAppend"
  <2>1. CASE t.pc = "saveAppend"
    BY <2>1
  <2>2. CASE t.pc = "rewindAppend"
    BY <2>2
  <2> QED BY <1>2, <2>1, <2>2
<1> HIDE DEF u, at
<1>8. SessionsOpened'
  BY <1>1, <1>2, <1>4, <1>5 DEF DurableInv, SessionsOpened
<1>9. forked \in BOOLEAN
  BY DEF TypeInv, TypeOK, ClientTypeOK
<1>10. ASSUME Complete, ~forked' PROVE Complete'
  <2>1. t.sid = current /\ current # None
    <3>1. ~(t.sid # current)
      BY <1>2, <1>9, <1>10, Zenon
    <3>2. t.sid # None
      BY <1>1 DEF Session, None
    <3> QED BY <3>1, <3>2
  <2>2. t.body \subseteq doc[current]
    BY <1>2, <1>10, <2>1 DEF Complete, CarryOK
  <2>3. Content(updates', n + 1) \subseteq doc[current]
    BY <1>6, <1>10, <2>1, <2>2 DEF Complete
  <2>4. ASSUME NEW q \in DOMAIN snapshots
        PROVE  Content(updates', q) \subseteq snapshots[q]
    BY <1>6, <1>10 DEF Complete, TypeInv, HistoryBounded
  <2>5. ASSUME NEW sid \in Session
        PROVE  \/ inFlight[sid] = NoSnapshot
               \/ Content(updates', inFlight[sid].sequence)
                    \subseteq inFlight[sid].body
    <3>1. inFlight[sid].sequence \in 0..n
      BY <1>1 DEF TypeInv, TypeOK, SessionTypeOK, HistoryBounded
    <3> QED BY <1>6, <1>10, <3>1 DEF Complete
  <2>6. acked \subseteq Content(updates', n + 1)
    BY <1>6, <1>10 DEF Complete
  <2>7. ASSUME NEW g \in Handler
        PROVE  CarryOK(task'[g], doc, updates', n + 1)
    <3>1. CASE g = h
      <4>1. u.pc = "rewindRecord" => u.op \in u.body
        BY <1>4, <1>7, <1>10 DEF Complete, CarryOK
      <4>2. u.body \subseteq Content(updates', n + 1)
        BY <1>4, <1>6
      <4>3. Content(updates', u.sequence) \subseteq doc[u.sid]
        BY <1>4, <2>1, <2>3
      <4>4. u.pc \in {"saveAck", "rewindRecord"}
        BY <1>4, <1>7
      <4> QED BY <1>5, <3>1, <4>1, <4>2, <4>3, <4>4 DEF CarryOK
    <3>2. CASE g # h
      <4>1. task[g].pc \notin OpenPc
        <5>1. ~pending
          BY <2>1 DEF RoomInv, OpeningInv
        <5> QED BY <5>1 DEF RoomInv, OpeningInv, Running
      <4>2. task[g].sequence \in 0..n
        BY HandlerOK DEF TaskOK, Task
      <4>3. CarryOK(task[g], doc, updates, n)
        BY <1>10 DEF Complete
      <4>4. Content(updates, n) \subseteq Content(updates', n + 1)
        BY <1>6
      <4>5. Content(updates', task[g].sequence)
              = Content(updates, task[g].sequence)
        BY <1>6, <4>2
      <4> QED BY <1>5, <3>2, <4>1, <4>3, <4>4, <4>5 DEF CarryOK, OpenPc
    <3> QED BY <3>1, <3>2
  <2> QED BY <1>2, <1>3, <2>3, <2>4, <2>5, <2>6, <2>7 DEF Complete
<1> QED BY <1>2, <1>8, <1>9, <1>10 DEF DurableInv

LEMMA DurableAck ==
    ASSUME TypeInv, DurableInv, NEW h \in Handler, SaveAck(h) \/ RewindRecord(h)
    PROVE  DurableInv'
<1> DEFINE t == task[h]
<1>1. t \in Task /\ t.sid <= opened /\ Idle.sid <= opened
  BY HandlerOK, IdleCarries, SessionNumbers DEF DurableInv, SessionsOpened
<1>2. UNCHANGED <<updates, snapshots, doc, opened, current,
                  forked>> /\ Finish(h)
  BY DEF SaveAck, RewindRecord, Recorded, historyVars
<1>3. \A g \in Handler : task'[g] = IF g = h THEN Idle ELSE task[g]
  BY <1>2 DEF TypeInv, TypeOK, Finish, Become
<1>4. HeadSequence' = HeadSequence
  BY <1>2 DEF HeadSequence
<1>5. SessionsOpened'
  BY <1>1, <1>2, <1>3 DEF DurableInv, SessionsOpened
<1>6. ASSUME Complete PROVE Complete'
  <2>1. CarryOK(t, doc, updates, HeadSequence)
    BY <1>6 DEF Complete
  <2>2. acked' \subseteq Content(updates, HeadSequence)
    <3>1. CASE SaveAck(h)
      BY <1>6, <2>1, <3>1 DEF SaveAck, CarryOK, Complete
    <3>2. CASE RewindRecord(h)
      BY <1>6, <2>1, <3>2 DEF RewindRecord, Recorded, CarryOK, Complete
    <3> QED BY <3>1, <3>2
  <2>3. ASSUME NEW sid \in Session
        PROVE  \/ inFlight'[sid] = NoSnapshot
               \/ Content(updates, inFlight'[sid].sequence)
                    \subseteq inFlight'[sid].body
    <3>1. CASE inFlight'[sid] = inFlight[sid]
      BY <1>6, <3>1 DEF Complete
    <3>2. CASE inFlight'[sid] # inFlight[sid]
      <4>1. SaveAck(h)
        BY <3>2 DEF RewindRecord, Recorded
      <4> DEFINE next == [sequence |-> t.sequence, body |-> doc[t.sid],
                          captured |-> sinceSnapshot[t.sid] + 1]
      <4>2. inFlight \in [Session -> [sequence : Nat, body : SUBSET Op,
                                      captured : Nat]]
        BY DEF TypeInv, TypeOK, SessionTypeOK
      <4>3. inFlight' = [inFlight EXCEPT ![t.sid] = next]
            \/ inFlight' = [inFlight EXCEPT ![t.sid] = inFlight[t.sid]]
        BY <4>1 DEF SaveAck, StartSnapshot
      <4>4. next.sequence = t.sequence /\ next.body = doc[t.sid]
        OBVIOUS
      <4>5. Content(updates, t.sequence) \subseteq doc[t.sid]
        BY <2>1, <4>1 DEF SaveAck, CarryOK
      <4> HIDE DEF next
      <4>6. inFlight'[sid] = next
        BY <3>2, <4>2, <4>3
      <4> QED BY <4>4, <4>5, <4>6
    <3> QED BY <3>1, <3>2
  <2>4. \A g \in Handler : CarryOK(task'[g], doc, updates, HeadSequence)
    BY <1>3, <1>6, IdleCarries DEF Complete
  <2> QED BY <1>2, <1>4, <1>6, <2>2, <2>3, <2>4 DEF Complete
<1> QED BY <1>2, <1>5, <1>6 DEF DurableInv

\* A snapshot row is written for a sequence whose updates it holds.
LEMMA DurableRow ==
    ASSUME TypeInv, DurableInv, NEW q, NEW body, SaveSnapshot(q, body),
           ~forked => Content(updates, q) \subseteq body,
           UNCHANGED <<updates, doc, opened, acked, current, forked>>,
           \A sid \in Session : inFlight'[sid] \in {inFlight[sid], NoSnapshot},
           \A g \in Handler :
              \/ task'[g] = task[g]
              \/ task'[g].sid <= opened
                 /\ (~forked => CarryOK(task'[g], doc, updates, HeadSequence))
    PROVE  DurableInv'
<1>1. HeadSequence' = HeadSequence
  BY DEF HeadSequence
<1>2. SessionsOpened'
  BY DEF DurableInv, SessionsOpened
<1>3. ASSUME Complete, ~forked PROVE Complete'
  <2>1. \A p \in DOMAIN snapshots' : Content(updates, p) \subseteq snapshots'[p]
    BY <1>3 DEF SaveSnapshot, Complete
  <2> QED BY <1>1, <1>3, <2>1 DEF Complete
<1> QED BY <1>2, <1>3 DEF DurableInv

LEMMA DurableSnapshots ==
    ASSUME TypeInv, DurableInv, NEW sid \in Session,
           SnapshotSaved(sid) \/ SnapshotFails(sid)
    PROVE  DurableInv'
<1>1. /\ UNCHANGED <<updates, doc, opened, acked, current, forked, task>>
      /\ inFlight' = [inFlight EXCEPT ![sid] = NoSnapshot]
  BY DEF SnapshotSaved, SnapshotWritten, Uncovered, SnapshotFails, historyVars,
         roomVars, witnessVars
<1>2. \A x \in Session : inFlight'[x] \in {inFlight[x], NoSnapshot}
  BY <1>1 DEF TypeInv, TypeOK, SessionTypeOK
<1>3. CASE SnapshotSaved(sid)
  <2>1. /\ SaveSnapshot(inFlight[sid].sequence, inFlight[sid].body)
        /\ inFlight[sid] # NoSnapshot
    BY <1>3 DEF SnapshotSaved, SnapshotWritten, Uncovered
  <2>2. ~forked => Content(updates, inFlight[sid].sequence)
                     \subseteq inFlight[sid].body
    BY <2>1 DEF DurableInv, Complete
  <2> QED BY <1>1, <1>2, <2>1, <2>2, DurableRow
<1>4. CASE SnapshotFails(sid)
  <2>1. UNCHANGED snapshots /\ HeadSequence' = HeadSequence
    BY <1>1, <1>4 DEF SnapshotFails, historyVars, HeadSequence
  <2>2. SessionsOpened'
    BY <1>1 DEF DurableInv, SessionsOpened
  <2>3. ASSUME Complete PROVE Complete'
    BY <1>1, <1>2, <2>1, <2>3 DEF Complete
  <2> QED BY <1>1, <2>2, <2>3 DEF DurableInv
<1> QED BY <1>3, <1>4

LEMMA DurableRewindSnapshot ==
    ASSUME TypeInv, DurableInv, NEW h \in Handler, RewindSnapshot(h)
    PROVE  DurableInv'
<1> DEFINE t == task[h]
           head == t.expected
           u == [t EXCEPT !.pc = "rewindApply"]
<1>1. TaskOK(t, HeadSequence) /\ t \in Task /\ HeadSequence \in Nat
      /\ t.sid <= opened /\ head \in 0..HeadSequence
  BY HandlerOK DEF TaskOK, Task, DurableInv, SessionsOpened
<1>2. u.pc = "rewindApply" /\ u.sid = t.sid
  BY <1>1 DEF Task
<1>3. UNCHANGED <<updates, doc, opened, acked, current, forked, inFlight>>
      /\ Become(h, u)
  BY DEF RewindSnapshot, Goto, roomVars, sessionVars, clientVars, witnessVars
<1> HIDE DEF u, head
<1>4. CASE UNCHANGED snapshots
  BY <1>1, <1>2, <1>3, <1>4, DurableGoto
<1>5. CASE SaveSnapshot(head, HydratedAt(head))
  <2>1. ~forked => Content(updates, head) \subseteq HydratedAt(head)
    BY <1>1, HydratedAtComplete DEF DurableInv
  <2>2. CarryOK(u, doc, updates, HeadSequence)
    BY <1>2 DEF CarryOK
  <2>3. \A g \in Handler : task'[g] = IF g = h THEN u ELSE task[g]
    BY <1>3 DEF TypeInv, TypeOK, Become
  <2>4. \A g \in Handler :
          \/ task'[g] = task[g]
          \/ task'[g].sid <= opened
             /\ (~forked => CarryOK(task'[g], doc, updates, HeadSequence))
    BY <1>1, <1>2, <2>2, <2>3
  <2> QED BY <1>3, <1>5, <2>1, <2>4, DurableRow
<1> QED BY <1>4, <1>5 DEF RewindSnapshot, head

LEMMA DurableCrash ==
    ASSUME TypeInv, DurableInv, Crash
    PROVE  DurableInv'
<1>1. /\ UNCHANGED <<updates, snapshots, doc, opened, acked, forked>>
      /\ current' = None
      /\ \A sid \in Session : inFlight'[sid] = NoSnapshot
      /\ \A g \in Handler : task'[g] = Idle
  BY DEF Crash, historyVars, witnessVars
<1>2. HeadSequence' = HeadSequence
  BY <1>1 DEF HeadSequence
<1>3. SessionsOpened'
  BY <1>1, IdleCarries, SessionNumbers DEF SessionsOpened
<1>4. ASSUME Complete PROVE Complete'
  BY <1>1, <1>2, <1>4, IdleCarries DEF Complete
<1> QED BY <1>1, <1>3, <1>4 DEF DurableInv

LEMMA DurableInit == Init => DurableInv
<1> SUFFICES ASSUME Init PROVE DurableInv
  OBVIOUS
<1>1. /\ updates = <<>> /\ DOMAIN snapshots = {} /\ current = None /\ opened = 0
      /\ acked = {}
      /\ \A sid \in Session : inFlight[sid] = NoSnapshot
      /\ \A g \in Handler : task[g] = Idle
  BY DEF Init, HistoryInit
<1>2. SessionsOpened
  BY <1>1, IdleCarries DEF SessionsOpened, None
<1>3. Complete
  BY <1>1, IdleCarries DEF Complete
<1> QED BY <1>2, <1>3 DEF DurableInv

LEMMA DurableHandler ==
    ASSUME TypeInv, RoomInv, WatchInv, DurableInv, NEW h \in Handler, HandlerStep(h)
    PROVE  DurableInv'
<1>1. CASE Authorize(h)
  BY <1>1, DurableReads
<1>2. CASE JoinStep(h)
  BY <1>2, DurableReads, DurableEnds, DurableOpenReads, DurableInstall
     DEF JoinStep
<1>3. CASE UpdateStep(h)
  BY <1>3, DurableApply, DurableEnds DEF UpdateStep
<1>4. CASE SaveStep(h)
  BY <1>4, DurableEnds, DurableOpenReads, DurableAppend, DurableAck DEF SaveStep
<1>5. CASE RewindStep(h)
  <2>1. CASE RewindCheck(h) \/ RewindTarget(h)
    BY <2>1, DurableReads
  <2>2. CASE RewindSnapshot(h)
    BY <2>2, DurableRewindSnapshot
  <2>3. CASE RewindApply(h)
    BY <2>3, DurableApply
  <2>4. CASE RewindReject(h) \/ RewindFails(h)
    BY <2>4, DurableEnds
  <2>5. CASE RewindRecord(h)
    BY <2>5, DurableAck
  <2> QED BY <1>5, <2>1, <2>2, <2>3, <2>4, <2>5 DEF RewindStep
<1> QED BY <1>1, <1>2, <1>3, <1>4, <1>5 DEF HandlerStep

LEMMA DurableNext ==
    ASSUME TypeInv, RoomInv, WatchInv, DurableInv, [Next]_vars
    PROVE  DurableInv'
<1>1. CASE \E s \in Socket : SocketEvent(s)
  BY <1>1, DurableSockets
<1>2. CASE \E h \in Handler : HandlerStep(h)
  BY <1>2, DurableHandler
<1>3. CASE \E sid \in Session : SnapshotSaved(sid) \/ SnapshotFails(sid)
  BY <1>3, DurableSnapshots
<1>4. CASE Crash
  BY <1>4, DurableCrash
<1>5. CASE UNCHANGED vars
  <2>1. UNCHANGED <<updates, snapshots, doc, opened, inFlight, acked, forked,
                    current, task>>
    BY <1>5 DEF vars, historyVars, sessionVars, roomVars, witnessVars
  <2> QED BY <2>1, DurableStill
<1> QED BY <1>1, <1>2, <1>3, <1>4, <1>5 DEF Next

\* Whatever the handlers of a room interleave with, whatever fails, and
\* wherever the process dies: what a save or a rewind acknowledged is in the
\* state a later opening loads, snapshots included.  Excepted are, as in Durable,
\* an append by a handler of a replaced session, and access that came back to a
\* socket while it opened the document without it.
THEOREM DurableCorrect == Spec => []Durable
<1>1. Init => TypeInv /\ RoomInv /\ WatchInv /\ DurableInv
  BY TypeInvInit, RoomInit, WatchInit, DurableInit
<1>2. TypeInv /\ RoomInv /\ WatchInv /\ DurableInv /\ [Next]_vars
        => (TypeInv /\ RoomInv /\ WatchInv /\ DurableInv)'
  BY TypeInvNext, RoomNext, WatchNext, DurableNext
<1>3. TypeInv /\ DurableInv => Durable
  <2> SUFFICES ASSUME TypeInv, DurableInv, ~forked
               PROVE  acked \subseteq Hydrated
    BY DEF Durable
  <2>1. HeadSequence \in 0..HeadSequence
    BY SessionNumbers
  <2>2. Complete
    BY DEF DurableInv
  <2>3. Content(updates, HeadSequence) \subseteq HydratedAt(HeadSequence)
    BY <2>1, <2>2, HydratedAtComplete
  <2> QED BY <2>2, <2>3, HydratedIsAtHead DEF Complete
<1> QED BY <1>1, <1>2, <1>3, PTL DEF Spec

-----------------------------------------------------------------------------
(* The content of the file is inserted once.                               *)

Seeds(body) == body \cap SeedOp
AtMostOne(S) == \A x, y \in S : x = y

\* The insertions of the file content that the update rows hold.
Stored == Seeds(Content(updates, HeadSequence))

\* What is built of the history holds no seed the update rows lack, a save
\* carries the seed of its document, and has stored it when it is answered.
SeedCarried(t, docs, stored) ==
    /\ t.pc \in {"openUpdates", "openInstall"} => Seeds(t.body) \subseteq stored
    /\ t.pc = "saveAppend" => Seeds(docs[t.sid]) \subseteq t.body
    /\ t.pc = "saveAck" => Seeds(docs[t.sid]) \subseteq stored

SeededOnce ==
    /\ current # None => AtMostOne(Seeds(doc[current]))
    /\ AtMostOne(Stored)
    /\ \A q \in DOMAIN snapshots : Seeds(snapshots[q]) \subseteq Stored
    /\ \A sid \in Session : Seeds(inFlight[sid].body) \subseteq Stored
    /\ \A h \in Handler : SeedCarried(task[h], doc, Stored)

SeedInv == ~forked => SeededOnce

\* Where a handler carries operations of the history or of a document.
CarryPc == {"openUpdates", "openInstall", "saveAppend", "saveAck"}

\* Editing inserts no file content.
LEMMA EditsNoSeed ==
    ASSUME NEW op \in Edit
    PROVE  op \notin SeedOp
BY ConstantsAssumption DEF Edit, SeedOp, Seed, Session

LEMMA SeedIdle ==
    ASSUME NEW docs, NEW stored
    PROVE  SeedCarried(Idle, docs, stored) /\ Idle.pc \notin CarryPc
BY DEF SeedCarried, Idle, NewTask, CarryPc

\* The state rebuilt from the history holds no seed the update rows lack.
LEMMA SeedsRebuilt ==
    ASSUME TypeInv, SeededOnce, NEW base \in 0..HeadSequence,
           NEW n \in 0..HeadSequence
    PROVE  /\ Seeds(SnapshotBody(base)) \subseteq Stored
           /\ Seeds(UpdateBodies(base + 1, n)) \subseteq Stored
<1>1. Seeds(SnapshotBody(base)) \subseteq Stored
  BY DEF SnapshotBody, SeededOnce, Seeds
<1>2. HeadSequence \in Nat
  BY SessionNumbers
<1>3. UpdateBodies(base + 1, n) \subseteq Content(updates, HeadSequence)
  <2>1. \A i \in (base + 1)..n : i \in 1..HeadSequence
    BY <1>2
  <2> QED BY <2>1 DEF UpdateBodies, Content
<1> QED BY <1>1, <1>3 DEF Stored, Seeds

LEMMA NewestInHistory ==
    ASSUME TypeInv, NEW held \in SUBSET DOMAIN snapshots
    PROVE  Newest(held) \in 0..HeadSequence
<1>1. HeadSequence \in Nat
  BY SessionNumbers
<1>2. held \in SUBSET (0..HeadSequence)
  BY DEF TypeInv, HistoryBounded
<1> QED BY <1>1, <1>2, NewestLemma

LEMMA SeedsHydrated ==
    ASSUME TypeInv, SeededOnce, NEW q \in 0..HeadSequence
    PROVE  Seeds(HydratedAt(q)) \subseteq Stored
<1> DEFINE held == {p \in DOMAIN snapshots : p <= q}
           base == Newest(held)
<1>1. held \in SUBSET DOMAIN snapshots
  OBVIOUS
<1>2. base \in 0..HeadSequence
  BY <1>1, NewestInHistory
<1> HIDE DEF base
<1>3. /\ Seeds(SnapshotBody(base)) \subseteq Stored
      /\ Seeds(UpdateBodies(base + 1, q)) \subseteq Stored
  BY <1>2, SeedsRebuilt
<1>4. HydratedAt(q) = SnapshotBody(base) \cup UpdateBodies(base + 1, q)
  BY DEF HydratedAt, base
<1> QED BY <1>3, <1>4 DEF Seeds

\* A step that appends nothing and opens nothing: no document gets another seed.
LEMMA SeedMoves ==
    ASSUME TypeInv', SeedInv, UNCHANGED updates, forked => forked',
           current' \in {current, None}, current' \in Session \cup {None},
           \A sid \in Session : Seeds(doc'[sid]) = Seeds(doc[sid]),
           ~forked => \A q \in DOMAIN snapshots' :
                         Seeds(snapshots'[q]) \subseteq Stored,
           ~forked => \A sid \in Session :
                         Seeds(inFlight'[sid].body) \subseteq Stored,
           \A g \in Handler :
              \/ task'[g] = task[g]
              \/ ~forked => SeedCarried(task'[g], doc, Stored)
    PROVE  SeedInv'
<1> SUFFICES ASSUME ~forked PROVE SeededOnce'
  BY DEF SeedInv
<1>1. SeededOnce
  BY DEF SeedInv
<1>2. Stored' = Stored
  BY DEF Stored, HeadSequence
<1>3. ASSUME current' # None PROVE AtMostOne(Seeds(doc'[current']))
  <2>1. current' = current /\ current \in Session
    BY <1>3
  <2>2. Seeds(doc'[current]) = Seeds(doc[current])
    BY <2>1
  <2> QED BY <1>1, <1>3, <2>1, <2>2 DEF SeededOnce
<1>4. ASSUME NEW g \in Handler PROVE SeedCarried(task'[g], doc', Stored)
  <2>1. SeedCarried(task'[g], doc, Stored)
    BY <1>1 DEF SeededOnce
  <2>2. task'[g].pc \in {"saveAppend", "saveAck"} => task'[g].sid \in Session
    BY DEF TypeInv, HandlersOK, TaskOK, SavePc
  <2> QED BY <2>1, <2>2 DEF SeedCarried
<1> QED BY <1>1, <1>2, <1>3, <1>4 DEF SeededOnce

\* A step that leaves the history and the documents alone, and after which no
\* other handler carries operations.
LEMMA SeedStill ==
    ASSUME TypeInv, TypeInv', SeedInv,
           UNCHANGED <<updates, snapshots, doc>>,
           forked => forked', current' \in {current, None},
           \A sid \in Session : inFlight'[sid] \in {inFlight[sid], NoSnapshot},
           \A g \in Handler : \/ task'[g] = task[g]
                              \/ task'[g].pc \notin CarryPc
    PROVE  SeedInv'
<1>1. current' \in Session \cup {None}
  BY DEF TypeInv, TypeOK, RoomTypeOK
<1>2. ASSUME ~forked, NEW sid \in Session
      PROVE  Seeds(inFlight'[sid].body) \subseteq Stored
  <2>1. Seeds(NoSnapshot.body) = {}
    BY DEF Seeds, NoSnapshot
  <2> QED BY <1>2, <2>1 DEF SeedInv, SeededOnce
<1>3. \A g \in Handler : \/ task'[g] = task[g]
                         \/ SeedCarried(task'[g], doc, Stored)
  BY DEF CarryPc, SeedCarried
<1>4. ~forked => \A q \in DOMAIN snapshots' : Seeds(snapshots'[q]) \subseteq Stored
  BY DEF SeedInv, SeededOnce
<1> QED BY <1>1, <1>2, <1>3, <1>4, SeedMoves

LEMMA SeedStillBecomes ==
    ASSUME TypeInv, TypeInv', SeedInv, NEW h \in Handler, NEW t, Become(h, t),
           t.pc \notin CarryPc,
           UNCHANGED <<updates, snapshots, doc, forked, inFlight>>,
           current' \in {current, None}
    PROVE  SeedInv'
<1>1. \A g \in Handler : task'[g] = IF g = h THEN t ELSE task[g]
  BY DEF TypeInv, TypeOK, Become
<1>2. \A sid \in Session : inFlight'[sid] \in {inFlight[sid], NoSnapshot}
  OBVIOUS
<1> QED BY <1>1, <1>2, SeedStill

LEMMA SeedSockets ==
    ASSUME TypeInv, TypeInv', SeedInv, NEW s \in Socket, SocketEvent(s)
    PROVE  SeedInv'
<1>1. CASE Connect(s) \/ Disconnect(s) \/ Revoke(s) \/ Grant(s) \/ Leave(s)
  <2>1. /\ UNCHANGED <<updates, snapshots, doc>> /\ inFlight' = inFlight
        /\ current' \in {current, None} /\ task' = task
    BY <1>1 DEF Connect, Disconnect, Revoke, Grant, Leave, RemoveFromRoom,
             Remove, roomVars, historyVars, sessionVars
  <2>2. forked => forked'
    BY <1>1, SocketsFork
  <2>3. /\ \A g \in Handler : task'[g] = task[g]
        /\ \A sid \in Session : inFlight'[sid] \in {inFlight[sid], NoSnapshot}
    BY <2>1
  <2> QED BY <2>1, <2>2, <2>3, SeedStill, Zenon
<1>2. ASSUME NEW h \in Handler,
             \/ JoinStart(s, h) \/ UpdateStart(s, h)
             \/ SaveStart(s, h) \/ RewindStart(s, h)
      PROVE  SeedInv'
  <2>1. UNCHANGED <<historyVars, roomVars, sessionVars, witnessVars>>
    BY <1>2 DEF JoinStart, UpdateStart, SaveStart, RewindStart
  <2>2. PICK at, sid, op, expected, target :
           /\ Become(h, NewTask(at, s, sid, op, expected, target))
           /\ at \in {"joinAuth", "updateAuth", "saveAuth", "rewindAuth"}
    <3>1. CASE JoinStart(s, h)
      BY <3>1, Zenon DEF JoinStart, Start
    <3>2. CASE UpdateStart(s, h)
      BY <3>2, Zenon DEF UpdateStart, Start
    <3>3. CASE SaveStart(s, h)
      BY <3>3, Zenon DEF SaveStart, Start
    <3>4. CASE RewindStart(s, h)
      BY <3>4, Zenon DEF RewindStart, Start
    <3> QED BY <1>2, <3>1, <3>2, <3>3, <3>4
  <2> DEFINE u == NewTask(at, s, sid, op, expected, target)
  <2>3. u.pc = at
    BY DEF NewTask
  <2>4. Become(h, u)
    BY <2>2
  <2> HIDE DEF u
  <2>5. u.pc \notin CarryPc
    BY <2>2, <2>3 DEF CarryPc
  <2>6. UNCHANGED <<updates, snapshots, doc, inFlight, forked, current>>
    BY <2>1 DEF historyVars, roomVars, sessionVars, witnessVars
  <2> QED BY <2>4, <2>5, <2>6, SeedStillBecomes
<1> QED BY <1>1, <1>2 DEF SocketEvent

\* Handlers that read or end without touching history or documents.
LEMMA SeedReads ==
    ASSUME TypeInv, TypeInv', SeedInv, NEW h \in Handler,
           \/ Authorize(h) \/ JoinPending(h) \/ JoinCreate(h)
           \/ RewindCheck(h) \/ RewindTarget(h)
           \/ UpdateEvict(h) \/ SaveSkip(h) \/ SaveFails(h)
           \/ RewindReject(h) \/ RewindFails(h) \/ RewindRecord(h)
    PROVE  SeedInv'
<1> DEFINE t == task[h]
<1>1. t \in Task
  BY HandlerOK
<1>2. CASE \/ Authorize(h) \/ JoinPending(h) \/ JoinCreate(h)
           \/ RewindCheck(h) \/ RewindTarget(h)
  <2>1. UNCHANGED <<updates, snapshots, doc, inFlight, forked, current>>
    BY <1>2 DEF Authorize, JoinPending, JoinCreate, RewindCheck, RewindTarget,
           historyVars, roomVars, sessionVars, witnessVars
  <2>2. PICK u : /\ Become(h, u)
                 /\ u.pc \in {"idle", "joinOpen", "updateApply", "updateEvict",
                              "saveEncode", "rewindCheck", "joinWait",
                              "openSnapshot", "rewindTarget", "rewindSnapshot"}
    <3>1. CASE Authorize(h)
      BY <1>1, <3>1 DEF Authorize, Task, Idle, NewTask
    <3>2. CASE JoinPending(h) \/ JoinCreate(h)
      BY <1>1, <3>2 DEF JoinPending, JoinCreate, Goto, Task
    <3>3. CASE RewindCheck(h) \/ RewindTarget(h)
      BY <1>1, <3>3 DEF RewindCheck, RewindTarget, Goto, Task
    <3> QED BY <1>2, <3>1, <3>2, <3>3
  <2>3. u.pc \notin CarryPc
    BY <2>2 DEF CarryPc
  <2> QED BY <2>1, <2>2, <2>3, SeedStillBecomes
<1>3. CASE \/ UpdateEvict(h) \/ SaveSkip(h) \/ SaveFails(h)
           \/ RewindReject(h) \/ RewindFails(h) \/ RewindRecord(h)
  <2>1. /\ UNCHANGED <<updates, snapshots, doc, inFlight, forked>>
        /\ Become(h, Idle) /\ current' \in {current, None}
    BY <1>3 DEF UpdateEvict, RemoveFromRoom, Remove, SaveSkip, SaveFails,
                RewindReject, RewindFails, RewindRecord, Recorded, Finish,
                historyVars, sessionVars, roomVars, witnessVars
  <2> QED BY <2>1, SeedIdle, SeedStillBecomes
<1> QED BY <1>2, <1>3

LEMMA SeedJoinEnds ==
    ASSUME TypeInv, TypeInv', SeedInv, NEW h \in Handler,
           JoinExisting(h) \/ OpenFails(h)
    PROVE  SeedInv'
<1>1. /\ UNCHANGED <<updates, snapshots, doc, inFlight, forked, current>>
      /\ \A g \in Handler : task'[g] \in {task[g], Idle}
  BY DEF JoinExisting, Attach, OpenFails, historyVars, sessionVars, witnessVars
<1>2. \A g \in Handler : task'[g] = task[g] \/ task'[g].pc \notin CarryPc
  BY <1>1, SeedIdle
<1> QED BY <1>1, <1>2, SeedStill

\* Opening and encoding read the history, and a document, as they are.
LEMMA SeedCarry ==
    ASSUME TypeInv, TypeInv', SeedInv, NEW h \in Handler, NEW t, Become(h, t),
           UNCHANGED <<updates, snapshots, doc, forked, inFlight, current>>,
           ~forked => SeedCarried(t, doc, Stored)
    PROVE  SeedInv'
<1>1. \A g \in Handler : task'[g] = IF g = h THEN t ELSE task[g]
  BY DEF TypeInv, TypeOK, Become
<1>2. current' \in Session \cup {None}
  BY DEF TypeInv, TypeOK, RoomTypeOK
<1>3. ~forked => \A q \in DOMAIN snapshots' : Seeds(snapshots'[q]) \subseteq Stored
  BY DEF SeedInv, SeededOnce
<1>4. ~forked => \A sid \in Session : Seeds(inFlight'[sid].body) \subseteq Stored
  BY DEF SeedInv, SeededOnce
<1>5. \A g \in Handler : \/ task'[g] = task[g]
                         \/ ~forked => SeedCarried(task'[g], doc, Stored)
  BY <1>1
<1>6. \A sid \in Session : Seeds(doc'[sid]) = Seeds(doc[sid])
  OBVIOUS
<1> QED BY <1>2, <1>3, <1>4, <1>5, <1>6, SeedMoves

LEMMA SeedOpenReads ==
    ASSUME TypeInv, TypeInv', SeedInv, NEW h \in Handler,
           OpenSnapshot(h) \/ OpenUpdates(h) \/ SaveEncode(h)
    PROVE  SeedInv'
<1> DEFINE t == task[h]
<1>1. TaskOK(t, HeadSequence) /\ t \in Task /\ HeadSequence \in Nat
  BY HandlerOK
<1>2. UNCHANGED <<updates, snapshots, doc, forked, inFlight, current>>
  BY DEF OpenSnapshot, OpenUpdates, SaveEncode, historyVars, roomVars,
         sessionVars, witnessVars
<1>3. CASE OpenSnapshot(h)
  <2> DEFINE base == Newest(DOMAIN snapshots)
             u == [t EXCEPT !.pc = "openUpdates", !.sequence = base,
                            !.body = SnapshotBody(base)]
             v == [t EXCEPT !.pc = "openContent"]
  <2>1. /\ u.pc = "openUpdates" /\ u.body = SnapshotBody(base)
        /\ v.pc = "openContent"
    BY <1>1 DEF Task
  <2>2. Become(h, u) \/ Become(h, v)
    BY <1>3 DEF OpenSnapshot
  <2>3. base \in 0..HeadSequence
    BY NewestInHistory
  <2> HIDE DEF base, u, v
  <2>4. ~forked => Seeds(SnapshotBody(base)) \subseteq Stored
    <3>1. HeadSequence \in 0..HeadSequence
      BY <1>1
    <3> QED BY <2>3, <3>1, SeedsRebuilt DEF SeedInv
  <2>5. CASE Become(h, v)
    BY <1>2, <2>1, <2>5, SeedStillBecomes DEF CarryPc
  <2>6. CASE Become(h, u)
    <3>1. ~forked => SeedCarried(u, doc, Stored)
      BY <2>1, <2>4 DEF SeedCarried
    <3> QED BY <1>2, <2>6, <3>1, SeedCarry
  <2> QED BY <2>2, <2>5, <2>6
<1>4. CASE OpenUpdates(h)
  <2> DEFINE base == t.sequence
             head == IF HeadSequence > base THEN HeadSequence ELSE base
             held == UpdateBodies(base + 1, head)
             u == [t EXCEPT !.pc = "openInstall", !.sequence = head,
                            !.body = @ \cup UpdateBodies(base + 1, head)]
             v == [t EXCEPT !.pc = "openContent"]
  <2>1. base \in 0..HeadSequence /\ head = HeadSequence
    BY <1>1 DEF TaskOK, Task
  <2>2. /\ u.pc = "openInstall" /\ u.body = t.body \cup held
        /\ v.pc = "openContent"
    <3> HIDE DEF head, base
    <3> QED BY <1>1 DEF Task
  <2>3. Become(h, u) \/ Become(h, v)
    BY <1>4 DEF OpenUpdates
  <2>4. ~forked => Seeds(t.body) \subseteq Stored
    BY <1>4 DEF SeedInv, SeededOnce, SeedCarried, OpenUpdates
  <2>5. ~forked => Seeds(held) \subseteq Stored
    <3>1. head \in 0..HeadSequence
      BY <1>1, <2>1
    <3> HIDE DEF head, base
    <3> QED BY <2>1, <3>1, SeedsRebuilt DEF SeedInv
  <2> HIDE DEF u, v, base, head, held
  <2>6. CASE Become(h, v)
    BY <1>2, <2>2, <2>6, SeedStillBecomes DEF CarryPc
  <2>7. CASE Become(h, u)
    <3>1. ~forked => SeedCarried(u, doc, Stored)
      BY <2>2, <2>4, <2>5 DEF SeedCarried, Seeds
    <3> QED BY <1>2, <2>7, <3>1, SeedCarry
  <2> QED BY <2>3, <2>6, <2>7
<1>5. CASE SaveEncode(h)
  <2> DEFINE u == [t EXCEPT !.pc = "saveAppend", !.body = doc[t.sid]]
  <2>1. u.pc = "saveAppend" /\ u.sid = t.sid /\ u.body = doc[t.sid]
    BY <1>1 DEF Task
  <2>2. Become(h, u)
    BY <1>5 DEF SaveEncode
  <2> HIDE DEF u
  <2>3. SeedCarried(u, doc, Stored)
    BY <2>1 DEF SeedCarried, Seeds
  <2> QED BY <1>2, <2>2, <2>3, SeedCarry
<1> QED BY <1>3, <1>4, <1>5

LEMMA SeedApply ==
    ASSUME TypeInv, TypeInv', SeedInv, NEW h \in Handler,
           UpdateApply(h) \/ RewindApply(h)
    PROVE  SeedInv'
<1> DEFINE t == task[h]
<1>1. t \in Task /\ t.sid \in Session /\ t.op \in Edit
      /\ doc \in [Session -> SUBSET Op]
  BY HandlerOK DEF UpdateApply, RewindApply, TaskOK, UpdatePc, RewindPc,
                   TypeInv, TypeOK, SessionTypeOK
<1>2. /\ UNCHANGED <<updates, snapshots, inFlight, forked, current>>
      /\ doc' = [doc EXCEPT ![t.sid] = @ \cup {t.op}]
  BY DEF UpdateApply, RewindApply, historyVars, roomVars, clientVars,
         witnessVars
<1>3. \A sid \in Session : Seeds(doc'[sid]) = Seeds(doc[sid])
  BY <1>1, <1>2, EditsNoSeed DEF Seeds
<1>4. PICK u : Become(h, u) /\ u.pc \notin CarryPc
  <2>1. CASE UpdateApply(h)
    BY <2>1, SeedIdle DEF UpdateApply, Finish
  <2>2. CASE RewindApply(h)
    <3> DEFINE u == [t EXCEPT !.pc = "rewindAppend", !.body = {t.op}]
    <3>1. u.pc = "rewindAppend"
      BY <1>1 DEF Task
    <3>2. Become(h, u)
      BY <2>2 DEF RewindApply
    <3> HIDE DEF u
    <3> QED BY <3>1, <3>2 DEF CarryPc
  <2> QED BY <2>1, <2>2
<1>5. \A g \in Handler : task'[g] = IF g = h THEN u ELSE task[g]
  BY <1>4 DEF TypeInv, TypeOK, Become
<1>6. \A g \in Handler : \/ task'[g] = task[g]
                         \/ ~forked => SeedCarried(task'[g], doc, Stored)
  BY <1>4, <1>5 DEF SeedCarried, CarryPc
<1>7. current' \in {current, None} /\ current' \in Session \cup {None}
  BY <1>2 DEF TypeInv, TypeOK, RoomTypeOK
<1>8. /\ ~forked => \A q \in DOMAIN snapshots' :
                       Seeds(snapshots'[q]) \subseteq Stored
      /\ ~forked => \A sid \in Session :
                       Seeds(inFlight'[sid].body) \subseteq Stored
  BY <1>2 DEF SeedInv, SeededOnce
<1> QED BY <1>2, <1>3, <1>6, <1>7, <1>8, SeedMoves

\* A session opens with what the history holds, or with a seed of its own when
\* there is no history.
LEMMA SeedInstall ==
    ASSUME TypeInv, TypeInv', DurableInv, SeedInv, NEW h \in Handler,
           OpenInstall(h) \/ OpenContent(h)
    PROVE  SeedInv'
<1> SUFFICES ASSUME ~forked' PROVE SeededOnce'
  BY DEF SeedInv
<1> DEFINE sid == opened + 1
<1>1. PICK body, position : Install(h, body, position)
                            /\ (~forked => AtMostOne(Seeds(body)))
  <2>1. CASE OpenInstall(h)
    <3>1. Install(h, task[h].body, task[h].sequence)
      BY <2>1 DEF OpenInstall
    <3>2. ~forked => Seeds(task[h].body) \subseteq Stored /\ AtMostOne(Stored)
      BY <2>1 DEF OpenInstall, SeedInv, SeededOnce, SeedCarried
    <3>3. ~forked => AtMostOne(Seeds(task[h].body))
      BY <3>2 DEF AtMostOne
    <3> QED BY <3>1, <3>3
  <2>2. CASE OpenContent(h)
    <3>1. Install(h, {Seed(opened + 1)}, 0)
      BY <2>2 DEF OpenContent
    <3>2. AtMostOne(Seeds({Seed(opened + 1)}))
      BY DEF AtMostOne, Seeds
    <3> QED BY <3>1, <3>2
  <2> QED BY <2>1, <2>2
<1>2. /\ opened' = sid /\ doc' = [doc EXCEPT ![sid] = body] /\ current' = sid
      /\ UNCHANGED <<updates, snapshots, inFlight, forked>>
      /\ \A g \in Handler : task'[g] \in {task[g], Idle}
  BY <1>1 DEF Install, Attach, historyVars, witnessVars
<1>3. sid \in Session /\ doc \in [Session -> SUBSET Op]
  <2>1. opened' \in Session \cup {0} /\ opened \in Nat
    BY SessionNumbers DEF TypeInv, TypeOK, SessionTypeOK
  <2> QED BY <1>2, <2>1 DEF TypeInv, TypeOK, SessionTypeOK
<1>4. SeededOnce /\ ~forked
  BY <1>2 DEF SeedInv
<1>5. Stored' = Stored
  BY <1>2 DEF Stored, HeadSequence
<1>6. AtMostOne(Seeds(doc'[current']))
  BY <1>1, <1>2, <1>3, <1>4
<1>7. ASSUME NEW g \in Handler PROVE SeedCarried(task'[g], doc', Stored)
  <2>1. CASE task'[g] = Idle
    BY <2>1, SeedIdle
  <2>2. CASE task'[g] = task[g]
    <3>1. task[g].sid # sid
      BY SessionNumbers DEF DurableInv, SessionsOpened
    <3>2. doc'[task[g].sid] = doc[task[g].sid]
      BY <1>2, <1>3, <3>1
    <3>3. SeedCarried(task[g], doc, Stored)
      BY <1>4 DEF SeededOnce
    <3> QED BY <2>2, <3>2, <3>3 DEF SeedCarried
  <2> QED BY <1>2, <2>1, <2>2
<1> QED BY <1>2, <1>4, <1>5, <1>6, <1>7 DEF SeededOnce

\* Who appends is the session the room has now: what it adds is its own seed,
\* and the one the history has is that one, since the document holds it.
LEMMA SeedAppend ==
    ASSUME TypeInv, DurableInv, SeedInv, NEW h \in Handler, AppendAnswer(h)
    PROVE  SeedInv'
<1> SUFFICES ASSUME ~forked' PROVE SeededOnce'
  BY DEF SeedInv
<1> DEFINE t == task[h]  n == HeadSequence
           at == IF t.pc = "saveAppend" THEN "saveAck" ELSE "rewindRecord"
           u == [t EXCEPT !.pc = at, !.sequence = n + 1]
<1>1. TaskOK(t, n) /\ t \in Task /\ n \in Nat /\ t.sid \in Session
      /\ t.body \in SUBSET Op /\ updates \in Seq(SUBSET Op)
  BY HandlerOK DEF AppendAnswer, TaskOK, Task, SavePc, RewindPc, TypeInv,
                   TypeOK, HistoryTypeOK
<1>2. /\ t.pc \in {"saveAppend", "rewindAppend"}
      /\ updates' = Append(updates, t.body) /\ Become(h, u)
      /\ forked' = (forked \/ t.sid # current)
      /\ UNCHANGED <<snapshots, doc, inFlight, current>>
  BY DEF AppendAnswer, AppendUpdate, roomVars, sessionVars
<1>3. ~forked /\ t.sid = current
  BY <1>2, Zenon
<1>4. SeededOnce /\ Complete
  BY <1>3 DEF SeedInv, DurableInv
<1>5. /\ u.pc = at /\ u.sid = t.sid
  BY <1>1 DEF Task
<1>6. \A g \in Handler : task'[g] = IF g = h THEN u ELSE task[g]
  BY <1>2 DEF TypeInv, TypeOK, Become
<1>7. \/ at = "saveAck" /\ t.pc = "saveAppend"
      \/ at = "rewindRecord" /\ t.pc = "rewindAppend"
  <2>1. CASE t.pc = "saveAppend"
    BY <2>1
  <2>2. CASE t.pc = "rewindAppend"
    BY <2>2
  <2> QED BY <1>2, <2>1, <2>2
<1> HIDE DEF u, at
<1>8. Stored' = Stored \cup Seeds(t.body)
  <2>1. HeadSequence' = n + 1
    BY <1>1, <1>2 DEF HeadSequence
  <2>2. Content(updates', n + 1) = Content(updates, n) \cup t.body
    BY <1>1, <1>2, ContentAppend DEF HeadSequence
  <2> QED BY <2>1, <2>2 DEF Stored, Seeds
<1>9. current # None
  BY <1>1, <1>3 DEF Session, None
<1>10. AtMostOne(Stored')
  <2>1. Content(updates, n) \subseteq doc[current]
    BY <1>4, <1>9 DEF Complete
  <2>2. t.body \subseteq doc[current]
    BY <1>2, <1>3, <1>4 DEF Complete, CarryOK
  <2>3. Stored' \subseteq Seeds(doc[current])
    BY <1>8, <2>1, <2>2 DEF Stored, Seeds
  <2>4. AtMostOne(Seeds(doc[current]))
    BY <1>4, <1>9 DEF SeededOnce
  <2> QED BY <2>3, <2>4 DEF AtMostOne
<1>11. ASSUME NEW g \in Handler PROVE SeedCarried(task'[g], doc, Stored')
  <2>1. SeedCarried(task[g], doc, Stored)
    BY <1>4 DEF SeededOnce
  <2>2. CASE g # h
    BY <1>6, <1>8, <2>1, <2>2 DEF SeedCarried
  <2>3. CASE g = h
    <3>1. t.pc = "saveAppend" => Seeds(doc[t.sid]) \subseteq t.body
      BY <2>1, <2>3 DEF SeedCarried
    <3>2. t.pc = "saveAppend" => Seeds(doc[t.sid]) \subseteq Stored'
      BY <1>8, <3>1 DEF Seeds
    <3> QED BY <1>5, <1>6, <1>7, <2>3, <3>2 DEF SeedCarried
  <2> QED BY <2>2, <2>3
<1> QED BY <1>2, <1>4, <1>8, <1>10, <1>11 DEF SeededOnce

\* The snapshot a save starts is of a document whose seed is stored.
LEMMA SeedAck ==
    ASSUME TypeInv, TypeInv', SeedInv, NEW h \in Handler, SaveAck(h)
    PROVE  SeedInv'
<1> DEFINE t == task[h]
           next == [sequence |-> t.sequence, body |-> doc[t.sid],
                    captured |-> sinceSnapshot[t.sid] + 1]
<1>1. UNCHANGED <<updates, snapshots, doc, current, forked>> /\ Become(h, Idle)
  BY DEF SaveAck, Finish, historyVars
<1>2. \A g \in Handler : task'[g] = IF g = h THEN Idle ELSE task[g]
  BY <1>1 DEF TypeInv, TypeOK, Become
<1>3. ASSUME ~forked PROVE Seeds(doc[t.sid]) \subseteq Stored
  BY <1>3 DEF SeedInv, SeededOnce, SeedCarried, SaveAck
<1>4. next.body = doc[t.sid]
  OBVIOUS
<1>5. \A sid \in Session : inFlight'[sid] \in {inFlight[sid], next}
  <2>1. inFlight' = [inFlight EXCEPT ![t.sid] = next]
        \/ inFlight' = [inFlight EXCEPT ![t.sid] = inFlight[t.sid]]
    BY DEF SaveAck, StartSnapshot
  <2> HIDE DEF next
  <2> QED BY <2>1 DEF TypeInv, TypeOK, SessionTypeOK
<1> HIDE DEF next
<1>6. ~forked => \A sid \in Session : Seeds(inFlight'[sid].body) \subseteq Stored
  BY <1>3, <1>4, <1>5 DEF SeedInv, SeededOnce
<1>7. \A g \in Handler : \/ task'[g] = task[g]
                         \/ ~forked => SeedCarried(task'[g], doc, Stored)
  BY <1>2, SeedIdle
<1>8. ~forked => \A q \in DOMAIN snapshots' : Seeds(snapshots'[q]) \subseteq Stored
  BY <1>1 DEF SeedInv, SeededOnce
<1>9. current' \in {current, None} /\ current' \in Session \cup {None}
  BY <1>1 DEF TypeInv, TypeOK, RoomTypeOK
<1>10. \A sid \in Session : Seeds(doc'[sid]) = Seeds(doc[sid])
  BY <1>1
<1> QED BY <1>1, <1>6, <1>7, <1>8, <1>9, <1>10, SeedMoves

\* A snapshot row whose seed is stored.
LEMMA SeedRow ==
    ASSUME TypeInv, TypeInv', SeedInv, NEW q, NEW body, SaveSnapshot(q, body),
           ~forked => Seeds(body) \subseteq Stored,
           UNCHANGED <<updates, doc, current, forked>>,
           \A sid \in Session : inFlight'[sid] \in {inFlight[sid], NoSnapshot},
           \A g \in Handler : \/ task'[g] = task[g]
                              \/ task'[g].pc \notin CarryPc
    PROVE  SeedInv'
<1>1. ~forked => \A p \in DOMAIN snapshots' : Seeds(snapshots'[p]) \subseteq Stored
  BY DEF SeedInv, SeededOnce, SaveSnapshot
<1>2. ASSUME ~forked, NEW sid \in Session
      PROVE  Seeds(inFlight'[sid].body) \subseteq Stored
  <2>1. Seeds(NoSnapshot.body) = {}
    BY DEF Seeds, NoSnapshot
  <2> QED BY <1>2, <2>1 DEF SeedInv, SeededOnce
<1>3. \A g \in Handler : \/ task'[g] = task[g]
                         \/ SeedCarried(task'[g], doc, Stored)
  BY DEF CarryPc, SeedCarried
<1>4. current' \in {current, None} /\ current' \in Session \cup {None}
  BY DEF TypeInv, TypeOK, RoomTypeOK
<1>5. \A sid \in Session : Seeds(doc'[sid]) = Seeds(doc[sid])
  OBVIOUS
<1> QED BY <1>1, <1>2, <1>3, <1>4, <1>5, SeedMoves

LEMMA SeedSnapshots ==
    ASSUME TypeInv, TypeInv', SeedInv, NEW sid \in Session,
           SnapshotSaved(sid) \/ SnapshotFails(sid)
    PROVE  SeedInv'
<1>1. /\ UNCHANGED <<updates, doc, current, forked, task>>
      /\ inFlight' = [inFlight EXCEPT ![sid] = NoSnapshot]
  BY DEF SnapshotSaved, SnapshotWritten, Uncovered, SnapshotFails, historyVars,
         roomVars, witnessVars
<1>2. \A x \in Session : inFlight'[x] \in {inFlight[x], NoSnapshot}
  BY <1>1 DEF TypeInv, TypeOK, SessionTypeOK
<1>3. CASE SnapshotSaved(sid)
  <2>1. SaveSnapshot(inFlight[sid].sequence, inFlight[sid].body)
    BY <1>3 DEF SnapshotSaved, SnapshotWritten, Uncovered
  <2>2. ~forked => Seeds(inFlight[sid].body) \subseteq Stored
    BY DEF SeedInv, SeededOnce
  <2> QED BY <1>1, <1>2, <2>1, <2>2, SeedRow
<1>4. CASE SnapshotFails(sid)
  <2>1. UNCHANGED snapshots
    BY <1>4 DEF SnapshotFails, historyVars
  <2> QED BY <1>1, <1>2, <2>1, SeedStill
<1> QED BY <1>3, <1>4

LEMMA SeedRewindSnapshot ==
    ASSUME TypeInv, TypeInv', SeedInv, NEW h \in Handler, RewindSnapshot(h)
    PROVE  SeedInv'
<1> DEFINE t == task[h]
           head == t.expected
           u == [t EXCEPT !.pc = "rewindApply"]
<1>1. t \in Task /\ head \in 0..HeadSequence
  BY HandlerOK DEF TaskOK, Task
<1>2. u.pc = "rewindApply"
  BY <1>1 DEF Task
<1>3. UNCHANGED <<updates, doc, current, forked, inFlight>> /\ Become(h, u)
  BY DEF RewindSnapshot, Goto, roomVars, sessionVars, clientVars, witnessVars
<1> HIDE DEF u, head
<1>4. CASE UNCHANGED snapshots
  BY <1>2, <1>3, <1>4, SeedStillBecomes DEF CarryPc
<1>5. CASE SaveSnapshot(head, HydratedAt(head))
  <2>1. ~forked => Seeds(HydratedAt(head)) \subseteq Stored
    BY <1>1, SeedsHydrated DEF SeedInv
  <2>2. \A g \in Handler : task'[g] = IF g = h THEN u ELSE task[g]
    BY <1>3 DEF TypeInv, TypeOK, Become
  <2>3. \A g \in Handler : task'[g] = task[g] \/ task'[g].pc \notin CarryPc
    BY <1>2, <2>2 DEF CarryPc
  <2>4. \A x \in Session : inFlight'[x] \in {inFlight[x], NoSnapshot}
    BY <1>3
  <2> QED BY <1>3, <1>5, <2>1, <2>3, <2>4, SeedRow
<1> QED BY <1>4, <1>5 DEF RewindSnapshot, head

LEMMA SeedInit == Init => SeedInv
<1> SUFFICES ASSUME Init PROVE SeedInv
  OBVIOUS
<1>1. /\ updates = <<>> /\ DOMAIN snapshots = {} /\ current = None
      /\ \A sid \in Session : inFlight[sid] = NoSnapshot
      /\ \A g \in Handler : task[g] = Idle
  BY DEF Init, HistoryInit
<1>2. Stored = {}
  <2>1. HeadSequence = 0
    BY <1>1 DEF HeadSequence
  <2> QED BY <2>1, ContentEmpty DEF Stored, Seeds
<1>3. Seeds(NoSnapshot.body) = {}
  BY DEF Seeds, NoSnapshot
<1>4. AtMostOne({})
  BY DEF AtMostOne
<1> QED BY <1>1, <1>2, <1>3, <1>4, SeedIdle DEF SeedInv, SeededOnce

LEMMA SeedHandler ==
    ASSUME TypeInv, TypeInv', DurableInv, SeedInv, NEW h \in Handler,
           HandlerStep(h)
    PROVE  SeedInv'
<1>1. CASE Authorize(h)
  BY <1>1, SeedReads
<1>2. CASE JoinStep(h)
  BY <1>2, SeedReads, SeedJoinEnds, SeedOpenReads, SeedInstall DEF JoinStep
<1>3. CASE UpdateStep(h)
  BY <1>3, SeedApply, SeedReads DEF UpdateStep
<1>4. CASE SaveStep(h)
  BY <1>4, SeedReads, SeedOpenReads, SeedAppend, SeedAck DEF SaveStep
<1>5. CASE RewindStep(h)
  BY <1>5, SeedReads, SeedRewindSnapshot, SeedApply DEF RewindStep
<1> QED BY <1>1, <1>2, <1>3, <1>4, <1>5 DEF HandlerStep

LEMMA SeedNext ==
    ASSUME TypeInv, TypeInv', DurableInv, SeedInv, [Next]_vars
    PROVE  SeedInv'
<1>1. CASE \E s \in Socket : SocketEvent(s)
  BY <1>1, SeedSockets
<1>2. CASE \E h \in Handler : HandlerStep(h)
  BY <1>2, SeedHandler
<1>3. CASE \E sid \in Session : SnapshotSaved(sid) \/ SnapshotFails(sid)
  BY <1>3, SeedSnapshots
<1>4. CASE Crash
  <2>1. /\ UNCHANGED <<updates, snapshots, doc, forked>> /\ current' = None
        /\ \A sid \in Session : inFlight'[sid] = NoSnapshot
        /\ \A g \in Handler : task'[g] = Idle
    BY <1>4 DEF Crash, historyVars, witnessVars
  <2>2. \A g \in Handler : task'[g].pc \notin CarryPc
    BY <2>1, SeedIdle
  <2> QED BY <2>1, <2>2, SeedStill
<1>5. CASE UNCHANGED vars
  <2>1. UNCHANGED <<updates, snapshots, doc, inFlight, forked, current, task>>
    BY <1>5 DEF vars, historyVars, sessionVars, roomVars, witnessVars
  <2> QED BY <2>1, SeedStill
<1> QED BY <1>1, <1>2, <1>3, <1>4, <1>5 DEF Next

\* However often a file is closed and opened again, before or after anything of
\* it was stored, and whatever is saved meanwhile: the text of the file is in its
\* history once.  Excepted are, as in OneSeed, an append by a handler of a session
\* the room has lost, and access that comes back to a socket between the answer of
\* the loader and that of loadFileContent: in both the code inserts it again.
THEOREM SeededCorrect == Spec => []OneSeed
<1>1. Init => TypeInv /\ RoomInv /\ WatchInv /\ DurableInv /\ SeedInv
  BY TypeInvInit, RoomInit, WatchInit, DurableInit, SeedInit
<1>2. TypeInv /\ RoomInv /\ WatchInv /\ DurableInv /\ SeedInv /\ [Next]_vars
        => (TypeInv /\ RoomInv /\ WatchInv /\ DurableInv /\ SeedInv)'
  BY TypeInvNext, RoomNext, WatchNext, DurableNext, SeedNext
<1>3. TypeInv /\ SeedInv => OneSeed
  <2> SUFFICES ASSUME TypeInv, SeedInv, ~forked,
                      NEW op1 \in Hydrated \cap SeedOp,
                      NEW op2 \in Hydrated \cap SeedOp
               PROVE  op1 = op2
    BY DEF OneSeed
  <2>1. SeededOnce /\ HeadSequence \in 0..HeadSequence
    BY SessionNumbers DEF SeedInv
  <2>2. Seeds(Hydrated) \subseteq Stored
    BY <2>1, SeedsHydrated, HydratedIsAtHead
  <2> QED BY <2>1, <2>2 DEF SeededOnce, AtMostOne, Seeds
<1> QED BY <1>1, <1>2, <1>3, PTL DEF Spec

-----------------------------------------------------------------------------
(* What clients see of their document.                                     *)

\* The updates of s that no document has yet.
Unapplied(s) ==
    {task[h].op : h \in {g \in Running(UpdatePc) : task[g].sock = s}}

\* Rewinds that changed a document and are not announced.
AppliedPc == {"rewindAppend", "rewindRecord"}
Unannounced == {task[h].op : h \in Running(AppliedPc)}

\* Only a client holds anything; what it holds and its document does not is
\* its own update, on the way, or an operation of a replaced session.
ViewOK ==
    /\ \A s \in Socket \ (clients \cap connected) : view[s] = {}
    /\ \A s \in clients \cap connected :
          /\ view[s] \subseteq doc[current] \cup orphaned \cup Unapplied(s)
          /\ doc[current] \subseteq view[s] \cup unsent \cup Unannounced

\* The rewind a handler is to announce is in its document.
RewindsHeld == \A h \in Running(AppliedPc) : task[h].op \in doc[task[h].sid]

ViewInv == ViewOK /\ RewindsHeld

\* What a handler is to apply or to announce, after a step.
Kept(t, u) ==
    /\ t.pc \in UpdatePc => u.pc \in UpdatePc /\ u.sock = t.sock /\ u.op = t.op
    /\ t.pc \in AppliedPc => u.pc \in AppliedPc /\ u.op = t.op
    /\ u.pc \in AppliedPc => t.pc \in AppliedPc /\ u.op = t.op /\ u.sid = t.sid

LEMMA KeptSame ==
    ASSUME NEW t
    PROVE  Kept(t, t)
BY DEF Kept

LEMMA KeptElsewhere ==
    ASSUME NEW t, NEW u, t.pc \notin UpdatePc \cup AppliedPc,
           u.pc \notin AppliedPc
    PROVE  Kept(t, u)
BY DEF Kept

LEMMA KeptIdle == Idle.pc \notin UpdatePc \cup AppliedPc
BY DEF Idle, NewTask, UpdatePc, AppliedPc

\* What was on the way still is.
LEMMA KeptOps ==
    ASSUME \A g \in Handler : Kept(task[g], task'[g])
    PROVE  /\ \A s : Unapplied(s) \subseteq Unapplied(s)'
           /\ Unannounced \subseteq Unannounced'
           /\ \A g \in Running(AppliedPc)' :
                 /\ g \in Running(AppliedPc)
                 /\ task'[g].op = task[g].op /\ task'[g].sid = task[g].sid
BY DEF Kept, Unapplied, Unannounced, Running

\* The room, its document and the views stay: only handlers move.
LEMMA ViewStill ==
    ASSUME TypeInv, ViewInv,
           UNCHANGED <<connected, clients, current, view, doc, orphaned, unsent>>,
           \A g \in Handler : Kept(task[g], task'[g])
    PROVE  ViewInv'
<1>1. /\ \A s : Unapplied(s) \subseteq Unapplied(s)'
      /\ Unannounced \subseteq Unannounced'
      /\ \A g \in Running(AppliedPc)' :
            /\ g \in Running(AppliedPc)
            /\ task'[g].op = task[g].op /\ task'[g].sid = task[g].sid
  BY KeptOps
<1>2. RewindsHeld'
  BY <1>1 DEF ViewInv, RewindsHeld
<1>3. ViewOK'
  BY <1>1 DEF ViewInv, ViewOK
<1> QED BY <1>2, <1>3 DEF ViewInv

LEMMA ViewBecomes ==
    ASSUME TypeInv, ViewInv, NEW h \in Handler, NEW t, Become(h, t),
           Kept(task[h], t),
           UNCHANGED <<connected, clients, current, view, doc, orphaned, unsent>>
    PROVE  ViewInv'
<1>1. \A g \in Handler : task'[g] = IF g = h THEN t ELSE task[g]
  BY DEF TypeInv, TypeOK, Become
<1>2. \A g \in Handler : Kept(task[g], task'[g])
  BY <1>1, KeptSame
<1> QED BY <1>2, ViewStill

\* A socket leaves: what it held, and what it sent, is nobody's concern.
LEMMA ViewRemove ==
    ASSUME TypeInv, RoomInv, ViewInv, NEW s \in Socket, RemoveFromRoom(s),
           UNCHANGED <<doc, orphaned, unsent>>,
           connected' \in {connected, connected \ {s}},
           \/ UNCHANGED task
           \/ \E h \in Handler : /\ Become(h, Idle) /\ task[h].sock = s
                                 /\ task[h].pc \in UpdatePc
    PROVE  ViewInv'
<1>1. /\ clients' = clients \ {s} /\ view' = [view EXCEPT ![s] = {}]
      /\ current' = IF clients \subseteq {s} THEN None ELSE current
  BY DEF RemoveFromRoom, Remove
<1>2. view \in [Socket -> SUBSET Op] /\ clients \subseteq Socket
  BY DEF TypeInv, TypeOK, ClientTypeOK, RoomTypeOK
<1>3. /\ \A r : r # s => Unapplied(r) \subseteq Unapplied(r)'
      /\ Unannounced \subseteq Unannounced'
      /\ \A g \in Running(AppliedPc)' :
            /\ g \in Running(AppliedPc)
            /\ task'[g].op = task[g].op /\ task'[g].sid = task[g].sid
  <2>1. CASE UNCHANGED task
    BY <2>1 DEF Unapplied, Unannounced, Running
  <2>2. ASSUME NEW h \in Handler, Become(h, Idle), task[h].sock = s,
               task[h].pc \in UpdatePc
        PROVE  /\ \A r : r # s => Unapplied(r) \subseteq Unapplied(r)'
               /\ Unannounced \subseteq Unannounced'
               /\ \A g \in Running(AppliedPc)' :
                     /\ g \in Running(AppliedPc)
                     /\ task'[g].op = task[g].op /\ task'[g].sid = task[g].sid
    <3>1. \A g \in Handler : task'[g] = IF g = h THEN Idle ELSE task[g]
      BY <2>2 DEF TypeInv, TypeOK, Become
    <3>2. task[h].pc \notin AppliedPc
      BY <2>2 DEF UpdatePc, AppliedPc
    <3>3. \A r : r # s => Unapplied(r) \subseteq Unapplied(r)'
      BY <2>2, <3>1 DEF Unapplied, Running
    <3>4. \A g \in Running(AppliedPc) : g # h /\ task'[g] = task[g]
      BY <3>1, <3>2 DEF Running
    <3>5. Unannounced \subseteq Unannounced'
      BY <3>4 DEF Unannounced, Running
    <3>6. \A g \in Running(AppliedPc)' : g # h /\ task'[g] = task[g]
      BY <3>1, KeptIdle DEF Running
    <3>7. \A g \in Running(AppliedPc)' : g \in Running(AppliedPc)
      BY <3>6 DEF Running
    <3> QED BY <3>3, <3>5, <3>6, <3>7
  <2> QED BY <2>1, <2>2
<1>4. RewindsHeld'
  BY <1>3 DEF ViewInv, RewindsHeld
<1>5. ASSUME NEW r \in Socket \ (clients' \cap connected') PROVE view'[r] = {}
  <2>1. CASE r = s
    BY <1>1, <1>2, <2>1
  <2>2. CASE r # s
    <3>1. r \notin clients \cap connected
      BY <1>1, <1>5, <2>2
    <3> QED BY <1>1, <1>2, <2>2, <3>1 DEF ViewInv, ViewOK
  <2> QED BY <2>1, <2>2
<1>6. ASSUME NEW r \in clients' \cap connected'
      PROVE  /\ view'[r] \subseteq doc[current'] \cup orphaned \cup Unapplied(r)'
             /\ doc[current'] \subseteq view'[r] \cup unsent \cup Unannounced'
  <2>1. r # s /\ r \in clients \cap connected /\ r \in Socket
    BY <1>1, <1>2, <1>6
  <2>2. current' = current /\ view'[r] = view[r]
    BY <1>1, <1>2, <2>1
  <2> QED BY <1>3, <2>1, <2>2 DEF ViewInv, ViewOK
<1> QED BY <1>4, <1>5, <1>6 DEF ViewInv, ViewOK

\* A handler starts: an update is, at once, in the view of its sender.
LEMMA ViewStarts ==
    ASSUME TypeInv, RoomInv, ViewInv, NEW s \in Socket, NEW h \in Handler,
           \/ JoinStart(s, h) \/ UpdateStart(s, h)
           \/ SaveStart(s, h) \/ RewindStart(s, h)
    PROVE  ViewInv'
<1>1. UNCHANGED <<connected, clients, current, doc, orphaned, unsent>>
      /\ task[h] = Idle
  BY DEF JoinStart, UpdateStart, SaveStart, RewindStart, Start, accessVars,
         roomVars, sessionVars, witnessVars
<1>2. CASE JoinStart(s, h) \/ SaveStart(s, h) \/ RewindStart(s, h)
  <2>1. UNCHANGED view
    BY <1>2 DEF JoinStart, SaveStart, RewindStart, clientVars
  <2>2. PICK at, sid, op, expected, target :
           /\ Become(h, NewTask(at, s, sid, op, expected, target))
           /\ at \in {"joinAuth", "saveAuth", "rewindAuth"}
    <3>1. CASE JoinStart(s, h)
      BY <3>1, Zenon DEF JoinStart, Start
    <3>3. CASE SaveStart(s, h)
      BY <3>3, Zenon DEF SaveStart, Start
    <3>4. CASE RewindStart(s, h)
      BY <3>4, Zenon DEF RewindStart, Start
    <3> QED BY <1>2, <3>1, <3>3, <3>4
  <2> DEFINE u == NewTask(at, s, sid, op, expected, target)
  <2>3. u.pc = at
    BY DEF NewTask
  <2>4. Become(h, u)
    BY <2>2
  <2> HIDE DEF u
  <2>5. Kept(task[h], u)
    BY <1>1, <2>2, <2>3, KeptIdle, KeptElsewhere DEF AppliedPc
  <2> QED BY <1>1, <2>1, <2>4, <2>5, ViewBecomes
<1>3. CASE UpdateStart(s, h)
  <2> DEFINE op == edits + 1
             u == NewTask("updateAuth", s, current, op, 0, 0)
  <2>1. /\ Become(h, u) /\ view' = [view EXCEPT ![s] = @ \cup {op}]
        /\ s \in connected /\ s \in joined
    BY <1>3 DEF UpdateStart, Start, InRoom
  <2>2. u.pc = "updateAuth" /\ u.sock = s /\ u.op = op
    BY DEF NewTask
  <2> HIDE DEF u, op
  <2>3. \A g \in Handler : task'[g] = IF g = h THEN u ELSE task[g]
    BY <2>1 DEF TypeInv, TypeOK, Become
  <2>4. \A g \in Handler : Kept(task[g], task'[g])
    <3>1. Kept(task[h], u)
      BY <1>1, <2>2, KeptIdle, KeptElsewhere DEF AppliedPc
    <3> QED BY <2>3, <3>1, KeptSame
  <2>5. /\ \A r : Unapplied(r) \subseteq Unapplied(r)'
        /\ Unannounced \subseteq Unannounced'
        /\ \A g \in Running(AppliedPc)' :
              /\ g \in Running(AppliedPc)
              /\ task'[g].op = task[g].op /\ task'[g].sid = task[g].sid
    BY <2>4, KeptOps
  <2>6. op \in Unapplied(s)'
    BY <2>2, <2>3 DEF Unapplied, Running, UpdatePc
  <2>7. view \in [Socket -> SUBSET Op]
    BY DEF TypeInv, TypeOK, ClientTypeOK
  <2>8. s \in clients \cap connected
    BY <2>1 DEF RoomInv, RoomConsistent
  <2>9. \A r \in Socket : view'[r] = IF r = s THEN view[r] \cup {op} ELSE view[r]
    BY <2>1, <2>7
  <2>10. clients \subseteq Socket
    BY DEF TypeInv, TypeOK, RoomTypeOK
  <2>11. ViewOK'
    <3>1. ASSUME NEW r \in Socket \ (clients \cap connected)
          PROVE  view'[r] = {}
      BY <2>8, <2>9, <3>1 DEF ViewInv, ViewOK
    <3>2. ASSUME NEW r \in clients \cap connected
          PROVE  /\ view'[r] \subseteq
                      doc[current] \cup orphaned \cup Unapplied(r)'
                 /\ doc[current] \subseteq
                      view'[r] \cup unsent \cup Unannounced'
      <4>1. /\ view[r] \subseteq doc[current] \cup orphaned \cup Unapplied(r)
            /\ doc[current] \subseteq view[r] \cup unsent \cup Unannounced
        BY <3>2 DEF ViewInv, ViewOK
      <4>2. r \in Socket
        BY <2>10, <3>2
      <4>3. view[r] \subseteq view'[r]
            /\ (op \in view'[r] /\ op \notin view[r] => r = s)
            /\ view'[r] \subseteq view[r] \cup {op}
        BY <2>9, <4>2
      <4>4. r = s \/ view'[r] = view[r]
        BY <2>9, <4>2
      <4>5. Unapplied(r) \subseteq Unapplied(r)'
        BY <2>5
      <4>6. view'[r] \subseteq doc[current] \cup orphaned \cup Unapplied(r)'
        BY <2>6, <4>1, <4>3, <4>4, <4>5
      <4> QED BY <2>5, <4>1, <4>3, <4>6
    <3> QED BY <1>1, <3>1, <3>2 DEF ViewOK
  <2>12. RewindsHeld'
    BY <1>1, <2>5 DEF ViewInv, RewindsHeld
  <2> QED BY <2>11, <2>12 DEF ViewInv
<1> QED BY <1>2, <1>3

LEMMA ViewSockets ==
    ASSUME TypeInv, RoomInv, ViewInv, NEW s \in Socket, SocketEvent(s)
    PROVE  ViewInv'
<1>1. CASE Revoke(s) \/ Grant(s)
  <2>1. UNCHANGED <<connected, clients, current, view, doc, orphaned, unsent,
                    task>>
    BY <1>1 DEF Revoke, Grant, roomVars, sessionVars, clientVars, witnessVars
  <2> QED BY <2>1, KeptSame, ViewStill
<1>2. CASE Connect(s)
  <2>1. UNCHANGED <<clients, current, view, doc, orphaned, unsent, task>>
        /\ connected' = connected \cup {s} /\ s \notin clients
    BY <1>2 DEF Connect, roomVars, sessionVars, clientVars, witnessVars
  <2>2. clients \cap connected' = clients \cap connected
    BY <2>1
  <2>3. /\ \A r : Unapplied(r)' = Unapplied(r)
        /\ Unannounced' = Unannounced /\ Running(AppliedPc)' = Running(AppliedPc)
    BY <2>1 DEF Unapplied, Unannounced, Running
  <2> QED BY <2>1, <2>2, <2>3 DEF ViewInv, ViewOK, RewindsHeld
<1>3. CASE Leave(s)
  <2>1. RemoveFromRoom(s) /\ UNCHANGED <<connected, doc, orphaned, unsent, task>>
    BY <1>3 DEF Leave, accessVars, sessionVars, witnessVars
  <2> QED BY <2>1, ViewRemove
<1>4. CASE Disconnect(s)
  <2>1. UNCHANGED <<doc, orphaned, unsent, task>>
        /\ connected' = connected \ {s}
    BY <1>4 DEF Disconnect, sessionVars, witnessVars
  <2>2. CASE RemoveFromRoom(s)
    BY <2>1, <2>2, ViewRemove
  <2>3. CASE /\ s \notin joined
             /\ UNCHANGED <<joined, dirty, clients, current, authorized, view>>
    <3>1. clients \cap connected' = clients \cap connected
      BY <2>1, <2>3 DEF RoomInv, RoomConsistent
    <3>2. /\ \A r : Unapplied(r)' = Unapplied(r)
          /\ Unannounced' = Unannounced
          /\ Running(AppliedPc)' = Running(AppliedPc)
      BY <2>1 DEF Unapplied, Unannounced, Running
    <3> QED BY <2>1, <2>3, <3>1, <3>2 DEF ViewInv, ViewOK, RewindsHeld
  <2> QED BY <1>4, <2>2, <2>3 DEF Disconnect
<1> QED BY <1>1, <1>2, <1>3, <1>4, ViewStarts DEF SocketEvent

\* An operation reaches the document it was made for, and the room as it is now.
LEMMA ViewApply ==
    ASSUME TypeInv, RoomInv, ViewInv, NEW h \in Handler, UpdateApply(h)
    PROVE  ViewInv'
<1> DEFINE t == task[h]
<1>1. t.pc = "updateApply" /\ t.sid \in Session /\ t.sock \in Socket
      /\ doc \in [Session -> SUBSET Op]
  BY HandlerOK DEF UpdateApply, TaskOK, UpdatePc, TypeInv, TypeOK,
                   SessionTypeOK
<1>2. /\ doc' = [doc EXCEPT ![t.sid] = @ \cup {t.op}]
      /\ view' = Broadcast(t.op, {t.sock}) /\ Become(h, Idle)
      /\ orphaned' = IF t.sid = current THEN orphaned ELSE orphaned \cup {t.op}
      /\ unsent' = IF t.op \in view[t.sock] THEN unsent ELSE unsent \cup {t.op}
      /\ UNCHANGED <<connected, clients, current>>
  BY DEF UpdateApply, Finish, accessVars
<1>3. \A g \in Handler : task'[g] = IF g = h THEN Idle ELSE task[g]
  BY <1>2 DEF TypeInv, TypeOK, Become
<1>4. \A r : Unapplied(r) \subseteq Unapplied(r)' \cup {t.op}
  BY <1>3 DEF Unapplied, Running
<1>5. /\ Unannounced \subseteq Unannounced'
      /\ \A g \in Running(AppliedPc)' :
            g \in Running(AppliedPc) /\ task'[g] = task[g]
  <2>1. t.pc \notin AppliedPc
    BY <1>1 DEF AppliedPc
  <2>2. \A g \in Handler : \/ task'[g] = task[g]
                           \/ /\ task[g].pc \notin AppliedPc
                              /\ task'[g].pc \notin AppliedPc
    BY <1>3, <2>1, KeptIdle
  <2> QED BY <2>2 DEF Unannounced, Running
<1>6. \A sid \in Session : doc[sid] \subseteq doc'[sid]
  BY <1>1, <1>2
<1>7. RewindsHeld'
  <2> SUFFICES ASSUME NEW g \in Running(AppliedPc)'
               PROVE  task'[g].op \in doc'[task'[g].sid]
    BY DEF RewindsHeld
  <2>1. g \in Running(AppliedPc) /\ task'[g] = task[g]
    BY <1>5
  <2>2. task[g].op \in doc[task[g].sid]
    BY <2>1 DEF ViewInv, RewindsHeld
  <2>3. task[g].sid \in Session
    BY <2>1, HandlerOK DEF Running, AppliedPc, TaskOK, RewindPc
  <2> QED BY <1>6, <2>1, <2>2, <2>3
<1>8. clients \subseteq Socket /\ joined = clients
  BY DEF TypeInv, TypeOK, RoomTypeOK, RoomInv, RoomConsistent
<1>9. ASSUME NEW r \in Socket \ (clients \cap connected) PROVE view'[r] = {}
  BY <1>2, <1>8, <1>9 DEF Broadcast, ViewInv, ViewOK
<1>10. ASSUME NEW r \in clients \cap connected
       PROVE  /\ view'[r] \subseteq doc'[current] \cup orphaned' \cup Unapplied(r)'
              /\ doc'[current] \subseteq view'[r] \cup unsent' \cup Unannounced'
  <2>1. /\ view[r] \subseteq doc[current] \cup orphaned \cup Unapplied(r)
        /\ doc[current] \subseteq view[r] \cup unsent \cup Unannounced
    BY <1>10 DEF ViewInv, ViewOK
  <2>2. current \in Session
    BY <1>10 DEF RoomInv, RoomConsistent, TypeInv, TypeOK, RoomTypeOK
  <2>3. doc'[current] = IF t.sid = current THEN doc[current] \cup {t.op}
                                           ELSE doc[current]
    BY <1>1, <1>2, <2>2
  <2>4. view'[r] = IF r = t.sock THEN view[r] ELSE view[r] \cup {t.op}
    BY <1>2, <1>8, <1>10 DEF Broadcast
  <2>5. t.op \in doc'[current] \cup orphaned'
    BY <1>2, <2>3
  <2>6. view'[r] \subseteq doc'[current] \cup orphaned' \cup Unapplied(r)'
    BY <1>2, <1>4, <2>1, <2>3, <2>4, <2>5
  <2>7. t.op \in view'[r] \cup unsent'
    BY <1>2, <2>4
  <2>8. doc'[current] \subseteq view'[r] \cup unsent' \cup Unannounced'
    BY <1>2, <1>5, <2>1, <2>3, <2>4, <2>7
  <2> QED BY <2>6, <2>8
<1> QED BY <1>2, <1>7, <1>9, <1>10 DEF ViewInv, ViewOK

LEMMA ViewRewindApply ==
    ASSUME TypeInv, RoomInv, ViewInv, NEW h \in Handler, RewindApply(h)
    PROVE  ViewInv'
<1> DEFINE t == task[h]
           u == [t EXCEPT !.pc = "rewindAppend", !.body = {t.op}]
<1>1. t \in Task /\ t.pc = "rewindApply" /\ t.sid \in Session
      /\ doc \in [Session -> SUBSET Op]
  BY HandlerOK DEF RewindApply, TaskOK, RewindPc, TypeInv, TypeOK,
                   SessionTypeOK
<1>2. /\ doc' = [doc EXCEPT ![t.sid] = @ \cup {t.op}] /\ Become(h, u)
      /\ UNCHANGED <<connected, clients, current, view, orphaned, unsent>>
  BY DEF RewindApply, accessVars, roomVars, clientVars, witnessVars
<1>3. u.pc = "rewindAppend" /\ u.op = t.op /\ u.sid = t.sid
  BY <1>1 DEF Task
<1> HIDE DEF u
<1>4. \A g \in Handler : task'[g] = IF g = h THEN u ELSE task[g]
  BY <1>2 DEF TypeInv, TypeOK, Become
<1>5. \A r : Unapplied(r) \subseteq Unapplied(r)'
  <2>1. t.pc \notin UpdatePc
    BY <1>1 DEF UpdatePc
  <2> QED BY <1>4, <2>1 DEF Unapplied, Running
<1>6. Unannounced \cup {t.op} \subseteq Unannounced'
  <2>1. u.pc \in AppliedPc /\ t.pc \notin AppliedPc
    BY <1>1, <1>3 DEF AppliedPc
  <2> QED BY <1>3, <1>4, <2>1 DEF Unannounced, Running
<1>7. \A sid \in Session : doc[sid] \subseteq doc'[sid]
  BY <1>1, <1>2
<1>8. RewindsHeld'
  <2> SUFFICES ASSUME NEW g \in Running(AppliedPc)'
               PROVE  task'[g].op \in doc'[task'[g].sid]
    BY DEF RewindsHeld
  <2>1. CASE g = h
    BY <1>1, <1>2, <1>3, <1>4, <2>1 DEF Running
  <2>2. CASE g # h
    <3>1. g \in Running(AppliedPc) /\ task'[g] = task[g]
      BY <1>4, <2>2 DEF Running
    <3>2. task[g].op \in doc[task[g].sid]
      BY <3>1 DEF ViewInv, RewindsHeld
    <3>3. task[g].sid \in Session
      BY <3>1, HandlerOK DEF Running, AppliedPc, TaskOK, RewindPc
    <3> QED BY <1>7, <3>1, <3>2, <3>3
  <2> QED BY <2>1, <2>2
<1>9. ASSUME NEW r \in clients \cap connected
      PROVE  /\ view[r] \subseteq doc'[current] \cup orphaned \cup Unapplied(r)'
             /\ doc'[current] \subseteq view[r] \cup unsent \cup Unannounced'
  <2>1. /\ view[r] \subseteq doc[current] \cup orphaned \cup Unapplied(r)
        /\ doc[current] \subseteq view[r] \cup unsent \cup Unannounced
    BY <1>9 DEF ViewInv, ViewOK
  <2>2. current \in Session
    BY <1>9 DEF RoomInv, RoomConsistent, TypeInv, TypeOK, RoomTypeOK
  <2>3. doc[current] \subseteq doc'[current]
        /\ doc'[current] \subseteq doc[current] \cup {t.op}
    BY <1>1, <1>2, <2>2
  <2>4. view[r] \subseteq doc'[current] \cup orphaned \cup Unapplied(r)'
    BY <1>5, <2>1, <2>3
  <2>5. doc'[current] \subseteq view[r] \cup unsent \cup Unannounced'
    BY <1>6, <2>1, <2>3
  <2> QED BY <2>4, <2>5
<1> QED BY <1>2, <1>8, <1>9 DEF ViewInv, ViewOK

\* A rewind is announced to the room, or is one that failed.
LEMMA ViewRewindEnds ==
    ASSUME TypeInv, RoomInv, ViewInv, NEW h \in Handler,
           RewindRecord(h) \/ RewindFails(h)
    PROVE  ViewInv'
<1> DEFINE t == task[h]
<1>1. t.pc \in AppliedPc /\ h \in Running(AppliedPc)
      /\ t.op \in doc[t.sid]
  <2>1. t.pc \in AppliedPc
    BY DEF RewindRecord, Recorded, RewindFails, AppliedPc
  <2> QED BY <2>1 DEF Running, ViewInv, RewindsHeld
<1>2. /\ Become(h, Idle) /\ UNCHANGED <<connected, clients, current, doc>>
      /\ \/ /\ view' = Broadcast(t.op, {}) /\ UNCHANGED unsent
            /\ orphaned' = IF t.sid = current THEN orphaned
                                              ELSE orphaned \cup {t.op}
         \/ UNCHANGED <<view, orphaned>> /\ unsent' = unsent \cup {t.op}
  BY DEF RewindRecord, Recorded, RewindFails, Finish, accessVars, roomVars,
         sessionVars, clientVars
<1>3. \A g \in Handler : task'[g] = IF g = h THEN Idle ELSE task[g]
  BY <1>2 DEF TypeInv, TypeOK, Become
<1>4. \A r : Unapplied(r) \subseteq Unapplied(r)'
  <2>1. t.pc \notin UpdatePc
    BY <1>1 DEF UpdatePc, AppliedPc
  <2> QED BY <1>3, <2>1 DEF Unapplied, Running
<1>5. Unannounced \subseteq Unannounced' \cup {t.op}
  BY <1>3 DEF Unannounced, Running
<1>6. \A g \in Running(AppliedPc)' :
         g \in Running(AppliedPc) /\ task'[g] = task[g]
  BY <1>3, KeptIdle DEF Running
<1>7. RewindsHeld'
  BY <1>2, <1>6 DEF ViewInv, RewindsHeld
<1>8. clients \subseteq Socket /\ joined = clients
  BY DEF TypeInv, TypeOK, RoomTypeOK, RoomInv, RoomConsistent
<1>9. ASSUME NEW r \in Socket \ (clients \cap connected) PROVE view'[r] = {}
  BY <1>2, <1>8, <1>9 DEF Broadcast, ViewInv, ViewOK
<1>10. ASSUME NEW r \in clients \cap connected
       PROVE  /\ view'[r] \subseteq doc[current] \cup orphaned' \cup Unapplied(r)'
              /\ doc[current] \subseteq view'[r] \cup unsent' \cup Unannounced'
  <2>1. /\ view[r] \subseteq doc[current] \cup orphaned \cup Unapplied(r)
        /\ doc[current] \subseteq view[r] \cup unsent \cup Unannounced
    BY <1>10 DEF ViewInv, ViewOK
  <2>2. CASE UNCHANGED <<view, orphaned>> /\ unsent' = unsent \cup {t.op}
    BY <1>4, <1>5, <2>1, <2>2
  <2>3. CASE /\ view' = Broadcast(t.op, {}) /\ UNCHANGED unsent
             /\ orphaned' = IF t.sid = current THEN orphaned
                                               ELSE orphaned \cup {t.op}
    <3>1. view'[r] = view[r] \cup {t.op}
      BY <1>8, <1>10, <2>3 DEF Broadcast
    <3>2. t.op \in doc[current] \cup orphaned'
      BY <1>1, <2>3
    <3>3. orphaned \subseteq orphaned'
      BY <2>3
    <3> QED BY <1>4, <1>5, <2>1, <2>3, <3>1, <3>2, <3>3
  <2> QED BY <1>2, <2>2, <2>3
<1> QED BY <1>2, <1>7, <1>9, <1>10 DEF ViewInv, ViewOK

\* A join sends the document as it is; a session opens for a room nobody is in.
LEMMA ViewJoin ==
    ASSUME TypeInv, TypeInv', RoomInv, RoomInv', DurableInv, ViewInv,
           NEW h \in Handler, JoinExisting(h) \/ OpenInstall(h) \/ OpenContent(h)
    PROVE  ViewInv'
<1>1. PICK hs, sid, body :
         /\ Attach(hs, sid, body) /\ hs \subseteq Running(JoinPc)
         /\ UNCHANGED <<connected, orphaned, unsent>>
         /\ \/ /\ sid = current /\ current # None
               /\ body = doc[sid] /\ UNCHANGED doc
            \/ /\ sid = opened + 1 /\ current = None
               /\ doc' = [doc EXCEPT ![sid] = body]
  <2>1. CASE JoinExisting(h)
    <3>1. {h} \subseteq Running(JoinPc)
      BY <2>1 DEF JoinExisting, Running, JoinPc
    <3>2. UNCHANGED <<connected, orphaned, unsent, doc>>
      BY <2>1 DEF JoinExisting, accessVars, sessionVars, witnessVars
    <3>3. Attach({h}, current, doc[current]) /\ current # None
      BY <2>1 DEF JoinExisting
    <3> QED BY <3>1, <3>2, <3>3
  <2>2. CASE OpenInstall(h) \/ OpenContent(h)
    <3> DEFINE hs == {h} \cup Running({"joinWait"})
    <3>1. PICK body, position : Install(h, body, position)
      BY <2>2 DEF OpenInstall, OpenContent
    <3>2. hs \subseteq Running(JoinPc) /\ h \in Running(OpenPc)
      BY <2>2 DEF OpenInstall, OpenContent, Running, JoinPc, OpenPc
    <3>3. current = None
      BY <3>2 DEF RoomInv, OpeningInv
    <3>4. /\ Attach(hs, opened + 1, body)
          /\ doc' = [doc EXCEPT ![opened + 1] = body]
          /\ UNCHANGED <<connected, orphaned, unsent>>
      BY <3>1 DEF Install, accessVars, witnessVars
    <3> HIDE DEF hs
    <3> QED BY <3>2, <3>3, <3>4
  <2> QED BY <2>1, <2>2
<1> DEFINE socks == {task[g].sock : g \in hs}
<1>2. /\ current' = sid /\ clients' = clients \cup socks
      /\ view' = [s \in Socket |-> IF s \in socks \cap connected
                                     THEN view[s] \cup body ELSE view[s]]
      /\ task' = [g \in Handler |-> IF g \in hs THEN Idle ELSE task[g]]
  BY <1>1 DEF Attach
<1> HIDE DEF socks
<1>3. doc \in [Session -> SUBSET Op] /\ sid \in Session /\ opened \in Nat
  <2>1. sid # None
    BY <1>1, SessionNumbers
  <2>2. sid \in Session \cup {None}
    BY <1>2 DEF TypeInv, TypeOK, RoomTypeOK
  <2> QED BY <2>1, <2>2, SessionNumbers DEF TypeInv, TypeOK, SessionTypeOK
<1>4. \A g \in Handler : Kept(task[g], task'[g])
  <2>1. \A g \in hs : task[g].pc \notin UpdatePc \cup AppliedPc
    BY <1>1 DEF Running, JoinPc, OpenPc, UpdatePc, AppliedPc
  <2> QED BY <1>2, <2>1, KeptIdle, KeptElsewhere, KeptSame
<1>5. /\ \A s : Unapplied(s) \subseteq Unapplied(s)'
      /\ Unannounced \subseteq Unannounced'
      /\ \A g \in Running(AppliedPc)' :
            /\ g \in Running(AppliedPc)
            /\ task'[g].op = task[g].op /\ task'[g].sid = task[g].sid
  BY <1>4, KeptOps
<1>6. body \subseteq doc'[sid] /\ doc'[sid] \subseteq body
  BY <1>1, <1>3
<1>7. RewindsHeld'
  <2> SUFFICES ASSUME NEW g \in Running(AppliedPc)'
               PROVE  task'[g].op \in doc'[task'[g].sid]
    BY DEF RewindsHeld
  <2>1. g \in Running(AppliedPc) /\ task'[g].op = task[g].op
        /\ task'[g].sid = task[g].sid
    BY <1>5
  <2>2. task[g].op \in doc[task[g].sid]
    BY <2>1 DEF ViewInv, RewindsHeld
  <2>3. task[g].sid \in Session /\ task[g].sid <= opened
    BY <2>1, HandlerOK DEF Running, AppliedPc, TaskOK, RewindPc, DurableInv,
                           SessionsOpened
  <2>4. doc'[task[g].sid] = doc[task[g].sid]
    <3>1. CASE UNCHANGED doc
      BY <3>1
    <3>2. CASE sid = opened + 1 /\ doc' = [doc EXCEPT ![sid] = body]
      <4>1. task[g].sid # sid
        BY <1>3, <2>3, <3>2, SessionNumbers
      <4> QED BY <1>3, <2>3, <3>2, <4>1
    <3> QED BY <1>1, <3>1, <3>2
  <2> QED BY <2>1, <2>2, <2>4
<1>8. ASSUME NEW s \in Socket \ (clients' \cap connected) PROVE view'[s] = {}
  BY <1>2, <1>8 DEF ViewInv, ViewOK
<1>9. ASSUME NEW s \in clients' \cap connected
      PROVE  /\ view'[s] \subseteq doc'[sid] \cup orphaned \cup Unapplied(s)'
             /\ doc'[sid] \subseteq view'[s] \cup unsent \cup Unannounced'
  <2>1. s \in Socket
    BY <1>9 DEF TypeInv, TypeOK, RoomTypeOK
  <2>2. CASE s \in socks
    <3>1. view'[s] = view[s] \cup body
      BY <1>2, <1>9, <2>1, <2>2
    <3>2. view[s] \subseteq doc'[sid] \cup orphaned \cup Unapplied(s)'
      <4>1. CASE s \in clients
        <5>1. current # None
          BY <4>1 DEF RoomInv, RoomConsistent
        <5>2. sid = current /\ doc' = doc
          BY <1>1, <5>1
        <5> QED BY <1>5, <1>9, <4>1, <5>2 DEF ViewInv, ViewOK
      <4>2. CASE s \notin clients
        BY <2>1, <4>2 DEF ViewInv, ViewOK
      <4> QED BY <4>1, <4>2
    <3> QED BY <1>6, <3>1, <3>2
  <2>3. CASE s \notin socks
    <3>1. s \in clients /\ view'[s] = view[s]
      BY <1>2, <1>9, <2>1, <2>3
    <3>2. current # None
      BY <3>1 DEF RoomInv, RoomConsistent
    <3>3. sid = current /\ doc' = doc
      BY <1>1, <3>2
    <3> QED BY <1>5, <1>9, <3>1, <3>3 DEF ViewInv, ViewOK
  <2> QED BY <2>2, <2>3
<1> QED BY <1>1, <1>2, <1>7, <1>8, <1>9 DEF ViewInv, ViewOK

\* A handler goes on, or ends, and nothing it is to apply or announce is lost.
LEMMA ViewReads ==
    ASSUME TypeInv, RoomInv, ViewInv, NEW h \in Handler,
           \/ Authorize(h) \/ AppendAnswer(h)
           \/ JoinPending(h) \/ JoinCreate(h) \/ OpenSnapshot(h) \/ OpenUpdates(h)
           \/ SaveSkip(h) \/ SaveEncode(h) \/ SaveFails(h) \/ SaveAck(h)
           \/ RewindCheck(h) \/ RewindTarget(h) \/ RewindSnapshot(h)
           \/ RewindReject(h)
    PROVE  ViewInv'
<1> DEFINE t == task[h]
<1>1. t \in Task
  BY HandlerOK
<1>2. UNCHANGED <<connected, clients, current, view, doc, orphaned, unsent>>
  BY DEF Authorize, AppendAnswer, JoinPending, JoinCreate, OpenSnapshot,
         OpenUpdates, SaveSkip, SaveEncode, SaveFails, SaveAck, RewindCheck,
         RewindTarget, RewindSnapshot, RewindReject, accessVars, roomVars,
         sessionVars, clientVars, witnessVars
<1>3. CASE Authorize(h)
  <2>1. PICK u : /\ Become(h, u) /\ u.pc \notin AppliedPc
                 /\ t.pc \in UpdatePc =>
                      u.pc \in UpdatePc /\ u.sock = t.sock /\ u.op = t.op
    <3>1. CASE t.pc = "updateAuth"
      BY <1>1, <1>3, <3>1 DEF Authorize, Task, AppliedPc, UpdatePc
    <3>2. CASE t.pc \in {"joinAuth", "saveAuth", "rewindAuth"}
      BY <1>1, <1>3, <3>2 DEF Authorize, Task, AppliedPc, UpdatePc, Idle, NewTask
    <3> QED BY <1>3, <3>1, <3>2 DEF Authorize
  <2>2. t.pc \notin AppliedPc
    BY <1>3 DEF Authorize, AppliedPc
  <2> QED BY <1>2, <2>1, <2>2, ViewBecomes DEF Kept
<1>4. CASE AppendAnswer(h)
  <2> DEFINE at == IF t.pc = "saveAppend" THEN "saveAck" ELSE "rewindRecord"
             u == [t EXCEPT !.pc = at, !.sequence = HeadSequence + 1]
  <2>1. u.pc = at /\ u.op = t.op /\ u.sid = t.sid
    BY <1>1 DEF Task
  <2>2. Become(h, u) /\ t.pc \in {"saveAppend", "rewindAppend"}
    BY <1>4 DEF AppendAnswer
  <2>3. \/ at = "saveAck" /\ t.pc = "saveAppend"
        \/ at = "rewindRecord" /\ t.pc = "rewindAppend"
    BY <2>2
  <2> HIDE DEF u, at
  <2>4. Kept(t, u)
    BY <2>1, <2>3 DEF Kept, UpdatePc, AppliedPc
  <2> QED BY <1>2, <2>2, <2>4, ViewBecomes
<1>5. CASE \/ SaveSkip(h) \/ SaveFails(h) \/ SaveAck(h) \/ RewindReject(h)
  <2>1. Become(h, Idle) /\ t.pc \notin UpdatePc \cup AppliedPc
    BY <1>5 DEF SaveSkip, SaveFails, SaveAck, RewindReject, Finish, UpdatePc,
                AppliedPc
  <2>2. Kept(t, Idle)
    BY <2>1, KeptIdle, KeptElsewhere
  <2> QED BY <1>2, <2>1, <2>2, ViewBecomes
<1>6. CASE \/ JoinPending(h) \/ JoinCreate(h) \/ OpenSnapshot(h)
           \/ OpenUpdates(h) \/ SaveEncode(h) \/ RewindCheck(h)
           \/ RewindTarget(h) \/ RewindSnapshot(h)
  <2>1. t.pc \notin UpdatePc \cup AppliedPc
    BY <1>6 DEF JoinPending, JoinCreate, OpenSnapshot, OpenUpdates, SaveEncode,
                RewindCheck, RewindTarget, RewindSnapshot, UpdatePc, AppliedPc
  <2>2. PICK u : Become(h, u) /\ u.pc \notin AppliedPc
    <3>1. CASE JoinPending(h) \/ JoinCreate(h)
      BY <1>1, <3>1 DEF JoinPending, JoinCreate, Goto, Task, AppliedPc
    <3>2. ASSUME OpenSnapshot(h) \/ OpenUpdates(h)
          PROVE  \E u : Become(h, u) /\ u.pc \in OpenPc
      <4>1. PICK at, position, body :
               /\ \/ Become(h, [t EXCEPT !.pc = at])
                  \/ Become(h, [t EXCEPT !.pc = at, !.sequence = position,
                                         !.body = body])
                  \/ Become(h, [t EXCEPT !.pc = at, !.sequence = position,
                                         !.body = @ \cup body])
               /\ at \in OpenPc
        <5>1. {"openUpdates", "openContent", "openInstall"} \subseteq OpenPc
          BY DEF OpenPc
        <5>2. CASE OpenSnapshot(h)
          BY <5>1, <5>2, Zenon DEF OpenSnapshot
        <5>3. CASE OpenUpdates(h)
          BY <5>1, <5>3, Zenon DEF OpenUpdates
        <5> QED BY <3>2, <5>2, <5>3
      <4> DEFINE u == [t EXCEPT !.pc = at]
                 v == [t EXCEPT !.pc = at, !.sequence = position, !.body = body]
                 w == [t EXCEPT !.pc = at, !.sequence = position,
                                !.body = @ \cup body]
      <4>2. u.pc = at /\ v.pc = at /\ w.pc = at
        BY <1>1 DEF Task
      <4>3. Become(h, u) \/ Become(h, v) \/ Become(h, w)
        BY <4>1
      <4> HIDE DEF u, v, w
      <4> QED BY <4>1, <4>2, <4>3
    <3>3. OpenPc \cap AppliedPc = {}
      BY DEF OpenPc, AppliedPc
    <3>4. CASE SaveEncode(h)
      <4> DEFINE u == [t EXCEPT !.pc = "saveAppend", !.body = doc[t.sid]]
      <4>1. u.pc = "saveAppend"
        BY <1>1 DEF Task
      <4>2. Become(h, u)
        BY <3>4 DEF SaveEncode
      <4> HIDE DEF u
      <4> QED BY <4>1, <4>2 DEF AppliedPc
    <3>5. CASE RewindCheck(h) \/ RewindTarget(h)
      BY <1>1, <3>5 DEF RewindCheck, RewindTarget, Goto, Task, AppliedPc
    <3>6. CASE RewindSnapshot(h)
      BY <1>1, <3>6 DEF RewindSnapshot, Goto, Task, AppliedPc
    <3> QED BY <1>6, <3>1, <3>2, <3>3, <3>4, <3>5, <3>6
  <2>3. Kept(t, u)
    BY <2>1, <2>2, KeptElsewhere
  <2> QED BY <1>2, <2>2, <2>3, ViewBecomes
<1> QED BY <1>3, <1>4, <1>5, <1>6

LEMMA ViewOpenFails ==
    ASSUME TypeInv, ViewInv, NEW h \in Handler, OpenFails(h)
    PROVE  ViewInv'
<1>1. UNCHANGED <<connected, clients, current, view, doc, orphaned, unsent>>
  BY DEF OpenFails, accessVars, sessionVars, clientVars, witnessVars
<1>2. ASSUME NEW g \in Handler PROVE Kept(task[g], task'[g])
  <2>1. CASE g = h \/ task[g].pc = "joinWait"
    <3>1. task[g].pc \notin UpdatePc \cup AppliedPc
      BY <2>1 DEF OpenFails, OpenPc, UpdatePc, AppliedPc
    <3>2. task'[g] = Idle
      BY <2>1 DEF OpenFails
    <3> QED BY <3>1, <3>2, KeptIdle, KeptElsewhere
  <2>2. CASE ~(g = h \/ task[g].pc = "joinWait")
    BY <2>2, KeptSame DEF OpenFails
  <2> QED BY <2>1, <2>2
<1> QED BY <1>1, <1>2, ViewStill

LEMMA ViewEvict ==
    ASSUME TypeInv, RoomInv, ViewInv, NEW h \in Handler, UpdateEvict(h)
    PROVE  ViewInv'
<1>1. /\ RemoveFromRoom(task[h].sock) /\ Become(h, Idle)
      /\ UNCHANGED <<connected, doc, orphaned, unsent>>
      /\ task[h].pc \in UpdatePc
  BY DEF UpdateEvict, Finish, UpdatePc, accessVars, sessionVars, witnessVars
<1>2. task[h].sock \in Socket
  BY HandlerOK DEF UpdateEvict, TaskOK
<1> QED BY <1>1, <1>2, ViewRemove

LEMMA ViewCrash ==
    ASSUME TypeInv, Crash
    PROVE  ViewInv'
<1>1. /\ clients' = {} /\ view' = [s \in Socket |-> {}]
      /\ \A g \in Handler : task'[g] = Idle
  BY DEF Crash
<1>2. Running(AppliedPc)' = {}
  BY <1>1, KeptIdle DEF Running
<1> QED BY <1>1, <1>2 DEF ViewInv, ViewOK, RewindsHeld

LEMMA ViewInit == Init => ViewInv
<1> SUFFICES ASSUME Init PROVE ViewInv
  OBVIOUS
<1>1. /\ clients = {} /\ view = [s \in Socket |-> {}]
      /\ \A g \in Handler : task[g] = Idle
  BY DEF Init
<1>2. Running(AppliedPc) = {}
  BY <1>1, KeptIdle DEF Running
<1> QED BY <1>1, <1>2 DEF ViewInv, ViewOK, RewindsHeld

LEMMA ViewHandler ==
    ASSUME TypeInv, TypeInv', RoomInv, RoomInv', DurableInv, ViewInv,
           NEW h \in Handler, HandlerStep(h)
    PROVE  ViewInv'
<1>1. CASE Authorize(h)
  BY <1>1, ViewReads
<1>2. CASE JoinStep(h)
  BY <1>2, ViewReads, ViewJoin, ViewOpenFails DEF JoinStep
<1>3. CASE UpdateStep(h)
  BY <1>3, ViewApply, ViewEvict DEF UpdateStep
<1>4. CASE SaveStep(h)
  BY <1>4, ViewReads DEF SaveStep
<1>5. CASE RewindStep(h)
  BY <1>5, ViewReads, ViewRewindApply, ViewRewindEnds DEF RewindStep
<1> QED BY <1>1, <1>2, <1>3, <1>4, <1>5 DEF HandlerStep

LEMMA ViewNext ==
    ASSUME TypeInv, TypeInv', RoomInv, RoomInv', DurableInv, ViewInv,
           [Next]_vars
    PROVE  ViewInv'
<1>1. CASE \E s \in Socket : SocketEvent(s)
  BY <1>1, ViewSockets
<1>2. CASE \E h \in Handler : HandlerStep(h)
  BY <1>2, ViewHandler
<1>3. CASE \E sid \in Session : SnapshotSaved(sid) \/ SnapshotFails(sid)
  <2>1. UNCHANGED <<connected, clients, current, view, doc, orphaned, unsent,
                    task>>
    BY <1>3 DEF SnapshotSaved, SnapshotWritten, SnapshotFails, accessVars,
                roomVars, clientVars, witnessVars
  <2> QED BY <2>1, KeptSame, ViewStill
<1>4. CASE Crash
  BY <1>4, ViewCrash
<1>5. CASE UNCHANGED vars
  <2>1. UNCHANGED <<connected, clients, current, view, doc, orphaned, unsent,
                    task>>
    BY <1>5 DEF vars, accessVars, roomVars, sessionVars, clientVars, witnessVars
  <2> QED BY <2>1, KeptSame, ViewStill
<1> QED BY <1>1, <1>2, <1>3, <1>4, <1>5 DEF Next

\* Whatever joins, leaves, evictions, rewinds and crashes interleave, a client
\* and its document differ by what is on the way, by what a replaced session
\* broadcast, and by what the document took while its sender was away or in a
\* rewind that failed: by nothing else, for every number of sockets.
THEOREM ViewsCorrect == Spec => []ViewsTrackDocument
<1>1. Init => TypeInv /\ RoomInv /\ WatchInv /\ DurableInv /\ ViewInv
  BY TypeInvInit, RoomInit, WatchInit, DurableInit, ViewInit
<1>2. TypeInv /\ RoomInv /\ WatchInv /\ DurableInv /\ ViewInv /\ [Next]_vars
        => (TypeInv /\ RoomInv /\ WatchInv /\ DurableInv /\ ViewInv)'
  BY TypeInvNext, RoomNext, WatchNext, DurableNext, ViewNext
<1>3. ViewInv => ViewsTrackDocument
  <2> SUFFICES ASSUME ViewInv, NEW s \in clients \cap connected
               PROVE  /\ view[s] \subseteq doc[current] \cup orphaned \cup
                           {task[h].op : h \in Running(UpdatePc)}
                      /\ doc[current] \subseteq view[s] \cup unsent \cup
                           {task[h].op : h \in Running({"rewindAppend",
                                                        "rewindRecord"})}
    BY DEF ViewsTrackDocument
  <2>1. Unapplied(s) \subseteq {task[h].op : h \in Running(UpdatePc)}
    BY DEF Unapplied
  <2> QED BY <2>1 DEF ViewInv, ViewOK, Unannounced, AppliedPc
<1> QED BY <1>1, <1>2, <1>3, PTL DEF Spec

-------------------------------------------------------------------------------
(* The rows the history is kept in: what holds of YjsAppend, whose tables  *)
(* are those of the updates modelled above at the grain of the statements. *)

WritingRow == {"createUpdate", "commit"}
CreatingRow == {"latestUpdate", "latestSnapshot", "createAggregate"}

\* The aggregate row is written by one transaction at a time, and it computed
\* the sequence that follows the last one.
LockOK ==
    \A a \in Appender :
        /\ pc[a] \in WritingRow <=> holder = a
        /\ pc[a] \in WritingRow => sequence[a] = aggregate + 1

\* A sequence computed without an aggregate is used only if there is none yet.
BaselineOK ==
    \A a \in Appender :
        pc[a] \in {"latestSnapshot", "createAggregate"} /\ aggregate = 0
            => sequence[a] = 1

\* Whoever retries met a committed aggregate, and does not create another.
RetryOK ==
    \A a \in Appender :
        /\ pc[a] # "conflict"
        /\ attempt[a] = 1 => aggregate # 0 /\ pc[a] \notin CreatingRow

\* The rows belong to calls that are over, one each.
RowsOK ==
    /\ \A q \in DOMAIN rows : pc[rows[q]] \in Outcome
    /\ StoredOnce

\* What the appends keep, together.
TableInv ==
    /\ AppendTypeOK /\ GapFree /\ snapshotRows \subseteq DOMAIN rows
    /\ LockOK /\ BaselineOK /\ RetryOK /\ RowsOK

\* The last of the sequences 1..n is n.
LEMMA LastBound ==
    ASSUME NEW n \in Nat
    PROVE  Last(1..n) = n /\ Last({}) = 0
<1>1. CASE n = 0
  BY <1>1 DEF Last
<1>2. CASE n # 0
  <2>1. n \in 1..n /\ \A r \in 1..n : r <= n
    BY <1>2
  <2>2. \A m \in 1..n : (\A r \in 1..n : r <= m) => m = n
    BY <2>1
  <2> QED BY <2>1, <2>2 DEF Last
<1> QED BY <1>1, <1>2

\* The newest of some committed snapshots does not exceed the head.
LEMMA LastEmpty ==
    ASSUME NEW S, S \subseteq 1..0
    PROVE  Last(S) = 0
BY DEF Last

\* The last of some sequences up to n is a number, which SMT needs to be told.
LEMMA LastNat ==
    ASSUME NEW n \in Nat, NEW S \in SUBSET (1..n)
    PROVE  Last(S) \in Nat
<1>1. CASE S = {}
  BY <1>1 DEF Last
<1>2. CASE S # {}
  <2> DEFINE above == {m \in Nat : \A r \in S : r <= m}
  <2>1. n \in above
    OBVIOUS
  <2>2. above \subseteq Nat
    OBVIOUS
  <2>3. PICK m \in above : \A k \in above : ~ (k < m)
    <3> DEFINE R == OpToRel(<, Nat)
    <3>1. IsWellFoundedOn(R, Nat)
      BY NatLessThanWellFounded
    <3>2. \A x, y \in Nat : x < y => <<x, y>> \in R
      BY DEF OpToRel
    <3> HIDE DEF above, R
    <3>3. above # {}
      BY <2>1
    <3>4. PICK m \in above : \A k \in above : ~ (<<k, m>> \in R)
      BY <2>2, <3>1, <3>3, WFMin
    <3> QED BY <2>2, <3>2, <3>4
  <2> HIDE DEF above
  <2>5. m \in S
    <3>1. ASSUME m \notin S PROVE FALSE
      <4>1. PICK r \in S : TRUE
        BY <1>2
      <4>2. m \in Nat /\ m # 0
        BY <2>3, <4>1 DEF above
      <4>3. m - 1 \in above
        BY <2>3, <3>1, <4>2 DEF above
      <4> QED BY <2>3, <4>2, <4>3
    <3> QED BY <3>1
  <2>6. \A r \in S : r <= m
    BY <2>3 DEF above
  <2>7. Last(S) \in S
    BY <1>2, <2>5, <2>6 DEF Last
  <2>8. \A q \in S : q \in Nat
    OBVIOUS
  <2> QED BY <2>7, <2>8, Zenon
<1> QED BY <1>1, <1>2

\* A step that writes no table and leaves the lock alone.
LEMMA TableReads ==
    ASSUME TableInv, NEW a \in Appender,
           pc[a] \in ({"idle"} \cup Statement) \ WritingRow,
           UNCHANGED <<tables, holder, attempt>>,
           NEW next \in Statement \ WritingRow, Proceed(a, next),
           sequence' \in [Appender -> Nat],
           \A b \in Appender \ {a} : sequence'[b] = sequence[b],
           next \in {"latestSnapshot", "createAggregate"} /\ aggregate = 0
              => sequence'[a] = 1,
           next \in CreatingRow => attempt[a] = 0
    PROVE  TableInv'
<1>1. /\ \A b \in Appender : pc'[b] = IF b = a THEN next ELSE pc[b]
      /\ pc' \in [Appender ->
                      {"idle"} \cup Statement \cup Outcome]
  BY DEF TableInv, AppendTypeOK, Proceed
<1>2. AppendTypeOK' /\ GapFree' /\ (snapshotRows \subseteq DOMAIN rows)'
  BY <1>1 DEF TableInv, AppendTypeOK, GapFree, tables
<1>3. LockOK'
  BY <1>1 DEF TableInv, LockOK, tables, Statement, WritingRow
<1>6. BaselineOK'
  BY <1>1 DEF TableInv, BaselineOK, tables
<1>4. RetryOK'
  BY <1>1 DEF TableInv, AppendTypeOK, RetryOK, tables, Statement
<1>5. RowsOK'
  BY <1>1 DEF TableInv, AppendTypeOK, RowsOK, StoredOnce,
     tables, Statement, Outcome, WritingRow
<1> QED BY <1>2, <1>3, <1>4, <1>5, <1>6 DEF TableInv

\* The statements that only read keep the invariant.
LEMMA QueriesInv ==
    ASSUME TableInv, NEW a \in Appender,
           \/ AppendStart(a) \/ FindAggregate(a)
           \/ LatestUpdate(a) \/ LatestSnapshot(a)
    PROVE  TableInv'
<1> USE DEF TableInv, AppendTypeOK
<1>1. CASE AppendStart(a)
  <2>1. sequence' = sequence /\ pc[a] = "idle"
    BY <1>1 DEF AppendStart
  <2> QED
    BY <1>1, <2>1, TableReads DEF AppendStart, Statement,
       WritingRow, CreatingRow
<1>2. CASE FindAggregate(a)
  <2>1. aggregate = 0 => attempt[a] = 0
    BY DEF RetryOK
  <2> QED
    BY <1>2, <2>1, TableReads DEF FindAggregate, Statement,
       WritingRow, CreatingRow
<1>3. CASE LatestUpdate(a)
  <2>1. attempt[a] = 0
    BY <1>3 DEF LatestUpdate, RetryOK, CreatingRow
  <2>2. Last(DOMAIN rows) = aggregate
    BY LastBound DEF GapFree
  <2> QED
    BY <1>3, <2>1, <2>2, TableReads DEF LatestUpdate, Statement,
       WritingRow, CreatingRow
<1>4. CASE LatestSnapshot(a)
  <2>1. attempt[a] = 0
    BY <1>4 DEF LatestSnapshot, RetryOK, CreatingRow
  <2>2. Last(snapshotRows) \in Nat
    BY LastNat DEF GapFree
  <2>3. aggregate = 0 => Last(snapshotRows) = 0 /\ sequence[a] = 1
    BY <1>4, LastEmpty DEF GapFree, LatestSnapshot, BaselineOK
  <2> QED
    BY <1>4, <2>1, <2>2, <2>3, TableReads DEF LatestSnapshot,
       Statement, WritingRow, CreatingRow
<1> QED BY <1>1, <1>2, <1>3, <1>4

\* A transaction takes the lock.
LEMMA LocksInv ==
    ASSUME TableInv, NEW a \in Appender,
           Increment(a) \/ CreateAggregate(a)
    PROVE  TableInv'
<1> USE DEF TableInv, AppendTypeOK
<1>1. /\ pc[a] \in {"increment", "createAggregate"} /\ holder = Nobody
      /\ \A b \in Appender : pc'[b] = IF b = a THEN "createUpdate" ELSE pc[b]
      /\ pc' \in [Appender ->
                      {"idle"} \cup Statement \cup Outcome]
      /\ UNCHANGED <<tables, attempt>> /\ holder' = a
  BY DEF Increment, CreateAggregate, Proceed, Statement
<1>2. /\ sequence' \in [Appender -> Nat] /\ sequence'[a] = aggregate + 1
      /\ \A b \in Appender \ {a} : sequence'[b] = sequence[b]
  <2>1. CASE Increment(a)
    BY <2>1 DEF Increment
  <2>2. CASE CreateAggregate(a)
    BY <2>2 DEF CreateAggregate, BaselineOK
  <2> QED BY <2>1, <2>2
<1>3. AppendTypeOK' /\ GapFree' /\ (snapshotRows \subseteq DOMAIN rows)'
  BY <1>1, <1>2 DEF GapFree, tables
<1>4. LockOK'
  BY <1>1, <1>2, AppenderAssumption DEF LockOK, tables, WritingRow
<1>5. BaselineOK' /\ RetryOK'
  BY <1>1, <1>2 DEF BaselineOK, RetryOK, tables, CreatingRow
<1>6. RowsOK'
  BY <1>1, <1>2 DEF RowsOK, StoredOnce, tables, Outcome
<1> QED BY <1>3, <1>4, <1>5, <1>6

\* Inserting the uncommitted row keeps the invariant: nobody sees it yet.
LEMMA CreateUpdateInv ==
    ASSUME TableInv, NEW a \in Appender, CreateUpdate(a)
    PROVE  TableInv'
<1> USE DEF TableInv, AppendTypeOK
<1>1. /\ pc[a] = "createUpdate"
      /\ \A b \in Appender : pc'[b] = IF b = a THEN "commit" ELSE pc[b]
      /\ pc' \in [Appender ->
                      {"idle"} \cup Statement \cup Outcome]
      /\ UNCHANGED <<tables, holder, attempt, sequence>>
  BY DEF CreateUpdate, Proceed, Statement
<1>2. AppendTypeOK' /\ GapFree' /\ (snapshotRows \subseteq DOMAIN rows)'
  BY <1>1 DEF GapFree, tables
<1>3. LockOK'
  BY <1>1 DEF LockOK, tables, WritingRow
<1>4. BaselineOK' /\ RetryOK'
  BY <1>1 DEF BaselineOK, RetryOK, tables, CreatingRow
<1>5. RowsOK'
  BY <1>1 DEF RowsOK, StoredOnce, tables, Outcome
<1> QED BY <1>2, <1>3, <1>4, <1>5

\* A key is violated only while the aggregate is created: whoever increments
\* holds the lock, and its sequence is new.
LEMMA ConflictInv ==
    ASSUME TableInv, NEW a \in Appender, Conflict(a)
    PROVE  TableInv'
<1> USE DEF TableInv, AppendTypeOK
<1>1. pc[a] = "createAggregate" /\ aggregate # 0
  <2>1. CASE pc[a] = "createUpdate" /\ sequence[a] \in DOMAIN rows
    BY <2>1 DEF LockOK, WritingRow, GapFree
  <2> QED BY <2>1 DEF Conflict
<1>2. attempt[a] = 0 /\ holder # a
  BY <1>1 DEF RetryOK, CreatingRow, LockOK, WritingRow
<1>3. /\ \A b \in Appender : pc'[b] = IF b = a THEN "findAggregate" ELSE pc[b]
      /\ pc' \in [Appender ->
                      {"idle"} \cup Statement \cup Outcome]
      /\ UNCHANGED <<tables, holder, sequence>>
      /\ attempt' = [attempt EXCEPT ![a] = 1]
  BY <1>2 DEF Conflict, Proceed, Release, Statement
<1>4. AppendTypeOK' /\ GapFree' /\ (snapshotRows \subseteq DOMAIN rows)'
  BY <1>3 DEF GapFree, tables
<1>5. LockOK'
  BY <1>1, <1>3 DEF LockOK, tables, WritingRow
<1>6. BaselineOK' /\ RetryOK'
  BY <1>1, <1>3 DEF BaselineOK, RetryOK, tables, CreatingRow
<1>7. RowsOK'
  BY <1>1, <1>3 DEF RowsOK, StoredOnce, tables, Outcome
<1> QED BY <1>4, <1>5, <1>6, <1>7

\* An aborted transaction leaves the tables alone and frees the lock.
LEMMA AbortInv ==
    ASSUME TableInv, NEW a \in Appender,
           Abort(a)
    PROVE  TableInv'
<1> USE DEF TableInv, AppendTypeOK
<1>1. /\ pc[a] \in Statement
      /\ \A b \in Appender : pc'[b] = IF b = a THEN "failed" ELSE pc[b]
      /\ pc' \in [Appender ->
                      {"idle"} \cup Statement \cup Outcome]
      /\ UNCHANGED <<tables, attempt, sequence>> /\ Release(a)
  BY DEF Abort, Proceed, Outcome
<1>2. AppendTypeOK' /\ GapFree' /\ (snapshotRows \subseteq DOMAIN rows)'
  BY <1>1 DEF GapFree, tables, Release
<1>3. LockOK'
  BY <1>1, AppenderAssumption DEF LockOK, tables, WritingRow, Release
<1>4. BaselineOK' /\ RetryOK'
  BY <1>1 DEF BaselineOK, RetryOK, tables, CreatingRow
<1>5. RowsOK'
  BY <1>1 DEF RowsOK, StoredOnce, tables, Outcome
<1> QED BY <1>2, <1>3, <1>4, <1>5

\* A commit appends one row, the next one, and ends its call.
LEMMA CommitInv ==
    ASSUME TableInv, NEW a \in Appender,
           Commit(a)
    PROVE  TableInv'
<1> USE DEF TableInv, AppendTypeOK
<1>1. /\ pc[a] = "commit" /\ holder = a /\ sequence[a] = aggregate + 1
      /\ aggregate' = aggregate + 1 /\ holder' = Nobody
      /\ UNCHANGED <<snapshotRows, attempt, sequence>>
  BY DEF Commit, LockOK, WritingRow, Release
<1>2. PICK outcome \in {"persisted", "failed"} :
         /\ \A b \in Appender : pc'[b] = IF b = a THEN outcome ELSE pc[b]
         /\ pc' \in [Appender ->
                      {"idle"} \cup Statement \cup Outcome]
  BY DEF Commit, Proceed, Outcome
<1>3. /\ DOMAIN rows' = DOMAIN rows \cup {aggregate + 1}
      /\ rows'[aggregate + 1] = a /\ aggregate + 1 \notin DOMAIN rows
      /\ \A q \in DOMAIN rows : rows'[q] = rows[q]
      /\ rows' \in [DOMAIN rows' -> Appender]
  BY <1>1 DEF Commit, GapFree
<1>4. AppendTypeOK' /\ GapFree' /\ (snapshotRows \subseteq DOMAIN rows)'
  BY <1>1, <1>2, <1>3 DEF GapFree
<1>5. LockOK'
  BY <1>1, <1>2, AppenderAssumption DEF LockOK, WritingRow
<1>6. BaselineOK' /\ RetryOK'
  BY <1>1, <1>2 DEF BaselineOK, RetryOK, CreatingRow
<1>7. RowsOK'
  <2>1. \A q \in DOMAIN rows : rows[q] # a /\ pc'[rows[q]] = pc[rows[q]]
    BY <1>1, <1>2 DEF RowsOK, Outcome
  <2>2. \A q \in DOMAIN rows' : pc'[rows'[q]] \in Outcome
    BY <1>2, <1>3, <2>1 DEF RowsOK, Outcome
  <2>3. \A q, r \in DOMAIN rows' : rows'[q] = rows'[r] => q = r
    BY <1>3, <2>1 DEF RowsOK, StoredOnce
  <2>4. ASSUME NEW b \in Appender, pc'[b] = "persisted"
        PROVE  sequence'[b] \in DOMAIN rows' /\ rows'[sequence'[b]] = b
    BY <1>1, <1>2, <1>3, <2>4 DEF RowsOK, StoredOnce
  <2> QED BY <2>2, <2>3, <2>4 DEF RowsOK, StoredOnce
<1> QED BY <1>4, <1>5, <1>6, <1>7

\* The empty tables satisfy the invariant.
LEMMA TableInit == AppendInit => TableInv
BY AppenderAssumption DEF AppendInit, TableInv, AppendTypeOK, GapFree, LockOK,
   BaselineOK, RetryOK, RowsOK, StoredOnce, WritingRow, CreatingRow

\* Every statement keeps the invariant.
LEMMA TableNext == TableInv /\ [AppendNext]_appendVars => TableInv'
<1> SUFFICES ASSUME TableInv, [AppendNext]_appendVars PROVE TableInv'
  OBVIOUS
<1>1. ASSUME NEW a \in Appender,
             AppendStart(a) \/ AppendStep(a) \/ Abort(a)
      PROVE  TableInv'
  BY <1>1, QueriesInv, LocksInv, CreateUpdateInv, ConflictInv, CommitInv,
     AbortInv DEF AppendStep
<1>2. ASSUME NEW q \in DOMAIN rows, SaveSnapshotRow(q)
      PROVE  TableInv'
  BY <1>2 DEF SaveSnapshotRow, TableInv, AppendTypeOK, GapFree,
     LockOK, BaselineOK, RetryOK, RowsOK, StoredOnce
<1>3. CASE UNCHANGED appendVars
  BY <1>3 DEF appendVars, TableInv, AppendTypeOK, GapFree, LockOK,
     BaselineOK, RetryOK, RowsOK, StoredOnce
<1> QED BY <1>1, <1>2, <1>3 DEF AppendNext

\* The invariant of the appends holds in every reachable state.
LEMMA TableInvariant == AppendSpec => []TableInv
BY TableInit, TableNext, PTL DEF AppendSpec

\* The history of a file has no gap, for any number of concurrent appends.
THEOREM GapFreeCorrect == AppendSpec => []GapFree
BY TableInvariant, PTL DEF TableInv

\* An answered append has exactly one row, any other one at most.
THEOREM StoredOnceCorrect == AppendSpec => []StoredOnce
<1>1. TableInv => StoredOnce
  BY DEF TableInv, RowsOK
<1> QED BY <1>1, TableInvariant, PTL

\* The second violation of a unique key, which appendUpdate would throw, does
\* not happen.
THEOREM RetryCorrect == AppendSpec => []RetrySuffices
<1>1. TableInv => RetrySuffices
  BY DEF TableInv, RetryOK, RetrySuffices
<1> QED BY <1>1, TableInvariant, PTL

\* No two transactions wait for each other, whatever is aborted or lost: the one
\* that has the aggregate row locked runs, and its insert succeeds.
THEOREM HolderCorrect == AppendSpec => []HolderProceeds
<1>1. TableInv => HolderProceeds
  <2> SUFFICES ASSUME TableInv, holder # Nobody PROVE HolderProceeds
    BY DEF HolderProceeds
  <2>1. holder \in Appender /\ aggregate \in Nat /\ DOMAIN rows = 1..aggregate
    BY DEF TableInv, AppendTypeOK, GapFree
  <2>2. pc[holder] \in WritingRow /\ sequence[holder] = aggregate + 1
    BY <2>1 DEF TableInv, LockOK
  <2> QED BY <2>1, <2>2 DEF HolderProceeds, WritingRow
<1> QED BY <1>1, TableInvariant, PTL

\* appendUpdate implements the AppendUpdate of module YjsHistory.
THEOREM AppendRefines == AppendSpec => ImplementsAppend
<1>1. ASSUME TableInv, [AppendNext]_appendVars, rows' # rows
      PROVE  \E a \in Appender :
                /\ H!AppendUpdate({a})
                /\ ~ \E q \in DOMAIN rows : rows[q] = a
  <2>1. PICK a \in Appender : Commit(a)
    BY <1>1 DEF AppendNext, AppendStep, AppendStart,
       FindAggregate, Increment, LatestUpdate,
       LatestSnapshot, CreateAggregate, CreateUpdate,
       Conflict, Abort, SaveSnapshotRow, tables,
       appendVars
  <2>2. sequence[a] = aggregate + 1 /\ aggregate \in Nat /\ pc[a] = "commit"
        /\ DOMAIN rows = 1..aggregate
    BY <1>1, <2>1 DEF TableInv, AppendTypeOK, LockOK, WritingRow,
       Commit, GapFree
  <2>3. /\ DOMAIN rows' = 1..(aggregate + 1) /\ rows'[aggregate + 1] = a
        /\ \A q \in 1..aggregate : rows'[q] = rows[q]
    BY <2>1, <2>2 DEF Commit
  <2>4. /\ Cardinality(DOMAIN rows) = aggregate
        /\ Cardinality(DOMAIN rows') = aggregate + 1
    <3>1. \A n \in Nat : Cardinality(1..n) = n
      BY FS_Interval
    <3> QED BY <2>2, <2>3, <3>1
  <2>5. H!AppendUpdate({a})
    <3> DEFINE n == aggregate
               old == [q \in 1..n |-> {rows[q]}]
               new == [q \in 1..(n + 1) |-> {rows'[q]}]
    <3>1. old \in Seq(SUBSET Appender) /\ Len(old) = n
      <4>1. \A q \in 1..n : {rows[q]} \in SUBSET Appender
        BY <1>1, <2>2 DEF TableInv, AppendTypeOK
      <4> QED BY <2>2, <4>1
    <3>2. {a} \in SUBSET Appender /\ \A q \in 1..n : old[q] = {rows[q]}
      OBVIOUS
    <3> HIDE DEF old
    <3>6. /\ Append(old, {a}) \in Seq(SUBSET Appender)
          /\ Len(Append(old, {a})) = n + 1
          /\ \A q \in 1..n : Append(old, {a})[q] = old[q]
          /\ Append(old, {a})[n + 1] = {a}
      BY <3>1, <3>2, AppendProperties
    <3>3. new \in Seq(SUBSET Appender) /\ Len(new) = n + 1
      <4>1. \A q \in 1..n : rows[q] \in Appender
        BY <1>1, <2>2 DEF TableInv, AppendTypeOK
      <4>2. \A q \in 1..(n + 1) : {rows'[q]} \in SUBSET Appender
        BY <2>2, <2>3, <4>1
      <4> QED BY <2>2, <4>2
    <3>4. \A q \in 1..(n + 1) : new[q] = Append(old, {a})[q]
      BY <2>2, <2>3, <3>2, <3>6
    <3> HIDE DEF new
    <3>5. new = Append(old, {a})
      BY <2>2, <3>3, <3>4, <3>6, SeqEqual
    <3> QED BY <2>4, <3>5 DEF H!AppendUpdate, old, new
  <2>6. ~ \E q \in DOMAIN rows : rows[q] = a
    BY <1>1, <2>2 DEF TableInv, RowsOK, Outcome
  <2> QED BY <2>5, <2>6
<1>2. TableInv /\ [AppendNext]_appendVars =>
        [\E a \in Appender :
            H!AppendUpdate({a})
                /\ ~ \E q \in DOMAIN rows : rows[q] = a]_rows
  BY <1>1
<1> QED BY <1>2, TableInvariant, PTL DEF AppendSpec, ImplementsAppend

===============================================================================
