------------------------------ MODULE DocSession ------------------------------
(***************************************************************************)
(* The live document of one file, as collab.gateway.ts keeps it, together  *)
(* with the history of module YjsHistory it is loaded from and saved to.   *)
(*                                                                         *)
(* The server is one Node process: a handler runs without interruption up  *)
(* to its next await, and other handlers run while it waits.  Each step of *)
(* a handler below is one such stretch, or one answer of the database.     *)
(* An await that only hops a microtask (an async function that returns at  *)
(* once, socket.join) waits for no I/O and is not a step of its own.       *)
(*                                                                         *)
(* A handler keeps the session object it captured before its first await,  *)
(* even if the room has lost that session since: sessions have identities, *)
(* and `current` is the one docSessions maps the room to.                  *)
(***************************************************************************)
EXTENDS YjsHistory

CONSTANTS
    Socket,             \* the sockets; each belongs to a subject of its own
    NoSocket,           \* not a socket
    Handler,            \* the event handlers that can be in flight at once
    MaxEdit,            \* bound: edits made by clients and by rewinds
    MaxOpen,            \* bound: sessions ever opened
    MaxSequence,        \* bound: update rows ever appended
    SnapshotInterval,   \* snapshotIntervalUpdates, 200 by default
    Environment         \* what else may happen: "access", "failure", "crash"

Session == 1..MaxOpen
None == 0                               \* no session

Edit == 1..MaxEdit
Seed(sid) == MaxEdit + sid              \* the file content, inserted by session
SeedOp == {Seed(sid) : sid \in Session} \* sid because it found no history

ASSUME ConstantsAssumption ==
    /\ IsFiniteSet(Handler)
    /\ NoSocket \notin Socket
    /\ MaxEdit \in Nat /\ MaxOpen \in Nat /\ MaxSequence \in Nat
    /\ SnapshotInterval \in Nat \ {0}
    /\ Environment \subseteq {"access", "failure", "crash"}
    /\ Op = Edit \cup SeedOp

VARIABLES
    \* access and transport
    connected,          \* sockets that are connected
    allowed,            \* sockets whose subject passes canEditProject
    joined,             \* sockets whose joinedRooms has the room
    \* the gateway's maps, for this room
    current,            \* docSessions.get(room), or None
    clients,            \* clients of the current session
    authorized,         \* authorizedSubjects of the current session
    pending,            \* pendingSessionInitializations has the room
    dirty,              \* dirtySocketsByDocRoom.get(room)
    \* the session objects
    opened,             \* how many were opened
    doc,                \* doc[sid]: the operations in its Y.Doc
    lastSequence,       \* lastSequence[sid]
    sinceSnapshot,      \* updatesSinceSnapshot[sid]
    inFlight,           \* the snapshot sid is saving (snapshotInFlight)
    \* the handlers in flight
    task,
    \* the clients
    edits,              \* edits made so far
    view,               \* view[s]: the operations s made, or was sent
    \* what happened; only properties read these
    acked,              \* operations whose save or rewind was acknowledged
    orphaned,           \* operations broadcast from a session not current
    unsent,             \* operations a client of their document was not sent
    forked              \* a replaced session appended, or access came back to a
                        \* socket that was opening the document without it

accessVars == <<connected, allowed>>
roomVars == <<joined, current, clients, authorized, pending, dirty>>
sessionVars == <<opened, doc, lastSequence, sinceSnapshot, inFlight>>
clientVars == <<edits, view>>
witnessVars == <<acked, orphaned, unsent, forked>>
vars == <<historyVars, accessVars, roomVars, sessionVars, task, clientVars,
          witnessVars>>

\* Where a handler is: the await it is in, named for what follows it.
OpenPc == {"openSnapshot", "openUpdates", "openContent", "openInstall"}
JoinPc == {"joinAuth", "joinOpen", "joinWait"} \cup OpenPc
UpdatePc == {"updateAuth", "updateApply", "updateEvict"}
SavePc == {"saveAuth", "saveEncode", "saveAppend", "saveAck"}
RewindPc == {"rewindAuth", "rewindCheck", "rewindTarget", "rewindSnapshot",
             "rewindApply", "rewindAppend", "rewindRecord"}

Task == [pc : {"idle"} \cup JoinPc \cup UpdatePc \cup SavePc \cup RewindPc,
         sock : Socket \cup {NoSocket},
         sid : Session \cup {None},     \* the session captured
         op : Edit \cup {0},            \* the operation of an update or rewind
         expected : Nat, target : Nat,  \* the heads a rewind names
         sequence : Nat,                \* the sequence read or appended
         body : SUBSET Op]              \* the operations read or appended

NewTask(pc, sock, sid, op, expected, target) ==
    [pc |-> pc, sock |-> sock, sid |-> sid, op |-> op, expected |-> expected,
     target |-> target, sequence |-> 0, body |-> {}]

Idle == NewTask("idle", NoSocket, None, 0, 0, 0)

NoSnapshot == [sequence |-> 0, body |-> {}, captured |-> 0]

Running(pcs) == {h \in Handler : task[h].pc \in pcs}

Appending == {h \in Running(SavePc \cup RewindPc) :
                task[h].pc \notin {"saveAck", "rewindRecord"}}

Init ==
    /\ HistoryInit
    /\ connected = {} /\ allowed = Socket
    /\ joined = {} /\ current = None /\ clients = {} /\ authorized = {}
    /\ pending = FALSE /\ dirty = {}
    /\ opened = 0
    /\ doc = [sid \in Session |-> {}]
    /\ lastSequence = [sid \in Session |-> 0]
    /\ sinceSnapshot = [sid \in Session |-> 0]
    /\ inFlight = [sid \in Session |-> NoSnapshot]
    /\ task = [h \in Handler |-> Idle]
    /\ edits = 0 /\ view = [s \in Socket |-> {}]
    /\ acked = {} /\ orphaned = {} /\ unsent = {} /\ forked = FALSE

-----------------------------------------------------------------------------
(* Moving a handler.                                                       *)

Become(h, t) == task' = [task EXCEPT ![h] = t]
Start(h, t) == task[h] = Idle /\ Become(h, t)
Finish(h) == Become(h, Idle)
Goto(h, pc) == Become(h, [task[h] EXCEPT !.pc = pc])

\* What every handler of a joined socket finds before its first await.
InRoom(s) ==
    /\ s \in connected /\ s \in joined
    /\ current # None
    /\ s \in authorized

\* Everyone in the room but the sockets in except receives op.
Broadcast(op, except) ==
    [s \in Socket |-> IF s \in (joined \cap connected) \ except
                        THEN view[s] \cup {op} ELSE view[s]]

-----------------------------------------------------------------------------
(* Sockets and access rights.                                              *)

\* A socket id is new: nothing on the server refers to it.
Connect(s) ==
    /\ s \notin connected /\ s \notin clients
    /\ \A h \in Handler : task[h].sock # s
    /\ connected' = connected \cup {s}
    /\ UNCHANGED <<historyVars, allowed, roomVars, sessionVars, task,
                   clientVars, witnessVars>>

Revoke(s) ==
    /\ "access" \in Environment /\ s \in allowed
    /\ allowed' = allowed \ {s}
    /\ UNCHANGED <<historyVars, connected, roomVars, sessionVars, task,
                   clientVars, witnessVars>>

Grant(s) ==
    /\ "access" \in Environment /\ s \notin allowed
    /\ allowed' = allowed \cup {s}
    /\ forked' = (forked \/ \E h \in Running({"openContent"}) : task[h].sock = s)
    /\ UNCHANGED <<historyVars, connected, roomVars, sessionVars, task,
                   clientVars, acked, orphaned, unsent>>

\* removeSocketFromDocSession, with what its callers do around it; the session
\* ends if s is the last client.
Remove(s, last) ==
    /\ joined' = joined \ {s}
    /\ dirty' = dirty \ {s}
    /\ clients' = clients \ {s}
    /\ current' = IF last THEN None ELSE current
    /\ authorized' = IF last THEN {} ELSE authorized
    /\ view' = [view EXCEPT ![s] = {}]

\* Fault: whether clients are left is asked before s is deleted from them.
FaultyRemoveFromRoom(s) == Remove(s, clients = {})

RemoveFromRoom(s) == Remove(s, clients \subseteq {s})

\* collab:doc:leave
Leave(s) ==
    /\ s \in connected /\ s \in joined
    /\ RemoveFromRoom(s)
    /\ UNCHANGED <<historyVars, accessVars, pending, sessionVars, task, edits,
                   witnessVars>>

\* The handlers of a socket outlive it.  Rooms it left before stay as they are,
\* with the dirty flag a late update may have put there.
Disconnect(s) ==
    /\ s \in connected
    /\ connected' = connected \ {s}
    /\ \/ s \in joined /\ RemoveFromRoom(s)
       \/ /\ s \notin joined
          /\ UNCHANGED <<joined, dirty, clients, current, authorized, view>>
    /\ UNCHANGED <<historyVars, allowed, pending, sessionVars, task, edits,
                   witnessVars>>

\* The answer of canJoinProject and canJoinFile.
Authorize(h) ==
    LET t == task[h]
        denied == IF t.pc = "updateAuth" THEN [t EXCEPT !.pc = "updateEvict"]
                                         ELSE Idle
        granted == CASE t.pc = "joinAuth" -> "joinOpen"
                     [] t.pc = "updateAuth" -> "updateApply"
                     [] t.pc = "saveAuth" -> "saveEncode"
                     [] t.pc = "rewindAuth" -> "rewindCheck"
    IN  /\ t.pc \in {"joinAuth", "updateAuth", "saveAuth", "rewindAuth"}
        /\ Become(h, IF t.sock \in allowed THEN [t EXCEPT !.pc = granted]
                                           ELSE denied)
        /\ UNCHANGED <<historyVars, accessVars, roomVars, sessionVars,
                       clientVars, witnessVars>>

-----------------------------------------------------------------------------
(* collab:doc:join: handleDocJoin and getOrCreateDocSession.               *)

JoinStart(s, h) ==
    /\ s \in connected
    /\ opened + Cardinality(Running(JoinPc)) < MaxOpen
    /\ Start(h, NewTask("joinAuth", s, None, 0, 0, 0))
    /\ UNCHANGED <<historyVars, accessVars, roomVars, sessionVars, clientVars,
                   witnessVars>>

\* The end of handleDocJoin for the sockets of the handlers hs, connected or
\* not, in session sid with content body.
Attach(hs, sid, body) ==
    LET socks == {task[h].sock : h \in hs}
    IN  /\ current' = sid
        /\ joined' = joined \cup socks
        /\ clients' = clients \cup socks
        /\ authorized' = authorized \cup socks
        /\ view' = [s \in Socket |-> IF s \in socks \cap connected
                                        THEN view[s] \cup body ELSE view[s]]
        /\ task' = [h \in Handler |-> IF h \in hs THEN Idle ELSE task[h]]

JoinExisting(h) ==
    /\ task[h].pc = "joinOpen" /\ current # None
    /\ Attach({h}, current, doc[current])
    /\ UNCHANGED <<historyVars, accessVars, pending, dirty, sessionVars, edits,
                   witnessVars>>

JoinPending(h) ==
    /\ task[h].pc = "joinOpen" /\ current = None /\ pending
    /\ Goto(h, "joinWait")
    /\ UNCHANGED <<historyVars, accessVars, roomVars, sessionVars, clientVars,
                   witnessVars>>

JoinCreate(h) ==
    /\ task[h].pc = "joinOpen" /\ current = None /\ ~pending
    /\ pending' = TRUE
    /\ Goto(h, "openSnapshot")
    /\ UNCHANGED <<historyVars, accessVars, joined, current, clients,
                   authorized, dirty, sessionVars, clientVars, witnessVars>>

\* getHydratedState: the newest snapshot, then, in a second query, the
\* updates after it.  Without access the loader answers null.
OpenSnapshot(h) ==
    LET t == task[h]
        base == Newest(DOMAIN snapshots)
    IN  /\ t.pc = "openSnapshot"
        /\ Become(h, IF t.sock \in allowed
                       THEN [t EXCEPT !.pc = "openUpdates", !.sequence = base,
                                      !.body = SnapshotBody(base)]
                       ELSE [t EXCEPT !.pc = "openContent"])
        /\ UNCHANGED <<historyVars, accessVars, roomVars, sessionVars,
                       clientVars, witnessVars>>

OpenUpdates(h) ==
    LET t == task[h]
        base == t.sequence
        head == IF HeadSequence > base THEN HeadSequence ELSE base
    IN  /\ t.pc = "openUpdates"
        /\ Become(h, IF head = 0
                       THEN [t EXCEPT !.pc = "openContent"]
                       ELSE [t EXCEPT
                               !.pc = "openInstall", !.sequence = head,
                               !.body = @ \cup UpdateBodies(base + 1, head)])
        /\ UNCHANGED <<historyVars, accessVars, roomVars, sessionVars,
                       clientVars, witnessVars>>

\* docSessions.set, and everyone who waited for it.
Install(h, body, sequence) ==
    LET sid == opened + 1
    IN  /\ opened' = sid
        /\ doc' = [doc EXCEPT ![sid] = body]
        /\ lastSequence' = [lastSequence EXCEPT ![sid] = sequence]
        /\ pending' = FALSE
        /\ Attach({h} \cup Running({"joinWait"}), sid, body)
        /\ UNCHANGED <<historyVars, accessVars, dirty, sinceSnapshot, inFlight,
                       edits, witnessVars>>

\* Fault: the file content is inserted although there is a history.
FaultyOpenInstall(h) ==
    /\ task[h].pc = "openInstall"
    /\ Install(h, task[h].body \cup {Seed(opened + 1)}, task[h].sequence)

OpenInstall(h) ==
    /\ task[h].pc = "openInstall"
    /\ Install(h, task[h].body, task[h].sequence)

\* The loader has answered null, for want of a history or of access: the answer of
\* loadFileContent, which asks for access again, starts the document.
OpenContent(h) ==
    /\ task[h].pc = "openContent" /\ task[h].sock \in allowed
    /\ Install(h, {Seed(opened + 1)}, 0)

\* A query fails; so does a write, without access.
Fails(h) == "failure" \in Environment \/ task[h].sock \notin allowed

\* createSession answers null (no access, no file) or fails.
OpenFails(h) ==
    /\ \/ task[h].pc \in OpenPc \ {"openInstall"} /\ "failure" \in Environment
       \/ task[h].pc = "openContent" /\ task[h].sock \notin allowed
    /\ pending' = FALSE
    /\ task' = [g \in Handler |->
                  IF g = h \/ task[g].pc = "joinWait" THEN Idle ELSE task[g]]
    /\ UNCHANGED <<historyVars, accessVars, joined, current, clients,
                   authorized, dirty, sessionVars, clientVars, witnessVars>>

-----------------------------------------------------------------------------
(* collab:doc:update                                                       *)

UpdateStart(s, h) ==
    /\ InRoom(s)
    /\ edits < MaxEdit
    /\ edits' = edits + 1
    /\ view' = [view EXCEPT ![s] = @ \cup {edits + 1}]
    /\ Start(h, NewTask("updateAuth", s, current, edits + 1, 0, 0))
    /\ UNCHANGED <<historyVars, accessVars, roomVars, sessionVars, witnessVars>>

\* Applied to the session captured, broadcast to the room as it is now.
UpdateApply(h) ==
    LET t == task[h]
    IN  /\ t.pc = "updateApply"
        /\ doc' = [doc EXCEPT ![t.sid] = @ \cup {t.op}]
        /\ dirty' = dirty \cup {t.sock}
        /\ view' = Broadcast(t.op, {t.sock})
        /\ orphaned' = IF t.sid = current THEN orphaned ELSE orphaned \cup {t.op}
        /\ unsent' = IF t.op \in view[t.sock] THEN unsent ELSE unsent \cup {t.op}
        /\ Finish(h)
        /\ UNCHANGED <<historyVars, accessVars, joined, current, clients,
                       authorized, pending, opened, lastSequence,
                       sinceSnapshot, inFlight, edits, acked, forked>>

UpdateEvict(h) ==
    /\ task[h].pc = "updateEvict"
    /\ RemoveFromRoom(task[h].sock)
    /\ Finish(h)
    /\ UNCHANGED <<historyVars, accessVars, pending, sessionVars, edits,
                   witnessVars>>

-----------------------------------------------------------------------------
(* collab:doc:saved                                                        *)

SaveStart(s, h) ==
    /\ InRoom(s)
    /\ HeadSequence + Cardinality(Appending) < MaxSequence
    /\ Start(h, NewTask("saveAuth", s, current, 0, 0, 0))
    /\ UNCHANGED <<historyVars, accessVars, roomVars, sessionVars, clientVars,
                   witnessVars>>

SaveSkip(h) ==
    /\ task[h].pc = "saveEncode" /\ dirty = {}
    /\ Finish(h)
    /\ UNCHANGED <<historyVars, accessVars, roomVars, sessionVars, clientVars,
                   witnessVars>>

SaveEncode(h) ==
    /\ task[h].pc = "saveEncode" /\ dirty # {}
    /\ Become(h, [task[h] EXCEPT !.pc = "saveAppend",
                                 !.body = doc[task[h].sid]])
    /\ UNCHANGED <<historyVars, accessVars, roomVars, sessionVars, clientVars,
                   witnessVars>>

\* The answer of appendYjsUpdate, for a save or a rewind.
AppendAnswer(h) ==
    LET t == task[h]
    IN  /\ t.pc \in {"saveAppend", "rewindAppend"} /\ t.sock \in allowed
        /\ AppendUpdate(t.body)
        /\ Become(h, [t EXCEPT !.pc = IF t.pc = "saveAppend" THEN "saveAck"
                                                         ELSE "rewindRecord",
                               !.sequence = HeadSequence + 1])
        /\ forked' = (forked \/ t.sid # current)
        /\ UNCHANGED <<snapshots, rewinds, accessVars, roomVars, sessionVars,
                       clientVars, acked, orphaned, unsent>>

SaveFails(h) ==
    /\ task[h].pc = "saveAppend" /\ Fails(h)
    /\ Finish(h)
    /\ UNCHANGED <<historyVars, accessVars, roomVars, sessionVars, clientVars,
                   witnessVars>>

\* The snapshot a save starts when enough updates were persisted.
StartSnapshot(sid, sequence) ==
    LET count == sinceSnapshot[sid] + 1
    IN  inFlight' = [inFlight EXCEPT ![sid] =
            IF @ = NoSnapshot /\ count >= SnapshotInterval
              THEN [sequence |-> sequence, body |-> doc[sid], captured |-> count]
              ELSE @]

SaveAck(h) ==
    LET t == task[h]
    IN  /\ t.pc = "saveAck"
        /\ lastSequence' = [lastSequence EXCEPT ![t.sid] = t.sequence]
        /\ sinceSnapshot' = [sinceSnapshot EXCEPT ![t.sid] = @ + 1]
        /\ StartSnapshot(t.sid, t.sequence)
        /\ dirty' = {}
        /\ acked' = acked \cup t.body
        /\ Finish(h)
        /\ UNCHANGED <<historyVars, accessVars, joined, current, clients,
                       authorized, pending, opened, doc, clientVars, orphaned,
                       unsent, forked>>

\* saveYjsSnapshot answered: its row is there, and count updates are left that
\* no snapshot covers.
SnapshotWritten(sid, sequence, count) ==
    /\ inFlight[sid] # NoSnapshot
    /\ SaveSnapshot(sequence, inFlight[sid].body)
    /\ sinceSnapshot' = [sinceSnapshot EXCEPT ![sid] = count]
    /\ inFlight' = [inFlight EXCEPT ![sid] = NoSnapshot]
    /\ UNCHANGED <<updates, rewinds, accessVars, roomVars, opened, doc,
                   lastSequence, task, clientVars, witnessVars>>

\* Math.max(0, updatesSinceSnapshot - updatesCapturedBySnapshot)
Uncovered(sid) ==
    LET left == sinceSnapshot[sid] - inFlight[sid].captured
    IN  IF left > 0 THEN left ELSE 0

\* Fault: the sequence is read from the session when the row is written.
FaultySnapshotSaved(sid) ==
    SnapshotWritten(sid, lastSequence[sid], Uncovered(sid))

SnapshotSaved(sid) ==
    SnapshotWritten(sid, inFlight[sid].sequence, Uncovered(sid))

SnapshotFails(sid) ==
    /\ inFlight[sid] # NoSnapshot
    /\ Environment \cap {"failure", "access"} # {}
    /\ inFlight' = [inFlight EXCEPT ![sid] = NoSnapshot]
    /\ UNCHANGED <<historyVars, accessVars, roomVars, opened, doc,
                   lastSequence, sinceSnapshot, task, clientVars, witnessVars>>

-----------------------------------------------------------------------------
(* collab:doc:rewind                                                       *)

\* The client names a target and the head its timeline showed.
RewindStart(s, h) ==
    /\ InRoom(s)
    /\ edits < MaxEdit
    /\ HeadSequence + Cardinality(Appending) < MaxSequence
    /\ edits' = edits + 1
    /\ \E expected, target \in 1..HeadSequence :
         Start(h, NewTask("rewindAuth", s, current, edits + 1, expected, target))
    /\ UNCHANGED <<historyVars, accessVars, roomVars, sessionVars, view,
                   witnessVars>>

HeadIsExpected(t) == t.expected = lastSequence[t.sid]

RewindCheck(h) ==
    LET t == task[h]
    IN  /\ t.pc = "rewindCheck"
        /\ HeadIsExpected(t) /\ t.target <= lastSequence[t.sid]
        /\ Goto(h, "rewindTarget")
        /\ UNCHANGED <<historyVars, accessVars, roomVars, sessionVars,
                       clientVars, witnessVars>>

\* The answers about the target; the head, unmoved, becomes previousHead.
RewindTarget(h) ==
    LET t == task[h]
    IN  /\ t.pc = "rewindTarget"
        /\ t.target \in DOMAIN snapshots /\ HeadIsExpected(t)
        /\ Goto(h, "rewindSnapshot")
        /\ UNCHANGED <<historyVars, accessVars, roomVars, sessionVars,
                       clientVars, witnessVars>>

\* A rewind leaves a snapshot at the head it replaces.
RewindSnapshot(h) ==
    LET head == task[h].expected
    IN  /\ task[h].pc = "rewindSnapshot"
        /\ IF head \in DOMAIN snapshots THEN UNCHANGED snapshots
                                        ELSE SaveSnapshot(head, HydratedAt(head))
        /\ Goto(h, "rewindApply")
        /\ UNCHANGED <<updates, rewinds, accessVars, roomVars, sessionVars,
                       clientVars, witnessVars>>

\* The document changes before anything about the rewind is persisted.
RewindApply(h) ==
    LET t == task[h]
    IN  /\ t.pc = "rewindApply" /\ HeadIsExpected(t)
        /\ doc' = [doc EXCEPT ![t.sid] = @ \cup {t.op}]
        /\ Become(h, [t EXCEPT !.pc = "rewindAppend", !.body = {t.op}])
        /\ UNCHANGED <<historyVars, accessVars, roomVars, opened, lastSequence,
                       sinceSnapshot, inFlight, clientVars, witnessVars>>

\* A check or a query fails: the head moved, the target is no snapshot, the
\* document holds more than text (at any rewindCheck), or replacing the text
\* changes nothing (at any rewindApply).
RewindReject(h) ==
    LET t == task[h]
    IN  /\ \/ t.pc \in {"rewindCheck", "rewindApply"}
           \/ /\ t.pc = "rewindTarget"
              /\ t.target \notin DOMAIN snapshots \/ ~HeadIsExpected(t)
           \/ t.pc \in {"rewindTarget", "rewindSnapshot"} /\ Fails(h)
        /\ Finish(h)
        /\ UNCHANGED <<historyVars, accessVars, roomVars, sessionVars,
                       clientVars, witnessVars>>

\* recordYjsRewind answered: the edge from head is there, and everyone in the
\* room but the sockets in except is sent the rewind.
Recorded(h, head, except) ==
    LET t == task[h]
    IN  /\ t.pc = "rewindRecord" /\ t.sock \in allowed
        /\ SaveRewind(t.sequence, t.target, head)
        /\ lastSequence' = [lastSequence EXCEPT ![t.sid] = t.sequence]
        /\ sinceSnapshot' = [sinceSnapshot EXCEPT ![t.sid] = @ + 1]
        /\ dirty' = dirty \cup {t.sock}
        /\ view' = Broadcast(t.op, except)
        /\ acked' = acked \cup {t.op}
        /\ orphaned' = IF t.sid = current THEN orphaned ELSE orphaned \cup {t.op}
        /\ Finish(h)
        /\ UNCHANGED <<updates, snapshots, accessVars, joined, current,
                       clients, authorized, pending, opened, doc, inFlight,
                       edits, unsent, forked>>

\* Fault: the head of the edge is read after the append.
FaultyRewindRecord(h) == Recorded(h, task[h].sequence, {})

\* Fault: the rewind is not sent to the socket that asked for it.
UnsentRewindRecord(h) == Recorded(h, task[h].expected, {task[h].sock})

RewindRecord(h) == Recorded(h, task[h].expected, {})

\* The append or the record fails: the document stays rewound, unannounced.
RewindFails(h) ==
    LET t == task[h]
    IN  /\ t.pc \in {"rewindAppend", "rewindRecord"} /\ Fails(h)
        /\ unsent' = unsent \cup {t.op}
        /\ Finish(h)
        /\ UNCHANGED <<historyVars, accessVars, roomVars, sessionVars,
                       clientVars, acked, orphaned, forked>>

-----------------------------------------------------------------------------
\* The process dies: only the history survives.
Crash ==
    /\ "crash" \in Environment /\ connected # {}
    /\ connected' = {} /\ joined' = {} /\ current' = None /\ clients' = {}
    /\ authorized' = {} /\ pending' = FALSE /\ dirty' = {}
    /\ inFlight' = [sid \in Session |-> NoSnapshot]
    /\ task' = [h \in Handler |-> Idle]
    /\ view' = [s \in Socket |-> {}]
    /\ UNCHANGED <<historyVars, allowed, opened, doc, lastSequence,
                   sinceSnapshot, edits, witnessVars>>

JoinStep(h) ==
    \/ JoinExisting(h) \/ JoinPending(h) \/ JoinCreate(h)
    \/ OpenSnapshot(h) \/ OpenUpdates(h) \/ OpenInstall(h) \/ OpenContent(h)
    \/ OpenFails(h)

UpdateStep(h) == UpdateApply(h) \/ UpdateEvict(h)

SaveStep(h) ==
    SaveSkip(h) \/ SaveEncode(h) \/ AppendAnswer(h) \/ SaveFails(h) \/ SaveAck(h)

RewindStep(h) ==
    \/ RewindCheck(h) \/ RewindTarget(h) \/ RewindSnapshot(h) \/ RewindApply(h)
    \/ RewindReject(h) \/ RewindRecord(h) \/ RewindFails(h)

HandlerStep(h) ==
    Authorize(h) \/ JoinStep(h) \/ UpdateStep(h) \/ SaveStep(h) \/ RewindStep(h)

SocketEvent(s) ==
    \/ Connect(s) \/ Disconnect(s) \/ Revoke(s) \/ Grant(s) \/ Leave(s)
    \/ \E h \in Handler : \/ JoinStart(s, h) \/ UpdateStart(s, h)
                          \/ SaveStart(s, h) \/ RewindStart(s, h)

Next ==
    \/ \E s \in Socket : SocketEvent(s)
    \/ \E h \in Handler : HandlerStep(h)
    \/ \E sid \in Session : SnapshotSaved(sid) \/ SnapshotFails(sid)
    \/ Crash

Spec == Init /\ [][Next]_vars

-----------------------------------------------------------------------------
HistoryTypeOK ==
    /\ updates \in Seq(SUBSET Op)
    /\ DOMAIN snapshots \subseteq Nat
    /\ snapshots \in [DOMAIN snapshots -> SUBSET Op]
    /\ rewinds \in SUBSET RewindEdge

RoomTypeOK ==
    /\ connected \in SUBSET Socket /\ allowed \in SUBSET Socket
    /\ joined \in SUBSET Socket /\ clients \in SUBSET Socket
    /\ authorized \in SUBSET Socket /\ dirty \in SUBSET Socket
    /\ current \in Session \cup {None} /\ pending \in BOOLEAN

SessionTypeOK ==
    /\ opened \in Session \cup {0}
    /\ doc \in [Session -> SUBSET Op]
    /\ lastSequence \in [Session -> Nat]
    /\ sinceSnapshot \in [Session -> Nat]
    /\ inFlight \in [Session ->
                        [sequence : Nat, body : SUBSET Op, captured : Nat]]

ClientTypeOK ==
    /\ edits \in Edit \cup {0} /\ view \in [Socket -> SUBSET Op]
    /\ acked \in SUBSET Op /\ orphaned \in SUBSET Op /\ unsent \in SUBSET Op
    /\ forked \in BOOLEAN

\* Every variable keeps its type; in particular a counter of updates since the
\* last snapshot is never negative, and no more sessions are opened than joins
\* were admitted for.
TypeOK ==
    /\ HistoryTypeOK /\ RoomTypeOK /\ SessionTypeOK /\ ClientTypeOK
    /\ task \in [Handler -> Task]

\* A socket that passed the join is a client of the session its room has now,
\* and no session is kept for a room that nobody joined: whatever joins,
\* leaves, evictions and failed openings interleave, "Document session not
\* found" is never the answer to a joined socket, and the check of
\* authorizedSubjects never turns one away (removeSocketFromDocSession and
\* the end of handleDocJoin).
RoomConsistent ==
    /\ joined = clients
    /\ clients \subseteq authorized
    /\ current = None <=> clients = {}

\* A room is opened by one handler at a time, only while it has no session,
\* and nobody waits for an opening that is over (the single flight of
\* getOrCreateDocSession).
SingleOpening ==
    /\ Cardinality(Running(OpenPc)) = IF pending THEN 1 ELSE 0
    /\ pending => current = None
    /\ Running({"joinWait"}) # {} => pending

\* What a save or a rewind acknowledged is in every document rebuilt from the
\* history later, snapshots included (doc:saved, doc:rewind, getHydratedState).
\* Two things are excepted: a handler of a session that was replaced appends to
\* the history, and a socket gets its access back while it opens the document
\* without it, which then starts from the file although there is a history.
Durable == ~forked => acked \subseteq Hydrated

\* The history holds one insertion of the stored file content at most: whatever
\* opens, crashes, failures and loss of access interleave, the text is not
\* duplicated when a file is reopened (createSession).  With the same two
\* exceptions, both of which the code allows: an append by a handler of a replaced
\* session, and access that comes back between the answer of the loader and that
\* of loadFileContent.
OneSeed ==
    ~forked => \A op1, op2 \in Hydrated \cap SeedOp : op1 = op2

\* No session believes the history longer than it is, and a rewind edge leads
\* from the head it replaced, back to an older sequence, on to a newer one.
EdgesPointBack ==
    /\ \A sid \in Session : lastSequence[sid] <= HeadSequence
    /\ \A e \in rewinds : /\ e.target <= e.previousHead
                          /\ e.previousHead < e.applied
                          /\ e.applied <= HeadSequence

\* A client and its document differ only by updates in flight, by operations a
\* handler broadcast from a replaced session, and by operations that reached
\* the document while their sender was away or in a rewind that failed.
ViewsTrackDocument ==
    \A s \in clients \cap connected :
        LET sent(pcs) == {task[h].op : h \in Running(pcs)}
        IN  /\ view[s] \subseteq doc[current] \cup orphaned \cup sent(UpdatePc)
            /\ doc[current] \subseteq
                  view[s] \cup unsent \cup sent({"rewindAppend", "rewindRecord"})

-----------------------------------------------------------------------------
(* What the repository says, and the code does not do.                     *)

Quiet == /\ \A h \in Handler : task[h] = Idle
         /\ \A sid \in Session : inFlight[sid] = NoSnapshot

\* README, line 37: edits are synchronized in real time.  With nothing in
\* flight, every client holds its document.
Synchronized ==
    Quiet => \A s \in clients \cap connected : view[s] = doc[current]

\* The test "rejects rewind when expected head sequence does not match current
\* head": with nothing in flight, a session whose last operation of its own was
\* a rewind compares the expected head with the current head.
HeadMatches ==
    /\ Quiet /\ current # None
    /\ \E e \in rewinds : e.applied = lastSequence[current]
    => lastSequence[current] = HeadSequence

===============================================================================
