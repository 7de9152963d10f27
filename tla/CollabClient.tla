----------------------------- MODULE CollabClient -----------------------------
(***************************************************************************)
(* The browser's side of the collaboration protocol: the hook useCollabDoc,*)
(* which joins the document of the selected file and watches the project,  *)
(* on top of CollabClient, which shares one Socket.IO connection between   *)
(* its callers and joins a project for the first watcher only.  The server *)
(* is what the gateway keeps of one connection: the rooms it has joined    *)
(* and the handlers of joins that wait for the database.                   *)
(***************************************************************************)
EXTENDS Naturals, SequencesExt

CONSTANTS
    File,           \* the files of the project
    Project,        \* the room of the project itself
    NoFile,         \* not a file
    MaxSelect,      \* bound: files selected one after the other
    MaxWatch,       \* bound: times the project is watched (again)
    MaxSocket,      \* bound: sockets made
    MaxEdit,        \* bound: edits typed
    MaxDrop,        \* bound: connections lost
    Environment     \* which of "timeout", "refusal", "unmount" may happen

Attempt == 1 .. MaxSelect
Watch == 1 .. MaxWatch
Socket == 1 .. MaxSocket
Room == File \cup {Project}

ASSUME ClientAssumption ==
    /\ Project \notin File /\ NoFile \notin Room
    /\ {MaxSelect, MaxWatch, MaxSocket, MaxEdit, MaxDrop} \subseteq Nat

VARIABLES
    attempt,     \* the calls of joinDocument, in order
    selects,     \* how many there were; the last is the hook's, if not cancelled
    watch,       \* the calls of watchProject, in order
    watches,     \* how many there were
    sock,        \* CollabClient.socket, 0 for none
    sockets,     \* how many were made
    connecting,  \* the socket connectPromise waits for, 0 for none
    count,       \* joinedProjects.get(project)
    status,      \* the connection state the hook shows
    mounted,     \* the hook is mounted
    link,        \* link[s]: "none", "opening", "up", "down" or "closed"
    outbox,      \* outbox[s]: messages to the server, in order
    inbox,       \* inbox[s]: messages to the client, in order
    handling,    \* handling[s][r]: joins of room r the server is handling
    rooms,       \* rooms[s]: the rooms the server has this connection in
    edits,       \* edits typed so far
    drops,       \* connections lost so far
    refused,     \* the files an edit of which was not taken as a member's
    upset,       \* "drop": a connection was lost; "refusal": one, or a join, refused
    strays,      \* files an attempt of which settled before the answer to its own
                 \* join came, or was made while another waited for one
    unjoined     \* the watchers whose room was lost with its connection, or the
                 \* join of which was refused

docVars == <<attempt, selects>>
watchVars == <<watch, watches, count>>
clientVars == <<sock, sockets, connecting, mounted>>
serverVars == <<handling, rooms>>
history == <<edits, drops, refused, upset, strays, unjoined>>
vars == <<docVars, watchVars, clientVars, status, link, outbox, inbox,
          serverVars, history>>

Stage == {"none", "connecting", "joining", "open", "done"}
Upsets == {"drop", "refusal"}
Message(kind, room) == [kind |-> kind, room |-> room]

TypeOK ==
    /\ attempt \in [Attempt -> [file : File \cup {NoFile}, sock : 0 .. MaxSocket,
                                stage : Stage, cancelled : BOOLEAN]]
    /\ watch \in [Watch -> [sock : 0 .. MaxSocket, cancelled : BOOLEAN,
                            stage : {"none", "connecting", "active", "done"}]]
    /\ selects \in 0 .. MaxSelect /\ watches \in 0 .. MaxWatch
    /\ {sock, connecting} \subseteq 0 .. sockets /\ sockets \in 0 .. MaxSocket
    /\ count \in Nat /\ (sock = 0 => count = 0)
    /\ status \in {"idle", "connecting", "synced", "disconnected", "error"}
    /\ mounted \in BOOLEAN
    /\ link \in [Socket -> {"none", "opening", "up", "down", "closed"}]
    /\ outbox \in [Socket -> Seq([kind : {"join", "leave", "update"}, room : Room])]
    /\ inbox \in [Socket -> Seq([kind : {"sync", "refused", "outside"}, room : Room])]
    /\ handling \in [Socket -> [Room -> Nat]]
    /\ rooms \in [Socket -> SUBSET Room]
    /\ edits \in Nat /\ drops \in Nat /\ refused \subseteq File
    /\ upset \subseteq Upsets /\ strays \subseteq File
    /\ unjoined \subseteq 0 .. MaxWatch

Init ==
    /\ attempt = [a \in Attempt |-> [file |-> NoFile, sock |-> 0, stage |-> "none",
                                     cancelled |-> FALSE]]
    /\ watch = [w \in Watch |-> [sock |-> 0, cancelled |-> FALSE, stage |-> "none"]]
    /\ selects = 0 /\ watches = 0
    /\ sock = 0 /\ sockets = 0 /\ connecting = 0
    /\ count = 0 /\ status = "idle" /\ mounted = TRUE
    /\ link = [s \in Socket |-> "none"]
    /\ outbox = [s \in Socket |-> <<>>] /\ inbox = [s \in Socket |-> <<>>]
    /\ handling = [s \in Socket |-> [r \in Room |-> 0]]
    /\ rooms = [s \in Socket |-> {}]
    /\ edits = 0 /\ drops = 0 /\ refused = {}
    /\ upset = {} /\ strays = {} /\ unjoined = {}

-------------------------------------------------------------------------------
(* The connection.  connect() returns the socket that is up, or waits for  *)
(* the one that is being connected, or makes a new one and drops the old.  *)

Connected == sock # 0 /\ link[sock] = "up"

\* socket.emit: buffered while the socket is down, lost once it is closed.
Emit(queues, s, message) ==
    IF s = 0 \/ link[s] = "closed" THEN queues
    ELSE [queues EXCEPT ![s] = Append(@, message)]

\* The server's end of a connection that is gone, and what was on its way.
Forget(s) ==
    /\ inbox' = [inbox EXCEPT ![s] = <<>>]
    /\ rooms' = [rooms EXCEPT ![s] = {}]
    /\ handling' = [handling EXCEPT ![s] = [r \in Room |-> 0]]

ConnectInternal(queues) ==
    /\ sockets < MaxSocket
    /\ sockets' = sockets + 1 /\ connecting' = sockets + 1
    /\ sock' = 0 /\ count' = IF sock = 0 THEN count ELSE 0
    /\ link' = [s \in Socket |-> CASE s = sockets + 1 -> "opening"
                                   [] s = sock -> "closed"
                                   [] OTHER -> link[s]]
    /\ outbox' = [s \in Socket |-> IF s = sock THEN <<>> ELSE queues[s]]
    /\ IF sock = 0 THEN UNCHANGED <<inbox, rooms, handling>> ELSE Forget(sock)

\* connect(), for a caller whose effect has left the outboxes queues.
Connect(queues) ==
    IF Connected \/ connecting # 0
    THEN /\ outbox' = queues
         /\ UNCHANGED <<sockets, connecting, sock, count, link, inbox, serverVars>>
    ELSE ConnectInternal(queues)

-------------------------------------------------------------------------------
(* Selecting a file: the effect on [projectId, fileId] of the hook.  Its   *)
(* cleanup cancels the last attempt and leaves the document it opened.     *)

Cancelled == IF selects = 0 THEN attempt
             ELSE [attempt EXCEPT ![selects].cancelled = TRUE,
                       ![selects].stage = IF @ = "open" THEN "done" ELSE @]
LeftOpen == IF selects > 0 /\ attempt[selects].stage = "open"
            THEN Emit(outbox, attempt[selects].sock,
                      Message("leave", attempt[selects].file))
            ELSE outbox

Pending(a) == attempt[a].stage \in {"connecting", "joining"}

Select(f) ==
    LET a == selects + 1
        stage == IF Connected THEN "joining" ELSE "connecting"
    IN
    /\ mounted /\ a \in Attempt
    /\ selects > 0 => attempt[selects].cancelled \/ attempt[selects].file # f
    /\ selects' = a
    /\ attempt' = [Cancelled EXCEPT ![a] =
                    [file |-> f, stage |-> stage, cancelled |-> FALSE,
                     sock |-> IF Connected THEN sock ELSE 0]]
    /\ Connect(IF Connected THEN Emit(LeftOpen, sock, Message("join", f))
                            ELSE LeftOpen)
    /\ status' = IF ~Connected /\ connecting # 0 THEN status ELSE "connecting"
    /\ strays' = IF \E b \in Attempt : Pending(b) /\ attempt[b].file = f
                 THEN strays \cup {f} ELSE strays
    /\ UNCHANGED <<watch, watches, mounted, edits, drops, refused, upset, unjoined>>

\* No file is selected any more; sendProjectActivity says so, over a connection it
\* makes if there is none.
Deselect ==
    /\ mounted /\ selects > 0 /\ ~attempt[selects].cancelled
    /\ attempt' = Cancelled
    /\ Connect(LeftOpen)
    /\ status' = "idle"
    /\ UNCHANGED <<selects, watch, watches, mounted, history>>

-------------------------------------------------------------------------------
(* Watching the project: the effect on [projectId, watchCallbacks], which  *)
(* runs again whenever a callback changes.                                 *)

Unwatched == IF watches = 0 THEN watch
             ELSE [watch EXCEPT ![watches].cancelled = TRUE,
                       ![watches].stage = IF @ = "active" THEN "done" ELSE @]
Watching == watches > 0 /\ watch[watches].stage = "active"

\* What the cleanup sends, and the references it leaves.
ReleasedProject == IF Watching /\ count = 1
                   THEN Emit(outbox, watch[watches].sock, Message("leave", Project))
                   ELSE outbox
\* Faulty: the last release leaves the project and keeps the reference.
KeptReferences == IF Watching /\ count > 1 THEN count - 1 ELSE count
References == IF Watching /\ count > 0 THEN count - 1 ELSE count

\* The cleanup releases, then the new watcher retains: the project is left and
\* joined again, as the hook has no other watcher.
Rewatch ==
    LET w == watches + 1
        left == ReleasedProject
        held == References
    IN
    /\ mounted /\ w \in Watch
    /\ watches' = w
    /\ watch' = [Unwatched EXCEPT ![w] =
                    [sock |-> IF Connected THEN sock ELSE 0, cancelled |-> FALSE,
                     stage |-> IF Connected THEN "active" ELSE "connecting"]]
    /\ IF Connected
       THEN /\ outbox' = IF held = 0 THEN Emit(left, sock, Message("join", Project))
                         ELSE left
            /\ count' = held + 1
            /\ UNCHANGED <<sockets, connecting, sock, link, inbox, serverVars, status>>
       ELSE IF connecting # 0
       THEN /\ outbox' = left /\ count' = held
            /\ UNCHANGED <<sockets, connecting, sock, link, inbox, serverVars, status>>
       ELSE ConnectInternal(left) /\ status' = "connecting"
    /\ UNCHANGED <<docVars, mounted, history>>

-------------------------------------------------------------------------------
(* The socket is connected: the callers of connect() go on, those that were *)
(* cancelled as well.                                                       *)

WaitingWatches == {w \in Watch : watch[w].stage = "connecting"}
WaitingAttempts == {a \in Attempt : attempt[a].stage = "connecting"}

\* The set S of numbers as a sequence, in their order.
InOrder(S) == {q \in [1 .. Cardinality(S) -> S] :
                  \A i, j \in DOMAIN q : i < j => q[i] < q[j]}

\* The joins of the attempts that waited, in the order of the attempts.
Joins(waiting) == [i \in DOMAIN waiting |-> Message("join", attempt[waiting[i]].file)]

\* Every watcher that waited retains the project, then the cancelled release it.
Retains == LET live == {w \in WaitingWatches : ~watch[w].cancelled}
           IN IF WaitingWatches = {} THEN <<>>
              ELSE IF live = {} THEN <<Message("join", Project), Message("leave", Project)>>
              ELSE <<Message("join", Project)>>

ConnectOk ==
    /\ connecting # 0
    /\ sock' = connecting /\ connecting' = 0
    /\ link' = [link EXCEPT ![connecting] = "up"]
    /\ \E waiting \in InOrder(WaitingAttempts) :
           outbox' = [outbox EXCEPT ![connecting] = Retains \o Joins(waiting)]
    /\ count' = count + Cardinality({w \in WaitingWatches : ~watch[w].cancelled})
    /\ watch' = [w \in Watch |->
                  IF w \notin WaitingWatches THEN watch[w]
                  ELSE [watch[w] EXCEPT !.sock = connecting,
                          !.stage = IF watch[w].cancelled THEN "done" ELSE "active"]]
    /\ attempt' = [a \in Attempt |->
                    IF a \notin WaitingAttempts THEN attempt[a]
                    ELSE [attempt[a] EXCEPT !.sock = connecting, !.stage = "joining"]]
    /\ status' = IF WaitingAttempts = {} THEN "synced" ELSE "connecting"
    /\ UNCHANGED <<selects, watches, sockets, mounted, inbox, serverVars, history>>

\* connect_error, or 6 s without an answer: every caller fails, and the next
\* one tries again.
ConnectFails ==
    /\ connecting # 0
    /\ "refusal" \in Environment
    /\ connecting' = 0
    /\ link' = [link EXCEPT ![connecting] = "closed"]
    /\ watch' = [w \in Watch |-> IF w \in WaitingWatches
                                 THEN [watch[w] EXCEPT !.stage = "done"] ELSE watch[w]]
    /\ attempt' = [a \in Attempt |-> IF a \in WaitingAttempts
                                     THEN [attempt[a] EXCEPT !.stage = "done"] ELSE attempt[a]]
    /\ status' = "error"
    /\ upset' = upset \cup {"refusal"}
    /\ UNCHANGED <<selects, watches, count, sock, sockets, mounted, outbox, inbox,
                   serverVars, edits, drops, refused, strays, unjoined>>

\* Socket.IO loses the connection, and all that is on its way, and connects
\* again by itself: the server sees another socket, and nobody joins the
\* project again for who watches it.
Lose ==
    /\ Connected /\ drops < MaxDrop
    /\ link' = [link EXCEPT ![sock] = "down"]
    /\ outbox' = [outbox EXCEPT ![sock] = <<>>]
    /\ Forget(sock)
    /\ status' = "disconnected"
    /\ drops' = drops + 1 /\ upset' = upset \cup {"drop"}
    /\ unjoined' = unjoined \cup {watches}
    /\ UNCHANGED <<docVars, watchVars, clientVars, edits, refused, strays>>

Reconnect ==
    /\ sock # 0 /\ link[sock] = "down"
    /\ link' = [link EXCEPT ![sock] = "up"]
    /\ status' = "synced"
    /\ UNCHANGED <<docVars, watchVars, clientVars, outbox, inbox, serverVars, history>>

-------------------------------------------------------------------------------
(* The server takes one message after the other.  A join waits for the     *)
(* database; a leave, and the test whether an update is from a member of   *)
(* its room, do not.                                                       *)

TakeJoin(s, m) ==
    /\ m.kind = "join"
    /\ handling' = [handling EXCEPT ![s][m.room] = @ + 1]
    /\ UNCHANGED <<rooms, inbox, refused>>

TakeLeave(s, m) ==
    /\ m.kind = "leave"
    /\ rooms' = [rooms EXCEPT ![s] = @ \ {m.room}]
    /\ UNCHANGED <<handling, inbox, refused>>

TakeUpdate(s, m) ==
    /\ m.kind = "update"
    /\ IF m.room \in rooms[s] THEN UNCHANGED <<inbox, refused>>
       ELSE /\ refused' = refused \cup {m.room}
            /\ inbox' = [inbox EXCEPT ![s] = Append(@, Message("outside", m.room))]
    /\ UNCHANGED <<handling, rooms>>

Take(s) ==
    /\ link[s] = "up" /\ outbox[s] # <<>>
    /\ outbox' = [outbox EXCEPT ![s] = Tail(@)]
    /\ LET m == Head(outbox[s])
       IN TakeJoin(s, m) \/ TakeLeave(s, m) \/ TakeUpdate(s, m)
    /\ UNCHANGED <<docVars, watchVars, clientVars, status, link, edits, drops, upset,
                   strays, unjoined>>

JoinDone(s, r) ==
    /\ handling[s][r] > 0
    /\ handling' = [handling EXCEPT ![s][r] = @ - 1]
    /\ rooms' = [rooms EXCEPT ![s] = @ \cup {r}]
    /\ inbox' = IF r = Project THEN inbox
                ELSE [inbox EXCEPT ![s] = Append(@, Message("sync", r))]
    /\ UNCHANGED <<docVars, watchVars, clientVars, status, link, outbox, history>>

\* The error does not say which document, or that it was the project; then the
\* watcher stays out of the room, unless another join of it is on its way.
JoinRefused(s, r) ==
    /\ handling[s][r] > 0
    /\ "refusal" \in Environment
    /\ handling' = [handling EXCEPT ![s][r] = @ - 1]
    /\ inbox' = [inbox EXCEPT ![s] = Append(@, Message("refused", r))]
    /\ upset' = upset \cup {"refusal"}
    /\ unjoined' = IF /\ r = Project /\ r \notin rooms[s] /\ handling[s][r] = 1
                      /\ ~Contains(outbox[s], Message("join", r))
                   THEN unjoined \cup {watches} ELSE unjoined
    /\ UNCHANGED <<docVars, watchVars, clientVars, status, link, outbox, rooms,
                   edits, drops, refused, strays>>

-------------------------------------------------------------------------------
(* The client hears: every attempt that waits on the socket listens.        *)

Joining(s) == {a \in Attempt : attempt[a].stage = "joining" /\ attempt[a].sock = s}
Listening(s) == {a \in Attempt : attempt[a].stage \in {"joining", "open"}
                                 /\ attempt[a].sock = s}

\* Faulty: a sync of any document answers.
AnyAnswered(s, m) == Joining(s)
Answered(s, m) == {a \in Joining(s) : attempt[a].file = m.room}

\* Faulty: a document that was joined for nobody stays joined.
KeptDisowned(s, m) == {}
Disowned(s, m) == {a \in Answered(s, m) : attempt[a].cancelled}

\* A sync answers every attempt for its file.  One that was cancelled leaves.
HearSync(s, m) ==
    /\ m.kind = "sync"
    /\ attempt' = [a \in Attempt |->
                    IF a \notin Answered(s, m) THEN attempt[a]
                    ELSE [attempt[a] EXCEPT !.stage =
                            IF attempt[a].cancelled THEN "done" ELSE "open"]]
    /\ outbox' = [outbox EXCEPT ![s] = @ \o
                    [i \in 1 .. Cardinality(Disowned(s, m)) |-> Message("leave", m.room)]]
    /\ status' = IF \E a \in Listening(s) : attempt[a].file = m.room
                 THEN "synced" ELSE status
    /\ UNCHANGED strays

\* An error that names a document rejects the attempts for it, one that does
\* not rejects them all.  Nothing is left: joinedDocument is false.
HearError(s, m) ==
    LET named == m.kind = "outside"
        rejected == {a \in Joining(s) : named => attempt[a].file = m.room}
        told == {a \in Listening(s) : named => attempt[a].file = m.room}
    IN
    /\ m.kind \in {"refused", "outside"}
    /\ attempt' = [a \in Attempt |-> IF a \in rejected
                                     THEN [attempt[a] EXCEPT !.stage = "done"]
                                     ELSE attempt[a]]
    /\ status' = IF told = {} THEN status ELSE "error"
    /\ strays' = strays \cup
           {attempt[a].file : a \in {b \in rejected : named \/ attempt[b].file # m.room}}
    /\ UNCHANGED outbox

Hear(s) ==
    /\ link[s] = "up" /\ inbox[s] # <<>>
    /\ inbox' = [inbox EXCEPT ![s] = Tail(@)]
    /\ LET m == Head(inbox[s]) IN HearSync(s, m) \/ HearError(s, m)
    /\ UNCHANGED <<selects, watchVars, clientVars, link, serverVars, edits, drops,
                   refused, upset, unjoined>>

\* The answer to the join of attempt a is still to come.
Coming(a) ==
    LET s == attempt[a].sock
        f == attempt[a].file
    IN /\ link[s] = "up"
       /\ \/ Contains(outbox[s], Message("join", f))
          \/ handling[s][f] > 0
          \/ Contains(inbox[s], Message("sync", f))
          \/ Contains(inbox[s], Message("refused", f))

\* Faulty: the timer is cleared when the connection is lost.
LinkedTimerRuns(a) == attempt[a].stage = "joining" /\ link[attempt[a].sock] = "up"
TimerRuns(a) == attempt[a].stage = "joining"

\* 15 s without a sync: too late for one that comes, or none comes.
Timeout(a) ==
    /\ TimerRuns(a)
    /\ Coming(a) => "timeout" \in Environment
    /\ attempt' = [attempt EXCEPT ![a].stage = "done"]
    /\ status' = IF attempt[a].cancelled THEN status ELSE "error"
    /\ strays' = IF Coming(a) THEN strays \cup {attempt[a].file} ELSE strays
    /\ UNCHANGED <<selects, watchVars, clientVars, link, outbox, inbox, serverVars,
                   edits, drops, refused, upset, unjoined>>

\* The user types in the editor that is bound to the document.
Edit ==
    /\ selects > 0 /\ attempt[selects].stage = "open" /\ edits < MaxEdit
    /\ edits' = edits + 1
    /\ outbox' = Emit(outbox, attempt[selects].sock,
                      Message("update", attempt[selects].file))
    /\ UNCHANGED <<docVars, watchVars, clientVars, status, link, inbox, serverVars,
                   drops, refused, upset, strays, unjoined>>

\* The workspace is closed.  disconnect() drops the connection, and a later
\* cleanup calls sendProjectActivity, which makes a new one for nobody; one that
\* is being made is not cut.
Unmount ==
    /\ mounted /\ "unmount" \in Environment
    /\ mounted' = FALSE
    /\ attempt' = Cancelled /\ watch' = Unwatched
    /\ IF connecting # 0
       THEN UNCHANGED <<sockets, connecting, sock, count, link, outbox, inbox,
                        serverVars>>
       ELSE ConnectInternal(outbox)
    /\ status' = "idle"
    /\ UNCHANGED <<selects, watches, history>>

Next ==
    \/ \E f \in File : Select(f)
    \/ Deselect \/ Rewatch \/ Edit \/ Unmount
    \/ ConnectOk \/ ConnectFails \/ Lose \/ Reconnect
    \/ \E s \in Socket : Take(s) \/ Hear(s)
    \/ \E s \in Socket, r \in Room : JoinDone(s, r) \/ JoinRefused(s, r)
    \/ \E a \in Attempt : Timeout(a)

Spec == Init /\ [][Next]_vars

\* Messages of a connection that is up arrive, a handler ends, a connection is
\* made or fails in 6 s, an attempt times out in 15 s.
FairSpec ==
    /\ Spec
    /\ WF_vars(ConnectOk \/ ConnectFails)
    /\ \A s \in Socket : WF_vars(Take(s)) /\ WF_vars(Hear(s))
    /\ \A s \in Socket, r \in Room : WF_vars(JoinDone(s, r))
    /\ \A a \in Attempt : WF_vars(Timeout(a))

-------------------------------------------------------------------------------
\* Nothing is on its way and nothing is being handled.
Settled ==
    /\ sock # 0 /\ link[sock] = "up"
    /\ outbox[sock] = <<>> /\ inbox[sock] = <<>>
    /\ \A r \in Room : handling[sock][r] = 0

\* An edit typed into an open document reaches the server as a member's, unless
\* the connection was lost, or the file is one of strays: an attempt of it timed
\* out while its answer was coming, or was rejected by an error about something
\* else, or the file was selected again while an attempt of it that was given up
\* still waited.
NoEditRefused == "drop" \in upset \/ refused \subseteq strays

\* Once all is settled the server has the connection in no document but the one
\* that is open: what was joined for a file that is not wanted any more, given up
\* before or after its join was handled, is left.  Excepted are the files of
\* strays (above): the code does not leave one that is selected and given up
\* again while an earlier join of it is handled, or that answers too late.
NothingLeftBehind ==
    Settled => \A f \in rooms[sock] \ ({Project} \cup strays) :
                  \E a \in Attempt : attempt[a].file = f /\ attempt[a].stage = "open"

\* Once all is settled, who watches the project is in its room: no leave of an
\* earlier watcher overtakes the join of a later one, after a lost connection as
\* well.  Excepted is a watcher who watched when the connection was lost, whom
\* nobody joins again, and one whose join the server refused.
WatcherIsMember ==
    Settled /\ Watching /\ watches \notin unjoined => Project \in rooms[sock]

\* The promise of joinDocument settles whatever the network does; and it does so
\* by opening the file, unless the user gave it up, a connection was lost or
\* refused, a join was refused, or the file is one of strays.
JoinEnds ==
    \A a \in Attempt : Pending(a) ~>
        /\ ~Pending(a)
        /\ \/ attempt[a].stage = "open" \/ attempt[a].cancelled
           \/ upset # {} \/ attempt[a].file \in strays

===============================================================================
