---------------------------- MODULE TerminalSession ----------------------------
(***************************************************************************)
(* The terminal one subject owns in a project, used by the members of the  *)
(* project: server/src/modules/collab/terminal/terminal-session-manager.ts *)
(* under the handlers of server/src/modules/collab/collab.gateway.ts, on   *)
(* a shell of terminal/docker-shell-runtime.ts.                            *)
(*                                                                         *)
(* A session is an object ensureSession makes: current is the one the map  *)
(* `sessions' has, a handler's sid the one it captured.  A handler runs    *)
(* from one await to the next.  What it asks of the shell is an operation  *)
(* that waits in the session's chain until those before it have ended.     *)
(***************************************************************************)
EXTENDS Integers, Sequences, FiniteSets

CONSTANTS
    Subject, Owner,     \* the members of the project; whose terminal it is
    Nobody,             \* not a subject
    Tab,                \* a subject connects from several tabs
    Handler,            \* handlers in flight
    MaxSession,         \* bound: sessions ever made
    MaxConnection,      \* bound: connections of a subject when a join starts
    Event,              \* the events with an await that clients send
    Failures            \* whether what is awaited may fail

Socket == Subject \X Tab
SubjectOf(s) == s[1]
Session == 1..MaxSession
None == 0
Operation == {"open", "input", "close"}

ASSUME TerminalAssumption ==
    /\ Owner \in Subject /\ Nobody \notin Subject /\ IsFiniteSet(Handler)
    /\ MaxSession \in Nat \ {0} /\ MaxConnection \in Nat /\ Failures \in BOOLEAN
    /\ Event \subseteq {"project", "terminal"} \cup Operation

VARIABLES
    connected, joined, inTerminal,  \* sockets: at all, of the project, of the
                                    \* room that the output is sent to
    connections,        \* membershipsByProject: connections[subject]
    current, made,      \* sessions.get(key), or None; how many were made
    open,               \* the sessions with isSessionOpen
    emits,              \* the sessions with an emitOutput
    granted, active,    \* the controllers of each session
    requests,           \* pendingRequests of each session
    handle,             \* the sessions whose runtime has an interactiveSession
    leaving,            \* what is left of a session whose owner left
    chain,              \* the handlers in the operationChain of each session
    task,               \* task[h]: where handler h is
    held,               \* how often the live sync was started for a session,
                        \* less how often it was stopped
    failed, early       \* a hook failed; an owner left while operations were
                        \* pending

roomVars == <<connected, joined, inTerminal, connections>>
mapVars == <<current, made>>
controlVars == <<granted, active, requests>>
shellVars == <<open, emits, handle, leaving>>
flagVars == <<held, failed, early>>
vars == <<roomVars, mapVars, controlVars, shellVars, chain, task, flagVars>>

Idle == [pc |-> "idle", kind |-> "none", socket |-> <<Nobody, Nobody>>, sid |-> None]

Init ==
    /\ connected = Socket /\ joined = {} /\ inTerminal = {}
    /\ connections = [u \in Subject |-> 0]
    /\ current = None /\ made = 0
    /\ open = {} /\ emits = {} /\ handle = {}
    /\ granted = [sid \in Session |-> Nobody]
    /\ active = [sid \in Session |-> Owner]
    /\ requests = [sid \in Session |-> {}]
    /\ leaving = [sid \in Session |-> "no"]
    /\ chain = [sid \in Session |-> <<>>]
    /\ task = [h \in Handler |-> Idle]
    /\ held = [sid \in Session |-> 0] /\ failed = FALSE /\ early = FALSE

Member(u) == connections[u] > 0
By(h) == SubjectOf(task[h].socket)
At(h, pc) == task[h].pc = pc
Goto(h, pc) == task' = [task EXCEPT ![h].pc = pc]
End(h) == task' = [task EXCEPT ![h] = Idle]

\* ensureSession
Here == IF current = None THEN made + 1 ELSE current
Ensure == current' = Here /\ made' = (IF current = None THEN made + 1 ELSE made)

Controls(u, sid) == u = Owner \/ u = granted[sid]

-----------------------------------------------------------------------------
(* Joining and leaving the project                                         *)

\* An operation is for who joined the terminal first.
Admitted(s, kind) == s \in connected /\ (kind \in Operation => s \in inTerminal)

\* An event arrives; access is checked, which is awaited.
Begin(h, s, kind) ==
    /\ At(h, "idle") /\ Admitted(s, kind)
    /\ kind = "project" => connections[SubjectOf(s)] < MaxConnection
    /\ task' = [task EXCEPT ![h] =
                   [pc |-> "authorizing", kind |-> kind, socket |-> s, sid |-> None]]
    /\ UNCHANGED <<roomVars, mapVars, controlVars, shellVars, chain, flagVars>>

\* Access is denied, or the check fails.
Denied(h) ==
    /\ At(h, "authorizing")
    /\ inTerminal' \in {inTerminal} \cup
          (IF task[h].kind \in Operation THEN {inTerminal \ {task[h].socket}} ELSE {})
    /\ End(h)
    /\ UNCHANGED <<connected, joined, connections, mapVars, controlVars, shellVars,
                   chain, flagVars>>

\* Whether the socket may use terminals was asked after whether it may join.
JoinProject(h, mayUse) ==
    LET s == task[h].socket
        own == mayUse /\ By(h) = Owner
    IN  /\ At(h, "authorizing") /\ task[h].kind = "project"
        /\ joined' = joined \cup {s}
        /\ connections' = [connections EXCEPT ![By(h)] = IF s \in joined THEN @ ELSE @ + 1]
        /\ inTerminal' = IF own THEN inTerminal \cup {s} ELSE inTerminal
        /\ IF own THEN Ensure ELSE UNCHANGED mapVars
        /\ End(h)
        /\ UNCHANGED <<connected, controlVars, shellVars, chain, flagVars>>

JoinTerminal(h) ==
    /\ At(h, "authorizing") /\ task[h].kind = "terminal"
    /\ IF Member(By(h)) /\ Member(Owner)
         THEN Ensure /\ inTerminal' = inTerminal \cup {task[h].socket}
         ELSE UNCHANGED <<mapVars, inTerminal>>
    /\ End(h)
    /\ UNCHANGED <<connected, joined, connections, controlVars, shellVars, chain, flagVars>>

LeaveTerminal(s) ==
    /\ s \in connected /\ s \in inTerminal
    /\ inTerminal' = inTerminal \ {s}
    /\ UNCHANGED <<connected, joined, connections, mapVars, controlVars, shellVars,
                   chain, task, flagVars>>

\* Fault: the request of who left stays.
RequestStays(u) ==
    IF current = None
      THEN UNCHANGED controlVars
      ELSE /\ granted' = [granted EXCEPT ![current] = IF @ = u THEN Nobody ELSE @]
           /\ active' = [active EXCEPT ![current] = IF @ = u THEN Owner ELSE @]
           /\ UNCHANGED requests

\* Whose last connection ended neither controls the terminal nor asks to.
Withdraw(u) ==
    IF current = None
      THEN UNCHANGED controlVars
      ELSE /\ requests' = [requests EXCEPT ![current] = @ \ {u}]
           /\ granted' = [granted EXCEPT ![current] = IF @ = u THEN Nobody ELSE @]
           /\ active' = [active EXCEPT ![current] = IF @ = u THEN Owner ELSE @]

\* Fault: the session keeps where its output goes.
FaultyAbandon ==
    IF current = None
      THEN UNCHANGED <<current, shellVars, early>>
      ELSE /\ made < MaxSession
           /\ current' = None
           /\ open' = open \ {current}
           /\ leaving' = [leaving EXCEPT ![current] =
                             IF current \in open THEN "closing" ELSE "left"]
           /\ handle' = IF current \in open THEN handle ELSE handle \ {current}
           /\ early' = (early \/ chain[current] # <<>>)
           /\ UNCHANGED emits

\* The owner's session leaves the map.  A shell is closed in the background, and
\* its runtime disposed of in the end.  Bound: there is room for another session.
Abandon ==
    IF current = None
      THEN UNCHANGED <<current, shellVars, early>>
      ELSE /\ made < MaxSession
           /\ current' = None
           /\ emits' = emits \ {current}
           /\ open' = open \ {current}
           /\ leaving' = [leaving EXCEPT ![current] =
                             IF current \in open THEN "closing" ELSE "left"]
           /\ handle' = IF current \in open THEN handle ELSE handle \ {current}
           /\ early' = (early \/ chain[current] # <<>>)

\* markProjectLeft
MarkLeft(u) ==
    /\ connections' = [connections EXCEPT ![u] = IF @ > 0 THEN @ - 1 ELSE 0]
    /\ IF connections[u] # 1
         THEN UNCHANGED <<current, controlVars, shellVars, early>>
         ELSE /\ Withdraw(u)
              /\ IF u = Owner THEN Abandon ELSE UNCHANGED <<current, shellVars, early>>

LeaveProject(s) ==
    /\ s \in connected /\ s \in joined
    /\ MarkLeft(SubjectOf(s))
    /\ joined' = joined \ {s} /\ inTerminal' = inTerminal \ {s}
    /\ UNCHANGED <<connected, made, chain, task, held, failed>>

Disconnect(s) ==
    /\ s \in connected
    /\ connected' = connected \ {s}
    /\ joined' = joined \ {s} /\ inTerminal' = inTerminal \ {s}
    /\ IF s \in joined
         THEN MarkLeft(SubjectOf(s))
         ELSE UNCHANGED <<connections, current, controlVars, shellVars, early>>
    /\ UNCHANGED <<made, chain, task, held, failed>>

\* A new socket of the tab, when nothing is left of the last one.
Connect(s) ==
    /\ s \notin connected /\ \A h \in Handler : task[h].socket # s
    /\ connected' = connected \cup {s}
    /\ joined' = joined \ {s} /\ inTerminal' = inTerminal \ {s}
    /\ UNCHANGED <<connections, mapVars, controlVars, shellVars, chain, task, flagVars>>

-----------------------------------------------------------------------------
(* Who controls the terminal                                               *)

RequestAccess(s) ==
    LET u == SubjectOf(s)
    IN  /\ s \in connected /\ u # Owner /\ Member(u) /\ Member(Owner)
        /\ Ensure
        /\ u \notin {active[Here], granted[Here]}
        /\ requests' = [requests EXCEPT ![Here] = @ \cup {u}]
        /\ UNCHANGED <<roomVars, granted, active, shellVars, chain, task, flagVars>>

DecideAccess(s, u, approve) ==
    /\ s \in connected /\ SubjectOf(s) = Owner /\ Member(Owner)
    /\ current # None /\ u \in requests[current]
    /\ requests' = [requests EXCEPT ![current] = @ \ {u}]
    /\ IF approve /\ Member(u)
         THEN /\ granted' = [granted EXCEPT ![current] = u]
              /\ active' = [active EXCEPT ![current] = u]
         ELSE UNCHANGED <<granted, active>>
    /\ UNCHANGED <<roomVars, mapVars, shellVars, chain, task, flagVars>>

RevokeControl(s) ==
    /\ s \in connected /\ SubjectOf(s) = Owner /\ Member(Owner) /\ current # None
    /\ granted' = [granted EXCEPT ![current] = Nobody]
    /\ active' = [active EXCEPT ![current] = Owner]
    /\ requests' = [requests EXCEPT ![current] = {}]
    /\ UNCHANGED <<roomVars, mapVars, shellVars, chain, task, flagVars>>

-----------------------------------------------------------------------------
(* Operations: what their ends have in common                              *)

\* The chain of the session goes on, whatever became of the operation.
Pop(sid) == chain' = [chain EXCEPT ![sid] = Tail(@)]

\* It answers; after an open or a close, getTerminalState is asked for.
Succeed(h) ==
    /\ Pop(task[h].sid) /\ End(h)
    /\ IF task[h].kind = "input" THEN UNCHANGED mapVars ELSE Ensure

\* reconcileSessionOpenState finds the shell gone: its first part, up to the hook.
Gone(sid, shells) == sid \in open /\ sid \notin shells
MarkClosed(sid) == open' = open \ {sid} /\ emits' = emits \ {sid}

\* The hook after a close: reconcileNow, which may fail, then stop.
\* Bound: one hook fails.
HookEnds(sid) ==
    \/ held' = [held EXCEPT ![sid] = @ - 1] /\ UNCHANGED failed
    \/ Failures /\ ~failed /\ failed' = TRUE /\ UNCHANGED held

\* Fault: nobody looks whether the shell is gone.
FaultyFail(h, shells) ==
    /\ handle' = shells
    /\ Pop(task[h].sid) /\ End(h)
    /\ UNCHANGED <<mapVars, open, emits, leaving>>

\* Fault: after a failed operation, the chain runs no other one.
StuckFail(h, shells) ==
    /\ handle' = shells
    /\ End(h)
    /\ UNCHANGED <<mapVars, open, emits, leaving, chain>>

\* The operation fails, which leaves the shells with a handle in `shells'.
Fail(h, shells) ==
    LET sid == task[h].sid
    IN  /\ handle' = shells
        /\ Pop(sid)
        /\ IF Gone(sid, shells)
             THEN MarkClosed(sid) /\ Goto(h, "failing")
             ELSE UNCHANGED <<open, emits>> /\ End(h)
        /\ UNCHANGED <<mapVars, leaving>>

FailingHooked(h) ==
    /\ At(h, "failing")
    /\ HookEnds(task[h].sid) /\ End(h)
    /\ UNCHANGED <<roomVars, mapVars, controlVars, shellVars, chain, early>>

\* Access was granted: openSession, processInput (or resizeSession, which does
\* the same with the shell), closeSession, up to where their operation is queued.
Accept(h) ==
    /\ At(h, "authorizing") /\ task[h].kind \in Operation
    /\ Ensure
    /\ IF /\ Member(By(h)) /\ Controls(By(h), Here)
          /\ task[h].kind = "input" => Here \in open
         THEN /\ chain' = [chain EXCEPT ![Here] = Append(@, h)]
              /\ task' = [task EXCEPT ![h].pc = "queued", ![h].sid = Here]
              /\ emits' = IF task[h].kind = "open" THEN emits \cup {Here} ELSE emits
         ELSE UNCHANGED <<chain, emits>> /\ End(h)
    /\ UNCHANGED <<roomVars, controlVars, open, handle, leaving, flagVars>>

\* The handlers whose operation is the next one of its session.
Ready == {h \in Handler : At(h, "queued") /\ Head(chain[task[h].sid]) = h}
Starts(h, kind) == h \in Ready /\ task[h].kind = kind

\* An open or a close finds the shell gone, up to the hook.  It does so in a session
\* that its owner left, when the shell was closed after an open had taken it over.
Reconcile(h) ==
    /\ Gone(task[h].sid, handle)
    /\ MarkClosed(task[h].sid) /\ Goto(h, "reconciling")
    /\ UNCHANGED <<mapVars, chain>>

-----------------------------------------------------------------------------
(* open                                                                    *)

OpenStart(h) ==
    /\ Starts(h, "open")
    /\ \/ Reconcile(h)
       \/ /\ task[h].sid \in open /\ task[h].sid \in handle
          /\ Succeed(h) /\ UNCHANGED <<open, emits>>
       \/ /\ task[h].sid \notin open
          /\ Goto(h, "hydrating") /\ UNCHANGED <<mapVars, chain, open, emits>>
    /\ UNCHANGED <<roomVars, controlVars, handle, leaving, flagVars>>

OpenReconciled(h) ==
    /\ At(h, "reconciling") /\ task[h].kind = "open"
    /\ HookEnds(task[h].sid)
    /\ Goto(h, "hydrating")
    /\ UNCHANGED <<roomVars, mapVars, controlVars, shellVars, chain, early>>

\* The workspace is written, and a prewarm that was pending has ended.
Hydrated(h) ==
    LET sid == task[h].sid
    IN  /\ At(h, "hydrating")
        /\ IF sid \in handle
             THEN open' = open \cup {sid} /\ Goto(h, "starting")
             ELSE UNCHANGED open /\ Goto(h, "opening")
        /\ UNCHANGED <<roomVars, mapVars, controlVars, emits, handle, leaving, chain,
                       flagVars>>

\* The sandbox has a shell.
Opened(h) ==
    LET sid == task[h].sid
    IN  /\ At(h, "opening")
        /\ handle' = handle \cup {sid} /\ open' = open \cup {sid}
        /\ Goto(h, "starting")
        /\ UNCHANGED <<roomVars, mapVars, controlVars, emits, leaving, chain, flagVars>>

\* The live sync is started.
Started(h) ==
    /\ At(h, "starting")
    /\ held' = [held EXCEPT ![task[h].sid] = @ + 1]
    /\ Succeed(h)
    /\ UNCHANGED <<roomVars, controlVars, shellVars, failed, early>>

OpenFails(h) ==
    /\ Failures /\ task[h].pc \in {"hydrating", "opening", "starting"}
    /\ At(h, "starting") => ~failed
    /\ Fail(h, handle)
    /\ failed' = (failed \/ At(h, "starting"))
    /\ UNCHANGED <<roomVars, controlVars, held, early>>

-----------------------------------------------------------------------------
(* input                                                                   *)

InputStart(h) ==
    /\ Starts(h, "input")
    /\ IF task[h].sid \in handle
         THEN Goto(h, "writing") /\ UNCHANGED <<mapVars, shellVars, chain>>
         ELSE Fail(h, handle)
    /\ UNCHANGED <<roomVars, controlVars, flagVars>>

Written(h) ==
    /\ At(h, "writing")
    /\ Succeed(h)
    /\ UNCHANGED <<roomVars, controlVars, shellVars, flagVars>>

\* If the shell has ended, the runtime drops it.
WriteFails(h) ==
    /\ Failures /\ At(h, "writing")
    /\ \E shells \in {handle, handle \ {task[h].sid}} : Fail(h, shells)
    /\ UNCHANGED <<roomVars, controlVars, flagVars>>

-----------------------------------------------------------------------------
(* close                                                                   *)

CloseStart(h) ==
    LET sid == task[h].sid
    IN  /\ Starts(h, "close")
        /\ \/ Reconcile(h)
           \/ /\ sid \notin open
              /\ emits' = emits \ {sid} /\ Succeed(h) /\ UNCHANGED open
           \/ /\ sid \in open /\ sid \in handle
              /\ Goto(h, "closing") /\ UNCHANGED <<mapVars, chain, open, emits>>
        /\ UNCHANGED <<roomVars, controlVars, handle, leaving, flagVars>>

\* isSessionOpen is false by now, and so is emitOutput set to null at once.
CloseReconciled(h) ==
    /\ At(h, "reconciling") /\ task[h].kind = "close"
    /\ HookEnds(task[h].sid)
    /\ emits' = emits \ {task[h].sid} /\ Succeed(h)
    /\ UNCHANGED <<roomVars, controlVars, open, handle, leaving, early>>

\* Fault: the hook is not called.
HooklessClosed(h) ==
    /\ At(h, "closing")
    /\ handle' = handle \ {task[h].sid}
    /\ MarkClosed(task[h].sid) /\ Succeed(h)
    /\ UNCHANGED <<roomVars, controlVars, leaving, flagVars>>

Closed(h) ==
    /\ At(h, "closing")
    /\ handle' = handle \ {task[h].sid}
    /\ MarkClosed(task[h].sid) /\ Goto(h, "hooking")
    /\ UNCHANGED <<roomVars, mapVars, controlVars, leaving, chain, flagVars>>

CloseFails(h) ==
    /\ Failures /\ At(h, "closing")
    /\ Fail(h, handle \ {task[h].sid})
    /\ UNCHANGED <<roomVars, controlVars, flagVars>>

CloseHooked(h) ==
    /\ At(h, "hooking")
    /\ HookEnds(task[h].sid)
    /\ Succeed(h)
    /\ UNCHANGED <<roomVars, controlVars, shellVars, early>>

-----------------------------------------------------------------------------
(* What markProjectLeft left to do                                         *)

\* The shell is closed, or closing it failed; the hook follows.
LeftClosed(sid) ==
    /\ leaving[sid] = "closing"
    /\ handle' = handle \ {sid}
    /\ leaving' = [leaving EXCEPT ![sid] = "hooking"]
    /\ UNCHANGED <<roomVars, mapVars, controlVars, open, emits, chain, task, flagVars>>

\* dispose
LeftHooked(sid) ==
    /\ leaving[sid] = "hooking"
    /\ HookEnds(sid)
    /\ handle' = handle \ {sid}
    /\ leaving' = [leaving EXCEPT ![sid] = "left"]
    /\ UNCHANGED <<roomVars, mapVars, controlVars, open, emits, chain, task, early>>

-----------------------------------------------------------------------------
Start(h) == OpenStart(h) \/ InputStart(h) \/ CloseStart(h)

Answer(h) ==
    \/ Denied(h) \/ JoinTerminal(h) \/ Accept(h)
    \/ \E mayUse \in BOOLEAN : JoinProject(h, mayUse)
    \/ OpenReconciled(h) \/ Hydrated(h) \/ Opened(h) \/ Started(h) \/ OpenFails(h)
    \/ Written(h) \/ WriteFails(h)
    \/ CloseReconciled(h) \/ Closed(h) \/ CloseFails(h) \/ CloseHooked(h)
    \/ FailingHooked(h)

Arrival(s) ==
    \/ LeaveTerminal(s) \/ LeaveProject(s) \/ Disconnect(s) \/ Connect(s)
    \/ RequestAccess(s) \/ RevokeControl(s)
    \/ \E u \in Subject, approve \in BOOLEAN : DecideAccess(s, u, approve)
    \/ \E h \in Handler, kind \in Event : Begin(h, s, kind)

\* An operation that is the next one starts before the process turns to anything
\* that arrives: its promise has been resolved.
Next ==
    \/ \E h \in Ready : Start(h)
    \/ /\ Ready = {}
       /\ \/ \E h \in Handler : Answer(h)
          \/ \E sid \in Session : LeftClosed(sid) \/ LeftHooked(sid)
          \/ \E s \in Socket : Arrival(s)

Spec == Init /\ [][Next]_vars

\* Every answer that is awaited comes, with success or failure.
FairSpec == Spec /\ \A h \in Handler : WF_vars(Start(h) \/ Answer(h))

-----------------------------------------------------------------------------
Running == {"reconciling", "hydrating", "opening", "starting", "writing", "closing",
            "hooking"}
Task == [pc : {"idle", "authorizing", "queued", "failing"} \cup Running,
         kind : {"none", "project", "terminal"} \cup Operation,
         socket : Socket \cup {<<Nobody, Nobody>>},
         sid : {None} \cup Session]

TypeOK ==
    /\ connected \subseteq Socket /\ joined \subseteq Socket /\ inTerminal \subseteq Socket
    /\ connections \in [Subject -> Nat]
    /\ current \in {None} \cup Session /\ made \in 0..MaxSession
    /\ open \subseteq Session /\ emits \subseteq Session /\ handle \subseteq Session
    /\ granted \in [Session -> Subject \cup {Nobody}]
    /\ active \in [Session -> Subject]
    /\ requests \in [Session -> SUBSET Subject]
    /\ leaving \in [Session -> {"no", "closing", "hooking", "left"}]
    /\ chain \in [Session -> Seq(Handler)]
    /\ task \in [Handler -> Task]
    /\ held \in [Session -> Int] /\ failed \in BOOLEAN /\ early \in BOOLEAN

\* Besides its owner, at most one subject controls the terminal, a member of the
\* project who asked for it; only members ask; and who is shown as the controller
\* is the one that may write (requestAccess, decideAccess, markProjectLeft).
ControlledByMembers ==
    current # None =>
        /\ granted[current] # Nobody => granted[current] # Owner /\ Member(granted[current])
        /\ active[current] = IF granted[current] = Nobody THEN Owner ELSE granted[current]
        /\ \A u \in requests[current] : u # Owner /\ Member(u) /\ u # granted[current]

\* What the members are told of the terminal is so: isSessionOpen says whether
\* the runtime has a shell, also after a shell ended or an operation failed.
StateTracksShell == current # None => (current \in open <=> current \in handle)

\* A session that its owner left shows its output to nobody, although operations
\* queued before go on to run in it.
SilentAfterLeave == emits \subseteq {current}

Quiet(sid) ==
    /\ leaving[sid] \in {"no", "left"}
    /\ \A h \in Handler : task[h].sid = sid => task[h].pc = "queued"

\* Unless a hook failed, or an owner left while operations were pending, the live
\* sync is held once for each session with a shell and for no other, although the
\* hook that gives it up may run beside the next opening.
WatchedWhileOpen ==
    ~failed /\ ~early =>
        \A sid \in Session : Quiet(sid) => held[sid] = IF sid \in open THEN 1 ELSE 0

\* Every handler answers in the end, behind whatever operations it waits and
\* however those end.
OpAnswered == \A h \in Handler : task[h].pc # "idle" ~> task[h].pc = "idle"

=================================================================================
