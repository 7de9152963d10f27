------------------------- MODULE TerminalSessionProofs -------------------------
(***************************************************************************)
(* Proofs about TerminalSession: its variables keep their types, control   *)
(* stays with the owner and members who asked for it, what is told of the  *)
(* shell is so, the output of a session that was left goes nowhere, and    *)
(* the live sync is held once for each session with a shell.               *)
(*                                                                         *)
(* The invariant is a conjunction of parts, each about few variables, so   *)
(* that a step has to be shown to preserve the parts it may disturb.       *)
(*                                                                         *)
(* Two sections at the end are about the modules beside it:                *)
(* TerminalSharing, what the pages show of the control of terminals, by    *)
(* what each is still to be told; and LiveSync, the watching of a project  *)
(* that terminals hold.                                                    *)
(***************************************************************************)
EXTENDS TerminalSession, TerminalSharing, LiveSync, FiniteSetTheorems, TLAPS

RoomOK ==
    /\ connected \subseteq Socket /\ joined \subseteq Socket /\ inTerminal \subseteq Socket
    /\ connections \in [Subject -> Nat]

\* While no session is in the map, there is room for another one.
MapOK ==
    /\ made \in 0..MaxSession /\ current \in 0..made
    /\ current = None => made < MaxSession

\* Who controls the sessions; those that are still to be made are as new.
ControlOK ==
    /\ granted \in [Session -> Subject \cup {Nobody}]
    /\ active \in [Session -> Subject]
    /\ requests \in [Session -> SUBSET Subject]
    /\ \A sid \in Session : sid > made =>
          granted[sid] = Nobody /\ active[sid] = Owner /\ requests[sid] = {}
    /\ ControlledByMembers

\* The shells; nothing is left of the session in the map.
ShellOK ==
    /\ open \subseteq Session /\ emits \subseteq Session /\ handle \subseteq Session
    /\ leaving \in [Session -> {"no", "closing", "hooking", "left"}]
    /\ \A sid \in Session : sid > made =>
          leaving[sid] = "no" /\ sid \notin open /\ sid \notin handle
    /\ current # None => leaving[current] = "no"
    /\ StateTracksShell /\ SilentAfterLeave

\* What a task that is not idle keeps: its socket, and, if it is an operation, its
\* place in the chain of its session, which is the head while it runs.
TaskOK(t, h, chains) ==
    /\ t.pc # "idle" => t.socket \in Socket
    /\ t.pc \in {"queued", "failing"} \cup Running => t.sid \in Session
    /\ t.pc = "queued" => \E i \in 1..Len(chains[t.sid]) : chains[t.sid][i] = h
    /\ t.pc \in Running => Len(chains[t.sid]) > 0 /\ chains[t.sid][1] = h

TasksOK ==
    /\ chain \in [Session -> Seq(Handler)]
    /\ task \in [Handler -> Task]
    /\ \A h \in Handler : TaskOK(task[h], h, chain) /\ task[h].sid <= made

FlagsOK == held \in [Session -> Int] /\ failed \in BOOLEAN /\ early \in BOOLEAN

Inv == RoomOK /\ MapOK /\ ControlOK /\ ShellOK /\ TasksOK /\ FlagsOK

-----------------------------------------------------------------------------
(* Parts that a step does not disturb                                      *)

\* ensureSession: the session is the one of the map or a new one.
LEMMA EnsureFacts ==
    ASSUME MapOK, Ensure
    PROVE  /\ MapOK' /\ Here \in Session /\ current' = Here /\ Here <= made'
           /\ made <= made' /\ current' # None
           /\ Here = current \/ Here > made
BY TerminalAssumption DEF TerminalAssumption, MapOK, Ensure, Here, Session, None

\* Control stays as it is while sessions are made and members join.
LEMMA ControlKept ==
    ASSUME MapOK, ControlOK, UNCHANGED controlVars,
           Ensure \/ UNCHANGED mapVars,
           \A u \in Subject : Member(u) => Member(u)'
    PROVE  ControlOK'
<1>1. CASE UNCHANGED mapVars
  <2>1. UNCHANGED <<current, made, granted, active, requests>>
    BY <1>1 DEF mapVars, controlVars
  <2>2. current # None => current \in Session
    BY TerminalAssumption DEF TerminalAssumption, MapOK, Session, None
  <2>3. ControlledByMembers'
    BY <2>1, <2>2, TerminalAssumption
    DEF TerminalAssumption, ControlOK, ControlledByMembers
  <2> QED
    BY <2>1, <2>3 DEF ControlOK
<1>2. CASE Ensure
  <2>1. /\ Here \in Session /\ current' = Here /\ made <= made'
        /\ Here = current \/ Here > made
        /\ made \in Nat /\ made' \in Nat
    BY <1>2, EnsureFacts, TerminalAssumption DEF TerminalAssumption, MapOK
  <2>2. UNCHANGED <<granted, active, requests>>
    BY DEF controlVars
  <2>3. ControlledByMembers'
    <3>1. CASE Here = current
      BY <3>1, <2>1, <2>2, TerminalAssumption
      DEF TerminalAssumption, ControlOK, ControlledByMembers, Session, None
    <3>2. CASE Here > made
      BY <3>2, <2>1, <2>2, TerminalAssumption
      DEF TerminalAssumption, ControlOK, ControlledByMembers
    <3> QED
      BY <2>1, <3>1, <3>2
  <2>4. \A sid \in Session : sid > made' => sid > made
    BY <2>1 DEF Session
  <2> QED
    BY <2>2, <2>3, <2>4 DEF ControlOK
<1> QED
  BY <1>1, <1>2

\* So do the shells.
LEMMA ShellKept ==
    ASSUME MapOK, ShellOK, UNCHANGED shellVars, Ensure \/ UNCHANGED mapVars
    PROVE  ShellOK'
<1>1. CASE UNCHANGED mapVars
  BY <1>1 DEF ShellOK, StateTracksShell, SilentAfterLeave, shellVars, mapVars
<1>2. CASE Ensure
  <2>1. /\ Here \in Session /\ current' = Here /\ made <= made'
        /\ made \in Nat /\ made' \in Nat
    BY <1>2, EnsureFacts, TerminalAssumption DEF TerminalAssumption, MapOK
  <2>2. UNCHANGED <<open, emits, handle, leaving>>
    BY DEF shellVars
  <2>3. \/ current # None /\ Here = current
        \/ current = None /\ Here > made
    BY <2>1 DEF Here
  <2>4. SilentAfterLeave' /\ StateTracksShell' /\ leaving'[current'] = "no"
    <3>1. CASE current # None /\ Here = current
      BY <3>1, <2>1, <2>2 DEF ShellOK, SilentAfterLeave, StateTracksShell
    <3>2. CASE current = None /\ Here > made
      BY <3>2, <2>1, <2>2
      DEF ShellOK, SilentAfterLeave, StateTracksShell, Session, None
    <3> QED
      BY <2>3, <3>1, <3>2
  <2>5. \A sid \in Session : sid > made' => sid > made
    BY <2>1 DEF Session
  <2> QED
    BY <2>2, <2>4, <2>5 DEF ShellOK
<1> QED
  BY <1>1, <1>2

LEMMA TasksKept ==
    ASSUME TasksOK, UNCHANGED <<task, chain>>, MapOK, MapOK', made <= made'
    PROVE  TasksOK'
BY DEF TasksOK, MapOK, Task, Session, None, TaskOK

-----------------------------------------------------------------------------
(* The tasks of a step of one handler                                      *)

\* Handler h goes on as t, which waits in no chain, or in the same one.
LEMMA TaskStep ==
    ASSUME TasksOK, MapOK, MapOK', made <= made',
           NEW h \in Handler, NEW t \in Task,
           task' = [task EXCEPT ![h] = t], UNCHANGED chain,
           t.sid <= made', TaskOK(t, h, chain)
    PROVE  TasksOK'
<1>1. task' \in [Handler -> Task] /\ task'[h] = t
      /\ \A g \in Handler \ {h} : task'[g] = task[g]
  BY DEF TasksOK
<1>2. \A g \in Handler : TaskOK(task'[g], g, chain')
  BY <1>1 DEF TasksOK, TaskOK
<1>3. \A g \in Handler : task'[g].sid <= made'
  BY <1>1 DEF TasksOK, MapOK, Task, Session, None
<1> QED
  BY <1>1, <1>2, <1>3 DEF TasksOK

\* The operation of h, at the head of its chain, ends: h goes on as t.
LEMMA PopStep ==
    ASSUME TasksOK, MapOK, MapOK', made <= made',
           NEW h \in Handler, NEW t \in Task,
           task' = [task EXCEPT ![h] = t], Pop(task[h].sid),
           Len(chain[task[h].sid]) > 0, chain[task[h].sid][1] = h,
           task[h].sid \in Session, t.pc \notin {"queued"} \cup Running,
           t.sid = task[h].sid \/ t.sid = None, t.pc = "failing" => t.sid # None,
           t.pc # "idle" => t.socket \in Socket
    PROVE  TasksOK'
<1> DEFINE sid == task[h].sid
<1>1. task' \in [Handler -> Task] /\ task'[h] = t
      /\ \A g \in Handler \ {h} : task'[g] = task[g]
  BY DEF TasksOK
<1>2. /\ chain' \in [Session -> Seq(Handler)]
      /\ chain'[sid] = Tail(chain[sid])
      /\ \A x \in Session \ {sid} : chain'[x] = chain[x]
  BY DEF TasksOK, Pop
<1>3. /\ Len(chain'[sid]) = Len(chain[sid]) - 1
      /\ \A i \in 1..Len(chain'[sid]) : chain'[sid][i] = chain[sid][i + 1]
      /\ Len(chain[sid]) \in Nat
  BY <1>2 DEF TasksOK
<1>4. ASSUME NEW g \in Handler PROVE TaskOK(task'[g], g, chain')
  <2>1. CASE g = h
    BY <2>1, <1>1 DEF TaskOK, Task
  <2>2. CASE g # h /\ task[g].sid # sid
    <3>1. task'[g] = task[g] /\ TaskOK(task[g], g, chain)
      BY <2>2, <1>1 DEF TasksOK
    <3>2. task[g].sid \in Session => chain'[task[g].sid] = chain[task[g].sid]
      BY <2>2, <1>2
    <3> QED
      BY <3>1, <3>2 DEF TaskOK
  <2>3. CASE g # h /\ task[g].sid = sid
    <3>1. task'[g] = task[g] /\ TaskOK(task[g], g, chain)
      BY <2>3, <1>1 DEF TasksOK
    <3>2. task[g].pc \notin Running
      BY <3>1, <2>3 DEF TaskOK
    <3>3. ASSUME task[g].pc = "queued"
          PROVE  \E i \in 1..Len(chain'[sid]) : chain'[sid][i] = g
      <4>1. PICK i \in 1..Len(chain[sid]) : chain[sid][i] = g
        BY <3>1, <3>3, <2>3 DEF TaskOK
      <4>2. i # 1
        BY <4>1, <2>3
      <4>3. i - 1 \in 1..Len(chain'[sid]) /\ chain'[sid][i - 1] = g
        BY <4>1, <4>2, <1>3
      <4> QED
        BY <4>3
    <3> QED
      BY <3>1, <3>2, <3>3, <2>3 DEF TaskOK
  <2> QED
    BY <2>1, <2>2, <2>3
<1>5. \A g \in Handler : task'[g].sid <= made'
  BY <1>1 DEF TasksOK, MapOK, Task, Session, None
<1> QED
  BY <1>1, <1>2, <1>4, <1>5 DEF TasksOK

\* A handler whose operation runs, or may start, is the head of a chain.
AtHead(h) ==
    /\ task[h].socket \in Socket
    /\ task[h].sid \in 1..made /\ task[h].sid \in Session
    /\ Len(chain[task[h].sid]) > 0 /\ chain[task[h].sid][1] = h

LEMMA RunningAtHead ==
    ASSUME TasksOK, MapOK, NEW h \in Handler, task[h].pc \in Running \/ h \in Ready
    PROVE  AtHead(h)
<1>1. TaskOK(task[h], h, chain) /\ task[h].sid <= made /\ made \in Nat
  BY TerminalAssumption DEF TasksOK, MapOK, TerminalAssumption
<1>2. task[h].sid \in Session /\ task[h].socket \in Socket
  BY <1>1 DEF TaskOK, Ready, At, Running
<1>3. chain[task[h].sid] \in Seq(Handler)
  BY <1>2 DEF TasksOK
<1>4. CASE task[h].pc \in Running
  BY <1>1, <1>2, <1>4 DEF TaskOK, AtHead, Session
<1>5. CASE h \in Ready
  <2>1. task[h].pc = "queued" /\ Head(chain[task[h].sid]) = h
    BY <1>5 DEF Ready, At
  <2>2. PICK i \in 1..Len(chain[task[h].sid]) : chain[task[h].sid][i] = h
    BY <1>1, <2>1 DEF TaskOK
  <2>3. Len(chain[task[h].sid]) > 0 /\ chain[task[h].sid][1] = h
    BY <1>3, <2>1, <2>2
  <2> QED
    BY <1>1, <1>2, <2>3 DEF AtHead, Session
<1> QED
  BY <1>4, <1>5

LEMMA GotoStep ==
    ASSUME TasksOK, MapOK, MapOK', made <= made', NEW h \in Handler, AtHead(h),
           NEW at \in Running, Goto(h, at), UNCHANGED chain
    PROVE  TasksOK'
<1> DEFINE t == [task[h] EXCEPT !.pc = at]
<1>1. task[h] \in Task /\ task[h].sid <= made
  BY DEF TasksOK
<1>2. t \in Task /\ t.sid = task[h].sid /\ t.pc = at /\ t.socket = task[h].socket
  BY <1>1 DEF Task
<1>3. task' = [task EXCEPT ![h] = t]
  BY DEF Goto
<1>4. TaskOK(t, h, chain)
  BY <1>2 DEF TaskOK, AtHead, Running
<1>5. t.sid <= made'
  BY <1>1, <1>2, TerminalAssumption
  DEF MapOK, Task, Session, None, TerminalAssumption
<1> QED
  BY <1>2, <1>3, <1>4, <1>5, TaskStep

LEMMA IdleTask == Idle \in Task /\ Idle.sid = None /\ Idle.pc = "idle"
BY DEF Idle, Task

LEMMA EndStep ==
    ASSUME TasksOK, MapOK, MapOK', made <= made', NEW h \in Handler, End(h),
           UNCHANGED chain
    PROVE  TasksOK'
<1>1. TaskOK(Idle, h, chain)
  BY IdleTask DEF TaskOK, Running
<1>2. Idle.sid <= made'
  BY IdleTask, TerminalAssumption DEF MapOK, None, TerminalAssumption
<1> QED
  BY <1>1, <1>2, IdleTask, TaskStep DEF End

LEMMA PopEndStep ==
    ASSUME TasksOK, MapOK, MapOK', made <= made', NEW h \in Handler, AtHead(h),
           End(h), Pop(task[h].sid)
    PROVE  TasksOK'
<1>1. Idle.pc \notin {"queued"} \cup Running /\ Idle.pc # "failing"
  BY IdleTask DEF Running
<1> QED
  BY <1>1, IdleTask, PopStep DEF AtHead, End

\* The end of an operation: an operation may have made a session for its answer.
LEMMA SucceedStep ==
    ASSUME TasksOK, MapOK, NEW h \in Handler, AtHead(h), Succeed(h)
    PROVE  MapOK' /\ TasksOK' /\ (Ensure \/ UNCHANGED mapVars)
<1>1. Ensure \/ UNCHANGED mapVars
  BY DEF Succeed
<1>2. MapOK' /\ made <= made'
  BY <1>1, EnsureFacts, TerminalAssumption DEF MapOK, mapVars, TerminalAssumption
<1> QED
  BY <1>1, <1>2, PopEndStep DEF Succeed

-----------------------------------------------------------------------------
(* The shells of a step of one session                                     *)

LEMMA ShellStep ==
    ASSUME MapOK, ShellOK, NEW sid \in 1..made, Ensure \/ UNCHANGED mapVars,
           open' \subseteq Session, handle' \subseteq Session, emits' \subseteq emits,
           UNCHANGED leaving,
           \A x \in Session : x # sid => (x \in open' <=> x \in open),
           \A x \in Session : x # sid => (x \in handle' <=> x \in handle),
           sid = current => (sid \in open' <=> sid \in handle')
    PROVE  ShellOK'
<1>0. made \in Nat /\ sid <= made
  BY TerminalAssumption DEF TerminalAssumption, MapOK
<1>1. CASE UNCHANGED mapVars
  <2>1. UNCHANGED <<current, made>>
    BY <1>1 DEF mapVars
  <2>2. current # None => current \in Session
    BY TerminalAssumption DEF TerminalAssumption, MapOK, Session, None
  <2>3. SilentAfterLeave' /\ StateTracksShell'
    BY <2>1, <2>2 DEF ShellOK, SilentAfterLeave, StateTracksShell
  <2> QED
    BY <1>0, <2>1, <2>3 DEF ShellOK, Session
<1>2. CASE Ensure
  <2>1. /\ Here \in Session /\ current' = Here /\ made <= made' /\ made' \in Nat
    BY <1>2, EnsureFacts, TerminalAssumption DEF TerminalAssumption, MapOK
  <2>2. \/ current # None /\ Here = current
        \/ current = None /\ Here > made /\ Here # sid
    BY <1>0, <2>1 DEF Here
  <2>3. SilentAfterLeave' /\ StateTracksShell' /\ leaving'[current'] = "no"
    <3>1. CASE current # None /\ Here = current
      BY <3>1, <2>1 DEF ShellOK, SilentAfterLeave, StateTracksShell
    <3>2. CASE current = None /\ Here > made /\ Here # sid
      BY <3>2, <2>1
      DEF ShellOK, SilentAfterLeave, StateTracksShell, Session, None
    <3> QED
      BY <2>2, <3>1, <3>2
  <2>4. \A x \in Session : x > made' => x > made /\ x # sid
    BY <1>0, <2>1 DEF Session
  <2>5. \A x \in Session : x > made' =>
           leaving'[x] = "no" /\ x \notin open' /\ x \notin handle'
    BY <2>4 DEF ShellOK
  <2>6. emits' \subseteq Session
    BY DEF ShellOK
  <2> QED
    BY <2>3, <2>5, <2>6 DEF ShellOK
<1> QED
  BY <1>1, <1>2

\* An operation that fails leaves isSessionOpen as the runtime has it.
LEMMA FailStep ==
    ASSUME Inv, NEW h \in Handler, AtHead(h), NEW shells,
           shells = handle \/ shells = handle \ {task[h].sid}, Fail(h, shells)
    PROVE  MapOK' /\ ShellOK' /\ TasksOK' /\ UNCHANGED mapVars
<1> DEFINE sid == task[h].sid
           t == [task[h] EXCEPT !.pc = "failing"]
<1>1. UNCHANGED mapVars /\ UNCHANGED leaving /\ handle' = shells
  BY DEF Fail
<1>2. MapOK' /\ made <= made'
  BY <1>1, TerminalAssumption DEF Inv, MapOK, mapVars, TerminalAssumption
<1>3. sid \in 1..made /\ sid \in Session
  BY DEF AtHead
<1>4. CASE Gone(sid, shells)
  <2>1. sid \in open /\ sid \notin shells /\ open' = open \ {sid}
        /\ emits' = emits \ {sid}
    BY <1>4 DEF Fail, Gone, MarkClosed
  <2>2. ShellOK'
    BY <1>1, <1>3, <2>1, ShellStep DEF Inv, ShellOK
  <2>3. task[h] \in Task
    BY DEF Inv, TasksOK
  <2>4. t \in Task /\ t.sid = sid /\ t.pc = "failing" /\ t.socket \in Socket
    BY <2>3 DEF Task, AtHead
  <2>5. task' = [task EXCEPT ![h] = t] /\ Pop(sid)
    BY <1>4 DEF Fail, Goto
  <2>6. t.pc \notin {"queued"} \cup Running /\ t.sid # None
    BY <1>3, <2>4 DEF Running, None
  <2>7. TasksOK'
    BY <1>2, <1>3, <2>4, <2>5, <2>6, PopStep DEF AtHead, Inv
  <2> QED
    BY <1>1, <1>2, <2>2, <2>7
<1>5. CASE ~Gone(sid, shells)
  <2>1. UNCHANGED <<open, emits>> /\ End(h) /\ Pop(sid)
        /\ (sid \notin open \/ sid \in shells)
    BY <1>5 DEF Fail, Gone
  <2>2. sid = current => (sid \in open <=> sid \in handle)
    BY <1>3 DEF Inv, ShellOK, StateTracksShell, None
  <2>3. ShellOK'
    BY <1>1, <1>3, <2>1, <2>2, ShellStep DEF Inv, ShellOK
  <2>4. TasksOK'
    BY <1>2, <2>1, PopEndStep DEF Inv
  <2> QED
    BY <1>1, <1>2, <2>3, <2>4
<1> QED
  BY <1>4, <1>5

-----------------------------------------------------------------------------
(* Joining and leaving the project                                         *)

\* Sessions may be made and members may join: nothing else of Inv is disturbed.
LEMMA MembersStep ==
    ASSUME Inv, Ensure \/ UNCHANGED mapVars, UNCHANGED controlVars,
           \A u \in Subject : Member(u) => Member(u)'
    PROVE  MapOK' /\ made <= made' /\ ControlOK'
<1>1. MapOK' /\ made <= made'
  BY EnsureFacts, TerminalAssumption DEF Inv, MapOK, mapVars, TerminalAssumption
<1>2. ControlOK'
  BY ControlKept DEF Inv
<1> QED
  BY <1>1, <1>2

LEMMA BeginInv ==
    ASSUME Inv, NEW h \in Handler, NEW s \in Socket,
           NEW kind \in {"project", "terminal"} \cup Operation, Begin(h, s, kind)
    PROVE  Inv'
<1> DEFINE t == [pc |-> "authorizing", kind |-> kind, socket |-> s, sid |-> None]
<1>1. MapOK' /\ made <= made' /\ ControlOK'
  BY MembersStep DEF Begin, roomVars, Member
<1>2. RoomOK' /\ FlagsOK'
  BY DEF Inv, Begin, roomVars, flagVars, RoomOK, FlagsOK
<1>3. ShellOK'
  BY ShellKept DEF Inv, Begin
<1>4. t \in Task /\ TaskOK(t, h, chain) /\ t.sid <= made'
  BY <1>1, TerminalAssumption
  DEF Task, TaskOK, Running, None, MapOK, TerminalAssumption
<1>5. TasksOK'
  BY <1>1, <1>4, TaskStep DEF Inv, Begin
<1> QED
  BY <1>1, <1>2, <1>3, <1>5 DEF Inv

LEMMA DeniedInv ==
    ASSUME Inv, NEW h \in Handler, Denied(h)
    PROVE  Inv'
<1>1. MapOK' /\ made <= made' /\ ControlOK'
  BY MembersStep DEF Denied, Member
<1>2. RoomOK' /\ FlagsOK'
  BY DEF Inv, Denied, flagVars, RoomOK, FlagsOK
<1>3. ShellOK'
  BY ShellKept DEF Inv, Denied
<1>4. TasksOK'
  BY <1>1, EndStep DEF Inv, Denied
<1> QED
  BY <1>1, <1>2, <1>3, <1>4 DEF Inv

LEMMA JoinProjectInv ==
    ASSUME Inv, NEW h \in Handler, NEW mayUse \in BOOLEAN, JoinProject(h, mayUse)
    PROVE  Inv'
<1>1. task[h].socket \in Socket
  BY DEF Inv, TasksOK, TaskOK, JoinProject, At
<1>2. connections' \in [Subject -> Nat]
      /\ \A u \in Subject : connections'[u] >= connections[u]
  <2>1. connections' = [connections EXCEPT
           ![By(h)] = IF task[h].socket \in joined THEN @ ELSE @ + 1]
    BY DEF JoinProject
  <2>2. connections \in [Subject -> Nat]
    BY DEF Inv, RoomOK
  <2>3. ASSUME NEW u \in Subject
        PROVE  connections'[u] >= connections[u] /\ connections'[u] \in Nat
    <3>1. CASE u # By(h)
      BY <2>1, <2>2, <3>1
    <3>2. CASE u = By(h) /\ task[h].socket \in joined
      BY <2>1, <2>2, <3>2
    <3>3. CASE u = By(h) /\ task[h].socket \notin joined
      BY <2>1, <2>2, <3>3
    <3> QED
      BY <3>1, <3>2, <3>3
  <2> QED
    BY <2>1, <2>2, <2>3
<1>3. Ensure \/ UNCHANGED mapVars
  BY DEF JoinProject
<1>4. \A u \in Subject : Member(u) => Member(u)'
  BY <1>2 DEF Member, Inv, RoomOK
<1>5. MapOK' /\ made <= made' /\ ControlOK'
  BY <1>3, <1>4, MembersStep DEF JoinProject
<1>6. RoomOK' /\ FlagsOK'
  BY <1>1, <1>2 DEF Inv, JoinProject, flagVars, RoomOK, FlagsOK
<1>7. ShellOK'
  BY <1>3, ShellKept DEF Inv, JoinProject
<1>8. TasksOK'
  BY <1>5, EndStep DEF Inv, JoinProject
<1> QED
  BY <1>5, <1>6, <1>7, <1>8 DEF Inv

LEMMA JoinTerminalInv ==
    ASSUME Inv, NEW h \in Handler, JoinTerminal(h)
    PROVE  Inv'
<1>1. task[h].socket \in Socket
  BY DEF Inv, TasksOK, TaskOK, JoinTerminal, At
<1>2. Ensure \/ UNCHANGED mapVars
  BY DEF JoinTerminal
<1>3. MapOK' /\ made <= made' /\ ControlOK'
  BY <1>2, MembersStep DEF JoinTerminal, Member
<1>4. RoomOK' /\ FlagsOK'
  BY <1>1 DEF Inv, JoinTerminal, flagVars, RoomOK, FlagsOK
<1>5. ShellOK'
  BY <1>2, ShellKept DEF Inv, JoinTerminal
<1>6. TasksOK'
  BY <1>3, EndStep DEF Inv, JoinTerminal
<1> QED
  BY <1>3, <1>4, <1>5, <1>6 DEF Inv

\* A socket comes, or leaves the room of the terminal: nothing else moves.
LEMMA SocketInv ==
    ASSUME Inv, NEW s \in Socket, LeaveTerminal(s) \/ Connect(s)
    PROVE  Inv'
<1>1. UNCHANGED <<connections, mapVars, controlVars, shellVars, chain, task, flagVars>>
  BY DEF LeaveTerminal, Connect
<1>2. MapOK' /\ made <= made' /\ ControlOK'
  BY <1>1, MembersStep DEF Member
<1>3. RoomOK' /\ FlagsOK'
  BY <1>1 DEF Inv, LeaveTerminal, Connect, flagVars, RoomOK, FlagsOK
<1>4. ShellOK'
  BY <1>1, ShellKept DEF Inv
<1>5. TasksOK'
  BY <1>1, <1>2, TasksKept DEF Inv
<1> QED
  BY <1>2, <1>3, <1>4, <1>5 DEF Inv

\* Whoever leaves with the last connection leaves no claim to control behind.
LEMMA WithdrawControl ==
    ASSUME Inv, NEW u \in Subject, MarkLeft(u), UNCHANGED made
    PROVE  ControlOK' /\ connections' \in [Subject -> Nat]
<1>1. /\ connections' \in [Subject -> Nat]
      /\ \A v \in Subject : v # u => connections'[v] = connections[v]
      /\ connections[u] # 1 /\ connections[u] > 0 => connections'[u] > 0
  BY DEF MarkLeft, Inv, RoomOK
<1>2. current # None => current \in Session /\ current <= made
  BY TerminalAssumption DEF Inv, MapOK, Session, None, TerminalAssumption
<1>3. CASE connections[u] # 1
  <2>1. UNCHANGED <<current, controlVars>>
    BY <1>3 DEF MarkLeft
  <2>2. \A v \in Subject : Member(v) => Member(v)'
    BY <1>1, <1>3 DEF Member
  <2> QED
    BY <1>1, <2>1, <2>2, ControlKept DEF Inv, mapVars
<1>4. CASE connections[u] = 1
  <2>1. Withdraw(u) /\ (current' = current \/ current' = None)
    BY <1>4 DEF MarkLeft, Abandon
  <2>2. CASE current = None
    <3>1. UNCHANGED <<granted, active, requests>> /\ current' = None
      BY <2>1, <2>2 DEF Withdraw, controlVars
    <3> QED
      BY <1>1, <3>1 DEF Inv, ControlOK, ControlledByMembers
  <2>3. CASE current # None
    <3>1. /\ requests' = [requests EXCEPT ![current] = @ \ {u}]
          /\ granted' = [granted EXCEPT ![current] = IF @ = u THEN Nobody ELSE @]
          /\ active' = [active EXCEPT ![current] = IF @ = u THEN Owner ELSE @]
      BY <2>1, <2>3 DEF Withdraw
    <3>2. /\ granted' \in [Session -> Subject \cup {Nobody}]
          /\ active' \in [Session -> Subject]
          /\ requests' \in [Session -> SUBSET Subject]
      BY <3>1, TerminalAssumption DEF Inv, ControlOK, TerminalAssumption
    <3>3. \A sid \in Session : sid > made =>
             granted'[sid] = Nobody /\ active'[sid] = Owner /\ requests'[sid] = {}
      BY <3>1, <1>2, TerminalAssumption
      DEF Inv, ControlOK, MapOK, Session, TerminalAssumption
    <3>4. ControlledByMembers'
      <4> SUFFICES ASSUME current' # None
                   PROVE  ControlledByMembers'
        BY DEF ControlledByMembers
      <4>1. current' = current /\ current \in Session
        BY <2>1, <1>2
      <4>2. granted[current] \in Subject \cup {Nobody}
            /\ requests[current] \in SUBSET Subject
        BY <4>1 DEF Inv, ControlOK
      <4>3. granted'[current] # Nobody =>
               granted'[current] # Owner /\ connections'[granted'[current]] > 0
        BY <3>1, <4>1, <4>2, <1>1, <2>3
        DEF Inv, ControlOK, ControlledByMembers, Member
      <4>4. active'[current] =
               IF granted'[current] = Nobody THEN Owner ELSE granted'[current]
        BY <3>1, <4>1, <4>2, <2>3, TerminalAssumption
        DEF Inv, ControlOK, ControlledByMembers, TerminalAssumption
      <4>5. \A v \in requests'[current] :
               v # Owner /\ Member(v)' /\ v # granted'[current]
        BY <3>1, <4>1, <4>2, <1>1, <2>3, TerminalAssumption
        DEF Inv, ControlOK, ControlledByMembers, Member, TerminalAssumption
      <4> QED
        BY <4>1, <4>3, <4>4, <4>5 DEF ControlledByMembers, Member
    <3> QED
      BY <1>1, <3>2, <3>3, <3>4 DEF ControlOK
  <2> QED
    BY <2>2, <2>3
<1> QED
  BY <1>3, <1>4

\* What is left of the session of an owner who left is silent.
LEMMA LeaveShell ==
    ASSUME Inv, NEW u \in Subject, MarkLeft(u), UNCHANGED made
    PROVE  MapOK' /\ ShellOK' /\ early' \in BOOLEAN
<1>1. early \in BOOLEAN
  BY DEF Inv, FlagsOK
<1>2. CASE UNCHANGED <<current, shellVars, early>>
  <2>1. MapOK'
    BY <1>2 DEF Inv, MapOK
  <2>2. ShellOK'
    BY <1>2, ShellKept DEF Inv, mapVars
  <2> QED
    BY <1>1, <1>2, <2>1, <2>2
<1>3. CASE ~UNCHANGED <<current, shellVars, early>>
  <2>1. current # None /\ Abandon
    BY <1>3 DEF MarkLeft, Abandon
  <2>2. /\ made < MaxSession /\ current' = None
        /\ emits' = emits \ {current} /\ open' = open \ {current}
        /\ leaving' = [leaving EXCEPT ![current] =
                          IF current \in open THEN "closing" ELSE "left"]
        /\ handle' = IF current \in open THEN handle ELSE handle \ {current}
        /\ early' = (early \/ chain[current] # <<>>)
    BY <2>1 DEF Abandon
  <2>3. current \in Session /\ current <= made
    BY <2>1, TerminalAssumption DEF Inv, MapOK, Session, None, TerminalAssumption
  <2>4. MapOK'
    BY <2>2, TerminalAssumption DEF Inv, MapOK, None, TerminalAssumption
  <2>5. emits' \subseteq {current'} /\ emits' \subseteq Session
    BY <2>2 DEF Inv, ShellOK, SilentAfterLeave
  <2>6. /\ open' \subseteq Session /\ handle' \subseteq Session
        /\ leaving' \in [Session -> {"no", "closing", "hooking", "left"}]
    BY <2>2 DEF Inv, ShellOK
  <2>7. \A sid \in Session : sid > made =>
           leaving'[sid] = "no" /\ sid \notin open' /\ sid \notin handle'
    BY <2>2, <2>3, TerminalAssumption
    DEF Inv, ShellOK, MapOK, Session, TerminalAssumption
  <2>8. ShellOK'
    BY <2>2, <2>5, <2>6, <2>7 DEF ShellOK, StateTracksShell, SilentAfterLeave
  <2>9. early' \in BOOLEAN
    BY <2>2, Zenon
  <2> QED
    BY <2>4, <2>8, <2>9
<1> QED
  BY <1>2, <1>3

LEMMA LeaveInv ==
    ASSUME Inv, NEW s \in Socket, LeaveProject(s) \/ Disconnect(s)
    PROVE  Inv'
<1>1. UNCHANGED <<made, chain, task, held, failed>>
  BY DEF LeaveProject, Disconnect
<1>2. connected' \subseteq Socket /\ joined' \subseteq Socket /\ inTerminal' \subseteq Socket
  BY DEF Inv, RoomOK, LeaveProject, Disconnect
<1>3. /\ MapOK' /\ ControlOK' /\ ShellOK' /\ early' \in BOOLEAN
      /\ connections' \in [Subject -> Nat]
  <2>1. CASE MarkLeft(SubjectOf(s))
    <3>1. SubjectOf(s) \in Subject
      BY DEF Socket, SubjectOf
    <3> QED
      BY <1>1, <2>1, <3>1, WithdrawControl, LeaveShell
  <2>2. CASE UNCHANGED <<connections, current, controlVars, shellVars, early>>
    <3>1. UNCHANGED mapVars
      BY <1>1, <2>2 DEF mapVars
    <3>2. MapOK' /\ ControlOK'
      BY <2>2, <3>1, MembersStep DEF Member
    <3>3. ShellOK'
      BY <2>2, <3>1, ShellKept DEF Inv
    <3> QED
      BY <2>2, <3>2, <3>3 DEF Inv, RoomOK, FlagsOK
  <2> QED
    BY <2>1, <2>2 DEF LeaveProject, Disconnect
<1>4. made <= made'
  BY <1>1, TerminalAssumption DEF Inv, MapOK, TerminalAssumption
<1>5. TasksOK'
  BY <1>1, <1>3, <1>4, TasksKept DEF Inv
<1>6. FlagsOK'
  BY <1>1, <1>3 DEF Inv, FlagsOK
<1> QED
  BY <1>2, <1>3, <1>5, <1>6 DEF Inv, RoomOK

-----------------------------------------------------------------------------
(* Who controls the terminal                                               *)

\* Only who may control the terminal, or who asks to, has changed.
LEMMA ControlInv ==
    ASSUME Inv, UNCHANGED <<roomVars, shellVars, chain, task, flagVars>>, MapOK',
           made <= made', Ensure \/ UNCHANGED mapVars, ControlOK'
    PROVE  Inv'
<1>1. RoomOK' /\ FlagsOK'
  BY DEF Inv, RoomOK, FlagsOK, roomVars, flagVars
<1>2. ShellOK'
  BY ShellKept DEF Inv
<1>3. TasksOK'
  BY TasksKept DEF Inv
<1> QED
  BY <1>1, <1>2, <1>3 DEF Inv

LEMMA RequestAccessInv ==
    ASSUME Inv, NEW s \in Socket, RequestAccess(s)
    PROVE  Inv'
<1> DEFINE u == SubjectOf(s)
<1>1. /\ u # Owner /\ Member(u) /\ Ensure /\ u \notin {active[Here], granted[Here]}
      /\ requests' = [requests EXCEPT ![Here] = @ \cup {u}]
      /\ UNCHANGED <<roomVars, granted, active, shellVars, chain, task, flagVars>>
  BY DEF RequestAccess
<1>2. u \in Subject
  BY DEF Socket, SubjectOf
<1>3. /\ MapOK' /\ made <= made' /\ Here \in Session /\ Here <= made'
      /\ current' = Here
  BY <1>1, EnsureFacts DEF Inv
<1>4. \/ current # None /\ Here = current
      \/ current = None /\ Here > made
  BY TerminalAssumption DEF Here, Inv, MapOK, TerminalAssumption
<1>5. UNCHANGED connections
  BY <1>1 DEF roomVars
<1>6. ControlledByMembers'
  <2>1. requests'[Here] = requests[Here] \cup {u}
    BY <1>1, <1>3 DEF Inv, ControlOK
  <2>2. CASE current # None /\ Here = current
    BY <1>1, <1>3, <1>5, <2>1, <2>2
    DEF Inv, ControlOK, ControlledByMembers, Member
  <2>3. CASE current = None /\ Here > made
    <3>1. granted[Here] = Nobody /\ active[Here] = Owner /\ requests[Here] = {}
      BY <1>3, <2>3 DEF Inv, ControlOK
    <3>2. u # Nobody
      BY <1>2, TerminalAssumption DEF TerminalAssumption
    <3> QED
      BY <1>1, <1>3, <1>5, <2>1, <3>1, <3>2 DEF ControlledByMembers, Member
  <2> QED
    BY <1>4, <2>2, <2>3
<1>7. \A sid \in Session : sid > made' =>
         granted'[sid] = Nobody /\ active'[sid] = Owner /\ requests'[sid] = {}
  <2>1. \A sid \in Session : sid > made' => sid > made /\ sid # Here
    BY <1>3, TerminalAssumption DEF Inv, MapOK, Session, TerminalAssumption
  <2> QED
    BY <1>1, <2>1 DEF Inv, ControlOK
<1>8. requests' \in [Session -> SUBSET Subject]
  BY <1>1, <1>2 DEF Inv, ControlOK
<1>9. ControlOK'
  BY <1>1, <1>6, <1>7, <1>8 DEF Inv, ControlOK
<1> QED
  BY <1>1, <1>3, <1>9, ControlInv

\* The session in the map is one that was made.
LEMMA CurrentMade ==
    ASSUME Inv, current # None
    PROVE  current \in Session /\ current <= made /\ made \in Nat
BY TerminalAssumption DEF Inv, MapOK, Session, None, TerminalAssumption

LEMMA DecideAccessInv ==
    ASSUME Inv, NEW s \in Socket, NEW u \in Subject, NEW approve \in BOOLEAN,
           DecideAccess(s, u, approve)
    PROVE  Inv'
<1>1. /\ current # None /\ u \in requests[current]
      /\ requests' = [requests EXCEPT ![current] = @ \ {u}]
      /\ \/ /\ Member(u)
            /\ granted' = [granted EXCEPT ![current] = u]
            /\ active' = [active EXCEPT ![current] = u]
         \/ UNCHANGED <<granted, active>>
      /\ UNCHANGED <<roomVars, mapVars, shellVars, chain, task, flagVars>>
  BY DEF DecideAccess
<1>2. current \in Session /\ current <= made /\ made \in Nat
  BY <1>1, CurrentMade
<1>3. u # Owner /\ Member(u) /\ u # Nobody
  BY <1>1, TerminalAssumption DEF Inv, ControlOK, ControlledByMembers, TerminalAssumption
<1>4. UNCHANGED <<connections, current, made>>
  BY <1>1 DEF roomVars, mapVars
<1>5. /\ granted' \in [Session -> Subject \cup {Nobody}]
      /\ active' \in [Session -> Subject]
      /\ requests' \in [Session -> SUBSET Subject]
  BY <1>1 DEF Inv, ControlOK
<1>6. \A sid \in Session : sid > made =>
         granted'[sid] = Nobody /\ active'[sid] = Owner /\ requests'[sid] = {}
  <2>1. \A sid \in Session : sid > made => sid # current
    BY <1>2 DEF Session
  <2> QED
    BY <1>1, <2>1 DEF Inv, ControlOK
<1>7. ControlledByMembers'
  BY <1>1, <1>2, <1>3, <1>4 DEF Inv, ControlOK, ControlledByMembers, Member
<1>8. ControlOK'
  BY <1>4, <1>5, <1>6, <1>7 DEF ControlOK
<1>9. MapOK' /\ made <= made'
  BY <1>2, <1>4 DEF Inv, MapOK
<1> QED
  BY <1>1, <1>8, <1>9, ControlInv

LEMMA RevokeControlInv ==
    ASSUME Inv, NEW s \in Socket, RevokeControl(s)
    PROVE  Inv'
<1>1. /\ current # None
      /\ granted' = [granted EXCEPT ![current] = Nobody]
      /\ active' = [active EXCEPT ![current] = Owner]
      /\ requests' = [requests EXCEPT ![current] = {}]
      /\ UNCHANGED <<roomVars, mapVars, shellVars, chain, task, flagVars>>
  BY DEF RevokeControl
<1>2. current \in Session /\ current <= made /\ made \in Nat
  BY <1>1, CurrentMade
<1>3. UNCHANGED <<connections, current, made>>
  BY <1>1 DEF roomVars, mapVars
<1>4. /\ granted' \in [Session -> Subject \cup {Nobody}]
      /\ active' \in [Session -> Subject]
      /\ requests' \in [Session -> SUBSET Subject]
  BY <1>1, TerminalAssumption DEF Inv, ControlOK, TerminalAssumption
<1>5. \A sid \in Session : sid > made =>
         granted'[sid] = Nobody /\ active'[sid] = Owner /\ requests'[sid] = {}
  <2>1. \A sid \in Session : sid > made => sid # current
    BY <1>2 DEF Session
  <2> QED
    BY <1>1, <2>1 DEF Inv, ControlOK
<1>6. ControlledByMembers'
  BY <1>1, <1>2, <1>3 DEF Inv, ControlOK, ControlledByMembers
<1>7. ControlOK'
  BY <1>3, <1>4, <1>5, <1>6 DEF ControlOK
<1>8. MapOK' /\ made <= made'
  BY <1>2, <1>3 DEF Inv, MapOK
<1> QED
  BY <1>1, <1>7, <1>8, ControlInv

-----------------------------------------------------------------------------
(* Operations                                                              *)

\* No operation disturbs who is where and who controls the terminal.
LEMMA OperationInv ==
    ASSUME Inv, UNCHANGED <<roomVars, controlVars>>, Ensure \/ UNCHANGED mapVars,
           ShellOK', TasksOK', FlagsOK'
    PROVE  Inv'
<1>1. MapOK' /\ ControlOK'
  BY MembersStep DEF roomVars, Member
<1>2. RoomOK'
  BY DEF Inv, RoomOK, roomVars
<1> QED
  BY <1>1, <1>2 DEF Inv

LEMMA HookFlags ==
    ASSUME FlagsOK, NEW sid \in Session, HookEnds(sid), UNCHANGED early
    PROVE  FlagsOK'
<1>1. CASE held' = [held EXCEPT ![sid] = @ - 1] /\ UNCHANGED failed
  BY <1>1 DEF FlagsOK
<1>2. CASE failed' = TRUE /\ UNCHANGED held
  BY <1>2 DEF FlagsOK
<1> QED
  BY <1>1, <1>2 DEF HookEnds

\* Sessions are the same: the number of those that were made is too.
LEMMA SameMap ==
    ASSUME Inv, UNCHANGED mapVars
    PROVE  MapOK' /\ made <= made' /\ made \in Nat
BY TerminalAssumption DEF Inv, MapOK, mapVars, TerminalAssumption

LEMMA AcceptInv ==
    ASSUME Inv, NEW h \in Handler, Accept(h)
    PROVE  Inv'
<1>1. Ensure /\ task[h].pc = "authorizing"
      /\ UNCHANGED <<roomVars, controlVars, open, handle, leaving, flagVars>>
  BY DEF Accept, At
<1>2. /\ MapOK' /\ made <= made' /\ Here \in Session /\ Here <= made'
      /\ current' = Here
      /\ made \in Nat /\ made' \in Nat
  BY <1>1, EnsureFacts, TerminalAssumption DEF Inv, MapOK, TerminalAssumption
<1>3. \/ current # None /\ Here = current
      \/ current = None /\ Here > made
  BY <1>2 DEF Here
<1>4. task[h] \in Task /\ task[h].socket \in Socket
  BY <1>1 DEF Inv, TasksOK, TaskOK
<1>5. FlagsOK'
  BY <1>1 DEF Inv, FlagsOK, flagVars
<1>6. CASE UNCHANGED <<chain, emits>> /\ End(h)
  <2>1. ShellOK'
    BY <1>1, <1>6, ShellKept DEF Inv, shellVars
  <2>2. TasksOK'
    BY <1>2, <1>6, EndStep DEF Inv
  <2> QED
    BY <1>1, <1>5, <2>1, <2>2, OperationInv
<1>7. CASE /\ chain' = [chain EXCEPT ![Here] = Append(@, h)]
           /\ task' = [task EXCEPT ![h].pc = "queued", ![h].sid = Here]
           /\ emits' \subseteq emits \cup {Here}
  <2> DEFINE t == [task[h] EXCEPT !.pc = "queued", !.sid = Here]
  <2>1. /\ t \in Task /\ t.pc = "queued" /\ t.sid = Here
        /\ t.socket \in Socket
    BY <1>2, <1>4 DEF Task
  <2>2. task' = [task EXCEPT ![h] = t]
    BY <1>7
  <2> HIDE DEF t
  <2>3. task' \in [Handler -> Task] /\ task'[h] = t
        /\ \A g \in Handler \ {h} : task'[g] = task[g]
    BY <2>1, <2>2 DEF Inv, TasksOK
  <2>4. /\ chain[Here] \in Seq(Handler)
        /\ chain' \in [Session -> Seq(Handler)]
        /\ chain'[Here] = Append(chain[Here], h)
        /\ \A sid \in Session \ {Here} : chain'[sid] = chain[sid]
    BY <1>2, <1>7 DEF Inv, TasksOK
  <2>5. /\ Len(chain[Here]) \in Nat /\ Len(chain'[Here]) = Len(chain[Here]) + 1
        /\ chain'[Here][Len(chain[Here]) + 1] = h
        /\ \A i \in 1..Len(chain[Here]) : chain'[Here][i] = chain[Here][i]
    BY <2>4
  <2>6. ASSUME NEW g \in Handler
        PROVE  TaskOK(task'[g], g, chain')
    <3>1. CASE g = h
      <4>1. Len(chain[Here]) + 1 \in 1..Len(chain'[Here])
        BY <2>5
      <4>2. \E i \in 1..Len(chain'[Here]) : chain'[Here][i] = h
        BY <2>5, <4>1
      <4>3. "queued" \notin Running
        BY DEF Running
      <4> QED
        BY <1>2, <2>1, <2>3, <3>1, <4>2, <4>3 DEF TaskOK
    <3>2. CASE g # h
      <4>1. task'[g] = task[g] /\ TaskOK(task[g], g, chain)
        BY <2>3, <3>2 DEF Inv, TasksOK
      <4>2. CASE task[g].sid = Here
        <5>1. task[g].pc = "queued" =>
                 \E i \in 1..Len(chain'[Here]) : chain'[Here][i] = g
          BY <2>5, <4>1, <4>2 DEF TaskOK
        <5>2. task[g].pc \in Running =>
                 Len(chain'[Here]) > 0 /\ chain'[Here][1] = g
          BY <2>5, <4>1, <4>2 DEF TaskOK
        <5> QED
          BY <4>1, <4>2, <5>1, <5>2 DEF TaskOK
      <4>3. CASE task[g].sid # Here
        <5>1. task[g].sid \in Session => chain'[task[g].sid] = chain[task[g].sid]
          BY <2>4, <4>3
        <5> QED
          BY <4>1, <5>1 DEF TaskOK
      <4> QED
        BY <4>2, <4>3
    <3> QED
      BY <3>1, <3>2
  <2>7. \A g \in Handler : task'[g].sid <= made'
    <3>1. ASSUME NEW g \in Handler, g # h
          PROVE  task'[g].sid <= made'
      <4>1. task[g] \in Task /\ task[g].sid <= made
        BY DEF Inv, TasksOK
      <4>2. task[g].sid \in Int
        BY <4>1, TerminalAssumption DEF Task, Session, None, TerminalAssumption
      <4> QED
        BY <1>2, <2>3, <3>1, <4>1, <4>2
    <3> QED
      BY <1>2, <2>1, <2>3, <3>1
  <2>8. TasksOK'
    BY <2>3, <2>4, <2>6, <2>7 DEF TasksOK
  <2>9. ShellOK'
    <3>1. emits' \subseteq {Here} /\ emits' \subseteq Session
      <4>1. CASE current # None /\ Here = current
        BY <1>2, <1>7, <4>1 DEF Inv, ShellOK, SilentAfterLeave
      <4>2. CASE current = None /\ Here > made
        BY <1>2, <1>7, <4>2 DEF Inv, ShellOK, SilentAfterLeave, Session, None
      <4> QED
        BY <1>3, <4>1, <4>2
    <3>2. StateTracksShell' /\ leaving'[Here] = "no"
      <4>1. CASE current # None /\ Here = current
        BY <1>1, <1>2, <4>1 DEF Inv, ShellOK, StateTracksShell
      <4>2. CASE current = None /\ Here > made
        BY <1>1, <1>2, <4>2 DEF Inv, ShellOK, StateTracksShell
      <4> QED
        BY <1>3, <4>1, <4>2
    <3>3. \A sid \in Session : sid > made' => sid > made
      BY <1>2 DEF Session
    <3> QED
      BY <1>1, <1>2, <3>1, <3>2, <3>3 DEF Inv, ShellOK, SilentAfterLeave
  <2> QED
    BY <1>1, <1>5, <2>8, <2>9, OperationInv
<1> QED
  BY <1>6, <1>7 DEF Accept

\* The step that finds the shell gone, up to the hook.
LEMMA ReconcileStep ==
    ASSUME Inv, NEW h \in Handler, AtHead(h), Reconcile(h), UNCHANGED <<handle, leaving>>
    PROVE  TasksOK' /\ ShellOK' /\ UNCHANGED mapVars
<1> DEFINE sid == task[h].sid
<1>1. /\ sid \notin handle /\ open' = open \ {sid} /\ emits' = emits \ {sid}
      /\ Goto(h, "reconciling") /\ UNCHANGED <<mapVars, chain>>
  BY DEF Reconcile, Gone, MarkClosed
<1>2. TasksOK'
  BY <1>1, SameMap, GotoStep DEF Inv, Running
<1>3. sid \in 1..made
  BY DEF AtHead
<1>4. ShellOK'
  BY <1>1, <1>3, ShellStep DEF Inv, ShellOK
<1> QED
  BY <1>1, <1>2, <1>4

\* An operation goes on to another await and the shells stay as they are.
LEMMA GoesOn ==
    ASSUME Inv, NEW h \in Handler, AtHead(h), NEW at \in Running, Goto(h, at),
           UNCHANGED <<mapVars, chain, shellVars>>
    PROVE  TasksOK' /\ ShellOK'
<1>1. TasksOK'
  BY SameMap, GotoStep DEF Inv
<1>2. ShellOK'
  BY ShellKept DEF Inv
<1> QED
  BY <1>1, <1>2

\* An operation ends and the shells stay as they are, but for their output.
LEMMA Ends ==
    ASSUME Inv, NEW h \in Handler, AtHead(h), Succeed(h), emits' \subseteq emits,
           UNCHANGED <<open, handle, leaving>>
    PROVE  TasksOK' /\ ShellOK' /\ (Ensure \/ UNCHANGED mapVars)
<1>1. TasksOK' /\ (Ensure \/ UNCHANGED mapVars)
  BY SucceedStep DEF Inv
<1>2. task[h].sid \in 1..made
  BY DEF AtHead
<1>3. task[h].sid = current => (task[h].sid \in open' <=> task[h].sid \in handle')
  BY <1>2 DEF Inv, ShellOK, StateTracksShell, None
<1>4. ShellOK'
  BY <1>1, <1>2, <1>3, ShellStep DEF Inv, ShellOK
<1> QED
  BY <1>1, <1>4

LEMMA OpenStartInv ==
    ASSUME Inv, NEW h \in Handler, OpenStart(h)
    PROVE  Inv'
<1>1. AtHead(h)
  BY RunningAtHead DEF Inv, OpenStart, Starts
<1>2. FlagsOK'
  BY DEF Inv, FlagsOK, OpenStart, flagVars
<1>3. UNCHANGED <<roomVars, controlVars, handle, leaving>>
  BY DEF OpenStart
<1>4. CASE Reconcile(h)
  BY <1>1, <1>2, <1>3, <1>4, ReconcileStep, OperationInv
<1>5. CASE Succeed(h) /\ UNCHANGED <<open, emits>>
  BY <1>1, <1>2, <1>3, <1>5, Ends, OperationInv
<1>6. CASE Goto(h, "hydrating") /\ UNCHANGED <<mapVars, chain, open, emits>>
  BY <1>1, <1>2, <1>3, <1>6, GoesOn, OperationInv DEF shellVars, Running
<1> QED
  BY <1>4, <1>5, <1>6 DEF OpenStart

LEMMA OpenReconciledInv ==
    ASSUME Inv, NEW h \in Handler, OpenReconciled(h)
    PROVE  Inv'
<1>1. AtHead(h)
  BY RunningAtHead DEF Inv, OpenReconciled, At, Running
<1>2. FlagsOK'
  BY <1>1, HookFlags DEF Inv, OpenReconciled, AtHead
<1>3. TasksOK' /\ ShellOK'
  BY <1>1, GoesOn DEF OpenReconciled, Running
<1> QED
  BY <1>2, <1>3, OperationInv DEF OpenReconciled

LEMMA HydratedInv ==
    ASSUME Inv, NEW h \in Handler, Hydrated(h)
    PROVE  Inv'
<1> DEFINE sid == task[h].sid
<1>1. AtHead(h)
  BY RunningAtHead DEF Inv, Hydrated, At, Running
<1>2. /\ UNCHANGED <<roomVars, mapVars, controlVars, emits, handle, leaving, chain>>
      /\ UNCHANGED flagVars
  BY DEF Hydrated
<1>3. FlagsOK'
  BY <1>2 DEF Inv, FlagsOK, flagVars
<1>4. \/ sid \in handle /\ open' = open \cup {sid} /\ Goto(h, "starting")
      \/ UNCHANGED open /\ Goto(h, "opening")
  BY DEF Hydrated
<1>5. TasksOK'
  BY <1>1, <1>2, <1>4, SameMap, GotoStep DEF Inv, Running
<1>6. ShellOK'
  <2>1. CASE sid \in handle /\ open' = open \cup {sid}
    BY <1>1, <1>2, <2>1, ShellStep DEF Inv, ShellOK, AtHead
  <2>2. CASE UNCHANGED open
    BY <1>2, <2>2, ShellKept DEF Inv, shellVars
  <2> QED
    BY <1>4, <2>1, <2>2
<1> QED
  BY <1>2, <1>3, <1>5, <1>6, OperationInv

LEMMA OpenedInv ==
    ASSUME Inv, NEW h \in Handler, Opened(h)
    PROVE  Inv'
<1> DEFINE sid == task[h].sid
<1>1. AtHead(h)
  BY RunningAtHead DEF Inv, Opened, At, Running
<1>2. /\ UNCHANGED <<roomVars, mapVars, controlVars, emits, leaving, chain, flagVars>>
      /\ handle' = handle \cup {sid} /\ open' = open \cup {sid} /\ Goto(h, "starting")
  BY DEF Opened
<1>3. FlagsOK'
  BY <1>2 DEF Inv, FlagsOK, flagVars
<1>4. TasksOK'
  BY <1>1, <1>2, SameMap, GotoStep DEF Inv, Running
<1>5. ShellOK'
  BY <1>1, <1>2, ShellStep DEF Inv, ShellOK, AtHead
<1> QED
  BY <1>2, <1>3, <1>4, <1>5, OperationInv

LEMMA StartedInv ==
    ASSUME Inv, NEW h \in Handler, Started(h)
    PROVE  Inv'
<1>1. AtHead(h)
  BY RunningAtHead DEF Inv, Started, At, Running
<1>2. FlagsOK'
  <2>1. held' = [held EXCEPT ![task[h].sid] = @ + 1]
    BY DEF Started
  <2>2. held' \in [Session -> Int]
    BY <1>1, <2>1 DEF Inv, FlagsOK, AtHead
  <2>3. failed' \in BOOLEAN /\ early' \in BOOLEAN
    BY DEF Started, Inv, FlagsOK
  <2> QED
    BY <2>2, <2>3 DEF FlagsOK
<1>3. TasksOK' /\ ShellOK' /\ (Ensure \/ UNCHANGED mapVars)
  BY <1>1, Ends DEF Started, shellVars
<1> QED
  BY <1>2, <1>3, OperationInv DEF Started

LEMMA WrittenInv ==
    ASSUME Inv, NEW h \in Handler, Written(h)
    PROVE  Inv'
<1>1. AtHead(h)
  BY RunningAtHead DEF Inv, Written, At, Running
<1>2. FlagsOK'
  BY DEF Inv, FlagsOK, Written, flagVars
<1>3. TasksOK' /\ ShellOK' /\ (Ensure \/ UNCHANGED mapVars)
  BY <1>1, Ends DEF Written, shellVars
<1> QED
  BY <1>2, <1>3, OperationInv DEF Written

\* However an operation fails.
LEMMA FailsInv ==
    ASSUME Inv, NEW h \in Handler, OpenFails(h) \/ WriteFails(h) \/ CloseFails(h)
    PROVE  Inv'
<1>1. AtHead(h)
  BY RunningAtHead DEF Inv, OpenFails, WriteFails, CloseFails, At, Running
<1>2. UNCHANGED <<roomVars, controlVars, held, early>> /\ failed' \in BOOLEAN
  <2>1. CASE OpenFails(h)
    <3>1. failed' = (failed \/ At(h, "starting"))
      BY <2>1 DEF OpenFails
    <3>2. failed' \in BOOLEAN
      BY <3>1, Zenon
    <3> QED
      BY <2>1, <3>2 DEF OpenFails
  <2>2. CASE WriteFails(h) \/ CloseFails(h)
    BY <2>2 DEF Inv, FlagsOK, WriteFails, CloseFails, flagVars
  <2> QED
    BY <2>1, <2>2
<1>3. FlagsOK'
  BY <1>2 DEF Inv, FlagsOK
<1>4. PICK shells \in {handle, handle \ {task[h].sid}} : Fail(h, shells)
  BY DEF OpenFails, WriteFails, CloseFails
<1>5. ShellOK' /\ TasksOK' /\ UNCHANGED mapVars
  BY <1>1, <1>4, FailStep
<1> QED
  BY <1>2, <1>3, <1>5, OperationInv

LEMMA InputStartInv ==
    ASSUME Inv, NEW h \in Handler, InputStart(h)
    PROVE  Inv'
<1>1. AtHead(h)
  BY RunningAtHead DEF Inv, InputStart, Starts
<1>2. FlagsOK' /\ UNCHANGED <<roomVars, controlVars>>
  BY DEF Inv, FlagsOK, InputStart, flagVars
<1>3. CASE Goto(h, "writing") /\ UNCHANGED <<mapVars, shellVars, chain>>
  BY <1>1, <1>2, <1>3, GoesOn, OperationInv DEF Running
<1>4. CASE Fail(h, handle)
  BY <1>1, <1>2, <1>4, FailStep, OperationInv
<1> QED
  BY <1>3, <1>4 DEF InputStart

LEMMA CloseStartInv ==
    ASSUME Inv, NEW h \in Handler, CloseStart(h)
    PROVE  Inv'
<1>1. AtHead(h)
  BY RunningAtHead DEF Inv, CloseStart, Starts
<1>2. FlagsOK' /\ UNCHANGED <<roomVars, controlVars, handle, leaving>>
  BY DEF Inv, FlagsOK, CloseStart, flagVars
<1>3. CASE Reconcile(h)
  BY <1>1, <1>2, <1>3, ReconcileStep, OperationInv
<1>4. CASE emits' = emits \ {task[h].sid} /\ Succeed(h) /\ UNCHANGED open
  BY <1>1, <1>2, <1>4, Ends, OperationInv
<1>5. CASE Goto(h, "closing") /\ UNCHANGED <<mapVars, chain, open, emits>>
  BY <1>1, <1>2, <1>5, GoesOn, OperationInv DEF Running, shellVars
<1> QED
  BY <1>3, <1>4, <1>5 DEF CloseStart

LEMMA CloseReconciledInv ==
    ASSUME Inv, NEW h \in Handler, CloseReconciled(h)
    PROVE  Inv'
<1>1. AtHead(h)
  BY RunningAtHead DEF Inv, CloseReconciled, At, Running
<1>2. FlagsOK'
  BY <1>1, HookFlags DEF Inv, CloseReconciled, AtHead
<1>3. TasksOK' /\ ShellOK' /\ (Ensure \/ UNCHANGED mapVars)
  BY <1>1, Ends DEF CloseReconciled
<1> QED
  BY <1>2, <1>3, OperationInv DEF CloseReconciled

LEMMA ClosedInv ==
    ASSUME Inv, NEW h \in Handler, Closed(h)
    PROVE  Inv'
<1> DEFINE sid == task[h].sid
<1>1. AtHead(h)
  BY RunningAtHead DEF Inv, Closed, At, Running
<1>2. /\ UNCHANGED <<roomVars, mapVars, controlVars, leaving, chain, flagVars>>
      /\ handle' = handle \ {sid} /\ open' = open \ {sid} /\ emits' = emits \ {sid}
      /\ Goto(h, "hooking")
  BY DEF Closed, MarkClosed
<1>3. FlagsOK'
  BY <1>2 DEF Inv, FlagsOK, flagVars
<1>4. TasksOK'
  BY <1>1, <1>2, SameMap, GotoStep DEF Inv, Running
<1>5. ShellOK'
  BY <1>1, <1>2, ShellStep DEF Inv, ShellOK, AtHead
<1> QED
  BY <1>2, <1>3, <1>4, <1>5, OperationInv

LEMMA CloseHookedInv ==
    ASSUME Inv, NEW h \in Handler, CloseHooked(h)
    PROVE  Inv'
<1>1. AtHead(h)
  BY RunningAtHead DEF Inv, CloseHooked, At, Running
<1>2. FlagsOK'
  BY <1>1, HookFlags DEF Inv, CloseHooked, AtHead
<1>3. TasksOK' /\ ShellOK' /\ (Ensure \/ UNCHANGED mapVars)
  BY <1>1, Ends DEF CloseHooked, shellVars
<1> QED
  BY <1>2, <1>3, OperationInv DEF CloseHooked

LEMMA FailingHookedInv ==
    ASSUME Inv, NEW h \in Handler, FailingHooked(h)
    PROVE  Inv'
<1>1. task[h].sid \in Session
  BY DEF Inv, TasksOK, TaskOK, FailingHooked, At
<1>2. FlagsOK'
  BY <1>1, HookFlags DEF Inv, FailingHooked
<1>3. UNCHANGED mapVars /\ UNCHANGED <<roomVars, controlVars, shellVars, chain>> /\ End(h)
  BY DEF FailingHooked
<1>4. TasksOK'
  BY <1>3, SameMap, EndStep DEF Inv
<1>5. ShellOK'
  BY <1>3, ShellKept DEF Inv
<1> QED
  BY <1>2, <1>3, <1>4, <1>5, OperationInv

\* What is left of a session that its owner left: it is not the one in the map.
LEMMA LeftInv ==
    ASSUME Inv, NEW sid \in Session, LeftClosed(sid) \/ LeftHooked(sid)
    PROVE  Inv'
<1>1. /\ UNCHANGED <<roomVars, mapVars, controlVars, open, emits, chain, task>>
      /\ handle' = handle \ {sid} /\ leaving[sid] \in {"closing", "hooking"}
      /\ \E stage \in {"hooking", "left"} : leaving' = [leaving EXCEPT ![sid] = stage]
  BY DEF LeftClosed, LeftHooked
<1>2. sid <= made /\ sid # current
  BY <1>1, TerminalAssumption
  DEF Inv, ShellOK, MapOK, Session, None, TerminalAssumption
<1>3. UNCHANGED <<current, made>>
  BY <1>1 DEF mapVars
<1>4. FlagsOK'
  <2>1. CASE LeftClosed(sid)
    BY <2>1 DEF Inv, FlagsOK, LeftClosed, flagVars
  <2>2. CASE LeftHooked(sid)
    BY <2>2, HookFlags DEF Inv, LeftHooked
  <2> QED
    BY <2>1, <2>2
<1>5. TasksOK'
  BY <1>1, SameMap, TasksKept DEF Inv
<1>6. ShellOK'
  <2>1. /\ handle' \subseteq Session
        /\ leaving' \in [Session -> {"no", "closing", "hooking", "left"}]
        /\ \A x \in Session : x # sid =>
              leaving'[x] = leaving[x] /\ (x \in handle' <=> x \in handle)
    BY <1>1 DEF Inv, ShellOK
  <2>2. \A x \in Session : x > made =>
           leaving'[x] = "no" /\ x \notin open /\ x \notin handle'
    <3>1. \A x \in Session : x > made => x # sid
      BY <1>2, TerminalAssumption DEF Inv, MapOK, Session, TerminalAssumption
    <3> QED
      BY <2>1, <3>1 DEF Inv, ShellOK
  <2>3. current # None => current \in Session
    BY CurrentMade
  <2>4. /\ current # None => leaving'[current] = "no"
        /\ current # None => (current \in open <=> current \in handle')
    BY <1>2, <2>1, <2>3 DEF Inv, ShellOK, StateTracksShell
  <2> QED
    BY <1>1, <1>3, <2>1, <2>2, <2>4
    DEF Inv, ShellOK, StateTracksShell, SilentAfterLeave
<1> QED
  BY <1>1, <1>4, <1>5, <1>6, OperationInv

-----------------------------------------------------------------------------
(* How often the live sync is held for a session                           *)

\* Unless a hook failed, or an owner left while operations were pending, a session
\* holds the live sync once if it is open, once for each hook that is still to give
\* it up, and not yet for an open that is about to start it.
In(x, S) == IF x \in S THEN 1 ELSE 0

HookStages == {"failing", "reconciling", "hooking"}
Hooks(sid) == {h \in Handler : task[h].sid = sid /\ task[h].pc \in HookStages}
Starting(sid) == {h \in Handler : task[h].sid = sid /\ task[h].pc = "starting"}

Balanced ==
    \A sid \in Session :
        held[sid] + Cardinality(Starting(sid)) =
            In(sid, open) + Cardinality(Hooks(sid))
              + In(leaving[sid], {"closing", "hooking"})

\* What an operation found of the shell is still so, as only it may change that.
Aligned(t, shells) ==
    /\ t.pc \in {"reconciling", "hydrating", "opening"} => t.sid \notin shells
    /\ t.pc = "closing" => t.sid \in shells

WatchInv ==
    ~failed /\ ~early => Balanced /\ \A h \in Handler : Aligned(task[h], open)

\* What a task adds to the hooks of a session that are still to come, and what it
\* takes from them.
Owes(t, sid) == IF t.sid = sid THEN In(t.pc, HookStages) ELSE 0
Owed(t, sid) == IF t.sid = sid THEN In(t.pc, {"starting"}) ELSE 0

\* Two sets that differ at most in x.
LEMMA CountMoves ==
    ASSUME NEW S, IsFiniteSet(S), NEW T, NEW x, T \ {x} = S \ {x}
    PROVE  /\ IsFiniteSet(T)
           /\ Cardinality(S) \in Nat /\ Cardinality(T) \in Nat
           /\ Cardinality(T) - In(x, T) = Cardinality(S) - In(x, S)
<1> DEFINE R == S \ {x}
<1>1. IsFiniteSet(R) /\ Cardinality(R) \in Nat /\ x \notin R
  BY FS_RemoveElement, FS_CardinalityType
<1>2. (S = R \/ S = R \cup {x}) /\ (T = R \/ T = R \cup {x})
  OBVIOUS
<1>3. IsFiniteSet(R \cup {x}) /\ Cardinality(R \cup {x}) = Cardinality(R) + 1
  BY <1>1, FS_AddElement
<1>4. Cardinality(S) = Cardinality(R) + In(x, S)
  BY <1>1, <1>2, <1>3 DEF In
<1> HIDE DEF R
<1>5. IsFiniteSet(T) /\ Cardinality(T) = Cardinality(R) + In(x, T)
  <2>1. CASE T = R
    BY <1>1, <2>1 DEF In
  <2>2. CASE T = R \cup {x}
    BY <1>3, <2>2 DEF In
  <2> QED
    BY <1>2, <2>1, <2>2
<1>6. In(x, S) \in Nat /\ In(x, T) \in Nat
  BY DEF In
<1> QED
  BY <1>1, <1>4, <1>5, <1>6

LEMMA HooksFinite ==
    ASSUME NEW sid
    PROVE  IsFiniteSet(Hooks(sid)) /\ IsFiniteSet(Starting(sid))
<1>1. IsFiniteSet(Handler) /\ Hooks(sid) \subseteq Handler /\ Starting(sid) \subseteq Handler
  BY TerminalAssumption DEF TerminalAssumption, Hooks, Starting
<1> QED
  BY <1>1, FS_Subset

\* In handler goes on: what is held and what is open follow its task.
LEMMA BalanceStep ==
    ASSUME FlagsOK, FlagsOK', TasksOK, TasksOK', Balanced, NEW h \in Handler,
           \A g \in Handler : g # h => task'[g] = task[g], UNCHANGED leaving,
           \A sid \in Session :
              held'[sid] + Owed(task'[h], sid) - Owes(task'[h], sid) - In(sid, open')
              = held[sid] + Owed(task[h], sid) - Owes(task[h], sid) - In(sid, open)
    PROVE  Balanced'
<1> SUFFICES ASSUME NEW sid \in Session
             PROVE  held'[sid] + Cardinality(Starting(sid)') =
                       In(sid, open') + Cardinality(Hooks(sid)')
                         + In(leaving'[sid], {"closing", "hooking"})
  BY DEF Balanced
<1>1. Hooks(sid)' \ {h} = Hooks(sid) \ {h} /\ Starting(sid)' \ {h} = Starting(sid) \ {h}
  BY DEF Hooks, Starting
<1>2. /\ In(h, Hooks(sid)') = Owes(task'[h], sid)
      /\ In(h, Hooks(sid)) = Owes(task[h], sid)
      /\ In(h, Starting(sid)') = Owed(task'[h], sid)
      /\ In(h, Starting(sid)) = Owed(task[h], sid)
  BY DEF Hooks, Starting, Owes, Owed, In
<1>3. /\ Cardinality(Hooks(sid)) \in Nat /\ Cardinality(Hooks(sid)') \in Nat
      /\ Cardinality(Hooks(sid)') - Owes(task'[h], sid)
         = Cardinality(Hooks(sid)) - Owes(task[h], sid)
  BY <1>1, <1>2, HooksFinite, CountMoves
<1>4. /\ Cardinality(Starting(sid)) \in Nat /\ Cardinality(Starting(sid)') \in Nat
      /\ Cardinality(Starting(sid)') - Owed(task'[h], sid)
         = Cardinality(Starting(sid)) - Owed(task[h], sid)
  BY <1>1, <1>2, HooksFinite, CountMoves
<1>5. /\ Owes(task'[h], sid) \in Nat /\ Owes(task[h], sid) \in Nat
      /\ Owed(task'[h], sid) \in Nat /\ Owed(task[h], sid) \in Nat
      /\ In(sid, open) \in Nat /\ In(sid, open') \in Nat
      /\ In(leaving[sid], {"closing", "hooking"}) \in Nat
  BY DEF Owes, Owed, In
<1>6. held[sid] \in Int /\ held'[sid] \in Int
  BY DEF FlagsOK
<1>7. held[sid] + Cardinality(Starting(sid)) =
         In(sid, open) + Cardinality(Hooks(sid))
           + In(leaving[sid], {"closing", "hooking"})
  BY DEF Balanced
<1>8. held'[sid] + Owed(task'[h], sid) - Owes(task'[h], sid) - In(sid, open')
      = held[sid] + Owed(task[h], sid) - Owes(task[h], sid) - In(sid, open)
  OBVIOUS
<1>9. In(leaving'[sid], {"closing", "hooking"}) = In(leaving[sid], {"closing", "hooking"})
  OBVIOUS
<1>10. held'[sid] + Cardinality(Starting(sid)') - Owes(task'[h], sid) - In(sid, open')
       = held[sid] + Cardinality(Starting(sid)) - Owes(task[h], sid) - In(sid, open)
  BY <1>4, <1>5, <1>6, <1>8
<1>11. held'[sid] + Cardinality(Starting(sid)') - Cardinality(Hooks(sid)') - In(sid, open')
       = held[sid] + Cardinality(Starting(sid)) - Cardinality(Hooks(sid)) - In(sid, open)
  BY <1>3, <1>4, <1>5, <1>6, <1>10
<1> QED
  BY <1>3, <1>4, <1>5, <1>6, <1>7, <1>9, <1>11

LEMMA GotoTask ==
    ASSUME TasksOK, NEW h \in Handler, NEW at, Goto(h, at)
    PROVE  /\ task'[h].pc = at /\ task'[h].sid = task[h].sid
           /\ \A g \in Handler : g # h => task'[g] = task[g]
BY DEF TasksOK, Goto, Task

LEMMA EndTask ==
    ASSUME TasksOK, NEW h \in Handler, End(h)
    PROVE  /\ task'[h].pc = "idle" /\ task'[h].sid = None
           /\ \A g \in Handler : g # h => task'[g] = task[g]
BY IdleTask DEF TasksOK, End

\* The operation of another handler runs in another session.
LEMMA AlignedStep ==
    ASSUME Inv, NEW h \in Handler, AtHead(h), \A g \in Handler : Aligned(task[g], open),
           \A g \in Handler : g # h => task'[g] = task[g], Aligned(task'[h], open'),
           \A sid \in Session : sid # task[h].sid => (sid \in open' <=> sid \in open)
    PROVE  \A g \in Handler : Aligned(task'[g], open')
<1> SUFFICES ASSUME NEW g \in Handler, g # h,
                    task[g].pc \in {"reconciling", "hydrating", "opening", "closing"}
             PROVE  Aligned(task[g], open')
  BY DEF Aligned
<1>1. TaskOK(task[g], g, chain) /\ task[g].pc \in Running
  BY DEF Inv, TasksOK, Running
<1>2. task[g].sid \in Session /\ task[g].sid # task[h].sid
  BY <1>1 DEF TaskOK, AtHead
<1>3. task[g].sid \in open' <=> task[g].sid \in open
  BY <1>2
<1>4. Aligned(task[g], open)
  OBVIOUS
<1> QED
  BY <1>3, <1>4 DEF Aligned

\* A handler goes on that is to stop or to start no live sync, before and after.
LEMMA NeutralStep ==
    ASSUME Inv, Inv', WatchInv, NEW h \in Handler,
           \A g \in Handler : g # h => task'[g] = task[g],
           UNCHANGED <<open, leaving, held, failed, early>>,
           task[h].pc \notin HookStages \cup {"starting"},
           task'[h].pc \notin HookStages \cup {"starting"},
           ~failed /\ ~early => Aligned(task'[h], open)
    PROVE  WatchInv'
<1> SUFFICES ASSUME ~failed, ~early
             PROVE  (Balanced /\ \A g \in Handler : Aligned(task[g], open))'
  BY DEF WatchInv
<1>1. Balanced /\ \A g \in Handler : Aligned(task[g], open)
  BY DEF WatchInv
<1>2. \A sid \in Session : /\ Owes(task[h], sid) = 0 /\ Owes(task'[h], sid) = 0
                           /\ Owed(task[h], sid) = 0 /\ Owed(task'[h], sid) = 0
  BY DEF Owes, Owed, In
<1>3. Balanced'
  BY <1>1, <1>2, BalanceStep DEF Inv
<1>4. ASSUME NEW g \in Handler PROVE Aligned(task'[g], open')
  <2>1. CASE g = h
    BY <2>1
  <2>2. CASE g # h
    BY <1>1, <2>2
  <2> QED
    BY <2>1, <2>2
<1> QED
  BY <1>3, <1>4

\* A handler goes on whose hooks, and those of its session, are what they were.
LEMMA SessionStep ==
    ASSUME Inv, Inv', WatchInv, NEW h \in Handler,
           NEW s \in Session, s = task[h].sid, AtHead(h) \/ open' = open,
           \A g \in Handler : g # h => task'[g] = task[g], UNCHANGED <<leaving, early>>,
           failed => failed',
           task'[h].sid = s \/ task'[h].sid = None,
           \A sid \in Session : sid # s =>
              (sid \in open' <=> sid \in open) /\ held'[sid] = held[sid],
           ~failed' /\ ~early =>
              /\ Aligned(task'[h], open')
              /\ held'[s] + Owed(task'[h], s) - Owes(task'[h], s) - In(s, open')
                 = held[s] + Owed(task[h], s) - Owes(task[h], s) - In(s, open)
    PROVE  WatchInv'
<1> SUFFICES ASSUME ~failed', ~early
             PROVE  (Balanced /\ \A g \in Handler : Aligned(task[g], open))'
  BY DEF WatchInv
<1>1. Balanced /\ \A g \in Handler : Aligned(task[g], open)
  BY DEF WatchInv
<1>2. ASSUME NEW sid \in Session
      PROVE held'[sid] + Owed(task'[h], sid) - Owes(task'[h], sid) - In(sid, open')
            = held[sid] + Owed(task[h], sid) - Owes(task[h], sid) - In(sid, open)
  <2>1. CASE sid = s
    BY <2>1
  <2>2. CASE sid # s
    <3>1. sid # None
      BY DEF Session, None
    <3>2. /\ Owes(task[h], sid) = 0 /\ Owes(task'[h], sid) = 0
          /\ Owed(task[h], sid) = 0 /\ Owed(task'[h], sid) = 0
      BY <2>2, <3>1 DEF Owes, Owed, In
    <3>3. In(sid, open') = In(sid, open) /\ held'[sid] = held[sid]
      BY <2>2 DEF In
    <3> QED
      BY <3>2, <3>3
  <2> QED
    BY <2>1, <2>2
<1>3. Balanced'
  BY <1>1, <1>2, BalanceStep DEF Inv
<1>4. \A g \in Handler : Aligned(task'[g], open')
  <2>1. CASE AtHead(h)
    BY <1>1, <2>1, AlignedStep
  <2>2. CASE open' = open
    BY <1>1, <2>2
  <2> QED
    BY <2>1, <2>2
<1> QED
  BY <1>3, <1>4

\* Nothing moves that the balance is about.
LEMMA WatchKept ==
    ASSUME WatchInv, UNCHANGED <<open, leaving, held, failed, early, task>>
    PROVE  WatchInv'
BY DEF WatchInv, Balanced, Hooks, Starting, Aligned

\* An owner who leaves with no operation pending owes one hook, if the session was
\* open; one who leaves with operations pending is what `early' records.
LEMMA LeaveWatch ==
    ASSUME Inv, Inv', WatchInv, NEW s \in Socket, LeaveProject(s) \/ Disconnect(s)
    PROVE  WatchInv'
<1>1. UNCHANGED <<made, chain, task, held, failed>>
  BY DEF LeaveProject, Disconnect
<1>2. CASE UNCHANGED <<current, shellVars, early>>
  BY <1>1, <1>2, WatchKept DEF shellVars
<1>3. CASE ~UNCHANGED <<current, shellVars, early>>
  <2>1. current # None /\ Abandon
    BY <1>3 DEF LeaveProject, Disconnect, MarkLeft, Abandon
  <2>2. /\ open' = open \ {current}
        /\ leaving' = [leaving EXCEPT ![current] =
                          IF current \in open THEN "closing" ELSE "left"]
        /\ early' = (early \/ chain[current] # <<>>)
    BY <2>1 DEF Abandon
  <2>3. current \in Session /\ leaving[current] = "no"
    BY <2>1, CurrentMade DEF Inv, ShellOK
  <2>4. leaving \in [Session -> {"no", "closing", "hooking", "left"}]
    BY DEF Inv, ShellOK
  <2> SUFFICES ASSUME ~failed, ~early, chain[current] = <<>>
               PROVE  (Balanced /\ \A h \in Handler : Aligned(task[h], open))'
    BY <1>1, <2>2 DEF WatchInv
  <2>5. Balanced /\ \A h \in Handler : Aligned(task[h], open)
    BY DEF WatchInv
  <2>6. ASSUME NEW sid \in Session
        PROVE  In(sid, open') + In(leaving'[sid], {"closing", "hooking"})
               = In(sid, open) + In(leaving[sid], {"closing", "hooking"})
    <3>1. CASE sid = current /\ sid \in open
      BY <2>2, <2>3, <2>4, <3>1 DEF In
    <3>2. CASE sid = current /\ sid \notin open
      BY <2>2, <2>3, <2>4, <3>2 DEF In
    <3>3. CASE sid # current
      BY <2>2, <2>4, <3>3 DEF In
    <3> QED
      BY <3>1, <3>2, <3>3
  <2>7. Balanced'
    <3> SUFFICES ASSUME NEW sid \in Session
                 PROVE  held[sid] + Cardinality(Starting(sid)) =
                           In(sid, open') + Cardinality(Hooks(sid))
                             + In(leaving'[sid], {"closing", "hooking"})
      BY <1>1 DEF Balanced, Hooks, Starting
    <3>1. Cardinality(Hooks(sid)) \in Nat /\ Cardinality(Starting(sid)) \in Nat
      BY HooksFinite, FS_CardinalityType
    <3>2. /\ In(sid, open) \in Nat /\ In(sid, open') \in Nat
          /\ In(leaving[sid], {"closing", "hooking"}) \in Nat
          /\ In(leaving'[sid], {"closing", "hooking"}) \in Nat
      BY DEF In
    <3>3. held[sid] + Cardinality(Starting(sid)) =
             In(sid, open) + Cardinality(Hooks(sid))
               + In(leaving[sid], {"closing", "hooking"})
      BY <2>5 DEF Balanced
    <3>4. held[sid] \in Int
      BY DEF Inv, FlagsOK
    <3>5. In(sid, open') + In(leaving'[sid], {"closing", "hooking"})
          = In(sid, open) + In(leaving[sid], {"closing", "hooking"})
      BY <2>6
    <3>6. \A d, a, n, w, l, i, m \in Int :
             d + a = w + n + l /\ i + m = w + l => d + a = i + n + m
      OBVIOUS
    <3> QED
      BY <3>1, <3>2, <3>3, <3>4, <3>5, <3>6
  <2>8. ASSUME NEW h \in Handler PROVE Aligned(task[h], open')
    <3>1. CASE task[h].pc = "closing"
      <4>1. task[h].sid # current
        BY <3>1 DEF Inv, TasksOK, TaskOK, Running
      <4> QED
        BY <2>2, <2>5, <3>1, <4>1 DEF Aligned
    <3>2. CASE task[h].pc # "closing"
      BY <2>2, <2>5, <3>2 DEF Aligned
    <3> QED
      BY <3>1, <3>2
  <2> QED
    BY <1>1, <2>7, <2>8
<1> QED
  BY <1>2, <1>3

\* What is left of a session gives up the live sync once, when its hook ends.
LEMMA LeftWatch ==
    ASSUME Inv, Inv', WatchInv, NEW sid \in Session, LeftClosed(sid) \/ LeftHooked(sid)
    PROVE  WatchInv'
<1> SUFFICES ASSUME ~failed', ~early
             PROVE  (Balanced /\ \A h \in Handler : Aligned(task[h], open))'
  BY DEF WatchInv, LeftClosed, LeftHooked, flagVars
<1>1. UNCHANGED <<open, task, early>> /\ ~failed
  BY DEF LeftClosed, LeftHooked, flagVars, HookEnds
<1>2. Balanced /\ \A h \in Handler : Aligned(task[h], open)
  BY <1>1 DEF WatchInv
<1>3. leaving \in [Session -> {"no", "closing", "hooking", "left"}]
      /\ held \in [Session -> Int]
  BY DEF Inv, ShellOK, FlagsOK
<1>4. ASSUME NEW x \in Session
      PROVE  held'[x] - In(leaving'[x], {"closing", "hooking"})
             = held[x] - In(leaving[x], {"closing", "hooking"})
  <2>1. CASE LeftClosed(sid)
    <3>1. /\ leaving' = [leaving EXCEPT ![sid] = "hooking"] /\ held' = held
          /\ leaving[sid] = "closing"
      BY <2>1 DEF LeftClosed, flagVars
    <3> QED
      BY <1>3, <3>1 DEF In
  <2>2. CASE LeftHooked(sid)
    <3>1. /\ leaving' = [leaving EXCEPT ![sid] = "left"]
          /\ held' = [held EXCEPT ![sid] = @ - 1] /\ leaving[sid] = "hooking"
      BY <2>2 DEF LeftHooked, HookEnds
    <3> QED
      BY <1>3, <3>1 DEF In
  <2> QED
    BY <2>1, <2>2
<1>5. Balanced'
  <2> SUFFICES ASSUME NEW x \in Session
               PROVE  held'[x] + Cardinality(Starting(x)) =
                         In(x, open) + Cardinality(Hooks(x))
                           + In(leaving'[x], {"closing", "hooking"})
    BY <1>1 DEF Balanced, Hooks, Starting
  <2>1. Cardinality(Hooks(x)) \in Nat /\ Cardinality(Starting(x)) \in Nat
    BY HooksFinite, FS_CardinalityType
  <2>2. /\ In(x, open) \in Nat
        /\ In(leaving[x], {"closing", "hooking"}) \in Nat
        /\ In(leaving'[x], {"closing", "hooking"}) \in Nat
    BY DEF In
  <2>3. held[x] + Cardinality(Starting(x)) =
           In(x, open) + Cardinality(Hooks(x))
             + In(leaving[x], {"closing", "hooking"})
    BY <1>2 DEF Balanced
  <2>4. held[x] \in Int /\ held'[x] \in Int
    BY DEF Inv, FlagsOK
  <2> QED
    BY <1>4, <2>1, <2>2, <2>3, <2>4
<1> QED
  BY <1>1, <1>2, <1>5

\* The live sync of a running operation's session: a hook ends, and was owed.
LEMMA HookWatch ==
    ASSUME Inv, Inv', WatchInv, NEW h \in Handler, NEW s \in Session, s = task[h].sid,
           task[h].pc \in HookStages, HookEnds(s), UNCHANGED <<open, leaving, early>>,
           \/ Goto(h, "hydrating") /\ task[h].pc = "reconciling"
           \/ End(h)
    PROVE  WatchInv'
<1>1. /\ \A g \in Handler : g # h => task'[g] = task[g]
      /\ task'[h].sid = s \/ task'[h].sid = None
      /\ \/ task'[h].pc = "idle"
         \/ task'[h].pc = "hydrating" /\ task[h].pc = "reconciling"
  <2>1. TasksOK
    BY DEF Inv
  <2>2. CASE Goto(h, "hydrating") /\ task[h].pc = "reconciling"
    BY <2>1, <2>2, GotoTask
  <2>3. CASE End(h)
    BY <2>1, <2>3, EndTask
  <2> QED
    BY <2>2, <2>3
<1>2. failed => failed'
  BY DEF HookEnds
<1>3. ~failed' => held' = [held EXCEPT ![s] = @ - 1]
  BY DEF HookEnds
<1>4. \A sid \in Session : sid # s =>
         (sid \in open' <=> sid \in open) /\ held'[sid] = held[sid]
  BY DEF HookEnds, Inv, FlagsOK
<1>5. ASSUME ~failed', ~early
      PROVE  /\ Aligned(task'[h], open')
             /\ held'[s] + Owed(task'[h], s) - Owes(task'[h], s) - In(s, open')
                = held[s] + Owed(task[h], s) - Owes(task[h], s) - In(s, open)
  <2>1. held[s] \in Int /\ held'[s] = held[s] - 1
    BY <1>3, <1>5 DEF Inv, FlagsOK
  <2>2. /\ Owes(task[h], s) = 1 /\ Owed(task[h], s) = 0
        /\ Owes(task'[h], s) = 0 /\ Owed(task'[h], s) = 0
    BY <1>1 DEF Owes, Owed, In, HookStages
  <2>3. In(s, open) \in Nat
    BY DEF In
  <2>4. Aligned(task[h], open)
    BY <1>2, <1>5 DEF WatchInv
  <2>5. Aligned(task'[h], open')
    BY <1>1, <2>4, GotoTask, EndTask DEF Aligned, Inv, None, Session
  <2> QED
    BY <2>1, <2>2, <2>3, <2>5
<1> QED
  BY <1>1, <1>2, <1>4, <1>5, SessionStep

LEMMA NeutralPcs ==
    {"idle", "authorizing", "queued", "hydrating", "opening", "writing", "closing"}
       \cap (HookStages \cup {"starting"}) = {}
BY DEF HookStages

\* Beginnings, answers and ends of operations that no hook belongs to.
LEMMA ArrivedWatch ==
    ASSUME Inv, Inv', WatchInv, NEW h \in Handler,
           \/ Denied(h) \/ JoinTerminal(h) \/ Accept(h)
           \/ \E mayUse \in BOOLEAN : JoinProject(h, mayUse)
           \/ \E s \in Socket, kind \in Event : Begin(h, s, kind)
    PROVE  WatchInv'
<1>1. UNCHANGED <<open, leaving, held, failed, early>>
  BY DEF Denied, JoinTerminal, Accept, JoinProject, Begin, shellVars, flagVars
<1>2. task[h].pc \in {"idle", "authorizing"}
  BY DEF Denied, JoinTerminal, Accept, JoinProject, Begin, At
<1>3. /\ \A g \in Handler : g # h => task'[g] = task[g]
      /\ task'[h].pc \in {"idle", "authorizing", "queued"}
  <2>1. TasksOK
    BY DEF Inv
  <2>2. CASE End(h)
    BY <2>1, <2>2, EndTask
  <2>3. CASE task' = [task EXCEPT ![h].pc = "queued", ![h].sid = Here]
    BY <2>1, <2>3 DEF TasksOK, Task
  <2>4. CASE \E s \in Socket, kind \in Event : Begin(h, s, kind)
    BY <2>1, <2>4 DEF TasksOK, Task, Begin
  <2> QED
    BY <2>2, <2>3, <2>4 DEF Denied, JoinTerminal, Accept, JoinProject
<1>4. Aligned(task'[h], open)
  BY <1>3 DEF Aligned
<1> QED
  BY <1>1, <1>2, <1>3, <1>4, NeutralPcs, NeutralStep

\* An operation ends, or goes on to a place where the session is as it found it.
LEMMA EndWatch ==
    ASSUME Inv, Inv', WatchInv, NEW h \in Handler, End(h),
           UNCHANGED <<open, leaving, held, failed, early>>,
           task[h].pc \notin HookStages \cup {"starting"}
    PROVE  WatchInv'
<1>1. task'[h].pc = "idle" /\ \A g \in Handler : g # h => task'[g] = task[g]
  BY EndTask DEF Inv
<1>2. Aligned(task'[h], open)
  BY <1>1 DEF Aligned
<1> QED
  BY <1>1, <1>2, NeutralPcs, NeutralStep

LEMMA GoesOnWatch ==
    ASSUME Inv, Inv', WatchInv, NEW h \in Handler,
           NEW at \in {"hydrating", "opening", "writing", "closing"}, Goto(h, at),
           UNCHANGED <<open, leaving, held, failed, early>>,
           task[h].pc \notin HookStages \cup {"starting"},
           at = "hydrating" => task[h].sid \notin open,
           at = "opening" => task[h].pc = "hydrating",
           at = "closing" => task[h].sid \in open
    PROVE  WatchInv'
<1>1. /\ task'[h].pc = at /\ task'[h].sid = task[h].sid
      /\ \A g \in Handler : g # h => task'[g] = task[g]
  BY GotoTask DEF Inv
<1>2. ~failed /\ ~early => Aligned(task'[h], open)
  BY <1>1 DEF Aligned, WatchInv
<1> QED
  BY <1>1, <1>2, NeutralPcs, NeutralStep

\* The shell is found gone, or closed: the hook that is owed is the one that follows.
LEMMA ClosingWatch ==
    ASSUME Inv, Inv', WatchInv, NEW h \in Handler, AtHead(h),
           NEW s \in Session, s = task[h].sid, ~failed /\ ~early => s \in open,
           open' = open \ {s}, UNCHANGED <<leaving, held, failed, early>>,
           NEW at \in HookStages, Goto(h, at),
           task[h].pc \notin HookStages \cup {"starting"}
    PROVE  WatchInv'
<1>1. /\ task'[h].pc = at /\ task'[h].sid = s
      /\ \A g \in Handler : g # h => task'[g] = task[g]
  BY GotoTask DEF Inv
<1>2. \A sid \in Session : sid # s =>
         (sid \in open' <=> sid \in open) /\ held'[sid] = held[sid]
  OBVIOUS
<1>3. Aligned(task'[h], open')
  BY <1>1 DEF Aligned, HookStages
<1>4. ASSUME ~failed', ~early
      PROVE  held'[s] + Owed(task'[h], s) - Owes(task'[h], s) - In(s, open')
             = held[s] + Owed(task[h], s) - Owes(task[h], s) - In(s, open)
  <2>1. In(s, open) = 1 /\ In(s, open') = 0
    BY <1>4 DEF In
  <2>2. /\ Owes(task[h], s) = 0 /\ Owed(task[h], s) = 0
        /\ Owes(task'[h], s) = 1 /\ Owed(task'[h], s) = 0
    BY <1>1 DEF Owes, Owed, In, HookStages
  <2>3. held[s] \in Int
    BY DEF Inv, FlagsOK
  <2> QED
    BY <2>1, <2>2, <2>3
<1> QED
  BY <1>1, <1>2, <1>3, <1>4, SessionStep

\* The session has a shell again: the live sync is still to be started.
LEMMA OpeningWatch ==
    ASSUME Inv, Inv', WatchInv, NEW h \in Handler, AtHead(h),
           NEW s \in Session, s = task[h].sid, open' = open \cup {s},
           UNCHANGED <<leaving, held, failed, early>>, Goto(h, "starting"),
           task[h].pc \in {"hydrating", "opening"}
    PROVE  WatchInv'
<1>1. /\ task'[h].pc = "starting" /\ task'[h].sid = s
      /\ \A g \in Handler : g # h => task'[g] = task[g]
  BY GotoTask DEF Inv
<1>2. \A sid \in Session : sid # s =>
         (sid \in open' <=> sid \in open) /\ held'[sid] = held[sid]
  OBVIOUS
<1>3. Aligned(task'[h], open')
  BY <1>1 DEF Aligned
<1>4. ASSUME ~failed', ~early
      PROVE  held'[s] + Owed(task'[h], s) - Owes(task'[h], s) - In(s, open')
             = held[s] + Owed(task[h], s) - Owes(task[h], s) - In(s, open)
  <2>1. s \notin open
    BY <1>4 DEF WatchInv, Aligned
  <2>2. In(s, open) = 0 /\ In(s, open') = 1
    BY <2>1 DEF In
  <2>3. /\ Owes(task[h], s) = 0 /\ Owed(task[h], s) = 0
        /\ Owes(task'[h], s) = 0 /\ Owed(task'[h], s) = 1
    BY <1>1 DEF Owes, Owed, In, HookStages
  <2>4. held[s] \in Int
    BY DEF Inv, FlagsOK
  <2> QED
    BY <2>2, <2>3, <2>4
<1> QED
  BY <1>1, <1>2, <1>3, <1>4, SessionStep

LEMMA StartedWatch ==
    ASSUME Inv, Inv', WatchInv, NEW h \in Handler, Started(h)
    PROVE  WatchInv'
<1> DEFINE s == task[h].sid
<1>1. AtHead(h)
  BY RunningAtHead DEF Inv, Started, At, Running
<1>2. /\ task[h].pc = "starting" /\ held' = [held EXCEPT ![s] = @ + 1]
      /\ UNCHANGED <<open, leaving, failed, early>>
  BY DEF Started, At, shellVars
<1>3. /\ task'[h].pc = "idle" /\ task'[h].sid = None
      /\ \A g \in Handler : g # h => task'[g] = task[g]
  BY EndTask DEF Inv, Started, Succeed
<1>4. s \in Session /\ s # None /\ held \in [Session -> Int]
  BY <1>1 DEF AtHead, Session, None, Inv, FlagsOK
<1>5. held'[s] = held[s] + 1 /\ held[s] \in Int
      /\ \A sid \in Session : sid # s => held'[sid] = held[sid]
  BY <1>2, <1>4
<1>6. /\ Owes(task[h], s) = 0 /\ Owed(task[h], s) = 1
      /\ Owes(task'[h], s) = 0 /\ Owed(task'[h], s) = 0
      /\ In(s, open) \in Nat
  BY <1>2, <1>3, <1>4 DEF Owes, Owed, In, HookStages
<1>7. Aligned(task'[h], open')
  BY <1>3 DEF Aligned
<1>8. held'[s] + Owed(task'[h], s) - Owes(task'[h], s) - In(s, open')
      = held[s] + Owed(task[h], s) - Owes(task[h], s) - In(s, open)
  BY <1>2, <1>5, <1>6
<1> HIDE DEF s
<1>9. s = task[h].sid
  BY DEF s
<1> QED
  BY <1>2, <1>3, <1>4, <1>5, <1>7, <1>8, <1>9, SessionStep

LEMMA FailWatch ==
    ASSUME Inv, Inv', WatchInv, NEW h \in Handler, AtHead(h), NEW shells,
           Fail(h, shells), UNCHANGED <<held, failed, early>>,
           task[h].pc \notin HookStages \cup {"starting"}
    PROVE  WatchInv'
<1> DEFINE s == task[h].sid
<1>1. s \in Session /\ UNCHANGED leaving
  BY DEF AtHead, Fail
<1>2. CASE Gone(s, shells)
  <2>1. s \in open /\ open' = open \ {s} /\ Goto(h, "failing")
    BY <1>2 DEF Fail, Gone, MarkClosed
  <2>2. "failing" \in HookStages
    BY DEF HookStages
  <2> QED
    BY <1>1, <2>1, <2>2, ClosingWatch
<1>3. CASE ~Gone(s, shells)
  <2>1. UNCHANGED open /\ End(h)
    BY <1>3 DEF Fail
  <2> QED
    BY <1>1, <2>1, EndWatch
<1> QED
  BY <1>2, <1>3

LEMMA FailsWatch ==
    ASSUME Inv, Inv', WatchInv, NEW h \in Handler,
           OpenFails(h) \/ WriteFails(h) \/ CloseFails(h)
    PROVE  WatchInv'
<1>1. AtHead(h)
  BY RunningAtHead DEF Inv, OpenFails, WriteFails, CloseFails, At, Running
<1>2. CASE OpenFails(h) /\ task[h].pc = "starting"
  BY <1>2 DEF OpenFails, At, WatchInv
<1>3. CASE ~(OpenFails(h) /\ task[h].pc = "starting")
  <2>1. task[h].pc \in {"hydrating", "opening", "writing", "closing"}
    BY <1>3 DEF OpenFails, WriteFails, CloseFails, At
  <2>2. UNCHANGED <<held, failed, early>>
    BY <1>3 DEF OpenFails, WriteFails, CloseFails, At, flagVars, FlagsOK, Inv
  <2>3. PICK shells \in {handle, handle \ {task[h].sid}} : Fail(h, shells)
    BY DEF OpenFails, WriteFails, CloseFails
  <2> QED
    BY <1>1, <2>1, <2>2, <2>3, NeutralPcs, FailWatch
<1> QED
  BY <1>2, <1>3

LEMMA StartWatch ==
    ASSUME Inv, Inv', WatchInv, NEW h \in Handler, h \in Ready, Start(h)
    PROVE  WatchInv'
<1> DEFINE s == task[h].sid
<1>1. AtHead(h) /\ s \in Session /\ task[h].pc = "queued"
  BY RunningAtHead DEF Inv, AtHead, Ready, At
<1>2. UNCHANGED <<leaving, held, failed, early>>
  BY DEF Start, OpenStart, InputStart, CloseStart, flagVars, shellVars, Fail
<1>3. task[h].pc \notin HookStages \cup {"starting"}
  BY <1>1, NeutralPcs
<1>4. CASE Reconcile(h)
  <2>1. s \in open /\ open' = open \ {s} /\ Goto(h, "reconciling")
    BY <1>4 DEF Reconcile, Gone, MarkClosed
  <2>2. "reconciling" \in HookStages
    BY DEF HookStages
  <2> QED
    BY <1>1, <1>2, <1>3, <2>1, <2>2, ClosingWatch
<1>5. CASE Succeed(h) /\ UNCHANGED open
  BY <1>2, <1>3, <1>5, EndWatch DEF Succeed
<1>6. CASE \/ s \notin open /\ Goto(h, "hydrating") /\ UNCHANGED open
           \/ Goto(h, "writing") /\ UNCHANGED open
           \/ s \in open /\ Goto(h, "closing") /\ UNCHANGED open
  BY <1>2, <1>3, <1>6, GoesOnWatch
<1>7. CASE Fail(h, handle)
  BY <1>1, <1>2, <1>3, <1>7, FailWatch
<1> QED
  BY <1>4, <1>5, <1>6, <1>7 DEF Start, OpenStart, InputStart, CloseStart, shellVars

LEMMA RunningWatch ==
    ASSUME Inv, Inv', WatchInv, NEW h \in Handler,
           \/ OpenReconciled(h) \/ Hydrated(h) \/ Opened(h) \/ Written(h)
           \/ CloseReconciled(h) \/ Closed(h) \/ CloseHooked(h) \/ FailingHooked(h)
    PROVE  WatchInv'
<1> DEFINE s == task[h].sid
<1>1. s \in Session
  BY DEF Inv, TasksOK, TaskOK, OpenReconciled, Hydrated, Opened, Written, CloseReconciled,
         Closed, CloseHooked, FailingHooked, At, Running
<1>2. CASE \/ OpenReconciled(h) \/ CloseReconciled(h) \/ CloseHooked(h)
           \/ FailingHooked(h)
  <2>1. /\ task[h].pc \in HookStages /\ HookEnds(s)
        /\ UNCHANGED <<open, leaving, early>>
        /\ \/ Goto(h, "hydrating") /\ task[h].pc = "reconciling"
           \/ End(h)
    BY <1>2 DEF OpenReconciled, CloseReconciled, CloseHooked, FailingHooked, At,
                HookStages, Succeed, shellVars
  <2> QED
    BY <1>1, <2>1, HookWatch
<1>3. CASE Hydrated(h) \/ Opened(h) \/ Written(h) \/ Closed(h)
  <2>1. /\ task[h].pc \in {"hydrating", "opening", "writing", "closing"}
        /\ UNCHANGED <<leaving, held, failed, early>>
    BY <1>3 DEF Hydrated, Opened, Written, Closed, At, flagVars, shellVars
  <2>2. AtHead(h) /\ task[h].pc \notin HookStages \cup {"starting"}
    BY <2>1, RunningAtHead, NeutralPcs DEF Inv, Running
  <2>3. CASE Goto(h, "starting") /\ open' = open \cup {s}
             /\ task[h].pc \in {"hydrating", "opening"}
    BY <1>1, <2>1, <2>2, <2>3, OpeningWatch
  <2>4. CASE task[h].pc = "hydrating" /\ Goto(h, "opening") /\ UNCHANGED open
    BY <2>1, <2>2, <2>4, GoesOnWatch
  <2>5. CASE End(h) /\ UNCHANGED open
    BY <2>1, <2>2, <2>5, EndWatch
  <2>6. CASE task[h].pc = "closing" /\ open' = open \ {s} /\ Goto(h, "hooking")
    <3>1. ~failed /\ ~early => s \in open
      BY <2>6 DEF WatchInv, Aligned
    <3>2. "hooking" \in HookStages
      BY DEF HookStages
    <3> QED
      BY <1>1, <2>1, <2>2, <2>6, <3>1, <3>2, ClosingWatch
  <2> QED
    BY <1>3, <2>3, <2>4, <2>5, <2>6
    DEF Hydrated, Opened, Written, Closed, At, Succeed, MarkClosed, shellVars
<1> QED
  BY <1>2, <1>3

-----------------------------------------------------------------------------
(* The specification                                                       *)

LEMMA InitInv == Init => Inv
<1> SUFFICES ASSUME Init PROVE Inv
  OBVIOUS
<1>1. /\ connected = Socket /\ joined = {} /\ inTerminal = {}
      /\ connections = [u \in Subject |-> 0] /\ current = None /\ made = 0
  BY DEF Init
<1>2. RoomOK /\ MapOK
  BY <1>1, TerminalAssumption DEF RoomOK, MapOK, None, TerminalAssumption
<1>3. ControlOK
  BY <1>1, TerminalAssumption
  DEF Init, ControlOK, ControlledByMembers, TerminalAssumption
<1>4. ShellOK
  BY <1>1 DEF Init, ShellOK, StateTracksShell, SilentAfterLeave
<1>5. TasksOK
  <2>1. chain = [sid \in Session |-> <<>>] /\ task = [h \in Handler |-> Idle]
    BY DEF Init
  <2>2. \A h \in Handler : TaskOK(Idle, h, chain) /\ Idle.sid <= made
    BY <1>1, IdleTask DEF TaskOK, Running, None
  <2> QED
    BY <2>1, <2>2, IdleTask DEF TasksOK
<1>6. FlagsOK
  <2>1. held \in [Session -> Int]
    BY DEF Init
  <2>2. failed = FALSE /\ early = FALSE
    BY DEF Init
  <2> QED
    BY <2>1, <2>2 DEF FlagsOK
<1> QED
  BY <1>2, <1>3, <1>4, <1>5, <1>6 DEF Inv

LEMMA StartInv ==
    ASSUME Inv, NEW h \in Handler, Start(h)
    PROVE  Inv'
BY OpenStartInv, InputStartInv, CloseStartInv DEF Start

LEMMA AnswerInv ==
    ASSUME Inv, NEW h \in Handler, Answer(h)
    PROVE  Inv'
<1>1. CASE Denied(h) \/ JoinTerminal(h) \/ Accept(h)
  BY <1>1, DeniedInv, JoinTerminalInv, AcceptInv
<1>2. CASE \E mayUse \in BOOLEAN : JoinProject(h, mayUse)
  BY <1>2, JoinProjectInv
<1>3. CASE \/ OpenReconciled(h) \/ Hydrated(h) \/ Opened(h) \/ Started(h)
           \/ OpenFails(h)
  BY <1>3, OpenReconciledInv, HydratedInv, OpenedInv, StartedInv, FailsInv
<1>4. CASE Written(h) \/ WriteFails(h)
  BY <1>4, WrittenInv, FailsInv
<1>5. CASE \/ CloseReconciled(h) \/ Closed(h) \/ CloseFails(h) \/ CloseHooked(h)
           \/ FailingHooked(h)
  BY <1>5, CloseReconciledInv, ClosedInv, FailsInv, CloseHookedInv, FailingHookedInv
<1> QED
  BY <1>1, <1>2, <1>3, <1>4, <1>5 DEF Answer

LEMMA ArrivalInv ==
    ASSUME Inv, NEW s \in Socket, Arrival(s)
    PROVE  Inv'
<1>1. CASE LeaveTerminal(s) \/ Connect(s)
  BY <1>1, SocketInv
<1>2. CASE LeaveProject(s) \/ Disconnect(s)
  BY <1>2, LeaveInv
<1>3. CASE RequestAccess(s) \/ RevokeControl(s)
  BY <1>3, RequestAccessInv, RevokeControlInv
<1>4. CASE \E u \in Subject, approve \in BOOLEAN : DecideAccess(s, u, approve)
  BY <1>4, DecideAccessInv
<1>5. CASE \E h \in Handler, kind \in Event : Begin(h, s, kind)
  BY <1>5, BeginInv, TerminalAssumption DEF TerminalAssumption
<1> QED
  BY <1>1, <1>2, <1>3, <1>4, <1>5 DEF Arrival

LEMMA StutterInv == Inv /\ UNCHANGED vars => Inv'
<1> SUFFICES ASSUME Inv, UNCHANGED vars PROVE Inv'
  OBVIOUS
<1>1. /\ UNCHANGED <<roomVars, mapVars, controlVars, shellVars, chain, task>>
      /\ UNCHANGED flagVars
  BY DEF vars
<1>2. ShellOK' /\ FlagsOK'
  BY <1>1, ShellKept DEF Inv, FlagsOK, flagVars
<1>3. TasksOK'
  BY <1>1, SameMap, TasksKept DEF Inv
<1> QED
  BY <1>1, <1>2, <1>3, OperationInv

LEMMA InvAlways == Spec => []Inv
<1>1. Inv /\ [Next]_vars => Inv'
  <2> SUFFICES ASSUME Inv, [Next]_vars PROVE Inv'
    OBVIOUS
  <2>1. CASE \E h \in Ready : Start(h)
    BY <2>1, StartInv DEF Ready
  <2>2. CASE \E h \in Handler : Answer(h)
    BY <2>2, AnswerInv
  <2>3. CASE \E sid \in Session : LeftClosed(sid) \/ LeftHooked(sid)
    BY <2>3, LeftInv
  <2>4. CASE \E s \in Socket : Arrival(s)
    BY <2>4, ArrivalInv
  <2>5. CASE UNCHANGED vars
    BY <2>5, StutterInv
  <2> QED
    BY <2>1, <2>2, <2>3, <2>4, <2>5 DEF Next
<1> QED
  BY <1>1, InitInv, PTL DEF Spec

\* The variables of the manager, the rooms and the handlers keep their types; in
\* particular a running operation is always in a chain that it can leave.
THEOREM TerminalTypes == Spec => []TypeOK
<1>1. Inv => TypeOK
  <2> SUFFICES ASSUME Inv PROVE TypeOK
    OBVIOUS
  <2>1. current \in {None} \cup Session /\ made \in 0..MaxSession
    BY TerminalAssumption DEF Inv, MapOK, Session, None, TerminalAssumption
  <2> QED
    BY <2>1 DEF Inv, RoomOK, ControlOK, ShellOK, TasksOK, FlagsOK, TypeOK
<1> QED
  BY <1>1, InvAlways, PTL

\* requestAccess, decideAccess, revokeControl and markProjectLeft, in any order:
\* who controls the terminal besides its owner is a present member.
THEOREM TerminalControlled == Spec => []ControlledByMembers
<1>1. Inv => ControlledByMembers
  BY DEF Inv, ControlOK
<1> QED
  BY <1>1, InvAlways, PTL

\* isSessionOpen of the session in the map is what its runtime has, whichever
\* operations fail or are overtaken by the owner leaving.
THEOREM TerminalTracked == Spec => []StateTracksShell
<1>1. Inv => StateTracksShell
  BY DEF Inv, ShellOK
<1> QED
  BY <1>1, InvAlways, PTL

\* markProjectLeft and the operations that go on after it: the output of a session
\* that its owner left reaches nobody.
THEOREM TerminalSilent == Spec => []SilentAfterLeave
<1>1. Inv => SilentAfterLeave
  BY DEF Inv, ShellOK
<1> QED
  BY <1>1, InvAlways, PTL

LEMMA InitWatch == Init => WatchInv
<1> SUFFICES ASSUME Init PROVE Balanced /\ \A h \in Handler : Aligned(task[h], open)
  BY DEF WatchInv
<1>1. \A h \in Handler : task[h].pc = "idle"
  BY IdleTask DEF Init
<1>2. \A sid \in Session : Hooks(sid) = {} /\ Starting(sid) = {}
  BY <1>1 DEF Hooks, Starting, HookStages
<1>3. \A sid \in Session :
         held[sid] = 0 /\ sid \notin open /\ leaving[sid] \notin {"closing", "hooking"}
  BY DEF Init
<1>4. Balanced
  BY <1>2, <1>3, FS_EmptySet DEF Balanced, In
<1> QED
  BY <1>1, <1>4 DEF Aligned

LEMMA NextWatch ==
    ASSUME Inv, Inv', WatchInv, [Next]_vars
    PROVE  WatchInv'
<1>1. CASE \E h \in Ready : Start(h)
  BY <1>1, StartWatch DEF Ready
<1>2. ASSUME NEW h \in Handler, Answer(h) PROVE WatchInv'
  BY <1>2, ArrivedWatch, StartedWatch, FailsWatch, RunningWatch DEF Answer
<1>3. CASE \E sid \in Session : LeftClosed(sid) \/ LeftHooked(sid)
  BY <1>3, LeftWatch
<1>4. ASSUME NEW s \in Socket, Arrival(s) PROVE WatchInv'
  <2>1. CASE \/ LeaveTerminal(s) \/ Connect(s) \/ RequestAccess(s) \/ RevokeControl(s)
             \/ \E u \in Subject, approve \in BOOLEAN : DecideAccess(s, u, approve)
    <3>1. UNCHANGED <<open, leaving, held, failed, early, task>>
      BY <2>1 DEF LeaveTerminal, Connect, RequestAccess, RevokeControl, DecideAccess,
                  shellVars, flagVars
    <3> QED
      BY <3>1, WatchKept
  <2>2. CASE LeaveProject(s) \/ Disconnect(s)
    BY <2>2, LeaveWatch
  <2>3. CASE \E h \in Handler, kind \in Event : Begin(h, s, kind)
    BY <2>3, ArrivedWatch
  <2> QED
    BY <1>4, <2>1, <2>2, <2>3 DEF Arrival
<1>5. CASE UNCHANGED vars
  BY <1>5, WatchKept DEF vars, shellVars, flagVars
<1> QED
  BY <1>1, <1>2, <1>3, <1>4, <1>5 DEF Next

\* openSession, closeSession, reconcileSessionOpenState and markProjectLeft start and
\* stop the live sync in pairs: once its hooks have ended, a session holds it if and
\* only if it is open, however opens, closes and failures of several members overlap.
THEOREM TerminalWatched == Spec => []WatchedWhileOpen
<1>1. Inv /\ WatchInv => WatchedWhileOpen
  <2> SUFFICES ASSUME Inv, Balanced, NEW sid \in Session, Quiet(sid)
               PROVE  held[sid] = IF sid \in open THEN 1 ELSE 0
    BY DEF WatchInv, WatchedWhileOpen
  <2>1. Hooks(sid) = {} /\ Starting(sid) = {}
    BY DEF Quiet, Hooks, Starting, HookStages
  <2>2. In(leaving[sid], {"closing", "hooking"}) = 0
    BY DEF Quiet, In
  <2>3. held[sid] \in Int
    BY DEF Inv, FlagsOK
  <2>4. held[sid] + 0 = In(sid, open) + 0 + 0
    BY <2>1, <2>2, FS_EmptySet DEF Balanced
  <2> QED
    BY <2>3, <2>4 DEF In
<1>2. Inv /\ Inv' /\ WatchInv /\ [Next]_vars => WatchInv'
  BY NextWatch
<1> QED
  BY <1>1, <1>2, InitWatch, InvAlways, PTL DEF Spec

-------------------------------------------------------------------------------
(* Control as the pages of the members show it: TerminalSharing, of all    *)
(* the terminals of a project.  A page is right about a terminal, or the   *)
(* messages on the way to it will put it right: SharingInv says which.     *)

Message ==
    [kind : {"list"}, members : SUBSET Person]
        \cup [kind : {"state"}, owner : Person, controller : Person,
              pending : SUBSET Person]
        \cup [kind : {"requested"}, owner : Person, by : Person]
        \cup [kind : {"decision"}, owner : Person, by : Person,
              status : {"approved", "rejected", "revoked"}]
Messages == Seq(Message)

ServerOK ==
    /\ inProject \subseteq Person /\ rooms \in [Person -> SUBSET Person]
    /\ controller \in [Person -> Person] /\ pending \in [Person -> SUBSET Person]
PagesOK ==
    /\ following \subseteq Person /\ inbox \in [Person -> Messages]
    /\ activeOwner \in [Person -> Person \cup {NoPerson}]
    /\ shown \in [Person -> [Person -> Person \cup {NoPerson}]]
    /\ status \in [Person -> [Person -> Status]]

\* A page that follows nothing shows nothing.
FreshOK ==
    \A s \in Person \ following :
        /\ inbox[s] = <<>>
        /\ \A o \in Person : shown[s][o] = NoPerson /\ status[s][o] = "idle"

\* Message m tells the state of terminal o; it ends the waiting of s for o.
OfState(m, o) == m.kind = "state" /\ m.owner = o
Settles(m, s, o) == \/ m.kind = "decision" /\ m.owner = o /\ m.by = s
                    \/ OfState(m, o) /\ m.controller = s

\* The last state of o among the messages q has controller c; there is none.
LastOf(q, o, c) ==
    \E i \in DOMAIN q : /\ OfState(q[i], o) /\ q[i].controller = c
                        /\ \A j \in DOMAIN q : j > i => ~OfState(q[j], o)
NoneOf(q, o) == \A i \in DOMAIN q : ~OfState(q[i], o)

\* A page that shows c and is to take in q will show controller d, or nobody.
WillShow(q, o, c, d) == LastOf(q, o, d) \/ (NoneOf(q, o) /\ c \in {NoPerson, d})
WillSettle(q, s, o) == \E i \in DOMAIN q : Settles(q[i], s, o)

ShownOK ==
    \A s \in following : \A o \in rooms[s] :
        <<s, o>> \notin untold =>
            WillShow(inbox[s], o, shown[s][o], controller[o])
WaitsOK ==
    \A s \in following, o \in Person :
        status[s][o] = "pending" =>
            s \in pending[o] \/ <<s, o>> \in forsaken \/ WillSettle(inbox[s], s, o)

SharingInv == ServerOK /\ PagesOK /\ FreshOK /\ ShownOK /\ WaitsOK

LEMMA MessageKinds ==
    /\ \A M \in SUBSET Person : List(M) \in Message
    /\ \A o, c \in Person : \A p \in SUBSET Person :
          StateMessage(o, c, p) \in Message
    /\ \A o, s \in Person : Requested(o, s) \in Message
    /\ \A o, s \in Person, d \in {"approved", "rejected", "revoked"} :
          Decision(o, s, d) \in Message
BY DEF Message, List, StateMessage, Requested, Decision

\* What is said later counts.
LEMMA SaidMore ==
    ASSUME NEW q \in Messages, NEW m \in Messages, NEW o, NEW c, NEW d
    PROVE  /\ q \o m \in Messages
           /\ NoneOf(m, o) /\ WillShow(q, o, c, d) => WillShow(q \o m, o, c, d)
           /\ LastOf(m, o, d) => LastOf(q \o m, o, d) /\ WillShow(q \o m, o, c, d)
           /\ NoneOf(m, o) /\ NoneOf(q, o) => NoneOf(q \o m, o)
           /\ NoneOf(m, o) /\ LastOf(q, o, d) => LastOf(q \o m, o, d)
<1> DEFINE n == q \o m
<1>1. /\ n \in Messages /\ Len(n) = Len(q) + Len(m)
      /\ Len(q) \in Nat /\ Len(m) \in Nat
      /\ \A i \in 1 .. Len(q) : n[i] = q[i]
      /\ \A i \in 1 .. Len(m) : n[Len(q) + i] = m[i]
      /\ DOMAIN n = 1 .. Len(n) /\ DOMAIN q = 1 .. Len(q) /\ DOMAIN m = 1 .. Len(m)
  BY DEF Messages
<1> HIDE DEF n
<1>2. \A i \in 1 .. Len(n) : i > Len(q) => i - Len(q) \in 1 .. Len(m)
                                           /\ n[i] = m[i - Len(q)]
  BY <1>1
<1>3. ASSUME NoneOf(m, o), LastOf(q, o, d) PROVE LastOf(n, o, d)
  <2>1. PICK i \in DOMAIN q : /\ OfState(q[i], o) /\ q[i].controller = d
                              /\ \A j \in DOMAIN q : j > i => ~OfState(q[j], o)
    BY <1>3 DEF LastOf
  <2>2. i \in DOMAIN n /\ n[i] = q[i]
    BY <1>1
  <2>3. ASSUME NEW j \in DOMAIN n, j > i PROVE ~OfState(n[j], o)
    <3>1. CASE j \in 1 .. Len(q)
      BY <1>1, <2>1, <2>3, <3>1
    <3>2. CASE j > Len(q)
      BY <1>1, <1>2, <1>3, <3>2 DEF NoneOf
    <3> QED BY <1>1, <2>3, <3>1, <3>2
  <2> QED BY <2>1, <2>2, <2>3 DEF LastOf
<1>4. ASSUME NoneOf(m, o), NoneOf(q, o) PROVE NoneOf(n, o)
  <2>1. ASSUME NEW j \in DOMAIN n PROVE ~OfState(n[j], o)
    <3>1. CASE j \in 1 .. Len(q)
      BY <1>1, <1>4, <3>1 DEF NoneOf
    <3>2. CASE j > Len(q)
      BY <1>1, <1>2, <1>4, <3>2 DEF NoneOf
    <3> QED BY <1>1, <2>1, <3>1, <3>2
  <2> QED BY <2>1 DEF NoneOf
<1>5. ASSUME LastOf(m, o, d) PROVE LastOf(n, o, d)
  <2>1. PICK i \in DOMAIN m : /\ OfState(m[i], o) /\ m[i].controller = d
                              /\ \A j \in DOMAIN m : j > i => ~OfState(m[j], o)
    BY <1>5 DEF LastOf
  <2>2. PICK k \in DOMAIN n : k = Len(q) + i /\ n[k] = m[i]
    BY <1>1
  <2>3. ASSUME NEW j \in DOMAIN n, j > k PROVE ~OfState(n[j], o)
    <3>1. j - Len(q) \in DOMAIN m /\ j - Len(q) > i /\ n[j] = m[j - Len(q)]
      BY <1>1, <1>2, <2>2, <2>3
    <3> QED BY <2>1, <3>1
  <2>4. OfState(n[k], o) /\ n[k].controller = d
    BY <2>1, <2>2
  <2> QED BY <2>2, <2>3, <2>4, Zenon DEF LastOf
<1> QED BY <1>1, <1>3, <1>4, <1>5 DEF n, WillShow

LEMMA SettleMore ==
    ASSUME NEW q \in Messages, NEW m \in Messages, NEW s, NEW o,
           WillSettle(q, s, o) \/ WillSettle(m, s, o)
    PROVE  WillSettle(q \o m, s, o)
<1> DEFINE n == q \o m
<1>1. /\ Len(q) \in Nat /\ Len(m) \in Nat
      /\ \A i \in DOMAIN q : i \in DOMAIN n /\ n[i] = q[i]
      /\ \A i \in DOMAIN m : Len(q) + i \in DOMAIN n /\ n[Len(q) + i] = m[i]
  BY DEF Messages
<1> HIDE DEF n
<1>2. CASE WillSettle(q, s, o)
  BY <1>1, <1>2 DEF WillSettle
<1>3. CASE WillSettle(m, s, o)
  BY <1>1, <1>3 DEF WillSettle
<1> QED BY <1>2, <1>3 DEF n

\* What the page takes in of the first message, it need not be told any more.
LEMMA SaidLess ==
    ASSUME NEW q \in Messages, q # <<>>, NEW o, NEW c, NEW d
    PROVE  /\ Tail(q) \in Messages /\ Head(q) \in Message
           /\ WillShow(q, o, c, d) =>
                WillShow(Tail(q), o,
                         IF OfState(Head(q), o) THEN Head(q).controller ELSE c, d)
           /\ \A s : WillSettle(q, s, o) =>
                Settles(Head(q), s, o) \/ WillSettle(Tail(q), s, o)
<1> DEFINE n == Tail(q)
<1>1. /\ n \in Messages /\ Len(q) \in Nat /\ Len(q) > 0 /\ Len(n) = Len(q) - 1
      /\ Head(q) = q[1] /\ Head(q) \in Message
      /\ \A i \in 1 .. Len(n) : n[i] = q[i + 1]
      /\ DOMAIN n = 1 .. Len(n) /\ DOMAIN q = 1 .. Len(q)
  BY DEF Messages
<1> HIDE DEF n
<1>2. \A i \in 1 .. Len(q) : i # 1 => i - 1 \in 1 .. Len(n) /\ q[i] = n[i - 1]
  BY <1>1
<1>3. \A i \in 1 .. Len(n) : i + 1 \in 1 .. Len(q)
  BY <1>1
<1>4. ASSUME NoneOf(q, o), c \in {NoPerson, d}
      PROVE  NoneOf(n, o) /\ ~OfState(Head(q), o)
  BY <1>1, <1>3, <1>4 DEF NoneOf
<1>5. ASSUME LastOf(q, o, d)
      PROVE  WillShow(n, o, IF OfState(Head(q), o) THEN Head(q).controller ELSE c, d)
  <2>1. PICK i \in DOMAIN q : /\ OfState(q[i], o) /\ q[i].controller = d
                              /\ \A j \in DOMAIN q : j > i => ~OfState(q[j], o)
    BY <1>5 DEF LastOf
  <2>2. CASE i = 1
    <3>1. NoneOf(n, o)
      <4>1. \A j \in 1 .. Len(n) : j + 1 \in DOMAIN q /\ j + 1 > i
        BY <1>1, <2>2
      <4> QED BY <1>1, <2>1, <4>1 DEF NoneOf
    <3> QED BY <1>1, <2>1, <2>2, <3>1 DEF WillShow
  <2>3. CASE i # 1
    <3>1. i - 1 \in DOMAIN n /\ n[i - 1] = q[i]
      BY <1>1, <1>2, <2>3
    <3>2. ASSUME NEW j \in DOMAIN n, j > i - 1 PROVE ~OfState(n[j], o)
      <4>1. j + 1 \in DOMAIN q /\ j + 1 > i /\ n[j] = q[j + 1]
        BY <1>1, <1>3, <3>2
      <4> QED BY <2>1, <4>1
    <3> QED BY <2>1, <3>1, <3>2 DEF LastOf, WillShow
  <2> QED BY <2>2, <2>3
<1>6. ASSUME NEW s, WillSettle(q, s, o)
      PROVE  Settles(Head(q), s, o) \/ WillSettle(n, s, o)
  <2>1. PICK i \in DOMAIN q : Settles(q[i], s, o)
    BY <1>6 DEF WillSettle
  <2>2. CASE i = 1
    BY <1>1, <2>1, <2>2
  <2>3. CASE i # 1
    <3>1. i - 1 \in DOMAIN n /\ n[i - 1] = q[i]
      BY <1>1, <1>2, <2>3
    <3> QED BY <2>1, <3>1 DEF WillSettle
  <2> QED BY <2>2, <2>3
<1> QED BY <1>1, <1>4, <1>5, <1>6 DEF n, WillShow

\* What the server may say at once.
LEMMA NothingSaid ==
    /\ <<>> \in Messages
    /\ \A o, s : NoneOf(<<>>, o) /\ ~WillSettle(<<>>, s, o)
BY DEF Messages, NoneOf, WillSettle

LEMMA OneSaid ==
    ASSUME NEW m \in Message
    PROVE  /\ <<m>> \in Messages
           /\ \A o : ~OfState(m, o) => NoneOf(<<m>>, o)
           /\ \A o, c : OfState(m, o) /\ m.controller = c => LastOf(<<m>>, o, c)
<1>1. <<m>> \in Messages /\ DOMAIN <<m>> = {1} /\ <<m>>[1] = m
  BY DEF Messages
<1>2. \A o : ~OfState(m, o) => NoneOf(<<m>>, o)
  BY <1>1 DEF NoneOf
<1>3. \A o, c : OfState(m, o) /\ m.controller = c => LastOf(<<m>>, o, c)
  BY <1>1 DEF LastOf
<1> QED BY <1>1, <1>2, <1>3

LEMMA TwoSaid ==
    ASSUME NEW m \in Message, NEW n \in Message
    PROVE  /\ <<m, n>> \in Messages
           /\ \A o : ~OfState(m, o) /\ ~OfState(n, o) => NoneOf(<<m, n>>, o)
           /\ \A o, c : OfState(n, o) /\ n.controller = c => LastOf(<<m, n>>, o, c)
           /\ \A o, c : OfState(m, o) /\ m.controller = c /\ ~OfState(n, o)
                            => LastOf(<<m, n>>, o, c)
           /\ \A o, s : Settles(n, s, o) => WillSettle(<<m, n>>, s, o)
<1> DEFINE q == <<m, n>>
<1>1. q \in Messages /\ DOMAIN q = {1, 2} /\ q[1] = m /\ q[2] = n
  BY DEF Messages
<1> HIDE DEF q
<1>2. \A o : ~OfState(m, o) /\ ~OfState(n, o) => NoneOf(q, o)
  BY <1>1 DEF NoneOf
<1>3. \A o, c : OfState(n, o) /\ n.controller = c => LastOf(q, o, c)
  <2>1. \A j \in {1, 2} : ~(j > 2)
    OBVIOUS
  <2> QED BY <1>1, <2>1 DEF LastOf
<1>4. \A o, c : OfState(m, o) /\ m.controller = c /\ ~OfState(n, o) => LastOf(q, o, c)
  <2>1. \A j \in {1, 2} : j > 1 => j = 2
    OBVIOUS
  <2> QED BY <1>1, <2>1 DEF LastOf
<1>5. \A o, s : Settles(n, s, o) => WillSettle(q, s, o)
  BY <1>1 DEF WillSettle
<1> QED BY <1>1, <1>2, <1>3, <1>4, <1>5 DEF q

LEMMA ListTells ==
    ASSUME NEW M \in SUBSET Person
    PROVE  List(M) \in Message /\ \A o : ~OfState(List(M), o)
BY MessageKinds DEF OfState, List

LEMMA StateTells ==
    ASSUME NEW o \in Person, NEW c \in Person, NEW p \in SUBSET Person
    PROVE  /\ StateMessage(o, c, p) \in Message
           /\ \A u : OfState(StateMessage(o, c, p), u) <=> u = o
           /\ StateMessage(o, c, p).controller = c
BY MessageKinds DEF OfState, StateMessage

LEMMA DecisionTells ==
    ASSUME NEW o \in Person, NEW s \in Person,
           NEW d \in {"approved", "rejected", "revoked"}
    PROVE  /\ Decision(o, s, d) \in Message
           /\ \A u : ~OfState(Decision(o, s, d), u)
           /\ Settles(Decision(o, s, d), s, o)
BY MessageKinds DEF OfState, Settles, Decision

LEMMA SendFacts ==
    ASSUME PagesOK, NEW to, \A s \in Person : to[s] \in Messages, Send(to)
    PROVE  /\ inbox' \in [Person -> Messages]
           /\ \A s \in following : inbox'[s] = inbox[s] \o to[s]
           /\ \A s \in Person \ following : inbox'[s] = inbox[s]
<1>1. \A s \in Person : inbox[s] \o to[s] \in Messages
  BY DEF PagesOK, Messages
<1> QED BY <1>1 DEF PagesOK, Send

\* A step that says to[s] to each page s and changes no page.
LEMMA SaysStep ==
    ASSUME SharingInv, ServerOK', NEW to, \A s \in Person : to[s] \in Messages,
           Send(to), UNCHANGED <<following, shown, status, activeOwner>>,
           \A s \in following : \A o \in rooms'[s] :
              <<s, o>> \notin untold' =>
                 \/ LastOf(to[s], o, controller'[o])
                 \/ /\ NoneOf(to[s], o) /\ o \in rooms[s] /\ <<s, o>> \notin untold
                    /\ controller'[o] = controller[o],
           \A s \in following, o \in Person :
              status[s][o] = "pending"
                  /\ (s \in pending[o] \/ <<s, o>> \in forsaken) =>
                 s \in pending'[o] \/ <<s, o>> \in forsaken'
                     \/ WillSettle(to[s], s, o)
    PROVE  SharingInv'
<1>1. /\ inbox' \in [Person -> Messages]
      /\ \A s \in following : inbox'[s] = inbox[s] \o to[s]
      /\ \A s \in Person \ following : inbox'[s] = inbox[s]
  BY SendFacts DEF SharingInv
<1>2. PagesOK' /\ FreshOK'
  BY <1>1 DEF SharingInv, PagesOK, FreshOK
<1>3. following \subseteq Person /\ \A s \in Person : inbox[s] \in Messages
  BY DEF SharingInv, PagesOK
<1>4. ShownOK'
  <2>1. ASSUME NEW s \in following, NEW o \in rooms'[s], <<s, o>> \notin untold'
        PROVE  WillShow(inbox'[s], o, shown[s][o], controller'[o])
    <3>0. inbox[s] \in Messages /\ to[s] \in Messages /\ inbox'[s] = inbox[s] \o to[s]
      BY <1>1, <1>3
    <3>1. CASE LastOf(to[s], o, controller'[o])
      BY <3>0, <3>1, SaidMore
    <3>2. CASE /\ NoneOf(to[s], o) /\ o \in rooms[s] /\ <<s, o>> \notin untold
               /\ controller'[o] = controller[o]
      <4>1. WillShow(inbox[s], o, shown[s][o], controller'[o])
        BY <3>2 DEF SharingInv, ShownOK
      <4> QED BY <3>0, <3>2, <4>1, SaidMore
    <3> QED BY <2>1, <3>1, <3>2
  <2> QED BY <2>1 DEF ShownOK
<1>5. WaitsOK'
  <2>1. ASSUME NEW s \in following, NEW o \in Person, status[s][o] = "pending"
        PROVE  \/ s \in pending'[o] \/ <<s, o>> \in forsaken'
               \/ WillSettle(inbox'[s], s, o)
    <3>1. \/ s \in pending'[o] \/ <<s, o>> \in forsaken'
          \/ WillSettle(to[s], s, o) \/ WillSettle(inbox[s], s, o)
      BY <2>1 DEF SharingInv, WaitsOK
    <3>2. inbox[s] \in Messages /\ to[s] \in Messages /\ inbox'[s] = inbox[s] \o to[s]
      BY <1>1, <1>3
    <3>3. WillSettle(to[s], s, o) \/ WillSettle(inbox[s], s, o)
             => WillSettle(inbox'[s], s, o)
      BY <3>2, SettleMore
    <3> QED BY <3>1, <3>3
  <2> QED BY <2>1 DEF WaitsOK
<1> QED BY <1>2, <1>4, <1>5 DEF SharingInv

LEMMA EnterSaid ==
    ASSUME SharingInv, NEW s \in Person, EnterDone(s)
    PROVE  SharingInv'
<1> DEFINE M == Members \cup {s}
           to == [t \in Person |->
                    (IF t \in inProject' THEN <<List(M)>> ELSE <<>>)
                    \o (IF t = s THEN <<StateMessage(s, controller[s], pending[s])>>
                        ELSE <<>>)]
<1>1. Send(to) /\ s \in inProject'
  BY DEF EnterDone
<1>2. M \in SUBSET Person
  BY DEF Members
<1> HIDE DEF M
<1>3. controller[s] \in Person /\ pending[s] \in SUBSET Person
  BY DEF SharingInv, ServerOK
<1> DEFINE L == List(M)
           S == StateMessage(s, controller[s], pending[s])
<1>4. to[s] = <<L>> \o <<S>>
  BY <1>1
<1>5. \A t \in Person : t # s => to[t] = <<L>> \/ to[t] = <<>>
  <2>1. \A t \in Person : t # s => to[t] = <<L>> \o <<>> \/ to[t] = <<>> \o <<>>
    OBVIOUS
  <2> HIDE DEF to, L
  <2> QED BY <2>1
<1>6. L \in Message /\ S \in Message /\ (\A o : ~OfState(L, o))
      /\ (\A o : OfState(S, o) <=> o = s) /\ S.controller = controller[s]
  BY <1>2, <1>3, ListTells, StateTells
<1> HIDE DEF to, L, S
<1>7. /\ to[s] \in Messages /\ LastOf(to[s], s, controller[s])
      /\ \A o : o # s => NoneOf(to[s], o)
  <2>1. <<L>> \in Messages /\ <<S>> \in Messages
        /\ LastOf(<<S>>, s, controller[s])
    BY <1>6, OneSaid
  <2>2. \A o : NoneOf(<<L>>, o) /\ (o # s => NoneOf(<<S>>, o))
    BY <1>6, OneSaid
  <2>3. to[s] \in Messages /\ LastOf(to[s], s, controller[s])
    BY <1>4, <2>1, SaidMore
  <2>4. \A o : NoneOf(<<L>>, o) /\ NoneOf(<<S>>, o) => NoneOf(to[s], o)
    BY <1>4, <2>1, SaidMore
  <2> QED BY <2>2, <2>3, <2>4
<1>13. ASSUME NEW t \in Person, t # s
       PROVE  to[t] \in Messages /\ \A o : NoneOf(to[t], o)
  BY <1>5, <1>6, <1>13, OneSaid, NothingSaid
<1>8. ServerOK'
  BY DEF EnterDone, SharingInv, ServerOK
<1>9. UNCHANGED <<following, shown, status, activeOwner, controller, pending, forsaken>>
  BY DEF EnterDone, display
<1>10. \A t \in following : \A o \in rooms'[t] :
          <<t, o>> \notin untold' =>
             (t = s /\ o = s) \/ (o \in rooms[t] /\ <<t, o>> \notin untold)
  BY DEF EnterDone, SharingInv, ServerOK, PagesOK
<1>11. following \subseteq Person
  BY DEF SharingInv, PagesOK
<1>12. \A t \in following : \A o \in rooms'[t] :
          <<t, o>> \notin untold' =>
                 \/ LastOf(to[t], o, controller'[o])
                 \/ /\ NoneOf(to[t], o) /\ o \in rooms[t] /\ <<t, o>> \notin untold
                    /\ controller'[o] = controller[o]
  BY <1>7, <1>9, <1>10, <1>11, <1>13
<1> QED BY <1>1, <1>7, <1>8, <1>9, <1>12, <1>13, SaysStep

LEMMA ListSaid ==
    ASSUME SharingInv, NEW s \in Person, ListDone(s)
    PROVE  SharingInv'
<1> DEFINE M == Members
           to == [t \in Person |-> IF t = s /\ Present(s)
                                    THEN <<List(M)>> ELSE <<>>]
<1>1. Send(to)
  BY DEF ListDone
<1>2. M \in SUBSET Person
  BY DEF Members
<1>3. \A t \in Person : to[t] = <<List(M)>> \/ to[t] = <<>>
  OBVIOUS
<1> HIDE DEF to, M
<1>4. List(M) \in Message /\ \A o : ~OfState(List(M), o)
  BY <1>2, ListTells
<1>5. \A t \in Person : to[t] \in Messages /\ \A o : NoneOf(to[t], o)
  BY <1>3, <1>4, OneSaid, NothingSaid
<1>6. UNCHANGED <<following, shown, status, activeOwner, controller, pending, forsaken, rooms,
                  untold, inProject>>
  BY DEF ListDone, display
<1>7. ServerOK' /\ following \subseteq Person
  BY <1>6 DEF SharingInv, ServerOK, PagesOK
<1> QED BY <1>1, <1>5, <1>6, <1>7, SaysStep

LEMMA JoinSaid ==
    ASSUME SharingInv, NEW s \in Person, NEW o \in Person, JoinDone(s, o)
    PROVE  SharingInv'
<1>1. UNCHANGED <<following, shown, status, activeOwner, controller, pending, forsaken,
                  inProject>>
  BY DEF JoinDone, display
<1>2. CASE UNCHANGED <<rooms, inbox, untold>>
  BY <1>1, <1>2 DEF SharingInv, ServerOK, PagesOK, FreshOK, ShownOK, WaitsOK
<1>3. CASE Present(s) /\ Present(o)
  <2> DEFINE S == StateMessage(o, controller[o], pending[o])
             to == [t \in Person |-> IF t = s THEN <<S>> ELSE <<>>]
  <2>1. /\ Send(to) /\ rooms' = [rooms EXCEPT ![s] = @ \cup {o}]
        /\ untold' = untold \ {<<s, o>>}
    BY <1>3 DEF JoinDone
  <2>2. controller[o] \in Person /\ pending[o] \in SUBSET Person
    BY DEF SharingInv, ServerOK
  <2>3. to[s] = <<S>> /\ \A t \in Person : t # s => to[t] = <<>>
    OBVIOUS
  <2>9. S \in Message /\ (\A u : OfState(S, u) <=> u = o) /\ S.controller = controller[o]
    BY <2>2, StateTells
  <2> HIDE DEF to, S
  <2>4. \A t \in Person : to[t] \in Messages
    BY <2>3, <2>9, OneSaid, NothingSaid
  <2>5. /\ \A t \in Person : \A u : t # s \/ u # o => NoneOf(to[t], u)
        /\ LastOf(to[s], o, controller[o])
    BY <2>3, <2>9, OneSaid, NothingSaid
  <2>6. ServerOK' /\ following \subseteq Person
    BY <1>1, <2>1 DEF SharingInv, ServerOK, PagesOK
  <2>7. \A t \in following : \A u \in rooms'[t] :
           <<t, u>> \notin untold' =>
              (t = s /\ u = o) \/ (u \in rooms[t] /\ <<t, u>> \notin untold)
    BY <2>1 DEF SharingInv, ServerOK, PagesOK
  <2>8. \A t \in following : \A u \in rooms'[t] :
          <<t, u>> \notin untold' =>
                 \/ LastOf(to[t], u, controller'[u])
                 \/ /\ NoneOf(to[t], u) /\ u \in rooms[t] /\ <<t, u>> \notin untold
                    /\ controller'[u] = controller[u]
    BY <1>1, <2>5, <2>6, <2>7
  <2> QED BY <1>1, <2>1, <2>4, <2>6, <2>8, SaysStep
<1> QED BY <1>2, <1>3 DEF JoinDone

\* A page begins to follow with nothing to show.
LEMMA MountSaid ==
    ASSUME SharingInv, NEW s \in Person, Mount(s)
    PROVE  SharingInv'
<1>1. following' = following \cup {s} /\ s \notin following
      /\ UNCHANGED <<inProject, rooms, controller, pending, inbox, activeOwner, shown, status,
                     untold, forsaken>>
  BY DEF Mount, display
<1>2. ServerOK' /\ PagesOK' /\ FreshOK'
  BY <1>1 DEF SharingInv, ServerOK, PagesOK, FreshOK
<1>3. inbox[s] = <<>> /\ \A o \in Person : shown[s][o] = NoPerson
                                            /\ status[s][o] = "idle"
  BY <1>1 DEF SharingInv, FreshOK
<1>4. \A o \in Person : WillShow(inbox[s], o, shown[s][o], controller[o])
  <2>1. \A o : NoneOf(<<>>, o)
    BY DEF NoneOf
  <2> QED BY <1>3, <2>1 DEF WillShow
<1>5. ShownOK'
  <2>1. rooms[s] \subseteq Person
    BY DEF SharingInv, ServerOK
  <2> QED BY <1>1, <1>4, <2>1 DEF SharingInv, ShownOK
<1>6. WaitsOK'
  BY <1>1, <1>3 DEF SharingInv, WaitsOK
<1> QED BY <1>2, <1>5, <1>6 DEF SharingInv

\* A page that goes forgets; the others are told who is left.
LEMMA StopsSaid ==
    ASSUME SharingInv, Elsewhere \subseteq Person, NEW s \in Person,
           Stops(s),
           rooms' \in [Person -> SUBSET Person],
           \A t \in Person : t # s => rooms'[t] = rooms[t]
    PROVE  SharingInv'
<1> DEFINE rest == inProject \ {s}
           L == List(rest \cup Elsewhere)
<1>1. /\ following' = following \ {s} /\ s \in following
      /\ shown' = [shown EXCEPT ![s] = [o \in Person |-> NoPerson]]
      /\ status' = [status EXCEPT ![s] = [o \in Person |-> "idle"]]
      /\ activeOwner' = [activeOwner EXCEPT ![s] = NoPerson]
      /\ inProject' = rest
  BY DEF Stops, LeavesProject
<1>2. inbox' = [t \in Person |->
                  IF t = s THEN <<>>
                  ELSE IF s \in inProject /\ t \in rest \cap following
                       THEN Append(inbox[t], L) ELSE inbox[t]]
  BY DEF Stops, LeavesProject
<1>3. \A t \in Person : t # s =>
         inbox'[t] = inbox[t] \/ (t \in following /\ inbox'[t] = Append(inbox[t], L))
  BY <1>2
<1>4. inbox'[s] = <<>>
  BY <1>2
<1>5. following \subseteq Person /\ \A t \in Person : inbox[t] \in Messages
  BY DEF SharingInv, PagesOK
<1>6. L \in Message /\ \A o : ~OfState(L, o)
  <2>1. rest \cup Elsewhere \in SUBSET Person
    BY DEF SharingInv, ServerOK
  <2> QED BY <2>1, ListTells
<1>7. /\ controller' \in [Person -> Person] /\ pending' \in [Person -> SUBSET Person]
      /\ \A t \in following', o \in Person :
            /\ <<t, o>> \notin untold' => /\ <<t, o>> \notin untold
                                          /\ o \in rooms'[t] => controller'[o] = controller[o]
            /\ <<t, o>> \in forsaken => <<t, o>> \in forsaken'
            /\ t \in pending[o] => t \in pending'[o] \/ <<t, o>> \in forsaken'
  <2>1. CASE s \in inProject
    <3>1. Leaves(s)
      BY <2>1 DEF Stops, LeavesProject
    <3>2. /\ controller' \in [Person -> Person]
          /\ pending' \in [Person -> SUBSET Person]
      BY <3>1 DEF Leaves, SharingInv, ServerOK
    <3>3. ASSUME NEW t \in following', NEW o \in Person
          PROVE  /\ <<t, o>> \notin untold' =>
                      /\ <<t, o>> \notin untold
                      /\ o \in rooms'[t] => controller'[o] = controller[o]
                 /\ <<t, o>> \in forsaken => <<t, o>> \in forsaken'
                 /\ t \in pending[o] => t \in pending'[o] \/ <<t, o>> \in forsaken'
      <4>1. /\ <<t, o>> \in untold' <=>
                 <<t, o>> \in untold \/ (o \in rooms'[t] /\ controller'[o] # controller[o])
            /\ <<t, o>> \in forsaken' <=>
                 <<t, o>> \in forsaken \/ t \in pending[o] \ pending'[o]
        BY <3>1, <3>3 DEF Leaves
      <4> QED BY <4>1
    <3> QED BY <3>2, <3>3
  <2>2. CASE s \notin inProject
    <3>1. UNCHANGED <<controller, pending>>
          /\ untold' = {p \in untold : p[1] # s} /\ forsaken' = {p \in forsaken : p[1] # s}
      BY <2>2 DEF Stops, LeavesProject
    <3> QED BY <1>1, <3>1 DEF SharingInv, ServerOK
  <2> QED BY <2>1, <2>2
<1> HIDE DEF L
<1>8. ASSUME NEW t \in Person, t # s
      PROVE  /\ inbox'[t] \in Messages
             /\ t \notin following => inbox'[t] = inbox[t]
             /\ \A o, c, d : WillShow(inbox[t], o, c, d) => WillShow(inbox'[t], o, c, d)
             /\ \A u, o : WillSettle(inbox[t], u, o) => WillSettle(inbox'[t], u, o)
  <2>1. CASE inbox'[t] = inbox[t]
    BY <1>5, <1>8, <2>1
  <2>2. CASE t \in following /\ inbox'[t] = Append(inbox[t], L)
    <3>1. inbox'[t] = inbox[t] \o <<L>> /\ inbox[t] \in Messages /\ <<L>> \in Messages
          /\ \A o : NoneOf(<<L>>, o)
      <4>1. Append(inbox[t], L) = inbox[t] \o <<L>>
        BY <1>5, <1>6, <1>8 DEF Messages
      <4> QED BY <1>5, <1>6, <1>8, <2>2, <4>1, OneSaid
    <3>2. \A u, o : WillSettle(inbox[t], u, o) => WillSettle(inbox'[t], u, o)
      BY <3>1, SettleMore
    <3>3. inbox'[t] \in Messages
      <4>1. inbox[t] \o <<L>> \in Messages
        BY <3>1, Zenon, SaidMore
      <4> QED BY <3>1, <4>1
    <3>4. ASSUME NEW o, NEW c, NEW d, WillShow(inbox[t], o, c, d)
          PROVE  WillShow(inbox'[t], o, c, d)
      BY <3>1, <3>4, SaidMore
    <3> QED BY <2>2, <3>2, <3>3, <3>4
  <2> QED BY <1>3, <1>8, <2>1, <2>2
<1>9. ServerOK'
  BY <1>1, <1>7 DEF SharingInv, ServerOK
<1>10. PagesOK'
  <2>1. inbox' \in [Person -> Messages]
    <3>1. \A t \in Person : inbox'[t] \in Messages
      BY <1>4, <1>8, NothingSaid
    <3> QED BY <1>2, <3>1
  <2> QED BY <1>1, <2>1 DEF SharingInv, PagesOK, Status
<1>11. FreshOK'
  BY <1>1, <1>4, <1>8 DEF SharingInv, PagesOK, FreshOK
<1>12. ShownOK'
  <2>1. ASSUME NEW t \in following', NEW o \in rooms'[t], <<t, o>> \notin untold'
        PROVE  WillShow(inbox'[t], o, shown'[t][o], controller'[o])
    <3>1. t \in following /\ t # s /\ t \in Person /\ o \in rooms[t] /\ o \in Person
      BY <1>1, <1>5, <2>1 DEF SharingInv, ServerOK
    <3>2. <<t, o>> \notin untold /\ controller'[o] = controller[o]
          /\ shown'[t][o] = shown[t][o]
      BY <1>1, <1>7, <2>1, <3>1 DEF SharingInv, PagesOK
    <3>3. WillShow(inbox[t], o, shown[t][o], controller[o])
      BY <3>1, <3>2 DEF SharingInv, ShownOK
    <3> QED BY <1>8, <3>1, <3>2, <3>3
  <2> QED BY <2>1 DEF ShownOK
<1>13. WaitsOK'
  <2>1. ASSUME NEW t \in following', NEW o \in Person, status'[t][o] = "pending"
        PROVE  \/ t \in pending'[o] \/ <<t, o>> \in forsaken'
               \/ WillSettle(inbox'[t], t, o)
    <3>1. t \in following /\ t # s /\ t \in Person /\ status[t][o] = "pending"
      BY <1>1, <1>5, <2>1 DEF SharingInv, PagesOK
    <3>2. \/ t \in pending[o] \/ <<t, o>> \in forsaken
          \/ WillSettle(inbox[t], t, o)
      BY <3>1 DEF SharingInv, WaitsOK
    <3> QED BY <1>7, <1>8, <2>1, <3>1, <3>2
  <2> QED BY <2>1 DEF WaitsOK
<1> QED BY <1>9, <1>10, <1>11, <1>12, <1>13 DEF SharingInv

LEMMA GoesSaid ==
    ASSUME SharingInv, Elsewhere \subseteq Person, NEW s \in Person,
           Unmount(s) \/ Cut(s)
    PROVE  SharingInv'
<1>1. /\ rooms' \in [Person -> SUBSET Person]
      /\ \A t \in Person : t # s => rooms'[t] = rooms[t]
  BY DEF Unmount, Cut, SharingInv, ServerOK
<1> QED BY <1>1, StopsSaid DEF Unmount, Cut

LEMMA ActivateKeeps ==
    ASSUME ServerOK, PagesOK, NEW s \in Person, NEW o \in Person \cup {NoPerson},
           Activate(s, o)
    PROVE  /\ rooms' \in [Person -> SUBSET Person]
           /\ \A t \in Person : rooms'[t] \subseteq rooms[t]
           /\ activeOwner' \in [Person -> Person \cup {NoPerson}]
<1>1. rooms' = rooms \/ rooms' = [rooms EXCEPT ![s] = rooms[s] \ {activeOwner[s]}]
  BY DEF Activate
<1>2. activeOwner' = [activeOwner EXCEPT ![s] = o]
  BY DEF Activate
<1>3. activeOwner' \in [Person -> Person \cup {NoPerson}]
  BY <1>2 DEF PagesOK
<1>4. CASE rooms' = rooms
  BY <1>3, <1>4 DEF ServerOK
<1>5. CASE rooms' = [rooms EXCEPT ![s] = rooms[s] \ {activeOwner[s]}]
  <2>1. rooms[s] \ {activeOwner[s]} \in SUBSET Person /\ rooms \in [Person -> SUBSET Person]
    BY DEF ServerOK
  <2>2. rooms' \in [Person -> SUBSET Person]
    BY <1>5, <2>1
  <2>3. \A t \in Person : rooms'[t] = IF t = s THEN rooms[s] \ {activeOwner[s]} ELSE rooms[t]
    BY <1>5, <2>1
  <2> QED BY <1>3, <2>2, <2>3
<1> QED BY <1>1, <1>3, <1>4, <1>5

\* The page goes from room to room, or a check is refused.
LEMMA RoomsSaid ==
    ASSUME SharingInv, NEW s \in Person,
           Refused(s) \/ \E o \in Person : Select(s, o)
    PROVE  SharingInv'
<1>1. UNCHANGED <<inProject, controller, pending, following, inbox, shown, status,
                  untold, forsaken>>
  BY DEF Refused, Select, display
<1>2. /\ rooms' \in [Person -> SUBSET Person]
      /\ \A t \in Person : rooms'[t] \subseteq rooms[t]
      /\ activeOwner' \in [Person -> Person \cup {NoPerson}]
  <2>1. CASE Refused(s)
    BY <2>1 DEF Refused, display, SharingInv, ServerOK, PagesOK
  <2>2. ASSUME NEW o \in Person, Select(s, o)
        PROVE  /\ rooms' \in [Person -> SUBSET Person]
               /\ \A t \in Person : rooms'[t] \subseteq rooms[t]
               /\ activeOwner' \in [Person -> Person \cup {NoPerson}]
    BY <2>2, ActivateKeeps DEF Select, SharingInv
  <2> QED BY <2>1, <2>2
<1>3. following \subseteq Person
  BY DEF SharingInv, PagesOK
<1>4. ShownOK'
  BY <1>1, <1>2, <1>3 DEF SharingInv, ShownOK
<1>5. WaitsOK'
  BY <1>1 DEF SharingInv, WaitsOK
<1> QED BY <1>1, <1>2, <1>4, <1>5 DEF SharingInv, ServerOK, PagesOK, FreshOK

\* The page takes in what it was told first.
LEMMA ReceiveSaid ==
    ASSUME SharingInv, NEW s \in Person, Receive(s)
    PROVE  SharingInv'
<1> DEFINE m == Head(inbox[s])
<1>1. /\ s \in following /\ inbox[s] # <<>>
      /\ inbox' = [inbox EXCEPT ![s] = Tail(@)]
      /\ UNCHANGED <<inProject, controller, pending, following, untold, forsaken>>
  BY DEF Receive
<1>2. inbox[s] \in Messages /\ following \subseteq Person
  BY DEF SharingInv, PagesOK
<1>3. /\ Tail(inbox[s]) \in Messages /\ m \in Message
      /\ \A o, c, d : WillShow(inbox[s], o, c, d) =>
            WillShow(Tail(inbox[s]), o, IF OfState(m, o) THEN m.controller ELSE c, d)
      /\ \A u, o : WillSettle(inbox[s], u, o) =>
            Settles(m, u, o) \/ WillSettle(Tail(inbox[s]), u, o)
  BY <1>1, <1>2, SaidLess
<1>4. \/ m.kind = "list" /\ TakeList(s, m)
      \/ m.kind = "state" /\ TakeState(s, m)
      \/ m.kind = "requested" /\ TakeRequested(s, m)
      \/ m.kind = "decision" /\ TakeDecision(s, m)
  <2>1. m.kind \in {"list", "state", "requested", "decision"}
    BY <1>3 DEF Message
  <2>2. CASE m.kind = "list"
    BY <2>2 DEF Receive
  <2>3. CASE m.kind = "state"
    BY <2>3 DEF Receive
  <2>4. CASE m.kind = "requested"
    BY <2>4 DEF Receive
  <2>5. CASE m.kind = "decision"
    BY <2>5 DEF Receive
  <2> QED BY <2>1, <2>2, <2>3, <2>4, <2>5
<1> HIDE DEF m
<1>5. /\ m.kind = "list" => m.members \in SUBSET Person
      /\ m.kind = "state" => m.owner \in Person /\ m.controller \in Person
      /\ m.kind = "decision" => /\ m.owner \in Person
                                /\ m.status \in {"approved", "rejected", "revoked"}
  BY <1>3 DEF Message
<1>6. /\ rooms' \in [Person -> SUBSET Person]
      /\ \A t \in Person : rooms'[t] \subseteq rooms[t]
      /\ activeOwner' \in [Person -> Person \cup {NoPerson}]
  <2>1. CASE TakeList(s, m) /\ m.kind = "list"
    <3>1. \E o \in m.members \cup {NoPerson} : Activate(s, o)
      BY <2>1 DEF TakeList
    <3>2. PICK o \in Person \cup {NoPerson} : Activate(s, o)
      BY <1>5, <2>1, <3>1
    <3> QED BY <3>2, ActivateKeeps DEF SharingInv
  <2>2. CASE UNCHANGED <<rooms, activeOwner>>
    BY <2>2 DEF SharingInv, ServerOK, PagesOK
  <2> QED BY <1>4, <2>1, <2>2
          DEF TakeState, TakeRequested, TakeDecision
<1>7. /\ shown' \in [Person -> [Person -> Person \cup {NoPerson}]]
      /\ \A t, o \in Person : t # s => shown'[t][o] = shown[t][o]
      /\ \A o \in Person :
            shown'[s][o] = IF OfState(m, o) THEN m.controller ELSE shown[s][o]
  <2>1. CASE m.kind = "state"
    <3>1. shown' = [shown EXCEPT ![s][m.owner] = m.controller]
      BY <1>4, <2>1 DEF TakeState
    <3> QED BY <1>5, <2>1, <3>1 DEF SharingInv, PagesOK, OfState
  <2>2. CASE m.kind # "state"
    <3>1. UNCHANGED shown
      BY <1>4, <2>2
         DEF TakeList, TakeRequested, TakeDecision
    <3> QED BY <2>2, <3>1 DEF SharingInv, PagesOK, OfState
  <2> QED BY <2>1, <2>2
<1>8. /\ status' \in [Person -> [Person -> Status]]
      /\ \A t, o \in Person : t # s => status'[t][o] = status[t][o]
      /\ \A o \in Person :
            status'[s][o] = "pending" => status[s][o] = "pending" /\ ~Settles(m, s, o)
  <2>1. CASE m.kind = "state" /\ m.controller = s
    <3>1. status' = [status EXCEPT ![s][m.owner] = "approved"]
      BY <1>4, <2>1 DEF TakeState
    <3> QED BY <1>5, <2>1, <3>1 DEF SharingInv, PagesOK, Settles, OfState,
                                     Status
  <2>2. CASE m.kind = "decision" /\ m.by = s
    <3>1. status' = [status EXCEPT ![s][m.owner] = m.status]
      BY <1>4, <2>2 DEF TakeDecision
    <3> QED BY <1>5, <2>2, <3>1 DEF SharingInv, PagesOK, Settles, OfState,
                                     Status
  <2>3. CASE /\ ~(m.kind = "state" /\ m.controller = s)
             /\ ~(m.kind = "decision" /\ m.by = s)
    <3>1. UNCHANGED status
      BY <1>4, <2>3 DEF TakeState, TakeDecision, TakeList,
                        TakeRequested
    <3> QED BY <2>3, <3>1 DEF SharingInv, PagesOK, Settles, OfState
  <2> QED BY <2>1, <2>2, <2>3
<1>9. inbox'[s] = Tail(inbox[s]) /\ \A t \in Person : t # s => inbox'[t] = inbox[t]
  BY <1>1 DEF SharingInv, PagesOK
<1>10. ServerOK'
  BY <1>1, <1>6 DEF SharingInv, ServerOK
<1>11. PagesOK'
  BY <1>1, <1>3, <1>6, <1>7, <1>8 DEF SharingInv, PagesOK
<1>12. FreshOK'
  <2>1. \A t \in Person \ following :
           t # s /\ \A o \in Person : status[t][o] = "idle" => status'[t][o] = "idle"
    BY <1>1, <1>8
  <2> QED BY <1>1, <1>7, <1>9, <2>1 DEF SharingInv, FreshOK
<1>13. ShownOK'
  <2>1. ASSUME NEW t \in following, NEW o \in rooms'[t], <<t, o>> \notin untold
        PROVE  WillShow(inbox'[t], o, shown'[t][o], controller[o])
    <3>1. t \in Person /\ o \in rooms[t] /\ o \in Person
      BY <1>2, <1>6, <2>1 DEF SharingInv, ServerOK
    <3>2. WillShow(inbox[t], o, shown[t][o], controller[o])
      BY <2>1, <3>1 DEF SharingInv, ShownOK
    <3>3. CASE t = s
      BY <1>3, <1>7, <1>9, <3>1, <3>2, <3>3
    <3>4. CASE t # s
      BY <1>7, <1>9, <3>1, <3>2, <3>4
    <3> QED BY <3>3, <3>4
  <2> QED BY <1>1, <2>1 DEF ShownOK
<1>14. WaitsOK'
  <2>1. ASSUME NEW t \in following, NEW o \in Person, status'[t][o] = "pending"
        PROVE  t \in pending[o] \/ <<t, o>> \in forsaken \/ WillSettle(inbox'[t], t, o)
    <3>1. t \in Person /\ status[t][o] = "pending"
      BY <1>2, <1>8, <2>1
    <3>2. t \in pending[o] \/ <<t, o>> \in forsaken \/ WillSettle(inbox[t], t, o)
      BY <2>1, <3>1 DEF SharingInv, WaitsOK
    <3>3. CASE t = s
      BY <1>3, <1>8, <1>9, <2>1, <3>2, <3>3
    <3>4. CASE t # s
      BY <1>9, <3>1, <3>2, <3>4
    <3> QED BY <3>3, <3>4
  <2> QED BY <1>1, <2>1 DEF WaitsOK
<1> QED BY <1>10, <1>11, <1>12, <1>13, <1>14 DEF SharingInv

LEMMA RequestedTells ==
    ASSUME NEW o \in Person, NEW s \in Person
    PROVE  /\ Requested(o, s) \in Message
           /\ \A u : ~OfState(Requested(o, s), u)
BY MessageKinds DEF OfState, Requested

\* Who asks, and is shown to wait, is among those who ask, or forsaken.
LEMMA RequestSaid ==
    ASSUME SharingInv, NoPerson \notin Person, NEW s \in Person,
           RequestControl(s)
    PROVE  SharingInv'
<1> DEFINE o == activeOwner[s]
           R == Requested(o, s)
           to == [t \in Person |-> IF t \in Room(o) THEN <<R>> ELSE <<>>]
<1>1. o \in Person /\ s \in following /\ following \subseteq Person
  BY DEF RequestControl, CanRequest, SharingInv, PagesOK
<1>2. UNCHANGED <<inProject, rooms, controller, following, activeOwner, shown, untold>>
      /\ status' = [status EXCEPT ![s][o] = "pending"]
  BY DEF RequestControl, Waits
<1>3. \/ /\ pending' = [pending EXCEPT ![o] = @ \cup {s}] /\ Send(to)
         /\ forsaken' = forsaken \ {<<s, o>>}
      \/ /\ UNCHANGED <<pending, inbox>>
         /\ forsaken' = forsaken \cup {<<s, o>>}
  BY DEF RequestControl, Announce
<1>4. R \in Message /\ \A u : ~OfState(R, u)
  BY <1>1, RequestedTells
<1>5. \A t \in Person : to[t] = <<R>> \/ to[t] = <<>>
  OBVIOUS
<1> HIDE DEF o, to, R
<1>6. \A t \in Person : to[t] \in Messages /\ \A u : NoneOf(to[t], u)
  BY <1>4, <1>5, OneSaid, NothingSaid
<1>7. /\ pending' \in [Person -> SUBSET Person]
      /\ s \in pending'[o] \/ <<s, o>> \in forsaken'
      /\ \A t, u \in Person : t # s \/ u # o =>
            /\ t \in pending[u] => t \in pending'[u]
            /\ <<t, u>> \in forsaken => <<t, u>> \in forsaken'
  BY <1>1, <1>3 DEF SharingInv, ServerOK
<1>8. \A t \in Person : inbox[t] \in Messages
  BY DEF SharingInv, PagesOK
<1>9. /\ inbox' \in [Person -> Messages]
      /\ \A t \in Person :
            inbox'[t] = inbox[t] \/ (t \in following /\ inbox'[t] = inbox[t] \o to[t])
  <2>1. CASE UNCHANGED inbox
    BY <2>1 DEF SharingInv, PagesOK
  <2>2. CASE Send(to)
    BY <1>6, <2>2, SendFacts DEF SharingInv
  <2> QED BY <1>3, <2>1, <2>2
<1>10. ASSUME NEW t \in Person
       PROVE  /\ t \notin following => inbox'[t] = inbox[t]
              /\ \A u, c, d : WillShow(inbox[t], u, c, d) => WillShow(inbox'[t], u, c, d)
              /\ \A u : WillSettle(inbox[t], t, u) => WillSettle(inbox'[t], t, u)
  <2>1. CASE inbox'[t] = inbox[t]
    BY <2>1
  <2>2. CASE t \in following /\ inbox'[t] = inbox[t] \o to[t]
    <3>1. inbox[t] \in Messages /\ to[t] \in Messages /\ \A u : NoneOf(to[t], u)
      BY <1>6, <1>8
    <3>2. \A u, c, d : WillShow(inbox[t], u, c, d) => WillShow(inbox'[t], u, c, d)
      BY <2>2, <3>1, SaidMore
    <3>3. \A u : WillSettle(inbox[t], t, u) => WillSettle(inbox'[t], t, u)
      BY <2>2, <3>1, SettleMore
    <3> QED BY <2>2, <3>2, <3>3
  <2> QED BY <1>9, <2>1, <2>2
<1>11. /\ status' \in [Person -> [Person -> Status]]
       /\ \A t, u \in Person : t # s \/ u # o => status'[t][u] = status[t][u]
  BY <1>1, <1>2 DEF SharingInv, PagesOK, Status
<1>12. ServerOK' /\ PagesOK' /\ FreshOK'
  BY <1>1, <1>2, <1>7, <1>9, <1>10, <1>11 DEF SharingInv, ServerOK, PagesOK, FreshOK
<1>13. ShownOK'
  BY <1>1, <1>2, <1>10 DEF SharingInv, ShownOK
<1>14. WaitsOK'
  <2>1. ASSUME NEW t \in following, NEW u \in Person, status'[t][u] = "pending"
        PROVE  t \in pending'[u] \/ <<t, u>> \in forsaken' \/ WillSettle(inbox'[t], t, u)
    <3>1. CASE t = s /\ u = o
      BY <1>7, <3>1
    <3>2. CASE t # s \/ u # o
      <4>1. t \in Person /\ status[t][u] = "pending"
        BY <1>1, <1>11, <2>1, <3>2
      <4>2. t \in pending[u] \/ <<t, u>> \in forsaken \/ WillSettle(inbox[t], t, u)
        BY <4>1 DEF SharingInv, WaitsOK
      <4> QED BY <1>7, <1>10, <3>2, <4>1, <4>2
    <3> QED BY <3>1, <3>2
  <2> QED BY <1>2, <2>1 DEF WaitsOK
<1> QED BY <1>12, <1>13, <1>14 DEF SharingInv

\* What is said to the room of s of a new controller tells all who are in it.
LEMMA RoomSaid ==
    ASSUME SharingInv, ServerOK', NEW s \in Person, NEW ms \in Messages,
           Announce(s, ms), UNCHANGED <<following, shown, status, activeOwner, rooms>>,
           LastOf(ms, s, controller'[s]), \A u : u # s => NoneOf(ms, u),
           \A u \in Person : u # s => controller'[u] = controller[u],
           untold' = untold \ {<<t, s>> : t \in Room(s)},
           \A t \in following, u \in Person :
              t \in pending[u] \/ <<t, u>> \in forsaken =>
                 \/ t \in pending'[u] \/ <<t, u>> \in forsaken'
                 \/ t \in Room(s) /\ WillSettle(ms, t, u)
    PROVE  SharingInv'
<1> DEFINE to == [t \in Person |-> IF t \in Room(s) THEN ms ELSE <<>>]
<1>1. Send(to)
  BY DEF Announce
<1>2. \A t \in Person : to[t] = IF s \in rooms[t] THEN ms ELSE <<>>
  BY DEF Room
<1>3. \A t \in Person : t \in Room(s) <=> s \in rooms[t]
  BY DEF Room
<1> HIDE DEF to
<1>4. \A t \in Person : to[t] \in Messages
  BY <1>2, NothingSaid
<1>5. following \subseteq Person /\ \A t \in Person : rooms[t] \subseteq Person
  BY DEF SharingInv, ServerOK, PagesOK
<1>6. \A t \in following : \A u \in rooms'[t] :
         <<t, u>> \notin untold' =>
            \/ LastOf(to[t], u, controller'[u])
            \/ /\ NoneOf(to[t], u) /\ u \in rooms[t] /\ <<t, u>> \notin untold
               /\ controller'[u] = controller[u]
  <2>1. ASSUME NEW t \in following, NEW u \in rooms[t], <<t, u>> \notin untold'
        PROVE  \/ LastOf(to[t], u, controller'[u])
               \/ /\ NoneOf(to[t], u) /\ <<t, u>> \notin untold
                  /\ controller'[u] = controller[u]
    <3>1. t \in Person /\ u \in Person
      BY <1>5
    <3>2. CASE u = s
      BY <1>2, <3>1, <3>2
    <3>3. CASE u # s
      <4>1. NoneOf(to[t], u)
        BY <1>2, <3>1, <3>3, NothingSaid
      <4>2. <<t, u>> \notin untold
        BY <2>1, <3>3
      <4> QED BY <3>1, <3>3, <4>1, <4>2
    <3> QED BY <3>2, <3>3
  <2> QED BY <2>1
<1>7. \A t \in following, u \in Person :
         status[t][u] = "pending" /\ (t \in pending[u] \/ <<t, u>> \in forsaken) =>
            t \in pending'[u] \/ <<t, u>> \in forsaken' \/ WillSettle(to[t], t, u)
  BY <1>2, <1>3, <1>5
<1> QED BY <1>1, <1>4, <1>6, <1>7, SaysStep

LEMMA DecideSaid ==
    ASSUME SharingInv, NEW s \in Person, NEW by \in Person, NEW approve \in BOOLEAN,
           Decide(s, by, approve)
    PROVE  SharingInv'
<1>1. UNCHANGED <<inProject, rooms, following, shown, status, activeOwner>>
  BY DEF Decide, display
<1>2. CASE UNCHANGED <<controller, pending, inbox, untold, forsaken>>
  BY <1>1, <1>2 DEF SharingInv, ServerOK, PagesOK, FreshOK, ShownOK, WaitsOK
<1>3. CASE Present(s) /\ by \in pending[s]
  <2> DEFINE d == IF approve THEN "approved" ELSE "rejected"
             S == StateMessage(s, controller'[s], pending'[s])
             D == Decision(s, by, d)
             ms == <<S, D>>
  <2>1. /\ pending' = [pending EXCEPT ![s] = @ \ {by}]
        /\ controller' = [controller EXCEPT ![s] = by] \/ controller' = controller
        /\ Announce(s, ms)
        /\ untold' = untold \ {<<t, s>> : t \in Room(s)}
        /\ forsaken' = forsaken \cup {<<t, s>> : t \in ({by} \cap following)
                                                       \ Room(s)}
    BY <1>3 DEF Decide
  <2>2. /\ controller' \in [Person -> Person] /\ pending' \in [Person -> SUBSET Person]
        /\ \A u \in Person : u # s => controller'[u] = controller[u]
        /\ \A u \in Person : pending[u] \ {by} \subseteq pending'[u]
        /\ \A u \in Person : u # s => pending'[u] = pending[u]
    BY <2>1 DEF SharingInv, ServerOK
  <2>3. ServerOK'
    BY <1>1, <2>2 DEF SharingInv, ServerOK
  <2>4. S \in Message /\ (\A u : OfState(S, u) <=> u = s) /\ S.controller = controller'[s]
    BY <2>2, StateTells
  <2>5. D \in Message /\ (\A u : ~OfState(D, u)) /\ Settles(D, by, s)
    BY DecisionTells
  <2> HIDE DEF S, D
  <2>6. /\ ms \in Messages /\ LastOf(ms, s, controller'[s])
        /\ \A u : u # s => NoneOf(ms, u)
        /\ WillSettle(ms, by, s)
    BY <2>4, <2>5, TwoSaid
  <2> HIDE DEF ms
  <2>7. \A t \in following, u \in Person :
           t \in pending[u] \/ <<t, u>> \in forsaken =>
              \/ t \in pending'[u] \/ <<t, u>> \in forsaken'
              \/ t \in Room(s) /\ WillSettle(ms, t, u)
    <3>1. ASSUME NEW t \in following, NEW u \in Person,
                 t \in pending[u], t \notin pending'[u], t \notin Room(s)
          PROVE  <<t, u>> \in forsaken'
      <4>1. t = by /\ u = s
        BY <2>2, <3>1
      <4> QED BY <2>1, <3>1, <4>1
    <3>2. ASSUME NEW t \in following, NEW u \in Person,
                 t \in pending[u], t \notin pending'[u]
          PROVE  t = by /\ u = s
      BY <2>2, <3>2
    <3> QED BY <2>1, <2>6, <3>1, <3>2
  <2> QED BY <1>1, <2>1, <2>2, <2>3, <2>6, <2>7, RoomSaid
<1> QED BY <1>2, <1>3 DEF Decide

LEMMA RevokeSaid ==
    ASSUME SharingInv, NEW s \in Person, Revoke(s)
    PROVE  SharingInv'
<1>1. UNCHANGED <<inProject, rooms, following, shown, status, activeOwner>>
  BY DEF Revoke, display
<1>2. CASE UNCHANGED <<controller, pending, inbox, untold, forsaken>>
  BY <1>1, <1>2 DEF SharingInv, ServerOK, PagesOK, FreshOK, ShownOK, WaitsOK
<1>3. CASE Present(s)
  <2> DEFINE had == controller[s]
             S == StateMessage(s, s, {})
             D == Decision(s, had, "revoked")
             rest == IF had # s THEN <<D>> ELSE <<>>
             ms == <<S>> \o rest
  <2>1. /\ controller' = [controller EXCEPT ![s] = s]
        /\ pending' = [pending EXCEPT ![s] = {}]
        /\ Announce(s, ms)
        /\ untold' = untold \ {<<t, s>> : t \in Room(s)}
        /\ forsaken' = forsaken \cup {<<t, s>> : t \in pending[s] \cap following}
    BY <1>3 DEF Revoke
  <2>2. /\ controller' \in [Person -> Person] /\ pending' \in [Person -> SUBSET Person]
        /\ controller'[s] = s
        /\ \A u \in Person : u # s => controller'[u] = controller[u]
        /\ \A u \in Person : u # s => pending'[u] = pending[u]
    BY <2>1 DEF SharingInv, ServerOK
  <2>3. ServerOK' /\ had \in Person
    BY <1>1, <2>2 DEF SharingInv, ServerOK
  <2>4. S \in Message /\ (\A u : OfState(S, u) <=> u = s) /\ S.controller = s
    BY StateTells
  <2>5. D \in Message /\ \A u : ~OfState(D, u)
    BY <2>3, DecisionTells
  <2> HIDE DEF S, D
  <2>6. <<S>> \in Messages /\ LastOf(<<S>>, s, s) /\ \A u : u # s => NoneOf(<<S>>, u)
    BY <2>4, OneSaid
  <2>7. rest \in Messages /\ \A u : NoneOf(rest, u)
    BY <2>5, OneSaid, NothingSaid
  <2> HIDE DEF rest
  <2>8. /\ ms \in Messages /\ LastOf(ms, s, controller'[s])
        /\ \A u : u # s => NoneOf(ms, u)
    <3>1. /\ <<S>> \o rest \in Messages
          /\ \A u : NoneOf(rest, u) /\ NoneOf(<<S>>, u) => NoneOf(<<S>> \o rest, u)
      BY <2>6, <2>7, SaidMore
    <3>2. NoneOf(rest, s) /\ LastOf(<<S>>, s, s)
      BY <2>6, <2>7
    <3>3. LastOf(<<S>> \o rest, s, s)
      BY <2>6, <2>7, <3>2, SaidMore
    <3> QED BY <2>2, <2>6, <2>7, <3>1, <3>3
  <2> HIDE DEF ms
  <2>9. \A t \in following, u \in Person :
           t \in pending[u] \/ <<t, u>> \in forsaken =>
              \/ t \in pending'[u] \/ <<t, u>> \in forsaken'
              \/ t \in Room(s) /\ WillSettle(ms, t, u)
    BY <2>1, <2>2
  <2> QED BY <1>1, <2>1, <2>2, <2>3, <2>8, <2>9, RoomSaid
<1> QED BY <1>2, <1>3 DEF Revoke

LEMMA SharingStarts ==
    ASSUME SharingInit PROVE SharingInv
<1>1. ServerOK /\ PagesOK
  <2>1. <<>> \in Messages
    BY NothingSaid
  <2> QED BY <2>1 DEF SharingInit, ServerOK, PagesOK, Status
<1>2. FreshOK
  BY DEF SharingInit, FreshOK
<1>3. ShownOK /\ WaitsOK
  BY DEF SharingInit, ShownOK, WaitsOK
<1> QED BY <1>1, <1>2, <1>3 DEF SharingInv

LEMMA SharingStep ==
    ASSUME SharingInv, Elsewhere \subseteq Person, NoPerson \notin Person,
           [SharingNext]_sharingVars
    PROVE  SharingInv'
<1>1. CASE UNCHANGED sharingVars
  BY <1>1 DEF sharingVars, server, display,
              SharingInv, ServerOK, PagesOK, FreshOK, ShownOK, WaitsOK
<1>2. ASSUME NEW s \in Person,
             \/ Mount(s) \/ Unmount(s) \/ Cut(s)
             \/ Receive(s) \/ EnterDone(s) \/ ListDone(s)
             \/ Refused(s) \/ RequestControl(s) \/ Revoke(s)
      PROVE  SharingInv'
  BY <1>2, MountSaid, GoesSaid, ReceiveSaid, EnterSaid, ListSaid, RoomsSaid,
     RequestSaid, RevokeSaid
<1>3. ASSUME NEW s \in Person, NEW o \in Person,
             Select(s, o) \/ JoinDone(s, o)
      PROVE  SharingInv'
  BY <1>3, RoomsSaid, JoinSaid
<1>4. ASSUME NEW s \in Person, NEW by \in Person, NEW approve \in BOOLEAN,
             Decide(s, by, approve)
      PROVE  SharingInv'
  BY <1>4, DecideSaid
<1> QED BY <1>1, <1>2, <1>3, <1>4 DEF SharingNext

LEMMA SharingHolds == SharingSpec => []SharingInv
<1>1. Elsewhere \subseteq Person /\ NoPerson \notin Person
  BY SharingAssumption
<1>2. SharingInit => SharingInv
  BY SharingStarts
<1>3. SharingInv /\ [SharingNext]_sharingVars => SharingInv'
  BY <1>1, SharingStep
<1> QED BY <1>2, <1>3, PTL DEF SharingSpec

\* A page that has taken in all it was told shows who controls a terminal in
\* whose room it is, whatever the members do and however the handlers that await
\* a check end; who controls it by a departure is told by the list alone.
THEOREM SharingShown == SharingSpec => []ControlShown
<1>1. SharingSpec => []SharingInv
  BY SharingHolds
<1>2. ASSUME SharingInv PROVE ControlShown
  <2>1. ASSUME NEW s \in Person, NEW o \in Person, s \in following,
               inbox[s] = <<>>, o \in rooms[s], <<s, o>> \notin untold
        PROVE  shown[s][o] \in {NoPerson, controller[o]}
    <3>1. WillShow(<<>>, o, shown[s][o], controller[o])
      BY <1>2, <2>1 DEF SharingInv, ShownOK
    <3>2. ~LastOf(<<>>, o, controller[o])
      BY DEF LastOf
    <3> QED BY <3>1, <3>2 DEF WillShow
  <2> QED BY <2>1 DEF ControlShown
<1> QED BY <1>1, <1>2, PTL

\* Who is shown to wait for an answer, and so cannot ask again, is among those
\* who ask, unless the request was turned down, dropped or decided without a word.
THEOREM SharingWaits == SharingSpec => []WaitingAsks
<1>1. SharingSpec => []SharingInv
  BY SharingHolds
<1>2. ASSUME SharingInv PROVE WaitingAsks
  <2>1. ASSUME NEW s \in Person, NEW o \in Person, s \in following,
               inbox[s] = <<>>, status[s][o] = "pending"
        PROVE  s \in pending[o] \/ <<s, o>> \in forsaken
    BY <1>2, <2>1, NothingSaid DEF SharingInv, WaitsOK
  <2> QED BY <2>1 DEF WaitingAsks
<1> QED BY <1>1, <1>2, PTL

-------------------------------------------------------------------------------
(* The live sync that the opening and closing of terminals starts and      *)
(* stops: LiveSync, of one project.  While no start is overwritten and no  *)
(* stop skipped, the project is watched exactly while a terminal holds it. *)

\* New states are fresh, and there is room for those that are being made.
Fresh ==
    /\ live \subseteq 1..statesMade
    /\ statesMade + Cardinality(starting) <= MaxState

\* The state in the map has a reference that stop can take away.
Counted == currentState # NoState => refs[currentState] >= 1

\* A run closes the terminal that awaits it, which awaits no other run; unless
\* something was lost, who is starting is still open.
Callers ==
    /\ \A st \in LiveState : caller[st] # NoTerminal => pc[caller[st]] = "closing"
    /\ \A s1, s2 \in LiveState : caller[s1] = caller[s2] /\ caller[s1] # NoTerminal => s1 = s2
    /\ ~lost => \A t \in starting : pc[t] = "open"

LiveInv == LiveTypeOK /\ WatchedWhileHeld /\ Fresh /\ Counted /\ Callers

-------------------------------------------------------------------------------
(* Sets of terminals                                                       *)

\* Holding terminals, and those that are starting, are finitely many.
LEMMA FiniteTerminals ==
    ASSUME NEW S \in SUBSET Terminal
    PROVE  /\ IsFiniteSet(S) /\ Cardinality(S) \in Nat
           /\ \A t \in Terminal \ S : Cardinality(S \cup {t}) = Cardinality(S) + 1
           /\ \A t \in S : Cardinality(S \ {t}) = Cardinality(S) - 1
           /\ Cardinality(S) = 0 <=> S = {}
BY FS_Subset, FS_CardinalityType, FS_AddElement, FS_RemoveElement,
   FS_EmptySet, LiveSyncAssumption

-------------------------------------------------------------------------------
(* The initial states                                                      *)

LEMMA LiveInitInv == LiveInit => LiveInv
<1> SUFFICES ASSUME LiveInit PROVE LiveInv
    OBVIOUS
<1> USE LiveSyncAssumption DEF LiveInit, LiveState, NoState
<1>1. LiveTypeOK
  <2>1. LiveFlagsOK
    BY DEF LiveFlagsOK
  <2> QED
    BY <2>1 DEF LiveTypeOK
<1>2. Holding = {}
    BY DEF Holding
<1>3. WatchedWhileHeld
    BY <1>2 DEF WatchedWhileHeld
<1>4. Fresh
    BY FS_EmptySet DEF Fresh
<1>5. Counted /\ Callers
    BY DEF Counted, Callers
<1> QED
    BY <1>1, <1>3, <1>4, <1>5 DEF LiveInv
-------------------------------------------------------------------------------
(* stop                                                                    *)

\* stop preserves what does not depend on the terminals.
LEMMA StopKeeps ==
    ASSUME LiveInv, Stop, UNCHANGED <<statesMade, starting>>
    PROVE  /\ currentState' \in LiveState \cup {NoState} /\ refs' \in [LiveState -> Nat]
           /\ live' \subseteq live /\ timer' \subseteq timer
           /\ timer' \subseteq live'
           /\ Fresh' /\ Counted'
<1> USE LiveSyncAssumption DEF LiveState, NoState
<1>1. /\ currentState \in LiveState \cup {NoState} /\ refs \in [LiveState -> Nat]
      /\ timer \subseteq live
      /\ currentState # NoState => refs[currentState] >= 1
    BY DEF LiveInv, LiveTypeOK, WatchedWhileHeld, Counted
<1>2. CASE currentState = NoState
    BY <1>1, <1>2 DEF Stop, Drop, Fresh, Counted, LiveInv
<1>3. CASE currentState # NoState
  <2>1. currentState \in LiveState /\ refs[currentState] \in Nat \ {0}
    BY <1>1, <1>3
  <2>2. refs' = [refs EXCEPT ![currentState] = @ - 1]
    BY <1>3 DEF Stop, Drop
  <2>3. refs' \in [LiveState -> Nat] /\ refs'[currentState] = refs[currentState] - 1
    BY <1>1, <2>1, <2>2
  <2>4. CASE refs[currentState] > 1
    <3>1. UNCHANGED <<currentState, live, timer>>
      BY <1>3, <2>4 DEF Stop, Drop
    <3> QED
      BY <1>1, <2>1, <2>3, <2>4, <3>1 DEF Fresh, Counted, LiveInv
  <2>5. CASE ~(refs[currentState] > 1)
    <3>1. /\ currentState' = NoState /\ live' = live \ {currentState}
          /\ timer' = timer \ {currentState}
      BY <1>3, <2>5 DEF Stop, Drop
    <3> QED
      BY <1>1, <2>3, <3>1 DEF Fresh, Counted, LiveInv
  <2> QED
    BY <2>4, <2>5
<1> QED
    BY <1>2, <1>3

\* While nothing was lost, the stop of a terminal that holds the project leaves
\* it watched for the others, and unwatched after the last one.
LEMMA StopWatched ==
    ASSUME LiveInv, Stop, UNCHANGED starting, ~lost, NEW t \in Holding,
           pc' = [pc EXCEPT ![t] = "closed"]
    PROVE  /\ live' = IF Holding' = {} THEN {} ELSE {currentState'}
           /\ currentState' = NoState <=> Holding' = {}
           /\ currentState' # NoState => refs'[currentState'] = Cardinality(Holding')
<1> USE LiveSyncAssumption DEF LiveState, NoState
<1>1. /\ pc \in [Terminal -> {"closed", "open", "closing"}]
      /\ currentState \in LiveState \cup {NoState} /\ refs \in [LiveState -> Nat]
      /\ live = IF Holding = {} THEN {} ELSE {currentState}
      /\ currentState = NoState <=> Holding = {}
      /\ currentState # NoState => refs[currentState] = Cardinality(Holding)
    BY DEF LiveInv, LiveTypeOK, WatchedWhileHeld
<1>2. t \in Terminal /\ Holding \subseteq Terminal /\ Holding' \subseteq Terminal
    BY DEF Holding
<1>3. Holding' = Holding \ {t}
    BY <1>1, <1>2 DEF Holding
<1>4. /\ currentState # NoState /\ currentState \in LiveState /\ live = {currentState}
      /\ refs[currentState] = Cardinality(Holding)
    BY <1>1
<1>5. /\ Cardinality(Holding) \in Nat
      /\ Cardinality(Holding') = Cardinality(Holding) - 1
      /\ Cardinality(Holding') = 0 <=> Holding' = {}
    BY <1>2, <1>3, FiniteTerminals
<1>6. refs' = [refs EXCEPT ![currentState] = @ - 1]
    BY <1>4 DEF Stop, Drop
<1>7. refs'[currentState] = Cardinality(Holding')
    BY <1>1, <1>4, <1>5, <1>6
<1>8. CASE refs[currentState] > 1
  <2>1. UNCHANGED <<currentState, live>>
    BY <1>4, <1>8 DEF Stop, Drop
  <2>2. Holding' # {}
    BY <1>4, <1>5, <1>8
  <2> QED
    BY <1>4, <1>7, <2>1, <2>2
<1>9. CASE ~(refs[currentState] > 1)
  <2>1. currentState' = NoState /\ live' = live \ {currentState}
    BY <1>4, <1>9 DEF Stop, Drop
  <2>2. Holding' = {}
    <3>1. Cardinality(Holding) # 0
      BY <1>2, <1>3, FiniteTerminals
    <3> QED
      BY <1>4, <1>5, <1>9, <3>1
  <2> QED
    BY <1>4, <2>1, <2>2
<1> QED
    BY <1>8, <1>9

-------------------------------------------------------------------------------
(* start                                                                   *)

LEMMA StartCountedInv ==
    ASSUME LiveInv, NEW t \in Terminal, StartCounted(t)
    PROVE  LiveInv'
<1> USE LiveSyncAssumption DEF LiveState, NoState, runVars,
       Becomes
<1> USE DEF StartCounted
<1>1. LiveTypeOK' /\ refs' \in [LiveState -> Nat] /\ refs'[currentState] = refs[currentState] + 1
  <2>1. currentState \in LiveState /\ refs \in [LiveState -> Nat]
    BY DEF LiveInv, LiveTypeOK
  <2>2. refs' \in [LiveState -> Nat] /\ refs'[currentState] = refs[currentState] + 1
    BY <2>1
  <2>3. LiveFlagsOK'
    BY DEF LiveInv, LiveTypeOK, LiveFlagsOK
  <2> QED
    BY <2>2, <2>3 DEF LiveInv, LiveTypeOK
<1>2. WatchedWhileHeld'
  <2>1. /\ t \notin Holding /\ Holding \subseteq Terminal
        /\ Holding' = Holding \cup {t}
    BY DEF Holding, LiveInv, LiveTypeOK
  <2>2. Cardinality(Holding') = Cardinality(Holding) + 1
    BY <2>1, FiniteTerminals
  <2> QED
    BY <1>1, <2>1, <2>2 DEF WatchedWhileHeld, LiveInv
<1>3. Fresh' /\ Counted'
  <2>1. Fresh'
    BY DEF LiveInv, Fresh
  <2>2. Counted'
    <3>1. currentState \in LiveState /\ refs[currentState] \in Nat
      BY DEF LiveInv, LiveTypeOK
    <3>2. refs'[currentState] >= 1 /\ currentState' = currentState
      BY <1>1, <3>1
    <3> QED
      BY <3>2 DEF Counted
  <2> QED
    BY <2>1, <2>2
<1>4. Callers'
    BY DEF LiveInv, LiveTypeOK, Callers
<1> QED
    BY <1>1, <1>2, <1>3, <1>4 DEF LiveInv

LEMMA StartFirstInv ==
    ASSUME LiveInv, NEW t \in Terminal, StartFirst(t)
    PROVE  LiveInv'
<1> USE LiveSyncAssumption DEF LiveState, NoState, runVars,
       stateVars, Becomes
<1> USE DEF StartFirst
<1>1. LiveTypeOK'
  <2>1. LiveFlagsOK'
    BY DEF LiveInv, LiveTypeOK, LiveFlagsOK
  <2> QED
    BY <2>1 DEF LiveInv, LiveTypeOK
<1>2. WatchedWhileHeld'
  <2>1. Holding' = Holding
    BY DEF Holding, LiveInv, LiveTypeOK
  <2> QED
    BY <2>1 DEF WatchedWhileHeld, LiveInv
<1>3. Fresh' /\ Counted'
  <2>1. starting \in SUBSET Terminal /\ statesMade \in Nat
    BY DEF LiveInv, LiveTypeOK
  <2>2. Cardinality(starting') = Cardinality(starting) + 1
    BY <2>1, FiniteTerminals
  <2>3. Cardinality(starting) \in Nat
    BY <2>1, FiniteTerminals
  <2> QED
    BY <2>1, <2>2, <2>3 DEF LiveInv, Fresh, Counted
<1>4. Callers'
    BY DEF LiveInv, LiveTypeOK, Callers
<1> QED
    BY <1>1, <1>2, <1>3, <1>4 DEF LiveInv

LEMMA LiveStartedInv ==
    ASSUME LiveInv, NEW t \in Terminal, FirstStarted(t)
    PROVE  LiveInv'
<1> USE LiveSyncAssumption DEF LiveState, NoState, runVars
<1> USE DEF FirstStarted
<1>1. /\ starting \in SUBSET Terminal /\ statesMade \in Nat /\ t \in starting
      /\ refs \in [LiveState -> Nat] /\ live \subseteq 1..statesMade
      /\ statesMade + Cardinality(starting) <= MaxState
    BY DEF LiveInv, LiveTypeOK, Fresh
<1>2. /\ Cardinality(starting) \in Nat
      /\ Cardinality(starting') = Cardinality(starting) - 1
      /\ Cardinality(starting') \in Nat
  <2>1. starting' = starting \ {t} /\ starting' \in SUBSET Terminal
    BY <1>1
  <2> QED
    BY <1>1, <2>1, FiniteTerminals
<1>3. statesMade + 1 \in LiveState
    BY <1>1, <1>2
<1>4. refs' \in [LiveState -> Nat] /\ refs'[statesMade + 1] = 1
    BY <1>1, <1>3
<1>5. LiveTypeOK'
  <2>1. LiveFlagsOK'
    BY DEF LiveInv, LiveTypeOK, LiveFlagsOK
  <2> QED
    BY <1>1, <1>3, <1>4, <2>1 DEF LiveInv, LiveTypeOK
<1>6. WatchedWhileHeld'
  <2>1. timer' \subseteq live'
    BY DEF LiveInv, WatchedWhileHeld
  <2>2. ASSUME ~lost' PROVE Holding' = {t} /\ live = {}
    <3>1. ~lost /\ currentState = NoState
      BY <2>2
    <3>2. Holding = {} /\ live = {} /\ pc[t] = "open"
      BY <1>1, <3>1 DEF LiveInv, WatchedWhileHeld, Callers
    <3>3. Holding' = {t}
      BY <3>2 DEF Holding
    <3> QED
      BY <3>2, <3>3
  <2>3. Cardinality({t}) = 1
    BY FS_Singleton
  <2>4. currentState' = statesMade + 1 /\ currentState' # NoState /\ live' = live \cup {currentState'}
    BY <1>1
  <2>5. ~lost' => /\ live' = IF Holding' = {} THEN {} ELSE {currentState'}
                  /\ currentState' = NoState <=> Holding' = {}
                  /\ currentState' # NoState => refs'[currentState'] = Cardinality(Holding')
    BY <1>4, <2>2, <2>3, <2>4
  <2> QED
    BY <2>1, <2>5 DEF WatchedWhileHeld
<1>7. Fresh' /\ Counted'
    BY <1>1, <1>2, <1>4 DEF Fresh, Counted
<1>8. Callers'
  <2>1. \A u \in starting' : u \in starting
    OBVIOUS
  <2>2. ~lost' => ~lost
    OBVIOUS
  <2> QED
    BY <2>1, <2>2 DEF LiveInv, Callers
<1> QED
    BY <1>5, <1>6, <1>7, <1>8 DEF LiveInv

LEMMA StartFailsInv ==
    ASSUME LiveInv, NEW t \in Terminal, StartFails(t)
    PROVE  LiveInv'
<1> USE LiveSyncAssumption DEF LiveState, NoState, runVars,
       stateVars
<1> USE DEF StartFails
<1>1. LiveTypeOK'
  <2>1. LiveFlagsOK'
    BY DEF LiveInv, LiveTypeOK, LiveFlagsOK
  <2> QED
    BY <2>1 DEF LiveInv, LiveTypeOK
<1>2. WatchedWhileHeld' /\ Callers'
    BY DEF LiveInv, WatchedWhileHeld, Callers
<1>3. Fresh' /\ Counted'
  <2>1. starting \in SUBSET Terminal /\ statesMade \in Nat /\ t \in starting
    BY DEF LiveInv, LiveTypeOK
  <2>2. /\ Cardinality(starting) \in Nat
        /\ Cardinality(starting') = Cardinality(starting) - 1
    BY <2>1, FiniteTerminals
  <2> QED
    BY <2>1, <2>2 DEF LiveInv, Fresh, Counted
<1> QED
    BY <1>1, <1>2, <1>3 DEF LiveInv

-------------------------------------------------------------------------------
(* reconcileNow, stop, and the runs                                        *)

LEMMA CloseAtOnceInv ==
    ASSUME LiveInv, NEW t \in Terminal, CloseAtOnce(t)
    PROVE  LiveInv'
<1> USE LiveSyncAssumption DEF LiveState, NoState
<1>1. /\ Stop /\ UNCHANGED <<statesMade, starting, caller, run, broken, disk, seen, synced>>
      /\ pc[t] = "open" /\ pc' = [pc EXCEPT ![t] = "closed"]
      /\ queued' = IF currentState = NoState THEN queued ELSE queued \cup {currentState}
      /\ due' = IF currentState = NoState THEN due ELSE disk
    BY DEF CloseAtOnce, Becomes
<1>2. /\ currentState' \in LiveState \cup {NoState} /\ refs' \in [LiveState -> Nat]
      /\ live' \subseteq live /\ timer' \subseteq timer
      /\ timer' \subseteq live'
      /\ Fresh' /\ Counted'
    BY <1>1, StopKeeps
<1>3. LiveTypeOK'
  <2>1. LiveFlagsOK'
    BY DEF LiveInv, LiveTypeOK, LiveFlagsOK, CloseAtOnce, Leave
  <2> QED
    BY <1>1, <1>2, <2>1 DEF LiveInv, LiveTypeOK
<1>4. ~lost' => ~lost /\ t \notin starting
    BY DEF CloseAtOnce, Leave
<1>5. WatchedWhileHeld'
  <2>1. ~lost' => t \in Holding
    BY <1>1, <1>4 DEF Holding
  <2> QED
    BY <1>1, <1>2, <1>4, <2>1, StopWatched DEF WatchedWhileHeld
<1>6. Callers'
    BY <1>1, <1>4 DEF LiveInv, LiveTypeOK, Callers
<1> QED
    BY <1>2, <1>3, <1>5, <1>6 DEF LiveInv

LEMMA CloseReconcilingInv ==
    ASSUME LiveInv, NEW t \in Terminal, CloseReconciling(t) PROVE LiveInv'
<1> USE LiveSyncAssumption DEF LiveState, NoState, stateVars
<1>1. /\ UNCHANGED <<starting, currentState, statesMade, refs, live, timer, queued, broken,
                     disk, seen, synced>>
      /\ pc[t] = "open" /\ pc' = [pc EXCEPT ![t] = "closing"]
      /\ caller' = [caller EXCEPT ![currentState] = t] /\ due' = disk
      /\ run' = [run EXCEPT ![currentState] = "waiting"]
      /\ currentState # NoState
    BY DEF CloseReconciling, Becomes
<1>2. LiveTypeOK'
  <2>1. LiveFlagsOK'
    BY DEF LiveInv, LiveTypeOK, LiveFlagsOK, CloseReconciling, Leave
  <2> QED
    BY <1>1, <2>1 DEF LiveInv, LiveTypeOK
<1>3. ~lost' => ~lost /\ t \notin starting
    BY DEF CloseReconciling, Leave
<1>4. WatchedWhileHeld'
  <2>1. Holding' = Holding
    BY <1>1 DEF LiveInv, LiveTypeOK, Holding
  <2> QED
    BY <1>1, <1>3, <2>1 DEF LiveInv, WatchedWhileHeld
<1>5. Fresh' /\ Counted'
    BY <1>1 DEF LiveInv, Fresh, Counted
<1>6. Callers'
  <2>1. \A st \in LiveState : caller[st] # t
    BY <1>1 DEF LiveInv, Callers, LiveTypeOK
  <2> QED
    BY <1>1, <1>3, <2>1 DEF LiveInv, LiveTypeOK, Callers
<1> QED
    BY <1>2, <1>4, <1>5, <1>6 DEF LiveInv

\* A step that changes neither terminals nor states nor who awaits a run
\* preserves all but the types.
LEMMA LiveElsewhere ==
    ASSUME LiveInv, LiveTypeOK', UNCHANGED <<terminalVars, stateVars, caller>>,
           timer' \subseteq live
    PROVE  LiveInv'
<1>1. Holding' = Holding
    BY DEF Holding, terminalVars
<1>2. WatchedWhileHeld'
    BY <1>1 DEF LiveInv, WatchedWhileHeld, terminalVars,
       stateVars
<1>3. Fresh' /\ Counted' /\ Callers'
    BY DEF LiveInv, Fresh, Counted, Callers, terminalVars, stateVars
<1> QED
    BY <1>2, <1>3 DEF LiveInv

LEMMA PollInv ==
    ASSUME LiveInv, NEW st \in LiveState, Poll(st)
    PROVE  LiveInv'
<1>1. LiveFlagsOK'
    BY DEF LiveInv, LiveTypeOK, LiveFlagsOK, Poll, terminalVars
<1>2. LiveTypeOK' /\ timer' \subseteq live
    BY <1>1 DEF LiveInv, LiveTypeOK, WatchedWhileHeld, Poll,
       terminalVars, stateVars, runVars
<1> QED
    BY <1>2, LiveElsewhere DEF Poll, runVars

LEMMA TimerFiresInv ==
    ASSUME LiveInv, NEW st \in LiveState, TimerFires(st)
    PROVE  LiveInv'
<1>1. LiveFlagsOK'
    BY DEF LiveInv, LiveTypeOK, LiveFlagsOK, TimerFires,
       terminalVars
<1>2. LiveTypeOK' /\ timer' \subseteq live
    BY <1>1 DEF LiveInv, LiveTypeOK, WatchedWhileHeld, TimerFires,
       terminalVars, stateVars
<1> QED
    BY <1>2, LiveElsewhere DEF TimerFires

LEMMA ReadInv ==
    ASSUME LiveInv, NEW st \in LiveState, Read(st)
    PROVE  LiveInv'
<1>1. LiveFlagsOK'
    BY DEF LiveInv, LiveTypeOK, LiveFlagsOK, Read, terminalVars
<1>2. LiveTypeOK' /\ timer' \subseteq live
    BY <1>1 DEF LiveInv, LiveTypeOK, WatchedWhileHeld, Read,
       terminalVars, stateVars
<1> QED
    BY <1>2, LiveElsewhere DEF Read

LEMMA ChangeInv ==
    ASSUME LiveInv, Change
    PROVE  LiveInv'
<1>1. LiveFlagsOK'
    BY DEF LiveInv, LiveTypeOK, LiveFlagsOK, Change, terminalVars
<1>2. disk' \in 0..MaxChange
    BY LiveSyncAssumption DEF LiveInv, LiveTypeOK, Change
<1>3. LiveTypeOK' /\ timer' \subseteq live
    BY <1>1, <1>2 DEF LiveInv, LiveTypeOK, WatchedWhileHeld,
       Change, terminalVars, stateVars, runVars
<1> QED
    BY <1>3, LiveElsewhere DEF Change, runVars

\* The end of a run, whether it failed or not.
LEMMA FinishInv ==
    ASSUME LiveInv, NEW st \in LiveState, NEW fails \in BOOLEAN, Finish(st, fails),
           UNCHANGED <<starting, leftEarly, statesMade, disk, due>>, synced' \in 0..MaxChange
    PROVE  LiveInv'
<1> USE LiveSyncAssumption DEF LiveState, NoState
<1> DEFINE t == caller[st]
           bad == fails \/ st \in broken
           again == st \in queued
<1>1. /\ queued' = queued \ {st} /\ seen' = [seen EXCEPT ![st] = 0]
      /\ run' = [run EXCEPT ![st] = IF again THEN "waiting" ELSE "idle"]
      /\ broken' \in SUBSET (broken \cup {st})
      /\ caller' = [caller EXCEPT ![st] = IF again THEN @ ELSE NoTerminal]
    BY DEF Finish
<1>2. LiveFlagsOK'
  <2>1. fault' \in BOOLEAN /\ crashed' \in BOOLEAN /\ lost' \in BOOLEAN
    BY DEF LiveInv, LiveTypeOK, LiveFlagsOK, Finish
  <2> QED
    BY <2>1 DEF LiveInv, LiveTypeOK, LiveFlagsOK
<1>3. ASSUME /\ pc' \in [Terminal -> {"closed", "open", "closing"}]
             /\ currentState' \in LiveState \cup {NoState} /\ refs' \in [LiveState -> Nat]
             /\ live' \subseteq live /\ timer' \subseteq timer
      PROVE  LiveTypeOK'
  <2>1. run' \in [LiveState -> {"idle", "waiting", "read"}]
    BY <1>1 DEF LiveInv, LiveTypeOK
  <2>2. caller' \in [LiveState -> Terminal \cup {NoTerminal}]
    BY <1>1 DEF LiveInv, LiveTypeOK
  <2>3. seen' \in [LiveState -> 0..MaxChange]
    BY <1>1 DEF LiveInv, LiveTypeOK
  <2>4. queued' \subseteq LiveState /\ broken' \subseteq LiveState
    BY <1>1 DEF LiveInv, LiveTypeOK
  <2>5. live' \subseteq LiveState /\ timer' \subseteq LiveState
    BY <1>3 DEF LiveInv, LiveTypeOK
  <2> QED
    BY <1>2, <1>3, <2>1, <2>2, <2>3, <2>4, <2>5 DEF LiveInv, LiveTypeOK
<1>4. CASE again \/ t = NoTerminal
  <2>1. UNCHANGED <<pc, currentState, refs, live, timer, lost>>
    BY <1>4 DEF Finish
  <2>2. caller' = caller
    BY <1>1, <1>4 DEF LiveInv, LiveTypeOK
  <2>3. LiveTypeOK'
    BY <1>3, <2>1 DEF LiveInv, LiveTypeOK
  <2> QED
    BY <2>1, <2>2, <2>3, LiveElsewhere DEF terminalVars, stateVars,
       LiveInv, WatchedWhileHeld
<1>5. CASE ~again /\ t # NoTerminal
  <2>1. /\ pc' = [pc EXCEPT ![t] = "closed"]
        /\ IF bad THEN UNCHANGED <<currentState, refs, live, timer>> ELSE Stop
        /\ ~lost' => ~lost /\ ~bad
    BY <1>5 DEF Finish, Becomes
  <2>2. /\ t \in Terminal /\ pc[t] = "closing"
    BY <1>5 DEF LiveInv, LiveTypeOK, Callers
  <2>3. /\ currentState' \in LiveState \cup {NoState} /\ refs' \in [LiveState -> Nat]
        /\ live' \subseteq live /\ timer' \subseteq timer
        /\ timer' \subseteq live'
        /\ Fresh' /\ Counted'
    <3>1. CASE bad
      <4>1. UNCHANGED <<currentState, refs, live, timer, statesMade, starting>>
        BY <2>1, <3>1
      <4> QED
        BY <4>1 DEF LiveInv, LiveTypeOK, WatchedWhileHeld, Fresh, Counted
    <3>2. CASE ~bad
      BY <2>1, <3>2, StopKeeps
    <3> QED
      BY <3>1, <3>2
  <2>4. LiveTypeOK'
    BY <1>3, <2>1, <2>2, <2>3 DEF LiveInv, LiveTypeOK
  <2>5. WatchedWhileHeld'
    <3>1. ASSUME ~lost' PROVE t \in Holding /\ Stop /\ ~lost
      BY <2>1, <2>2, <3>1 DEF Holding, LiveInv, Callers
    <3> QED
      BY <2>1, <2>3, <3>1, StopWatched DEF WatchedWhileHeld
  <2>6. Callers'
    <3>1. caller' = [caller EXCEPT ![st] = NoTerminal]
      BY <1>1, <1>5
    <3>2. \A s \in LiveState : caller'[s] # NoTerminal => s # st /\ caller'[s] = caller[s]
      BY <3>1 DEF LiveInv, LiveTypeOK
    <3>3. \A s \in LiveState : caller'[s] # NoTerminal => caller'[s] # t
      BY <1>5, <3>2 DEF LiveInv, Callers
    <3>4. \A s \in LiveState : caller'[s] # NoTerminal => pc'[caller'[s]] = "closing"
      <4> SUFFICES ASSUME NEW s \in LiveState, caller'[s] # NoTerminal
                   PROVE  pc'[caller'[s]] = "closing"
        OBVIOUS
      <4>1. /\ caller'[s] = caller[s] /\ caller[s] \in Terminal \ {t}
            /\ pc[caller[s]] = "closing"
        BY <3>2, <3>3 DEF LiveInv, Callers, LiveTypeOK
      <4>2. pc'[caller[s]] = pc[caller[s]]
        BY <2>1, <4>1 DEF LiveInv, LiveTypeOK
      <4> QED
        BY <4>1, <4>2
    <3>5. \A s1, s2 \in LiveState :
             caller'[s1] = caller'[s2] /\ caller'[s1] # NoTerminal => s1 = s2
      BY <3>2 DEF LiveInv, Callers
    <3>6. ~lost' => \A u \in starting' : pc'[u] = "open"
      BY <2>1, <2>2 DEF LiveInv, Callers, LiveTypeOK
    <3> QED
      BY <3>4, <3>5, <3>6 DEF Callers
  <2> QED
    BY <2>3, <2>4, <2>5, <2>6 DEF LiveInv
<1> QED
    BY <1>4, <1>5

LEMMA RunDoneInv ==
    ASSUME LiveInv, NEW st \in LiveState, RunDone(st)
    PROVE  LiveInv'
<1>1. synced' \in 0..MaxChange
    BY DEF LiveInv, LiveTypeOK, RunDone
<1> QED
    BY <1>1, FinishInv DEF RunDone

LEMMA RunFailsInv ==
    ASSUME LiveInv, NEW st \in LiveState, RunFails(st)
    PROVE  LiveInv'
<1>1. synced' \in 0..MaxChange
    BY DEF LiveInv, LiveTypeOK, RunFails
<1> QED
    BY <1>1, FinishInv DEF RunFails

-------------------------------------------------------------------------------
(* The theorems                                                            *)

LEMMA LiveNextInv == LiveInv /\ [LiveNext]_liveVars => LiveInv'
<1> SUFFICES ASSUME LiveInv, [LiveNext]_liveVars PROVE LiveInv'
    OBVIOUS
<1>1. ASSUME NEW t \in Terminal,
             \/ StartCounted(t) \/ StartFirst(t) \/ FirstStarted(t) \/ StartFails(t)
             \/ CloseAtOnce(t) \/ CloseReconciling(t)
      PROVE  LiveInv'
    BY <1>1, StartCountedInv, StartFirstInv, LiveStartedInv, StartFailsInv,
       CloseAtOnceInv, CloseReconcilingInv
<1>2. ASSUME NEW st \in LiveState,
             Poll(st) \/ TimerFires(st) \/ StateStep(st) \/ RunFails(st)
      PROVE  LiveInv'
    BY <1>2, PollInv, TimerFiresInv, ReadInv, RunDoneInv, RunFailsInv DEF
       StateStep
<1>3. CASE UNCHANGED liveVars
  <2>1. UNCHANGED <<terminalVars, stateVars, caller, timer>>
    BY <1>3 DEF liveVars, runVars
  <2>2. LiveTypeOK'
    BY <1>3 DEF LiveInv, LiveTypeOK, LiveFlagsOK, liveVars,
       terminalVars, stateVars, runVars
  <2> QED
    BY <2>1, <2>2, LiveElsewhere DEF LiveInv, WatchedWhileHeld
<1> QED
    BY <1>1, <1>2, <1>3, ChangeInv DEF LiveNext

LEMMA LiveAlwaysInv == LiveSpec => []LiveInv
<1>1. LiveInit => LiveInv
    BY LiveInitInv
<1>2. LiveInv /\ [LiveNext]_liveVars => LiveInv'
    BY LiveNextInv
<1> QED
    BY <1>1, <1>2, PTL DEF LiveSpec

\* Every variable of the live sync keeps its type; in particular no state's
\* reference count becomes negative, however starts, stops and failures overlap.
THEOREM LiveSyncTypes == LiveSpec => []LiveTypeOK
<1>1. LiveInv => LiveTypeOK
    BY DEF LiveInv
<1>2. LiveSpec => []LiveInv
    BY LiveAlwaysInv
<1> QED
    BY <1>1, <1>2, PTL

\* The project is watched exactly while a terminal holds it, by one state that
\* counts them, as long as nothing was lost; a stopped state has no timer.
THEOREM LiveSyncWatched == LiveSpec => []WatchedWhileHeld
<1>1. LiveInv => WatchedWhileHeld
    BY DEF LiveInv
<1>2. LiveSpec => []LiveInv
    BY LiveAlwaysInv
<1> QED
    BY <1>1, <1>2, PTL

===============================================================================
