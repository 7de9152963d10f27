------------------------------- MODULE Sandbox --------------------------------
(***************************************************************************)
(* The Docker sandbox of one owner in one project: what DockerSandboxMana- *)
(* ger keeps of it, the container it is named after, and the runtimes that *)
(* use it.  The terminal session manager makes a runtime for each stay of  *)
(* the owner, and asks it for one thing at a time; leaving disposes of it  *)
(* whatever it is doing.                                                   *)
(***************************************************************************)
EXTENDS Naturals, FiniteSets

CONSTANTS
    MaxRuntime,    \* bound: stays of the owner
    MaxShell,      \* bound: interactive shells started
    MaxCall,       \* bound: things asked of the runtimes
    MaxMishap,     \* bound: how often the environment interferes
    Environment    \* which of "failure", "death", "exit", "crash" may happen

Runtime == 1 .. MaxRuntime
Shell == 1 .. MaxShell

ASSUME SandboxAssumption ==
    {MaxRuntime, MaxShell, MaxCall, MaxMishap} \subseteq Nat

VARIABLES
    ref,        \* sandboxes.get(key): whether there is one, and its shell
    ensure,     \* the entry of pendingEnsures, and what it awaits
    container,  \* the container of that name: "none", "created" or "running"
    shell,      \* shell[e]: the process and its stream
    runtime,    \* runtime[r]: its stage and the handle of its shell
    op,         \* op[r]: what runtime r was asked for, and what that awaits
    leave,      \* leave[r]: what the leaving of r awaits
    calls,      \* things asked so far
    mishaps,    \* what the environment did so far
    \* Histories, which no action reads; see the properties:
    displaced,  \* shells taken from the reference by another's opening or closing
    unclaimed,  \* shells whose inspection failed, or that opened after the owner left
    unheard,    \* shells whose stream had closed before the reference had them
    abandoned   \* the container is half made, was made with no owner there, or
                \* was there when the process ended

daemon == <<container, shell>>
manager == <<ref, ensure>>
lost == <<displaced, unclaimed, unheard, abandoned>>
history == <<calls, mishaps, lost>>
vars == <<manager, daemon, runtime, op, leave, history>>

NoRef == [present |-> FALSE, shell |-> 0]
Ref(e) == [present |-> TRUE, shell |-> e]
NoOp == [kind |-> "none", pc |-> "idle", shell |-> 0]

TypeOK ==
    /\ ref \in [present : BOOLEAN, shell : 0 .. MaxShell]
    /\ ~ref.present => ref.shell = 0
    /\ ensure \in [pc : {"none", "inspect", "prepare", "remove", "create", "start"},
                   shell : 0 .. MaxShell]
    /\ container \in {"none", "created", "running"}
    /\ shell \in [Shell -> {"none", "live", "dead", "lost", "closed"}]
    /\ runtime \in [Runtime -> [stage : {"new", "active", "left"}, handle : 0 .. MaxShell]]
    /\ op \in [Runtime -> [kind : {"none", "prewarm", "open", "close"},
                           pc : {"idle", "ensuring", "exec", "install", "sizing", "closing"},
                           shell : 0 .. MaxShell]]
    /\ leave \in [Runtime -> [pc : {"none", "closing", "hook", "ending", "removing", "done"},
                              shell : 0 .. MaxShell]]
    /\ \A r \in Runtime : op[r].pc = "ensuring" => ensure.pc # "none"
    /\ calls \in 0 .. MaxCall /\ mishaps \in 0 .. MaxMishap
    /\ displaced \cup unclaimed \cup unheard \subseteq 0 .. MaxShell /\ abandoned \in BOOLEAN

Init ==
    /\ ref = NoRef /\ ensure = [pc |-> "none", shell |-> 0]
    /\ container = "none" /\ shell = [e \in Shell |-> "none"]
    /\ runtime = [r \in Runtime |-> [stage |-> "new", handle |-> 0]]
    /\ op = [r \in Runtime |-> NoOp]
    /\ leave = [r \in Runtime |-> [pc |-> "none", shell |-> 0]]
    /\ calls = 0 /\ mishaps = 0
    /\ displaced = {} /\ unclaimed = {} /\ unheard = {} /\ abandoned = FALSE

-------------------------------------------------------------------------------
(* Docker                                                                  *)

\* Removing the container ends the shells in it, which the daemon forgets.
Removed == [e \in Shell |-> IF shell[e] \in {"live", "dead"} THEN "lost" ELSE shell[e]]

\* The stream of shell e has closed: the handler of "close" takes the shell from
\* the reference that has it.
\* Faulty: it is only asked to end.
StillOpen(e) == shell
Closed(e) == [shell EXCEPT ![e] = "closed"]
Dropped(e) == IF e # 0 /\ ref.shell = e THEN Ref(0) ELSE ref

\* closeInteractiveSession is waiting for the stream of e.
Closing(e) == \E r \in Runtime : \/ op[r].pc = "closing" /\ op[r].shell = e
                                 \/ leave[r].pc \in {"closing", "ending"} /\ leave[r].shell = e

-------------------------------------------------------------------------------
(* ensureSandbox: one at a time, whose result all who wait for it get.     *)

BeginEnsure ==
    IF ensure.pc # "none" THEN UNCHANGED ensure
    ELSE ensure' = IF ref.present THEN [pc |-> "inspect", shell |-> ref.shell]
                   ELSE [pc |-> "prepare", shell |-> 0]

Waiting == {r \in Runtime : op[r].pc = "ensuring"}

\* A reference with shell e is the result.  An opening goes on, unless the shell
\* of the reference is open.
Resolve(e) ==
    /\ ensure' = [pc |-> "none", shell |-> 0]
    /\ op' = [r \in Runtime |->
                IF r \notin Waiting THEN op[r]
                ELSE IF op[r].kind = "open" /\ e = 0 THEN [op[r] EXCEPT !.pc = "exec"]
                ELSE NoOp]

Reject ==
    /\ abandoned' = (abandoned \/ container = "created")
    /\ ensure' = [pc |-> "none", shell |-> 0]
    /\ op' = [r \in Runtime |-> IF r \in Waiting THEN NoOp ELSE op[r]]

\* Faulty: a container that runs gets a new reference.
FreshInspect ==
    /\ ensure.pc = "inspect"
    /\ IF container = "running" THEN Resolve(0) /\ ref' = Ref(0)
       ELSE /\ ensure' = [pc |-> "prepare", shell |-> 0] /\ ref' = NoRef
            /\ UNCHANGED op
    /\ UNCHANGED <<daemon, runtime, leave, calls, mishaps, lost>>

EnsureInspect ==
    /\ ensure.pc = "inspect"
    /\ IF container = "running" THEN Resolve(ensure.shell) /\ UNCHANGED ref
       ELSE /\ ensure' = [pc |-> "prepare", shell |-> 0] /\ ref' = NoRef
            /\ UNCHANGED op
    /\ UNCHANGED <<daemon, runtime, leave, calls, mishaps, lost>>

\* The workspace directory and the image, which is pulled once.
EnsurePrepare ==
    /\ ensure.pc = "prepare"
    /\ ensure' = [ensure EXCEPT !.pc = "remove"]
    /\ UNCHANGED <<ref, daemon, runtime, op, leave, history>>

EnsureRemove ==
    /\ ensure.pc = "remove"
    /\ container' = "none" /\ shell' = Removed /\ abandoned' = FALSE
    /\ ensure' = [ensure EXCEPT !.pc = "create"]
    /\ UNCHANGED <<ref, runtime, op, leave, calls, mishaps, displaced, unclaimed, unheard>>

\* A name that is taken is a conflict.
EnsureCreate ==
    /\ ensure.pc = "create"
    /\ IF container = "none"
       THEN /\ container' = "created" /\ ensure' = [ensure EXCEPT !.pc = "start"]
            /\ UNCHANGED <<op, abandoned>>
       ELSE Reject /\ UNCHANGED container
    /\ UNCHANGED <<ref, shell, runtime, leave, calls, mishaps, displaced, unclaimed, unheard>>

EnsureStart ==
    /\ ensure.pc = "start"
    /\ IF container = "created"
       THEN /\ container' = "running" /\ ref' = Ref(0) /\ Resolve(0)
            /\ abandoned' = \A r \in Runtime : runtime[r].stage # "active"
       ELSE Reject /\ UNCHANGED <<container, ref>>
    /\ UNCHANGED <<shell, runtime, leave, calls, mishaps, displaced, unclaimed, unheard>>

-------------------------------------------------------------------------------
(* What a runtime is asked for                                             *)

\* Runtimes whose leaving has not ended.
Leaving == {r \in Runtime : leave[r].pc \notin {"none", "done"}}
Ask(r) == runtime[r].stage = "active" /\ op[r].pc = "idle" /\ calls < MaxCall

\* The owner joins the project: a session, and a runtime for it.
Enter(r) ==
    /\ runtime[r].stage = "new"
    /\ \A q \in Runtime : q < r => runtime[q].stage = "left"
    /\ runtime' = [runtime EXCEPT ![r].stage = "active"]
    /\ UNCHANGED <<manager, daemon, op, leave, history>>

Prewarm(r) ==
    /\ Ask(r)
    /\ BeginEnsure
    /\ op' = [op EXCEPT ![r] = [kind |-> "prewarm", pc |-> "ensuring", shell |-> 0]]
    /\ calls' = calls + 1
    /\ UNCHANGED <<ref, daemon, runtime, leave, mishaps, lost>>

\* openSession returns if the runtime has a shell.
Open(r) ==
    /\ Ask(r) /\ runtime[r].handle = 0
    /\ Cardinality({q \in Runtime : op[q].kind = "open"})
        < Cardinality({e \in Shell : shell[e] = "none"})
    /\ BeginEnsure
    /\ op' = [op EXCEPT ![r] = [kind |-> "open", pc |-> "ensuring", shell |-> 0]]
    /\ calls' = calls + 1
    /\ UNCHANGED <<ref, daemon, runtime, leave, mishaps, lost>>

OpenEnds(r) == op' = [op EXCEPT ![r] = NoOp]

\* container.exec and its start, in the container that has the name by now.
OpenExec(r) ==
    /\ op[r].pc = "exec"
    /\ IF container = "running"
       THEN \E e \in Shell : /\ shell[e] = "none"
                             /\ \A d \in Shell : d < e => shell[d] # "none"
                             /\ shell' = [shell EXCEPT ![e] = "live"]
                             /\ op' = [op EXCEPT ![r].pc = "install", ![r].shell = e]
       ELSE OpenEnds(r) /\ UNCHANGED shell
    /\ UNCHANGED <<manager, container, runtime, leave, history>>

\* The shell is inspected, and set in the reference, which may be gone by now.
\* If its stream has closed already, nobody has heard it.
OpenInstall(r) ==
    LET e == op[r].shell
    IN
    /\ op[r].pc = "install"
    /\ IF shell[e] # "lost"
       THEN /\ ref' = Ref(e) /\ op' = [op EXCEPT ![r].pc = "sizing"]
            /\ displaced' = displaced \cup (Shell \cap {ref.shell})
            /\ unheard' = IF shell[e] = "closed" THEN unheard \cup {e} ELSE unheard
       ELSE OpenEnds(r) /\ UNCHANGED <<ref, displaced, unheard>>
    /\ UNCHANGED <<ensure, daemon, runtime, leave, calls, mishaps, unclaimed, abandoned>>

\* The terminal was resized, or not: the runtime gets its handle, also when its
\* owner has left.
OpenDone(r) ==
    /\ op[r].pc = "sizing"
    /\ runtime' = [runtime EXCEPT ![r].handle = op[r].shell]
    /\ op' = [op EXCEPT ![r] = NoOp]
    /\ unclaimed' = IF runtime[r].stage = "left" THEN unclaimed \cup {op[r].shell} ELSE unclaimed
    /\ UNCHANGED <<manager, daemon, leave, calls, mishaps, displaced, unheard, abandoned>>

\* Input that finds another shell, or none, in the reference: the runtime
\* forgets its handle.
Write(r) ==
    /\ Ask(r) /\ runtime[r].handle # 0 /\ ref.shell # runtime[r].handle
    /\ runtime' = [runtime EXCEPT ![r].handle = 0]
    /\ calls' = calls + 1
    /\ UNCHANGED <<manager, daemon, op, leave, mishaps, lost>>

Close(r) ==
    LET e == runtime[r].handle
    IN
    /\ Ask(r) /\ e # 0
    /\ IF ref.shell = e
       THEN /\ op' = [op EXCEPT ![r] = [kind |-> "close", pc |-> "closing", shell |-> e]]
            /\ UNCHANGED runtime
       ELSE runtime' = [runtime EXCEPT ![r].handle = 0] /\ UNCHANGED op
    /\ calls' = calls + 1
    /\ UNCHANGED <<manager, daemon, leave, mishaps, lost>>

\* The stream has closed, or 250 ms have passed: whatever shell the reference
\* has by now is taken from it.
EndShell(e) ==
    /\ shell' = Closed(e)
    /\ ref' = IF ref.present THEN Ref(0) ELSE ref
    /\ displaced' = displaced \cup ((Shell \cap {ref.shell}) \ {e})
    /\ UNCHANGED <<calls, mishaps, unclaimed, unheard, abandoned>>

CloseDone(r) ==
    /\ op[r].pc = "closing"
    /\ EndShell(op[r].shell)
    /\ runtime' = [runtime EXCEPT ![r].handle = 0]
    /\ op' = [op EXCEPT ![r] = NoOp]
    /\ UNCHANGED <<ensure, container, leave>>

-------------------------------------------------------------------------------
(* The owner leaves: markProjectLeft closes an open shell, runs the hook,  *)
(* and disposes of the runtime and with it of the sandbox.                 *)

LeaveTo(r, pc, e) == leave' = [leave EXCEPT ![r] = [pc |-> pc, shell |-> e]]

\* Faulty: only the reference is dropped.
ForgetfulDispose(r) ==
    LeaveTo(r, "done", 0) /\ ref' = NoRef /\ UNCHANGED <<container, shell>>

\* dispose and disposeSandbox, up to its first await.
Dispose(r) ==
    /\ IF ~ref.present THEN LeaveTo(r, "done", 0) /\ UNCHANGED ref
       ELSE IF ref.shell # 0 THEN LeaveTo(r, "ending", ref.shell) /\ UNCHANGED ref
       ELSE LeaveTo(r, "removing", 0) /\ ref' = NoRef
    /\ UNCHANGED <<container, shell>>

Leave(r) ==
    LET e == runtime[r].handle
    IN
    /\ runtime[r].stage = "active"
    /\ runtime' = [runtime EXCEPT ![r].stage = "left", ![r].handle = 0]
    /\ IF e = 0 THEN Dispose(r)
       ELSE LeaveTo(r, IF ref.shell = e THEN "closing" ELSE "hook", e)
            /\ UNCHANGED <<ref, container, shell>>
    /\ UNCHANGED <<ensure, op, history>>

LeaveClosed(r) ==
    /\ leave[r].pc = "closing"
    /\ EndShell(leave[r].shell) /\ LeaveTo(r, "hook", 0)
    /\ UNCHANGED <<ensure, container, runtime, op>>

LeaveHooked(r) ==
    /\ leave[r].pc = "hook"
    /\ Dispose(r) /\ runtime' = [runtime EXCEPT ![r].handle = 0]
    /\ UNCHANGED <<ensure, op, history>>

\* The shell that was found, be it another runtime's, has ended.
DisposeEnded(r) ==
    /\ leave[r].pc = "ending"
    /\ shell' = Closed(leave[r].shell) /\ ref' = NoRef /\ LeaveTo(r, "removing", 0)
    /\ UNCHANGED <<ensure, container, runtime, op, history>>

\* The container of that name is removed, whoever has made it.
DisposeRemove(r) ==
    /\ leave[r].pc = "removing"
    /\ container' = "none" /\ shell' = Removed /\ abandoned' = FALSE
    /\ LeaveTo(r, "done", 0)
    /\ UNCHANGED <<manager, runtime, op, calls, mishaps, displaced, unclaimed, unheard>>

-------------------------------------------------------------------------------
(* The environment                                                         *)

Mishap(kind) ==
    /\ kind \in Environment /\ mishaps < MaxMishap
    /\ mishaps' = mishaps + 1

\* The stream of a shell that ended by itself, or with its container, closes.
Hangup(e) ==
    /\ shell[e] \in {"dead", "lost"} /\ ~Closing(e)
    /\ shell' = Closed(e) /\ ref' = Dropped(e)
    /\ UNCHANGED <<ensure, container, runtime, op, leave, history>>

Exit(e) ==
    /\ Mishap("exit") /\ shell[e] = "live"
    /\ shell' = [shell EXCEPT ![e] = "dead"]
    /\ UNCHANGED <<manager, container, runtime, op, leave, calls, lost>>

\* The container ends by itself: out of memory, or stopped by hand.
Die ==
    /\ Mishap("death") /\ container = "running"
    /\ container' = "created" /\ shell' = [e \in Shell |-> IF shell[e] = "live" THEN "dead" ELSE shell[e]]
    /\ UNCHANGED <<manager, runtime, op, leave, calls, lost>>

\* A call of the daemon fails: for who ensures, ...
EnsureFails ==
    /\ Mishap("failure") /\ ensure.pc # "none"
    /\ Reject
    /\ UNCHANGED <<ref, daemon, runtime, leave, calls, displaced, unclaimed, unheard>>

\* ... or for who opens.
OpenFails(r) ==
    /\ Mishap("failure") /\ op[r].pc \in {"exec", "install"}
    /\ OpenEnds(r) /\ unclaimed' = unclaimed \cup (Shell \cap {op[r].shell})
    /\ UNCHANGED <<manager, daemon, runtime, leave, calls, displaced, unheard, abandoned>>

\* The process ends: by itself, or because nobody handles the failure of a
\* removal that dispose() started.  Containers stay.  Then it starts again.
Crash ==
    /\ Mishap("crash")
    /\ ref' = NoRef /\ ensure' = [pc |-> "none", shell |-> 0]
    /\ shell' = [e \in Shell |-> IF shell[e] = "none" THEN "none" ELSE "closed"]
    /\ runtime' = [r \in Runtime |-> IF runtime[r].stage = "new" THEN runtime[r]
                                     ELSE [stage |-> "left", handle |-> 0]]
    /\ op' = [r \in Runtime |-> NoOp]
    /\ leave' = [r \in Runtime |-> IF runtime[r].stage = "new" THEN leave[r]
                                   ELSE [pc |-> "done", shell |-> 0]]
    /\ abandoned' = (container # "none")
    /\ UNCHANGED <<container, calls, displaced, unclaimed, unheard>>

Progress(r) == \/ OpenExec(r) \/ OpenInstall(r) \/ OpenDone(r) \/ CloseDone(r)
               \/ LeaveClosed(r) \/ LeaveHooked(r) \/ DisposeEnded(r) \/ DisposeRemove(r)
Ensure == EnsureInspect \/ EnsurePrepare \/ EnsureRemove \/ EnsureCreate \/ EnsureStart

Next ==
    \/ \E r \in Runtime : \/ Enter(r) \/ Prewarm(r) \/ Open(r) \/ Write(r) \/ Close(r)
                          \/ Leave(r) \/ Progress(r) \/ OpenFails(r)
    \/ Ensure \/ EnsureFails \/ Die \/ Crash
    \/ \E e \in Shell : Hangup(e) \/ Exit(e)

Spec == Init /\ [][Next]_vars

-------------------------------------------------------------------------------
\* Nothing is asked of the sandbox and nothing about it is on its way.
Quiet ==
    /\ ensure.pc = "none" /\ Leaving = {}
    /\ \A r \in Runtime : op[r].pc = "idle"
    /\ \A e \in Shell : shell[e] \notin {"dead", "lost"}

\* When all is quiet, the shell of a runtime whose owner is there runs if and only
\* if the reference has it: input reaches it (write, resizeInteractiveSession), or
\* the runtime will learn that it is closed.  Whatever failed, died, left too early
\* or overlapped meanwhile, except for two kinds of shells, which the code loses:
\* one that another opening replaced in the reference, or that was in it when
\* another's closing ended (`displaced'), and one whose stream had closed before
\* the reference had it (`unheard').
HandleWorks ==
    Quiet => \A r \in Runtime :
        LET e == runtime[r].handle
        IN  runtime[r].stage = "active" /\ e # 0 /\ e \notin displaced \cup unheard
              => (shell[e] = "live" <=> ref = Ref(e))

\* When all is quiet, a shell that runs is the one of a runtime whose owner is
\* there, whatever failed, died, left too early or overlapped meanwhile; except a
\* shell that was `displaced', and one that is `unclaimed': the daemon failed
\* between its start and its inspection, or it opened for an owner who had left.
NoStrayShell ==
    Quiet => \A e \in Shell : shell[e] = "live" =>
        \/ \E r \in Runtime : runtime[r].stage = "active" /\ runtime[r].handle = e
        \/ e \in displaced \cup unclaimed

\* When all is quiet and every owner has left, no container is there, whatever
\* died, left too early or overlapped before.  Except one that is `abandoned': its
\* ensuring failed after it was created, or it was started for an owner who had
\* left, or it was there when the process ended; until a removal that comes.
NoOrphan ==
    Quiet /\ ~abandoned /\ (\A r \in Runtime : runtime[r].stage # "active")
        => container = "none"

===============================================================================
