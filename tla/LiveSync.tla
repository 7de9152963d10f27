-------------------------------- MODULE LiveSync --------------------------------
(***************************************************************************)
(* Watching the workspace of one project while terminals have it open, and *)
(* carrying what changed there to the database:                            *)
(* server/src/modules/projects/project-workspace-live-sync.ts, called by   *)
(* the session hooks of server/src/ws/collab-server.ts.                    *)
(*                                                                         *)
(* A terminal calls start after its shell was opened, and reconcileNow,    *)
(* then stop, after it was closed.  Who closes a terminal waits until it   *)
(* was opened, who leaves the project does not.  Each object that start    *)
(* makes is a state: statesByProject maps the project to one of them.      *)
(***************************************************************************)
EXTENDS Integers, FiniteSets

CONSTANTS
    Terminal,           \* the terminals of the project
    NoTerminal,         \* not a terminal
    MaxState,           \* bound: states ever made
    MaxChange,          \* bound: changes made in the workspace
    MayFail             \* whether what is awaited may fail

LiveState == 1..MaxState
NoState == 0

ASSUME LiveSyncAssumption ==
    /\ IsFiniteSet(Terminal) /\ NoTerminal \notin Terminal
    /\ MaxState \in Nat /\ MaxChange \in Nat /\ MayFail \in BOOLEAN

VARIABLES
    pc,                 \* pc[t]: whether terminal t is open
    starting,           \* the terminals whose start is awaiting
    currentState,       \* statesByProject.get(project), or NoState
    statesMade,         \* how many states were made
    refs,               \* refs[st]
    live,               \* the states whose interval and watcher run
    timer,              \* the states whose debounceTimer is set
    run,                \* run[st]: isReconciling, and how far it got
    queued,             \* the states with reconcileQueued
    caller,             \* caller[st]: the terminal that awaits the run
    broken,             \* the states of which a run failed that is awaited
    disk, seen, synced, \* the last change; the last one st's run has read;
                        \* the last one stored
    crashed,            \* a rejection nobody handles ended the process
    fault,              \* a start or a run failed
    lost,               \* a start was overwritten or failed, a stop was skipped,
                        \* or a terminal was left early
    leftEarly,          \* a terminal was left while its start was awaiting
    due                 \* the change that was there when a terminal closed last

terminalVars == <<pc, starting, lost, leftEarly, due>>
stateVars == <<currentState, statesMade, refs, live>>
runVars == <<run, queued, caller, broken, seen, synced>>
liveVars == <<terminalVars, stateVars, timer, runVars, disk, crashed, fault>>

LiveInit ==
    /\ pc = [t \in Terminal |-> "closed"] /\ starting = {}
    /\ currentState = NoState /\ statesMade = 0
    /\ refs = [st \in LiveState |-> 0] /\ live = {} /\ timer = {}
    /\ run = [st \in LiveState |-> "idle"] /\ queued = {}
    /\ caller = [st \in LiveState |-> NoTerminal] /\ broken = {}
    /\ disk = 0 /\ seen = [st \in LiveState |-> 0] /\ synced = 0
    /\ crashed = FALSE /\ fault = FALSE /\ lost = FALSE /\ leftEarly = FALSE /\ due = 0

Becomes(t, where) == pc' = [pc EXCEPT ![t] = where]

-----------------------------------------------------------------------------
(* start                                                                   *)

StartCounted(t) ==
    /\ pc[t] = "closed" /\ t \notin starting /\ currentState # NoState
    /\ refs' = [refs EXCEPT ![currentState] = @ + 1]
    /\ Becomes(t, "open")
    /\ UNCHANGED <<starting, currentState, statesMade, live, timer, runVars, disk,
                   crashed, fault, lost, leftEarly, due>>

\* No state: ensureProjectWorkspace is awaited.
StartFirst(t) ==
    /\ pc[t] = "closed" /\ t \notin starting /\ currentState = NoState
    /\ statesMade + Cardinality(starting) < MaxState
    /\ Becomes(t, "open")
    /\ starting' = starting \cup {t}
    /\ UNCHANGED <<stateVars, timer, runVars, disk, crashed, fault, lost, leftEarly, due>>

\* It answered: a new state is set, whatever the map holds by now.
FirstStarted(t) ==
    LET st == statesMade + 1
    IN  /\ t \in starting
        /\ starting' = starting \ {t}
        /\ statesMade' = st /\ currentState' = st
        /\ refs' = [refs EXCEPT ![st] = 1]
        /\ live' = live \cup {st}
        /\ lost' = (lost \/ currentState # NoState)
        /\ UNCHANGED <<pc, timer, runVars, disk, crashed, fault, leftEarly, due>>

\* The hook fails; the session stays open and will be closed like any other.
\* Bound: one start or one run fails.
StartFails(t) ==
    /\ MayFail /\ ~fault /\ t \in starting
    /\ starting' = starting \ {t}
    /\ lost' = TRUE /\ fault' = TRUE
    /\ UNCHANGED <<pc, stateVars, timer, runVars, disk, crashed, leftEarly, due>>

-----------------------------------------------------------------------------
(* reconcileNow and stop, and the runs of a state.                         *)

\* stop: of the state the map holds now.
Drop(timers) ==
    IF currentState = NoState
      THEN UNCHANGED <<currentState, refs, live, timer>>
      ELSE /\ refs' = [refs EXCEPT ![currentState] = @ - 1]
           /\ IF refs[currentState] > 1
                THEN UNCHANGED <<currentState, live, timer>>
                ELSE /\ currentState' = NoState
                     /\ live' = live \ {currentState}
                     /\ timer' = timers

\* Fault: the debounce timer is not cleared.
FaultyStop == Drop(timer)

\* Fault: every stop ends the watching, and the state stays in the map.
EagerStop ==
    /\ refs' = [st \in LiveState |-> refs[st] - (IF st = currentState THEN 1 ELSE 0)]
    /\ live' = live \ {currentState} /\ timer' = timer \ {currentState}
    /\ UNCHANGED currentState

Stop == Drop(timer \ {currentState})

\* Before its start was answered, a terminal is closed by leaving the project.
Leave(t) ==
    /\ lost' = (lost \/ t \in starting)
    /\ leftEarly' = (leftEarly \/ t \in starting)

\* Without a state, or while one runs, reconcileNow returns at once, and stop
\* follows.
CloseAtOnce(t) ==
    /\ pc[t] = "open"
    /\ currentState # NoState => run[currentState] # "idle"
    /\ queued' = IF currentState = NoState THEN queued ELSE queued \cup {currentState}
    /\ Stop
    /\ Becomes(t, "closed")
    /\ Leave(t)
    /\ due' = IF currentState = NoState THEN due ELSE disk
    /\ UNCHANGED <<starting, statesMade, run, caller, broken, disk, seen, synced, crashed,
                   fault>>

CloseReconciling(t) ==
    /\ pc[t] = "open" /\ currentState # NoState /\ run[currentState] = "idle"
    /\ run' = [run EXCEPT ![currentState] = "waiting"]
    /\ caller' = [caller EXCEPT ![currentState] = t]
    /\ Becomes(t, "closing")
    /\ Leave(t)
    /\ due' = disk
    /\ UNCHANGED <<starting, stateVars, timer, queued, broken, disk, seen, synced,
                   crashed, fault>>

\* The interval, or the watcher: scheduleReconcile.  To set a timer anew that is
\* set already changes nothing here.
Poll(st) ==
    /\ st \in live /\ st \notin timer
    /\ timer' = timer \cup {st}
    /\ UNCHANGED <<terminalVars, stateVars, runVars, disk, crashed, fault>>

TimerFires(st) ==
    /\ st \in timer
    /\ timer' = timer \ {st}
    /\ IF run[st] = "idle"
         THEN run' = [run EXCEPT ![st] = "waiting"] /\ UNCHANGED queued
         ELSE queued' = queued \cup {st} /\ UNCHANGED run
    /\ UNCHANGED <<terminalVars, stateVars, caller, broken, seen, synced, disk,
                   crashed, fault>>

\* reconcileProjectWorkspace reads the files, one run at a time (runLocked).
Read(st) ==
    /\ run[st] = "waiting" /\ \A other \in LiveState : run[other] # "read"
    /\ run' = [run EXCEPT ![st] = "read"]
    /\ seen' = [seen EXCEPT ![st] = disk]
    /\ UNCHANGED <<terminalVars, stateVars, timer, queued, caller, broken, synced,
                   disk, crashed, fault>>

\* The end of a run: again if it was asked for, else its caller goes on, and
\* stops unless one of its runs failed.  Nobody handles the failure of a run
\* that has no caller.
Finish(st, fails) ==
    LET t == caller[st]
        bad == fails \/ st \in broken
        again == st \in queued
    IN  /\ queued' = queued \ {st}
        /\ seen' = [seen EXCEPT ![st] = 0]
        /\ run' = [run EXCEPT ![st] = IF again THEN "waiting" ELSE "idle"]
        /\ broken' = IF again /\ bad THEN broken \cup {st} ELSE broken \ {st}
        /\ caller' = [caller EXCEPT ![st] = IF again THEN @ ELSE NoTerminal]
        /\ IF again \/ t = NoTerminal
             THEN UNCHANGED <<pc, currentState, refs, live, timer, lost>>
             ELSE /\ Becomes(t, "closed")
                  /\ IF bad THEN UNCHANGED <<currentState, refs, live, timer>> ELSE Stop
                  /\ lost' = (lost \/ bad)
        /\ fault' = (fault \/ bad)
        /\ crashed' = (~again /\ t = NoTerminal /\ bad)

RunDone(st) ==
    /\ run[st] = "read"
    /\ synced' = seen[st]
    /\ Finish(st, FALSE)
    /\ UNCHANGED <<starting, leftEarly, statesMade, disk, due>>

RunFails(st) ==
    /\ MayFail /\ ~fault /\ run[st] # "idle"
    /\ Finish(st, TRUE)
    /\ UNCHANGED <<starting, leftEarly, statesMade, synced, disk, due>>

\* A program in a terminal writes a file.
Change ==
    /\ disk < MaxChange /\ \E t \in Terminal : pc[t] # "closed"
    /\ disk' = disk + 1
    /\ UNCHANGED <<terminalVars, stateVars, timer, runVars, crashed, fault>>

StateStep(st) == Read(st) \/ RunDone(st)

LiveNext ==
    /\ ~crashed
    /\ \/ \E t \in Terminal : \/ StartCounted(t) \/ StartFirst(t) \/ FirstStarted(t)
                              \/ StartFails(t)
                              \/ CloseAtOnce(t) \/ CloseReconciling(t)
       \/ \E st \in LiveState : Poll(st) \/ TimerFires(st) \/ StateStep(st) \/ RunFails(st)
       \/ Change

LiveSpec == LiveInit /\ [][LiveNext]_liveVars

\* The interval and the timers fire, and a run that starts ends.
LiveFairSpec ==
    /\ LiveSpec
    /\ \A st \in LiveState : /\ WF_liveVars(~crashed /\ Poll(st))
                         /\ WF_liveVars(~crashed /\ TimerFires(st))
                         /\ WF_liveVars(~crashed /\ StateStep(st))

-----------------------------------------------------------------------------
LiveFlagsOK == crashed \in BOOLEAN /\ fault \in BOOLEAN /\ lost \in BOOLEAN /\ leftEarly \in BOOLEAN

LiveTypeOK ==
    /\ pc \in [Terminal -> {"closed", "open", "closing"}] /\ starting \subseteq Terminal
    /\ currentState \in LiveState \cup {NoState} /\ statesMade \in LiveState \cup {0}
    /\ refs \in [LiveState -> Nat]
    /\ live \subseteq LiveState /\ timer \subseteq LiveState
    /\ queued \subseteq LiveState /\ broken \subseteq LiveState
    /\ run \in [LiveState -> {"idle", "waiting", "read"}]
    /\ caller \in [LiveState -> Terminal \cup {NoTerminal}]
    /\ {disk, synced, due} \subseteq 0..MaxChange /\ seen \in [LiveState -> 0..MaxChange]
    /\ LiveFlagsOK

Holding == {t \in Terminal : pc[t] # "closed" /\ t \notin starting}

\* As long as no start overwrote another one or failed, no stop was skipped, and
\* no terminal was left before it was started, the project is watched by one
\* state, exactly while a terminal holds it, each of them is counted once, and a
\* state that was stopped starts no run of its own any more (start, stop, and the
\* hooks that call them).
WatchedWhileHeld ==
    /\ timer \subseteq live
    /\ ~lost => /\ live = IF Holding = {} THEN {} ELSE {currentState}
                /\ currentState = NoState <=> Holding = {}
                /\ currentState # NoState => refs[currentState] = Cardinality(Holding)

\* What was in the workspace when a terminal closed reaches the database even if
\* reconcileNow found a run under way that had read the files before, and stop
\* ended the watching (reconcileQueued), unless a run fails.
LastChangesReconciled ==
    \A v \in 1..MaxChange : due = v ~> synced >= v \/ fault

\* While a terminal holds the project, every change is carried over in the end,
\* also one made after the current run has read the files, one a second state
\* runs for, or one after another terminal has closed (scheduleReconcile, stop),
\* unless a terminal was left before it was started.
ChangesReconciled ==
    \A v \in 1..MaxChange :
        disk = v /\ Holding # {} ~> synced >= v \/ Holding = {} \/ fault \/ leftEarly
=================================================================================
