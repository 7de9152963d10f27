---------------------------- MODULE SandboxProofs ----------------------------
(***************************************************************************)
(* What holds of Sandbox for every number of stays, shells, calls and      *)
(* mishaps: its types, and the three promises about handles, shells and    *)
(* containers.                                                             *)
(***************************************************************************)
EXTENDS Sandbox, TLAPS

-------------------------------------------------------------------------------
(* Types.                                                                  *)

Handle == 0 .. MaxShell
RefOK ==
    ref \in [present : BOOLEAN, shell : Handle] /\ (~ref.present => ref.shell = 0)
EnsureType == [pc : {"none", "inspect", "prepare", "remove", "create", "start"},
               shell : Handle]
DaemonOK ==
    /\ container \in {"none", "created", "running"}
    /\ shell \in [Shell -> {"none", "live", "dead", "lost", "closed"}]
RuntimeType == [stage : {"new", "active", "left"}, handle : Handle]
OpType == [kind : {"none", "prewarm", "open", "close"},
           pc : {"idle", "ensuring", "exec", "install", "sizing", "closing"},
           shell : Handle]
LeaveType == [pc : {"none", "closing", "hook", "ending", "removing", "done"},
              shell : Handle]
Waited == \A r \in Runtime : op[r].pc = "ensuring" => ensure.pc # "none"
HistoryOK == /\ calls \in 0 .. MaxCall /\ mishaps \in 0 .. MaxMishap
             /\ displaced \cup unclaimed \cup unheard \subseteq Handle
             /\ abandoned \in BOOLEAN

TypeParts ==
    /\ RefOK /\ ensure \in EnsureType /\ DaemonOK
    /\ runtime \in [Runtime -> RuntimeType] /\ op \in [Runtime -> OpType]
    /\ leave \in [Runtime -> LeaveType] /\ Waited /\ HistoryOK

LEMMA TypeSplit == TypeOK <=> TypeParts
BY DEF TypeOK, TypeParts, Handle, RefOK, EnsureType, DaemonOK, RuntimeType,
       OpType, LeaveType, Waited, HistoryOK

LEMMA Bounds ==
    /\ MaxRuntime \in Nat /\ MaxShell \in Nat /\ MaxCall \in Nat
    /\ MaxMishap \in Nat
    /\ \A e \in Shell : e \in Handle /\ e # 0
    /\ 0 \in Handle
BY SandboxAssumption DEF Shell, Handle

LEMMA Records ==
    /\ NoRef \in [present : BOOLEAN, shell : Handle] /\ NoRef.shell = 0
    /\ ~NoRef.present
    /\ \A e \in Handle : /\ Ref(e) \in [present : BOOLEAN, shell : Handle]
                         /\ Ref(e).shell = e /\ Ref(e).present
    /\ NoOp \in OpType /\ NoOp.kind = "none" /\ NoOp.pc = "idle"
    /\ NoOp.shell = 0
BY Bounds DEF NoRef, Ref, NoOp, OpType

LEMMA TypeInit == Init => TypeOK
<1> SUFFICES ASSUME Init PROVE TypeParts
  BY TypeSplit
<1>1. RefOK /\ ensure \in EnsureType /\ DaemonOK
  BY Bounds, Records DEF Init, RefOK, EnsureType, DaemonOK
<1>3. HistoryOK
  <2>1. 0 \in 0 .. MaxCall /\ 0 \in 0 .. MaxMishap
    BY Bounds
  <2>2. displaced \cup unclaimed \cup unheard = {}
    BY DEF Init
  <2> QED BY <2>1, <2>2 DEF Init, HistoryOK
<1>2. /\ runtime \in [Runtime -> RuntimeType] /\ op \in [Runtime -> OpType]
      /\ leave \in [Runtime -> LeaveType] /\ Waited
  BY Bounds, Records DEF Init, RuntimeType, LeaveType, Waited
<1> QED BY <1>1, <1>2, <1>3 DEF TypeParts

LEMMA EnterType ==
    ASSUME TypeParts, NEW r \in Runtime, Enter(r)
    PROVE  TypeParts'
<1>1. runtime' \in [Runtime -> RuntimeType]
  BY DEF Enter, TypeParts, RuntimeType
<1> QED BY <1>1 DEF Enter, TypeParts, manager, daemon, history, lost, RefOK, DaemonOK,
                    HistoryOK, Waited

\* Something is asked of the sandbox: an ensuring that waits has begun.
LEMMA AskType ==
    ASSUME TypeParts, NEW r \in Runtime, Prewarm(r) \/ Open(r)
    PROVE  TypeParts'
<1>1. ensure' \in EnsureType /\ ensure'.pc # "none"
  BY Records DEF Prewarm, Open, BeginEnsure, TypeParts, EnsureType, RefOK
<1>2. op' \in [Runtime -> OpType]
  <2>1. /\ [kind |-> "prewarm", pc |-> "ensuring", shell |-> 0] \in OpType
        /\ [kind |-> "open", pc |-> "ensuring", shell |-> 0] \in OpType
    BY Bounds DEF OpType
  <2> QED BY <2>1 DEF Prewarm, Open, TypeParts
<1>3. HistoryOK'
  <2>1. calls' \in 0 .. MaxCall
    BY Bounds DEF Prewarm, Open, Ask, TypeParts, HistoryOK
  <2> QED BY <2>1 DEF Prewarm, Open, lost, TypeParts, HistoryOK
<1>4. Waited'
  BY <1>1 DEF Waited
<1> QED BY <1>1, <1>2, <1>3, <1>4
        DEF Prewarm, Open, TypeParts, daemon, RefOK, DaemonOK

LEMMA WriteType ==
    ASSUME TypeParts, NEW r \in Runtime, Write(r) \/ Close(r)
    PROVE  TypeParts'
<1>1. runtime' \in [Runtime -> RuntimeType]
  BY Bounds DEF Write, Close, TypeParts, RuntimeType
<1>2. op' \in [Runtime -> OpType] /\ Waited'
  <2>1. \A e \in Handle :
           [kind |-> "close", pc |-> "closing", shell |-> e] \in OpType
    BY DEF OpType
  <2>2. runtime[r].handle \in Handle
    BY DEF TypeParts, RuntimeType
  <2>3. UNCHANGED ensure /\ (UNCHANGED op \/ op' = [op EXCEPT ![r] =
           [kind |-> "close", pc |-> "closing", shell |-> runtime[r].handle]])
    BY DEF Write, Close, manager
  <2> QED BY <2>1, <2>2, <2>3 DEF TypeParts, Waited
<1>3. HistoryOK'
  BY Bounds DEF Write, Close, Ask, lost, TypeParts, HistoryOK
<1> QED BY <1>1, <1>2, <1>3
        DEF Write, Close, TypeParts, manager, daemon, RefOK, DaemonOK

LEMMA DisposeType ==
    ASSUME TypeParts, NEW r \in Runtime, Dispose(r)
    PROVE  RefOK' /\ leave' \in [Runtime -> LeaveType] /\ DaemonOK'
<1>1. \A e \in Handle :
        /\ [pc |-> "ending", shell |-> e] \in LeaveType
        /\ [pc |-> "done", shell |-> 0] \in LeaveType
        /\ [pc |-> "removing", shell |-> 0] \in LeaveType
  BY Bounds DEF LeaveType
<1>2. ref.shell \in Handle
  BY DEF TypeParts, RefOK
<1>3. leave' \in [Runtime -> LeaveType]
  BY <1>1, <1>2 DEF Dispose, LeaveTo, TypeParts
<1>4. RefOK'
  BY Records DEF Dispose, TypeParts, RefOK
<1> QED BY <1>3, <1>4 DEF Dispose, TypeParts, DaemonOK

LEMMA LeaveTypes ==
    ASSUME TypeParts, NEW r \in Runtime, Leave(r)
    PROVE  TypeParts'
<1>1. runtime' \in [Runtime -> RuntimeType]
  BY Bounds DEF Leave, TypeParts, RuntimeType
<1>2. HistoryOK'
  BY DEF Leave, history, lost, TypeParts, HistoryOK
<1>3. RefOK' /\ leave' \in [Runtime -> LeaveType] /\ DaemonOK'
  <2> DEFINE e == runtime[r].handle
             pc == IF ref.shell = e THEN "closing" ELSE "hook"
  <2>1. CASE e = 0
    BY <2>1, DisposeType DEF Leave
  <2>2. CASE e # 0
    <3>1. e \in Handle
      BY DEF TypeParts, RuntimeType
    <3>2. leave' = [leave EXCEPT ![r] = [pc |-> pc, shell |-> e]]
          /\ UNCHANGED <<ref, container, shell>>
      BY <2>2 DEF Leave, LeaveTo
    <3>3. pc \in {"closing", "hook"}
      OBVIOUS
    <3> HIDE DEF pc, e
    <3>4. [pc |-> pc, shell |-> e] \in LeaveType
      BY <3>1, <3>3 DEF LeaveType
    <3> QED BY <3>2, <3>4 DEF TypeParts, RefOK, DaemonOK
  <2> QED BY <2>1, <2>2
<1> QED BY <1>1, <1>2, <1>3 DEF Leave, TypeParts, Waited

LEMMA OpenTypes ==
    ASSUME TypeParts, NEW r \in Runtime,
           OpenExec(r) \/ OpenFails(r) \/ OpenInstall(r) \/ OpenDone(r)
    PROVE  TypeParts'
<1>1. op[r] \in OpType /\ op[r].shell \in Handle
  BY DEF TypeParts, OpType
<1>2. PICK pc \in {"idle", "install", "sizing"}, e \in Handle :
        \/ op' = [op EXCEPT ![r] = NoOp]
        \/ op' = [op EXCEPT ![r].pc = pc, ![r].shell = e]
        \/ op' = [op EXCEPT ![r].pc = pc]
  <2>1. CASE OpenExec(r)
    <3>1. CASE container = "running"
      <4>1. PICK e \in Shell :
               op' = [op EXCEPT ![r].pc = "install", ![r].shell = e]
        BY <2>1, <3>1 DEF OpenExec
      <4> QED BY <4>1, Bounds
    <3>2. CASE container # "running"
      BY <2>1, <3>2, Bounds DEF OpenExec, OpenEnds
    <3> QED BY <3>1, <3>2
  <2>2. CASE OpenFails(r)
    BY <2>2, Bounds DEF OpenFails, OpenEnds
  <2>3. CASE OpenInstall(r)
    BY <2>3, Bounds DEF OpenInstall, OpenEnds
  <2>4. CASE OpenDone(r)
    BY <2>4, Bounds DEF OpenDone
  <2> QED BY <2>1, <2>2, <2>3, <2>4
<1>3. op' \in [Runtime -> OpType]
  BY <1>1, <1>2, Records DEF TypeParts, OpType
<1>4. Waited'
  <2>1. UNCHANGED ensure
    BY DEF OpenExec, OpenFails, OpenInstall, OpenDone, manager
  <2>2. \A q \in Runtime : op'[q].pc = "ensuring" => op[q].pc = "ensuring"
    BY <1>2, Records DEF TypeParts, OpType
  <2> QED BY <2>1, <2>2 DEF TypeParts, Waited
<1>5. RefOK'
  <2>1. ref' = ref \/ ref' = Ref(op[r].shell)
    BY DEF OpenExec, OpenFails, OpenInstall, OpenDone, manager
  <2> QED BY <1>1, <2>1, Records DEF TypeParts, RefOK
<1>6. DaemonOK'
  <2>1. UNCHANGED container /\ (UNCHANGED shell \/ \E d \in Shell :
                                  shell' = [shell EXCEPT ![d] = "live"])
    BY DEF OpenExec, OpenFails, OpenInstall, OpenDone, daemon
  <2> QED BY <2>1 DEF TypeParts, DaemonOK
<1>7. runtime' \in [Runtime -> RuntimeType] /\ UNCHANGED <<ensure, leave>>
  BY <1>1 DEF OpenExec, OpenFails, OpenInstall, OpenDone, manager, TypeParts,
              RuntimeType
<1>8. HistoryOK'
  <2>1. UNCHANGED <<calls, abandoned>> /\ mishaps' \in {mishaps, mishaps + 1}
        /\ (mishaps' # mishaps => mishaps < MaxMishap)
    BY DEF OpenExec, OpenFails, OpenInstall, OpenDone, history, lost, Mishap
  <2>2. displaced' \cup unclaimed' \cup unheard' \subseteq Handle
    BY <1>1, Bounds DEF OpenExec, OpenFails, OpenInstall, OpenDone, history, lost,
                        TypeParts, HistoryOK
  <2> QED BY <2>1, <2>2, Bounds DEF TypeParts, HistoryOK
<1> QED BY <1>3, <1>4, <1>5, <1>6, <1>7, <1>8 DEF TypeParts

LEMMA EndShellType ==
    ASSUME TypeParts, NEW e, EndShell(e)
    PROVE  RefOK' /\ shell' \in [Shell -> {"none", "live", "dead", "lost", "closed"}]
<1>1. RefOK'
  BY Records, Bounds DEF EndShell, TypeParts, RefOK
<1> QED BY <1>1 DEF EndShell, Closed, TypeParts, DaemonOK

LEMMA CloseTypes ==
    ASSUME TypeParts, NEW r \in Runtime, CloseDone(r) \/ LeaveClosed(r)
    PROVE  TypeParts'
<1>1. RefOK' /\ DaemonOK'
  BY EndShellType DEF CloseDone, LeaveClosed, TypeParts, DaemonOK
<1>2. runtime' \in [Runtime -> RuntimeType]
  BY Bounds DEF CloseDone, LeaveClosed, TypeParts, RuntimeType
<1>3. op' \in [Runtime -> OpType] /\ Waited'
  BY Records DEF CloseDone, LeaveClosed, TypeParts, Waited
<1>4. leave' \in [Runtime -> LeaveType]
  <2>1. [pc |-> "hook", shell |-> 0] \in LeaveType
    BY Bounds DEF LeaveType
  <2> QED BY <2>1 DEF CloseDone, LeaveClosed, LeaveTo, TypeParts
<1>5. HistoryOK'
  <2>1. UNCHANGED <<calls, mishaps, unclaimed, unheard, abandoned>>
        /\ displaced' \subseteq displaced \cup Shell
    BY DEF CloseDone, LeaveClosed, EndShell
  <2> QED BY <2>1, Bounds DEF TypeParts, HistoryOK
<1> QED BY <1>1, <1>2, <1>3, <1>4, <1>5 DEF CloseDone, LeaveClosed, TypeParts

LEMMA DisposalTypes ==
    ASSUME TypeParts, NEW r \in Runtime,
           LeaveHooked(r) \/ DisposeEnded(r) \/ DisposeRemove(r)
    PROVE  TypeParts'
<1>1. CASE LeaveHooked(r)
  <2>1. runtime' \in [Runtime -> RuntimeType]
    BY <1>1, Bounds DEF LeaveHooked, TypeParts, RuntimeType
  <2>2. RefOK' /\ leave' \in [Runtime -> LeaveType] /\ DaemonOK'
    BY <1>1, DisposeType DEF LeaveHooked
  <2> QED BY <1>1, <2>1, <2>2 DEF LeaveHooked, TypeParts, history, lost, HistoryOK,
                                  Waited
<1>2. CASE DisposeEnded(r) \/ DisposeRemove(r)
  <2>1. /\ [pc |-> "removing", shell |-> 0] \in LeaveType
        /\ [pc |-> "done", shell |-> 0] \in LeaveType
    BY Bounds DEF LeaveType
  <2>2. leave' \in [Runtime -> LeaveType]
    BY <1>2, <2>1 DEF DisposeEnded, DisposeRemove, LeaveTo, TypeParts
  <2>3. RefOK'
    BY <1>2, Records DEF DisposeEnded, DisposeRemove, manager, TypeParts, RefOK
  <2>4. DaemonOK'
    BY <1>2 DEF DisposeEnded, DisposeRemove, Closed, Removed, TypeParts, DaemonOK
  <2> QED BY <1>2, <2>2, <2>3, <2>4
          DEF DisposeEnded, DisposeRemove, manager, TypeParts, history,
              lost, HistoryOK, Waited
<1> QED BY <1>1, <1>2

\* Whoever waits for an ensuring hears of its end.
LEMMA ResolveType ==
    ASSUME TypeParts, NEW e \in Handle, Resolve(e) \/ Reject
    PROVE  /\ ensure' \in EnsureType /\ op' \in [Runtime -> OpType] /\ Waited'
<1>1. ensure' \in EnsureType
  BY Bounds DEF Resolve, Reject, EnsureType
<1>2. \A r \in Runtime : \/ r \notin Waiting /\ op'[r] = op[r]
                         \/ op'[r] = [op[r] EXCEPT !.pc = "exec"]
                         \/ op'[r] = NoOp
  BY DEF Resolve, Reject
<1>3. DOMAIN op' = Runtime /\ op' = [r \in Runtime |-> op'[r]]
  BY DEF Resolve, Reject
<1>4. ASSUME NEW r \in Runtime PROVE op'[r] \in OpType /\ op'[r].pc # "ensuring"
  <2>1. op[r] \in OpType
    BY DEF TypeParts
  <2>2. CASE r \notin Waiting /\ op'[r] = op[r]
    BY <2>1, <2>2 DEF Waiting
  <2>3. CASE op'[r] = [op[r] EXCEPT !.pc = "exec"]
    BY <2>1, <2>3 DEF OpType
  <2>4. CASE op'[r] = NoOp
    BY <2>4, Records
  <2> QED BY <1>2, <2>2, <2>3, <2>4
<1> QED BY <1>1, <1>3, <1>4 DEF Waited

LEMMA EnsureTypes ==
    ASSUME TypeParts, Ensure \/ EnsureFails
    PROVE  TypeParts'
<1>1. CASE EnsureInspect
  <2>1. ensure' \in EnsureType /\ op' \in [Runtime -> OpType] /\ Waited'
    <3>1. CASE container = "running"
      BY <1>1, <3>1, ResolveType DEF EnsureInspect, TypeParts, EnsureType
    <3>2. CASE container # "running"
      <4>1. ensure' = [pc |-> "prepare", shell |-> 0] /\ UNCHANGED op
        BY <1>1, <3>2 DEF EnsureInspect
      <4> QED BY <4>1, Bounds DEF EnsureType, TypeParts, Waited
    <3> QED BY <3>1, <3>2
  <2>2. RefOK'
    BY <1>1, Records DEF EnsureInspect, TypeParts, RefOK
  <2> QED BY <1>1, <2>1, <2>2
          DEF EnsureInspect, TypeParts, daemon, DaemonOK, lost, HistoryOK
<1>2. CASE EnsurePrepare \/ EnsureRemove
  <2>1. ensure' \in EnsureType /\ ensure'.pc # "none"
    BY <1>2 DEF EnsurePrepare, EnsureRemove, TypeParts, EnsureType
  <2>2. DaemonOK'
    BY <1>2 DEF EnsurePrepare, EnsureRemove, Removed, daemon, TypeParts, DaemonOK
  <2> QED BY <1>2, <2>1, <2>2
          DEF EnsurePrepare, EnsureRemove, TypeParts, RefOK, history, lost, HistoryOK,
              Waited
<1>3. CASE EnsureCreate \/ EnsureStart
  <2>1. ensure' \in EnsureType /\ op' \in [Runtime -> OpType] /\ Waited'
    <3>1. CASE Resolve(0) \/ Reject
      BY <3>1, ResolveType, Bounds
    <3>2. CASE ensure' = [ensure EXCEPT !.pc = "start"] /\ UNCHANGED op
      BY <3>2 DEF TypeParts, EnsureType, Waited
    <3> QED BY <1>3, <3>1, <3>2 DEF EnsureCreate, EnsureStart
  <2>2. RefOK'
    BY <1>3, Records, Bounds DEF EnsureCreate, EnsureStart, TypeParts, RefOK
  <2>3. DaemonOK'
    BY <1>3 DEF EnsureCreate, EnsureStart, TypeParts, DaemonOK
  <2> QED BY <1>3, <2>1, <2>2, <2>3
          DEF EnsureCreate, EnsureStart, Reject, TypeParts, HistoryOK
<1>4. CASE EnsureFails
  <2>1. ensure' \in EnsureType /\ op' \in [Runtime -> OpType] /\ Waited'
    BY <1>4, ResolveType, Bounds DEF EnsureFails
  <2>2. HistoryOK'
    BY <1>4, Bounds DEF EnsureFails, Reject, Mishap, TypeParts, HistoryOK
  <2> QED BY <1>4, <2>1, <2>2
          DEF EnsureFails, TypeParts, daemon, DaemonOK, RefOK
<1> QED BY <1>1, <1>2, <1>3, <1>4 DEF Ensure

LEMMA MishapTypes ==
    ASSUME TypeParts,
           Die \/ Crash \/ \E e \in Shell : Hangup(e) \/ Exit(e)
    PROVE  TypeParts'
<1>1. ASSUME NEW e \in Shell, Hangup(e) \/ Exit(e) PROVE TypeParts'
  <2>1. RefOK'
    BY <1>1, Records, Bounds DEF Hangup, Exit, Dropped, manager, TypeParts, RefOK
  <2>2. DaemonOK'
    BY <1>1 DEF Hangup, Exit, Closed, TypeParts, DaemonOK
  <2>3. HistoryOK'
    <3>1. CASE Hangup(e)
      BY <3>1 DEF Hangup, history, lost, TypeParts, HistoryOK
    <3>2. CASE Exit(e)
      BY <3>2, Bounds DEF Exit, Mishap, lost, TypeParts, HistoryOK
    <3> QED BY <1>1, <3>1, <3>2
  <2> QED BY <1>1, <2>1, <2>2, <2>3 DEF Hangup, Exit, manager, TypeParts, Waited
<1>2. CASE Die
  <2>1. DaemonOK'
    BY <1>2 DEF Die, TypeParts, DaemonOK
  <2>2. HistoryOK'
    BY <1>2, Bounds DEF Die, Mishap, lost, TypeParts, HistoryOK
  <2> QED BY <1>2, <2>1, <2>2 DEF Die, manager, TypeParts, RefOK, Waited
<1>3. CASE Crash
  <2>1. RefOK' /\ ensure' \in EnsureType /\ DaemonOK'
    BY <1>3, Records, Bounds DEF Crash, TypeParts, RefOK, EnsureType, DaemonOK
  <2>2. op' \in [Runtime -> OpType] /\ Waited'
    BY <1>3, Records DEF Crash, Waited
  <2>3. runtime' \in [Runtime -> RuntimeType]
    BY <1>3, Bounds DEF Crash, TypeParts, RuntimeType
  <2>4. leave' \in [Runtime -> LeaveType]
    BY <1>3, Bounds DEF Crash, TypeParts, LeaveType
  <2>5. HistoryOK'
    BY <1>3, Bounds DEF Crash, Mishap, TypeParts, HistoryOK
  <2> QED BY <2>1, <2>2, <2>3, <2>4, <2>5 DEF TypeParts
<1> QED BY <1>1, <1>2, <1>3

LEMMA TypeNext ==
    ASSUME TypeParts, [Next]_vars
    PROVE  TypeParts'
<1>1. ASSUME NEW r \in Runtime, Progress(r) PROVE TypeParts'
  BY <1>1, OpenTypes, CloseTypes, DisposalTypes DEF Progress
<1>2. CASE UNCHANGED vars
  BY <1>2 DEF vars, manager, daemon, history, lost, TypeParts, RefOK, DaemonOK, Waited,
              HistoryOK
<1> QED BY <1>1, <1>2, EnterType, AskType, WriteType, LeaveTypes, OpenTypes,
           EnsureTypes, MishapTypes DEF Next

\* The variables keep their types; in particular a reference that is gone has no
\* shell, and nobody waits for an ensuring that is over (pendingEnsures).
THEOREM SandboxTypes == Spec => []TypeOK
<1>1. Init => TypeParts
  BY TypeInit, TypeSplit
<1>2. TypeParts /\ [Next]_vars => TypeParts'
  BY TypeNext
<1> QED BY <1>1, <1>2, TypeSplit, PTL DEF Spec

-------------------------------------------------------------------------------
(* One stay after the other.                                               *)

\* The stays before one that has begun are over.
Stays == \A q, r \in Runtime :
            q < r /\ runtime[r].stage # "new" => runtime[q].stage = "left"

\* Who stays does not leave.
Staying == \A r \in Runtime : runtime[r].stage # "left" => leave[r].pc = "none"

\* An ensuring has somebody who waits for it.
Asked == ensure.pc # "none" => Waiting # {}

StayInv == Stays /\ Staying /\ Asked

LEMMA OneActive ==
    ASSUME Stays, NEW q \in Runtime, NEW r \in Runtime,
           runtime[q].stage = "active", runtime[r].stage = "active"
    PROVE  q = r
<1>1. q \in Nat /\ r \in Nat
  BY Bounds DEF Runtime
<1>2. ~(q < r) /\ ~(r < q)
  BY DEF Stays
<1> QED BY <1>1, <1>2

LEMMA StaysNext ==
    ASSUME TypeParts, Stays, [Next]_vars
    PROVE  Stays'
<1> USE DEF TypeParts
<1>1. ASSUME \A r \in Runtime : \/ runtime'[r].stage = runtime[r].stage
                                \/ /\ runtime[r].stage # "new"
                                   /\ runtime'[r].stage = "left"
      PROVE  Stays'
  BY <1>1 DEF Stays
<1>2. ASSUME NEW r \in Runtime, Enter(r) PROVE Stays'
  <2>1. \A q \in Runtime :
           runtime'[q].stage = IF q = r THEN "active" ELSE runtime[q].stage
    BY <1>2 DEF Enter, RuntimeType
  <2>2. runtime[r].stage = "new" /\ \A q \in Runtime : q < r =>
           runtime[q].stage = "left"
    BY <1>2 DEF Enter
  <2>3. \A q \in Runtime : ~(q < q)
    BY DEF Runtime
  <2> QED BY <2>1, <2>2, <2>3 DEF Stays
<1>3. ASSUME NEW r \in Runtime, Leave(r) PROVE Stays'
  BY <1>1, <1>3 DEF Leave, RuntimeType
<1>4. CASE Crash
  BY <1>1, <1>4 DEF Crash, RuntimeType
<1>5. ASSUME NEW r \in Runtime,
             \/ Write(r) \/ Close(r) \/ OpenDone(r) \/ CloseDone(r)
             \/ LeaveHooked(r)
      PROVE  Stays'
  <2>1. UNCHANGED runtime \/ \E e : runtime' = [runtime EXCEPT ![r].handle = e]
    BY <1>5 DEF Write, Close, OpenDone, CloseDone, LeaveHooked
  <2> QED BY <1>1, <2>1 DEF RuntimeType
<1>6. ASSUME UNCHANGED runtime PROVE Stays'
  BY <1>6 DEF Stays
<1>7. ASSUME NEW r \in Runtime,
             \/ Prewarm(r) \/ Open(r) \/ OpenFails(r) \/ OpenExec(r)
             \/ OpenInstall(r) \/ LeaveClosed(r) \/ DisposeEnded(r)
             \/ DisposeRemove(r)
      PROVE  UNCHANGED runtime
  BY <1>7 DEF Prewarm, Open, OpenFails, OpenExec, OpenInstall, LeaveClosed,
              DisposeEnded, DisposeRemove
<1>8. ASSUME Ensure \/ EnsureFails \/ Die
      PROVE  UNCHANGED runtime
  BY <1>8 DEF Ensure, EnsureInspect, EnsurePrepare, EnsureRemove, EnsureCreate,
              EnsureStart, EnsureFails, Die
<1>9. ASSUME NEW e \in Shell, Hangup(e) \/ Exit(e) PROVE UNCHANGED runtime
  BY <1>9 DEF Hangup, Exit
<1> QED BY <1>2, <1>3, <1>4, <1>5, <1>6, <1>7, <1>8, <1>9
        DEF Next, Progress, vars

LEMMA StayingNext ==
    ASSUME TypeParts, Staying, [Next]_vars
    PROVE  Staying'
<1> USE DEF TypeParts
<1>1. ASSUME NEW r \in Runtime, Enter(r) PROVE Staying'
  BY <1>1 DEF Enter, Staying, RuntimeType
<1>2. ASSUME NEW r \in Runtime, Leave(r) PROVE Staying'
  <2>1. runtime'[r].stage = "left"
        /\ \A q \in Runtime : q # r => runtime'[q] = runtime[q]
                                       /\ leave'[q] = leave[q]
    BY <1>2 DEF Leave, Dispose, LeaveTo, RuntimeType
  <2> QED BY <2>1 DEF Staying
<1>3. ASSUME NEW r \in Runtime,
             \/ LeaveClosed(r) \/ LeaveHooked(r) \/ DisposeEnded(r)
             \/ DisposeRemove(r)
      PROVE  Staying'
  <2>1. leave[r].pc # "none" /\ \A q \in Runtime :
           /\ runtime'[q].stage = runtime[q].stage
           /\ q # r => leave'[q] = leave[q]
    BY <1>3 DEF LeaveClosed, LeaveHooked, DisposeEnded, DisposeRemove, Dispose,
                LeaveTo, RuntimeType
  <2> QED BY <2>1 DEF Staying
<1>4. CASE Crash
  BY <1>4 DEF Crash, Staying, RuntimeType
<1>5. ASSUME NEW r \in Runtime,
             \/ Write(r) \/ Close(r) \/ OpenDone(r) \/ CloseDone(r)
      PROVE  Staying'
  <2>1. UNCHANGED leave
        /\ (UNCHANGED runtime \/ \E e : runtime' = [runtime EXCEPT ![r].handle = e])
    BY <1>5 DEF Write, Close, OpenDone, CloseDone
  <2> QED BY <2>1 DEF Staying, RuntimeType
<1>6. ASSUME UNCHANGED <<runtime, leave>> PROVE Staying'
  BY <1>6 DEF Staying
<1>7. ASSUME NEW r \in Runtime,
             \/ Prewarm(r) \/ Open(r) \/ OpenFails(r) \/ OpenExec(r)
             \/ OpenInstall(r)
      PROVE  UNCHANGED <<runtime, leave>>
  BY <1>7 DEF Prewarm, Open, OpenFails, OpenExec, OpenInstall
<1>8. ASSUME Ensure \/ EnsureFails \/ Die
      PROVE  UNCHANGED <<runtime, leave>>
  BY <1>8 DEF Ensure, EnsureInspect, EnsurePrepare, EnsureRemove, EnsureCreate,
              EnsureStart, EnsureFails, Die
<1>9. ASSUME NEW e \in Shell, Hangup(e) \/ Exit(e)
      PROVE  UNCHANGED <<runtime, leave>>
  BY <1>9 DEF Hangup, Exit
<1> QED BY <1>1, <1>2, <1>3, <1>4, <1>5, <1>6, <1>7, <1>8, <1>9
        DEF Next, Progress, vars

LEMMA AskedNext ==
    ASSUME TypeParts, Asked, [Next]_vars
    PROVE  Asked'
<1> USE DEF TypeParts
<1>1. ASSUME NEW r \in Runtime, Prewarm(r) \/ Open(r) PROVE Asked'
  <2>1. op'[r].pc = "ensuring"
    BY <1>1 DEF Prewarm, Open
  <2> QED BY <2>1 DEF Asked, Waiting
<1>2. CASE (\E e : Resolve(e)) \/ Reject \/ Crash
  BY <1>2 DEF Resolve, Reject, Crash, Asked
<1>3. ASSUME ensure.pc # "none" \/ UNCHANGED ensure,
             \A q \in Waiting : op'[q] = op[q]
      PROVE  Asked'
  BY <1>3 DEF Asked, Waiting
<1>4. ASSUME NEW r \in Runtime,
             \/ Enter(r) \/ Write(r) \/ Close(r) \/ Leave(r) \/ Progress(r)
             \/ OpenFails(r)
      PROVE  Asked'
  <2>1. UNCHANGED ensure
    BY <1>4 DEF Enter, Write, Close, Leave, Progress, OpenFails, OpenExec,
         OpenInstall, OpenDone, CloseDone, LeaveClosed, LeaveHooked,
         DisposeEnded, DisposeRemove, manager
  <2>2. UNCHANGED op \/ (r \notin Waiting
                         /\ \A q \in Runtime : q # r => op'[q] = op[q])
    BY <1>4 DEF Enter, Write, Close, Ask, Leave, Progress, OpenFails, OpenExec,
         OpenInstall, OpenDone, CloseDone, LeaveClosed, LeaveHooked,
         DisposeEnded, DisposeRemove, OpenEnds, Waiting
  <2>3. Waiting \subseteq Runtime
    BY DEF Waiting
  <2> QED BY <1>3, <2>1, <2>2, <2>3
<1>5. CASE Ensure \/ EnsureFails
  <2>1. \/ \E e : Resolve(e)
        \/ Reject
        \/ ensure.pc # "none" /\ UNCHANGED op
    BY <1>5 DEF Ensure, EnsureInspect, EnsurePrepare, EnsureRemove, EnsureCreate,
                EnsureStart, EnsureFails
  <2> QED BY <1>2, <1>3, <2>1
<1>6. CASE Die \/ \E e \in Shell : Hangup(e) \/ Exit(e)
  BY <1>3, <1>6 DEF Die, Hangup, Exit, manager
<1>7. CASE UNCHANGED vars
  BY <1>3, <1>7 DEF vars, manager
<1> QED BY <1>1, <1>2, <1>4, <1>5, <1>6, <1>7 DEF Next

LEMMA StayInit == Init => StayInv
BY DEF Init, StayInv, Stays, Staying, Asked

LEMMA StayNext ==
    ASSUME TypeParts, StayInv, [Next]_vars
    PROVE  StayInv'
BY StaysNext, StayingNext, AskedNext DEF StayInv
-------------------------------------------------------------------------------
(* What the daemon has, and who answers for it.                            *)

RemovalDue == \E q \in Runtime : leave[q].pc = "removing"
Covered == ref.present \/ RemovalDue

\* A shell runs in a container that runs, and the manager has a reference to it
\* or is about to remove it.
LiveCovered == \A e \in Shell : shell[e] = "live" => container = "running" /\ Covered

\* So is the container that is being inspected, or in which a shell is about to
\* start.
UseCovered ==
    container = "running"
        /\ (ensure.pc = "inspect" \/ \E r \in Runtime : op[r].pc = "exec") => Covered

\* The container is made after the one of its name has been removed.
Making == /\ ensure.pc = "create" => container = "none"
          /\ ensure.pc = "start" => container # "running"

Daemon == LiveCovered /\ UseCovered /\ Making

\* dispose() takes the reference away only to remove the container.
LEMMA Disposing ==
    ASSUME TypeParts, NEW r \in Runtime, Dispose(r)
    PROVE  /\ \A q \in Runtime : q # r => leave'[q] = leave[q]
           /\ UNCHANGED <<container, shell>>
           /\ \/ ~ref.present /\ ref' = ref /\ leave'[r].pc = "done"
              \/ ref.present /\ ref' = ref /\ leave'[r].pc = "ending"
              \/ ref.present /\ ref' = NoRef /\ leave'[r].pc = "removing"
BY DEF Dispose, LeaveTo, TypeParts

LEMMA DisposeCovers ==
    ASSUME TypeParts, NEW r \in Runtime, Dispose(r), leave[r].pc # "removing"
    PROVE  Covered => Covered'
<1>1. CASE RemovalDue
  <2>1. PICK q \in Runtime : leave[q].pc = "removing"
    BY <1>1 DEF RemovalDue
  <2>2. leave'[q].pc = "removing"
    BY <2>1, Disposing
  <2> QED BY <2>2 DEF Covered, RemovalDue
<1>2. CASE ref.present /\ leave'[r].pc # "removing"
  BY <1>2, Disposing DEF Covered
<1>3. CASE leave'[r].pc = "removing"
  BY <1>3 DEF Covered, RemovalDue
<1> QED BY <1>1, <1>2, <1>3 DEF Covered

\* What becomes of the leavings, apart from that of r.
LEMMA LeaverMoves ==
    ASSUME TypeParts, NEW r \in Runtime, Leave(r) \/ Progress(r), Staying
    PROVE  /\ \A q \in Runtime : q # r => leave'[q] = leave[q]
           /\ ~DisposeRemove(r) /\ leave[r].pc = "removing"
                => leave'[r].pc = "removing"
<1> USE DEF TypeParts
<1>1. CASE OpenExec(r) \/ OpenInstall(r) \/ OpenDone(r) \/ CloseDone(r)
  BY <1>1 DEF OpenExec, OpenInstall, OpenDone, CloseDone
<1>2. CASE LeaveClosed(r) \/ DisposeEnded(r) \/ DisposeRemove(r)
  BY <1>2 DEF LeaveClosed, DisposeEnded, DisposeRemove, LeaveTo
<1>3. CASE LeaveHooked(r)
  BY <1>3, Disposing DEF LeaveHooked
<1>4. CASE Leave(r)
  <2>1. leave[r].pc = "none"
    BY <1>4 DEF Leave, Staying
  <2> QED BY <1>4, <2>1, Disposing DEF Leave, LeaveTo
<1> QED BY <1>1, <1>2, <1>3, <1>4 DEF Progress

LEMMA RemovalStays ==
    ASSUME TypeParts, NEW r \in Runtime, Leave(r) \/ Progress(r), Staying,
           ~DisposeRemove(r)
    PROVE  RemovalDue => RemovalDue'
BY LeaverMoves DEF RemovalDue

LEMMA CoverStays ==
    ASSUME TypeParts, NEW r \in Runtime, Leave(r) \/ Progress(r), Staying,
           ~DisposeRemove(r)
    PROVE  Covered => Covered'
<1> USE DEF TypeParts
<1>1. CASE OpenExec(r) \/ OpenDone(r)
  BY <1>1, RemovalStays DEF OpenExec, OpenDone, manager, Covered
<1>2. CASE OpenInstall(r)
  BY <1>2, RemovalStays DEF OpenInstall, Covered, Ref
<1>3. CASE CloseDone(r) \/ LeaveClosed(r)
  BY <1>3, RemovalStays DEF CloseDone, LeaveClosed, EndShell, Covered, Ref
<1>4. CASE DisposeEnded(r)
  <2>1. leave'[r].pc = "removing"
    BY <1>4 DEF DisposeEnded, LeaveTo
  <2> QED BY <2>1 DEF Covered, RemovalDue
<1>5. CASE LeaveHooked(r)
  BY <1>5, DisposeCovers DEF LeaveHooked
<1>6. CASE Leave(r)
  <2>1. leave[r].pc = "none"
    BY <1>6 DEF Leave, Staying
  <2>2. CASE UNCHANGED ref
    BY <1>6, <2>2, RemovalStays DEF Covered
  <2>3. CASE Dispose(r)
    BY <2>1, <2>3, DisposeCovers
  <2> QED BY <1>6, <2>2, <2>3 DEF Leave
<1> QED BY <1>1, <1>2, <1>3, <1>4, <1>5, <1>6 DEF Progress

LEMMA DaemonMoves ==
    ASSUME Daemon, Covered => Covered', UNCHANGED container,
           \A e \in Shell : shell'[e] = "live" => shell[e] = "live",
           ensure'.pc \in {"none", ensure.pc},
           \A q \in Runtime : op'[q].pc = "exec" => op[q].pc = "exec"
    PROVE  Daemon'
<1>1. LiveCovered'
  BY DEF Daemon, LiveCovered
<1>2. UseCovered'
  BY DEF Daemon, UseCovered
<1>3. Making'
  BY DEF Daemon, Making
<1> QED BY <1>1, <1>2, <1>3 DEF Daemon

\* Nothing runs in a container that does not.
LEMMA DaemonStopped ==
    ASSUME \A e \in Shell : shell'[e] # "live", container' # "running",
           ensure'.pc = "create" => container' = "none"
    PROVE  Daemon'
BY DEF Daemon, LiveCovered, UseCovered, Making

LEMMA DaemonAsks ==
    ASSUME TypeParts, Daemon, NEW r \in Runtime, Prewarm(r) \/ Open(r)
    PROVE  Daemon'
<1> USE DEF TypeParts
<1>1. UNCHANGED <<ref, container, shell, leave>>
  BY DEF Prewarm, Open, daemon
<1>2. \A q \in Runtime : op'[q].pc = "exec" => op[q].pc = "exec"
  BY DEF Prewarm, Open
<1>3. Covered' <=> Covered
  BY <1>1 DEF Covered, RemovalDue
<1>4. CASE UNCHANGED ensure
  BY <1>1, <1>2, <1>3, <1>4, DaemonMoves
<1>5. CASE ensure' = [pc |-> "inspect", shell |-> ref.shell] /\ ref.present
  BY <1>1, <1>3, <1>5 DEF Daemon, LiveCovered, UseCovered, Making, Covered
<1>6. CASE ensure' = [pc |-> "prepare", shell |-> 0]
  BY <1>1, <1>2, <1>3, <1>6 DEF Daemon, LiveCovered, UseCovered, Making
<1> QED BY <1>4, <1>5, <1>6 DEF Prewarm, Open, BeginEnsure

LEMMA DaemonEnsure ==
    ASSUME TypeParts, Daemon, Ensure
    PROVE  Daemon'
<1> USE DEF TypeParts
<1>1. UNCHANGED leave /\ (RemovalDue' <=> RemovalDue)
  BY DEF Ensure, EnsureInspect, EnsurePrepare, EnsureRemove, EnsureCreate,
         EnsureStart, RemovalDue
<1>2. CASE EnsureInspect
  <2>1. UNCHANGED <<container, shell>> /\ ensure.pc = "inspect"
    BY <1>2 DEF EnsureInspect, daemon
  <2>2. CASE container = "running"
    <3>1. Covered /\ UNCHANGED ref /\ ensure'.pc = "none"
      BY <1>2, <2>1, <2>2 DEF EnsureInspect, Resolve, Daemon, UseCovered
    <3>2. Covered'
      BY <1>1, <3>1 DEF Covered
    <3> QED BY <2>1, <3>1, <3>2 DEF Daemon, LiveCovered, UseCovered, Making
  <2>3. CASE container # "running"
    <3>1. ensure'.pc = "prepare"
      BY <1>2, <2>3 DEF EnsureInspect
    <3> QED BY <2>1, <2>3, <3>1, DaemonStopped DEF Daemon, LiveCovered
  <2> QED BY <2>2, <2>3
<1>3. CASE EnsurePrepare
  <2>1. UNCHANGED <<container, shell, ref, op>> /\ ensure'.pc = "remove"
    BY <1>3 DEF EnsurePrepare, daemon, EnsureType
  <2> QED BY <1>1, <2>1 DEF Daemon, LiveCovered, UseCovered, Making, Covered
<1>4. CASE EnsureRemove
  <2>1. container' = "none" /\ \A e \in Shell : shell'[e] # "live"
    BY <1>4 DEF EnsureRemove, Removed
  <2> QED BY <2>1, DaemonStopped
<1>5. CASE EnsureCreate
  <2>1. container = "none" /\ \A e \in Shell : shell[e] # "live"
    BY <1>5 DEF EnsureCreate, Daemon, LiveCovered, Making
  <2>2. ensure'.pc = "start" /\ container' = "created" /\ UNCHANGED shell
    BY <1>5, <2>1 DEF EnsureCreate, EnsureType
  <2> QED BY <2>1, <2>2, DaemonStopped
<1>6. CASE EnsureStart
  <2>1. container # "running" /\ \A e \in Shell : shell[e] # "live"
    BY <1>6 DEF EnsureStart, Daemon, LiveCovered, Making
  <2>2. UNCHANGED shell /\ ensure'.pc = "none"
    <3>1. CASE container = "created"
      BY <1>6, <3>1 DEF EnsureStart, Resolve
    <3>2. CASE container # "created"
      BY <1>6, <3>2 DEF EnsureStart, Reject
    <3> QED BY <1>6, <3>1, <3>2 DEF EnsureStart
  <2>3. CASE container = "created"
    <3>1. Covered'
      BY <1>6, <2>3 DEF EnsureStart, Covered, Ref
    <3> QED BY <2>1, <2>2, <3>1 DEF Daemon, LiveCovered, UseCovered, Making
  <2>4. CASE container # "created"
    <3>1. UNCHANGED container
      BY <1>6, <2>4 DEF EnsureStart
    <3> QED BY <2>1, <2>2, <3>1, DaemonStopped
  <2> QED BY <2>3, <2>4
<1> QED BY <1>2, <1>3, <1>4, <1>5, <1>6 DEF Ensure

LEMMA DaemonRuntime ==
    ASSUME TypeParts, StayInv, Daemon, NEW r \in Runtime,
           \/ Enter(r) \/ Write(r) \/ Close(r) \/ Leave(r) \/ Progress(r)
           \/ OpenFails(r)
    PROVE  Daemon'
<1> USE DEF TypeParts
<1>1. CASE Enter(r) \/ Write(r) \/ Close(r) \/ OpenFails(r)
  <2>1. UNCHANGED <<ref, ensure, container, shell, leave>>
    BY <1>1 DEF Enter, Write, Close, OpenFails, manager, daemon
  <2>2. \A q \in Runtime : op'[q].pc = "exec" => op[q].pc = "exec"
    BY <1>1, Records DEF Enter, Write, Close, OpenFails, OpenEnds
  <2> QED BY <2>1, <2>2, DaemonMoves DEF Covered, RemovalDue
<1>2. CASE OpenExec(r)
  <2>1. CASE container = "running"
    <3>1. Covered
      BY <1>2, <2>1 DEF OpenExec, Daemon, UseCovered
    <3>2. UNCHANGED <<container, ensure>> /\ Covered'
      BY <1>2, <3>1 DEF OpenExec, manager, Covered, RemovalDue
    <3> QED BY <2>1, <3>2 DEF Daemon, LiveCovered, UseCovered, Making
  <2>2. CASE container # "running"
    <3>1. UNCHANGED <<ref, ensure, container, shell, leave>>
      BY <1>2, <2>2 DEF OpenExec, manager
    <3> QED BY <2>2, <3>1 DEF Daemon, LiveCovered, UseCovered, Making
  <2> QED BY <2>1, <2>2
<1>3. CASE DisposeRemove(r)
  <2>1. container' = "none" /\ \A e \in Shell : shell'[e] # "live"
    BY <1>3 DEF DisposeRemove, Removed
  <2> QED BY <2>1, DaemonStopped
<1>4. CASE (Leave(r) \/ Progress(r)) /\ ~OpenExec(r) /\ ~DisposeRemove(r)
  <2>1. Covered => Covered'
    BY <1>4, CoverStays DEF StayInv
  <2>2. UNCHANGED <<ensure, container>>
    BY <1>4, Disposing DEF Leave, Progress, OpenInstall, OpenDone, CloseDone,
         LeaveClosed, LeaveHooked, DisposeEnded, manager, daemon
  <2>3. \A e \in Shell : shell'[e] = "live" => shell[e] = "live"
    BY <1>4, Disposing DEF Leave, Progress, OpenInstall, OpenDone, CloseDone,
         LeaveClosed, LeaveHooked, DisposeEnded, EndShell, Closed, daemon,
         DaemonOK
  <2>4. \A q \in Runtime : op'[q].pc = "exec" => op[q].pc = "exec"
    BY <1>4, Records DEF Leave, Progress, OpenInstall, OpenDone, CloseDone,
         LeaveClosed, LeaveHooked, DisposeEnded, OpenEnds, OpType
  <2> QED BY <2>1, <2>2, <2>3, <2>4, DaemonMoves
<1> QED BY <1>1, <1>2, <1>3, <1>4 DEF Progress

LEMMA DaemonMishap ==
    ASSUME TypeParts, Daemon,
           Die \/ Crash \/ EnsureFails \/ \E e \in Shell : Hangup(e) \/ Exit(e)
    PROVE  Daemon'
<1> USE DEF TypeParts
<1>1. CASE Die
  <2>1. container' = "created" /\ UNCHANGED ensure
        /\ \A e \in Shell : shell'[e] # "live"
    BY <1>1 DEF Die, manager
  <2>2. ensure.pc # "create"
    BY <1>1 DEF Die, Daemon, Making
  <2> QED BY <2>1, <2>2, DaemonStopped
<1>2. CASE Crash
  <2>1. /\ \A e \in Shell : shell'[e] # "live"
        /\ ensure'.pc = "none" /\ \A r \in Runtime : op'[r].pc # "exec"
    BY <1>2, Records DEF Crash
  <2> QED BY <2>1 DEF Daemon, LiveCovered, UseCovered, Making
<1>3. CASE EnsureFails
  <2>1. UNCHANGED <<ref, container, shell, leave>> /\ ensure'.pc = "none"
    BY <1>3 DEF EnsureFails, Reject, daemon
  <2>2. \A q \in Runtime : op'[q].pc = "exec" => op[q].pc = "exec"
    BY <1>3, Records DEF EnsureFails, Reject
  <2> QED BY <2>1, <2>2, DaemonMoves DEF Covered, RemovalDue
<1>4. ASSUME NEW e \in Shell, Hangup(e) \/ Exit(e) PROVE Daemon'
  <2>1. UNCHANGED <<ensure, container, op, leave>>
    BY <1>4 DEF Hangup, Exit, manager
  <2>2. ref'.present = ref.present
    <3>1. CASE Hangup(e)
      BY <3>1 DEF Hangup, Dropped, RefOK, Ref
    <3>2. CASE Exit(e)
      BY <3>2 DEF Exit, manager
    <3> QED BY <1>4, <3>1, <3>2
  <2>3. \A d \in Shell : shell'[d] = "live" => shell[d] = "live"
    BY <1>4 DEF Hangup, Exit, Closed, DaemonOK
  <2> QED BY <2>1, <2>2, <2>3, DaemonMoves DEF Covered, RemovalDue
<1> QED BY <1>1, <1>2, <1>3, <1>4

LEMMA DaemonNext ==
    ASSUME TypeParts, StayInv, Daemon, [Next]_vars
    PROVE  Daemon'
<1>1. CASE UNCHANGED vars
  BY <1>1, DaemonMoves DEF vars, manager, daemon, Covered, RemovalDue
<1> QED BY <1>1, DaemonAsks, DaemonEnsure, DaemonRuntime, DaemonMishap DEF Next
-------------------------------------------------------------------------------
(* What a runtime is asked for, and the shells it knows.                   *)

Begun(e) == e \in Shell /\ shell[e] # "none"

\* A shell that is named has been started; an opening runtime has none yet, and a
\* closing one that of which it awaits the end, or it has left.
Fit(r) ==
    /\ runtime[r].stage = "new" => runtime[r].handle = 0 /\ op[r].pc = "idle"
    /\ op[r].pc \in {"exec", "install", "sizing"} => op[r].kind = "open"
    /\ op[r].kind = "open" => runtime[r].handle = 0
    /\ op[r].pc = "closing" => runtime[r].handle \in {0, op[r].shell}
    /\ op[r].pc \in {"install", "sizing"} => Begun(op[r].shell)
    /\ runtime[r].handle # 0 => Begun(runtime[r].handle)

Fitting == \A r \in Runtime : Fit(r)

\* A shell once started is never again one that was not.
LEMMA ShellsBegin ==
    ASSUME TypeParts, [Next]_vars
    PROVE  \A e : Begun(e) => Begun(e)'
<1> USE DEF TypeParts, DaemonOK, Begun
<1>1. CASE UNCHANGED shell
  BY <1>1
<1>2. CASE EnsureRemove \/ \E r \in Runtime : DisposeRemove(r)
  BY <1>2 DEF EnsureRemove, DisposeRemove, Removed
<1>3. CASE Die \/ Crash \/ \E e \in Shell : Hangup(e) \/ Exit(e)
  BY <1>3 DEF Die, Crash, Hangup, Exit, Closed
<1>4. CASE \E r \in Runtime : CloseDone(r) \/ LeaveClosed(r) \/ DisposeEnded(r)
  BY <1>4 DEF CloseDone, LeaveClosed, DisposeEnded, EndShell, Closed
<1>5. CASE \E r \in Runtime : OpenExec(r)
  BY <1>5 DEF OpenExec
<1>6. ASSUME NEW r \in Runtime,
             \/ Enter(r) \/ Prewarm(r) \/ Open(r) \/ Write(r) \/ Close(r) \/ Leave(r)
             \/ OpenInstall(r) \/ OpenDone(r) \/ LeaveHooked(r) \/ OpenFails(r)
      PROVE  UNCHANGED shell
  BY <1>6, Disposing DEF Enter, Prewarm, Open, Write, Close, Leave, OpenInstall,
         OpenDone, LeaveHooked, OpenFails, daemon
<1>7. CASE EnsureInspect \/ EnsurePrepare \/ EnsureCreate \/ EnsureStart \/ EnsureFails
  BY <1>1, <1>7 DEF EnsureInspect, EnsurePrepare, EnsureCreate, EnsureStart,
         EnsureFails, daemon
<1> QED BY <1>1, <1>2, <1>3, <1>4, <1>5, <1>6, <1>7
        DEF Next, Progress, Ensure, vars, daemon

LEMMA FittingKept ==
    ASSUME Fitting, \A e : Begun(e) => Begun(e)', NEW r \in Runtime, Fit(r)',
           \A q \in Runtime : q # r => op'[q] = op[q] /\ runtime'[q] = runtime[q]
    PROVE  Fitting'
<1>1. ASSUME NEW q \in Runtime, q # r PROVE Fit(q)'
  BY <1>1 DEF Fitting, Fit
<1> QED BY <1>1 DEF Fitting

LEMMA FittingRuntime ==
    ASSUME TypeParts, StayInv, Fitting, NEW r \in Runtime,
           \A e : Begun(e) => Begun(e)',
           \/ Enter(r) \/ Prewarm(r) \/ Open(r) \/ Write(r) \/ Close(r)
           \/ Leave(r) \/ Progress(r) \/ OpenFails(r)
    PROVE  Fitting'
<1> USE DEF TypeParts
<1>0. /\ op[r] \in OpType /\ runtime[r] \in RuntimeType
      /\ Fit(r)
  BY DEF Fitting
<1>1. \A q \in Runtime : q # r => op'[q] = op[q] /\ runtime'[q] = runtime[q]
  BY DEF Enter, Prewarm, Open, Write, Close, Leave, Progress, OpenExec, OpenFails,
         OpenEnds, OpenInstall, OpenDone, CloseDone, LeaveClosed, LeaveHooked,
         DisposeEnded, DisposeRemove
<1>2. CASE Enter(r)
  <2>1. UNCHANGED op /\ runtime'[r].stage = "active"
        /\ runtime'[r].handle = runtime[r].handle
    BY <1>0, <1>2 DEF Enter, RuntimeType
  <2>2. Fit(r)'
    BY <1>0, <2>1 DEF Fit
  <2> QED BY <1>1, <2>2, FittingKept
<1>3. CASE Prewarm(r) \/ Open(r)
  <2>1. UNCHANGED runtime /\ runtime[r].stage = "active"
        /\ op'[r].pc = "ensuring" /\ op'[r].kind \in {"prewarm", "open"}
        /\ (op'[r].kind = "open" => runtime[r].handle = 0)
    BY <1>3 DEF Prewarm, Open, Ask
  <2>2. Fit(r)'
    BY <1>0, <2>1 DEF Fit
  <2> QED BY <1>1, <2>2, FittingKept
<1>4. CASE Write(r) \/ Close(r)
  <2>1. runtime[r].stage = "active" /\ op[r].pc = "idle"
    BY <1>4 DEF Write, Close, Ask
  <2>2. \/ UNCHANGED op /\ runtime'[r].handle = 0
           /\ runtime'[r].stage = "active"
        \/ /\ UNCHANGED runtime
           /\ op'[r] = [kind |-> "close", pc |-> "closing",
                        shell |-> runtime[r].handle]
    BY <1>0, <1>4, <2>1 DEF Write, Close, RuntimeType
  <2>3. Fit(r)'
    BY <1>0, <2>1, <2>2 DEF Fit
  <2> QED BY <1>1, <2>3, FittingKept
<1>5. CASE Leave(r) \/ LeaveHooked(r)
  <2>1. UNCHANGED op /\ runtime'[r].stage = "left" /\ runtime'[r].handle = 0
    BY <1>0, <1>5 DEF Leave, LeaveHooked, StayInv, Staying, RuntimeType
  <2>2. Fit(r)'
    BY <1>0, <2>1 DEF Fit
  <2> QED BY <1>1, <2>2, FittingKept
<1>6. CASE OpenFails(r)
  <2>1. UNCHANGED runtime /\ op'[r] = NoOp /\ op[r].pc \in {"exec", "install"}
    BY <1>6 DEF OpenFails, OpenEnds
  <2>2. Fit(r)'
    BY <1>0, <2>1, Records DEF Fit
  <2> QED BY <1>1, <2>2, FittingKept
<1>7. CASE OpenExec(r)
  <2>1. UNCHANGED runtime /\ op[r].pc = "exec"
    BY <1>7 DEF OpenExec
  <2>2. CASE container = "running"
    <3>1. PICK e \in Shell :
             /\ shell' = [shell EXCEPT ![e] = "live"]
             /\ op' = [op EXCEPT ![r].pc = "install", ![r].shell = e]
      BY <1>7, <2>2 DEF OpenExec
    <3>2. op'[r].pc = "install" /\ op'[r].kind = "open" /\ op'[r].shell = e
      BY <1>0, <2>1, <3>1 DEF OpType, Fit
    <3>3. shell'[e] = "live"
      BY <3>1 DEF DaemonOK
    <3>4. Begun(op[r].shell)'
      BY <3>2, <3>3 DEF Begun
    <3>5. Fit(r)'
      BY <1>0, <2>1, <3>2, <3>4 DEF Fit
    <3> QED BY <1>1, <3>5, FittingKept
  <2>3. CASE container # "running"
    <3>1. op'[r] = NoOp
      BY <1>7, <2>3 DEF OpenExec, OpenEnds
    <3>2. Fit(r)'
      BY <1>0, <2>1, <3>1, Records DEF Fit
    <3> QED BY <1>1, <3>2, FittingKept
  <2> QED BY <2>2, <2>3
<1>8. CASE OpenInstall(r)
  <2>1. UNCHANGED runtime /\ op[r].pc = "install"
    BY <1>8 DEF OpenInstall
  <2>2. \/ op'[r] = NoOp
        \/ op'[r].pc = "sizing" /\ op'[r].kind = "open" /\ op'[r].shell = op[r].shell
    BY <1>0, <1>8, <2>1 DEF OpenInstall, OpenEnds, OpType, Fit
  <2>3. Fit(r)'
    BY <1>0, <2>1, <2>2, Records DEF Fit
  <2> QED BY <1>1, <2>3, FittingKept
<1>9. CASE OpenDone(r) \/ CloseDone(r)
  <2>1. op'[r] = NoOp /\ runtime'[r].stage = runtime[r].stage
        /\ op[r].pc \in {"sizing", "closing"}
        /\ runtime'[r].handle = (IF op[r].pc = "sizing" THEN op[r].shell ELSE 0)
    BY <1>0, <1>9 DEF OpenDone, CloseDone, RuntimeType
  <2>2. Fit(r)'
    BY <1>0, <2>1, Records DEF Fit
  <2> QED BY <1>1, <2>2, FittingKept
<1>10. CASE LeaveClosed(r) \/ DisposeEnded(r) \/ DisposeRemove(r)
  <2>1. UNCHANGED <<op, runtime>>
    BY <1>10 DEF LeaveClosed, DisposeEnded, DisposeRemove
  <2>2. Fit(r)'
    BY <1>0, <2>1 DEF Fit
  <2> QED BY <1>1, <2>2, FittingKept
<1> QED BY <1>2, <1>3, <1>4, <1>5, <1>6, <1>7, <1>8, <1>9, <1>10 DEF Progress

LEMMA FittingEnsure ==
    ASSUME TypeParts, Fitting, Ensure \/ EnsureFails, \A e : Begun(e) => Begun(e)'
    PROVE  Fitting'
<1> USE DEF TypeParts
<1>1. UNCHANGED runtime
  BY DEF Ensure, EnsureInspect, EnsurePrepare, EnsureRemove, EnsureCreate,
         EnsureStart, EnsureFails
<1>2. UNCHANGED op \/ Reject \/ \E e \in Handle : Resolve(e)
  BY Bounds DEF Ensure, EnsureInspect, EnsurePrepare, EnsureRemove, EnsureCreate,
         EnsureStart, EnsureFails, EnsureType
<1>3. ASSUME NEW r \in Runtime PROVE Fit(r)'
  <2>1. op[r] \in OpType /\ Fit(r)
    BY DEF Fitting
  <2>2. CASE op'[r] = op[r] \/ op'[r] = NoOp
    BY <1>1, <2>1, <2>2, Records DEF Fit
  <2>3. CASE op'[r] = [op[r] EXCEPT !.pc = "exec"] /\ op[r].kind = "open"
             /\ op[r].pc = "ensuring"
    <3>1. op'[r].pc = "exec" /\ op'[r].kind = "open"
      BY <2>1, <2>3 DEF OpType
    <3> QED BY <1>1, <2>1, <2>3, <3>1 DEF Fit
  <2> QED BY <1>2, <2>2, <2>3 DEF Reject, Resolve, Waiting
<1> QED BY <1>3 DEF Fitting

LEMMA FittingNext ==
    ASSUME TypeParts, StayInv, Fitting, [Next]_vars
    PROVE  Fitting'
<1>0. \A e : Begun(e) => Begun(e)'
  BY ShellsBegin
<1>1. CASE UNCHANGED <<op, runtime>>
  <2>1. ASSUME NEW r \in Runtime PROVE Fit(r)'
    BY <1>0, <1>1 DEF Fitting, Fit
  <2> QED BY <2>1 DEF Fitting
<1>2. CASE Crash
  <2>1. ASSUME NEW r \in Runtime PROVE Fit(r)'
    <3>1. /\ op'[r] = NoOp
          /\ \/ runtime'[r] = runtime[r] /\ runtime[r].stage = "new"
             \/ runtime'[r] = [stage |-> "left", handle |-> 0]
      BY <1>2 DEF Crash
    <3>2. runtime'[r].handle = 0
      BY <3>1 DEF Fitting, Fit
    <3> QED BY <3>1, <3>2, Records DEF Fit
  <2> QED BY <2>1 DEF Fitting
<1>3. CASE Die \/ \E e \in Shell : Hangup(e) \/ Exit(e)
  BY <1>1, <1>3 DEF Die, Hangup, Exit
<1> QED BY <1>0, <1>1, <1>2, <1>3, FittingRuntime, FittingEnsure DEF Next, vars

-------------------------------------------------------------------------------
(* Input reaches the shell of a handle, or the container is going.         *)

\* Runtime r has shell e while its owner is there, or is about to have it.
Held(r, e) ==
    \/ runtime[r].stage = "active" /\ runtime[r].handle = e
    \/ op[r].pc = "sizing" /\ op[r].shell = e

Reached == \A r \in Runtime, e \in Shell :
    Held(r, e) /\ shell[e] = "live" =>
        ref.shell = e \/ e \in displaced \/ RemovalDue

\* What the reference has runs, or its stream will be heard to close.
Heard == \A e \in Shell :
    ref.shell = e => shell[e] \in {"live", "dead", "lost"} \/ e \in unheard

Lifeless == \A e \in Shell : shell[e] # "live"

LEMMA ReachedKept ==
    ASSUME Reached, RemovalDue => RemovalDue', displaced \subseteq displaced',
           \A r \in Runtime, e \in Shell :
              Held(r, e)' /\ shell'[e] = "live" =>
                /\ Held(r, e) /\ shell[e] = "live"
                /\ ref.shell = e => ref'.shell = e \/ e \in displaced'
    PROVE  Reached'
BY DEF Reached

LEMMA HeldBegun ==
    ASSUME Fitting, NEW r \in Runtime, NEW e \in Shell, Held(r, e)
    PROVE  shell[e] # "none"
BY Bounds DEF Fitting, Fit, Held, Begun

LEMMA EndShellKeeps ==
    ASSUME TypeParts, NEW d, EndShell(d)
    PROVE  /\ displaced \subseteq displaced'
           /\ \A e \in Shell : shell'[e] = "live" =>
                shell[e] = "live" /\ (ref.shell = e => e \in displaced')
           /\ \A e \in Shell : ref'.shell # e
<1>1. \A e \in Shell : shell'[e] = IF e = d THEN "closed" ELSE shell[e]
  BY DEF EndShell, Closed, TypeParts, DaemonOK
<1>2. \A e \in Shell : ref'.shell # e
  BY Bounds, Records DEF EndShell, TypeParts, RefOK
<1> QED BY <1>1, <1>2 DEF EndShell

LEMMA ReachedRuntime ==
    ASSUME TypeParts, StayInv, Fitting, Reached, NEW r \in Runtime,
           \/ Enter(r) \/ Prewarm(r) \/ Open(r) \/ Write(r) \/ Close(r)
           \/ Leave(r) \/ Progress(r) \/ OpenFails(r)
    PROVE  Reached'
<1> USE DEF TypeParts
<1>0. op[r] \in OpType /\ runtime[r] \in RuntimeType /\ Fit(r)
  BY DEF Fitting
<1>1. CASE Enter(r) \/ Prewarm(r) \/ Open(r) \/ Write(r) \/ Close(r)
           \/ OpenFails(r)
  <2>1. UNCHANGED <<ref, shell, leave, displaced>>
    BY <1>1 DEF Enter, Prewarm, Open, Write, Close, OpenFails, manager, daemon,
                history, lost
  <2>2. \A q \in Runtime : \/ runtime'[q].handle = 0
                           \/ /\ runtime'[q].handle = runtime[q].handle
                              /\ runtime'[q].stage = runtime[q].stage
    BY <1>0, <1>1 DEF Enter, Prewarm, Open, Write, Close, OpenFails, RuntimeType, Fit
  <2>3. \A q \in Runtime : op'[q].pc = "sizing" => op'[q] = op[q]
    BY <1>1, Records DEF Enter, Prewarm, Open, Write, Close, OpenFails, OpenEnds
  <2>4. \A q \in Runtime, e \in Shell : Held(q, e)' => Held(q, e)
    BY <2>2, <2>3, Bounds DEF Held
  <2> QED BY <2>1, <2>4, ReachedKept DEF RemovalDue
<1>2. CASE OpenExec(r)
  <2>1. UNCHANGED <<ref, runtime, leave, displaced>>
    BY <1>2 DEF OpenExec, manager, history, lost
  <2>2. op'[r].pc \in {"install", "idle"}
        /\ \A q \in Runtime : q # r => op'[q] = op[q]
    BY <1>0, <1>2, Records DEF OpenExec, OpenEnds, OpType
  <2>3. \A e \in Shell : shell'[e] = "live" => shell[e] \in {"live", "none"}
    BY <1>2 DEF OpenExec, DaemonOK
  <2>4. \A q \in Runtime, e \in Shell : Held(q, e)' => Held(q, e)
    BY <2>1, <2>2 DEF Held
  <2>5. \A q \in Runtime, e \in Shell : Held(q, e)' /\ shell'[e] = "live" =>
           Held(q, e) /\ shell[e] = "live"
    BY <2>3, <2>4, HeldBegun
  <2> QED BY <2>1, <2>5, ReachedKept DEF RemovalDue
<1>3. CASE OpenInstall(r)
  <2>1. UNCHANGED <<runtime, shell, leave>> /\ op[r].pc = "install"
    BY <1>3 DEF OpenInstall, daemon
  <2>2. CASE shell[op[r].shell] # "lost"
    <3>1. ref'.shell = op[r].shell /\ displaced' = displaced \cup (Shell \cap {ref.shell})
      BY <1>3, <2>2 DEF OpenInstall, Ref
    <3>2. op'[r].shell = op[r].shell /\ \A q \in Runtime : q # r => op'[q] = op[q]
      BY <1>0, <1>3, <2>2 DEF OpenInstall, OpType
    <3>3. ASSUME NEW q \in Runtime, NEW e \in Shell, Held(q, e)', shell'[e] = "live"
          PROVE  ref'.shell = e \/ e \in displaced' \/ RemovalDue'
      <4>1. Held(q, e) \/ e = op[r].shell
        BY <2>1, <3>2, <3>3 DEF Held
      <4>2. CASE Held(q, e)
        BY <2>1, <3>1, <3>3, <4>2 DEF Reached, RemovalDue
      <4> QED BY <3>1, <4>1, <4>2
    <3> QED BY <3>3 DEF Reached
  <2>3. CASE shell[op[r].shell] = "lost"
    <3>1. UNCHANGED <<ref, displaced>>
      BY <1>3, <2>3 DEF OpenInstall
    <3>2. \A q \in Runtime : op'[q].pc = "sizing" => op'[q] = op[q]
      BY <1>3, <2>3, Records DEF OpenInstall, OpenEnds
    <3>3. \A q \in Runtime, e \in Shell : Held(q, e)' => Held(q, e)
      BY <2>1, <3>2 DEF Held
    <3> QED BY <2>1, <3>1, <3>3, ReachedKept DEF RemovalDue
  <2> QED BY <2>2, <2>3
<1>4. CASE OpenDone(r)
  <2>1. UNCHANGED <<ref, shell, leave, displaced>> /\ op[r].pc = "sizing"
    BY <1>4 DEF OpenDone, manager, daemon
  <2>2. runtime'[r].handle = op[r].shell /\ op'[r].pc = "idle"
    BY <1>0, <1>4, Records DEF OpenDone, RuntimeType
  <2>3. \A q \in Runtime : q # r => op'[q] = op[q] /\ runtime'[q] = runtime[q]
    BY <1>4 DEF OpenDone
  <2>4. \A q \in Runtime, e \in Shell : Held(q, e)' => Held(q, e)
    BY <2>1, <2>2, <2>3 DEF Held
  <2> QED BY <2>1, <2>4, ReachedKept DEF RemovalDue
<1>5. CASE CloseDone(r) \/ LeaveClosed(r)
  <2>1. PICK d : EndShell(d)
    BY <1>5 DEF CloseDone, LeaveClosed
  <2>2. \A q \in Runtime : \/ runtime'[q].handle = 0
                           \/ /\ runtime'[q].handle = runtime[q].handle
                              /\ runtime'[q].stage = runtime[q].stage
    BY <1>0, <1>5 DEF CloseDone, LeaveClosed, RuntimeType
  <2>3. \A q \in Runtime : op'[q].pc = "sizing" => op'[q] = op[q]
    BY <1>5, Records DEF CloseDone, LeaveClosed
  <2>4. \A q \in Runtime, e \in Shell : Held(q, e)' => Held(q, e)
    BY <2>2, <2>3, Bounds DEF Held
  <2>5. RemovalDue => RemovalDue'
    <3>1. CASE CloseDone(r)
      BY <3>1 DEF CloseDone, RemovalDue
    <3>2. CASE LeaveClosed(r)
      <4>1. leave[r].pc = "closing"
        BY <3>2 DEF LeaveClosed
      <4> QED BY <3>2, <4>1, LeaverMoves DEF StayInv, Progress, RemovalDue
    <3> QED BY <1>5, <3>1, <3>2
  <2> QED BY <2>1, <2>4, <2>5, EndShellKeeps, ReachedKept
<1>6. CASE Leave(r) \/ LeaveHooked(r)
  <2>1. UNCHANGED <<shell, displaced, op>>
    BY <1>6, Disposing DEF Leave, LeaveHooked, history, lost
  <2>2. runtime'[r].handle = 0 /\ \A q \in Runtime : q # r => runtime'[q] = runtime[q]
    BY <1>0, <1>6 DEF Leave, LeaveHooked, RuntimeType
  <2>3. \A q \in Runtime, e \in Shell : Held(q, e)' => Held(q, e)
    BY <2>1, <2>2, Bounds DEF Held
  <2>4. UNCHANGED ref \/ leave'[r].pc = "removing"
    BY <1>6, Disposing DEF Leave, LeaveHooked
  <2>5. CASE leave'[r].pc = "removing"
    BY <2>5 DEF Reached, RemovalDue
  <2>6. CASE UNCHANGED ref
    <3>1. RemovalDue => RemovalDue'
      <4>1. leave[r].pc # "removing"
        BY <1>6 DEF Leave, LeaveHooked, StayInv, Staying
      <4> QED BY <1>6, <4>1, LeaverMoves DEF RemovalDue, StayInv, Progress
    <3> QED BY <2>1, <2>3, <2>6, <3>1, ReachedKept
  <2> QED BY <2>4, <2>5, <2>6
<1>7. CASE DisposeEnded(r)
  <2>1. leave'[r].pc = "removing"
    BY <1>7 DEF DisposeEnded, LeaveTo
  <2> QED BY <2>1 DEF Reached, RemovalDue
<1>8. CASE DisposeRemove(r)
  BY <1>8 DEF DisposeRemove, Removed, Reached
<1> QED BY <1>1, <1>2, <1>3, <1>4, <1>5, <1>6, <1>7, <1>8 DEF Progress

\* The end of an ensuring makes no opening go further than its start.
LEMMA ResolveStarts ==
    ASSUME TypeParts, UNCHANGED op \/ Reject \/ \E e : Resolve(e)
    PROVE  \A q \in Runtime :
              /\ op'[q].pc \in {"install", "sizing", "closing"} => op'[q] = op[q]
              /\ op[q].pc \in {"install", "sizing", "closing"} => op'[q] = op[q]
<1>1. ASSUME NEW q \in Runtime
      PROVE  \/ op'[q] = op[q]
             \/ op[q].pc = "ensuring" /\ op'[q].pc \in {"exec", "idle"}
  <2>1. CASE UNCHANGED op
    BY <2>1
  <2>2. CASE Reject
    BY <2>2, Records DEF Reject, Waiting
  <2>3. ASSUME NEW e, Resolve(e)
        PROVE  \/ op'[q] = op[q]
               \/ op[q].pc = "ensuring" /\ op'[q].pc \in {"exec", "idle"}
    <3>1. op[q] \in OpType
      BY DEF TypeParts
    <3> QED BY <2>3, <3>1, Records DEF Resolve, Waiting, OpType
  <2> QED BY <2>1, <2>2, <2>3
<1> QED BY <1>1

LEMMA ReachedRest ==
    ASSUME TypeParts, Daemon, Reached,
           \/ Ensure \/ EnsureFails \/ Die \/ Crash
           \/ (\E e \in Shell : Hangup(e) \/ Exit(e)) \/ UNCHANGED vars
    PROVE  Reached'
<1> USE DEF TypeParts
<1>1. ASSUME Lifeless' PROVE Reached'
  BY <1>1 DEF Lifeless, Reached
<1>2. CASE EnsureRemove \/ Die \/ Crash
  <2>1. Lifeless'
    BY <1>2 DEF EnsureRemove, Die, Crash, Removed, Lifeless
  <2> QED BY <1>1, <2>1
<1>3. ASSUME UNCHANGED <<runtime, leave, shell, displaced>>,
             \A q \in Runtime : op'[q].pc = "sizing" => op'[q] = op[q],
             UNCHANGED ref \/ Lifeless
      PROVE  Reached'
  <2>1. \A q \in Runtime, e \in Shell : Held(q, e)' => Held(q, e)
    BY <1>3 DEF Held
  <2>2. CASE UNCHANGED ref
    BY <1>3, <2>1, <2>2, ReachedKept DEF RemovalDue
  <2>3. CASE Lifeless
    BY <1>1, <1>3, <2>3 DEF Lifeless
  <2> QED BY <1>3, <2>2, <2>3
<1>4. CASE EnsureInspect \/ EnsurePrepare \/ EnsureCreate \/ EnsureStart \/ EnsureFails
           \/ UNCHANGED vars
  <2>1. UNCHANGED <<runtime, leave, shell, displaced>>
    BY <1>4 DEF EnsureInspect, EnsurePrepare, EnsureCreate, EnsureStart, EnsureFails,
                daemon, history, lost, vars
  <2>2. \A q \in Runtime : op'[q].pc = "sizing" => op'[q] = op[q]
    <3>1. UNCHANGED op \/ Reject \/ \E e : Resolve(e)
      BY <1>4 DEF EnsureInspect, EnsurePrepare, EnsureCreate, EnsureStart, EnsureFails,
                  vars
    <3> QED BY <3>1, ResolveStarts
  <2>3. UNCHANGED ref \/ Lifeless
    <3>1. CASE container # "running"
      BY <3>1 DEF Daemon, LiveCovered, Lifeless
    <3>2. CASE container = "running"
      BY <1>4, <3>2 DEF EnsureInspect, EnsurePrepare, EnsureCreate, EnsureStart,
                EnsureFails, manager, vars
    <3> QED BY <3>1, <3>2
  <2> QED BY <1>3, <2>1, <2>2, <2>3
<1>5. ASSUME NEW d \in Shell, Hangup(d) \/ Exit(d) PROVE Reached'
  <2>1. UNCHANGED <<runtime, leave, op, displaced>>
    BY <1>5 DEF Hangup, Exit, history, lost
  <2>2. \A e \in Shell : shell'[e] = "live" => shell[e] = "live" /\ e # d
    BY <1>5 DEF Hangup, Exit, Closed, DaemonOK
  <2>3. \A e \in Shell : e # d /\ ref.shell = e => ref'.shell = e
    BY <1>5 DEF Hangup, Exit, Dropped, manager
  <2> QED BY <2>1, <2>2, <2>3, ReachedKept DEF RemovalDue, Held
<1> QED BY <1>2, <1>4, <1>5 DEF Ensure

LEMMA ReachedNext ==
    ASSUME TypeParts, StayInv, Daemon, Fitting, Reached, [Next]_vars
    PROVE  Reached'
BY ReachedRuntime, ReachedRest DEF Next

LEMMA HeardNext ==
    ASSUME TypeParts, StayInv, Fitting, Heard, [Next]_vars
    PROVE  Heard'
<1> USE DEF TypeParts
<1>1. ASSUME \A e \in Shell : ref'.shell # e PROVE Heard'
  BY <1>1 DEF Heard
<1>2. ASSUME unheard \subseteq unheard', UNCHANGED ref,
             \A e \in Shell : shell[e] \in {"live", "dead", "lost"} /\ ref.shell = e =>
                shell'[e] \in {"live", "dead", "lost"}
      PROVE  Heard'
  BY <1>2 DEF Heard
<1>3. ASSUME UNCHANGED <<unheard, ref, shell>> PROVE Heard'
  BY <1>2, <1>3
<1>4. ASSUME NEW r \in Runtime,
             \/ Enter(r) \/ Prewarm(r) \/ Open(r) \/ Write(r) \/ Close(r)
             \/ OpenDone(r) \/ OpenFails(r)
      PROVE  Heard'
  BY <1>3, <1>4 DEF Enter, Prewarm, Open, Write, Close, OpenDone, OpenFails, manager,
                    daemon, history, lost
<1>5. ASSUME NEW r \in Runtime, CloseDone(r) \/ LeaveClosed(r) PROVE Heard'
  BY <1>1, <1>5, EndShellKeeps DEF CloseDone, LeaveClosed
<1>6. ASSUME NEW r \in Runtime, Leave(r) \/ LeaveHooked(r) PROVE Heard'
  <2>1. UNCHANGED <<shell, unheard>> /\ (UNCHANGED ref \/ ref' = NoRef)
    BY <1>6, Disposing DEF Leave, LeaveHooked, history, lost
  <2> QED BY <1>1, <1>3, <2>1, Records, Bounds
<1>7. ASSUME NEW r \in Runtime, DisposeEnded(r) \/ DisposeRemove(r) PROVE Heard'
  <2>1. CASE DisposeEnded(r)
    BY <1>1, <2>1, Records, Bounds DEF DisposeEnded
  <2>2. CASE DisposeRemove(r)
    BY <1>2, <2>2 DEF DisposeRemove, Removed, manager
  <2> QED BY <1>7, <2>1, <2>2
<1>8. ASSUME NEW r \in Runtime, OpenExec(r) PROVE Heard'
  <2>1. UNCHANGED <<ref, unheard>>
        /\ \A e \in Shell : shell'[e] \in {shell[e], "live"}
    BY <1>8 DEF OpenExec, manager, history, lost, DaemonOK
  <2> QED BY <1>2, <2>1
<1>9. ASSUME NEW r \in Runtime, OpenInstall(r) PROVE Heard'
  <2>1. CASE UNCHANGED ref
    BY <1>3, <1>9, <2>1 DEF OpenInstall, daemon, Heard
  <2>2. CASE shell[op[r].shell] # "lost"
    <3>1. UNCHANGED shell /\ ref'.shell = op[r].shell
          /\ (shell[op[r].shell] = "closed" => op[r].shell \in unheard')
      BY <1>9, <2>2 DEF OpenInstall, daemon, Ref
    <3>2. shell[op[r].shell] # "none"
      BY <1>9 DEF OpenInstall, Fitting, Fit, Begun
    <3> QED BY <3>1, <3>2 DEF Heard, DaemonOK
  <2> QED BY <1>9, <2>1, <2>2 DEF OpenInstall
<1>10. CASE Ensure \/ EnsureFails
  <2>1. UNCHANGED unheard
    BY <1>10 DEF Ensure, EnsureInspect, EnsurePrepare, EnsureRemove, EnsureCreate,
                 EnsureStart, EnsureFails, history, lost
  <2>2. ref' \in {ref, NoRef, Ref(0)}
    BY <1>10 DEF Ensure, EnsureInspect, EnsurePrepare, EnsureRemove, EnsureCreate,
                 EnsureStart, EnsureFails, daemon
  <2>4. UNCHANGED ref \/ \A e \in Shell : ref'.shell # e
    BY <2>2, Records, Bounds
  <2>3. \A e \in Shell : shell[e] \in {"live", "dead", "lost"} =>
           shell'[e] \in {"live", "dead", "lost"}
    BY <1>10 DEF Ensure, EnsureInspect, EnsurePrepare, EnsureRemove, EnsureCreate,
                 EnsureStart, EnsureFails, Removed, daemon
  <2> QED BY <1>1, <1>2, <2>1, <2>4, <2>3
<1>11. ASSUME NEW d \in Shell, Hangup(d) PROVE Heard'
  <2>1. UNCHANGED unheard /\ ref'.shell # d /\ ref'.shell \in {0, ref.shell}
    BY <1>11, Bounds, Records DEF Hangup, Dropped, history, lost
  <2>2. \A e \in Shell : e # d => shell'[e] = shell[e]
    BY <1>11 DEF Hangup, Closed
  <2> QED BY <2>1, <2>2, Bounds DEF Heard
<1>12. CASE Die \/ (\E e \in Shell : Exit(e)) \/ UNCHANGED vars
  <2>1. UNCHANGED <<ref, unheard>>
    BY <1>12 DEF Die, Exit, manager, history, lost, vars
  <2>2. \A e \in Shell : shell[e] \in {"live", "dead", "lost"} =>
           shell'[e] \in {"live", "dead", "lost"}
    BY <1>12 DEF Die, Exit, vars, daemon, DaemonOK
  <2> QED BY <1>2, <2>1, <2>2
<1>13. CASE Crash
  BY <1>1, <1>13, Records, Bounds DEF Crash
<1> QED BY <1>4, <1>5, <1>6, <1>7, <1>8, <1>9, <1>10, <1>11, <1>12, <1>13
        DEF Next, Progress

-------------------------------------------------------------------------------
(* Who answers for a shell that runs.                                      *)

\* Runtime r has shell e, opens it, or awaits its end.
KnownTo(r, e) ==
    \/ runtime[r].stage = "active" /\ runtime[r].handle = e
    \/ op[r].pc \in {"install", "sizing", "closing"} /\ op[r].shell = e
    \/ leave[r].pc = "closing" /\ leave[r].shell = e

Known == \A e \in Shell : shell[e] = "live" =>
    RemovalDue \/ e \in displaced \cup unclaimed \/ \E r \in Runtime : KnownTo(r, e)

LEMMA KnownKept ==
    ASSUME Known, RemovalDue => RemovalDue',
           displaced \cup unclaimed \subseteq displaced' \cup unclaimed',
           \A e \in Shell : shell'[e] = "live" => shell[e] = "live",
           \A r \in Runtime, e \in Shell :
              KnownTo(r, e) /\ shell[e] = "live" /\ shell'[e] = "live" =>
                KnownTo(r, e)' \/ e \in displaced' \cup unclaimed' \/ RemovalDue'
    PROVE  Known'
BY DEF Known

LEMMA KnownRuntime ==
    ASSUME TypeParts, StayInv, Fitting, Reached, Known, NEW r \in Runtime,
           \/ Enter(r) \/ Prewarm(r) \/ Open(r) \/ Write(r) \/ Close(r)
           \/ OpenFails(r) \/ OpenExec(r) \/ OpenInstall(r) \/ OpenDone(r) \/ CloseDone(r)
    PROVE  Known'
<1> USE DEF TypeParts
<1>0. op[r] \in OpType /\ runtime[r] \in RuntimeType /\ Fit(r)
  BY DEF Fitting
<1>1. UNCHANGED leave /\ (RemovalDue' <=> RemovalDue)
  BY DEF Enter, Prewarm, Open, Write, Close, OpenFails, OpenExec, OpenInstall, OpenDone,
         CloseDone, RemovalDue
<1>2. displaced \cup unclaimed \subseteq displaced' \cup unclaimed'
  BY DEF Enter, Prewarm, Open, Write, Close, OpenFails, OpenExec, OpenInstall, OpenDone,
         CloseDone, EndShell, history, lost
<1>3. \A q \in Runtime : q # r => op'[q] = op[q] /\ runtime'[q] = runtime[q]
  BY DEF Enter, Prewarm, Open, Write, Close, OpenFails, OpenExec, OpenInstall, OpenDone,
         CloseDone, OpenEnds
<1>4. \A q \in Runtime, e \in Shell : q # r /\ KnownTo(q, e) => KnownTo(q, e)'
  BY <1>1, <1>3 DEF KnownTo
<1>5. ASSUME \A e \in Shell : shell'[e] = "live" => shell[e] = "live",
             \A e \in Shell : KnownTo(r, e) /\ shell[e] = "live" /\ shell'[e] = "live" =>
                KnownTo(r, e)' \/ e \in displaced' \cup unclaimed' \/ RemovalDue'
      PROVE  Known'
  BY <1>1, <1>2, <1>4, <1>5, KnownKept
<1>6. CASE Enter(r) \/ Prewarm(r) \/ Open(r)
  <2>1. UNCHANGED shell
    BY <1>6 DEF Enter, Prewarm, Open, daemon
  <2>2. runtime'[r].handle = runtime[r].handle /\ runtime'[r].stage = "active"
    BY <1>0, <1>6 DEF Enter, Prewarm, Open, Ask, RuntimeType
  <2>3. op'[r] = op[r] \/ op[r].pc = "idle"
    BY <1>6 DEF Enter, Prewarm, Open, Ask
  <2> QED BY <1>1, <1>5, <2>1, <2>2, <2>3 DEF KnownTo
<1>7. CASE Write(r) \/ Close(r)
  <2>1. UNCHANGED shell /\ runtime[r].stage = "active" /\ op[r].pc = "idle"
    BY <1>7 DEF Write, Close, Ask, daemon
  <2>2. CASE UNCHANGED runtime
    BY <1>1, <1>5, <2>1, <2>2 DEF KnownTo
  <2>3. CASE ref.shell # runtime[r].handle
    <3>1. \A e \in Shell : shell[e] = "live" /\ runtime[r].handle = e =>
             e \in displaced \/ RemovalDue
      BY <2>1, <2>3 DEF Reached, Held
    <3> QED BY <1>1, <1>2, <1>5, <2>1, <3>1 DEF KnownTo
  <2> QED BY <1>7, <2>2, <2>3 DEF Write, Close
<1>8. CASE OpenFails(r)
  <2>1. UNCHANGED <<shell, runtime>>
        /\ unclaimed' = unclaimed \cup (Shell \cap {op[r].shell})
    BY <1>8 DEF OpenFails, daemon
  <2> QED BY <1>1, <1>5, <2>1 DEF KnownTo
<1>9. CASE OpenExec(r)
  <2>1. UNCHANGED runtime /\ op[r].pc = "exec"
    BY <1>9 DEF OpenExec
  <2>2. CASE container # "running"
    <3>1. UNCHANGED shell
      BY <1>9, <2>2 DEF OpenExec
    <3> QED BY <1>1, <1>5, <2>1, <3>1 DEF KnownTo
  <2>3. CASE container = "running"
    <3>1. PICK d \in Shell :
             /\ shell' = [shell EXCEPT ![d] = "live"]
             /\ op' = [op EXCEPT ![r].pc = "install", ![r].shell = d]
      BY <1>9, <2>3 DEF OpenExec
    <3>2. KnownTo(r, d)'
      BY <1>0, <3>1 DEF KnownTo, OpType
    <3>3. \A e \in Shell : KnownTo(r, e) => KnownTo(r, e)'
      BY <1>1, <2>1 DEF KnownTo
    <3>4. \A e \in Shell : e # d => shell'[e] = shell[e]
      BY <3>1 DEF DaemonOK
    <3> QED BY <1>1, <1>2, <1>4, <3>2, <3>3, <3>4 DEF Known
  <2> QED BY <2>2, <2>3
<1>10. CASE OpenInstall(r)
  <2>1. UNCHANGED <<runtime, shell>> /\ op[r].pc = "install"
    BY <1>10 DEF OpenInstall, daemon
  <2>2. shell[op[r].shell] # "lost" =>
           op'[r].pc = "sizing" /\ op'[r].shell = op[r].shell
    BY <1>0, <1>10 DEF OpenInstall, OpType
  <2> QED BY <1>1, <1>5, <2>1, <2>2 DEF KnownTo
<1>11. CASE OpenDone(r)
  <2>1. UNCHANGED shell /\ op[r].pc = "sizing"
    BY <1>11 DEF OpenDone, daemon
  <2>2. runtime'[r].handle = op[r].shell /\ runtime'[r].stage = runtime[r].stage
    BY <1>0, <1>11 DEF OpenDone, RuntimeType
  <2>3. runtime[r].handle = 0 /\ runtime[r].stage # "new"
    BY <1>0, <2>1 DEF Fit
  <2>4. runtime[r].stage = "left" => op[r].shell \in unclaimed'
    BY <1>11 DEF OpenDone
  <2> QED BY <1>1, <1>5, <2>1, <2>2, <2>3, <2>4, Bounds DEF KnownTo, RuntimeType
<1>12. CASE CloseDone(r)
  <2>1. EndShell(op[r].shell) /\ op[r].pc = "closing"
    BY <1>12 DEF CloseDone
  <2>2. shell'[op[r].shell] # "live" \/ op[r].shell \notin Shell
    BY <2>1 DEF EndShell, Closed, DaemonOK
  <2>3. runtime[r].handle \in {0, op[r].shell}
    BY <1>0, <2>1 DEF Fit
  <2> QED BY <1>1, <1>5, <2>1, <2>2, <2>3, EndShellKeeps, Bounds DEF KnownTo
<1> QED BY <1>6, <1>7, <1>8, <1>9, <1>10, <1>11, <1>12

LEMMA KnownLeaving ==
    ASSUME TypeParts, StayInv, Reached, Known, NEW r \in Runtime,
           \/ Leave(r) \/ LeaveClosed(r) \/ LeaveHooked(r) \/ DisposeEnded(r)
           \/ DisposeRemove(r)
    PROVE  Known'
<1> USE DEF TypeParts
<1>0. runtime[r] \in RuntimeType
  OBVIOUS
<1>1. CASE leave'[r].pc = "removing"
  BY <1>1 DEF Known, RemovalDue
<1>2. CASE DisposeRemove(r)
  BY <1>2 DEF DisposeRemove, Removed, Known
<1>3. CASE DisposeEnded(r)
  BY <1>1, <1>3 DEF DisposeEnded, LeaveTo
<1>4. /\ UNCHANGED op /\ (RemovalDue /\ ~DisposeRemove(r) => RemovalDue')
      /\ \A q \in Runtime : q # r => runtime'[q] = runtime[q] /\ leave'[q] = leave[q]
  BY LeaverMoves, RemovalStays DEF Leave, LeaveClosed, LeaveHooked, DisposeEnded,
         DisposeRemove, StayInv, Progress
<1>5. \A q \in Runtime, e \in Shell : q # r /\ KnownTo(q, e) => KnownTo(q, e)'
  BY <1>4 DEF KnownTo
<1>6. CASE LeaveClosed(r)
  <2>1. EndShell(leave[r].shell) /\ UNCHANGED <<runtime, unclaimed>>
        /\ ~DisposeRemove(r)
    BY <1>6 DEF LeaveClosed, DisposeRemove, EndShell
  <2>2. shell'[leave[r].shell] # "live" \/ leave[r].shell \notin Shell
    BY <2>1 DEF EndShell, Closed, DaemonOK
  <2>3. \A e \in Shell : KnownTo(r, e) /\ shell'[e] = "live" => KnownTo(r, e)'
    BY <1>4, <2>1, <2>2 DEF KnownTo
  <2> QED BY <1>4, <1>5, <2>1, <2>3, EndShellKeeps, KnownKept
<1>7. CASE LeaveHooked(r)
  <2>1. UNCHANGED <<shell, displaced, unclaimed>> /\ leave[r].pc = "hook"
        /\ ~DisposeRemove(r)
    BY <1>7, Disposing DEF LeaveHooked, history, lost, DisposeRemove
  <2>2. runtime[r].stage = "left"
    BY <2>1 DEF StayInv, Staying
  <2>3. \A e \in Shell : KnownTo(r, e) => KnownTo(r, e)'
    BY <1>4, <2>1, <2>2 DEF KnownTo
  <2> QED BY <1>4, <1>5, <2>1, <2>3, KnownKept
<1>8. CASE Leave(r)
  <2>1. leave[r].pc = "none" /\ runtime[r].stage = "active"
    BY <1>8 DEF Leave, StayInv, Staying
  <2>2. UNCHANGED <<shell, displaced, unclaimed>> /\ ~DisposeRemove(r)
    BY <1>8, <2>1, Disposing DEF Leave, history, lost, DisposeRemove
  <2>3. CASE runtime[r].handle = 0
    <3>1. \A e \in Shell : KnownTo(r, e) => KnownTo(r, e)'
      BY <1>4, <2>1, <2>3, Bounds DEF KnownTo
    <3> QED BY <1>4, <1>5, <2>2, <3>1, KnownKept
  <2>4. CASE runtime[r].handle # 0 /\ ref.shell = runtime[r].handle
    <3>1. leave'[r].pc = "closing" /\ leave'[r].shell = runtime[r].handle
      BY <1>8, <2>4 DEF Leave, LeaveTo
    <3>2. \A e \in Shell : KnownTo(r, e) => KnownTo(r, e)'
      BY <1>4, <2>1, <3>1 DEF KnownTo
    <3> QED BY <1>4, <1>5, <2>2, <3>2, KnownKept
  <2>5. CASE ref.shell # runtime[r].handle
    <3>1. \A e \in Shell : shell[e] = "live" /\ runtime[r].handle = e =>
             e \in displaced \/ RemovalDue
      BY <2>1, <2>5 DEF Reached, Held
    <3>2. \A e \in Shell : KnownTo(r, e) /\ shell[e] = "live" =>
             KnownTo(r, e)' \/ e \in displaced' \/ RemovalDue'
      BY <1>4, <2>1, <2>2, <3>1 DEF KnownTo
    <3> QED BY <1>4, <1>5, <2>2, <3>2, KnownKept
  <2> QED BY <2>3, <2>4, <2>5
<1> QED BY <1>2, <1>3, <1>6, <1>7, <1>8

LEMMA KnownRest ==
    ASSUME TypeParts, Known,
           \/ Ensure \/ EnsureFails \/ Die \/ Crash
           \/ (\E e \in Shell : Hangup(e) \/ Exit(e)) \/ UNCHANGED vars
    PROVE  Known'
<1> USE DEF TypeParts
<1>1. CASE Die \/ Crash \/ EnsureRemove
  BY <1>1 DEF Die, Crash, EnsureRemove, Removed, Known
<1>2. CASE EnsureInspect \/ EnsurePrepare \/ EnsureCreate \/ EnsureStart \/ EnsureFails
           \/ UNCHANGED vars
  <2>1. UNCHANGED <<runtime, leave, shell, displaced, unclaimed>>
    BY <1>2 DEF EnsureInspect, EnsurePrepare, EnsureCreate, EnsureStart, EnsureFails,
                daemon, history, lost, vars
  <2>2. \A q \in Runtime :
           op[q].pc \in {"install", "sizing", "closing"} => op'[q] = op[q]
    <3>1. UNCHANGED op \/ Reject \/ \E e : Resolve(e)
      BY <1>2 DEF EnsureInspect, EnsurePrepare, EnsureCreate, EnsureStart, EnsureFails,
                  vars
    <3> QED BY <3>1, ResolveStarts
  <2>3. \A q \in Runtime, e \in Shell : KnownTo(q, e) => KnownTo(q, e)'
    BY <2>1, <2>2 DEF KnownTo
  <2> QED BY <2>1, <2>3, KnownKept DEF RemovalDue
<1>3. ASSUME NEW d \in Shell, Hangup(d) \/ Exit(d) PROVE Known'
  <2>1. UNCHANGED <<runtime, op, leave, displaced, unclaimed>>
    BY <1>3 DEF Hangup, Exit, history, lost
  <2>2. \A e \in Shell : shell'[e] = "live" => shell[e] = "live"
    BY <1>3 DEF Hangup, Exit, Closed, DaemonOK
  <2> QED BY <2>1, <2>2, KnownKept DEF RemovalDue, KnownTo
<1> QED BY <1>1, <1>2, <1>3 DEF Ensure

LEMMA KnownNext ==
    ASSUME TypeParts, StayInv, Fitting, Reached, Known, [Next]_vars
    PROVE  Known'
BY KnownRuntime, KnownLeaving, KnownRest DEF Next, Progress

-------------------------------------------------------------------------------
(* Who answers for a container that is there.                              *)

\* The reference is that of a runtime whose owner is there or whose leaving will
\* come to dispose of it.
Tended ==
    /\ ref.present
    /\ \/ \E r \in Runtime : runtime[r].stage = "active"
       \/ \E q \in Runtime : leave[q].pc \in {"closing", "hook", "ending"}

\* A container that is not abandoned is tended, about to be removed, or being made.
Kept ==
    container # "none" /\ ~abandoned =>
        \/ Tended \/ RemovalDue
        \/ container = "created" /\ ensure.pc \in {"prepare", "remove", "start"}

LEMMA KeptMoves ==
    ASSUME Kept, container' = container, abandoned' = abandoned,
           ensure.pc \in {"prepare", "remove", "start"} =>
                ensure'.pc \in {"prepare", "remove", "start"},
           RemovalDue => RemovalDue', Tended => Tended' \/ RemovalDue'
    PROVE  Kept'
BY DEF Kept

LEMMA KeptRuntime ==
    ASSUME TypeParts, StayInv, Kept, NEW r \in Runtime,
           \/ Enter(r) \/ Prewarm(r) \/ Open(r) \/ Write(r) \/ Close(r)
           \/ OpenFails(r) \/ Leave(r) \/ Progress(r)
    PROVE  Kept'
<1> USE DEF TypeParts
<1>0. runtime[r] \in RuntimeType
  OBVIOUS
<1>1. CASE \/ Enter(r) \/ Prewarm(r) \/ Open(r) \/ Write(r) \/ Close(r) \/ OpenFails(r)
           \/ OpenExec(r) \/ OpenInstall(r) \/ OpenDone(r) \/ CloseDone(r)
  <2>1. UNCHANGED <<container, abandoned, leave>>
    BY <1>1 DEF Enter, Prewarm, Open, Write, Close, OpenFails, OpenExec, OpenInstall,
                OpenDone, CloseDone, EndShell, daemon, history, lost
  <2>2. ensure.pc # "none" => UNCHANGED ensure
    BY <1>1 DEF Enter, Prewarm, Open, BeginEnsure, Write, Close, OpenFails, OpenExec,
                OpenInstall, OpenDone, CloseDone, manager
  <2>3. ref.present => ref'.present
    BY <1>1 DEF Enter, Prewarm, Open, Write, Close, OpenFails, OpenExec, OpenInstall,
                OpenDone, CloseDone, EndShell, manager, Ref
  <2>4. \A q \in Runtime :
           runtime[q].stage = "active" => runtime'[q].stage = "active"
    BY <1>1 DEF Enter, Prewarm, Open, Write, Close, OpenFails, OpenExec, OpenInstall,
                OpenDone, CloseDone, RuntimeType
  <2>5. Tended => Tended'
    BY <2>1, <2>3, <2>4 DEF Tended
  <2> QED BY <2>1, <2>2, <2>5, KeptMoves DEF RemovalDue
<1>2. CASE DisposeRemove(r)
  BY <1>2 DEF DisposeRemove, Kept
<1>3. CASE Leave(r) \/ LeaveClosed(r) \/ LeaveHooked(r) \/ DisposeEnded(r)
  <2>1. UNCHANGED <<container, ensure, abandoned>> /\ ~DisposeRemove(r)
    BY <1>3, Disposing DEF Leave, LeaveClosed, LeaveHooked, DisposeEnded,
         DisposeRemove, EndShell, history, lost, StayInv, Staying
  <2>2. RemovalDue => RemovalDue'
    BY <1>3, <2>1, RemovalStays DEF StayInv, Progress
  <2>3. Tended => Tended' \/ RemovalDue'
    <3>1. CASE Dispose(r)
      BY <3>1, Disposing DEF Tended, RemovalDue
    <3>2. CASE Leave(r) /\ runtime[r].handle # 0
      <4>1. UNCHANGED ref /\ leave'[r].pc \in {"closing", "hook"}
        BY <3>2 DEF Leave, LeaveTo
      <4> QED BY <4>1 DEF Tended
    <3>3. CASE LeaveClosed(r)
      <4>1. (ref.present => ref'.present) /\ leave'[r].pc = "hook"
        BY <3>3 DEF LeaveClosed, LeaveTo, EndShell, Ref
      <4> QED BY <4>1 DEF Tended
    <3>4. CASE DisposeEnded(r)
      <4>1. leave'[r].pc = "removing"
        BY <3>4 DEF DisposeEnded, LeaveTo
      <4> QED BY <4>1 DEF RemovalDue
    <3> QED BY <1>3, <3>1, <3>2, <3>3, <3>4 DEF Leave, LeaveHooked
  <2> QED BY <2>1, <2>2, <2>3, KeptMoves
<1> QED BY <1>1, <1>2, <1>3 DEF Progress

LEMMA KeptEnsure ==
    ASSUME TypeParts, Daemon, Kept, Ensure \/ EnsureFails
    PROVE  Kept'
<1> USE DEF TypeParts
<1>1. UNCHANGED <<runtime, leave>> /\ (RemovalDue' <=> RemovalDue)
  BY DEF Ensure, EnsureInspect, EnsurePrepare, EnsureRemove, EnsureCreate,
         EnsureStart, EnsureFails, RemovalDue
<1>2. CASE EnsureInspect
  <2>1. UNCHANGED <<container, abandoned>> /\ ensure.pc = "inspect"
    BY <1>2 DEF EnsureInspect, daemon, lost
  <2>2. CASE container = "running"
    <3>1. UNCHANGED ref
      BY <1>2, <2>2 DEF EnsureInspect
    <3> QED BY <1>1, <2>1, <3>1, KeptMoves DEF Tended
  <2>3. CASE container # "running"
    <3>1. ensure'.pc = "prepare"
      BY <1>2, <2>3 DEF EnsureInspect
    <3> QED BY <2>1, <2>3, <3>1 DEF Kept, DaemonOK
  <2> QED BY <2>2, <2>3
<1>3. CASE EnsurePrepare
  <2>1. UNCHANGED <<container, abandoned, ref>> /\ ensure'.pc = "remove"
    BY <1>3 DEF EnsurePrepare, daemon, history, lost, EnsureType
  <2> QED BY <1>1, <2>1, KeptMoves DEF Tended
<1>4. CASE EnsureRemove
  BY <1>4 DEF EnsureRemove, Kept
<1>5. CASE EnsureCreate
  <2>1. container' = "created" /\ ensure'.pc = "start"
    BY <1>5 DEF EnsureCreate, Daemon, Making, EnsureType
  <2> QED BY <2>1 DEF Kept
<1>6. CASE EnsureStart
  <2>1. CASE container = "created"
    <3>1. ref'.present /\ (~abandoned' => \E r \in Runtime : runtime[r].stage = "active")
      BY <1>6, <2>1 DEF EnsureStart, Ref
    <3> QED BY <1>1, <3>1 DEF Kept, Tended
  <2>2. CASE container # "created"
    <3>1. container = "none" /\ UNCHANGED container
      BY <1>6, <2>2 DEF EnsureStart, Daemon, Making, DaemonOK
    <3> QED BY <3>1 DEF Kept
  <2> QED BY <2>1, <2>2
<1>7. CASE EnsureFails
  <2>1. UNCHANGED <<container, ref>>
        /\ abandoned' = (abandoned \/ container = "created")
    BY <1>7 DEF EnsureFails, Reject, daemon
  <2> QED BY <1>1, <2>1 DEF Kept, Tended
<1> QED BY <1>2, <1>3, <1>4, <1>5, <1>6, <1>7 DEF Ensure

LEMMA KeptRest ==
    ASSUME TypeParts, Kept,
           Die \/ Crash \/ (\E e \in Shell : Hangup(e) \/ Exit(e)) \/ UNCHANGED vars
    PROVE  Kept'
<1> USE DEF TypeParts
<1>1. CASE Die
  <2>1. container = "running" /\ UNCHANGED <<ref, ensure, runtime, leave, abandoned>>
    BY <1>1 DEF Die, manager, lost
  <2> QED BY <2>1 DEF Kept, Tended, RemovalDue
<1>2. CASE Crash
  BY <1>2 DEF Crash, Kept
<1>3. ASSUME NEW e \in Shell, Hangup(e) \/ Exit(e) PROVE Kept'
  <2>1. UNCHANGED <<ensure, container, runtime, leave, abandoned>>
    BY <1>3 DEF Hangup, Exit, manager, history, lost
  <2>2. ref'.present = ref.present
    BY <1>3, Records DEF Hangup, Exit, manager, Dropped, RefOK, Ref
  <2> QED BY <2>1, <2>2, KeptMoves DEF RemovalDue, Tended
<1>4. CASE UNCHANGED vars
  BY <1>4, KeptMoves DEF vars, manager, daemon, history, lost, RemovalDue, Tended
<1> QED BY <1>1, <1>2, <1>3, <1>4

LEMMA KeptNext ==
    ASSUME TypeParts, StayInv, Daemon, Kept, [Next]_vars
    PROVE  Kept'
BY KeptRuntime, KeptEnsure, KeptRest DEF Next

-------------------------------------------------------------------------------
(* The invariant, and what follows from it when all is quiet.              *)

SandboxInv ==
    /\ TypeParts /\ StayInv /\ Daemon /\ Fitting
    /\ Reached /\ Heard /\ Known /\ Kept

LEMMA SandboxInit == Init => SandboxInv
<1> SUFFICES ASSUME Init PROVE SandboxInv
  OBVIOUS
<1>1. TypeParts /\ StayInv
  BY TypeInit, TypeSplit, StayInit
<1>2. Daemon /\ Known /\ Kept
  BY Records DEF Init, Daemon, LiveCovered, UseCovered, Making, Known, Kept
<1>3. Fitting
  BY Records DEF Init, Fitting, Fit
<1>4. Reached /\ Heard
  BY Records, Bounds DEF Init, Reached, Heard
<1> QED BY <1>1, <1>2, <1>3, <1>4 DEF SandboxInv

LEMMA SandboxNext ==
    ASSUME SandboxInv, [Next]_vars
    PROVE  SandboxInv'
BY TypeNext, StayNext, DaemonNext, FittingNext, ReachedNext, HeardNext, KnownNext,
   KeptNext DEF SandboxInv

LEMMA SandboxAlways == Spec => []SandboxInv
BY SandboxInit, SandboxNext, PTL DEF Spec

\* When all is quiet, no leaving is on its way.
LEMMA QuietLeaving ==
    ASSUME TypeParts, Quiet
    PROVE  /\ ~RemovalDue
           /\ \A r \in Runtime : leave[r].pc \notin {"closing", "hook", "ending"}
BY DEF Quiet, Leaving, RemovalDue

LEMMA HandleLemma == SandboxInv => HandleWorks
<1> SUFFICES ASSUME SandboxInv, Quiet, NEW r \in Runtime,
                    runtime[r].stage = "active", runtime[r].handle # 0,
                    runtime[r].handle \notin displaced \cup unheard
             PROVE  shell[runtime[r].handle] = "live" <=> ref = Ref(runtime[r].handle)
  BY DEF HandleWorks
<1> DEFINE e == runtime[r].handle
<1>1. e \in Shell
  BY Bounds DEF SandboxInv, TypeParts, RuntimeType, Handle, Shell
<1>2. ref.shell = e <=> ref = Ref(e)
  <2>1. ref.shell = e => ref.present
    BY <1>1, Bounds DEF SandboxInv, TypeParts, RefOK
  <2> QED BY <1>1, <2>1, Records, Bounds DEF SandboxInv, TypeParts, RefOK, Ref
<1>3. shell[e] = "live" => ref.shell = e
  BY <1>1, QuietLeaving DEF SandboxInv, Reached, Held
<1>4. ref.shell = e => shell[e] = "live"
  BY <1>1 DEF SandboxInv, Heard, Quiet
<1> QED BY <1>2, <1>3, <1>4

\* With no owner's sandbox in use, whatever failed, died, crashed, left too early or
\* overlapped before: a runtime's shell runs if and only if the reference has it,
\* except the shells that `displaced' and `unheard' name (write in the runtime,
\* sandboxes in the manager).
THEOREM SandboxHandles == Spec => []HandleWorks
BY SandboxAlways, HandleLemma, PTL

LEMMA StrayLemma == SandboxInv => NoStrayShell
<1> SUFFICES ASSUME SandboxInv, Quiet, NEW e \in Shell, shell[e] = "live",
                    e \notin displaced \cup unclaimed
             PROVE  \E r \in Runtime : /\ runtime[r].stage = "active"
                                       /\ runtime[r].handle = e
  BY DEF NoStrayShell
<1>1. PICK r \in Runtime : KnownTo(r, e)
  BY QuietLeaving DEF SandboxInv, Known
<1>2. op[r].pc = "idle" /\ leave[r].pc # "closing"
  BY QuietLeaving DEF Quiet, SandboxInv
<1> QED BY <1>1, <1>2 DEF KnownTo

\* With all quiet, every shell that still runs is the one of a runtime whose owner
\* is there, except those that `displaced' and `unclaimed' name: closing and leaving
\* end the others (closeInteractiveSession, disposeSandbox).
THEOREM SandboxShells == Spec => []NoStrayShell
BY SandboxAlways, StrayLemma, PTL

LEMMA OrphanLemma == SandboxInv => NoOrphan
<1> SUFFICES ASSUME SandboxInv, Quiet, ~abandoned,
                    \A r \in Runtime : runtime[r].stage # "active"
             PROVE  container = "none"
  BY DEF NoOrphan
<1>1. ~Tended /\ ~RemovalDue
  BY QuietLeaving DEF SandboxInv, Tended
<1> QED BY <1>1 DEF SandboxInv, Kept, Quiet

\* When every owner has left and all is quiet, the container has been removed
\* (disposeSandbox), except one that is `abandoned': half made by an ensuring that
\* failed, made for an owner who had left, or kept over the end of the process.
THEOREM SandboxContainers == Spec => []NoOrphan
BY SandboxAlways, OrphanLemma, PTL

===============================================================================
