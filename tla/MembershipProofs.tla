--------------------------- MODULE MembershipProofs ---------------------------
(***************************************************************************)
(* Proofs about Membership: its variables keep their types, an invite      *)
(* makes one subject a member, members were invited and those who used an  *)
(* invite are members, who was removed stays so, and nothing outlives the  *)
(* project.                                                                *)
(***************************************************************************)
EXTENDS Membership, TLAPS

\* Before the project is created nobody has used an invite; the member row that
\* says owner is the owner's, who is never removed.
Early == project = "none" => \A i \in Invite : granted[i] = {}
Owners == Owner \notin removed /\ \A s \in Subject : role[s] = "owner" => s = Owner

\* The subject has used an invite or needs none.
Invited(s) ==
    s = Owner \/ \E i \in Invite : invite[i].state = "consumed" /\ invite[i].user = s

\* What a request may rely on once it is past its checks.
TaskOK(t) ==
    /\ t.pc # "idle" /\ t.op \in {"accept", "revoke"} => t.arg \in Invite
    /\ t.pc # "idle" /\ t.op = "kick" => t.arg \in Subject
    /\ t.pc = "delete" => t.arg # Owner
    /\ t.pc # "idle" /\ t.op # "create" => project # "none"
    /\ t.pc = "insert" /\ t.op = "create" => project = "none"
    /\ t.op = "profile" /\ t.pc \in {"touch", "enroll"} =>
          /\ t.by \in removed => t.by \in pardoned
          /\ project = "live" => Invited(t.by)

Tasks ==
    /\ \A r \in Request : TaskOK(task[r])
    /\ \A q, r \in Request :
          At(q, "create", "insert") /\ At(r, "create", "insert") => q = r

\* An accept holds the invite, which is open, from its consumption to its commit,
\* and from then the member row, which keeps the project: there is a row already, or the
\* transaction shares the project.
Holding(t, r) ==
    /\ t.op = "accept" /\ t.pc \in {"enroll", "commit"} =>
          inviteLock[t.arg] = r /\ invite[t.arg].state = "open"
    /\ t.op = "accept" /\ t.pc = "commit" =>
          memberLock[t.by] = r /\ (r \in sharing \/ role[t.by] # "none")
    /\ t.op = "remove" /\ t.pc \in {"members", "invites"} => projectLock = r

Locks ==
    /\ \A r \in Request : Holding(task[r], r)
    /\ sharing # {} => projectLock = None /\ project = "live"

Inv ==
    /\ TypeOK /\ Early /\ Owners /\ Tasks /\ Locks
    /\ UsedOnce /\ MembersInvited /\ UsersAreMembers /\ RemovedStaysOut
    /\ NothingOutlivesProject

-----------------------------------------------------------------------------
LEMMA InitInv == Init => Inv
BY MembershipAssumption
   DEF MembershipAssumption, Init, Inv, TypeOK, Early, Owners, Tasks, TaskOK, Invited, At, Locks,
       Holding, UsedOnce, MembersInvited, UsersAreMembers, RemovedStaysOut,
       NothingOutlivesProject, Idle, NoRow, Op, Pc

-----------------------------------------------------------------------------
\* What a step leaves of the requests: r is at one of pcs, the others stay.
Stepped(r, pcs) ==
    /\ task' \in [Request -> [op : Op, by : Subject, pc : Pc, arg : Subject \cup Invite \cup {None}]]
    /\ task'[r].pc \in pcs
    /\ task'[r].pc # "idle" =>
          task'[r].op = task[r].op /\ task'[r].by = task[r].by /\ task'[r].arg = task[r].arg
    /\ task'[r].pc = "idle" => task'[r] = Idle
    /\ \A q \in Request \ {r} : task'[q] = task[q]

LEMMA GotoTask ==
    ASSUME TypeOK, NEW r \in Request, NEW pc \in Pc \ {"idle"}, Goto(r, pc)
    PROVE  Stepped(r, {pc})
BY ZenonT(60) DEF TypeOK, Goto, Stepped

LEMMA EndTask ==
    ASSUME TypeOK, NEW r \in Request, End(r)
    PROVE  Stepped(r, {"idle"})
BY MembershipAssumption DEF MembershipAssumption, TypeOK, End, Stepped, Idle, Op, Pc

\* Requests that do not move, when nobody is removed and invites stay used.
LEMMA OtherTask ==
    ASSUME Inv, NEW q \in Request, task'[q] = task[q], UNCHANGED <<removed, pardoned>>,
           project' # project => project = "live" /\ project' = "gone",
           \A i \in Invite : invite[i].state = "consumed" => project' = "gone" \/ invite'[i] = invite[i]
    PROVE  TaskOK(task[q])'
BY DEF Inv, TypeOK, Tasks, TaskOK, Invited

\* One request moves; if it is to rely on something, it may.
LEMMA MovedTasks ==
    ASSUME Inv, NEW r \in Request, NEW pcs, Stepped(r, pcs), TaskOK(task[r])',
           task'[r].pc = "insert" => task[r].op # "create",
           UNCHANGED <<removed, pardoned>>,
           project' # project => project = "live" /\ project' = "gone",
           \A i \in Invite : invite[i].state = "consumed" => project' = "gone" \/ invite'[i] = invite[i]
    PROVE  Tasks'
<1>1. \A q \in Request \ {r} : TaskOK(task[q])'
    BY OtherTask DEF Stepped
<1>2. ASSUME NEW q \in Request, At(q, "create", "insert")' PROVE At(q, "create", "insert")
    BY <1>2 DEF Stepped, At
<1> QED
    BY <1>1, <1>2 DEF Tasks, Inv, At

\* One request moves to where it holds nothing, and no row or lock changes.
LEMMA SameLocks ==
    ASSUME Inv, NEW r \in Request, NEW pcs, Stepped(r, pcs),
           task[r].op \in {"accept", "remove"} => pcs \cap {"enroll", "commit", "members", "invites"} = {},
           UNCHANGED <<project, role, invite, inviteLock, memberLock, projectLock, sharing>>
    PROVE  Locks'
<1>1. ASSUME NEW q \in Request \ {r} PROVE Holding(task[q], q)'
    BY <1>1 DEF Inv, Locks, Stepped, Holding
<1>2. Holding(task[r], r)'
    BY DEF Stepped, Holding
<1> QED
    BY <1>1, <1>2 DEF Inv, Locks

LEMMA StepInv == Inv /\ [Next]_vars => Inv'
<1> SUFFICES ASSUME Inv, [Next]_vars PROVE Inv'
    OBVIOUS
<1> USE MembershipAssumption
    DEF MembershipAssumption, Inv, At, rows, locks, history
<1>1. ASSUME NEW r \in Request, CreateInsert(r) PROVE Inv'
  <2>1. Stepped(r, {"enroll"})
    BY <1>1, GotoTask, EndTask DEF CreateInsert, Pc, Stepped
  <2>2. TypeOK'
    BY <1>1, <2>1, SMTT(60) DEF CreateInsert, Stepped, TypeOK
  <2>3. Early'
    BY <1>1, <2>1, SMTT(60) DEF CreateInsert, Stepped, Early, UsedOnce
  <2>4. Owners'
    BY <1>1, <2>1, SMTT(60) DEF CreateInsert, Stepped, Owners, Tasks, TaskOK, TypeOK
  <2>5. Tasks'
    <3>1. task[r].op = "create" /\ project = "none"
      BY <1>1 DEF CreateInsert, Tasks, TaskOK
    <3>2. ASSUME NEW q \in Request \ {r}
          PROVE  /\ task[q].pc # "idle" => task[q].op = "create" /\ task[q].pc # "insert"
                 /\ task[q].pc = "delete" => task[q].arg # Owner
                 /\ task'[q] = task[q]
      BY <1>1, <2>1, <3>1 DEF CreateInsert, Stepped, Tasks, TaskOK
    <3>3. TaskOK(task[r])'
      BY <2>1, <3>1 DEF Stepped, TaskOK
    <3>4. ASSUME NEW q \in Request \ {r} PROVE TaskOK(task[q])' /\ ~At(q, "create", "insert")'
      BY <3>2 DEF TaskOK
    <3>5. ~At(r, "create", "insert")'
      BY <2>1 DEF Stepped
    <3> QED
      BY <3>3, <3>4, <3>5 DEF Tasks
  <2>6. Locks'
    BY <1>1, <2>1, SMTT(60) DEF CreateInsert, Stepped, Locks, Holding, TypeOK, Idle
  <2>7. UsedOnce'
    BY <1>1, <2>1, SMTT(60)
    DEF CreateInsert, Stepped, Tasks, TaskOK, UsedOnce, Early, Locks, Holding, TypeOK,
        NothingOutlivesProject, NoRow
  <2>8. MembersInvited'
    BY <1>1, <2>1, SMTT(60)
    DEF CreateInsert, Stepped, MembersInvited, Tasks, TaskOK, Invited, TypeOK,
        NothingOutlivesProject, NoRow
  <2>9. UsersAreMembers'
    BY <1>1, <2>1, SMTT(60) DEF CreateInsert, Stepped, UsersAreMembers, TypeOK
  <2>10. RemovedStaysOut'
    BY <1>1, <2>1, SMTT(60)
    DEF CreateInsert, Stepped, RemovedStaysOut, Tasks, TaskOK, TypeOK, Owners
  <2>11. NothingOutlivesProject'
    BY <1>1, <2>1, SMTT(60)
    DEF CreateInsert, Stepped, NothingOutlivesProject, Locks, Holding, TypeOK, NoRow
  <2> QED
    BY <2>2, <2>3, <2>4, <2>5, <2>6, <2>7, <2>8, <2>9, <2>10, <2>11
<1>2. ASSUME NEW r \in Request, CreateEnroll(r) PROVE Inv'
    BY <1>2, SMTT(60) DEF CreateEnroll, CanUpsert, UpsertFails,
           TypeOK, Early, Owners, Tasks, TaskOK, Invited, Locks, Holding, UsedOnce,
           MembersInvited, UsersAreMembers, RemovedStaysOut, NothingOutlivesProject, Goto,
           End, Idle, Op, Pc
<1>3. ASSUME NEW r \in Request, RenameCheck(r) PROVE Inv'
  <2>1. Stepped(r, {"find", "idle"})
    BY <1>3, GotoTask, EndTask DEF RenameCheck, Pc, Stepped
  <2>2. TypeOK'
    BY <1>3, <2>1, SMTT(60) DEF RenameCheck, Stepped, TypeOK
  <2>3. Early'
    BY <1>3, <2>1, SMTT(60) DEF RenameCheck, Stepped, Early, UsedOnce
  <2>4. Owners'
    BY <1>3, <2>1, SMTT(60) DEF RenameCheck, Stepped, Owners, Tasks, TaskOK, TypeOK
  <2>5. Tasks'
    <3>1. TaskOK(task[r])'
        BY <1>3, <2>1, SMTT(60)
        DEF RenameCheck, Stepped, Tasks, TaskOK, Invited, TypeOK, Owners,
            NothingOutlivesProject, MembersInvited, RemovedStaysOut, Idle
    <3> QED
        BY <1>3, <2>1, <3>1, MovedTasks DEF RenameCheck, Valid, TypeOK, Stepped, Tasks, TaskOK
  <2>6. Locks'
    BY <1>3, <2>1, SameLocks DEF RenameCheck
  <2>7. UsedOnce'
    BY <1>3, <2>1, SMTT(60)
    DEF RenameCheck, Stepped, Tasks, TaskOK, UsedOnce, Early, Locks, Holding, TypeOK,
        NothingOutlivesProject, NoRow
  <2>8. MembersInvited'
    BY <1>3, <2>1, SMTT(60)
    DEF RenameCheck, Stepped, MembersInvited, Tasks, TaskOK, Invited, TypeOK,
        NothingOutlivesProject, NoRow
  <2>9. UsersAreMembers'
    BY <1>3, <2>1, SMTT(60) DEF RenameCheck, Stepped, UsersAreMembers, TypeOK
  <2>10. RemovedStaysOut'
    BY <1>3, <2>1, SMTT(60)
    DEF RenameCheck, Stepped, RemovedStaysOut, Tasks, TaskOK, TypeOK, Owners
  <2>11. NothingOutlivesProject'
    BY <1>3, <2>1, SMTT(60)
    DEF RenameCheck, Stepped, NothingOutlivesProject, Locks, Holding, TypeOK, NoRow
  <2> QED
    BY <2>2, <2>3, <2>4, <2>5, <2>6, <2>7, <2>8, <2>9, <2>10, <2>11
<1>4. ASSUME NEW r \in Request, RenameFind(r) PROVE Inv'
  <2>1. Stepped(r, {"write", "idle"})
    BY <1>4, GotoTask, EndTask DEF RenameFind, Pc, Stepped
  <2>2. TypeOK'
    BY <1>4, <2>1, SMTT(60) DEF RenameFind, Stepped, TypeOK
  <2>3. Early'
    BY <1>4, <2>1, SMTT(60) DEF RenameFind, Stepped, Early, UsedOnce
  <2>4. Owners'
    BY <1>4, <2>1, SMTT(60) DEF RenameFind, Stepped, Owners, Tasks, TaskOK, TypeOK
  <2>5. Tasks'
    <3>1. TaskOK(task[r])'
        BY <1>4, <2>1, SMTT(60)
        DEF RenameFind, Stepped, Tasks, TaskOK, Invited, TypeOK, Owners,
            NothingOutlivesProject, MembersInvited, RemovedStaysOut, Idle
    <3> QED
        BY <1>4, <2>1, <3>1, MovedTasks DEF RenameFind, Valid, TypeOK, Stepped, Tasks, TaskOK
  <2>6. Locks'
    BY <1>4, <2>1, SameLocks DEF RenameFind
  <2>7. UsedOnce'
    BY <1>4, <2>1, SMTT(60)
    DEF RenameFind, Stepped, Tasks, TaskOK, UsedOnce, Early, Locks, Holding, TypeOK,
        NothingOutlivesProject, NoRow
  <2>8. MembersInvited'
    BY <1>4, <2>1, SMTT(60)
    DEF RenameFind, Stepped, MembersInvited, Tasks, TaskOK, Invited, TypeOK,
        NothingOutlivesProject, NoRow
  <2>9. UsersAreMembers'
    BY <1>4, <2>1, SMTT(60) DEF RenameFind, Stepped, UsersAreMembers, TypeOK
  <2>10. RemovedStaysOut'
    BY <1>4, <2>1, SMTT(60)
    DEF RenameFind, Stepped, RemovedStaysOut, Tasks, TaskOK, TypeOK, Owners
  <2>11. NothingOutlivesProject'
    BY <1>4, <2>1, SMTT(60)
    DEF RenameFind, Stepped, NothingOutlivesProject, Locks, Holding, TypeOK, NoRow
  <2> QED
    BY <2>2, <2>3, <2>4, <2>5, <2>6, <2>7, <2>8, <2>9, <2>10, <2>11
<1>5. ASSUME NEW r \in Request, RenameWrite(r) PROVE Inv'
  <2>1. Stepped(r, {"reread", "idle"})
    BY <1>5, GotoTask, EndTask DEF RenameWrite, Pc, Stepped
  <2>2. TypeOK'
    BY <1>5, <2>1, SMTT(60) DEF RenameWrite, Stepped, TypeOK
  <2>3. Early'
    BY <1>5, <2>1, SMTT(60) DEF RenameWrite, Stepped, Early, UsedOnce
  <2>4. Owners'
    BY <1>5, <2>1, SMTT(60) DEF RenameWrite, Stepped, Owners, Tasks, TaskOK, TypeOK
  <2>5. Tasks'
    <3>1. TaskOK(task[r])'
        BY <1>5, <2>1, SMTT(60)
        DEF RenameWrite, Stepped, Tasks, TaskOK, Invited, TypeOK, Owners,
            NothingOutlivesProject, MembersInvited, RemovedStaysOut, Idle
    <3> QED
        BY <1>5, <2>1, <3>1, MovedTasks DEF RenameWrite, Valid, TypeOK, Stepped, Tasks, TaskOK
  <2>6. Locks'
    BY <1>5, <2>1, SameLocks DEF RenameWrite
  <2>7. UsedOnce'
    BY <1>5, <2>1, SMTT(60)
    DEF RenameWrite, Stepped, Tasks, TaskOK, UsedOnce, Early, Locks, Holding, TypeOK,
        NothingOutlivesProject, NoRow
  <2>8. MembersInvited'
    BY <1>5, <2>1, SMTT(60)
    DEF RenameWrite, Stepped, MembersInvited, Tasks, TaskOK, Invited, TypeOK,
        NothingOutlivesProject, NoRow
  <2>9. UsersAreMembers'
    BY <1>5, <2>1, SMTT(60) DEF RenameWrite, Stepped, UsersAreMembers, TypeOK
  <2>10. RemovedStaysOut'
    BY <1>5, <2>1, SMTT(60)
    DEF RenameWrite, Stepped, RemovedStaysOut, Tasks, TaskOK, TypeOK, Owners
  <2>11. NothingOutlivesProject'
    BY <1>5, <2>1, SMTT(60)
    DEF RenameWrite, Stepped, NothingOutlivesProject, Locks, Holding, TypeOK, NoRow
  <2> QED
    BY <2>2, <2>3, <2>4, <2>5, <2>6, <2>7, <2>8, <2>9, <2>10, <2>11
<1>6. ASSUME NEW r \in Request, Reread(r) PROVE Inv'
    BY <1>6, SMTT(60) DEF Reread,
           TypeOK, Early, Owners, Tasks, TaskOK, Invited, Locks, Holding, UsedOnce,
           MembersInvited, UsersAreMembers, RemovedStaysOut, NothingOutlivesProject, Goto,
           End, Idle, Op, Pc
<1>7. ASSUME NEW r \in Request, OwnerCheck(r) PROVE Inv'
  <2>1. Stepped(r, {"erase", "delete", "insert", "revoke", "idle"})
    BY <1>7, GotoTask, EndTask DEF OwnerCheck, Pc, Stepped
  <2>2. task'[r].pc = "delete" => task[r].arg # Owner
    BY <1>7, GotoTask, EndTask, <2>1 DEF OwnerCheck, Pc, Stepped
  <2>3. TypeOK'
    BY <1>7, <2>1, <2>2, SMTT(60) DEF OwnerCheck, Stepped, IsOwner, TypeOK
  <2>4. Early'
    BY <1>7, <2>1, <2>2, SMTT(60) DEF OwnerCheck, Stepped, IsOwner, Early, UsedOnce
  <2>5. Owners'
    BY <1>7, <2>1, <2>2, SMTT(60)
    DEF OwnerCheck, Stepped, IsOwner, Owners, Tasks, TaskOK, TypeOK
  <2>6. Tasks'
    <3>1. TaskOK(task[r])'
        BY <1>7, <2>1, <2>2, SMTT(60)
        DEF OwnerCheck, Stepped, IsOwner, Tasks, TaskOK, Invited, TypeOK, Owners,
            NothingOutlivesProject, MembersInvited, RemovedStaysOut, Idle
    <3> QED
        BY <1>7, <2>1, <3>1, MovedTasks DEF OwnerCheck, Valid, TypeOK, Stepped, Tasks, TaskOK
  <2>7. Locks'
    <3>1. ASSUME NEW q \in Request PROVE Holding(task[q], q)'
      <4>1. CASE q = r
        BY <1>7, <2>1, <4>1 DEF OwnerCheck, Stepped, Holding, Idle
      <4>2. CASE q # r
        BY <1>7, <2>1, <4>2 DEF OwnerCheck, Stepped, Holding, Locks
      <4> QED
        BY <4>1, <4>2
    <3> QED
        BY <1>7, <3>1 DEF OwnerCheck, Locks
  <2>8. UsedOnce'
    BY <1>7, <2>1, <2>2, SMTT(60)
    DEF OwnerCheck, Stepped, IsOwner, Tasks, TaskOK, UsedOnce, Early, Locks, Holding,
        TypeOK, NothingOutlivesProject, NoRow
  <2>9. MembersInvited'
    BY <1>7, <2>1, <2>2, SMTT(60)
    DEF OwnerCheck, Stepped, IsOwner, MembersInvited, Tasks, TaskOK, Invited, TypeOK,
        NothingOutlivesProject, NoRow
  <2>10. UsersAreMembers'
    BY <1>7, <2>1, <2>2, SMTT(60) DEF OwnerCheck, Stepped, IsOwner, UsersAreMembers, TypeOK
  <2>11. RemovedStaysOut'
    BY <1>7, <2>1, <2>2, SMTT(60)
    DEF OwnerCheck, Stepped, IsOwner, RemovedStaysOut, Tasks, TaskOK, TypeOK, Owners
  <2>12. NothingOutlivesProject'
    BY <1>7, <2>1, <2>2, SMTT(60)
    DEF OwnerCheck, Stepped, IsOwner, NothingOutlivesProject, Locks, Holding, TypeOK, NoRow
  <2> QED
    BY <2>3, <2>4, <2>5, <2>6, <2>7, <2>8, <2>9, <2>10, <2>11, <2>12
<1>8. ASSUME NEW r \in Request, Erase(r) PROVE Inv'
  <2>1. Stepped(r, {"members", "idle"})
    BY <1>8, GotoTask, EndTask DEF Erase, Pc, Stepped
  <2>2. task'[r].pc = "members" => projectLock' = r
    BY <1>8, GotoTask, EndTask, <2>1 DEF Erase, Pc, Stepped
  <2>3. TypeOK'
    BY <1>8, <2>1, <2>2, SMTT(60) DEF Erase, Stepped, TypeOK
  <2>4. Early'
    BY <1>8, <2>1, <2>2, SMTT(60) DEF Erase, Stepped, Early, UsedOnce
  <2>5. Owners'
    BY <1>8, <2>1, <2>2, SMTT(60) DEF Erase, Stepped, Owners, Tasks, TaskOK, TypeOK
  <2>6. Tasks'
    <3>1. TaskOK(task[r])'
        BY <1>8, <2>1, <2>2, SMTT(60)
        DEF Erase, Stepped, Tasks, TaskOK, Invited, TypeOK, Owners, NothingOutlivesProject,
            MembersInvited, RemovedStaysOut, Idle
    <3> QED
        BY <1>8, <2>1, <3>1, MovedTasks DEF Erase, Valid, TypeOK, Stepped, Tasks, TaskOK
  <2>7. Locks'
    BY <1>8, <2>1, <2>2, SMTT(60) DEF Erase, Stepped, Locks, Holding, TypeOK, Idle
  <2>8. UsedOnce'
    BY <1>8, <2>1, <2>2, SMTT(60)
    DEF Erase, Stepped, Tasks, TaskOK, UsedOnce, Early, Locks, Holding, TypeOK,
        NothingOutlivesProject, NoRow
  <2>9. MembersInvited'
    BY <1>8, <2>1, <2>2, SMTT(60)
    DEF Erase, Stepped, MembersInvited, Tasks, TaskOK, Invited, TypeOK,
        NothingOutlivesProject, NoRow
  <2>10. UsersAreMembers'
    BY <1>8, <2>1, <2>2, SMTT(60) DEF Erase, Stepped, UsersAreMembers, TypeOK
  <2>11. RemovedStaysOut'
    BY <1>8, <2>1, <2>2, SMTT(60)
    DEF Erase, Stepped, RemovedStaysOut, Tasks, TaskOK, TypeOK, Owners
  <2>12. NothingOutlivesProject'
    BY <1>8, <2>1, <2>2, SMTT(60)
    DEF Erase, Stepped, NothingOutlivesProject, Locks, Holding, TypeOK, NoRow
  <2> QED
    BY <2>3, <2>4, <2>5, <2>6, <2>7, <2>8, <2>9, <2>10, <2>11, <2>12
<1>9. ASSUME NEW r \in Request, EraseCommit(r) PROVE Inv'
  <2>1. Stepped(r, {"idle"})
    BY <1>9, GotoTask, EndTask DEF EraseCommit, Pc, Stepped
  <2>2. TypeOK'
    BY <1>9, <2>1, SMTT(60) DEF EraseCommit, Stepped, Release, NoRow, TypeOK
  <2>3. Early'
    BY <1>9, <2>1, SMTT(60) DEF EraseCommit, Stepped, Release, NoRow, Early, UsedOnce
  <2>4. Owners'
    BY <1>9, <2>1, SMTT(60) DEF EraseCommit, Stepped, Release, NoRow, Owners, Tasks, TaskOK, TypeOK
  <2>5. Tasks'
    <3>1. TaskOK(task[r])'
        BY <1>9, <2>1, SMTT(60)
        DEF EraseCommit, Stepped, NoRow, Tasks, TaskOK, Invited, TypeOK, Owners,
            NothingOutlivesProject, MembersInvited, RemovedStaysOut, Idle
    <3> QED
        BY <1>9, <2>1, <3>1, MovedTasks DEF EraseCommit, Valid, TypeOK, Stepped, Tasks, TaskOK
  <2>6. Locks'
    <3>1. ASSUME NEW q \in Request \ {r} PROVE Holding(task[q], q)'
      <4>1. /\ task[q].pc \in {"enroll", "commit"} /\ task[q].op = "accept" => task[q].arg \in Invite
            /\ task[q].by \in Subject /\ Holding(task[q], q) /\ task'[q] = task[q] /\ q # None
        BY <2>1 DEF Stepped, Tasks, TaskOK, TypeOK, Locks
      <4>2. ~(task[q].op = "accept" /\ task[q].pc \in {"enroll", "commit"})
        BY <1>9, <4>1 DEF EraseCommit, Holding
      <4>3. ~(task[q].op = "remove" /\ task[q].pc \in {"members", "invites"})
        BY <1>9, <4>1 DEF EraseCommit, Holding, Locks
      <4> QED
        BY <4>1, <4>2, <4>3 DEF Holding
    <3>2. Holding(task[r], r)'
      BY <2>1 DEF Stepped, Holding, Idle
    <3>3. sharing' = {}
      BY <1>9 DEF EraseCommit, Release, Holding, Locks
    <3> QED
      BY <3>1, <3>2, <3>3 DEF Locks
  <2>7. UsedOnce'
    BY <1>9, <2>1, SMTT(60)
    DEF EraseCommit, Stepped, Release, NoRow, Tasks, TaskOK, UsedOnce, Early, Locks, Holding,
        TypeOK, NothingOutlivesProject
  <2>8. MembersInvited'
    BY <1>9, <2>1, SMTT(60)
    DEF EraseCommit, Stepped, Release, NoRow, MembersInvited, Tasks, TaskOK, Invited, TypeOK,
        NothingOutlivesProject
  <2>9. UsersAreMembers'
    BY <1>9, <2>1, SMTT(60) DEF EraseCommit, Stepped, Release, NoRow, UsersAreMembers, TypeOK
  <2>10. RemovedStaysOut'
    BY <1>9, <2>1, SMTT(60)
    DEF EraseCommit, Stepped, Release, NoRow, RemovedStaysOut, Tasks, TaskOK, TypeOK, Owners
  <2>11. NothingOutlivesProject'
    BY <1>9, <2>1, SMTT(60)
    DEF EraseCommit, Stepped, Release, NoRow, NothingOutlivesProject, Locks, Holding, TypeOK
  <2> QED
    BY <2>2, <2>3, <2>4, <2>5, <2>6, <2>7, <2>8, <2>9, <2>10, <2>11
<1>10. ASSUME NEW r \in Request, Delete(r) PROVE Inv'
    BY <1>10, SMTT(60) DEF Delete, Touching,
           TypeOK, Early, Owners, Tasks, TaskOK, Invited, Locks, Holding, UsedOnce,
           MembersInvited, UsersAreMembers, RemovedStaysOut, NothingOutlivesProject, Goto,
           End, Idle, Op, Pc
<1>11. ASSUME NEW r \in Request, InviteInsert(r) PROVE Inv'
  <2>1. Stepped(r, {"idle"})
    BY <1>11, GotoTask, EndTask DEF InviteInsert, Pc, Stepped
  <2>2. TypeOK'
    <3>1. CASE UNCHANGED invite
        BY <1>11, <2>1, <3>1 DEF InviteInsert, Stepped, TypeOK
    <3>2. CASE \E i \in Invite : invite[i].state = "none" /\ invite' = [invite EXCEPT ![i].state = "open"]
        BY <1>11, <2>1, <3>2, SMTT(60) DEF InviteInsert, Stepped, TypeOK
    <3> QED
        BY <1>11, <3>1, <3>2 DEF InviteInsert
  <2>3. Early'
    BY <1>11, <2>1, SMTT(60) DEF InviteInsert, Stepped, Early, UsedOnce
  <2>4. Owners'
    BY <1>11, <2>1, SMTT(60) DEF InviteInsert, Stepped, Owners, Tasks, TaskOK, TypeOK
  <2>5. Tasks'
    <3>1. TaskOK(task[r])'
        BY <1>11, <2>1, SMTT(60)
        DEF InviteInsert, Stepped, Tasks, TaskOK, Invited, TypeOK, Owners,
            NothingOutlivesProject, MembersInvited, RemovedStaysOut, Idle
    <3> QED
        BY <1>11, <2>1, <3>1, MovedTasks DEF InviteInsert, Valid, TypeOK, Stepped, Tasks, TaskOK
  <2>6. Locks'
    <3>1. ASSUME NEW q \in Request \ {r} PROVE Holding(task[q], q)'
      <4>1. /\ task[q].pc \in {"enroll", "commit"} /\ task[q].op = "accept" => task[q].arg \in Invite
            /\ task[q].by \in Subject /\ Holding(task[q], q) /\ task'[q] = task[q] /\ q # None
        BY <2>1 DEF Stepped, Tasks, TaskOK, TypeOK, Locks
      <4>2. /\ UNCHANGED <<role, inviteLock, memberLock, projectLock, sharing>>
            /\ \A i \in Invite : invite[i].state # "none" => invite'[i] = invite[i]
        BY <1>11 DEF InviteInsert, TypeOK
      <4> QED
        BY <4>1, <4>2 DEF Holding
    <3>2. Holding(task[r], r)'
      BY <2>1 DEF Stepped, Holding, Idle
    <3> QED
      BY <1>11, <2>1, <3>1, <3>2, SMTT(60) DEF InviteInsert, Locks
  <2>7. UsedOnce'
    BY <1>11, <2>1, SMTT(60)
    DEF InviteInsert, Stepped, Tasks, TaskOK, UsedOnce, Early, Locks, Holding, TypeOK,
        NothingOutlivesProject, NoRow
  <2>8. MembersInvited'
    BY <1>11, <2>1, SMTT(60)
    DEF InviteInsert, Stepped, MembersInvited, Tasks, TaskOK, Invited, TypeOK,
        NothingOutlivesProject, NoRow
  <2>9. UsersAreMembers'
    BY <1>11, <2>1, SMTT(60) DEF InviteInsert, Stepped, UsersAreMembers, TypeOK
  <2>10. RemovedStaysOut'
    BY <1>11, <2>1, SMTT(60)
    DEF InviteInsert, Stepped, RemovedStaysOut, Tasks, TaskOK, TypeOK, Owners
  <2>11. NothingOutlivesProject'
    <3>1. CASE project = "live"
        BY <1>11, <3>1 DEF InviteInsert, NothingOutlivesProject
    <3>2. CASE project # "live"
        BY <1>11, <3>2 DEF InviteInsert, NothingOutlivesProject
    <3> QED
        BY <3>1, <3>2
  <2> QED
    BY <2>2, <2>3, <2>4, <2>5, <2>6, <2>7, <2>8, <2>9, <2>10, <2>11
<1>12. ASSUME NEW r \in Request, Revoke(r) PROVE Inv'
  <2>1. Stepped(r, {"idle"})
    BY <1>12, GotoTask, EndTask DEF Revoke, Pc, Stepped
  <2>2. task[r].arg \in Invite
    BY <1>12, GotoTask, EndTask, <2>1 DEF Revoke, Pc, Stepped, Inv, Tasks, TaskOK
  <2>3. TypeOK'
    BY <1>12, <2>1, <2>2, SMTT(60) DEF Revoke, Stepped, Valid, TypeOK
  <2>4. Early'
    BY <1>12, <2>1, <2>2, SMTT(60) DEF Revoke, Stepped, Valid, Early, UsedOnce
  <2>5. Owners'
    BY <1>12, <2>1, <2>2, SMTT(60) DEF Revoke, Stepped, Valid, Owners, Tasks, TaskOK, TypeOK
  <2>6. Tasks'
    <3>1. TaskOK(task[r])'
        BY <1>12, <2>1, <2>2, SMTT(60)
        DEF Revoke, Stepped, Valid, Tasks, TaskOK, Invited, TypeOK, Owners,
            NothingOutlivesProject, MembersInvited, RemovedStaysOut, Idle
    <3> QED
        BY <1>12, <2>1, <3>1, MovedTasks DEF Revoke, Valid, TypeOK, Stepped, Tasks, TaskOK
  <2>7. Locks'
    BY <1>12, <2>1, <2>2, SMTT(60) DEF Revoke, Stepped, Valid, Locks, Holding, TypeOK, Idle
  <2>8. UsedOnce'
    BY <1>12, <2>1, <2>2, SMTT(60)
    DEF Revoke, Stepped, Valid, Tasks, TaskOK, UsedOnce, Early, Locks, Holding, TypeOK,
        NothingOutlivesProject, NoRow
  <2>9. MembersInvited'
    BY <1>12, <2>1, <2>2, SMTT(60)
    DEF Revoke, Stepped, Valid, MembersInvited, Tasks, TaskOK, Invited, TypeOK,
        NothingOutlivesProject, NoRow
  <2>10. UsersAreMembers'
    BY <1>12, <2>1, <2>2, SMTT(60) DEF Revoke, Stepped, Valid, UsersAreMembers, TypeOK
  <2>11. RemovedStaysOut'
    BY <1>12, <2>1, <2>2, SMTT(60)
    DEF Revoke, Stepped, Valid, RemovedStaysOut, Tasks, TaskOK, TypeOK, Owners
  <2>12. NothingOutlivesProject'
    <3>1. CASE project = "live"
        BY <1>12, <3>1 DEF Revoke, NothingOutlivesProject
    <3>2. CASE project # "live"
      <4>1. ~Valid(task[r].arg)
        BY <2>2, <3>2 DEF NothingOutlivesProject, NoRow, Valid
      <4> QED
        BY <1>12, <3>2, <4>1 DEF Revoke, NothingOutlivesProject
    <3> QED
        BY <3>1, <3>2
  <2> QED
    BY <2>3, <2>4, <2>5, <2>6, <2>7, <2>8, <2>9, <2>10, <2>11, <2>12
<1>13. ASSUME NEW r \in Request, ProfileCheck(r) PROVE Inv'
  <2>1. Stepped(r, {"touch", "idle"})
    BY <1>13, GotoTask, EndTask DEF ProfileCheck, Pc, Stepped
  <2>2. task'[r].pc = "touch" => CanRead(task[r].by)
    BY <1>13, GotoTask, EndTask, <2>1 DEF ProfileCheck, Pc, Stepped, CanRead, IsOwner
  <2>3. TypeOK'
    BY <1>13, <2>1, <2>2, SMTT(60) DEF ProfileCheck, Stepped, TypeOK, CanRead, IsOwner
  <2>4. Early'
    BY <1>13, <2>1, <2>2, SMTT(60) DEF ProfileCheck, Stepped, Early, UsedOnce, CanRead, IsOwner
  <2>5. Owners'
    BY <1>13, <2>1, <2>2, SMTT(60)
    DEF ProfileCheck, Stepped, Owners, Tasks, TaskOK, TypeOK, CanRead, IsOwner
  <2>6. Tasks'
    <3>1. TaskOK(task[r])'
        BY <1>13, <2>1, <2>2, SMTT(60)
        DEF ProfileCheck, Stepped, Tasks, TaskOK, Invited, TypeOK, Owners,
            NothingOutlivesProject, MembersInvited, RemovedStaysOut, Idle, CanRead, IsOwner
    <3> QED
        BY <1>13, <2>1, <3>1, MovedTasks, SMTT(60) DEF ProfileCheck, Stepped
  <2>7. Locks'
    <3>1. task[r].op = "profile"
        BY <1>13 DEF ProfileCheck, At
    <3>2. UNCHANGED <<project, role, invite, inviteLock, memberLock, projectLock, sharing>>
        BY <1>13 DEF ProfileCheck, rows, locks
    <3> QED
        BY <2>1, <3>1, <3>2, SameLocks, SMTT(60)
  <2>8. UsedOnce'
    BY <1>13, <2>1, <2>2, SMTT(60)
    DEF ProfileCheck, Stepped, Tasks, TaskOK, UsedOnce, Early, Locks, Holding, TypeOK,
        NothingOutlivesProject, NoRow, CanRead, IsOwner
  <2>9. MembersInvited'
    BY <1>13, <2>1, <2>2, SMTT(60)
    DEF ProfileCheck, Stepped, MembersInvited, Tasks, TaskOK, Invited, TypeOK,
        NothingOutlivesProject, NoRow, CanRead, IsOwner
  <2>10. UsersAreMembers'
    BY <1>13, <2>1, <2>2, SMTT(60)
    DEF ProfileCheck, Stepped, UsersAreMembers, TypeOK, CanRead, IsOwner
  <2>11. RemovedStaysOut'
    BY <1>13, <2>1, <2>2, SMTT(60)
    DEF ProfileCheck, Stepped, RemovedStaysOut, Tasks, TaskOK, TypeOK, Owners, CanRead,
        IsOwner
  <2>12. NothingOutlivesProject'
    BY <1>13, <2>1, <2>2, SMTT(60)
    DEF ProfileCheck, Stepped, NothingOutlivesProject, Locks, Holding, TypeOK, NoRow,
        CanRead, IsOwner
  <2> QED
    BY <2>3, <2>4, <2>5, <2>6, <2>7, <2>8, <2>9, <2>10, <2>11, <2>12
<1>14. ASSUME NEW r \in Request, ProfileTouch(r) PROVE Inv'
  <2>1. Stepped(r, {"enroll", "idle"})
    BY <1>14, GotoTask, EndTask DEF ProfileTouch, Pc, Stepped
  <2>2. TypeOK'
    BY <1>14, <2>1, SMTT(60) DEF ProfileTouch, Stepped, TypeOK
  <2>3. Early'
    BY <1>14, <2>1, SMTT(60) DEF ProfileTouch, Stepped, Early, UsedOnce
  <2>4. Owners'
    BY <1>14, <2>1, SMTT(60) DEF ProfileTouch, Stepped, Owners, Tasks, TaskOK, TypeOK
  <2>5. Tasks'
    <3>1. TaskOK(task[r])'
        BY <1>14, <2>1, SMTT(60)
        DEF ProfileTouch, Stepped, Tasks, TaskOK, Invited, TypeOK, Owners,
            NothingOutlivesProject, MembersInvited, RemovedStaysOut, Idle
    <3> QED
        BY <1>14, <2>1, <3>1, MovedTasks DEF ProfileTouch, Valid, TypeOK, Stepped, Tasks, TaskOK
  <2>6. Locks'
    <3>1. task[r].op = "profile"
        BY <1>14 DEF ProfileTouch, At
    <3>2. UNCHANGED <<project, role, invite, inviteLock, memberLock, projectLock, sharing>>
        BY <1>14 DEF ProfileTouch, rows, locks
    <3> QED
        BY <2>1, <3>1, <3>2, SameLocks, SMTT(60)
  <2>7. UsedOnce'
    BY <1>14, <2>1, SMTT(60)
    DEF ProfileTouch, Stepped, Tasks, TaskOK, UsedOnce, Early, Locks, Holding, TypeOK,
        NothingOutlivesProject, NoRow
  <2>8. MembersInvited'
    BY <1>14, <2>1, SMTT(60)
    DEF ProfileTouch, Stepped, MembersInvited, Tasks, TaskOK, Invited, TypeOK,
        NothingOutlivesProject, NoRow
  <2>9. UsersAreMembers'
    BY <1>14, <2>1, SMTT(60) DEF ProfileTouch, Stepped, UsersAreMembers, TypeOK
  <2>10. RemovedStaysOut'
    BY <1>14, <2>1, SMTT(60)
    DEF ProfileTouch, Stepped, RemovedStaysOut, Tasks, TaskOK, TypeOK, Owners
  <2>11. NothingOutlivesProject'
    BY <1>14, <2>1, SMTT(60)
    DEF ProfileTouch, Stepped, NothingOutlivesProject, Locks, Holding, TypeOK, NoRow
  <2> QED
    BY <2>2, <2>3, <2>4, <2>5, <2>6, <2>7, <2>8, <2>9, <2>10, <2>11
<1>15. ASSUME NEW r \in Request, ProfileEnroll(r) PROVE Inv'
    BY <1>15, SMTT(60) DEF ProfileEnroll, CanUpsert, UpsertFails,
           TypeOK, Early, Owners, Tasks, TaskOK, Invited, Locks, Holding, UsedOnce,
           MembersInvited, UsersAreMembers, RemovedStaysOut, NothingOutlivesProject, Goto,
           End, Idle, Op, Pc
<1>16. ASSUME NEW r \in Request, AcceptFind(r) PROVE Inv'
  <2>1. Stepped(r, {"latest", "consume", "idle"})
    BY <1>16, GotoTask, EndTask DEF AcceptFind, Pc, Stepped
  <2>2. TypeOK'
    BY <1>16, <2>1, SMTT(60) DEF AcceptFind, Stepped, Valid, TypeOK
  <2>3. Early'
    BY <1>16, <2>1, SMTT(60) DEF AcceptFind, Stepped, Valid, Early, UsedOnce
  <2>4. Owners'
    BY <1>16, <2>1, SMTT(60) DEF AcceptFind, Stepped, Valid, Owners, Tasks, TaskOK, TypeOK
  <2>5. Tasks'
    <3>1. TaskOK(task[r])'
        BY <1>16, <2>1, SMTT(60)
        DEF AcceptFind, Stepped, Valid, Tasks, TaskOK, Invited, TypeOK, Owners,
            NothingOutlivesProject, MembersInvited, RemovedStaysOut, Idle
    <3> QED
        BY <1>16, <2>1, <3>1, MovedTasks DEF AcceptFind, Valid, TypeOK, Stepped, Tasks, TaskOK
  <2>6. Locks'
    BY <1>16, <2>1, SMTT(60) DEF AcceptFind, Stepped, Valid, Locks, Holding, TypeOK, Idle
  <2>7. UsedOnce'
    BY <1>16, <2>1, SMTT(60)
    DEF AcceptFind, Stepped, Valid, Tasks, TaskOK, UsedOnce, Early, Locks, Holding, TypeOK,
        NothingOutlivesProject, NoRow
  <2>8. MembersInvited'
    BY <1>16, <2>1, SMTT(60)
    DEF AcceptFind, Stepped, Valid, MembersInvited, Tasks, TaskOK, Invited, TypeOK,
        NothingOutlivesProject, NoRow
  <2>9. UsersAreMembers'
    BY <1>16, <2>1, SMTT(60) DEF AcceptFind, Stepped, Valid, UsersAreMembers, TypeOK
  <2>10. RemovedStaysOut'
    BY <1>16, <2>1, SMTT(60)
    DEF AcceptFind, Stepped, Valid, RemovedStaysOut, Tasks, TaskOK, TypeOK, Owners
  <2>11. NothingOutlivesProject'
    BY <1>16, <2>1, SMTT(60)
    DEF AcceptFind, Stepped, Valid, NothingOutlivesProject, Locks, Holding, TypeOK, NoRow
  <2> QED
    BY <2>2, <2>3, <2>4, <2>5, <2>6, <2>7, <2>8, <2>9, <2>10, <2>11
<1>17. ASSUME NEW r \in Request, AcceptConsume(r) PROVE Inv'
  <2>1. Stepped(r, {"enroll", "idle"})
    BY <1>17, GotoTask, EndTask DEF AcceptConsume, Pc, Stepped
  <2>2. task'[r].pc = "enroll" => inviteLock' = [inviteLock EXCEPT ![task[r].arg] = r] /\ Valid(task[r].arg) /\ task[r].arg \in Invite
    BY <1>17, GotoTask, EndTask, <2>1 DEF AcceptConsume, Pc, Stepped, Valid, Inv, Tasks, TaskOK
  <2>3. TypeOK'
    BY <1>17, <2>1, <2>2, SMTT(60) DEF AcceptConsume, Stepped, Valid, TypeOK
  <2>4. Early'
    BY <1>17, <2>1, <2>2, SMTT(60) DEF AcceptConsume, Stepped, Valid, Early, UsedOnce
  <2>5. Owners'
    BY <1>17, <2>1, <2>2, SMTT(60)
    DEF AcceptConsume, Stepped, Valid, Owners, Tasks, TaskOK, TypeOK
  <2>6. Tasks'
    <3>1. TaskOK(task[r])'
        BY <1>17, <2>1, <2>2, SMTT(60)
        DEF AcceptConsume, Stepped, Valid, Tasks, TaskOK, Invited, TypeOK, Owners,
            NothingOutlivesProject, MembersInvited, RemovedStaysOut, Idle
    <3> QED
        BY <1>17, <2>1, <3>1, MovedTasks
        DEF AcceptConsume, Valid, TypeOK, Stepped, Tasks, TaskOK
  <2>7. Locks'
    <3>1. ASSUME NEW q \in Request PROVE Holding(task[q], q)'
      <4>1. CASE q = r
        <5>1. \/ inviteLock'[task[r].arg] = r /\ invite'[task[r].arg].state = "open"
              \/ task'[r] = Idle
          BY <1>17, <2>1, <2>2 DEF AcceptConsume, Stepped, Valid, TypeOK
        <5> QED
          BY <2>1, <4>1, <5>1 DEF Stepped, Holding, Idle
      <4>2. CASE q # r
        <5>1. task'[q] = task[q] /\ Holding(task[q], q)
          BY <2>1, <4>2 DEF Stepped, Locks
        <5>2. UNCHANGED <<role, invite, memberLock, sharing, projectLock>> /\ q # None
          BY <1>17 DEF AcceptConsume
        <5>3. ASSUME NEW i \in Invite, inviteLock[i] = q PROVE inviteLock'[i] = q
          <6>1. \/ UNCHANGED inviteLock
                \/ /\ inviteLock' = [inviteLock EXCEPT ![task[r].arg] = r]
                   /\ inviteLock[task[r].arg] = None
            BY <1>17 DEF AcceptConsume
          <6> QED
            BY <5>2, <5>3, <6>1 DEF TypeOK
        <5>4. task[q].pc \in {"enroll", "commit"} /\ task[q].op = "accept" => task[q].arg \in Invite
          BY DEF Tasks, TaskOK
        <5> QED
          BY <5>1, <5>2, <5>3, <5>4 DEF Holding
      <4> QED
        BY <4>1, <4>2
    <3> QED
        BY <1>17, <3>1 DEF AcceptConsume, Locks
  <2>8. UsedOnce'
    BY <1>17, <2>1, <2>2, SMTT(60)
    DEF AcceptConsume, Stepped, Valid, Tasks, TaskOK, UsedOnce, Early, Locks, Holding,
        TypeOK, NothingOutlivesProject, NoRow
  <2>9. MembersInvited'
    BY <1>17, <2>1, <2>2, SMTT(60)
    DEF AcceptConsume, Stepped, Valid, MembersInvited, Tasks, TaskOK, Invited, TypeOK,
        NothingOutlivesProject, NoRow
  <2>10. UsersAreMembers'
    BY <1>17, <2>1, <2>2, SMTT(60) DEF AcceptConsume, Stepped, Valid, UsersAreMembers, TypeOK
  <2>11. RemovedStaysOut'
    BY <1>17, <2>1, <2>2, SMTT(60)
    DEF AcceptConsume, Stepped, Valid, RemovedStaysOut, Tasks, TaskOK, TypeOK, Owners
  <2>12. NothingOutlivesProject'
    BY <1>17, <2>1, <2>2, SMTT(60)
    DEF AcceptConsume, Stepped, Valid, NothingOutlivesProject, Locks, Holding, TypeOK, NoRow
  <2> QED
    BY <2>3, <2>4, <2>5, <2>6, <2>7, <2>8, <2>9, <2>10, <2>11, <2>12
<1>18. ASSUME NEW r \in Request, AcceptEnroll(r) PROVE Inv'
  <2>1. Stepped(r, {"commit", "idle"})
    BY <1>18, GotoTask, EndTask DEF AcceptEnroll, Pc, Stepped
  <2>2. task'[r].pc = "commit" => ~UpsertFails(task[r].by) /\ UNCHANGED <<inviteLock, projectLock>>
        /\ memberLock' = [memberLock EXCEPT ![task[r].by] = r]
        /\ sharing' = IF role[task[r].by] = "none" THEN sharing \cup {r} ELSE sharing
    BY <1>18, GotoTask, EndTask, <2>1 DEF AcceptEnroll, Pc, Stepped, UpsertFails
  <2>3. TypeOK'
    BY <1>18, <2>1, <2>2, SMTT(60)
    DEF AcceptEnroll, Stepped, CanUpsert, UpsertFails, Release, TypeOK
  <2>4. Early'
    BY <1>18, <2>1, <2>2, SMTT(60)
    DEF AcceptEnroll, Stepped, CanUpsert, UpsertFails, Release, Early, UsedOnce
  <2>5. Owners'
    BY <1>18, <2>1, <2>2, SMTT(60)
    DEF AcceptEnroll, Stepped, CanUpsert, UpsertFails, Release, Owners, Tasks, TaskOK,
        TypeOK
  <2>6. Tasks'
    <3>1. TaskOK(task[r])'
        BY <1>18, <2>1, <2>2, SMTT(60)
        DEF AcceptEnroll, Stepped, CanUpsert, UpsertFails, Tasks, TaskOK, Invited, TypeOK,
            Owners, NothingOutlivesProject, MembersInvited, RemovedStaysOut, Idle
    <3> QED
        BY <1>18, <2>1, <3>1, MovedTasks DEF AcceptEnroll, Valid, TypeOK, Stepped, Tasks, TaskOK
  <2>7. Locks'
    <3>1. ASSUME NEW q \in Request PROVE Holding(task[q], q)'
      <4>1. CASE q = r
        BY <1>18, <2>1, <2>2, <4>1 DEF AcceptEnroll, Stepped, Holding, Locks, Idle, TypeOK
      <4>2. CASE q # r
        <5>1. task'[q] = task[q] /\ Holding(task[q], q)
          BY <2>1, <4>2 DEF Stepped, Locks
        <5>2. UNCHANGED <<role, invite>> /\ q # None /\ (q \in sharing => q \in sharing')
          BY <1>18, <4>2 DEF AcceptEnroll, Release
        <5>3. ASSUME NEW i \in Invite, inviteLock[i] = q PROVE inviteLock'[i] = q
          BY <1>18, <4>2, <5>3 DEF AcceptEnroll, Release
        <5>4. ASSUME NEW s \in Subject, memberLock[s] = q PROVE memberLock'[s] = q
          BY <1>18, <4>2, <5>2, <5>4 DEF AcceptEnroll, CanUpsert, Release, TypeOK
        <5>5. projectLock = q => projectLock' = q
          BY <1>18, <4>2 DEF AcceptEnroll, Release
        <5>6. /\ task[q].pc \in {"enroll", "commit"} /\ task[q].op = "accept" => task[q].arg \in Invite
              /\ task[q].by \in Subject
          BY DEF Tasks, TaskOK, TypeOK
        <5> QED
          BY <5>1, <5>2, <5>3, <5>4, <5>5, <5>6 DEF Holding
      <4> QED
        BY <4>1, <4>2
    <3>2. sharing' # {} => projectLock' = None /\ project' = "live"
        BY <1>18, SMTT(60) DEF AcceptEnroll, CanUpsert, UpsertFails, Release, Locks, TypeOK
    <3> QED
        BY <3>1, <3>2 DEF Locks
  <2>8. UsedOnce'
    BY <1>18, <2>1, <2>2, SMTT(60)
    DEF AcceptEnroll, Stepped, CanUpsert, UpsertFails, Release, Tasks, TaskOK, UsedOnce,
        Early, Locks, Holding, TypeOK, NothingOutlivesProject, NoRow
  <2>9. MembersInvited'
    BY <1>18, <2>1, <2>2, SMTT(60)
    DEF AcceptEnroll, Stepped, CanUpsert, UpsertFails, Release, MembersInvited, Tasks,
        TaskOK, Invited, TypeOK, NothingOutlivesProject, NoRow
  <2>10. UsersAreMembers'
    BY <1>18, <2>1, <2>2, SMTT(60)
    DEF AcceptEnroll, Stepped, CanUpsert, UpsertFails, Release, UsersAreMembers, TypeOK
  <2>11. RemovedStaysOut'
    BY <1>18, <2>1, <2>2, SMTT(60)
    DEF AcceptEnroll, Stepped, CanUpsert, UpsertFails, Release, RemovedStaysOut, Tasks,
        TaskOK, TypeOK, Owners
  <2>12. NothingOutlivesProject'
    BY <1>18, <2>1, <2>2, SMTT(60)
    DEF AcceptEnroll, Stepped, CanUpsert, UpsertFails, Release, NothingOutlivesProject,
        Locks, Holding, TypeOK, NoRow
  <2> QED
    BY <2>3, <2>4, <2>5, <2>6, <2>7, <2>8, <2>9, <2>10, <2>11, <2>12
<1>19. ASSUME NEW r \in Request, AcceptCommit(r) PROVE Inv'
  <2>1. Stepped(r, {"reread"})
    BY <1>19, GotoTask DEF AcceptCommit, Pc
  <2>2. TypeOK'
    BY <1>19, <2>1, SMTT(60) DEF AcceptCommit, Release, Stepped, TypeOK, Tasks, TaskOK
  <2>3. Early' /\ NothingOutlivesProject'
    BY <1>19, <2>1, SMTT(60)
    DEF AcceptCommit, Release, Stepped, TypeOK, Early, UsedOnce, NothingOutlivesProject,
        Locks, Holding
  <2>4. Owners'
    BY <1>19, <2>1, SMTT(60) DEF AcceptCommit, Stepped, TypeOK, Owners
  <2>5. UsersAreMembers'
    BY <1>19, <2>1, SMTT(60) DEF AcceptCommit, Stepped, TypeOK, Tasks, TaskOK, UsersAreMembers
  <2>6. Tasks'
    BY <1>19, <2>1, SMTT(60)
    DEF AcceptCommit, Stepped, TypeOK, Tasks, TaskOK, Invited, Locks, Holding
  <2>7. Locks'
    BY <1>19, <2>1, SMTT(60)
    DEF AcceptCommit, Release, Stepped, TypeOK, Tasks, TaskOK, Locks, Holding
  <2>8. UsedOnce' /\ MembersInvited' /\ RemovedStaysOut'
    BY <1>19, <2>1, SMTT(60)
    DEF AcceptCommit, Stepped, TypeOK, Tasks, TaskOK, Early, UsedOnce, MembersInvited,
        RemovedStaysOut, Locks, Holding
  <2> QED
    BY <2>2, <2>3, <2>4, <2>5, <2>6, <2>7, <2>8
<1>20. ASSUME NEW r \in Request, Break(r) PROVE Inv'
    BY <1>20, SMTT(60) DEF Break, Release,
           TypeOK, Early, Owners, Tasks, TaskOK, Invited, Locks, Holding, UsedOnce,
           MembersInvited, UsersAreMembers, RemovedStaysOut, NothingOutlivesProject, Goto,
           End, Idle, Op, Pc
<1>21. ASSUME NEW r \in Request, Fail(r) PROVE Inv'
    BY <1>21, SMTT(60) DEF Fail, Release,
           TypeOK, Early, Owners, Tasks, TaskOK, Invited, Locks, Holding, UsedOnce,
           MembersInvited, UsersAreMembers, RemovedStaysOut, NothingOutlivesProject, Goto,
           End, Idle, Op, Pc
<1>22. ASSUME NEW r \in Request, NEW op \in Op, NEW s \in Subject,
              NEW arg \in Subject \cup Invite \cup {None}, Start(r, op, s, arg)
       PROVE  Inv'
  <2>1. /\ task' = [task EXCEPT ![r] = [op |-> op, by |-> s, arg |-> arg, pc |-> FirstStep(op)]]
        /\ task[r].pc = "idle" /\ arg \in Argument(op)
        /\ UNCHANGED <<rows, locks, granted, removed, pardoned>>
    BY <1>22 DEF Start
  <2>2. FirstStep(op) \in {"insert", "find", "check"} /\ (FirstStep(op) = "insert" <=> op = "create")
    BY DEF FirstStep, Op
  <2>3. TypeOK'
    BY <1>22, <2>1, <2>2, SMTT(60) DEF Start, TypeOK, Pc
  <2>4. Tasks'
    <3>1. TaskOK(task[r])'
      <4>1. op \in {"revoke", "accept"} => arg \in Invite
        BY <2>1 DEF Argument
      <4>2. op = "kick" => arg \in Subject
        BY <2>1 DEF Argument
      <4> QED
        BY <1>22, <2>1, <2>2, <4>1, <4>2 DEF Start, TaskOK, TypeOK
    <3>2. ASSUME NEW q \in Request \ {r} PROVE TaskOK(task[q])'
        BY <2>1 DEF TaskOK, Tasks, TypeOK, Invited
    <3>3. ASSUME NEW q \in Request, NEW p \in Request,
                 At(q, "create", "insert")', At(p, "create", "insert")'
          PROVE  q = p
        BY <1>22, <2>1, <2>2, <3>3 DEF Start, Tasks, TypeOK
    <3> QED
        BY <3>1, <3>2, <3>3 DEF Tasks
  <2>5. Locks'
    BY <2>1, <2>2 DEF Locks, Holding, TypeOK
  <2> QED
    BY <2>1, <2>3, <2>4, <2>5
    DEF Early, Owners, UsedOnce, MembersInvited, UsersAreMembers, RemovedStaysOut, NothingOutlivesProject
<1>23. ASSUME NEW i \in Invite, Expire(i) PROVE Inv'
  <2>1. /\ invite' \in [Invite -> [state : {"none", "open", "consumed", "revoked"},
                                 expired : BOOLEAN, user : Subject \cup {None}]]
        /\ \A j \in Invite : invite'[j].state = invite[j].state /\ invite'[j].user = invite[j].user
        /\ project = "live" \/ project = "none" \/ project = "gone"
    BY <1>23, ZenonT(60) DEF Expire, TypeOK
  <2>2. TypeOK'
    BY <1>23, <2>1 DEF Expire, TypeOK
  <2>3. Tasks'
    BY <1>23, <2>1 DEF Expire, Tasks, TaskOK, Invited
  <2>4. Locks'
    BY <1>23, <2>1 DEF Expire, Locks, Holding
  <2>5. project = "live"
    BY <1>23 DEF Expire, NothingOutlivesProject, NoRow
  <2>6. UsedOnce' /\ Early'
    BY <1>23, <2>1 DEF Expire, UsedOnce, Early
  <2>7. MembersInvited' /\ UsersAreMembers'
    BY <1>23, <2>1 DEF Expire, MembersInvited, UsersAreMembers
  <2> QED
    BY <1>23, <2>2, <2>3, <2>4, <2>5, <2>6, <2>7
    DEF Expire, Owners, RemovedStaysOut, NothingOutlivesProject
<1>24. ASSUME NEW r \in Request, EraseMember(r) \/ EraseInvite(r) PROVE Inv'
  <2>1. /\ UNCHANGED <<rows, task, projectLock, sharing, history>>
        /\ \/ UNCHANGED inviteLock /\ \E s \in Subject :
                 memberLock[s] = None /\ memberLock' = [memberLock EXCEPT ![s] = r]
           \/ UNCHANGED memberLock /\ \E i \in Invite :
                 inviteLock[i] = None /\ inviteLock' = [inviteLock EXCEPT ![i] = r]
    BY <1>24 DEF EraseMember, EraseInvite
  <2>2. TypeOK'
    BY <2>1 DEF TypeOK
  <2>3. Locks'
    <3>1. ASSUME NEW q \in Request PROVE Holding(task[q], q)'
      <4>1. /\ \A i \in Invite : inviteLock[i] = q => inviteLock'[i] = q
            /\ \A s \in Subject : memberLock[s] = q => memberLock'[s] = q
        BY <2>1 DEF TypeOK
      <4>2. /\ task[q].pc \in {"enroll", "commit"} /\ task[q].op = "accept" => task[q].arg \in Invite
            /\ task[q].by \in Subject /\ Holding(task[q], q)
        BY DEF Tasks, TaskOK, TypeOK, Locks
      <4> QED
        BY <2>1, <4>1, <4>2 DEF Holding
    <3> QED
      BY <2>1, <3>1 DEF Locks
  <2> QED
    BY <2>1, <2>2, <2>3
    DEF Early, Owners, Tasks, TaskOK, Invited, UsedOnce, MembersInvited, UsersAreMembers,
        RemovedStaysOut, NothingOutlivesProject
<1>25. ASSUME NEW r \in Request, MembersErased(r) PROVE Inv'
  <2>1. Stepped(r, {"invites"})
    BY <1>25, GotoTask DEF MembersErased, Pc
  <2>2. UNCHANGED <<rows, locks, history>> /\ task[r].op = "remove" /\ task[r].pc = "members"
    BY <1>25 DEF MembersErased
  <2>3. TypeOK'
    BY <2>1, <2>2 DEF Stepped, TypeOK
  <2>4. Tasks'
    <3>1. TaskOK(task[r])'
      BY <2>1, <2>2 DEF Stepped, Tasks, TaskOK
    <3> QED
      BY <2>1, <2>2, <3>1, MovedTasks DEF Stepped
  <2>5. Locks'
    <3>1. ASSUME NEW q \in Request \ {r} PROVE Holding(task[q], q)'
      BY <2>1, <2>2 DEF Stepped, Locks, Holding
    <3>2. Holding(task[r], r)'
      BY <2>1, <2>2 DEF Stepped, Locks, Holding
    <3> QED
      BY <2>2, <3>1, <3>2 DEF Locks
  <2> QED
    BY <2>2, <2>3, <2>4, <2>5
    DEF Early, Owners, UsedOnce, MembersInvited, UsersAreMembers, RemovedStaysOut,
        NothingOutlivesProject
<1>26. CASE UNCHANGED vars
    BY <1>26
    DEF vars, TypeOK, Early, Owners, Tasks, TaskOK, Invited, Locks, Holding, UsedOnce, MembersInvited,
        UsersAreMembers, RemovedStaysOut, NothingOutlivesProject
<1> QED
    BY <1>1, <1>2, <1>3, <1>4, <1>5, <1>6, <1>7, <1>8, <1>9, <1>10, <1>11, <1>12, <1>13,
       <1>14, <1>15, <1>16, <1>17, <1>18, <1>19, <1>20, <1>21, <1>22, <1>23, <1>24, <1>25, <1>26
    DEF Next, Step

-----------------------------------------------------------------------------
LEMMA Invariance == Spec => []Inv
BY InitInv, StepInv, PTL DEF Spec

\* The rows, the requests, the locks and the history keep their types.
THEOREM TypeCorrect == Spec => []TypeOK
<1>1. Inv => TypeOK
    BY DEF Inv
<1> QED
    BY <1>1, Invariance, PTL

\* An invite makes one subject a member at most: acceptInvite consumes it under the
\* condition that it is still open, in the transaction that adds the member.
THEOREM OneUse == Spec => []UsedOnce
<1>1. Inv => UsedOnce
    BY DEF Inv
<1> QED
    BY <1>1, Invariance, PTL

\* Nobody but the owner becomes a member without having used an invite, through
\* the upsert of updateMemberProfile neither.
THEOREM InvitedOnly == Spec => []MembersInvited
<1>1. Inv => MembersInvited
    BY DEF Inv
<1> QED
    BY <1>1, Invariance, PTL

\* An invite is not used up without its user having become a member.
THEOREM NoLostUse == Spec => []UsersAreMembers
<1>1. Inv => UsersAreMembers
    BY DEF Inv
<1> QED
    BY <1>1, Invariance, PTL

\* Who was removed has no row as a member before a new invite, profile updates
\* past their check apart.
THEOREM RemovedStay == Spec => []RemovedStaysOut
<1>1. Inv => RemovedStaysOut
    BY DEF Inv
<1> QED
    BY <1>1, Invariance, PTL

\* Deleting the project leaves no member and no invite, whatever request is
\* between its check and its write.
THEOREM NoOrphanRows == Spec => []NothingOutlivesProject
<1>1. Inv => NothingOutlivesProject
    BY DEF Inv
<1> QED
    BY <1>1, Invariance, PTL
=============================================================================
