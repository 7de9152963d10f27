------------------------------ MODULE Membership ------------------------------
(***************************************************************************)
(* Who is a member of one project: the rows of the project, of its members *)
(* and of its invites, and the requests of projects.router.ts and          *)
(* invites.router.ts, statement by statement as projects.repository.ts     *)
(* sends them to PostgreSQL at READ COMMITTED.  A statement waits for the  *)
(* transaction that holds the row it writes; a row that refers to the      *)
(* project keeps the project from being deleted until it is committed.     *)
(***************************************************************************)
EXTENDS Naturals, FiniteSets

CONSTANTS
    Subject,      \* the subjects of the identity provider
    Owner,        \* who creates the project
    Invite,       \* ids of invites
    Request,      \* ids of requests in flight
    None,         \* neither a subject nor a request
    MaxRequest,   \* bound: requests ever made
    Environment   \* "failure": a statement may fail

ASSUME MembershipAssumption ==
    /\ Owner \in Subject
    /\ None \notin Subject \cup Request
    /\ MaxRequest \in Nat

VARIABLES
    project,      \* the row of the project: "none", "live" or "gone"
    name,         \* who gave the project its name
    role,         \* role[s]: the role in the row of member s, "none" without a row
    invite,       \* invite[i]: the row of the invite
    task,         \* task[r]: a request and what it awaits
    inviteLock,   \* inviteLock[i]: the transaction that wrote the row of the invite
    memberLock,   \* memberLock[s]: the transaction that wrote the row of the member
    projectLock,  \* the deletion that holds the row of the project
    sharing,      \* transactions that added a row that refers to the project
    requests,     \* requests made so far
    granted,      \* granted[i]: whom the invite made a member
    removed,      \* who was removed and not invited since
    pardoned      \* removed while a profile update of theirs was past its check

rows == <<project, name, role, invite>>
locks == <<inviteLock, memberLock, projectLock, sharing>>
history == <<requests, granted, removed, pardoned>>
vars == <<rows, task, locks, history>>

Op == {"create", "rename", "remove", "kick", "invite", "revoke", "accept", "profile"}
Pc == {"idle", "insert", "check", "find", "write", "reread", "erase", "members",
       "invites", "latest", "consume", "enroll", "commit", "touch", "delete", "revoke"}
Idle == [op |-> "create", by |-> Owner, arg |-> None, pc |-> "idle"]
NoRow == [state |-> "none", expired |-> FALSE, user |-> None]

TypeOK ==
    /\ project \in {"none", "live", "gone"} /\ name \in Subject
    /\ role \in [Subject -> {"none", "owner", "editor"}]
    /\ invite \in [Invite -> [state : {"none", "open", "consumed", "revoked"},
                              expired : BOOLEAN, user : Subject \cup {None}]]
    /\ \A i \in Invite : invite[i].user # None <=> invite[i].state = "consumed"
    /\ task \in [Request -> [op : Op, by : Subject, pc : Pc,
                             arg : Subject \cup Invite \cup {None}]]
    /\ inviteLock \in [Invite -> Request \cup {None}]
    /\ memberLock \in [Subject -> Request \cup {None}]
    /\ projectLock \in Request \cup {None} /\ sharing \subseteq Request
    /\ requests \in 0 .. MaxRequest
    /\ granted \in [Invite -> SUBSET Subject]
    /\ removed \subseteq Subject /\ pardoned \subseteq removed

Init ==
    /\ project = "none" /\ name = Owner
    /\ role = [s \in Subject |-> "none"]
    /\ invite = [i \in Invite |-> NoRow]
    /\ task = [r \in Request |-> Idle]
    /\ inviteLock = [i \in Invite |-> None] /\ memberLock = [s \in Subject |-> None]
    /\ projectLock = None /\ sharing = {}
    /\ requests = 0 /\ granted = [i \in Invite |-> {}]
    /\ removed = {} /\ pardoned = {}

-------------------------------------------------------------------------------
(* project-access.ts, and what the listings show.                          *)

IsOwner(s) == project = "live" /\ s = Owner
\* Faulty: a subject who has used an invite may read.
InvitedCanRead(s) == IsOwner(s) \/ \E i \in Invite : invite[i].user = s
CanRead(s) == IsOwner(s) \/ role[s] # "none"
CanEdit(s) == IsOwner(s) \/ role[s] = "editor"

Valid(i) == invite[i].state = "open" /\ ~invite[i].expired

-------------------------------------------------------------------------------
(* Requests                                                                *)

At(r, op, pc) == task[r].op = op /\ task[r].pc = pc
Goto(r, pc) == task' = [task EXCEPT ![r].pc = pc]
End(r) == task' = [task EXCEPT ![r] = Idle]

\* The end of the transaction of r.
Release(r) ==
    /\ inviteLock' = [i \in Invite |-> IF inviteLock[i] = r THEN None ELSE inviteLock[i]]
    /\ memberLock' = [s \in Subject |-> IF memberLock[s] = r THEN None ELSE memberLock[s]]
    /\ projectLock' = IF projectLock = r THEN None ELSE projectLock
    /\ sharing' = sharing \ {r}

FirstStep(op) == CASE op = "create" -> "insert"
                   [] op = "accept" -> "find"
                   [] OTHER -> "check"

Argument(op) == CASE op = "kick" -> Subject
                  [] op \in {"revoke", "accept"} -> {i \in Invite : invite[i].state # "none"}
                  [] OTHER -> {None}

Start(r, op, s, arg) ==
    /\ task[r].pc = "idle" /\ requests < MaxRequest
    /\ arg \in Argument(op)
    /\ op = "create" => s = Owner /\ project = "none"
                        /\ \A q \in Request : ~At(q, "create", "insert")
    /\ op # "create" => project # "none"
    /\ op = "invite" => Cardinality({q \in Request : task[q].op = "invite"})
                         < Cardinality({i \in Invite : invite[i].state = "none"})
    /\ task' = [task EXCEPT ![r] = [op |-> op, by |-> s, arg |-> arg, pc |-> FirstStep(op)]]
    /\ requests' = requests + 1
    /\ UNCHANGED <<rows, locks, granted, removed, pardoned>>

\* An upsert of the row of member s: an update waits for who wrote the row, an
\* insertion also for a deletion of the project.
CanUpsert(s) == memberLock[s] = None /\ (role[s] = "none" => projectLock = None)
UpsertFails(s) == role[s] = "none" /\ project # "live"

(* create: the project, then its owner as a member.                        *)

CreateInsert(r) ==
    /\ At(r, "create", "insert")
    /\ project' = "live" /\ Goto(r, "enroll")
    /\ UNCHANGED <<name, role, invite, locks, history>>

CreateEnroll(r) ==
    /\ At(r, "create", "enroll") /\ CanUpsert(Owner)
    /\ role' = IF UpsertFails(Owner) THEN role ELSE [role EXCEPT ![Owner] = "owner"]
    /\ End(r)
    /\ UNCHANGED <<project, name, invite, locks, history>>

(* update: the check, the row, the write and the row again.                *)

RenameCheck(r) ==
    /\ At(r, "rename", "check")
    /\ IF CanEdit(task[r].by) THEN Goto(r, "find") ELSE End(r)
    /\ UNCHANGED <<rows, locks, history>>

RenameFind(r) ==
    /\ At(r, "rename", "find")
    /\ IF project = "live" THEN Goto(r, "write") ELSE End(r)
    /\ UNCHANGED <<rows, locks, history>>

RenameWrite(r) ==
    /\ At(r, "rename", "write") /\ projectLock = None
    /\ IF project = "live" THEN name' = task[r].by /\ Goto(r, "reread")
       ELSE End(r) /\ UNCHANGED name
    /\ UNCHANGED <<project, role, invite, locks, history>>

\* getById at the end of update and of acceptInvite.
Reread(r) ==
    /\ task[r].pc = "reread"
    /\ End(r)
    /\ UNCHANGED <<rows, locks, history>>

(* remove: deleting the project deletes its members and invites.           *)

OwnerCheck(r) ==
    /\ task[r].op \in {"remove", "kick", "invite", "revoke"} /\ task[r].pc = "check"
    /\ IF IsOwner(task[r].by) /\ task[r].arg # Owner
       THEN Goto(r, CASE task[r].op = "remove" -> "erase"
                      [] task[r].op = "kick"   -> "delete"
                      [] task[r].op = "invite" -> "insert"
                      [] OTHER                 -> "revoke")
       ELSE End(r)
    /\ UNCHANGED <<rows, locks, history>>

Erase(r) ==
    /\ At(r, "remove", "erase") /\ projectLock = None /\ sharing = {}
    /\ IF project = "live" THEN Goto(r, "members") /\ projectLock' = r
       ELSE End(r) /\ UNCHANGED projectLock
    /\ UNCHANGED <<rows, inviteLock, memberLock, sharing, history>>

\* The rows that refer to the project are deleted one after the other, each once
\* nobody else holds it: those of the members, then those of the invites.
EraseMember(r) ==
    /\ At(r, "remove", "members")
    /\ \E s \in Subject : /\ role[s] # "none" /\ memberLock[s] = None
                          /\ memberLock' = [memberLock EXCEPT ![s] = r]
    /\ UNCHANGED <<rows, task, inviteLock, projectLock, sharing, history>>

MembersErased(r) ==
    /\ At(r, "remove", "members")
    /\ \A s \in Subject : role[s] # "none" => memberLock[s] = r
    /\ Goto(r, "invites")
    /\ UNCHANGED <<rows, locks, history>>

EraseInvite(r) ==
    /\ At(r, "remove", "invites")
    /\ \E i \in Invite : /\ invite[i].state # "none" /\ inviteLock[i] = None
                         /\ inviteLock' = [inviteLock EXCEPT ![i] = r]
    /\ UNCHANGED <<rows, task, memberLock, projectLock, sharing, history>>

EraseCommit(r) ==
    /\ At(r, "remove", "invites")
    /\ \A i \in Invite : invite[i].state # "none" => inviteLock[i] = r
    /\ project' = "gone"
    /\ role' = [s \in Subject |-> "none"]
    /\ invite' = [i \in Invite |-> NoRow]
    /\ Release(r) /\ End(r)
    /\ UNCHANGED <<name, history>>

(* removeCollaborator, createInvite, revokeInvite: one statement each.     *)

\* A profile update of s that has passed its check.
Touching(s) == \E q \in Request :
    task[q].op = "profile" /\ task[q].by = s /\ task[q].pc \in {"touch", "enroll"}

Delete(r) ==
    LET s == task[r].arg
    IN
    /\ At(r, "kick", "delete")
    /\ role[s] # "none" => memberLock[s] = None
    /\ role' = [role EXCEPT ![s] = "none"]
    /\ IF role[s] = "none" THEN UNCHANGED <<removed, pardoned>>
       ELSE /\ removed' = removed \cup {s}
            /\ pardoned' = IF Touching(s) THEN pardoned \cup {s} ELSE pardoned \ {s}
    /\ End(r)
    /\ UNCHANGED <<project, name, invite, locks, requests, granted>>

InviteInsert(r) ==
    /\ At(r, "invite", "insert") /\ projectLock = None
    /\ \/ /\ project = "live"
          /\ \E i \in Invite : /\ invite[i].state = "none"
                               /\ invite' = [invite EXCEPT ![i].state = "open"]
       \/ project # "live" /\ UNCHANGED invite
    /\ End(r)
    /\ UNCHANGED <<project, name, role, locks, history>>

Revoke(r) ==
    LET i == task[r].arg
    IN
    /\ At(r, "revoke", "revoke")
    /\ Valid(i) => inviteLock[i] = None
    /\ invite' = IF Valid(i) THEN [invite EXCEPT ![i].state = "revoked"] ELSE invite
    /\ End(r)
    /\ UNCHANGED <<project, name, role, locks, history>>

(* updateMemberProfile: the check, the update, and if there was nothing to *)
(* update an upsert, as an editor.                                         *)

\* Faulty: who has no row is made a member without a check.
UncheckedProfileCheck(r) ==
    /\ At(r, "profile", "check")
    /\ IF project = "live" THEN Goto(r, "touch") ELSE End(r)
    /\ UNCHANGED <<rows, locks, history>>

ProfileCheck(r) ==
    /\ At(r, "profile", "check")
    /\ IF CanRead(task[r].by) THEN Goto(r, "touch") ELSE End(r)
    /\ UNCHANGED <<rows, locks, history>>

ProfileTouch(r) ==
    /\ At(r, "profile", "touch")
    /\ IF role[task[r].by] # "none" THEN memberLock[task[r].by] = None /\ End(r)
       ELSE Goto(r, "enroll")
    /\ UNCHANGED <<rows, locks, history>>

\* Faulty: a row that cannot be inserted is looked for again, and again.
RetriedProfileEnroll(r) ==
    LET s == task[r].by
    IN
    /\ At(r, "profile", "enroll") /\ CanUpsert(s)
    /\ IF UpsertFails(s) THEN Goto(r, "touch") /\ UNCHANGED role
       ELSE role' = [role EXCEPT ![s] = "editor"] /\ End(r)
    /\ UNCHANGED <<project, name, invite, locks, history>>

ProfileEnroll(r) ==
    LET s == task[r].by
    IN
    /\ At(r, "profile", "enroll") /\ CanUpsert(s)
    /\ role' = IF UpsertFails(s) THEN role ELSE [role EXCEPT ![s] = "editor"]
    /\ End(r)
    /\ UNCHANGED <<project, name, invite, locks, history>>

(* acceptInvite: the invite is found and judged; then, in a transaction,   *)
(* found and judged again, consumed if it is still valid, and the subject  *)
(* made a member.                                                          *)

AcceptFind(r) ==
    /\ task[r].op = "accept" /\ task[r].pc \in {"find", "latest"}
    /\ IF Valid(task[r].arg)
       THEN Goto(r, IF task[r].pc = "find" THEN "latest" ELSE "consume")
       ELSE End(r)
    /\ UNCHANGED <<rows, locks, history>>

\* Faulty: the invite is consumed by its id, whatever its state is by now.
BlindAcceptConsume(r) ==
    LET i == task[r].arg
    IN
    /\ At(r, "accept", "consume")
    /\ inviteLock[i] = None
    /\ IF invite[i].state # "none" THEN Goto(r, "enroll") /\ inviteLock' = [inviteLock EXCEPT ![i] = r]
       ELSE End(r) /\ UNCHANGED inviteLock
    /\ UNCHANGED <<rows, memberLock, projectLock, sharing, history>>

AcceptConsume(r) ==
    LET i == task[r].arg
    IN
    /\ At(r, "accept", "consume")
    /\ Valid(i) => inviteLock[i] = None
    /\ IF Valid(i) THEN Goto(r, "enroll") /\ inviteLock' = [inviteLock EXCEPT ![i] = r]
       ELSE End(r) /\ UNCHANGED inviteLock
    /\ UNCHANGED <<rows, memberLock, projectLock, sharing, history>>

AcceptEnroll(r) ==
    LET s == task[r].by
    IN
    /\ At(r, "accept", "enroll") /\ CanUpsert(s)
    /\ IF UpsertFails(s) THEN Release(r) /\ End(r)
       ELSE /\ memberLock' = [memberLock EXCEPT ![s] = r]
            /\ sharing' = IF role[s] = "none" THEN sharing \cup {r} ELSE sharing
            /\ Goto(r, "commit")
            /\ UNCHANGED <<inviteLock, projectLock>>
    /\ UNCHANGED <<rows, history>>

AcceptCommit(r) ==
    LET s == task[r].by
        i == task[r].arg
    IN
    /\ At(r, "accept", "commit")
    /\ invite' = [invite EXCEPT ![i].state = "consumed", ![i].user = s]
    /\ role' = [role EXCEPT ![s] = "editor"]
    /\ granted' = [granted EXCEPT ![i] = @ \cup {s}]
    /\ removed' = removed \ {s} /\ pardoned' = pardoned \ {s}
    /\ Release(r) /\ Goto(r, "reread")
    /\ UNCHANGED <<project, name, requests>>

-------------------------------------------------------------------------------
(* A statement fails, or its answer is lost: the request ends, and with it *)
(* its transaction.                                                        *)

Fail(r) ==
    /\ "failure" \in Environment /\ task[r].pc # "idle"
    /\ Release(r) /\ End(r)
    /\ UNCHANGED <<rows, history>>

\* Whom a transaction waits for while it holds rows itself: an accept for who
\* holds the row of its subject or, without one, the project; a deletion for who
\* holds a row it has yet to delete.
WaitsFor(r) ==
    LET s == task[r].by
    IN
    (CASE At(r, "accept", "enroll") ->
            {memberLock[s]} \cup {p \in {projectLock} : role[s] = "none"}
       [] At(r, "remove", "members") ->
            {memberLock[m] : m \in {m \in Subject : role[m] # "none"}}
       [] At(r, "remove", "invites") ->
            {inviteLock[i] : i \in {i \in Invite : invite[i].state # "none"}}
       [] OTHER -> {}) \ {None, r}

\* The transactions of a cycle wait for each other, and those of no part of it do.
\* PostgreSQL ends one of them.
Circular(rs) == rs # {} /\ \A r \in rs : WaitsFor(r) \cap rs # {}
Deadlocked(rs) == Circular(rs) /\ \A part \in SUBSET rs : Circular(part) => part = rs

Victim(r) == \E rs \in SUBSET Request : r \in rs /\ Deadlocked(rs)
Break(r) ==
    /\ Victim(r)
    /\ Release(r) /\ End(r)
    /\ UNCHANGED <<rows, history>>

Expire(i) ==
    /\ invite[i].state = "open" /\ ~invite[i].expired
    /\ invite' = [invite EXCEPT ![i].expired = TRUE]
    /\ UNCHANGED <<project, name, role, task, locks, history>>

Step(r) ==
    \/ CreateInsert(r) \/ CreateEnroll(r)
    \/ RenameCheck(r) \/ RenameFind(r) \/ RenameWrite(r) \/ Reread(r)
    \/ OwnerCheck(r) \/ Erase(r) \/ EraseMember(r) \/ MembersErased(r)
    \/ EraseInvite(r) \/ EraseCommit(r) \/ Delete(r)
    \/ InviteInsert(r) \/ Revoke(r)
    \/ ProfileCheck(r) \/ ProfileTouch(r) \/ ProfileEnroll(r)
    \/ AcceptFind(r) \/ AcceptConsume(r) \/ AcceptEnroll(r) \/ AcceptCommit(r)
    \/ Break(r)

Next ==
    \/ \E r \in Request, op \in Op, s \in Subject, arg \in Subject \cup Invite \cup {None} :
            Start(r, op, s, arg)
    \/ \E r \in Request : Step(r) \/ Fail(r)
    \/ \E i \in Invite : Expire(i)

Spec == Init /\ [][Next]_vars

\* The database carries out every statement it can, and breaks deadlocks.
FairSpec == Spec /\ \A r \in Request : WF_vars(Step(r))

-------------------------------------------------------------------------------
\* An invite makes one subject a member at most, the one its row names as its
\* user, and none if it was revoked.
UsedOnce ==
    project = "live" =>
        \A i \in Invite : granted[i] = IF invite[i].state = "consumed"
                                       THEN {invite[i].user} ELSE {}

\* Who is a member and not the owner has used an invite.
MembersInvited ==
    \A s \in Subject : role[s] # "none" =>
        s = Owner \/ \E i \in Invite : invite[i].state = "consumed" /\ invite[i].user = s

\* Whose invite is used up is a member, unless removed since.
UsersAreMembers ==
    \A i \in Invite : invite[i].state = "consumed" =>
        role[invite[i].user] # "none" \/ invite[i].user \in removed

\* Who was removed stays so until they accept an invite, unless a profile update
\* of theirs had passed its check by then.
RemovedStaysOut ==
    \A s \in removed \ pardoned : role[s] = "none"

\* No member and no invite outlives its project.
NothingOutlivesProject ==
    project # "live" => /\ \A s \in Subject : role[s] = "none"
                        /\ \A i \in Invite : invite[i] = NoRow

\* Every request is answered.
RequestsEnd == \A r \in Request : task[r].pc # "idle" ~> task[r].pc = "idle"

===============================================================================
