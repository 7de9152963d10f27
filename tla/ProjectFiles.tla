------------------------------ MODULE ProjectFiles ------------------------------
(***************************************************************************)
(* The files of one project, kept three times: a row in the database, a    *)
(* blob in the file store, and a file in the workspace its terminals run   *)
(* in.  Modelled are the requests of files.router.ts, the operations of    *)
(* files.repository.ts they and the terminals' side make, one step for     *)
(* each call that is awaited, and the hydration and the reconciliation of  *)
(* project-workspace-sync-service.ts (all under                            *)
(* server/src/modules/projects).                                           *)
(*                                                                         *)
(* A task is a request, or Live: what the terminals' own synchronisation   *)
(* service runs for the project, one thing at a time.  The requests run    *)
(* under the lock of another such service (server/src/index.ts and         *)
(* ws/collab-server.ts each make one), which Live does not take.           *)
(* Contents with the same hash are the same content, so a hash is modelled *)
(* by the content it was taken of.                                         *)
(***************************************************************************)
EXTENDS Integers, Sequences, FiniteSets

CONSTANTS
    Handler,            \* the requests under way at once
    Live,               \* the terminals' side, not a handler
    Folder, Top,        \* folders files are in; Top is the root, if it is one of them
    Name,               \* what a path is below its folder
    Excluded,           \* folders the workspace is not listed in
    Content, None,      \* contents, and no content
    MaxFile, Initial,   \* bound: files ever made; those there are at first
    MaxRequest,         \* bound: requests ever made
    MaxEdit,            \* bound: changes made in terminals
    Request,            \* the kinds of requests made
    Environment         \* which there are: terminals, failures, a crash, and requests
                        \* that overlap what the terminals' side does

File == 1..MaxFile
Path == Folder \X Name
Kind == {"create", "patch", "delete", "renameFolder", "deleteFolder"}
Task == Handler \cup {Live}

ASSUME ProjectFilesAssumption ==
    /\ Live \notin Handler /\ None \notin Content
    /\ Excluded \subseteq Folder
    /\ MaxFile \in Nat /\ Initial \in 0..MaxFile /\ MaxRequest \in Nat /\ MaxEdit \in Nat
    /\ Request \subseteq Kind
    /\ Environment \subseteq {"terminal", "failure", "crash", "overlap"}

VARIABLES
    row,                \* row[f]: path and contentHash in the database
    blob,               \* blob[f]: what is stored under the file's storageKey
    disk,               \* disk[p]: what the workspace holds
    made,               \* ids given so far
    task,               \* task[t]: how far it got, and what it has read
    queue,              \* projectLocks: the requests that hold the lock or wait
    todo,               \* what Live has still to do
    scanned,            \* the workspace as Live listed it
    watched,            \* a terminal was opened: its user may change the workspace
    created,            \* files made by a request that was answered, and untouched
    requests, edits,    \* how many there were
    failed,             \* a call failed
    raced               \* Live overlapped a request, a request on folders another
                        \* one, or what a failure or a crash left was not repaired

storeVars == <<row, blob, made>>
ghostVars == <<created, requests, edits, failed, raced>>
vars == <<storeVars, disk, task, queue, todo, scanned, watched, ghostVars>>

NoPath == <<>>
NoRow == [path |-> NoPath, hash |-> None]
NoText == [path |-> NoPath, text |-> None]

\* prev is the record read before the lock was asked for, cur the one read under
\* it; undo tells that the task takes back what it did.
NoTask == [op |-> "none", at |-> "idle", id |-> 0, path |-> NoPath, text |-> None,
           prev |-> NoText, cur |-> NoText, undo |-> FALSE, files |-> {}]

Stored == {f \in File : row[f] # NoRow}
Taken(p, f) == \E g \in Stored \ {f} : row[g].path = p
Busy(t) == task[t].at # "idle"

\* The project has some files, none of them open in a terminal yet.
Init ==
    \E n \in 0..Initial :
        /\ made = n
        /\ row \in {r \in [File -> [path : Path, hash : Content] \cup {NoRow}] :
                       /\ \A f \in File : r[f] = NoRow <=> f > n
                       /\ \A f, g \in 1..n : f # g => r[f].path # r[g].path}
        /\ blob = [f \in File |-> row[f].hash]
        /\ disk = [p \in Path |-> None]
        /\ task = [t \in Task |-> NoTask] /\ queue = <<>> /\ todo = {}
        /\ scanned = [p \in Path |-> None] /\ watched = FALSE
        /\ created = {} /\ requests = 0 /\ edits = 0
        /\ failed = FALSE /\ raced = FALSE

Holds(t) == t = Live \/ (queue # <<>> /\ Head(queue) = t)
At(t, where) == task[t].at = where /\ Holds(t)
Goto(t, where) == task' = [task EXCEPT ![t].at = where]

Unlock(t) == queue' = IF t = Live THEN queue ELSE Tail(queue)

\* Live goes on with its next job; a request is answered.
Done(t) ==
    /\ task' = [task EXCEPT ![t] =
                   IF t = Live THEN [NoTask EXCEPT !.op = "reconcile", !.at = "jobs"]
                               ELSE NoTask]
    /\ Unlock(t)

\* The whole reconciliation fails, or the request does; the lock goes on.
Fails(t) ==
    /\ task' = [task EXCEPT ![t] = NoTask]
    /\ Unlock(t)
    /\ todo' = IF t = Live THEN {} ELSE todo

-----------------------------------------------------------------------------
(* createFileInternal                                                      *)

\* Bound: the file store takes MaxFile files, and fails after that.
WriteBlob(t) ==
    /\ At(t, "blob")
    /\ IF made = MaxFile
         THEN /\ Fails(t)
              /\ UNCHANGED <<blob, made>>
         ELSE /\ made' = made + 1
              /\ blob' = [blob EXCEPT ![made + 1] = task[t].text]
              /\ task' = [task EXCEPT ![t].id = made + 1, ![t].at = "insert"]
              /\ UNCHANGED <<queue, todo>>
    /\ UNCHANGED <<row, disk, scanned, watched, ghostVars>>

\* The path may be taken: the blob is removed again.
Insert(t) ==
    /\ At(t, "insert")
    /\ IF Taken(task[t].path, task[t].id)
         THEN /\ Goto(t, "unblob")
              /\ UNCHANGED <<row, queue>>
         ELSE /\ row' = [row EXCEPT ![task[t].id] =
                            [path |-> task[t].path, hash |-> task[t].text]]
              /\ IF t = Live THEN Done(t) ELSE Goto(t, "write") /\ UNCHANGED queue
    /\ UNCHANGED <<blob, made, disk, todo, scanned, watched, ghostVars>>

RemoveBlob(t) ==
    /\ At(t, "unblob")
    /\ blob' = [blob EXCEPT ![task[t].id] = None]
    /\ Fails(t)
    /\ UNCHANGED <<row, made, disk, scanned, watched, ghostVars>>

-----------------------------------------------------------------------------
(* update and updateFromSync: null if the row is gone.                     *)

NextPath(t) == IF task[t].path = NoPath THEN task[t].cur.path ELSE task[t].path
NextText(t) == IF task[t].text = None THEN task[t].cur.text ELSE task[t].text

\* A request that finds no row is answered so.  Live goes on; a file that was
\* to be renamed is one to be removed again.
UpdateIsNull(t) ==
    /\ IF task[t].undo THEN Fails(t) ELSE
         /\ Done(t)
         /\ todo' = IF t = Live /\ task[t].op = "path"
                      THEN todo \cup {[op |-> "remove", id |-> task[t].id,
                                       path |-> NoPath, text |-> None]}
                      ELSE todo

Find(t) ==
    /\ At(t, "find")
    /\ IF row[task[t].id] = NoRow
         THEN UpdateIsNull(t)
         ELSE /\ task' = [task EXCEPT ![t].cur.path = row[task[t].id].path, ![t].at = "read"]
              /\ UNCHANGED <<queue, todo>>
    /\ UNCHANGED <<storeVars, disk, scanned, watched, ghostVars>>

Read(t) ==
    /\ At(t, "read")
    /\ IF blob[task[t].id] = None
         THEN Fails(t)
         ELSE /\ task' = [task EXCEPT ![t].cur.text = blob[task[t].id], ![t].at = "store"]
              /\ UNCHANGED <<queue, todo>>
    /\ UNCHANGED <<storeVars, disk, scanned, watched, ghostVars>>

Store(t) ==
    /\ At(t, "store")
    /\ blob' = [blob EXCEPT ![task[t].id] = NextText(t)]
    /\ Goto(t, "update")
    /\ UNCHANGED <<row, made, disk, queue, todo, scanned, watched, ghostVars>>

\* updateMany: the path may be taken by another file by now.
Update(t) ==
    /\ At(t, "update")
    /\ IF row[task[t].id] = NoRow
         THEN UpdateIsNull(t) /\ UNCHANGED row
         ELSE /\ IF Taken(NextPath(t), task[t].id)
                   THEN Goto(t, "restore") /\ UNCHANGED row
                   ELSE /\ row' = [row EXCEPT ![task[t].id] =
                                      [path |-> NextPath(t), hash |-> NextText(t)]]
                        /\ Goto(t, "refresh")
              /\ UNCHANGED <<queue, todo>>
    /\ UNCHANGED <<blob, made, disk, scanned, watched, ghostVars>>

\* Fault: the blob is removed, as after a failed creation.
RemovingRestore(t) ==
    /\ At(t, "restore")
    /\ blob' = [blob EXCEPT ![task[t].id] = None]
    /\ Fails(t)
    /\ UNCHANGED <<row, made, disk, scanned, watched, ghostVars>>

\* Fault: the content that was written stays.
FaultyRestore(t) ==
    /\ At(t, "restore")
    /\ Fails(t)
    /\ UNCHANGED <<storeVars, disk, scanned, watched, ghostVars>>

\* The content the update had found is written back.
Restore(t) ==
    /\ At(t, "restore")
    /\ blob' = [blob EXCEPT ![task[t].id] = task[t].cur.text]
    /\ Fails(t)
    /\ UNCHANGED <<row, made, disk, scanned, watched, ghostVars>>

\* The row is read again.  An undo ends with the error it was made for.
Refresh(t) ==
    /\ At(t, "refresh")
    /\ IF row[task[t].id] = NoRow THEN UpdateIsNull(t)
       ELSE IF task[t].undo THEN Fails(t)
       ELSE IF t = Live THEN Done(t) /\ UNCHANGED todo
       ELSE /\ task' = [task EXCEPT ![t].cur.path = row[task[t].id].path, ![t].at = "reread"]
            /\ UNCHANGED <<queue, todo>>
    /\ UNCHANGED <<storeVars, disk, scanned, watched, ghostVars>>

\* Only update, not updateFromSync, returns the content that is stored by then.
Reread(t) ==
    /\ At(t, "reread")
    /\ IF blob[task[t].id] = None
         THEN Fails(t)
         ELSE /\ task' = [task EXCEPT ![t].cur.text = blob[task[t].id], ![t].at = "write"]
              /\ UNCHANGED <<queue, todo>>
    /\ UNCHANGED <<storeVars, disk, scanned, watched, ghostVars>>

-----------------------------------------------------------------------------
(* remove and removeFromSync                                               *)

\* A deletion that removed nothing writes the file into the workspace again.
Removed(t, any) ==
    IF t # Live /\ ~task[t].undo /\ ~any
      THEN Goto(t, "rewrite") /\ UNCHANGED queue
      ELSE Done(t)

\* remove reads the record as getById does, removeFromSync the row alone.
FindToRemove(t) ==
    /\ At(t, "findRemove")
    /\ IF row[task[t].id] = NoRow
         THEN Removed(t, FALSE)
         ELSE Goto(t, IF t = Live THEN "delete" ELSE "readRemove") /\ UNCHANGED queue
    /\ UNCHANGED <<storeVars, disk, todo, scanned, watched, ghostVars>>

ReadToRemove(t) ==
    /\ At(t, "readRemove")
    /\ IF blob[task[t].id] = None
         THEN Fails(t)
         ELSE Goto(t, "delete") /\ UNCHANGED <<queue, todo>>
    /\ UNCHANGED <<storeVars, disk, scanned, watched, ghostVars>>

Delete(t) ==
    /\ At(t, "delete")
    /\ IF row[task[t].id] = NoRow
         THEN Removed(t, FALSE) /\ UNCHANGED row
         ELSE /\ row' = [row EXCEPT ![task[t].id] = NoRow]
              /\ Goto(t, "unlink") /\ UNCHANGED queue
    /\ UNCHANGED <<blob, made, disk, todo, scanned, watched, ghostVars>>

Unlink(t) ==
    /\ At(t, "unlink")
    /\ blob' = [blob EXCEPT ![task[t].id] = None]
    /\ Removed(t, TRUE)
    /\ UNCHANGED <<row, made, disk, todo, scanned, watched, ghostVars>>

-----------------------------------------------------------------------------
(* The requests.  Those without the right to the project end early.        *)

\* Live and a request overlap, or a request on folders and another one.
Begin(h, new, folders) ==
    /\ ~Busy(h) /\ requests < MaxRequest /\ new.op \in Request
    /\ Busy(Live) => "overlap" \in Environment
    /\ task' = [task EXCEPT ![h] = new]
    /\ requests' = requests + 1
    /\ raced' = (\/ raced \/ Busy(Live)
                 \/ \E g \in Handler :
                       /\ Busy(g)
                       /\ folders \/ task[g].op \in {"renameFolder", "deleteFolder"})
    /\ UNCHANGED <<storeVars, disk, todo, scanned, watched, edits, failed>>

\* POST /: the lock is asked for at once.
RequestCreate(h, p, c) ==
    /\ Begin(h, [NoTask EXCEPT !.op = "create", !.at = "blob", !.path = p, !.text = c], FALSE)
    /\ queue' = Append(queue, h)
    /\ UNCHANGED created

\* PATCH /:fileId, and restoring a version, whose content may be any.
RequestPatch(h, f, p, c) ==
    /\ p # NoPath \/ c # None
    /\ Begin(h, [NoTask EXCEPT !.op = "patch", !.at = "lookup", !.id = f, !.path = p,
                               !.text = c], FALSE)
    /\ created' = created \ {f}
    /\ UNCHANGED queue

RequestDelete(h, f) ==
    /\ Begin(h, [NoTask EXCEPT !.op = "delete", !.at = "lookup", !.id = f], FALSE)
    /\ created' = created \ {f}
    /\ UNCHANGED queue

\* The record the request goes by is read before the lock is asked for.
Lookup(h) ==
    /\ task[h].at = "lookup"
    /\ task' = [task EXCEPT ![h] = IF row[@.id] = NoRow THEN NoTask
                                   ELSE [@ EXCEPT !.prev.path = row[task[h].id].path,
                                                  !.at = "lookupText"]]
    /\ UNCHANGED <<storeVars, disk, queue, todo, scanned, watched, ghostVars>>

LookupText(h) ==
    /\ task[h].at = "lookupText"
    /\ IF blob[task[h].id] = None
         THEN /\ task' = [task EXCEPT ![h] = NoTask]
              /\ UNCHANGED queue
         ELSE /\ task' = [task EXCEPT ![h].prev.text = blob[task[h].id],
                                      ![h].at = IF task[h].op = "patch" THEN "find" ELSE "erase"]
              /\ queue' = Append(queue, h)
    /\ UNCHANGED <<storeVars, disk, todo, scanned, watched, ghostVars>>

\* applyApiCreate and applyApiUpdate: the workspace follows the database.
Write(h) ==
    /\ At(h, "write")
    /\ IF task[h].op = "create"
         THEN /\ disk' = [disk EXCEPT ![task[h].path] = task[h].text]
              /\ created' = created \cup {task[h].id}
              /\ Done(h)
         ELSE /\ disk' = [disk EXCEPT ![task[h].cur.path] = task[h].cur.text]
              /\ IF task[h].cur.path = task[h].prev.path
                   THEN Done(h)
                   ELSE Goto(h, "erase") /\ UNCHANGED queue
              /\ UNCHANGED created
    /\ UNCHANGED <<storeVars, todo, scanned, watched, requests, edits, failed, raced>>

\* moveFile removes the old name, applyApiDelete the file.
Erase(h) ==
    /\ At(h, "erase")
    /\ disk' = [disk EXCEPT ![task[h].prev.path] = None]
    /\ IF task[h].op = "patch" THEN Done(h) ELSE Goto(h, "findRemove") /\ UNCHANGED queue
    /\ UNCHANGED <<storeVars, todo, scanned, watched, ghostVars>>

Rewrite(h) ==
    /\ At(h, "rewrite")
    /\ disk' = [disk EXCEPT ![task[h].prev.path] = task[h].prev.text]
    /\ Done(h)
    /\ UNCHANGED <<storeVars, todo, scanned, watched, ghostVars>>

-----------------------------------------------------------------------------
(* renameFolder and deleteFolder take no lock, and leave the workspace as  *)
(* it is.  Folders that hold no file are not modelled.                     *)

Below(d) == {f \in Stored : row[f].path[1] = d}

RequestRenameFolder(h, from, to) ==
    LET renamed == {[id |-> f, path |-> <<to, row[f].path[2]>>, hash |-> row[f].hash,
                     text |-> None] : f \in Below(from)}
    IN  /\ from \notin {to, Top} /\ to # Top
        /\ renamed # {}
        /\ \A r \in renamed, g \in Stored \ Below(from) : row[g].path # r.path
        /\ Begin(h, [NoTask EXCEPT !.op = "renameFolder", !.at = "transaction",
                                   !.files = renamed], TRUE)
        /\ created' = created \ Below(from)
        /\ UNCHANGED queue

\* The rows get the path, and with it the hash the request has read.
RenameRows(h) ==
    LET Of(f) == {r \in task[h].files : r.id = f}
        new == [f \in File |-> IF row[f] = NoRow \/ Of(f) = {} THEN row[f]
                               ELSE CHOOSE q \in {[path |-> r.path, hash |-> r.hash] :
                                                  r \in Of(f)} : TRUE]
    IN  /\ task[h].op = "renameFolder" /\ task[h].at = "transaction"
        /\ \A f, g \in Stored : f # g => new[f].path # new[g].path
        /\ row' = new
        /\ task' = [task EXCEPT ![h] = NoTask]
        /\ UNCHANGED <<blob, made, disk, queue, todo, scanned, watched, ghostVars>>

\* Another file has one of the paths by now: nothing is changed.
RenameConflicts(h) ==
    /\ task[h].op = "renameFolder" /\ task[h].at = "transaction"
    /\ \E r \in task[h].files : r.id \in Stored /\ Taken(r.path, r.id)
    /\ task' = [task EXCEPT ![h] = NoTask]
    /\ UNCHANGED <<storeVars, disk, queue, todo, scanned, watched, ghostVars>>

RequestDeleteFolder(h, d) ==
    /\ d # Top /\ Below(d) # {}
    /\ Begin(h, [NoTask EXCEPT !.op = "deleteFolder", !.at = "transaction",
                               !.files = {[id |-> f, path |-> row[f].path,
                                           hash |-> row[f].hash, text |-> None] :
                                          f \in Below(d)}], TRUE)
    /\ created' = created \ Below(d)
    /\ UNCHANGED queue

Listed(h) == {r.id : r \in task[h].files}

DeleteRows(h) ==
    /\ task[h].op = "deleteFolder" /\ task[h].at = "transaction"
    /\ row' = [f \in File |-> IF f \in Listed(h) THEN NoRow ELSE row[f]]
    /\ Goto(h, "unlinkAll")
    /\ UNCHANGED <<blob, made, disk, queue, todo, scanned, watched, ghostVars>>

UnlinkAll(h) ==
    /\ task[h].at = "unlinkAll"
    /\ blob' = [f \in File |-> IF f \in Listed(h) THEN None ELSE blob[f]]
    /\ task' = [task EXCEPT ![h] = NoTask]
    /\ UNCHANGED <<row, made, disk, queue, todo, scanned, watched, ghostVars>>

-----------------------------------------------------------------------------
(* hydrateProjectWorkspace and reconcileProjectWorkspace                   *)

\* listByProjectForSync: the rows first.
List(op) ==
    /\ "terminal" \in Environment /\ ~Busy(Live)
    /\ op = "reconcile" => watched
    /\ (\E h \in Handler : Busy(h)) => "overlap" \in Environment
    /\ task' = [task EXCEPT ![Live] = [NoTask EXCEPT !.op = op, !.at = "reading"]]
    /\ todo' = {[op |-> "read", id |-> f, path |-> row[f].path, text |-> row[f].hash] :
                f \in Stored}
    /\ raced' = (raced \/ \E h \in Handler : Busy(h))
    /\ UNCHANGED <<storeVars, disk, queue, scanned, watched, created, requests, edits,
                   failed>>

\* Then their contents; a file whose blob is gone is left out.
ReadListed(j) ==
    /\ task[Live].at = "reading" /\ j \in todo
    /\ todo' = todo \ {j}
    /\ task' = [task EXCEPT ![Live].files =
                   @ \cup {[id |-> j.id, path |-> j.path, hash |-> j.text, text |-> c] :
                           c \in {blob[j.id]} \ {None}}]
    /\ UNCHANGED <<storeVars, disk, queue, scanned, watched, ghostVars>>

\* replaceProjectFiles: the workspace is emptied, and filled file by file.
Clear ==
    /\ task[Live].op = "hydrate" /\ task[Live].at = "reading" /\ todo = {}
    /\ disk' = [p \in Path |-> None]
    /\ todo' = {[op |-> "put", id |-> r.id, path |-> r.path, text |-> r.text] :
                r \in task[Live].files}
    /\ task' = [task EXCEPT ![Live] = [NoTask EXCEPT !.op = "hydrate", !.at = "jobs"]]
    /\ UNCHANGED <<storeVars, queue, scanned, watched, ghostVars>>

Put(j) ==
    /\ task[Live].at = "jobs" /\ j \in todo /\ j.op = "put"
    /\ disk' = [disk EXCEPT ![j.path] = j.text]
    /\ todo' = todo \ {j}
    /\ UNCHANGED <<storeVars, task, queue, scanned, watched, ghostVars>>

Hydrated ==
    /\ task[Live].op = "hydrate" /\ task[Live].at = "jobs" /\ todo = {}
    /\ watched' = TRUE
    /\ task' = [task EXCEPT ![Live] = NoTask]
    /\ UNCHANGED <<storeVars, disk, queue, todo, scanned, ghostVars>>

\* A workspace file whose path has no row, and a row whose path has no file,
\* of the same hash are one file that was renamed.  Which, where several have
\* the hash, is left open: the code goes by the order of the listings.
Renames(missing, extra, ws) ==
    LET same == {a \in missing \X extra : a[1].hash = ws[a[2]]}
        OneToOne(m) == \A a, b \in m : (a[1] = b[1]) <=> (a[2] = b[2])
    IN  {m \in SUBSET same : OneToOne(m) /\ \A a \in same \ m : ~OneToOne(m \cup {a})}

\* Fault: a row whose file was renamed is removed as well.
FaultyJobs(db, ws, renames, missing, extra) ==
    {[op |-> "content", id |-> r.id, path |-> NoPath, text |-> ws[r.path]] :
        r \in {q \in db : ws[q.path] \notin {None, q.hash}}}
    \cup {[op |-> "path", id |-> a[1].id, path |-> a[2], text |-> None] : a \in renames}
    \cup {[op |-> "create", id |-> 0, path |-> p, text |-> ws[p]] :
             p \in {q \in extra : \A a \in renames : a[2] # q}}
    \cup {[op |-> "remove", id |-> r.id, path |-> NoPath, text |-> None] : r \in missing}

\* What is to be done so that the rows are as the workspace.
Jobs(db, ws, renames, missing, extra) ==
    {[op |-> "content", id |-> r.id, path |-> NoPath, text |-> ws[r.path]] :
        r \in {q \in db : ws[q.path] \notin {None, q.hash}}}
    \cup {[op |-> "path", id |-> a[1].id, path |-> a[2], text |-> None] : a \in renames}
    \cup {[op |-> "create", id |-> 0, path |-> p, text |-> ws[p]] :
             p \in {q \in extra : \A a \in renames : a[2] # q}}
    \cup {[op |-> "remove", id |-> r.id, path |-> NoPath, text |-> None] :
             r \in {q \in missing : \A a \in renames : a[1] # q}}

\* listTextFiles, and the plan made of the two listings.
Scan ==
    LET db == task[Live].files
        ws == [p \in Path |-> IF p[1] \in Excluded THEN None ELSE disk[p]]
        missing == {r \in db : ws[r.path] = None}
        extra == {p \in Path : ws[p] # None /\ \A r \in db : r.path # p}
    IN  /\ task[Live].op = "reconcile" /\ task[Live].at = "reading" /\ todo = {}
        /\ scanned' = ws
        /\ \E renames \in Renames(missing, extra, ws) :
              todo' = Jobs(db, ws, renames, missing, extra)
        /\ task' = [task EXCEPT ![Live] = [NoTask EXCEPT !.op = "reconcile", !.at = "jobs"]]
        /\ UNCHANGED <<storeVars, disk, queue, watched, ghostVars>>

Phase(op) == CASE op = "content" -> 1 [] op = "path" -> 2 [] op = "create" -> 3 [] OTHER -> 4

StartJob(j) ==
    /\ task[Live].op = "reconcile" /\ task[Live].at = "jobs" /\ j \in todo
    /\ \A k \in todo : Phase(j.op) <= Phase(k.op)
    /\ todo' = todo \ {j}
    /\ task' = [task EXCEPT ![Live] =
                   [NoTask EXCEPT !.op = j.op, !.id = j.id, !.path = j.path, !.text = j.text,
                                  !.at = CASE j.op = "create" -> "blob"
                                           [] j.op = "remove" -> "findRemove"
                                           [] OTHER -> "find"]]
    /\ UNCHANGED <<storeVars, disk, queue, scanned, watched, ghostVars>>

Reconcile ==
    /\ task[Live].op = "reconcile" /\ task[Live].at = "jobs" /\ todo = {}
    /\ Goto(Live, "reconciled")
    /\ UNCHANGED <<storeVars, disk, queue, todo, scanned, watched, ghostVars>>

Rest ==
    /\ task[Live].at = "reconciled"
    /\ task' = [task EXCEPT ![Live] = NoTask]
    /\ scanned' = [p \in Path |-> None]
    /\ UNCHANGED <<storeVars, disk, queue, todo, watched, ghostVars>>

-----------------------------------------------------------------------------
(* The users of terminals, failing calls, and the end of the process.      *)

Touch(ps) == created' = {f \in created : row[f].path \notin ps}

Edited ==
    /\ watched /\ edits < MaxEdit
    /\ edits' = edits + 1
    /\ UNCHANGED <<storeVars, task, queue, todo, scanned, watched, requests, failed, raced>>

Save(p, c) ==
    /\ Edited /\ disk[p] # c
    /\ disk' = [disk EXCEPT ![p] = c]
    /\ Touch({p})

Move(p, q) ==
    /\ Edited /\ disk[p] # None /\ p # q
    /\ disk' = [disk EXCEPT ![q] = disk[p], ![p] = None]
    /\ Touch({p, q})

\* What the catch blocks do.  getById, awaited by none, is not caught.
Caught(t) ==
    CASE task[t].at = "insert" -> [task[t] EXCEPT !.at = "unblob"]
      [] \/ task[t].at = "update"
         \/ task[t].at = "refresh" /\ (t = Live \/ task[t].undo) -> [task[t] EXCEPT !.at = "restore"]
      [] task[t].at = "write" /\ task[t].op = "create" ->
            [task[t] EXCEPT !.at = "findRemove", !.undo = TRUE]
      [] task[t].at \in {"write", "erase"} /\ task[t].op = "patch" ->
            [task[t] EXCEPT !.at = "find", !.undo = TRUE, !.path = task[t].prev.path,
                            !.text = task[t].prev.text]
      [] OTHER -> NoTask

\* Bound: one call fails, or the process ends once.
CallFails(t) ==
    /\ "failure" \in Environment /\ ~failed
    /\ Busy(t) /\ task[t].at # "reconciled"
    /\ t \in {queue[i] : i \in 1..Len(queue)} => Holds(t)
    /\ task' = [task EXCEPT ![t] = Caught(t)]
    /\ IF Caught(t) = NoTask
         THEN /\ queue' = IF queue # <<>> /\ Head(queue) = t THEN Tail(queue) ELSE queue
              /\ todo' = IF t = Live THEN {} ELSE todo
         ELSE UNCHANGED <<queue, todo>>
    /\ failed' = TRUE
    /\ raced' = (\/ raced \/ task[t].at = "restore"
                 \/ task[t].at = "refresh" /\ (t = Live \/ task[t].undo))
    /\ UNCHANGED <<storeVars, disk, scanned, watched, created, requests, edits>>

Crash ==
    /\ "crash" \in Environment /\ ~failed
    /\ task' = [t \in Task |-> NoTask] /\ queue' = <<>> /\ todo' = {}
    /\ scanned' = [p \in Path |-> None] /\ watched' = FALSE
    /\ failed' = TRUE /\ raced' = TRUE
    /\ UNCHANGED <<storeVars, disk, created, requests, edits>>

-----------------------------------------------------------------------------
OperationStep(t) ==
    \/ WriteBlob(t) \/ Insert(t) \/ RemoveBlob(t)
    \/ Find(t) \/ Read(t) \/ Store(t) \/ Update(t) \/ Restore(t) \/ Refresh(t) \/ Reread(t)
    \/ FindToRemove(t) \/ ReadToRemove(t) \/ Delete(t) \/ Unlink(t)

RequestStep(h) ==
    \/ Lookup(h) \/ LookupText(h) \/ Write(h) \/ Erase(h) \/ Rewrite(h)
    \/ RenameRows(h) \/ RenameConflicts(h) \/ DeleteRows(h) \/ UnlinkAll(h)

LiveStep ==
    \/ \E j \in todo : ReadListed(j) \/ Put(j) \/ StartJob(j)
    \/ Clear \/ Hydrated \/ Scan \/ Reconcile \/ Rest

Begins(h) ==
    \/ \E p \in Path, c \in Content : RequestCreate(h, p, c)
    \/ \E f \in 1..made, p \in Path \cup {NoPath}, c \in Content \cup {None} :
          RequestPatch(h, f, p, c)
    \/ \E f \in 1..made : RequestDelete(h, f)
    \/ \E d, e \in Folder : RequestRenameFolder(h, d, e)
    \/ \E d \in Folder : RequestDeleteFolder(h, d)

Next ==
    \/ \E t \in Task : OperationStep(t) \/ CallFails(t)
    \/ \E h \in Handler : Begins(h) \/ RequestStep(h)
    \/ List("hydrate") \/ List("reconcile") \/ LiveStep
    \/ \E p \in Path, c \in Content \cup {None} : Save(p, c)
    \/ \E p, q \in Path : Move(p, q)
    \/ Crash

Spec == Init /\ [][Next]_vars

-----------------------------------------------------------------------------
Row == [path : Path, hash : Content]
Listing == [id : File, path : Path, hash : Content, text : Content \cup {None}]
Job == [op : {"read", "put", "content", "path", "create", "remove"}, id : File \cup {0},
        path : Path \cup {NoPath}, text : Content \cup {None}]
Text == [path : Path \cup {NoPath}, text : Content \cup {None}]
Stage ==
    {"idle", "blob", "insert", "unblob", "find", "read", "store", "update", "restore",
     "refresh", "reread", "findRemove", "readRemove", "delete", "unlink", "lookup",
     "lookupText", "write", "erase", "rewrite", "transaction", "unlinkAll", "reading",
     "jobs", "reconciled"}
Operation == Kind \cup {"none", "hydrate", "reconcile", "content", "path", "create", "remove"}
TaskState ==
    [op : Operation, at : Stage, id : File \cup {0}, path : Path \cup {NoPath},
     text : Content \cup {None}, prev : Text, cur : Text, undo : BOOLEAN,
     files : SUBSET Listing]

TypeOK ==
    /\ row \in [File -> Row \cup {NoRow}] /\ blob \in [File -> Content \cup {None}]
    /\ made \in 0..MaxFile
    /\ {disk, scanned} \subseteq [Path -> Content \cup {None}]
    /\ task \in [Task -> TaskState]
    /\ queue \in Seq(Handler) /\ todo \subseteq Job
    /\ created \subseteq File /\ requests \in 0..MaxRequest /\ edits \in 0..MaxEdit
    /\ {watched, failed, raced} \subseteq BOOLEAN

\* At every moment, whatever the interleaving of requests and Live, and after
\* failures and crashes, what the database lists can be read: the blob is
\* written before the row is inserted and removed after it was deleted.
BlobForRow == \A f \in Stored : blob[f] # None

InUpdate(f) ==
    \E t \in Task : task[t].id = f /\ task[t].at \in {"update", "restore"}

\* The hash by which the reconciliation tells whether a file changed is that of
\* the stored content, except while it is written: a failed update takes back
\* the content it wrote.
HashTracksBlob ==
    ~raced => \A f \in Stored : InUpdate(f) \/ row[f].hash = blob[f]

\* A reconciliation no request overlaps ends with the files the workspace was
\* listed with, though it matches, renames, creates and removes one by one.
Reconciled ==
    task[Live].at = "reconciled" /\ ~raced =>
        /\ \A f \in Stored : row[f].hash = scanned[row[f].path] /\ blob[f] = row[f].hash
        /\ \A p \in Path : scanned[p] # None => \E f \in Stored : row[f].path = p

\* A file whose creation was answered is there until a request, or somebody in
\* a terminal, changes or removes it.
CreatedKept == created \subseteq Stored

\* What is excluded from the listing is left alone: with nothing overlapping and
\* nothing failing, a file that a request made in an excluded folder stays.
ExcludedKept == ~raced /\ ~failed => created \subseteq Stored
=================================================================================
