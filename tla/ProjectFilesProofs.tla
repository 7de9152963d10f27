-------------------------- MODULE ProjectFilesProofs --------------------------
(***************************************************************************)
(* Proofs about ProjectFiles: its variables keep their types, and every    *)
(* row has its blob, however requests, the terminals' side, failures and   *)
(* crashes interleave.  Where Live and the requests did not overlap, the   *)
(* hash in a row is that of the blob, and a reconciliation ends with the   *)
(* rows as the workspace was.                                              *)
(***************************************************************************)
EXTENDS ProjectFiles, TLAPS

\* Stages at which a task has a file, and those the two sides share.
WithFile ==
    {"insert", "unblob", "find", "read", "store", "update", "restore", "refresh", "reread",
     "findRemove", "readRemove", "delete", "unlink", "lookup", "lookupText", "write",
     "erase", "rewrite"}
Operating ==
    {"blob", "insert", "unblob", "find", "read", "store", "update", "restore", "refresh",
     "reread", "findRemove", "readRemove", "delete", "unlink"}

\* Stages whose task knows an id that has no row, or is to lose it.
Placing == {"insert", "unblob", "unlink", "transaction", "unlinkAll"}

\* What a task that is so far has read.
Formed(k) ==
    /\ k.at \in WithFile => k.id \in File
    /\ k.at \in {"blob", "insert"} => k.path \in Path /\ k.text \in Content
    /\ k.at \in {"read", "store", "update", "restore", "refresh"} => k.cur.path \in Path
    /\ k.at \in {"store", "update", "restore", "refresh"} => k.cur.text \in Content

FormedTask == {k \in TaskState : Formed(k)}

StoreOK ==
    /\ row \in [File -> Row \cup {NoRow}] /\ blob \in [File -> Content \cup {None}]
    /\ made \in 0..MaxFile
    /\ \A f \in File : row[f] # NoRow => f <= made /\ blob[f] # None

\* An id that is to be inserted has its blob and no row yet; one whose blob is
\* to be removed has no row any more; ids are known only when they were given.
Placed(k) ==
    /\ k.at \in {"insert", "unblob", "unlink"} => k.id <= made /\ row[k.id] = NoRow
    /\ k.at = "insert" => blob[k.id] # None
    /\ k.at \in {"transaction", "unlinkAll"} => \A r \in k.files : r.id <= made
    /\ k.at = "unlinkAll" => \A r \in k.files : row[r.id] = NoRow

\* Nobody else knows the id of a file that is to be inserted.
Apart(k, l) ==
    k.at = "insert" =>
        /\ l.at \in {"insert", "unblob", "unlink"} => k.id # l.id
        /\ l.at \in {"transaction", "unlinkAll"} => \A r \in l.files : k.id # r.id

TasksOK == task \in [Task -> FormedTask]
PlacesOK ==
    /\ \A t \in Task : Placed(task[t])
    /\ \A t, u \in Task : t # u => Apart(task[t], task[u])

\* What Live has still to do, at each of its stages.
Reads == {j \in Job : j.op = "read" /\ j.id \in File /\ j.path \in Path /\ j.text \in Content}
Puts == {j \in Job : j.op = "put"}
Changes ==
    {j \in Job : /\ j.op \in {"content", "path", "create", "remove"}
                 /\ j.op # "create" => j.id \in File
                 /\ j.op = "create" => j.path \in Path /\ j.text \in Content}
JobsAt(k) ==
    IF k.at = "reading" THEN Reads
    ELSE IF k.at = "jobs" /\ k.op = "hydrate" THEN Puts ELSE Changes
TodoOK == todo \subseteq JobsAt(task[Live])

RestOK ==
    /\ disk \in [Path -> Content \cup {None}] /\ scanned \in [Path -> Content \cup {None}]
    /\ queue \in Seq(Handler) /\ created \subseteq File
    /\ requests \in 0..MaxRequest /\ edits \in 0..MaxEdit
FlagsOK == watched \in BOOLEAN /\ failed \in BOOLEAN /\ raced \in BOOLEAN

Core == StoreOK /\ TasksOK /\ PlacesOK /\ TodoOK
Inv == Core /\ RestOK

-----------------------------------------------------------------------------
(* Tasks                                                                   *)

\* A task that only gets on has what it had.
LEMMA Moved ==
    ASSUME NEW k \in TaskState, NEW x \in Stage, NEW new, new = [k EXCEPT !.at = x]
    PROVE  /\ new \in TaskState /\ new.at = x
           /\ new.op = k.op /\ new.id = k.id /\ new.path = k.path /\ new.text = k.text
           /\ new.prev = k.prev /\ new.cur = k.cur /\ new.undo = k.undo
           /\ new.files = k.files
BY DEF TaskState

LEMMA NoTaskFormed ==
    /\ NoTask \in FormedTask /\ NoTask.at = "idle" /\ NoTask.op = "none"
    /\ [NoTask EXCEPT !.op = "reconcile", !.at = "jobs"] \in FormedTask
    /\ [NoTask EXCEPT !.op = "reconcile", !.at = "jobs"].at = "jobs"
    /\ [NoTask EXCEPT !.op = "reconcile", !.at = "jobs"].op = "reconcile"
<1>1. NoText \in Text /\ NoPath \in Path \cup {NoPath} /\ {} \in SUBSET Listing
    BY DEF NoText, Text
<1>2. NoTask \in TaskState
    BY <1>1 DEF NoTask, TaskState, Stage, Operation
<1>3. [NoTask EXCEPT !.op = "reconcile", !.at = "jobs"] \in TaskState
    BY <1>2 DEF NoTask, TaskState, Stage, Operation
<1> QED
    BY <1>2, <1>3 DEF NoTask, FormedTask, Formed, WithFile

-----------------------------------------------------------------------------
(* Steps by which the store gains and loses nothing                        *)

\* A step of one task that leaves the same rows and at least the same blobs, and
\* after which the task is not about to insert or to remove.
LEMMA StoreKept ==
    ASSUME StoreOK, TasksOK, PlacesOK, NEW t \in Task, NEW new \in FormedTask,
           task' = [task EXCEPT ![t] = new], new.at \notin Placing,
           row' \in [File -> Row \cup {NoRow}], blob' \in [File -> Content \cup {None}],
           UNCHANGED made,
           \A f \in File : /\ row'[f] = NoRow <=> row[f] = NoRow
                           /\ blob[f] # None => blob'[f] # None
    PROVE  StoreOK' /\ TasksOK' /\ PlacesOK'
<1>1. StoreOK'
    BY DEF StoreOK
<1>2. TasksOK'
    BY DEF TasksOK
<1>3. \A u \in Task : u # t => task'[u] = task[u] /\ task[u] \in FormedTask
    BY DEF TasksOK
<1>4. task'[t] = new
    BY DEF TasksOK
<1>5. ASSUME NEW u \in Task PROVE Placed(task[u])'
  <2>1. CASE u = t
    BY <2>1, <1>4 DEF Placed, Placing
  <2>2. CASE u # t
    <3>1. task'[u] = task[u] /\ Placed(task[u]) /\ Formed(task[u]) /\ task[u] \in TaskState
      BY <2>2, <1>3 DEF PlacesOK, FormedTask
    <3>2. \A r \in task[u].files : r.id \in File
      BY <3>1 DEF TaskState, Listing
    <3> QED
      BY <3>1, <3>2 DEF Placed, Formed, WithFile
  <2> QED
    BY <2>1, <2>2
<1>6. ASSUME NEW u \in Task, NEW v \in Task, u # v PROVE Apart(task[u], task[v])'
    BY <1>3, <1>4, <1>6 DEF PlacesOK, Apart, Placing
<1> QED
    BY <1>1, <1>2, <1>5, <1>6 DEF PlacesOK

LEMMA StoreSame ==
    ASSUME StoreOK, TasksOK, PlacesOK, NEW t \in Task, NEW new \in FormedTask,
           task' = [task EXCEPT ![t] = new], new.at \notin Placing, UNCHANGED storeVars
    PROVE  StoreOK' /\ TasksOK' /\ PlacesOK'
<1>1. UNCHANGED <<row, blob, made>>
    BY DEF storeVars
<1> QED
    BY <1>1, StoreKept DEF StoreOK

\* What Live has to do concerns Live alone, and while it operates on files it is
\* at the changes.
LEMMA TodoKept ==
    ASSUME TasksOK, TodoOK, NEW t \in Task, NEW new \in FormedTask,
           task' = [task EXCEPT ![t] = new],
           t = Live => /\ task[t].at \in Operating \cup {"jobs"}
                       /\ task[t].at = "jobs" => task[t].op # "hydrate"
                       /\ new.at # "reading" /\ (new.at = "jobs" => new.op # "hydrate"),
           todo' \subseteq todo
    PROVE  TodoOK'
<1>1. Live \in Task
    BY DEF Task
<1>2. CASE t = Live
  <2>1. task'[Live] = new
    BY <1>1, <1>2 DEF TasksOK
  <2> QED
    BY <1>2, <2>1 DEF TodoOK, JobsAt, Operating
<1>3. CASE t # Live
  <2>1. task'[Live] = task[Live]
    BY <1>1, <1>3 DEF TasksOK
  <2> QED
    BY <2>1 DEF TodoOK
<1> QED
    BY <1>2, <1>3

-----------------------------------------------------------------------------
(* How a step leaves its task                                              *)

LEMMA Goes ==
    ASSUME TasksOK, NEW t \in Task, NEW x \in Stage, Goto(t, x)
    PROVE  \E new \in TaskState :
              /\ task' = [task EXCEPT ![t] = new] /\ new.at = x
              /\ new.op = task[t].op /\ new.id = task[t].id /\ new.path = task[t].path
              /\ new.text = task[t].text /\ new.cur = task[t].cur
              /\ new.prev = task[t].prev /\ new.files = task[t].files
<1> DEFINE new == [task[t] EXCEPT !.at = x]
<1>1. task[t] \in TaskState
    BY DEF TasksOK, FormedTask
<1>2. task' = [task EXCEPT ![t] = new]
    BY DEF Goto
<1>3. /\ new \in TaskState /\ new.at = x
      /\ new.op = task[t].op /\ new.id = task[t].id /\ new.path = task[t].path
      /\ new.text = task[t].text /\ new.cur = task[t].cur
      /\ new.prev = task[t].prev /\ new.files = task[t].files
    BY <1>1, Moved
<1> QED
    BY <1>2, <1>3

\* An operation, or a request, that is over.
LEMMA Ends ==
    ASSUME TasksOK, TodoOK, NEW t \in Task, t = Live => task[t].at \in Operating,
           Fails(t) \/ (Done(t) /\ todo' \subseteq todo)
    PROVE  /\ TodoOK'
           /\ \E new \in FormedTask : /\ new.at \in {"idle", "jobs"}
                                      /\ task' = [task EXCEPT ![t] = new]
<1>1. CASE Done(t) /\ todo' \subseteq todo
  <2> DEFINE new == IF t = Live THEN [NoTask EXCEPT !.op = "reconcile", !.at = "jobs"]
                                ELSE NoTask
  <2>1. task' = [task EXCEPT ![t] = new]
    BY <1>1 DEF Done
  <2>2. /\ new \in FormedTask /\ new.at \in {"idle", "jobs"}
        /\ t = Live => new.op = "reconcile"
    BY NoTaskFormed
  <2> HIDE DEF new
  <2>3. TodoOK'
    BY <1>1, <2>1, <2>2, TodoKept DEF Operating
  <2> QED
    BY <2>1, <2>2, <2>3
<1>2. CASE Fails(t)
  <2>1. task' = [task EXCEPT ![t] = NoTask] /\ todo' \subseteq todo
    BY <1>2 DEF Fails
  <2>2. TodoOK'
    BY <2>1, NoTaskFormed, TodoKept DEF Operating
  <2> QED
    BY <2>1, <2>2, NoTaskFormed
<1> QED
    BY <1>1, <1>2

\* A file that was to be renamed and is gone is one to be removed.
LEMMA EndsAsNull ==
    ASSUME TasksOK, TodoOK, NEW t \in Task, task[t].at \in {"find", "update", "refresh"},
           UpdateIsNull(t)
    PROVE  /\ TodoOK'
           /\ \E new \in FormedTask : /\ new.at \in {"idle", "jobs"}
                                      /\ task' = [task EXCEPT ![t] = new]
<1> DEFINE job == [op |-> "remove", id |-> task[t].id, path |-> NoPath, text |-> None]
<1>1. task[t].at \in Operating
    BY DEF Operating
<1>2. CASE Fails(t) \/ (Done(t) /\ todo' = todo)
    BY <1>1, <1>2, Ends
<1>3. CASE Done(t) /\ t = Live /\ todo' = todo \cup {job}
  <2> DEFINE new == [NoTask EXCEPT !.op = "reconcile", !.at = "jobs"]
  <2>1. task' = [task EXCEPT ![t] = new] /\ new \in FormedTask /\ new.at = "jobs"
        /\ new.op = "reconcile"
    BY <1>3, NoTaskFormed DEF Done
  <2> HIDE DEF new
  <2>2. task'[Live] = new
    BY <1>3, <2>1 DEF TasksOK
  <2>3. job \in Changes
    BY DEF TasksOK, FormedTask, Formed, WithFile, Changes, Job
  <2>4. TodoOK'
    BY <1>3, <2>1, <2>2, <2>3 DEF TodoOK, JobsAt
  <2> QED
    BY <2>1, <2>4
<1>4. \/ Fails(t)
      \/ Done(t) /\ todo' = todo
      \/ Done(t) /\ t = Live /\ todo' = todo \cup {job}
  <2>1. CASE task[t].undo
    BY <2>1 DEF UpdateIsNull
  <2>2. CASE ~task[t].undo
    BY <2>2 DEF UpdateIsNull
  <2> QED
    BY <2>1, <2>2
<1> QED
    BY <1>2, <1>3, <1>4

\* A step with nothing but that changes nothing of the store.
LEMMA Passes ==
    ASSUME Core, NEW t \in Task, UNCHANGED storeVars, TodoOK',
           \E new \in FormedTask :
              new.at \notin Placing /\ task' = [task EXCEPT ![t] = new]
    PROVE  Core'
BY StoreSame DEF Core

LEMMA Over ==
    ASSUME Core, NEW t \in Task, t = Live => task[t].at \in Operating, UNCHANGED storeVars,
           Fails(t) \/ (Done(t) /\ todo' \subseteq todo)
    PROVE  Core'
<1>1. TodoOK' /\ \E new \in FormedTask : /\ new.at \in {"idle", "jobs"}
                                         /\ task' = [task EXCEPT ![t] = new]
    BY Ends DEF Core
<1> QED
    BY <1>1, Passes DEF Placing

LEMMA OverAsNull ==
    ASSUME Core, NEW t \in Task, task[t].at \in {"find", "update", "refresh"},
           UNCHANGED storeVars, UpdateIsNull(t)
    PROVE  Core'
<1>1. TodoOK' /\ \E new \in FormedTask : /\ new.at \in {"idle", "jobs"}
                                         /\ task' = [task EXCEPT ![t] = new]
    BY EndsAsNull DEF Core
<1> QED
    BY <1>1, Passes DEF Placing

\* An operation goes on to a stage that asks no more of it than the last one.
LEMMA OnTo ==
    ASSUME Core, NEW t \in Task, task[t].at \in Operating \/ t # Live,
           NEW x \in Stage \ (Placing \cup {"reading", "jobs"}), Goto(t, x),
           UNCHANGED storeVars, todo' \subseteq todo,
           x \in WithFile => task[t].at \in WithFile,
           x \in {"read", "store", "update", "restore", "refresh"} => task[t].cur.path \in Path,
           x \in {"store", "update", "restore", "refresh"} => task[t].cur.text \in Content,
           x # "blob"
    PROVE  Core'
<1>1. TasksOK /\ task[t] \in FormedTask
    BY DEF Core, TasksOK
<1>2. PICK new \in TaskState :
         /\ task' = [task EXCEPT ![t] = new] /\ new.at = x
         /\ new.id = task[t].id /\ new.cur = task[t].cur
    BY <1>1, Goes
<1>3. new \in FormedTask
    BY <1>1, <1>2 DEF FormedTask, Formed, Placing
<1>4. TodoOK'
    BY <1>1, <1>2, <1>3, TodoKept DEF Core, Operating
<1> QED
    BY <1>2, <1>3, <1>4, Passes

-----------------------------------------------------------------------------
(* createFileInternal                                                      *)

\* The id is new: no row has it, and nobody else knows it.
LEMMA WriteBlobStep ==
    ASSUME Core, NEW t \in Task, WriteBlob(t)
    PROVE  Core'
<1> USE DEF Core
<1>1. task[t].at = "blob" /\ task[t] \in FormedTask /\ UNCHANGED row
    BY DEF WriteBlob, At, TasksOK
<1>2. CASE made = MaxFile
    BY <1>1, <1>2, Over DEF WriteBlob, Operating, storeVars
<1>3. CASE made # MaxFile
  <2> DEFINE new == [task[t] EXCEPT !.id = made + 1, !.at = "insert"]
  <2>1. /\ made' = made + 1 /\ blob' = [blob EXCEPT ![made + 1] = task[t].text]
        /\ task' = [task EXCEPT ![t] = new] /\ UNCHANGED todo
    BY <1>3 DEF WriteBlob
  <2>2. made + 1 \in File /\ made \in Nat /\ made + 1 \in 0..MaxFile
    BY <1>3, ProjectFilesAssumption DEF ProjectFilesAssumption, StoreOK, File
  <2>3. task[t] \in TaskState /\ task[t].text \in Content /\ task[t].path \in Path
    BY <1>1 DEF FormedTask, Formed
  <2>4. new \in TaskState /\ new.at = "insert" /\ new.id = made + 1
        /\ new.path = task[t].path /\ new.text = task[t].text
    BY <2>2, <2>3 DEF TaskState, Stage
  <2> HIDE DEF new
  <2>5. new \in FormedTask
    BY <2>2, <2>3, <2>4 DEF FormedTask, Formed
  <2>6. task'[t] = new /\ \A u \in Task : u # t => task'[u] = task[u]
    BY <2>1 DEF TasksOK
  <2>7. task[t].text # None
    BY <2>3, ProjectFilesAssumption DEF ProjectFilesAssumption
  <2>8. StoreOK'
    <3>1. row' \in [File -> Row \cup {NoRow}] /\ made' \in 0..MaxFile
      BY <1>1, <2>1, <2>2 DEF StoreOK
    <3>2. blob' \in [File -> Content \cup {None}]
      BY <2>1, <2>3 DEF StoreOK
    <3>3. ASSUME NEW f \in File, row'[f] # NoRow PROVE f <= made' /\ blob'[f] # None
      BY <1>1, <2>1, <2>2, <2>7, <3>3 DEF StoreOK, File
    <3> QED
      BY <3>1, <3>2, <3>3 DEF StoreOK
  <2>9. TasksOK'
    BY <2>1, <2>5 DEF TasksOK
  <2>10. row[made + 1] = NoRow
    BY <2>2 DEF StoreOK
  <2>11. \A u \in Task : /\ task[u].at \in WithFile => task[u].id \in File
                         /\ \A r \in task[u].files : r.id \in File
    BY DEF TasksOK, FormedTask, Formed, TaskState, Listing
  <2>12. ASSUME NEW u \in Task PROVE Placed(task[u])'
    <3>1. CASE u = t
      BY <1>1, <2>1, <2>2, <2>4, <2>6, <2>7, <2>10, <3>1 DEF Placed, StoreOK
    <3>2. CASE u # t
      BY <1>1, <2>1, <2>2, <2>6, <2>7, <2>11, <3>2
      DEF Placed, PlacesOK, StoreOK, WithFile, File
    <3> QED
      BY <3>1, <3>2
  <2>13. ASSUME NEW u \in Task, NEW v \in Task, u # v PROVE Apart(task[u], task[v])'
    <3>1. Placed(task[u]) /\ Placed(task[v]) /\ Apart(task[u], task[v])
      BY <2>13 DEF PlacesOK
    <3> QED
      BY <2>2, <2>4, <2>6, <2>11, <2>13, <3>1 DEF Placed, Apart, WithFile, File
  <2>14. TodoOK'
    BY <1>1, <2>1, <2>4, <2>5, TodoKept DEF Operating
  <2> QED
    BY <2>8, <2>9, <2>12, <2>13, <2>14 DEF PlacesOK
<1> QED
    BY <1>2, <1>3

\* The ids that tasks know are ids of files.
LEMMA KnownIds ==
    ASSUME TasksOK, NEW u \in Task
    PROVE  /\ task[u] \in FormedTask
           /\ task[u].at \in WithFile => task[u].id \in File
           /\ \A r \in task[u].files : r.id \in File
BY DEF TasksOK, FormedTask, Formed, TaskState, Listing

\* What was not inserted has a blob that is to be removed.
LEMMA GivesUp ==
    ASSUME Core, NEW t \in Task, task[t].at = "insert", Goto(t, "unblob"),
           UNCHANGED <<storeVars, todo>>
    PROVE  Core'
<1> USE DEF Core
<1>1. task[t] \in FormedTask /\ task[t].id \in File /\ UNCHANGED <<row, blob, made, todo>>
    BY KnownIds DEF WithFile, storeVars
<1>2. PICK new \in TaskState : /\ task' = [task EXCEPT ![t] = new] /\ new.at = "unblob"
                               /\ new.id = task[t].id
    BY Goes DEF Stage
<1>3. new \in FormedTask
    BY <1>1, <1>2 DEF FormedTask, Formed, WithFile
<1>4. task'[t] = new /\ (\A u \in Task : u # t => task'[u] = task[u]) /\ TasksOK'
    BY <1>2, <1>3 DEF TasksOK
<1>5. ASSUME NEW u \in Task PROVE Placed(task[u])'
    BY <1>1, <1>2, <1>4 DEF PlacesOK, Placed
<1>6. ASSUME NEW u \in Task, NEW v \in Task, u # v PROVE Apart(task[u], task[v])'
    BY <1>2, <1>4, <1>6 DEF PlacesOK, Apart
<1>7. StoreOK' /\ TodoOK'
    BY <1>1, <1>2, <1>3, TodoKept DEF StoreOK, Operating
<1> QED
    BY <1>4, <1>5, <1>6, <1>7 DEF PlacesOK

\* The row gets a blob that is there; nobody else was to insert or remove it.
LEMMA InsertStep ==
    ASSUME Core, NEW t \in Task, Insert(t)
    PROVE  Core'
<1> USE DEF Core
<1>1. /\ task[t].at = "insert" /\ task[t] \in FormedTask /\ UNCHANGED <<blob, made, todo>>
      /\ task[t].id \in File /\ task[t].path \in Path /\ task[t].text \in Content
    BY KnownIds DEF Insert, At, WithFile, FormedTask, Formed
<1>2. CASE Taken(task[t].path, task[t].id)
  <2>1. Goto(t, "unblob") /\ UNCHANGED row
    BY <1>2 DEF Insert
  <2> QED
    BY <1>1, <2>1, GivesUp DEF storeVars
<1>3. CASE ~Taken(task[t].path, task[t].id)
  <2>1. row' = [row EXCEPT ![task[t].id] = [path |-> task[t].path, hash |-> task[t].text]]
    BY <1>3 DEF Insert
  <2>2. TodoOK' /\ \E new \in FormedTask : /\ new.at \in {"idle", "jobs", "write"}
                                           /\ task' = [task EXCEPT ![t] = new]
    <3>1. CASE Done(t)
      BY <1>1, <3>1, Ends DEF Operating
    <3>2. CASE t # Live /\ Goto(t, "write")
      <4>1. PICK new \in TaskState : /\ task' = [task EXCEPT ![t] = new] /\ new.at = "write"
                                     /\ new.id = task[t].id
        BY <3>2, Goes DEF Stage
      <4>2. new \in FormedTask
        BY <1>1, <4>1 DEF FormedTask, Formed, WithFile
      <4>3. TodoOK'
        BY <1>1, <3>2, <4>1, <4>2, TodoKept
      <4> QED
        BY <4>1, <4>2, <4>3
    <3>3. Done(t) \/ (t # Live /\ Goto(t, "write"))
      BY <1>3 DEF Insert
    <3> QED
      BY <3>1, <3>2, <3>3
  <2>3. PICK new \in FormedTask : /\ new.at \in {"idle", "jobs", "write"}
                                  /\ task' = [task EXCEPT ![t] = new]
    BY <2>2
  <2>4. task'[t] = new /\ (\A u \in Task : u # t => task'[u] = task[u]) /\ TasksOK'
    BY <2>3 DEF TasksOK
  <2>5. task[t].id <= made /\ blob[task[t].id] # None
    BY <1>1 DEF PlacesOK, Placed
  <2>6. [path |-> task[t].path, hash |-> task[t].text] \in Row
    BY <1>1 DEF Row
  <2>7. StoreOK'
    BY <1>1, <2>1, <2>5, <2>6 DEF StoreOK
  <2>8. ASSUME NEW u \in Task PROVE Placed(task[u])'
    <3>1. CASE u = t
      BY <2>3, <2>4, <3>1 DEF Placed
    <3>2. CASE u # t
      <4>1. Placed(task[u]) /\ Apart(task[t], task[u]) /\ task'[u] = task[u]
        BY <2>4, <3>2 DEF PlacesOK
      <4> QED
        BY <1>1, <2>1, <4>1, KnownIds DEF Placed, Apart, WithFile, StoreOK
    <3> QED
      BY <3>1, <3>2
  <2>9. ASSUME NEW u \in Task, NEW v \in Task, u # v PROVE Apart(task[u], task[v])'
    BY <2>3, <2>4, <2>9 DEF PlacesOK, Apart
  <2> QED
    BY <2>2, <2>4, <2>7, <2>8, <2>9 DEF PlacesOK
<1> QED
    BY <1>2, <1>3

\* A blob is removed that no row has, and that nobody is to insert.
LEMMA BlobRemoved ==
    ASSUME Core, NEW t \in Task, task[t].at \in {"unblob", "unlink"}, TodoOK',
           UNCHANGED <<row, made>>, blob' = [blob EXCEPT ![task[t].id] = None],
           \E new \in FormedTask :
              new.at \notin Placing /\ task' = [task EXCEPT ![t] = new]
    PROVE  Core'
<1> USE DEF Core
<1>1. PICK new \in FormedTask : new.at \notin Placing /\ task' = [task EXCEPT ![t] = new]
    OBVIOUS
<1>2. task'[t] = new /\ (\A u \in Task : u # t => task'[u] = task[u]) /\ TasksOK'
    BY <1>1 DEF TasksOK
<1>3. task[t].id \in File /\ row[task[t].id] = NoRow
    BY KnownIds DEF PlacesOK, Placed, WithFile
<1>4. StoreOK'
    BY <1>3 DEF StoreOK
<1>5. ASSUME NEW u \in Task PROVE Placed(task[u])'
  <2>1. CASE u = t
    BY <1>1, <1>2, <2>1 DEF Placed, Placing
  <2>2. CASE u # t
    <3>1. Placed(task[u]) /\ Apart(task[u], task[t]) /\ task'[u] = task[u]
      BY <1>2, <2>2 DEF PlacesOK
    <3> QED
      BY <1>3, <3>1, KnownIds DEF Placed, Apart, WithFile, StoreOK
  <2> QED
    BY <2>1, <2>2
<1>6. ASSUME NEW u \in Task, NEW v \in Task, u # v PROVE Apart(task[u], task[v])'
    BY <1>1, <1>2, <1>6 DEF PlacesOK, Apart, Placing
<1> QED
    BY <1>2, <1>4, <1>5, <1>6 DEF PlacesOK

LEMMA RemoveBlobStep ==
    ASSUME Core, NEW t \in Task, RemoveBlob(t)
    PROVE  Core'
<1>1. TodoOK' /\ \E new \in FormedTask : /\ new.at \in {"idle", "jobs"}
                                         /\ task' = [task EXCEPT ![t] = new]
    BY Ends DEF Core, RemoveBlob, At, Operating
<1> QED
    BY <1>1, BlobRemoved DEF RemoveBlob, At, Placing

-----------------------------------------------------------------------------
(* update and updateFromSync                                               *)

\* What is stored has a path and a hash.
LEMMA StoredRows ==
    ASSUME StoreOK, NEW f \in File, row[f] # NoRow
    PROVE  row[f].path \in Path /\ row[f].hash \in Content /\ blob[f] \in Content
BY DEF StoreOK, Row

LEMMA FindStep ==
    ASSUME Core, NEW t \in Task, Find(t)
    PROVE  Core'
<1> USE DEF Core
<1>1. task[t].at = "find" /\ task[t].id \in File /\ task[t] \in TaskState /\ UNCHANGED storeVars
    BY KnownIds DEF Find, At, WithFile, FormedTask
<1>2. CASE row[task[t].id] = NoRow
    BY <1>1, <1>2, OverAsNull DEF Find
<1>3. CASE row[task[t].id] # NoRow
  <2> DEFINE new == [task[t] EXCEPT !.cur.path = row[task[t].id].path, !.at = "read"]
  <2>1. task' = [task EXCEPT ![t] = new] /\ UNCHANGED todo
    BY <1>3 DEF Find
  <2>2. new \in TaskState /\ new.at = "read" /\ new.id = task[t].id /\ new.cur.path \in Path
    <3>1. row[task[t].id].path \in Path /\ "read" \in Stage
      BY <1>1, <1>3, StoredRows DEF Stage
    <3> QED
      BY <1>1, <3>1 DEF TaskState, Text
  <2> HIDE DEF new
  <2>3. new \in FormedTask
    BY <1>1, <2>2 DEF FormedTask, Formed
  <2>4. TodoOK'
    BY <1>1, <2>1, <2>2, <2>3, TodoKept DEF Operating
  <2> QED
    BY <1>1, <2>1, <2>2, <2>3, <2>4, Passes DEF Placing
<1> QED
    BY <1>2, <1>3

LEMMA ReadStep ==
    ASSUME Core, NEW t \in Task, Read(t)
    PROVE  Core'
<1> USE DEF Core
<1>1. /\ task[t].at = "read" /\ task[t].id \in File /\ task[t] \in TaskState
      /\ task[t].cur.path \in Path /\ UNCHANGED storeVars
    BY KnownIds DEF Read, At, WithFile, FormedTask, Formed
<1>2. CASE blob[task[t].id] = None
    BY <1>1, <1>2, Over DEF Read, Operating
<1>3. CASE blob[task[t].id] # None
  <2> DEFINE new == [task[t] EXCEPT !.cur.text = blob[task[t].id], !.at = "store"]
  <2>1. task' = [task EXCEPT ![t] = new] /\ UNCHANGED todo
    BY <1>3 DEF Read
  <2>2. blob[task[t].id] \in Content
    BY <1>1, <1>3 DEF StoreOK
  <2>3. /\ new \in TaskState /\ new.at = "store" /\ new.id = task[t].id
        /\ new.cur.path \in Path /\ new.cur.text \in Content
    <3>1. "store" \in Stage
      BY DEF Stage
    <3> QED
      BY <1>1, <2>2, <3>1 DEF TaskState, Text
  <2> HIDE DEF new
  <2>4. new \in FormedTask
    BY <1>1, <2>3 DEF FormedTask, Formed
  <2>5. TodoOK'
    BY <1>1, <2>1, <2>3, <2>4, TodoKept DEF Operating
  <2> QED
    BY <1>1, <2>1, <2>3, <2>4, <2>5, Passes DEF Placing
<1> QED
    BY <1>2, <1>3

\* What is written in the update is a path and a content.
LEMMA NextIs ==
    ASSUME TasksOK, NEW t \in Task, task[t].at \in {"store", "update"}
    PROVE  NextPath(t) \in Path /\ NextText(t) \in Content
BY DEF TasksOK, FormedTask, Formed, TaskState, NextPath, NextText

LEMMA StoreStep ==
    ASSUME Core, NEW t \in Task, Store(t)
    PROVE  Core'
<1> USE DEF Core
<1>1. /\ task[t].at = "store" /\ task[t].id \in File /\ task[t] \in FormedTask
      /\ UNCHANGED <<row, made, todo>> /\ blob' = [blob EXCEPT ![task[t].id] = NextText(t)]
    BY KnownIds DEF Store, At, WithFile
<1>2. PICK new \in TaskState : /\ task' = [task EXCEPT ![t] = new] /\ new.at = "update"
                               /\ new.id = task[t].id /\ new.cur = task[t].cur
    BY Goes DEF Store, Stage
<1>3. new \in FormedTask
    BY <1>1, <1>2 DEF FormedTask, Formed
<1>4. NextText(t) \in Content /\ NextText(t) # None
    BY <1>1, NextIs, ProjectFilesAssumption DEF ProjectFilesAssumption
<1>5. StoreOK' /\ TasksOK' /\ PlacesOK'
    BY <1>1, <1>2, <1>3, <1>4, StoreKept DEF StoreOK, Placing
<1>6. TodoOK'
    BY <1>1, <1>2, <1>3, TodoKept DEF Operating
<1> QED
    BY <1>5, <1>6

\* The row keeps being one.
LEMMA UpdateStep ==
    ASSUME Core, NEW t \in Task, Update(t)
    PROVE  Core'
<1> USE DEF Core
<1>1. /\ task[t].at = "update" /\ task[t].id \in File /\ task[t] \in FormedTask
      /\ UNCHANGED <<blob, made>>
      /\ task[t].cur.path \in Path /\ task[t].cur.text \in Content
    BY KnownIds DEF Update, At, WithFile, FormedTask, Formed
<1>2. CASE row[task[t].id] = NoRow
    BY <1>1, <1>2, OverAsNull DEF Update, storeVars
<1>3. CASE row[task[t].id] # NoRow /\ Taken(NextPath(t), task[t].id)
  <2>1. Goto(t, "restore") /\ UNCHANGED <<row, todo>>
    BY <1>3 DEF Update
  <2> QED
    BY <1>1, <2>1, OnTo DEF Operating, Placing, Stage, WithFile, storeVars
<1>4. CASE row[task[t].id] # NoRow /\ ~Taken(NextPath(t), task[t].id)
  <2>1. /\ Goto(t, "refresh") /\ UNCHANGED todo
        /\ row' = [row EXCEPT ![task[t].id] = [path |-> NextPath(t), hash |-> NextText(t)]]
    BY <1>4 DEF Update
  <2>2. PICK new \in TaskState : /\ task' = [task EXCEPT ![t] = new] /\ new.at = "refresh"
                                 /\ new.id = task[t].id /\ new.cur = task[t].cur
    BY <2>1, Goes DEF Stage
  <2>3. new \in FormedTask
    BY <1>1, <2>2 DEF FormedTask, Formed
  <2>4. [path |-> NextPath(t), hash |-> NextText(t)] \in Row
    BY <1>1, NextIs DEF Row
  <2>5. [path |-> NextPath(t), hash |-> NextText(t)] # NoRow
    BY <1>1, NextIs, ProjectFilesAssumption DEF ProjectFilesAssumption, NoRow
  <2>6. StoreOK' /\ TasksOK' /\ PlacesOK'
    BY <1>1, <1>4, <2>1, <2>2, <2>3, <2>4, <2>5, StoreKept DEF StoreOK, Placing
  <2>7. TodoOK'
    BY <1>1, <2>1, <2>2, <2>3, TodoKept DEF Operating
  <2> QED
    BY <2>6, <2>7
<1> QED
    BY <1>2, <1>3, <1>4

LEMMA RestoreStep ==
    ASSUME Core, NEW t \in Task, Restore(t)
    PROVE  Core'
<1> USE DEF Core
<1>1. /\ task[t].at = "restore" /\ task[t].id \in File /\ task[t].cur.text \in Content
      /\ UNCHANGED <<row, made>> /\ blob' = [blob EXCEPT ![task[t].id] = task[t].cur.text]
    BY KnownIds DEF Restore, At, WithFile, FormedTask, Formed
<1>2. TodoOK'
    BY <1>1, Ends DEF Restore, Operating
<1>3. PICK new \in FormedTask : /\ new.at \in {"idle", "jobs"}
                                /\ task' = [task EXCEPT ![t] = new]
    BY <1>1, Ends DEF Restore, Operating
<1>4. task[t].cur.text # None
    BY <1>1, ProjectFilesAssumption DEF ProjectFilesAssumption
<1>5. StoreOK' /\ TasksOK' /\ PlacesOK'
    BY <1>1, <1>3, <1>4, StoreKept DEF StoreOK, Placing
<1> QED
    BY <1>2, <1>5

LEMMA RefreshStep ==
    ASSUME Core, NEW t \in Task, Refresh(t)
    PROVE  Core'
<1> USE DEF Core
<1>1. task[t].at = "refresh" /\ task[t].id \in File /\ task[t] \in TaskState /\ UNCHANGED storeVars
    BY KnownIds DEF Refresh, At, WithFile, FormedTask
<1> DEFINE new == [task[t] EXCEPT !.cur.path = row[task[t].id].path, !.at = "reread"]
<1>2. CASE row[task[t].id] = NoRow
    BY <1>1, <1>2, OverAsNull DEF Refresh
<1>3. CASE row[task[t].id] # NoRow /\ (Fails(t) \/ (Done(t) /\ UNCHANGED todo))
    BY <1>1, <1>3, Over DEF Operating
<1>4. CASE /\ row[task[t].id] # NoRow
           /\ task' = [task EXCEPT ![t] = new] /\ UNCHANGED todo
  <2>1. new \in TaskState /\ new.at = "reread" /\ new.id = task[t].id
    <3>1. row[task[t].id].path \in Path /\ "reread" \in Stage
      BY <1>1, <1>4, StoredRows DEF Stage
    <3> QED
      BY <1>1, <3>1 DEF TaskState, Text
  <2> HIDE DEF new
  <2>2. new \in FormedTask
    BY <1>1, <2>1 DEF FormedTask, Formed
  <2>3. TodoOK'
    BY <1>1, <1>4, <2>1, <2>2, TodoKept DEF Operating
  <2> QED
    BY <1>1, <1>4, <2>1, <2>2, <2>3, Passes DEF Placing
<1>5. ASSUME row[task[t].id] # NoRow
      PROVE  \/ Fails(t)
             \/ Done(t) /\ UNCHANGED todo
             \/ task' = [task EXCEPT ![t] = new] /\ UNCHANGED todo
  <2>1. CASE task[t].undo
    BY <1>5, <2>1 DEF Refresh
  <2>2. CASE ~task[t].undo
    BY <1>5, <2>2 DEF Refresh
  <2> QED
    BY <2>1, <2>2
<1> QED
    BY <1>2, <1>3, <1>4, <1>5

LEMMA RereadStep ==
    ASSUME Core, NEW t \in Task, Reread(t)
    PROVE  Core'
<1> USE DEF Core
<1>1. /\ task[t].at = "reread" /\ task[t].id \in File /\ task[t] \in TaskState
      /\ UNCHANGED storeVars
    BY KnownIds DEF Reread, At, WithFile, FormedTask
<1>2. CASE blob[task[t].id] = None
    BY <1>1, <1>2, Over DEF Reread, Operating
<1>3. CASE blob[task[t].id] # None
  <2> DEFINE new == [task[t] EXCEPT !.cur.text = blob[task[t].id], !.at = "write"]
  <2>1. task' = [task EXCEPT ![t] = new] /\ UNCHANGED todo
    BY <1>3 DEF Reread
  <2>2. blob[task[t].id] \in Content
    BY <1>1, <1>3 DEF StoreOK
  <2>3. new \in TaskState /\ new.at = "write" /\ new.id = task[t].id
    <3>1. "write" \in Stage
      BY DEF Stage
    <3> QED
      BY <1>1, <2>2, <3>1 DEF TaskState, Text
  <2> HIDE DEF new
  <2>4. new \in FormedTask
    BY <1>1, <2>3 DEF FormedTask, Formed
  <2>5. TodoOK'
    BY <1>1, <2>1, <2>3, <2>4, TodoKept DEF Operating
  <2> QED
    BY <1>1, <2>1, <2>3, <2>4, <2>5, Passes DEF Placing
<1> QED
    BY <1>2, <1>3

-----------------------------------------------------------------------------
(* remove and removeFromSync                                               *)

LEMMA RemovedStep ==
    ASSUME Core, NEW t \in Task, NEW any \in BOOLEAN, Removed(t, any),
           task[t].at \in {"findRemove", "delete"}, UNCHANGED <<storeVars, todo>>
    PROVE  Core'
<1>1. CASE Done(t)
    BY <1>1, Over DEF Operating
<1>2. CASE Goto(t, "rewrite")
    BY <1>2, OnTo DEF Operating, Placing, Stage, WithFile
<1> QED
    BY <1>1, <1>2 DEF Removed

LEMMA FindToRemoveStep ==
    ASSUME Core, NEW t \in Task, FindToRemove(t)
    PROVE  Core'
<1>1. task[t].at = "findRemove" /\ UNCHANGED <<storeVars, todo>>
    BY DEF FindToRemove, At
<1>2. CASE Removed(t, FALSE)
    BY <1>1, <1>2, RemovedStep
<1>3. CASE Goto(t, "delete") \/ Goto(t, "readRemove")
    BY <1>1, <1>3, OnTo DEF Operating, Placing, Stage, WithFile
<1> QED
    BY <1>2, <1>3 DEF FindToRemove

LEMMA ReadToRemoveStep ==
    ASSUME Core, NEW t \in Task, ReadToRemove(t)
    PROVE  Core'
<1>1. task[t].at = "readRemove" /\ UNCHANGED storeVars
    BY DEF ReadToRemove, At
<1>2. CASE Fails(t)
    BY <1>1, <1>2, Over DEF Operating
<1>3. CASE Goto(t, "delete") /\ UNCHANGED todo
    BY <1>1, <1>3, OnTo DEF Operating, Placing, Stage, WithFile
<1> QED
    BY <1>2, <1>3 DEF ReadToRemove

\* The row goes first; a file that is to be inserted is another one.
LEMMA DeleteStep ==
    ASSUME Core, NEW t \in Task, Delete(t)
    PROVE  Core'
<1> USE DEF Core
<1>1. /\ task[t].at = "delete" /\ task[t].id \in File /\ task[t] \in FormedTask
      /\ UNCHANGED <<blob, made, todo>>
    BY KnownIds DEF Delete, At, WithFile
<1>2. CASE row[task[t].id] = NoRow
    BY <1>1, <1>2, RemovedStep DEF Delete, storeVars
<1>3. CASE row[task[t].id] # NoRow
  <2>1. row' = [row EXCEPT ![task[t].id] = NoRow] /\ Goto(t, "unlink")
    BY <1>3 DEF Delete
  <2>2. PICK new \in TaskState : /\ task' = [task EXCEPT ![t] = new] /\ new.at = "unlink"
                                 /\ new.id = task[t].id
    BY <2>1, Goes DEF Stage
  <2>3. new \in FormedTask
    BY <1>1, <2>2 DEF FormedTask, Formed, WithFile
  <2>4. task'[t] = new /\ (\A u \in Task : u # t => task'[u] = task[u]) /\ TasksOK'
    BY <2>2, <2>3 DEF TasksOK
  <2>5. StoreOK'
    BY <1>1, <2>1 DEF StoreOK
  <2>6. ASSUME NEW u \in Task PROVE Placed(task[u])'
    <3>1. CASE u = t
      BY <1>1, <1>3, <2>1, <2>2, <2>4, <3>1 DEF Placed, StoreOK
    <3>2. CASE u # t
      <4>1. Placed(task[u]) /\ task'[u] = task[u]
        BY <2>4, <3>2 DEF PlacesOK
      <4> QED
        BY <1>1, <2>1, <4>1, KnownIds DEF Placed, WithFile, StoreOK
    <3> QED
      BY <3>1, <3>2
  <2>7. ASSUME NEW u \in Task, NEW v \in Task, u # v PROVE Apart(task[u], task[v])'
    <3>1. Placed(task[u]) /\ Apart(task[u], task[v])
      BY <2>7 DEF PlacesOK
    <3> QED
      BY <1>3, <2>2, <2>4, <2>7, <3>1 DEF Placed, Apart
  <2>8. TodoOK'
    BY <1>1, <2>2, <2>3, TodoKept DEF Operating
  <2> QED
    BY <2>4, <2>5, <2>6, <2>7, <2>8 DEF PlacesOK
<1> QED
    BY <1>2, <1>3

LEMMA UnlinkStep ==
    ASSUME Core, NEW t \in Task, Unlink(t)
    PROVE  Core'
<1>1. Done(t) /\ task[t].at = "unlink" /\ UNCHANGED todo
    BY DEF Unlink, Removed, At
<1>2. TodoOK' /\ \E new \in FormedTask : /\ new.at \in {"idle", "jobs"}
                                         /\ task' = [task EXCEPT ![t] = new]
    BY <1>1, Ends DEF Core, Operating
<1> QED
    BY <1>1, <1>2, BlobRemoved DEF Unlink, Placing

LEMMA OperationSteps ==
    ASSUME Core, NEW t \in Task, OperationStep(t)
    PROVE  Core'
BY WriteBlobStep, InsertStep, RemoveBlobStep, FindStep, ReadStep, StoreStep, UpdateStep,
   RestoreStep, RefreshStep, RereadStep, FindToRemoveStep, ReadToRemoveStep, DeleteStep,
   UnlinkStep DEF OperationStep

-----------------------------------------------------------------------------
(* Requests                                                                *)

\* A handler's task leaves what Live has to do alone.
LEMMA HandlerTodo ==
    ASSUME TasksOK, TodoOK, NEW h \in Handler, NEW new \in FormedTask,
           task' = [task EXCEPT ![h] = new], UNCHANGED todo
    PROVE  TodoOK'
<1>1. h \in Task /\ h # Live
    BY ProjectFilesAssumption DEF ProjectFilesAssumption, Task
<1> QED
    BY <1>1, TodoKept

\* A request that is not about folders begins with nothing to place.
LEMMA BeginStep ==
    ASSUME Core, NEW h \in Handler, NEW new \in FormedTask, NEW folders \in BOOLEAN,
           new.at \notin Placing, Begin(h, new, folders)
    PROVE  Core'
<1>1. h \in Task /\ task' = [task EXCEPT ![h] = new] /\ UNCHANGED <<storeVars, todo>>
    BY DEF Begin, Task
<1>2. TodoOK'
    BY <1>1, HandlerTodo DEF Core
<1> QED
    BY <1>1, <1>2, Passes

LEMMA RequestSteps ==
    ASSUME Core, NEW h \in Handler,
           \/ \E p \in Path, c \in Content : RequestCreate(h, p, c)
           \/ \E f \in 1..made, p \in Path \cup {NoPath}, c \in Content \cup {None} :
                 RequestPatch(h, f, p, c)
           \/ \E f \in 1..made : RequestDelete(h, f)
    PROVE  Core'
<1>1. 1..made \subseteq File
    BY ProjectFilesAssumption DEF ProjectFilesAssumption, Core, StoreOK, File
<1>2. NoTask \in TaskState
    BY NoTaskFormed DEF FormedTask
<1>3. {"create", "patch", "delete"} \subseteq Operation /\ {"blob", "lookup"} \subseteq Stage
    BY DEF Operation, Kind, Stage
<1>4. ASSUME NEW p \in Path, NEW c \in Content, RequestCreate(h, p, c) PROVE Core'
  <2> DEFINE new == [NoTask EXCEPT !.op = "create", !.at = "blob", !.path = p, !.text = c]
  <2>1. new \in TaskState /\ new.at = "blob" /\ new.path = p /\ new.text = c
    BY <1>2, <1>3 DEF TaskState
  <2>2. Begin(h, new, FALSE)
    BY <1>4 DEF RequestCreate
  <2> HIDE DEF new
  <2>3. new \in FormedTask
    BY <2>1 DEF FormedTask, Formed, WithFile
  <2> QED
    BY <2>1, <2>2, <2>3, BeginStep DEF Placing
<1>5. ASSUME NEW f \in File, NEW p \in Path \cup {NoPath}, NEW c \in Content \cup {None},
             RequestPatch(h, f, p, c)
      PROVE  Core'
  <2> DEFINE new == [NoTask EXCEPT !.op = "patch", !.at = "lookup", !.id = f, !.path = p,
                                   !.text = c]
  <2>1. new \in TaskState /\ new.at = "lookup" /\ new.id = f
    BY <1>2, <1>3 DEF TaskState
  <2>2. Begin(h, new, FALSE)
    BY <1>5 DEF RequestPatch
  <2> HIDE DEF new
  <2>3. new \in FormedTask
    BY <2>1 DEF FormedTask, Formed
  <2> QED
    BY <2>1, <2>2, <2>3, BeginStep DEF Placing
<1>6. ASSUME NEW f \in File, RequestDelete(h, f) PROVE Core'
  <2> DEFINE new == [NoTask EXCEPT !.op = "delete", !.at = "lookup", !.id = f]
  <2>1. new \in TaskState /\ new.at = "lookup" /\ new.id = f
    BY <1>2, <1>3 DEF TaskState
  <2>2. Begin(h, new, FALSE)
    BY <1>6 DEF RequestDelete
  <2> HIDE DEF new
  <2>3. new \in FormedTask
    BY <2>1 DEF FormedTask, Formed
  <2> QED
    BY <2>1, <2>2, <2>3, BeginStep DEF Placing
<1> QED
    BY <1>1, <1>4, <1>5, <1>6

\* A step of a handler that changes nothing of the store, and after which the
\* handler has the file it had, or is idle.
LEMMA HandlerPasses ==
    ASSUME Core, NEW h \in Handler, NEW new \in FormedTask, new.at \notin Placing,
           task' = [task EXCEPT ![h] = new], UNCHANGED <<storeVars, todo>>
    PROVE  Core'
<1>1. h \in Task /\ TodoOK'
    BY HandlerTodo DEF Core, Task
<1> QED
    BY <1>1, Passes

LEMMA HandlerDone ==
    ASSUME Core, NEW h \in Handler, Done(h), UNCHANGED <<storeVars, todo>>
    PROVE  Core'
<1>1. h \in Task /\ h # Live
    BY ProjectFilesAssumption DEF ProjectFilesAssumption, Task
<1> QED
    BY <1>1, Over

LEMMA HandlerGoes ==
    ASSUME Core, NEW h \in Handler, task[h].at \in WithFile,
           NEW x \in {"find", "erase", "findRemove"}, Goto(h, x), UNCHANGED <<storeVars, todo>>
    PROVE  Core'
<1>1. h \in Task /\ h # Live
    BY ProjectFilesAssumption DEF ProjectFilesAssumption, Task
<1>2. x \in Stage \ (Placing \cup {"reading", "jobs"})
    BY DEF Stage, Placing
<1> QED
    BY <1>1, <1>2, OnTo

LEMMA LookupStep ==
    ASSUME Core, NEW h \in Handler, Lookup(h)
    PROVE  Core'
<1> USE DEF Core
<1>1. /\ h \in Task /\ task[h].at = "lookup" /\ task[h].id \in File /\ task[h] \in TaskState
      /\ UNCHANGED <<storeVars, todo>>
    BY KnownIds DEF Lookup, WithFile, FormedTask, Task
<1>2. CASE row[task[h].id] = NoRow
  <2>1. task' = [task EXCEPT ![h] = NoTask]
    BY <1>1, <1>2 DEF Lookup, TasksOK
  <2> QED
    BY <1>1, <2>1, NoTaskFormed, HandlerPasses DEF Placing
<1>3. CASE row[task[h].id] # NoRow
  <2> DEFINE new == [task[h] EXCEPT !.prev.path = row[task[h].id].path, !.at = "lookupText"]
  <2>1. task' = [task EXCEPT ![h] = new]
    BY <1>1, <1>3 DEF Lookup, TasksOK
  <2>2. row[task[h].id].path \in Path /\ "lookupText" \in Stage
    BY <1>1, <1>3, StoredRows DEF Stage
  <2>3. new \in TaskState /\ new.at = "lookupText" /\ new.id = task[h].id
    BY <1>1, <2>2 DEF TaskState, Text
  <2> HIDE DEF new
  <2>4. new \in FormedTask
    BY <1>1, <2>3 DEF FormedTask, Formed
  <2> QED
    BY <1>1, <2>1, <2>3, <2>4, HandlerPasses DEF Placing
<1> QED
    BY <1>2, <1>3

LEMMA LookupTextStep ==
    ASSUME Core, NEW h \in Handler, LookupText(h)
    PROVE  Core'
<1> USE DEF Core
<1>1. /\ h \in Task /\ task[h].at = "lookupText" /\ task[h].id \in File
      /\ task[h] \in TaskState /\ UNCHANGED <<storeVars, todo>>
    BY KnownIds DEF LookupText, WithFile, FormedTask, Task
<1>2. CASE blob[task[h].id] = None
  <2>1. task' = [task EXCEPT ![h] = NoTask]
    BY <1>2 DEF LookupText
  <2> QED
    BY <1>1, <2>1, NoTaskFormed, HandlerPasses DEF Placing
<1>3. CASE blob[task[h].id] # None
  <2> DEFINE x == IF task[h].op = "patch" THEN "find" ELSE "erase"
             new == [task[h] EXCEPT !.prev.text = blob[task[h].id], !.at = x]
  <2>1. task' = [task EXCEPT ![h] = new]
    BY <1>3 DEF LookupText
  <2>2. blob[task[h].id] \in Content /\ x \in Stage /\ x \in {"find", "erase"}
    BY <1>1, <1>3 DEF StoreOK, Stage
  <2> HIDE DEF x
  <2>3. new \in TaskState /\ new.at = x /\ new.id = task[h].id
    BY <1>1, <2>2 DEF TaskState, Text
  <2> HIDE DEF new
  <2>4. new \in FormedTask
    BY <1>1, <2>2, <2>3 DEF FormedTask, Formed
  <2> QED
    BY <1>1, <2>1, <2>2, <2>3, <2>4, HandlerPasses DEF Placing
<1> QED
    BY <1>2, <1>3

LEMMA WorkspaceSteps ==
    ASSUME Core, NEW h \in Handler, Write(h) \/ Erase(h) \/ Rewrite(h)
    PROVE  Core'
<1>1. task[h].at \in WithFile /\ UNCHANGED <<storeVars, todo>>
    BY DEF Write, Erase, Rewrite, At, WithFile
<1>2. Done(h) \/ Goto(h, "erase") \/ Goto(h, "findRemove")
    BY DEF Write, Erase, Rewrite
<1> QED
    BY <1>1, <1>2, HandlerDone, HandlerGoes

-----------------------------------------------------------------------------
(* Folders                                                                 *)

\* A request on a folder knows files that have rows, so none that is still to
\* be inserted.
LEMMA FolderBegins ==
    ASSUME Core, NEW h \in Handler, NEW listed \in SUBSET Listing,
           NEW name \in {"renameFolder", "deleteFolder"},
           \A r \in listed : row[r.id] # NoRow,
           Begin(h, [NoTask EXCEPT !.op = name, !.at = "transaction", !.files = listed], TRUE)
    PROVE  Core'
<1> USE DEF Core
<1> DEFINE new == [NoTask EXCEPT !.op = name, !.at = "transaction", !.files = listed]
<1>1. h \in Task /\ task' = [task EXCEPT ![h] = new] /\ UNCHANGED <<row, blob, made, todo>>
    BY DEF Begin, Task, storeVars
<1>2. NoTask \in TaskState /\ name \in Operation /\ "transaction" \in Stage
    BY NoTaskFormed DEF FormedTask, Operation, Kind, Stage
<1>3. new \in TaskState /\ new.at = "transaction" /\ new.files = listed
    BY <1>2 DEF TaskState
<1> HIDE DEF new
<1>4. new \in FormedTask
    BY <1>3 DEF FormedTask, Formed, WithFile
<1>5. task'[h] = new /\ (\A u \in Task : u # h => task'[u] = task[u]) /\ TasksOK'
    BY <1>1, <1>4 DEF TasksOK
<1>6. \A r \in listed : r.id \in File /\ r.id <= made
    BY DEF Listing, StoreOK
<1>7. ASSUME NEW u \in Task PROVE Placed(task[u])'
    BY <1>1, <1>3, <1>5, <1>6 DEF PlacesOK, Placed
<1>8. ASSUME NEW u \in Task, NEW v \in Task, u # v PROVE Apart(task[u], task[v])'
  <2>1. Placed(task[u]) /\ Apart(task[u], task[v])
    BY <1>8 DEF PlacesOK
  <2> QED
    BY <1>3, <1>5, <1>8, <2>1 DEF Placed, Apart
<1>9. StoreOK' /\ TodoOK'
    BY <1>1, <1>4, HandlerTodo DEF StoreOK
<1> QED
    BY <1>5, <1>7, <1>8, <1>9 DEF PlacesOK

LEMMA RequestFolderSteps ==
    ASSUME Core, NEW h \in Handler,
           \/ \E d, e \in Folder : RequestRenameFolder(h, d, e)
           \/ \E d \in Folder : RequestDeleteFolder(h, d)
    PROVE  Core'
<1> USE DEF Core
<1>1. ASSUME NEW f \in Stored
      PROVE  /\ f \in File /\ row[f] # NoRow
             /\ row[f].path \in Path /\ row[f].hash \in Content /\ row[f].path[2] \in Name
    BY StoredRows DEF Stored, Path
<1>2. ASSUME NEW d \in Folder, NEW e \in Folder, RequestRenameFolder(h, d, e) PROVE Core'
  <2> DEFINE listed == {[id |-> f, path |-> <<e, row[f].path[2]>>, hash |-> row[f].hash,
                         text |-> None] : f \in Below(d)}
  <2>1. Begin(h, [NoTask EXCEPT !.op = "renameFolder", !.at = "transaction",
                                !.files = listed], TRUE)
    BY <1>2 DEF RequestRenameFolder
  <2>2. \A r \in listed : r \in Listing /\ row[r.id] # NoRow
    BY <1>1 DEF Below, Listing, Path
  <2> HIDE DEF listed
  <2>3. listed \in SUBSET Listing
    BY <2>2
  <2> QED
    BY <2>1, <2>2, <2>3, FolderBegins
<1>3. ASSUME NEW d \in Folder, RequestDeleteFolder(h, d) PROVE Core'
  <2> DEFINE listed == {[id |-> f, path |-> row[f].path, hash |-> row[f].hash,
                         text |-> None] : f \in Below(d)}
  <2>1. Begin(h, [NoTask EXCEPT !.op = "deleteFolder", !.at = "transaction",
                                !.files = listed], TRUE)
    BY <1>3 DEF RequestDeleteFolder
  <2>2. \A r \in listed : r \in Listing /\ row[r.id] # NoRow
    BY <1>1 DEF Below, Listing
  <2> HIDE DEF listed
  <2>3. listed \in SUBSET Listing
    BY <2>2
  <2> QED
    BY <2>1, <2>2, <2>3, FolderBegins
<1> QED
    BY <1>2, <1>3

\* Rows that are renamed are rows; those that are gone stay so.
LEMMA RenameRowsStep ==
    ASSUME Core, NEW h \in Handler, RenameRows(h)
    PROVE  Core'
<1> USE DEF Core
<1> DEFINE Of(f) == {r \in task[h].files : r.id = f}
           Named(f) == {[path |-> r.path, hash |-> r.hash] : r \in Of(f)}
<1>1. /\ row' = [f \in File |-> IF row[f] = NoRow \/ Of(f) = {} THEN row[f]
                                ELSE CHOOSE q \in Named(f) : TRUE]
      /\ task' = [task EXCEPT ![h] = NoTask]
      /\ UNCHANGED <<blob, made, todo>>
    BY DEF RenameRows
<1>2. h \in Task /\ task[h].files \subseteq Listing
    BY KnownIds DEF FormedTask, TaskState, Task
<1>3. ASSUME NEW f \in File, row[f] # NoRow, Of(f) # {}
      PROVE  (CHOOSE q \in Named(f) : TRUE) \in Row
  <2>1. \A r \in Of(f) : [path |-> r.path, hash |-> r.hash] \in Row
    BY <1>2 DEF Listing, Row
  <2>2. \A q \in Named(f) : q \in Row
    BY <2>1
  <2>3. PICK r \in Of(f) : TRUE
    BY <1>3
  <2>4. [path |-> r.path, hash |-> r.hash] \in Named(f)
    BY <2>3
  <2> HIDE DEF Named
  <2> QED
    BY <2>2, <2>4
<1>4. NoRow \notin Row
    BY ProjectFilesAssumption DEF ProjectFilesAssumption, NoRow, Row
<1> HIDE DEF Named, Of
<1>5. row' \in [File -> Row \cup {NoRow}] /\ \A f \in File : row'[f] = NoRow <=> row[f] = NoRow
    BY <1>1, <1>3, <1>4 DEF StoreOK
<1>6. StoreOK' /\ TasksOK' /\ PlacesOK'
    BY <1>1, <1>2, <1>5, NoTaskFormed, StoreKept DEF StoreOK, Placing
<1>7. TodoOK'
    BY <1>1, NoTaskFormed, HandlerTodo
<1> QED
    BY <1>6, <1>7

\* What is listed loses its rows; nothing of it was still to be inserted.
LEMMA DeleteRowsStep ==
    ASSUME Core, NEW h \in Handler, DeleteRows(h)
    PROVE  Core'
<1> USE DEF Core
<1>1. /\ h \in Task /\ task[h].at = "transaction" /\ task[h] \in FormedTask
      /\ row' = [f \in File |-> IF f \in Listed(h) THEN NoRow ELSE row[f]]
      /\ Goto(h, "unlinkAll") /\ UNCHANGED <<blob, made, todo>>
    BY KnownIds DEF DeleteRows, Task
<1>2. PICK new \in TaskState : /\ task' = [task EXCEPT ![h] = new] /\ new.at = "unlinkAll"
                               /\ new.files = task[h].files
    BY <1>1, Goes DEF Stage
<1>3. new \in FormedTask
    BY <1>2 DEF FormedTask, Formed, WithFile
<1>4. task'[h] = new /\ (\A u \in Task : u # h => task'[u] = task[u]) /\ TasksOK'
    BY <1>1, <1>2, <1>3 DEF TasksOK
<1>5. StoreOK'
    BY <1>1 DEF StoreOK
<1>6. ASSUME NEW u \in Task PROVE Placed(task[u])'
  <2>1. CASE u = h
    BY <1>1, <1>2, <1>4, <2>1, KnownIds DEF PlacesOK, Placed, Listed
  <2>2. CASE u # h
    <3>1. Placed(task[u]) /\ task'[u] = task[u]
      BY <1>4, <2>2 DEF PlacesOK
    <3> QED
      BY <1>1, <3>1, KnownIds DEF Placed, WithFile
  <2> QED
    BY <2>1, <2>2
<1>7. ASSUME NEW u \in Task, NEW v \in Task, u # v PROVE Apart(task[u], task[v])'
    BY <1>1, <1>2, <1>4, <1>7 DEF PlacesOK, Apart
<1>8. TodoOK'
    BY <1>1, <1>3, <1>2, HandlerTodo
<1> QED
    BY <1>4, <1>5, <1>6, <1>7, <1>8 DEF PlacesOK

\* The blobs that are removed have no rows, and nobody is to insert them.
LEMMA UnlinkAllStep ==
    ASSUME Core, NEW h \in Handler, UnlinkAll(h)
    PROVE  Core'
<1> USE DEF Core
<1>1. /\ h \in Task /\ task[h].at = "unlinkAll"
      /\ blob' = [f \in File |-> IF f \in Listed(h) THEN None ELSE blob[f]]
      /\ task' = [task EXCEPT ![h] = NoTask] /\ UNCHANGED <<row, made, todo>>
    BY DEF UnlinkAll, Task
<1>2. \A f \in Listed(h) : f \in File /\ row[f] = NoRow
    BY <1>1, KnownIds DEF PlacesOK, Placed, Listed
<1>3. /\ task'[h] = NoTask /\ (\A u \in Task : u # h => task'[u] = task[u])
      /\ TasksOK' /\ TodoOK'
    BY <1>1, NoTaskFormed, HandlerTodo DEF TasksOK
<1>4. StoreOK'
    BY <1>1, <1>2 DEF StoreOK
<1>5. ASSUME NEW u \in Task PROVE Placed(task[u])'
  <2>1. CASE u = h
    BY <1>3, <2>1, NoTaskFormed DEF Placed
  <2>2. CASE u # h
    <3>1. Placed(task[u]) /\ Apart(task[u], task[h]) /\ task'[u] = task[u]
      BY <1>1, <1>3, <2>2 DEF PlacesOK
    <3>2. task[u].at = "insert" => task[u].id \notin Listed(h)
      BY <1>1, <3>1 DEF Apart, Listed
    <3> QED
      BY <1>1, <3>1, <3>2, KnownIds DEF Placed, WithFile
  <2> QED
    BY <2>1, <2>2
<1>6. ASSUME NEW u \in Task, NEW v \in Task, u # v PROVE Apart(task[u], task[v])'
    BY <1>3, <1>6, NoTaskFormed DEF PlacesOK, Apart
<1> QED
    BY <1>3, <1>4, <1>5, <1>6 DEF PlacesOK

LEMMA RequestStepSteps ==
    ASSUME Core, NEW h \in Handler, RequestStep(h)
    PROVE  Core'
<1>1. CASE RenameConflicts(h)
  <2>1. task' = [task EXCEPT ![h] = NoTask] /\ UNCHANGED <<storeVars, todo>>
    BY <1>1 DEF RenameConflicts
  <2> QED
    BY <2>1, NoTaskFormed, HandlerPasses DEF Placing
<1> QED
    BY <1>1, LookupStep, LookupTextStep, WorkspaceSteps, RenameRowsStep, DeleteRowsStep,
       UnlinkAllStep DEF RequestStep

-----------------------------------------------------------------------------
(* Hydration and reconciliation                                            *)

LEMMA LivePasses ==
    ASSUME Core, NEW new \in FormedTask, new.at \notin Placing,
           task' = [task EXCEPT ![Live] = new], UNCHANGED storeVars,
           todo' \subseteq JobsAt(new)
    PROVE  Core'
<1>1. Live \in Task
    BY DEF Task
<1>2. TodoOK'
    BY <1>1 DEF Core, TasksOK, TodoOK, JobsAt
<1> QED
    BY <1>1, <1>2, Passes

LEMMA ListStep ==
    ASSUME Core, NEW op \in {"hydrate", "reconcile"}, List(op)
    PROVE  Core'
<1> DEFINE new == [NoTask EXCEPT !.op = op, !.at = "reading"]
<1>1. task' = [task EXCEPT ![Live] = new] /\ UNCHANGED storeVars
    BY DEF List
<1>2. NoTask \in TaskState /\ op \in Operation /\ "reading" \in Stage
    BY NoTaskFormed DEF FormedTask, Operation, Stage
<1>3. new \in TaskState /\ new.at = "reading"
    BY <1>2 DEF TaskState
<1> HIDE DEF new
<1>4. new \in FormedTask
    BY <1>3 DEF FormedTask, Formed, WithFile
<1>5. ASSUME NEW f \in Stored
      PROVE  [op |-> "read", id |-> f, path |-> row[f].path, text |-> row[f].hash] \in Reads
  <2>1. f \in File /\ row[f].path \in Path /\ row[f].hash \in Content
    BY StoredRows DEF Stored, Core
  <2> QED
    BY <2>1 DEF Reads, Job
<1>6. todo' \subseteq Reads
    BY <1>5 DEF List
<1> QED
    BY <1>1, <1>3, <1>4, <1>6, LivePasses DEF JobsAt, Placing

LEMMA ReadListedStep ==
    ASSUME Core, NEW j \in todo, ReadListed(j)
    PROVE  Core'
<1> DEFINE got == {[id |-> j.id, path |-> j.path, hash |-> j.text, text |-> c] :
                   c \in {blob[j.id]} \ {None}}
           new == [task[Live] EXCEPT !.files = @ \cup got]
<1>1. /\ task[Live].at = "reading" /\ todo' = todo \ {j} /\ UNCHANGED storeVars
      /\ task' = [task EXCEPT ![Live] = new]
    BY DEF ReadListed
<1>2. Live \in Task /\ task[Live] \in TaskState /\ todo \subseteq Reads
    BY <1>1 DEF Core, TasksOK, FormedTask, TodoOK, JobsAt, Task
<1>3. got \subseteq Listing
    BY <1>2 DEF Reads, Listing, Core, StoreOK
<1> HIDE DEF got
<1>4. new \in TaskState /\ new.at = "reading"
    BY <1>1, <1>2, <1>3 DEF TaskState
<1> HIDE DEF new
<1>5. new \in FormedTask
    BY <1>4 DEF FormedTask, Formed, WithFile
<1> QED
    BY <1>1, <1>2, <1>4, <1>5, LivePasses DEF JobsAt, Placing

LEMMA ClearStep ==
    ASSUME Core, Clear
    PROVE  Core'
<1> DEFINE new == [NoTask EXCEPT !.op = "hydrate", !.at = "jobs"]
<1>1. /\ task' = [task EXCEPT ![Live] = new] /\ UNCHANGED storeVars
      /\ todo' = {[op |-> "put", id |-> r.id, path |-> r.path, text |-> r.text] :
                  r \in task[Live].files}
    BY DEF Clear, storeVars
<1>2. NoTask \in TaskState /\ "hydrate" \in Operation /\ "jobs" \in Stage
    BY NoTaskFormed DEF FormedTask, Operation, Stage
<1>3. new \in TaskState /\ new.at = "jobs" /\ new.op = "hydrate"
    BY <1>2 DEF TaskState
<1> HIDE DEF new
<1>4. new \in FormedTask
    BY <1>3 DEF FormedTask, Formed, WithFile
<1>5. task[Live].files \subseteq Listing
    BY DEF Core, TasksOK, FormedTask, TaskState, Task
<1>6. todo' \subseteq Puts
    BY <1>1, <1>5 DEF Puts, Job, Listing
<1> QED
    BY <1>1, <1>3, <1>4, <1>6, LivePasses DEF JobsAt, Placing

\* A plan lists changes: contents that are there, of files that have rows, at
\* paths that are there.
LEMMA JobsAreChanges ==
    ASSUME NEW db \in SUBSET Listing, NEW ws \in [Path -> Content \cup {None}],
           NEW missing \in SUBSET db, NEW extra \in SUBSET Path,
           \A p \in extra : ws[p] # None,
           NEW renames \in Renames(missing, extra, ws)
    PROVE  Jobs(db, ws, renames, missing, extra) \subseteq Changes
<1>1. ASSUME NEW r \in db, ws[r.path] # None
      PROVE  [op |-> "content", id |-> r.id, path |-> NoPath, text |-> ws[r.path]] \in Changes
  <2>1. r.id \in File /\ r.path \in Path
    BY DEF Listing
  <2>2. ws[r.path] \in Content
    BY <1>1, <2>1
  <2> QED
    BY <2>1, <2>2 DEF Changes, Job
<1>2. ASSUME NEW a \in renames
      PROVE  [op |-> "path", id |-> a[1].id, path |-> a[2], text |-> None] \in Changes
  <2>1. a \in missing \X extra
    BY DEF Renames
  <2>2. a[1] \in Listing /\ a[2] \in Path
    BY <2>1
  <2>3. a[1].id \in File
    BY <2>2 DEF Listing
  <2> QED
    BY <2>2, <2>3 DEF Changes, Job
<1>3. ASSUME NEW p \in extra
      PROVE  [op |-> "create", id |-> 0, path |-> p, text |-> ws[p]] \in Changes
  <2>1. p \in Path /\ ws[p] \in Content
    OBVIOUS
  <2> QED
    BY <2>1 DEF Changes, Job
<1>4. ASSUME NEW r \in missing
      PROVE  [op |-> "remove", id |-> r.id, path |-> NoPath, text |-> None] \in Changes
  <2>1. r.id \in File
    BY DEF Listing
  <2> QED
    BY <2>1 DEF Changes, Job
<1> QED
    BY <1>1, <1>2, <1>3, <1>4 DEF Jobs

LEMMA ScanStep ==
    ASSUME Core, disk \in [Path -> Content \cup {None}], Scan
    PROVE  Core'
<1> DEFINE db == task[Live].files
           ws == [p \in Path |-> IF p[1] \in Excluded THEN None ELSE disk[p]]
           missing == {r \in db : ws[r.path] = None}
           extra == {p \in Path : ws[p] # None /\ \A r \in db : r.path # p}
           new == [NoTask EXCEPT !.op = "reconcile", !.at = "jobs"]
<1>1. task' = [task EXCEPT ![Live] = new] /\ UNCHANGED storeVars
    BY DEF Scan
<1>2. PICK renames \in Renames(missing, extra, ws) : todo' = Jobs(db, ws, renames, missing, extra)
    BY DEF Scan
<1>3. /\ db \in SUBSET Listing /\ ws \in [Path -> Content \cup {None}]
      /\ missing \in SUBSET db /\ extra \in SUBSET Path /\ \A p \in extra : ws[p] # None
    BY DEF Core, TasksOK, FormedTask, TaskState, Task
<1>4. new \in FormedTask /\ new.at = "jobs" /\ new.op = "reconcile"
    BY NoTaskFormed
<1> HIDE DEF db, ws, missing, extra, new
<1>5. todo' \subseteq Changes
    BY <1>2, <1>3, JobsAreChanges
<1> QED
    BY <1>1, <1>4, <1>5, LivePasses DEF JobsAt, Placing

LEMMA StartJobStep ==
    ASSUME Core, NEW j \in todo, StartJob(j)
    PROVE  Core'
<1> DEFINE x == CASE j.op = "create" -> "blob" [] j.op = "remove" -> "findRemove"
                  [] OTHER -> "find"
           new == [NoTask EXCEPT !.op = j.op, !.id = j.id, !.path = j.path, !.text = j.text,
                                 !.at = x]
<1>1. /\ task[Live].at = "jobs" /\ task[Live].op = "reconcile" /\ todo' = todo \ {j}
      /\ task' = [task EXCEPT ![Live] = new] /\ UNCHANGED storeVars
    BY DEF StartJob
<1>2. todo \subseteq Changes
    BY <1>1 DEF Core, TodoOK, JobsAt
<1>3. /\ x \in {"blob", "findRemove", "find"} /\ (x = "blob" <=> j.op = "create")
      /\ x \in Stage
    BY DEF Stage
<1>4. /\ NoTask \in TaskState /\ j.op \in Operation /\ j.id \in File \cup {0}
      /\ j.path \in Path \cup {NoPath} /\ j.text \in Content \cup {None}
    BY <1>2, NoTaskFormed DEF FormedTask, Changes, Job, Operation
<1> HIDE DEF x
<1>5. /\ new \in TaskState /\ new.at = x /\ new.id = j.id /\ new.path = j.path
      /\ new.text = j.text
    BY <1>3, <1>4 DEF TaskState
<1> HIDE DEF new
<1>6. new \in FormedTask
    BY <1>2, <1>3, <1>5 DEF FormedTask, Formed, WithFile, Changes
<1> QED
    BY <1>1, <1>2, <1>3, <1>5, <1>6, LivePasses DEF JobsAt, Placing

LEMMA LiveSteps ==
    ASSUME Core, disk \in [Path -> Content \cup {None}], LiveStep
    PROVE  Core'
<1>1. ASSUME NEW j \in todo, Put(j) PROVE Core'
  <2>1. UNCHANGED <<row, blob, made, task>> /\ todo' \subseteq todo
    BY <1>1 DEF Put, storeVars
  <2> QED
    BY <2>1 DEF Core, StoreOK, TasksOK, PlacesOK, Placed, Apart, TodoOK
<1>2. CASE Hydrated \/ Rest
  <2>1. task' = [task EXCEPT ![Live] = NoTask] /\ UNCHANGED <<storeVars, todo>>
    BY <1>2 DEF Hydrated, Rest
  <2>2. todo \subseteq Changes
    BY <1>2 DEF Hydrated, Rest, Core, TodoOK, JobsAt
  <2> QED
    BY <2>1, <2>2, NoTaskFormed, LivePasses DEF JobsAt, Placing
<1>3. CASE Reconcile
  <2>1. /\ Live \in Task /\ Goto(Live, "reconciled") /\ UNCHANGED <<storeVars, todo>>
        /\ todo = {}
    BY <1>3 DEF Reconcile, Task
  <2>2. PICK new \in TaskState : /\ task' = [task EXCEPT ![Live] = new]
                                 /\ new.at = "reconciled"
    BY <2>1, Goes DEF Stage, Core
  <2>3. new \in FormedTask
    BY <2>2 DEF FormedTask, Formed, WithFile
  <2> QED
    BY <2>1, <2>2, <2>3, LivePasses DEF Placing
<1> QED
    BY <1>1, <1>2, <1>3, ReadListedStep, ClearStep, ScanStep, StartJobStep DEF LiveStep

-----------------------------------------------------------------------------
(* Failures                                                                *)

\* A task that failed takes back what it did, or is over.
LEMMA CaughtForms ==
    ASSUME TasksOK, NEW t \in Task, task[t].at # "insert"
    PROVE  /\ Caught(t) \in FormedTask
           /\ Caught(t).at \in {"idle", "restore", "findRemove", "find"}
           /\ task[t].at \in {"reading", "jobs"} => Caught(t) = NoTask
<1> DEFINE k == task[t]
<1>1. k \in FormedTask /\ k \in TaskState /\ (k.at \in WithFile => k.id \in File)
    BY KnownIds DEF FormedTask
<1>2. {"restore", "findRemove", "find"} \subseteq Stage
    BY DEF Stage
<1>3. CASE k.at = "update" \/ (k.at = "refresh" /\ (t = Live \/ k.undo))
  <2> DEFINE new == [k EXCEPT !.at = "restore"]
  <2>1. Caught(t) = new
    BY <1>3 DEF Caught
  <2>2. new \in TaskState /\ new.at = "restore" /\ new.id = k.id /\ new.cur = k.cur
    BY <1>1, <1>2 DEF TaskState
  <2> HIDE DEF new
  <2>3. new \in FormedTask
    BY <1>1, <1>3, <2>2 DEF FormedTask, Formed, WithFile
  <2> QED
    BY <1>3, <2>1, <2>2, <2>3
<1>4. CASE k.at = "write" /\ k.op = "create"
  <2> DEFINE new == [k EXCEPT !.at = "findRemove", !.undo = TRUE]
  <2>1. Caught(t) = new
    BY <1>4 DEF Caught
  <2>2. new \in TaskState /\ new.at = "findRemove" /\ new.id = k.id
    BY <1>1, <1>2 DEF TaskState
  <2> HIDE DEF new
  <2>3. new \in FormedTask
    BY <1>1, <1>4, <2>2 DEF FormedTask, Formed, WithFile
  <2> QED
    BY <1>4, <2>1, <2>2, <2>3
<1>5. CASE k.at \in {"write", "erase"} /\ k.op = "patch"
  <2> DEFINE new == [k EXCEPT !.at = "find", !.undo = TRUE, !.path = k.prev.path,
                              !.text = k.prev.text]
  <2>1. Caught(t) = new
    BY <1>5 DEF Caught
  <2>2. new \in TaskState /\ new.at = "find" /\ new.id = k.id
    BY <1>1, <1>2 DEF TaskState, Text
  <2> HIDE DEF new
  <2>3. new \in FormedTask
    BY <1>1, <1>5, <2>2 DEF FormedTask, Formed, WithFile
  <2> QED
    BY <1>5, <2>1, <2>2, <2>3
<1>6. CASE /\ k.at # "update" /\ ~(k.at = "refresh" /\ (t = Live \/ k.undo))
           /\ ~(k.at = "write" /\ k.op = "create")
           /\ ~(k.at \in {"write", "erase"} /\ k.op = "patch")
  <2>1. Caught(t) = NoTask
    BY <1>6 DEF Caught
  <2> QED
    BY <2>1, NoTaskFormed
<1> QED
    BY <1>3, <1>4, <1>5, <1>6

LEMMA CallFailsStep ==
    ASSUME Core, NEW t \in Task, CallFails(t)
    PROVE  Core'
<1> USE DEF Core
<1>1. task' = [task EXCEPT ![t] = Caught(t)] /\ UNCHANGED storeVars
    BY DEF CallFails
<1>2. CASE task[t].at = "insert"
  <2>1. Caught(t) = [task[t] EXCEPT !.at = "unblob"]
    BY <1>2 DEF Caught
  <2>2. Caught(t).at = "unblob"
    BY <1>2, <2>1, KnownIds DEF FormedTask, TaskState
  <2>3. Goto(t, "unblob") /\ UNCHANGED todo
    BY <1>1, <2>1, <2>2, NoTaskFormed DEF CallFails, Goto
  <2> QED
    BY <1>1, <1>2, <2>3, GivesUp
<1>3. CASE task[t].at # "insert"
  <2> DEFINE new == Caught(t)
  <2>1. /\ new \in FormedTask /\ new.at \in {"idle", "restore", "findRemove", "find"}
        /\ task[t].at \in {"reading", "jobs"} => new = NoTask
    BY <1>3, CaughtForms
  <2>2. /\ new = NoTask => todo' = IF t = Live THEN {} ELSE todo
        /\ new # NoTask => todo' = todo
    BY DEF CallFails
  <2>3. task' = [task EXCEPT ![t] = new]
    BY <1>1
  <2> HIDE DEF new
  <2>4. CASE t = Live
    <3>1. todo' \subseteq Changes
      BY <2>1, <2>2, <2>4 DEF TodoOK, JobsAt
    <3> QED
      BY <1>1, <2>1, <2>3, <2>4, <3>1, LivePasses DEF JobsAt, Placing
  <2>5. CASE t # Live
    <3>1. t \in Handler /\ todo' = todo
      BY <2>2, <2>5 DEF Task
    <3> QED
      BY <1>1, <2>1, <2>3, <3>1, HandlerPasses DEF Placing
  <2> QED
    BY <2>4, <2>5
<1> QED
    BY <1>2, <1>3

LEMMA CrashStep ==
    ASSUME Core, Crash
    PROVE  Core'
<1>1. /\ task' = [t \in Task |-> NoTask] /\ todo' = {} /\ UNCHANGED <<row, blob, made>>
    BY DEF Crash, storeVars
<1>2. \A t \in Task : task'[t].at = "idle"
    BY <1>1, NoTaskFormed
<1>3. StoreOK' /\ TasksOK' /\ TodoOK'
    BY <1>1, NoTaskFormed DEF Core, StoreOK, TasksOK, TodoOK
<1>4. PlacesOK'
    BY <1>2 DEF PlacesOK, Placed, Apart
<1> QED
    BY <1>3, <1>4 DEF Core

\* A step that concerns the workspace alone, or nothing.
LEMMA CoreSame ==
    ASSUME Core, UNCHANGED <<storeVars, task, todo>>
    PROVE  Core'
BY DEF Core, StoreOK, TasksOK, PlacesOK, Placed, Apart, TodoOK, storeVars

LEMMA CoreStep ==
    ASSUME Inv, [Next]_vars
    PROVE  Core'
<1> USE DEF Inv
<1>1. ASSUME NEW t \in Task, OperationStep(t) \/ CallFails(t) PROVE Core'
    BY <1>1, OperationSteps, CallFailsStep
<1>2. ASSUME NEW h \in Handler, Begins(h) \/ RequestStep(h) PROVE Core'
    BY <1>2, RequestSteps, RequestFolderSteps, RequestStepSteps DEF Begins
<1>3. CASE List("hydrate") \/ List("reconcile") \/ LiveStep
    BY <1>3, ListStep, LiveSteps DEF RestOK
<1>4. ASSUME NEW p \in Path, NEW c \in Content \cup {None}, Save(p, c) PROVE Core'
    BY <1>4, CoreSame DEF Save, Edited
<1>5. ASSUME NEW p \in Path, NEW q \in Path, Move(p, q) PROVE Core'
    BY <1>5, CoreSame DEF Move, Edited
<1>6. CASE Crash
    BY <1>6, CrashStep
<1>7. CASE UNCHANGED vars
    BY <1>7, CoreSame DEF vars
<1> QED
    BY <1>1, <1>2, <1>3, <1>4, <1>5, <1>6, <1>7 DEF Next

-----------------------------------------------------------------------------
(* The workspace, the lock and what is counted                             *)

LEMMA QueueUnlocks ==
    ASSUME RestOK, NEW t \in Task, Holds(t), Unlock(t) \/ UNCHANGED queue
    PROVE  queue' \in Seq(Handler)
<1>1. CASE t = Live
    BY <1>1 DEF Unlock, RestOK
<1>2. CASE t # Live
  <2>1. queue # <<>> /\ queue \in Seq(Handler)
    BY <1>2 DEF Holds, RestOK
  <2>2. Tail(queue) \in Seq(Handler)
    BY <2>1
  <2> QED
    BY <1>2, <2>1, <2>2 DEF Unlock
<1> QED
    BY <1>1, <1>2

\* Operations leave the workspace alone.
LEMMA OperationRest ==
    ASSUME Inv, NEW t \in Task, OperationStep(t)
    PROVE  RestOK'
<1>1. Holds(t) /\ UNCHANGED <<disk, scanned, ghostVars>>
    BY DEF OperationStep, WriteBlob, Insert, RemoveBlob, Find, Read, Store, Update, Restore,
           Refresh, Reread, FindToRemove, ReadToRemove, Delete, Unlink, At
<1>2. ASSUME NEW any \in BOOLEAN, Removed(t, any) PROVE Unlock(t) \/ UNCHANGED queue
    BY <1>2 DEF Removed, Done
<1>3. ASSUME UpdateIsNull(t) PROVE Unlock(t)
  <2>1. Fails(t) \/ Done(t)
    BY <1>3 DEF UpdateIsNull
  <2> QED
    BY <2>1 DEF Fails, Done
<1>4. Unlock(t) \/ UNCHANGED queue
  <2>1. CASE WriteBlob(t) \/ Insert(t) \/ RemoveBlob(t)
    BY <2>1 DEF WriteBlob, Insert, RemoveBlob, Fails, Done
  <2>2. CASE Find(t) \/ Read(t) \/ Store(t) \/ Update(t)
    BY <2>2, <1>3 DEF Find, Read, Store, Update, Fails
  <2>3. CASE Restore(t) \/ Reread(t)
    BY <2>3 DEF Restore, Reread, Fails
  <2>4. CASE Refresh(t)
    <3>1. CASE row[task[t].id] = NoRow
      BY <2>4, <3>1, <1>3 DEF Refresh
    <3>2. CASE row[task[t].id] # NoRow
      <4>1. Fails(t) \/ Done(t) \/ UNCHANGED queue
        BY <2>4, <3>2 DEF Refresh
      <4> QED
        BY <4>1 DEF Fails, Done
    <3> QED
      BY <3>1, <3>2
  <2>5. CASE FindToRemove(t) \/ ReadToRemove(t) \/ Delete(t) \/ Unlink(t)
    BY <2>5, <1>2 DEF FindToRemove, ReadToRemove, Delete, Unlink, Fails
  <2> QED
    BY <2>1, <2>2, <2>3, <2>4, <2>5 DEF OperationStep
<1>5. queue' \in Seq(Handler)
    BY <1>1, <1>4, QueueUnlocks DEF Inv
<1> QED
    BY <1>1, <1>5 DEF Inv, RestOK, ghostVars

\* Requests are counted, and write what they have read or were given.
LEMMA BeginsRest ==
    ASSUME Inv, NEW h \in Handler, Begins(h)
    PROVE  RestOK'
<1>1. UNCHANGED <<disk, scanned, edits>> /\ requests' = requests + 1 /\ requests < MaxRequest
    BY DEF Begins, RequestCreate, RequestPatch, RequestDelete, RequestRenameFolder,
           RequestDeleteFolder, Begin
<1>2. created' \subseteq created
    BY DEF Begins, RequestCreate, RequestPatch, RequestDelete, RequestRenameFolder,
           RequestDeleteFolder
<1>3. queue' = queue \/ queue' = Append(queue, h)
    BY DEF Begins, RequestCreate, RequestPatch, RequestDelete, RequestRenameFolder,
           RequestDeleteFolder
<1>4. queue' \in Seq(Handler)
    BY <1>3 DEF Inv, RestOK
<1>5. requests' \in 0..MaxRequest
    BY <1>1, ProjectFilesAssumption DEF ProjectFilesAssumption, Inv, RestOK
<1> QED
    BY <1>1, <1>2, <1>4, <1>5 DEF Inv, RestOK

LEMMA RequestStepRest ==
    ASSUME Inv, NEW h \in Handler, RequestStep(h)
    PROVE  RestOK'
<1>1. /\ h \in Task /\ task[h] \in TaskState /\ (task[h].at \in WithFile => task[h].id \in File)
      /\ task[h].text \in Content \cup {None} /\ task[h].cur.text \in Content \cup {None}
      /\ task[h].prev.text \in Content \cup {None}
  <2>1. h \in Task /\ task[h] \in TaskState /\ (task[h].at \in WithFile => task[h].id \in File)
    BY KnownIds DEF Inv, Core, FormedTask, Task
  <2> QED
    BY <2>1 DEF TaskState, Text
<1>2. CASE \/ Lookup(h) \/ LookupText(h) \/ RenameRows(h) \/ RenameConflicts(h)
           \/ DeleteRows(h) \/ UnlinkAll(h)
  <2>1. UNCHANGED <<disk, scanned, ghostVars>>
    BY <1>2 DEF Lookup, LookupText, RenameRows, RenameConflicts, DeleteRows, UnlinkAll
  <2>2. queue' = queue \/ queue' = Append(queue, h)
    BY <1>2 DEF Lookup, LookupText, RenameRows, RenameConflicts, DeleteRows, UnlinkAll
  <2>3. queue' \in Seq(Handler)
    BY <2>2 DEF Inv, RestOK
  <2> QED
    BY <2>1, <2>3 DEF Inv, RestOK, ghostVars
<1>3. CASE Write(h) \/ Erase(h) \/ Rewrite(h)
  <2>1. Holds(h) /\ task[h].id \in File /\ UNCHANGED <<scanned, requests, edits>>
    BY <1>1, <1>3 DEF Write, Erase, Rewrite, At, WithFile, ghostVars
  <2>2. Unlock(h) \/ UNCHANGED queue
    BY <1>3 DEF Write, Erase, Rewrite, Done
  <2>3. queue' \in Seq(Handler)
    BY <1>1, <2>1, <2>2, QueueUnlocks DEF Inv
  <2>4. created' \subseteq File
    BY <1>3, <2>1 DEF Write, Erase, Rewrite, ghostVars, Inv, RestOK
  <2>5. disk' \in [Path -> Content \cup {None}]
    BY <1>1, <1>3 DEF Write, Erase, Rewrite, Inv, RestOK
  <2> QED
    BY <2>1, <2>3, <2>4, <2>5 DEF Inv, RestOK
<1> QED
    BY <1>2, <1>3 DEF RequestStep

LEMMA LiveRest ==
    ASSUME Inv, List("hydrate") \/ List("reconcile") \/ LiveStep
    PROVE  RestOK'
<1>1. UNCHANGED <<queue, created, requests, edits>>
    BY DEF List, LiveStep, ReadListed, Put, StartJob, Clear, Hydrated, Scan, Reconcile, Rest,
           ghostVars
<1>2. todo \subseteq Job
    BY DEF Inv, Core, TodoOK, JobsAt, Reads, Puts, Changes
<1>3. disk' \in [Path -> Content \cup {None}]
  <2>1. CASE UNCHANGED disk
    BY <2>1 DEF Inv, RestOK
  <2>2. CASE Clear
    BY <2>2 DEF Clear
  <2>3. ASSUME NEW j \in todo, Put(j) PROVE disk' \in [Path -> Content \cup {None}]
    BY <1>2, <2>3 DEF Put, Inv, RestOK, Job
  <2>4. \/ UNCHANGED disk
        \/ Clear
        \/ \E j \in todo : Put(j)
    BY DEF List, LiveStep, ReadListed, StartJob, Hydrated, Scan, Reconcile, Rest
  <2> QED
    BY <2>1, <2>2, <2>3, <2>4
<1>4. scanned' \in [Path -> Content \cup {None}]
  <2>1. CASE UNCHANGED scanned
    BY <2>1 DEF Inv, RestOK
  <2>2. CASE Scan
    BY <2>2 DEF Scan, Inv, RestOK
  <2>3. CASE Rest
    BY <2>3 DEF Rest
  <2>4. UNCHANGED scanned \/ Scan \/ Rest
    BY DEF List, LiveStep, ReadListed, Put, StartJob, Clear, Hydrated, Reconcile
  <2> QED
    BY <2>1, <2>2, <2>3, <2>4
<1> QED
    BY <1>1, <1>3, <1>4 DEF Inv, RestOK

LEMMA OtherRest ==
    ASSUME Inv,
           \/ \E t \in Task : CallFails(t)
           \/ \E p \in Path, c \in Content \cup {None} : Save(p, c)
           \/ \E p, q \in Path : Move(p, q)
           \/ Crash
           \/ UNCHANGED vars
    PROVE  RestOK'
<1>1. ASSUME NEW t \in Task, CallFails(t) PROVE RestOK'
  <2>1. UNCHANGED <<disk, scanned, created, requests, edits>>
    BY <1>1 DEF CallFails
  <2>2. queue' = queue \/ (queue # <<>> /\ queue' = Tail(queue))
    BY <1>1 DEF CallFails
  <2>3. queue' \in Seq(Handler)
    BY <2>2 DEF Inv, RestOK
  <2> QED
    BY <2>1, <2>3 DEF Inv, RestOK
<1>2. ASSUME NEW p \in Path, NEW c \in Content \cup {None}, Save(p, c) PROVE RestOK'
    BY <1>2, ProjectFilesAssumption
    DEF ProjectFilesAssumption, Save, Edited, Touch, Inv, RestOK
<1>3. ASSUME NEW p \in Path, NEW q \in Path, Move(p, q) PROVE RestOK'
    BY <1>3, ProjectFilesAssumption
    DEF ProjectFilesAssumption, Move, Edited, Touch, Inv, RestOK
<1>4. CASE Crash
  <2>1. queue' \in Seq(Handler)
    BY <1>4 DEF Crash
  <2> QED
    BY <1>4, <2>1 DEF Crash, Inv, RestOK
<1>5. CASE UNCHANGED vars
    BY <1>5 DEF vars, ghostVars, Inv, RestOK
<1> QED
    BY <1>1, <1>2, <1>3, <1>4, <1>5

LEMMA InvStep ==
    ASSUME Inv, [Next]_vars
    PROVE  Inv'
<1>1. RestOK'
    BY OperationRest, BeginsRest, RequestStepRest, LiveRest, OtherRest DEF Next
<1> QED
    BY <1>1, CoreStep DEF Inv

\* Boolean variables stay so.
LEMMA FlagsStep ==
    ASSUME FlagsOK, [Next]_vars
    PROVE  FlagsOK'
<1>1. ASSUME NEW h \in Handler, Begins(h) PROVE FlagsOK'
    BY <1>1, Zenon DEF FlagsOK, Begins, RequestCreate, RequestPatch, RequestDelete,
       RequestRenameFolder, RequestDeleteFolder, Begin
<1>2. CASE List("hydrate") \/ List("reconcile")
    BY <1>2 DEF FlagsOK, List, ghostVars
<1>3. CASE LiveStep
    BY <1>3 DEF FlagsOK, LiveStep, ReadListed, Put, StartJob, Clear, Hydrated, Scan, Reconcile,
       Rest, ghostVars
<1>4. ASSUME NEW t \in Task, OperationStep(t) PROVE FlagsOK'
    BY <1>4 DEF FlagsOK, ghostVars, OperationStep, WriteBlob, Insert, RemoveBlob, Find, Read,
       Store, Update, Restore, Refresh, Reread, FindToRemove, ReadToRemove, Delete, Unlink
<1>5. ASSUME NEW h \in Handler, RequestStep(h) PROVE FlagsOK'
    BY <1>5 DEF FlagsOK, ghostVars, RequestStep, Lookup, LookupText, Write, Erase, Rewrite,
       RenameRows, RenameConflicts, DeleteRows, UnlinkAll
<1>6. ASSUME NEW t \in Task, CallFails(t) PROVE FlagsOK'
    BY <1>6 DEF FlagsOK, CallFails
<1>7. CASE \/ \E p \in Path, c \in Content \cup {None} : Save(p, c)
           \/ \E p, q \in Path : Move(p, q)
    BY <1>7 DEF FlagsOK, Save, Move, Edited
<1>8. CASE Crash \/ UNCHANGED vars
    BY <1>8 DEF FlagsOK, Crash, vars, ghostVars
<1> QED
    BY <1>1, <1>2, <1>3, <1>4, <1>5, <1>6, <1>7, <1>8 DEF Next

-----------------------------------------------------------------------------
(* The initial states                                                      *)

LEMMA InitInv ==
    ASSUME Init
    PROVE  Inv /\ FlagsOK
<1>1. PICK n \in 0..Initial :
        /\ made = n
        /\ row \in [File -> [path : Path, hash : Content] \cup {NoRow}]
        /\ \A f \in File : row[f] = NoRow <=> f > n
        /\ blob = [f \in File |-> row[f].hash]
        /\ task = [t \in Task |-> NoTask] /\ queue = <<>> /\ todo = {}
        /\ disk = [p \in Path |-> None] /\ scanned = [p \in Path |-> None]
        /\ created = {} /\ requests = 0 /\ edits = 0
    BY DEF Init
<1>2. n \in Nat /\ n <= MaxFile /\ MaxRequest \in Nat /\ MaxEdit \in Nat
    BY ProjectFilesAssumption DEF ProjectFilesAssumption
<1>3. NoRow.hash = None /\ None \notin Content
    BY ProjectFilesAssumption DEF NoRow, ProjectFilesAssumption
<1>4. StoreOK
  <2>1. made \in 0..MaxFile /\ row \in [File -> Row \cup {NoRow}]
    BY <1>1, <1>2 DEF Row
  <2>2. \A f \in File : row[f] # NoRow => row[f].hash \in Content
    BY <2>1 DEF Row
  <2>3. blob \in [File -> Content \cup {None}]
    BY <1>1, <1>3, <2>2
  <2>4. \A f \in File : row[f] # NoRow => f <= made /\ blob[f] # None
    BY <1>1, <1>2, <1>3, <2>2 DEF File
  <2> QED
    BY <2>1, <2>3, <2>4 DEF StoreOK
<1>5. TasksOK /\ TodoOK
    BY <1>1, NoTaskFormed DEF TasksOK, TodoOK
<1>6. PlacesOK
    BY <1>1, NoTaskFormed DEF PlacesOK, Placed, Apart
<1>7. RestOK
  <2>1. queue \in Seq(Handler)
    BY <1>1
  <2> QED
    BY <1>1, <1>2, <2>1 DEF RestOK
<1>8. FlagsOK
    BY DEF Init, FlagsOK
<1> QED
    BY <1>4, <1>5, <1>6, <1>7, <1>8 DEF Inv, Core

-----------------------------------------------------------------------------
(* Whose turn it is                                                        *)

\* Stages at which a handler has no turn yet; and those of requests on folders,
\* which take no lock.
Waiting == {"idle", "lookup", "lookupText", "blob", "find", "erase"}
Folders == {"transaction", "unlinkAll"}

\* A handler that is past its first stage holds the lock, or is about a folder.
\* Unless they raced, Live and the requests, and a request on a folder and the
\* others, exclude each other.
HoldsOK == \A h \in Handler : task[h].at \notin Waiting \cup Folders => Holds(h)
NamedOK ==
    \A h \in Handler : task[h].at \in Folders => task[h].op \in {"renameFolder", "deleteFolder"}
AloneOK ==
    ~raced =>
        /\ Busy(Live) => \A h \in Handler : ~Busy(h)
        /\ \A g, h \in Handler : task[h].at \in Folders /\ g # h => ~Busy(g)
Turn == HoldsOK /\ NamedOK /\ AloneOK

\* Only task t has changed.
Only(t) == \A u \in Task : u # t => task'[u] = task[u]

\* A step of a task that was busy: it gives the lock to the next one, or keeps it, or
\* asks for it.
LEMMA TurnStep ==
    ASSUME Turn, RestOK, NEW t \in Task, Only(t), raced => raced', Busy(t),
           \/ task'[t].at \in Waiting
           \/ task[t].at \in Folders /\ task'[t].at \in Folders /\ task'[t].op = task[t].op
           \/ Holds(t) /\ queue' = queue /\ task'[t].at \notin Folders
           \/ t = Live,
           \/ queue' = queue
           \/ t \in Handler /\ Holds(t) /\ queue' = Tail(queue)
           \/ t \in Handler /\ queue' = Append(queue, t)
    PROVE  Turn'
<1>1. Live \in Task /\ Handler \subseteq Task /\ Live \notin Handler
    BY ProjectFilesAssumption DEF ProjectFilesAssumption, Task
<1>2. HoldsOK'
  <2> SUFFICES ASSUME NEW h \in Handler, task'[h].at \notin Waiting \cup Folders
               PROVE  queue' # <<>> /\ Head(queue') = h
    BY DEF HoldsOK, Holds
  <2>1. CASE h = t
    BY <1>1, <2>1 DEF Holds, Folders
  <2>2. CASE h # t
    <3>1. queue # <<>> /\ Head(queue) = h
      BY <1>1, <2>2 DEF Only, Turn, HoldsOK, Holds
    <3>2. CASE queue' = queue
      BY <3>1, <3>2
    <3>3. CASE t \in Handler /\ Holds(t)
      BY <1>1, <2>2, <3>1, <3>3 DEF Holds
    <3>4. CASE t \in Handler /\ queue' = Append(queue, t)
      BY <3>1, <3>4 DEF RestOK
    <3> QED
      BY <3>2, <3>3, <3>4
  <2> QED
    BY <2>1, <2>2
<1>3. ASSUME NEW h \in Handler, task'[h].at \in Folders
      PROVE  task[h].at \in Folders /\ task'[h].op = task[h].op
  <2>1. CASE h = t
    BY <1>1, <1>3, <2>1 DEF Folders, Waiting
  <2>2. CASE h # t
    BY <1>1, <1>3, <2>2 DEF Only
  <2> QED
    BY <2>1, <2>2
<1>4. NamedOK'
    BY <1>3 DEF Turn, NamedOK
<1>5. \A u \in Task : Busy(u)' => Busy(u)
    BY DEF Only, Busy
<1>6. AloneOK'
    BY <1>1, <1>3, <1>5 DEF Turn, AloneOK
<1> QED
    BY <1>2, <1>4, <1>6 DEF Turn

\* A request begins: unless it raced, no other one is about a folder, or busy at all
\* if it is about one.
LEMMA TurnBegin ==
    ASSUME Turn, RestOK, TasksOK, NEW h \in Handler, NEW new, NEW folders \in BOOLEAN,
           Begin(h, new, folders), queue' = queue \/ queue' = Append(queue, h),
           \/ new.at \in Waiting
           \/ folders /\ new.at = "transaction" /\ new.op \in {"renameFolder", "deleteFolder"}
    PROVE  Turn'
<1>1. Live \in Task /\ Handler \subseteq Task /\ Live \notin Handler
    BY ProjectFilesAssumption DEF ProjectFilesAssumption, Task
<1>2. task'[h] = new /\ Only(h)
    BY <1>1 DEF Begin, TasksOK, Only
<1>3. HoldsOK'
  <2> SUFFICES ASSUME NEW g \in Handler, task'[g].at \notin Waiting \cup Folders
               PROVE  queue' # <<>> /\ Head(queue') = g
    BY DEF HoldsOK, Holds
  <2>1. g # h
    BY <1>2 DEF Folders
  <2>2. queue # <<>> /\ Head(queue) = g
    BY <1>1, <1>2, <2>1 DEF Only, Turn, HoldsOK, Holds
  <2> QED
    BY <2>2 DEF RestOK
<1>4. NamedOK'
    BY <1>1, <1>2 DEF Only, Turn, NamedOK, Folders, Waiting
<1>5. AloneOK'
  <2> SUFFICES ASSUME ~raced'
               PROVE  /\ ~Busy(Live)'
                      /\ \A g, i \in Handler : task'[i].at \in Folders /\ g # i => ~Busy(g)'
    BY DEF AloneOK
  <2>1. /\ ~raced /\ ~Busy(Live)
        /\ \A g \in Handler :
              Busy(g) => ~folders /\ task[g].op \notin {"renameFolder", "deleteFolder"}
    BY DEF Begin
  <2>2. ~Busy(Live)'
    BY <1>1, <1>2, <2>1 DEF Only, Busy
  <2>3. ASSUME NEW g \in Handler, NEW i \in Handler, task'[i].at \in Folders, g # i, Busy(g)'
        PROVE  FALSE
    <3>1. CASE i = h
      <4>1. folders
        BY <1>2, <2>3, <3>1 DEF Folders, Waiting
      <4>2. Busy(g)
        BY <1>1, <1>2, <2>3, <3>1 DEF Only, Busy
      <4> QED
        BY <2>1, <4>1, <4>2
    <3>2. CASE i # h
      <4>1. task[i].at \in Folders
        BY <1>1, <1>2, <2>3, <3>2 DEF Only
      <4>2. Busy(i) /\ task[i].op \in {"renameFolder", "deleteFolder"}
        BY <4>1 DEF Turn, NamedOK, Busy, Folders
      <4> QED
        BY <2>1, <4>2
    <3> QED
      BY <3>1, <3>2
  <2> QED
    BY <2>2, <2>3
<1> QED
    BY <1>3, <1>4, <1>5 DEF Turn

\* Whoever has the turn is alone past the first stages.
LEMMA Solo ==
    ASSUME Turn, ~raced, NEW t \in Task, Busy(t),
           Holds(t) \/ task[t].at \in Folders, NEW u \in Task, u # t
    PROVE  task[u].at \in Waiting
<1>1. CASE t = Live
    BY <1>1 DEF Task, Turn, AloneOK, Busy, Waiting
<1>2. CASE t # Live /\ u = Live
    BY <1>2 DEF Task, Turn, AloneOK, Busy, Waiting
<1>3. CASE t # Live /\ u # Live
  <2>1. t \in Handler /\ u \in Handler
    BY <1>3 DEF Task
  <2>2. CASE task[t].at \in Folders
    BY <2>1, <2>2 DEF Turn, AloneOK, Busy, Waiting
  <2>3. CASE Holds(t)
    <3>1. task[u].at \notin Folders
      BY <2>1 DEF Turn, AloneOK
    <3>2. ~Holds(u)
      BY <1>3, <2>3 DEF Holds
    <3> QED
      BY <2>1, <3>1, <3>2 DEF Turn, HoldsOK
  <2> QED
    BY <2>2, <2>3
<1> QED
    BY <1>1, <1>2, <1>3

\* An operation that is over gives the lock to the next one.
LEMMA OverShape ==
    ASSUME TasksOK, NEW t \in Task, Fails(t) \/ Done(t)
    PROVE  /\ Only(t) /\ Unlock(t)
           /\ task'[t].at \in {"idle", "jobs"} /\ (t # Live => task'[t].at = "idle")
BY NoTaskFormed DEF Fails, Done, TasksOK, Only

\* Whoever does the work of an operation holds the lock.
LEMMA OperationShape ==
    ASSUME TasksOK, NEW t \in Task, OperationStep(t)
    PROVE  /\ Holds(t) /\ task[t].at \in Operating /\ Only(t) /\ UNCHANGED ghostVars
           /\ \/ task'[t].at \in (Operating \cup {"write", "rewrite"}) \ {"blob"} /\ queue' = queue
              \/ Unlock(t) /\ task'[t].at \in {"idle", "jobs"} /\ (t # Live => task'[t].at = "idle")
<1>1. task[t] \in TaskState
    BY DEF TasksOK, FormedTask
<1>2. Holds(t) /\ task[t].at \in Operating /\ UNCHANGED ghostVars
    BY DEF OperationStep, WriteBlob, Insert, RemoveBlob, Find, Read, Store, Update, Restore,
           Refresh, Reread, FindToRemove, ReadToRemove, Delete, Unlink, At, Operating
<1> DEFINE Further == /\ Only(t) /\ queue' = queue
                      /\ task'[t].at \in (Operating \cup {"write", "rewrite"}) \ {"blob"}
<1>3. ASSUME NEW x \in (Operating \cup {"write", "rewrite"}) \ {"blob"}, Goto(t, x), queue' = queue
      PROVE  Further
    BY <1>1, <1>3 DEF Goto, TasksOK, Only, TaskState
<1>4. CASE WriteBlob(t) \/ Insert(t) \/ RemoveBlob(t)
  <2>1. Further \/ Fails(t) \/ Done(t)
    <3>1. CASE Insert(t)
      BY <1>3, <3>1 DEF Insert, Operating
    <3>2. CASE WriteBlob(t) /\ made # MaxFile
      BY <1>1, <3>2 DEF WriteBlob, TasksOK, Only, TaskState, Operating
    <3> QED
      BY <1>4, <3>1, <3>2 DEF WriteBlob, RemoveBlob
  <2> QED
    BY <1>2, <2>1, OverShape
<1>5. CASE Find(t) \/ Read(t) \/ Store(t) \/ Update(t) \/ Restore(t) \/ Refresh(t) \/ Reread(t)
  <2>1. UpdateIsNull(t) => Fails(t) \/ Done(t)
    BY DEF UpdateIsNull
  <2>2. CASE Find(t) \/ Read(t)
    <3>1. Further \/ Fails(t) \/ Done(t)
      BY <1>1, <2>1, <2>2 DEF Find, Read, TasksOK, Only, TaskState, Operating
    <3> QED
      BY <1>2, <3>1, OverShape
  <2>3. CASE Refresh(t) \/ Reread(t)
    <3>1. Further \/ Fails(t) \/ Done(t)
      BY <1>1, <2>1, <2>3 DEF Refresh, Reread, TasksOK, Only, TaskState, Operating
    <3> QED
      BY <1>2, <3>1, OverShape
  <2>4. CASE Store(t) \/ Update(t) \/ Restore(t)
    <3>1. Further \/ Fails(t) \/ Done(t)
      BY <1>3, <2>1, <2>4 DEF Store, Update, Restore, Operating
    <3> QED
      BY <1>2, <3>1, OverShape
  <2> QED
    BY <1>5, <2>2, <2>3, <2>4
<1>6. CASE FindToRemove(t) \/ ReadToRemove(t) \/ Delete(t) \/ Unlink(t)
  <2>1. \A any \in BOOLEAN : Removed(t, any) => Further \/ Done(t)
    BY <1>3 DEF Removed, Operating
  <2>2. Further \/ Fails(t) \/ Done(t)
    <3>1. CASE FindToRemove(t)
      BY <1>3, <2>1, <3>1 DEF FindToRemove, Operating
    <3>2. CASE ReadToRemove(t) \/ Delete(t) \/ Unlink(t)
      BY <1>3, <2>1, <3>2 DEF ReadToRemove, Delete, Unlink, Operating
    <3> QED
      BY <1>6, <3>1, <3>2
  <2> QED
    BY <1>2, <2>2, OverShape
<1> QED
    BY <1>4, <1>5, <1>6 DEF OperationStep

LEMMA OperationTurn ==
    ASSUME Turn, Inv, NEW t \in Task, OperationStep(t)
    PROVE  Turn'
<1>1. TasksOK /\ RestOK
    BY DEF Inv, Core
<1>2. /\ Holds(t) /\ task[t].at \in Operating /\ Only(t) /\ UNCHANGED raced
      /\ \/ task'[t].at \in (Operating \cup {"write", "rewrite"}) \ {"blob"} /\ queue' = queue
         \/ Unlock(t) /\ task'[t].at \in {"idle", "jobs"} /\ (t # Live => task'[t].at = "idle")
    BY <1>1, OperationShape DEF ghostVars
<1>3. Busy(t)
    BY <1>2 DEF Busy, Operating
<1>4. t = Live \/ t \in Handler
    BY DEF Task
<1>5. CASE task'[t].at \in (Operating \cup {"write", "rewrite"}) \ {"blob"} /\ queue' = queue
  <2>1. task'[t].at \notin Folders
    BY <1>5 DEF Operating, Folders
  <2> QED
    BY <1>1, <1>2, <1>3, <1>5, <2>1, TurnStep
<1>6. CASE Unlock(t) /\ task'[t].at \in {"idle", "jobs"} /\ (t # Live => task'[t].at = "idle")
  <2>1. t = Live \/ task'[t].at \in Waiting
    BY <1>6 DEF Waiting
  <2>2. queue' = queue \/ (t \in Handler /\ Holds(t) /\ queue' = Tail(queue))
    BY <1>2, <1>4, <1>6 DEF Unlock
  <2> QED
    BY <1>1, <1>2, <1>3, <2>1, <2>2, TurnStep
<1> QED
    BY <1>2, <1>5, <1>6

LEMMA RequestTurn ==
    ASSUME Turn, Inv, NEW h \in Handler, RequestStep(h)
    PROVE  Turn'
<1>1. TasksOK /\ RestOK /\ h \in Task /\ h # Live /\ task[h] \in TaskState
    BY ProjectFilesAssumption DEF Inv, Core, Task, TasksOK, FormedTask, ProjectFilesAssumption
<1>2. CASE Lookup(h) \/ RenameRows(h) \/ RenameConflicts(h) \/ UnlinkAll(h)
  <2>1. Only(h) /\ UNCHANGED <<queue, raced>> /\ task'[h].at \in Waiting /\ Busy(h)
    BY <1>1, <1>2, NoTaskFormed
    DEF Lookup, RenameRows, RenameConflicts, UnlinkAll, TasksOK, Only, TaskState, Waiting,
        ghostVars, Busy
  <2> QED
    BY <1>1, <2>1, TurnStep
<1>3. CASE LookupText(h)
  <2>1. Only(h) /\ UNCHANGED raced /\ task'[h].at \in Waiting /\ Busy(h)
    BY <1>1, <1>3, NoTaskFormed
    DEF LookupText, TasksOK, Only, TaskState, Waiting, ghostVars, Busy
  <2>2. queue' = queue \/ queue' = Append(queue, h)
    BY <1>3 DEF LookupText
  <2> QED
    BY <1>1, <2>1, <2>2, TurnStep
<1>4. CASE DeleteRows(h)
  <2>1. /\ Only(h) /\ UNCHANGED <<queue, raced>> /\ Busy(h)
        /\ task[h].at \in Folders /\ task'[h].at \in Folders /\ task'[h].op = task[h].op
    BY <1>1, <1>4 DEF DeleteRows, Goto, TasksOK, Only, TaskState, Folders, ghostVars, Busy
  <2> QED
    BY <1>1, <2>1, TurnStep
<1>5. CASE Write(h) \/ Erase(h) \/ Rewrite(h)
  <2>1. Holds(h) /\ UNCHANGED raced /\ Busy(h)
    BY <1>5 DEF Write, Erase, Rewrite, At, Busy, ghostVars
  <2>2. \/ Done(h)
        \/ queue' = queue /\ (Goto(h, "erase") \/ Goto(h, "findRemove"))
    BY <1>5 DEF Write, Erase, Rewrite
  <2>3. CASE Done(h)
    <3>1. Only(h) /\ Unlock(h) /\ task'[h].at \in Waiting
      BY <1>1, <2>3, OverShape DEF Waiting
    <3>2. queue' = Tail(queue)
      BY <1>1, <3>1 DEF Unlock
    <3> QED
      BY <1>1, <2>1, <3>1, <3>2, TurnStep
  <2>4. CASE queue' = queue /\ (Goto(h, "erase") \/ Goto(h, "findRemove"))
    <3>1. Only(h) /\ task'[h].at \notin Folders
      BY <1>1, <2>4 DEF Goto, TasksOK, Only, TaskState, Folders
    <3> QED
      BY <1>1, <2>1, <2>4, <3>1, TurnStep
  <2> QED
    BY <2>2, <2>3, <2>4
<1> QED
    BY <1>2, <1>3, <1>4, <1>5 DEF RequestStep

\* What the catch blocks make of a task, at each stage.
LEMMA CaughtShape ==
    ASSUME TasksOK, NEW t \in Task
    PROVE  \/ Caught(t) = NoTask /\ task[t].at \notin {"insert", "update"}
           \/ task[t].at = "insert" /\ Caught(t).at = "unblob"
           \/ /\ \/ task[t].at = "update"
                 \/ task[t].at = "refresh" /\ (t = Live \/ task[t].undo)
              /\ Caught(t).at = "restore" /\ Caught(t).id = task[t].id
              /\ Caught(t).cur = task[t].cur
           \/ task[t].at = "write" /\ Caught(t).at = "findRemove"
           \/ task[t].at \in {"write", "erase"} /\ Caught(t).at = "find"
<1>1. task[t] \in TaskState
    BY DEF TasksOK, FormedTask
<1>2. CASE task[t].at = "insert"
    BY <1>1, <1>2 DEF Caught, TaskState
<1>3. CASE task[t].at = "update" \/ (task[t].at = "refresh" /\ (t = Live \/ task[t].undo))
    BY <1>1, <1>3 DEF Caught, TaskState
<1>4. CASE task[t].at \in {"write", "erase"}
    BY <1>1, <1>4 DEF Caught, TaskState
<1>5. CASE /\ task[t].at \notin {"insert", "update", "write", "erase"}
           /\ ~(task[t].at = "refresh" /\ (t = Live \/ task[t].undo))
    BY <1>5 DEF Caught
<1> QED
    BY <1>2, <1>3, <1>4, <1>5

\* What the catch blocks do keeps a handler where it was: with the lock, or without.
LEMMA FailsTurn ==
    ASSUME Turn, Inv, NEW t \in Task, CallFails(t)
    PROVE  Turn'
<1>1. /\ TasksOK /\ RestOK /\ task[t] \in TaskState /\ task[t] \in FormedTask
      /\ t = Live \/ t \in Handler
    BY DEF Inv, Core, Task, TasksOK, FormedTask
<1>2. /\ task' = [task EXCEPT ![t] = Caught(t)] /\ Busy(t) /\ (raced => raced')
      /\ IF Caught(t) = NoTask
           THEN queue' = IF queue # <<>> /\ Head(queue) = t THEN Tail(queue) ELSE queue
           ELSE UNCHANGED queue
    BY DEF CallFails
<1>3. Only(t) /\ task'[t] = Caught(t)
    BY <1>1, <1>2 DEF Only, TasksOK
<1>4. CASE Caught(t) = NoTask
  <2>1. task'[t].at \in Waiting
    BY <1>3, <1>4, NoTaskFormed DEF Waiting
  <2>2. queue' = queue \/ (t \in Handler /\ Holds(t) /\ queue' = Tail(queue)) \/ t = Live
    BY <1>1, <1>2, <1>4 DEF Holds
  <2>3. t = Live => queue' = queue \/ Head(queue) = Live
    BY <1>2, <1>4
  <2>4. t = Live => queue' = queue
    <3> SUFFICES ASSUME t = Live, queue # <<>>, Head(queue) = Live PROVE FALSE
      BY <1>2, <1>4
    <3>1. Head(queue) \in Handler
      BY <1>1 DEF RestOK
    <3> QED
      BY <3>1, ProjectFilesAssumption DEF ProjectFilesAssumption
  <2> QED
    BY <1>1, <1>2, <1>3, <2>1, <2>2, <2>4, TurnStep
<1>5. CASE Caught(t) # NoTask
  <2>1. /\ Caught(t).at \in {"unblob", "restore", "findRemove", "find"}
        /\ task[t].at \in {"insert", "update", "refresh", "write", "erase"}
        /\ task[t].at = "erase" => Caught(t).at = "find"
    BY <1>1, <1>5, CaughtShape
  <2>2. \/ task'[t].at \in Waiting
        \/ Holds(t) /\ task'[t].at \notin Folders
        \/ t = Live
    <3>1. CASE task[t].at = "erase"
      BY <1>3, <2>1, <3>1 DEF Waiting
    <3>2. CASE task[t].at # "erase"
      BY <1>1, <1>3, <2>1, <3>2 DEF Turn, HoldsOK, Waiting, Folders, Holds
    <3> QED
      BY <3>1, <3>2
  <2> QED
    BY <1>1, <1>2, <1>3, <1>5, <2>2, TurnStep
<1> QED
    BY <1>4, <1>5

LEMMA BeginsTurn ==
    ASSUME Turn, Inv, NEW h \in Handler, Begins(h)
    PROVE  Turn'
<1>1. TasksOK /\ RestOK
    BY DEF Inv, Core
<1>2. ASSUME NEW p \in Path, NEW c \in Content, RequestCreate(h, p, c) PROVE Turn'
  <2> DEFINE new == [NoTask EXCEPT !.op = "create", !.at = "blob", !.path = p, !.text = c]
  <2>1. Begin(h, new, FALSE) /\ queue' = Append(queue, h)
    BY <1>2 DEF RequestCreate
  <2>2. new.at \in Waiting
    BY DEF NoTask, Waiting
  <2> HIDE DEF new
  <2> QED
    BY <1>1, <2>1, <2>2, TurnBegin
<1>3. ASSUME NEW f \in 1..made, NEW p \in Path \cup {NoPath}, NEW c \in Content \cup {None},
             RequestPatch(h, f, p, c)
      PROVE  Turn'
  <2> DEFINE new == [NoTask EXCEPT !.op = "patch", !.at = "lookup", !.id = f, !.path = p,
                                   !.text = c]
  <2>1. Begin(h, new, FALSE) /\ queue' = queue
    BY <1>3 DEF RequestPatch
  <2>2. new.at \in Waiting
    BY DEF NoTask, Waiting
  <2> HIDE DEF new
  <2> QED
    BY <1>1, <2>1, <2>2, TurnBegin
<1>4. ASSUME NEW f \in 1..made, RequestDelete(h, f) PROVE Turn'
  <2> DEFINE new == [NoTask EXCEPT !.op = "delete", !.at = "lookup", !.id = f]
  <2>1. Begin(h, new, FALSE) /\ queue' = queue
    BY <1>4 DEF RequestDelete
  <2>2. new.at \in Waiting
    BY DEF NoTask, Waiting
  <2> HIDE DEF new
  <2> QED
    BY <1>1, <2>1, <2>2, TurnBegin
<1>5. ASSUME NEW op \in {"renameFolder", "deleteFolder"}, NEW files,
             Begin(h, [NoTask EXCEPT !.op = op, !.at = "transaction", !.files = files], TRUE),
             queue' = queue
      PROVE  Turn'
  <2> DEFINE new == [NoTask EXCEPT !.op = op, !.at = "transaction", !.files = files]
  <2>1. Begin(h, new, TRUE) /\ new.at = "transaction" /\ new.op = op
    BY <1>5 DEF NoTask
  <2> HIDE DEF new
  <2> QED
    BY <1>1, <1>5, <2>1, TurnBegin
<1>6. ASSUME NEW d \in Folder, NEW e \in Folder, RequestRenameFolder(h, d, e) PROVE Turn'
    BY <1>5, <1>6 DEF RequestRenameFolder
<1>7. ASSUME NEW d \in Folder, RequestDeleteFolder(h, d) PROVE Turn'
    BY <1>5, <1>7 DEF RequestDeleteFolder
<1> QED
    BY <1>2, <1>3, <1>4, <1>6, <1>7 DEF Begins

\* A step of Live that is no operation leaves the lock and the handlers alone.
LEMMA LiveShape ==
    ASSUME TasksOK, LiveStep
    PROVE  /\ Only(Live) /\ Busy(Live) /\ UNCHANGED <<queue, ghostVars, storeVars>>
           /\ task'[Live].at \in {"reading", "jobs", "find", "blob", "findRemove", "reconciled",
                                  "idle"}
<1>1. Live \in Task /\ task[Live] \in TaskState
    BY DEF TasksOK, FormedTask, Task
<1>2. Only(Live)
    BY DEF LiveStep, ReadListed, Put, StartJob, Clear, Hydrated, Scan, Reconcile, Rest, Goto,
           TasksOK, Only
<1>3. Busy(Live) /\ UNCHANGED <<queue, ghostVars, storeVars>>
    BY DEF LiveStep, ReadListed, Put, StartJob, Clear, Hydrated, Scan, Reconcile, Rest, Busy
<1>4. ASSUME NEW j \in todo, StartJob(j)
      PROVE  task'[Live].at \in {"find", "blob", "findRemove"}
    BY <1>1, <1>4 DEF StartJob, TasksOK, NoTask
<1>5. CASE Clear \/ Hydrated \/ Scan \/ Reconcile \/ Rest
  <2>1. task'[Live].at \in {"jobs", "reconciled", "idle"}
    <3>1. CASE Clear \/ Scan
      BY <1>1, <3>1 DEF Clear, Scan, TasksOK, NoTask
    <3>2. CASE Hydrated \/ Rest
      BY <1>1, <3>2, NoTaskFormed DEF Hydrated, Rest, TasksOK
    <3>3. CASE Reconcile
      BY <1>1, <3>3 DEF Reconcile, Goto, TasksOK, TaskState
    <3> QED
      BY <1>5, <3>1, <3>2, <3>3
  <2> QED
    BY <1>2, <1>3, <2>1
<1>6. ASSUME NEW j \in todo, ReadListed(j) \/ Put(j)
      PROVE  task'[Live].at \in {"reading", "jobs"}
    BY <1>1, <1>6 DEF ReadListed, Put, TasksOK, TaskState
<1> QED
    BY <1>2, <1>3, <1>4, <1>5, <1>6 DEF LiveStep

LEMMA LiveTurn ==
    ASSUME Turn, Inv, List("hydrate") \/ List("reconcile") \/ LiveStep
    PROVE  Turn'
<1>1. TasksOK /\ RestOK /\ Live \in Task /\ Live \notin Handler
    BY ProjectFilesAssumption DEF Inv, Core, Task, ProjectFilesAssumption
<1>2. ASSUME NEW op \in {"hydrate", "reconcile"}, List(op) PROVE Turn'
  <2>1. /\ \A h \in Handler : task'[h] = task[h]
        /\ queue' = queue /\ (~raced' => ~raced /\ \A h \in Handler : ~Busy(h))
    BY <1>1, <1>2 DEF List, TasksOK, Task
  <2>2. HoldsOK' /\ NamedOK'
    BY <1>1, <2>1 DEF Turn, HoldsOK, NamedOK, Holds
  <2>3. AloneOK'
    BY <2>1 DEF AloneOK, Busy, Folders
  <2> QED
    BY <2>2, <2>3 DEF Turn
<1>3. CASE LiveStep
    BY <1>1, <1>3, LiveShape, TurnStep DEF ghostVars
<1> QED
    BY <1>2, <1>3

LEMMA TurnNext ==
    ASSUME Turn, Inv, [Next]_vars
    PROVE  Turn'
<1>1. ASSUME UNCHANGED <<task, queue, raced>> PROVE Turn'
    BY <1>1 DEF Turn, HoldsOK, NamedOK, AloneOK, Holds, Busy
<1>2. CASE \/ \E p \in Path, c \in Content \cup {None} : Save(p, c)
           \/ \E p, q \in Path : Move(p, q)
           \/ UNCHANGED vars
    BY <1>1, <1>2 DEF Save, Move, Edited, vars, ghostVars
<1>3. CASE Crash
  <2>1. raced' /\ \A h \in Handler : task'[h].at = "idle"
    BY <1>3, NoTaskFormed DEF Crash, Task
  <2> QED
    BY <2>1 DEF Turn, HoldsOK, NamedOK, AloneOK, Waiting, Folders
<1> QED
    BY <1>2, <1>3, OperationTurn, RequestTurn, FailsTurn, BeginsTurn, LiveTurn DEF Next

LEMMA InitTurn ==
    ASSUME Init
    PROVE  Turn
<1>1. \A t \in Task : task[t].at = "idle"
    BY NoTaskFormed DEF Init
<1> QED
    BY <1>1 DEF Turn, HoldsOK, NamedOK, AloneOK, Waiting, Folders, Busy, Task

-----------------------------------------------------------------------------
(* The hash in the row is that of the blob                                 *)

\* What a task knows of them, at the stages of a creation, of an update and of a
\* rename: what it read is what the row says until it writes the row.
HashKnown(k) ==
    /\ k.at = "insert" => blob[k.id] = k.text
    /\ k.at \in {"store", "update", "restore"} /\ row[k.id] # NoRow => row[k.id].hash = k.cur.text
    /\ k.at = "update" => blob[k.id] = IF k.text = None THEN k.cur.text ELSE k.text
    /\ k.at = "transaction" /\ k.op = "renameFolder" =>
          \A r \in k.files : row[r.id] # NoRow => row[r.id].hash = r.hash

HashOK == ~raced => HashTracksBlob /\ \A t \in Task : HashKnown(task[t])

\* What a step has to show that one makes who has the turn.
Tracks(t) ==
    \A f \in File : row'[f] # NoRow => \/ task'[t].id = f /\ task'[t].at \in {"update", "restore"}
                                       \/ row'[f].hash = blob'[f]

LEMMA HashSolo ==
    ASSUME TasksOK, NEW t \in Task, Only(t), \A u \in Task : u # t => task[u].at \in Waiting,
           HashKnown(task[t])', Tracks(t)
    PROVE  HashOK'
<1>1. ASSUME NEW u \in Task PROVE HashKnown(task[u])'
  <2>1. CASE u = t
    BY <2>1
  <2>2. CASE u # t
    <3>1. task'[u].at \in Waiting
      BY <2>2 DEF Only
    <3> QED
      BY <3>1 DEF HashKnown, Waiting
  <2> QED
    BY <2>1, <2>2
<1>2. HashTracksBlob'
    BY DEF Tracks, HashTracksBlob, Stored, InUpdate
<1> QED
    BY <1>1, <1>2 DEF HashOK

\* Before the step of one who has the turn, every other file has its hash.
LEMMA HashTurn ==
    ASSUME Turn, HashOK, ~raced, NEW t \in Task, Busy(t), Holds(t) \/ task[t].at \in Folders
    PROVE  /\ \A u \in Task : u # t => task[u].at \in Waiting
           /\ HashKnown(task[t])
           /\ \A f \in File :
                 row[f] # NoRow => \/ task[t].id = f /\ task[t].at \in {"update", "restore"}
                                   \/ row[f].hash = blob[f]
<1>1. \A u \in Task : u # t => task[u].at \in Waiting
    BY Solo
<1>2. \A f \in File : InUpdate(f) => task[t].id = f /\ task[t].at \in {"update", "restore"}
    BY <1>1 DEF InUpdate, Waiting
<1> QED
    BY <1>1, <1>2 DEF HashOK, HashTracksBlob, Stored

\* A step that writes no row and no blob, of a task that does not update a file, or
\* goes on with it.
LEMMA HashQuiet ==
    ASSUME HashOK, NEW t \in Task, Only(t), UNCHANGED <<row, blob>>, raced => raced',
           ~raced' /\ task[t].at \in {"update", "restore"} =>
              \/ task'[t].id = task[t].id /\ task'[t].at \in {"update", "restore"}
              \/ row[task[t].id] = NoRow,
           ~raced' => HashKnown(task[t])'
    PROVE  HashOK'
<1> SUFFICES ASSUME ~raced' PROVE HashTracksBlob' /\ \A u \in Task : HashKnown(task[u])'
    BY DEF HashOK
<1>1. ASSUME NEW u \in Task PROVE HashKnown(task[u])'
  <2>1. CASE u # t
    <3>1. task'[u] = task[u] /\ HashKnown(task[u])
      BY <2>1 DEF Only, HashOK
    <3> QED
      BY <3>1 DEF HashKnown
  <2> QED
    BY <2>1
<1>2. ASSUME NEW f \in File, row'[f] # NoRow, ~InUpdate(f)' PROVE row'[f].hash = blob'[f]
  <2>1. ~InUpdate(f)
    <3> SUFFICES ASSUME NEW u \in Task, task[u].id = f, task[u].at \in {"update", "restore"}
                 PROVE  FALSE
      BY DEF InUpdate
    <3>1. CASE u = t
      BY <1>2, <3>1 DEF InUpdate
    <3>2. CASE u # t
      BY <1>2, <3>2 DEF InUpdate, Only
    <3> QED
      BY <3>1, <3>2
  <2> QED
    BY <1>2, <2>1 DEF HashOK, HashTracksBlob, Stored
<1> QED
    BY <1>1, <1>2 DEF HashTracksBlob, Stored

\* At most stages a task knows nothing of hashes.
LEMMA KnowsNone ==
    ASSUME NEW t \in Task,
           task'[t].at \notin {"insert", "store", "update", "restore", "transaction"}
    PROVE  HashKnown(task[t])'
BY DEF HashKnown

LEMMA CreateHash ==
    ASSUME Turn, HashOK, Core, NEW t \in Task, ~raced,
           WriteBlob(t) \/ Insert(t) \/ RemoveBlob(t)
    PROVE  HashOK'
<1>1. /\ TasksOK /\ StoreOK /\ task[t] \in TaskState /\ task[t] \in FormedTask
      /\ Holds(t) /\ Busy(t) /\ Only(t) /\ UNCHANGED ghostVars
    BY OperationShape DEF Core, TasksOK, FormedTask, OperationStep, Busy, Operating
<1>2. /\ \A u \in Task : u # t => task[u].at \in Waiting
      /\ HashKnown(task[t])
      /\ \A f \in File :
            row[f] # NoRow => \/ task[t].id = f /\ task[t].at \in {"update", "restore"}
                              \/ row[f].hash = blob[f]
    BY <1>1, HashTurn
<1>3. CASE WriteBlob(t) /\ made # MaxFile
  <2>1. /\ blob' = [blob EXCEPT ![made + 1] = task[t].text] /\ UNCHANGED row
        /\ task' = [task EXCEPT ![t].id = made + 1, ![t].at = "insert"]
        /\ task[t].at = "blob"
    BY <1>3 DEF WriteBlob, At
  <2>2. made + 1 \in File /\ row[made + 1] = NoRow
    BY <1>1, <1>3, ProjectFilesAssumption DEF ProjectFilesAssumption, StoreOK, File
  <2>3. task'[t].id = made + 1 /\ task'[t].at = "insert" /\ task'[t].text = task[t].text
    BY <1>1, <2>1 DEF TasksOK, TaskState
  <2>4. HashKnown(task[t])'
    BY <1>1, <2>1, <2>2, <2>3 DEF HashKnown, StoreOK
  <2>5. Tracks(t)
    BY <1>1, <1>2, <2>1, <2>2 DEF Tracks, StoreOK
  <2> QED
    BY <1>1, <1>2, <2>4, <2>5, HashSolo
<1>4. CASE WriteBlob(t) /\ made = MaxFile
  <2>1. UNCHANGED <<row, blob>> /\ Fails(t) /\ task[t].at = "blob"
    BY <1>4 DEF WriteBlob, At
  <2> QED
    BY <1>1, <2>1, OverShape, KnowsNone, HashQuiet DEF ghostVars
<1>5. CASE Insert(t)
  <2>1. task[t].at = "insert" /\ task[t].id \in File /\ blob[task[t].id] = task[t].text
    BY <1>1, <1>2, <1>5, KnownIds DEF Insert, At, WithFile, HashKnown
  <2>2. task'[t].at \in {"unblob", "write", "idle", "jobs"}
    <3>1. Goto(t, "unblob") \/ Goto(t, "write") \/ Done(t)
      BY <1>5 DEF Insert
    <3>2. CASE Goto(t, "unblob") \/ Goto(t, "write")
      BY <1>1, <3>2 DEF Goto, TasksOK, TaskState
    <3> QED
      BY <1>1, <3>1, <3>2, OverShape
  <2>3. HashKnown(task[t])'
    BY <2>2, KnowsNone
  <2>4. /\ UNCHANGED blob
        /\ \/ UNCHANGED row
           \/ row' = [row EXCEPT ![task[t].id] = [path |-> task[t].path, hash |-> task[t].text]]
    BY <1>5 DEF Insert
  <2>5. Tracks(t)
    BY <1>1, <1>2, <2>1, <2>4 DEF Tracks, StoreOK
  <2> QED
    BY <1>1, <1>2, <2>3, <2>5, HashSolo
<1>6. CASE RemoveBlob(t)
  <2>1. /\ task[t].at = "unblob" /\ UNCHANGED row /\ Fails(t)
        /\ blob' = [blob EXCEPT ![task[t].id] = None]
    BY <1>6 DEF RemoveBlob, At
  <2>2. task[t].id \in File /\ row[task[t].id] = NoRow
    BY <1>1, <2>1, KnownIds DEF WithFile, Core, PlacesOK, Placed
  <2>3. HashKnown(task[t])'
    BY <1>1, <2>1, OverShape, KnowsNone
  <2>4. Tracks(t)
    BY <1>1, <1>2, <2>1, <2>2 DEF Tracks, StoreOK
  <2> QED
    BY <1>1, <1>2, <2>3, <2>4, HashSolo
<1> QED
    BY <1>3, <1>4, <1>5, <1>6

\* The update reads the content whose hash the row has, and writes the row when the
\* new content is there; where it cannot, the content goes back.
LEMMA UpdateHash ==
    ASSUME Turn, HashOK, Core, NEW t \in Task, ~raced,
           Read(t) \/ Store(t) \/ Update(t) \/ Restore(t)
    PROVE  HashOK'
<1>1. /\ TasksOK /\ StoreOK /\ task[t] \in TaskState /\ task[t] \in FormedTask
      /\ Holds(t) /\ Busy(t) /\ Only(t) /\ UNCHANGED ghostVars
    BY OperationShape DEF Core, TasksOK, FormedTask, OperationStep, Busy, Operating
<1>2. /\ \A u \in Task : u # t => task[u].at \in Waiting
      /\ HashKnown(task[t])
      /\ \A f \in File :
            row[f] # NoRow => \/ task[t].id = f /\ task[t].at \in {"update", "restore"}
                              \/ row[f].hash = blob[f]
    BY <1>1, HashTurn
<1>3. task[t].at \in {"read", "store", "update", "restore"} /\ task[t].id \in File
  <2>1. task[t].at \in {"read", "store", "update", "restore"}
    BY DEF Read, Store, Update, Restore, At
  <2> QED
    BY <1>1, <2>1, KnownIds DEF WithFile
<1>4. CASE Read(t)
  <2>1. UNCHANGED <<row, blob>> /\ task[t].at = "read"
    BY <1>4 DEF Read, At, storeVars
  <2>2. CASE Fails(t)
    BY <1>1, <2>1, <2>2, OverShape, KnowsNone, HashQuiet DEF ghostVars
  <2>3. CASE task' = [task EXCEPT ![t].cur.text = blob[task[t].id], ![t].at = "store"]
    <3>1. task'[t].id = task[t].id /\ task'[t].at = "store"
          /\ task'[t].cur.text = blob[task[t].id]
      BY <1>1, <2>3 DEF TasksOK, TaskState, Text
    <3>2. HashKnown(task[t])'
      BY <1>2, <1>3, <2>1, <3>1 DEF HashKnown
    <3> QED
      BY <1>1, <2>1, <3>2, HashQuiet DEF ghostVars
  <2> QED
    BY <1>4, <2>2, <2>3 DEF Read
<1>5. CASE Store(t)
  <2>1. /\ blob' = [blob EXCEPT ![task[t].id] = NextText(t)] /\ UNCHANGED row
        /\ Goto(t, "update") /\ task[t].at = "store"
    BY <1>5 DEF Store, At
  <2>2. /\ task'[t].id = task[t].id /\ task'[t].at = "update"
        /\ task'[t].cur = task[t].cur /\ task'[t].text = task[t].text
    BY <1>1, <2>1 DEF Goto, TasksOK, TaskState
  <2>3. blob'[task[t].id] = NextText(t)
    BY <1>1, <1>3, <2>1 DEF StoreOK
  <2>4. HashKnown(task[t])'
    BY <1>2, <2>1, <2>2, <2>3 DEF HashKnown, NextText
  <2>5. Tracks(t)
    BY <1>1, <1>2, <1>3, <2>1, <2>2 DEF Tracks, StoreOK
  <2> QED
    BY <1>1, <1>2, <2>4, <2>5, HashSolo
<1>6. CASE Update(t)
  <2>1. task[t].at = "update" /\ UNCHANGED blob /\ blob[task[t].id] = NextText(t)
    BY <1>2, <1>6 DEF Update, At, HashKnown, NextText
  <2>2. CASE row[task[t].id] = NoRow
    <3>1. (Fails(t) \/ Done(t)) /\ UNCHANGED row
      BY <1>6, <2>2 DEF Update, UpdateIsNull
    <3> QED
      BY <1>1, <2>1, <2>2, <3>1, OverShape, KnowsNone, HashQuiet DEF ghostVars
  <2>3. CASE row[task[t].id] # NoRow /\ Taken(NextPath(t), task[t].id)
    <3>1. Goto(t, "restore") /\ UNCHANGED row
      BY <1>6, <2>3 DEF Update
    <3>2. task'[t].id = task[t].id /\ task'[t].at = "restore" /\ task'[t].cur = task[t].cur
      BY <1>1, <3>1 DEF Goto, TasksOK, TaskState
    <3>3. HashKnown(task[t])'
      BY <1>2, <2>1, <3>1, <3>2 DEF HashKnown
    <3> QED
      BY <1>1, <2>1, <3>1, <3>2, <3>3, HashQuiet DEF ghostVars
  <2>4. CASE row[task[t].id] # NoRow /\ ~Taken(NextPath(t), task[t].id)
    <3>1. /\ row' = [row EXCEPT ![task[t].id] = [path |-> NextPath(t), hash |-> NextText(t)]]
          /\ Goto(t, "refresh")
      BY <1>6, <2>4 DEF Update
    <3>2. task'[t].at = "refresh"
      BY <1>1, <3>1 DEF Goto, TasksOK, TaskState
    <3>3. HashKnown(task[t])'
      BY <3>2, KnowsNone
    <3>4. Tracks(t)
      BY <1>1, <1>2, <1>3, <2>1, <3>1 DEF Tracks, StoreOK
    <3> QED
      BY <1>1, <1>2, <3>3, <3>4, HashSolo
  <2> QED
    BY <2>2, <2>3, <2>4
<1>7. CASE Restore(t)
  <2>1. /\ task[t].at = "restore" /\ UNCHANGED row /\ Fails(t)
        /\ blob' = [blob EXCEPT ![task[t].id] = task[t].cur.text]
    BY <1>7 DEF Restore, At
  <2>2. HashKnown(task[t])'
    BY <1>1, <2>1, OverShape, KnowsNone
  <2>3. row[task[t].id] # NoRow => row[task[t].id].hash = task[t].cur.text
    BY <1>2, <2>1 DEF HashKnown
  <2>4. Tracks(t)
    BY <1>1, <1>2, <1>3, <2>1, <2>3 DEF Tracks, StoreOK
  <2> QED
    BY <1>1, <1>2, <2>2, <2>4, HashSolo
<1> QED
    BY <1>4, <1>5, <1>6, <1>7

LEMMA DeleteHash ==
    ASSUME Turn, HashOK, Core, NEW t \in Task, ~raced, Delete(t) \/ Unlink(t)
    PROVE  HashOK'
<1>1. /\ TasksOK /\ StoreOK /\ task[t] \in TaskState /\ task[t] \in FormedTask
      /\ Holds(t) /\ Busy(t) /\ Only(t)
    BY OperationShape DEF Core, TasksOK, FormedTask, OperationStep, Busy, Operating
<1>2. /\ \A u \in Task : u # t => task[u].at \in Waiting
      /\ \A f \in File :
            row[f] # NoRow => \/ task[t].id = f /\ task[t].at \in {"update", "restore"}
                              \/ row[f].hash = blob[f]
    BY <1>1, HashTurn
<1>3. task[t].at \in {"delete", "unlink"} /\ task[t].id \in File
  <2>1. task[t].at \in {"delete", "unlink"}
    BY DEF Delete, Unlink, At
  <2> QED
    BY <1>1, <2>1, KnownIds DEF WithFile
<1>4. HashKnown(task[t])'
  <2>1. Goto(t, "rewrite") \/ Goto(t, "unlink") \/ Done(t)
    BY DEF Delete, Unlink, Removed
  <2>2. task'[t].at \in {"rewrite", "unlink", "idle", "jobs"}
    <3>1. CASE Goto(t, "rewrite") \/ Goto(t, "unlink")
      BY <1>1, <3>1 DEF Goto, TasksOK, TaskState
    <3> QED
      BY <1>1, <2>1, <3>1, OverShape
  <2> QED
    BY <2>2, KnowsNone
<1>5. CASE Delete(t)
  <2>1. /\ UNCHANGED blob
        /\ row' = row \/ row' = [row EXCEPT ![task[t].id] = NoRow]
    BY <1>5 DEF Delete
  <2>2. Tracks(t)
    BY <1>1, <1>2, <1>3, <2>1 DEF Tracks, StoreOK
  <2> QED
    BY <1>1, <1>2, <1>4, <2>2, HashSolo
<1>6. CASE Unlink(t)
  <2>1. UNCHANGED row /\ blob' = [blob EXCEPT ![task[t].id] = None] /\ task[t].at = "unlink"
    BY <1>6 DEF Unlink, At
  <2>2. row[task[t].id] = NoRow
    BY <2>1 DEF Core, PlacesOK, Placed
  <2>3. Tracks(t)
    BY <1>1, <1>2, <1>3, <2>1, <2>2 DEF Tracks, StoreOK
  <2> QED
    BY <1>1, <1>2, <1>4, <2>3, HashSolo
<1> QED
    BY <1>5, <1>6

LEMMA OperationHash ==
    ASSUME Turn, HashOK, Core, NEW t \in Task, OperationStep(t)
    PROVE  HashOK'
<1>1. TasksOK /\ task[t] \in TaskState /\ Only(t) /\ UNCHANGED raced
    BY OperationShape DEF Core, TasksOK, FormedTask, ghostVars
<1>2. CASE raced
    BY <1>1, <1>2 DEF HashOK
<1>3. CASE Find(t) \/ Refresh(t) \/ Reread(t) \/ FindToRemove(t) \/ ReadToRemove(t)
  <2>1. UNCHANGED <<row, blob>> /\ task[t].at \notin {"update", "restore"}
    BY <1>3 DEF Find, Refresh, Reread, FindToRemove, ReadToRemove, At, storeVars
  <2>2. task'[t].at \notin {"insert", "store", "update", "restore", "transaction"}
    <3>1. CASE Fails(t) \/ Done(t)
      BY <1>1, <3>1, OverShape
    <3>2. CASE \E x \in {"rewrite", "readRemove", "delete"} : Goto(t, x)
      BY <1>1, <3>2 DEF Goto, TasksOK, TaskState
    <3>3. CASE ~(Fails(t) \/ Done(t)) /\ (Find(t) \/ Refresh(t) \/ Reread(t))
      <4>1. ~UpdateIsNull(t)
        BY <3>3 DEF UpdateIsNull
      <4> QED
        BY <1>1, <3>3, <4>1 DEF Find, Refresh, Reread, TasksOK, TaskState
    <3>4. ASSUME FindToRemove(t) \/ ReadToRemove(t)
          PROVE  Fails(t) \/ Done(t) \/ \E x \in {"rewrite", "readRemove", "delete"} : Goto(t, x)
      BY <3>4 DEF FindToRemove, ReadToRemove, Removed
    <3> QED
      BY <1>3, <3>1, <3>2, <3>3, <3>4
  <2> QED
    BY <1>1, <2>1, <2>2, KnowsNone, HashQuiet
<1> QED
    BY <1>2, <1>3, CreateHash, UpdateHash, DeleteHash DEF OperationStep

\* A request on a folder gives the rows the hashes they had, as nobody has written
\* them since it listed them.
LEMMA RequestHash ==
    ASSUME Turn, HashOK, Core, NEW h \in Handler, RequestStep(h)
    PROVE  HashOK'
<1>1. /\ h \in Task /\ TasksOK /\ StoreOK /\ task[h] \in TaskState
      /\ \A r \in task[h].files : r \in Listing
    BY DEF Core, TasksOK, FormedTask, TaskState, Task
<1>2. CASE \/ Lookup(h) \/ LookupText(h) \/ Write(h) \/ Erase(h) \/ Rewrite(h) \/ RenameConflicts(h)
  <2>1. UNCHANGED <<row, blob, raced>> /\ task[h].at \notin {"update", "restore"}
    BY <1>2 DEF Lookup, LookupText, Write, Erase, Rewrite, RenameConflicts, At, storeVars, ghostVars
  <2>2. Only(h) /\ task'[h].at \in {"idle", "lookupText", "find", "erase", "findRemove"}
    <3>1. CASE Lookup(h) \/ LookupText(h) \/ RenameConflicts(h)
      <4>1. \E k : task' = [task EXCEPT ![h] = k]
        BY <3>1, Zenon DEF Lookup, LookupText, RenameConflicts
      <4>2. task'[h] = NoTask \/ task'[h].at \in {"lookupText", "find", "erase"}
        <5>1. CASE Lookup(h)
          BY <1>1, <5>1 DEF Lookup, TasksOK, TaskState
        <5>2. CASE LookupText(h) \/ RenameConflicts(h)
          BY <1>1, <5>2 DEF LookupText, RenameConflicts, TasksOK, TaskState
        <5> QED
          BY <3>1, <5>1, <5>2
      <4>3. Only(h)
        BY <4>1 DEF TasksOK, Only
      <4> QED
        BY <4>2, <4>3, NoTaskFormed
    <3>2. CASE Write(h) \/ Erase(h) \/ Rewrite(h)
      <4>1. Done(h) \/ Goto(h, "erase") \/ Goto(h, "findRemove")
        BY <3>2 DEF Write, Erase, Rewrite
      <4>2. CASE Goto(h, "erase") \/ Goto(h, "findRemove")
        BY <1>1, <4>2 DEF Goto, TasksOK, TaskState, Only
      <4> QED
        BY <1>1, <4>1, <4>2, OverShape, ProjectFilesAssumption DEF ProjectFilesAssumption
    <3> QED
      BY <1>2, <3>1, <3>2
  <2> QED
    BY <1>1, <2>1, <2>2, KnowsNone, HashQuiet
<1>3. CASE RenameRows(h) \/ DeleteRows(h) \/ UnlinkAll(h)
  <2>1. task[h].at \in Folders /\ Busy(h) /\ UNCHANGED raced
    BY <1>3 DEF RenameRows, DeleteRows, UnlinkAll, Folders, Busy, ghostVars
  <2>2. CASE raced
    BY <2>1, <2>2 DEF HashOK
  <2> SUFFICES ASSUME ~raced PROVE HashOK'
    BY <2>2
  <2>3. /\ \A u \in Task : u # h => task[u].at \in Waiting
        /\ HashKnown(task[h])
        /\ \A f \in File : row[f] # NoRow => row[f].hash = blob[f]
    BY <1>1, <2>1, HashTurn DEF Folders
  <2>4. Only(h) /\ task'[h].at \in {"idle", "unlinkAll"}
    BY <1>1, <1>3, NoTaskFormed
    DEF RenameRows, DeleteRows, UnlinkAll, Goto, TasksOK, TaskState, Only
  <2>5. HashKnown(task[h])'
    BY <1>1, <2>4, KnowsNone
  <2>6. Tracks(h)
    <3>1. CASE RenameRows(h)
      <4> DEFINE Of(f) == {r \in task[h].files : r.id = f}
                 Named(f) == {[path |-> r.path, hash |-> r.hash] : r \in Of(f)}
      <4>1. /\ row' = [f \in File |-> IF row[f] = NoRow \/ Of(f) = {} THEN row[f]
                                      ELSE CHOOSE q \in Named(f) : TRUE]
            /\ UNCHANGED blob
            /\ task[h].op = "renameFolder" /\ task[h].at = "transaction"
        BY <3>1 DEF RenameRows
      <4>2. ASSUME NEW f \in File, row[f] # NoRow, Of(f) # {}
            PROVE  (CHOOSE q \in Named(f) : TRUE).hash = row[f].hash
        <5>1. \A r \in Of(f) : r.hash = row[f].hash
          BY <2>3, <4>1, <4>2 DEF HashKnown
        <5>2. \A q \in Named(f) : q.hash = row[f].hash
          BY <5>1
        <5>3. PICK r \in Of(f) : TRUE
          BY <4>2
        <5>4. [path |-> r.path, hash |-> r.hash] \in Named(f)
          BY <5>3
        <5> HIDE DEF Named
        <5> QED
          BY <5>2, <5>4
      <4> HIDE DEF Of, Named
      <4>3. \A f \in File : row'[f] # NoRow => row[f] # NoRow /\ row'[f].hash = row[f].hash
        BY <4>1, <4>2
      <4> QED
        BY <2>3, <4>1, <4>3 DEF Tracks
    <3>2. CASE DeleteRows(h)
      BY <2>3, <3>2 DEF DeleteRows, Tracks
    <3>3. CASE UnlinkAll(h)
      <4>1. \A f \in File : row[f] # NoRow => f \notin Listed(h)
        BY <1>1, <3>3 DEF UnlinkAll, Core, PlacesOK, Placed, Listed
      <4> QED
        BY <2>3, <3>3, <4>1 DEF UnlinkAll, Tracks
    <3> QED
      BY <1>3, <3>1, <3>2, <3>3
  <2> QED
    BY <1>1, <2>3, <2>4, <2>5, <2>6, HashSolo
<1> QED
  BY <1>2, <1>3 DEF RequestStep

LEMMA BeginsHash ==
    ASSUME HashOK, Core, NEW h \in Handler, Begins(h)
    PROVE  HashOK'
<1>1. h \in Task /\ TasksOK
    BY DEF Core, Task
<1>2. ASSUME NEW new, NEW folders \in BOOLEAN, Begin(h, new, folders),
             \/ new.at \in {"blob", "lookup"}
             \/ new.at = "transaction" /\ \A r \in new.files : row[r.id].hash = r.hash
      PROVE  HashOK'
  <2>1. /\ task'[h] = new /\ Only(h) /\ UNCHANGED <<row, blob>> /\ (raced => raced')
        /\ task[h].at \notin {"update", "restore"}
    BY <1>1, <1>2 DEF Begin, Busy, TasksOK, Only, storeVars
  <2>2. HashKnown(task[h])'
    BY <1>2, <2>1 DEF HashKnown
  <2> QED
    BY <1>1, <2>1, <2>2, HashQuiet
<1>3. ASSUME NEW p \in Path, NEW c \in Content, RequestCreate(h, p, c) PROVE HashOK'
  <2> DEFINE new == [NoTask EXCEPT !.op = "create", !.at = "blob", !.path = p, !.text = c]
  <2>1. Begin(h, new, FALSE) /\ new.at = "blob"
    BY <1>3 DEF RequestCreate, NoTask
  <2> HIDE DEF new
  <2> QED
    BY <1>2, <2>1
<1>4. ASSUME NEW f \in 1..made, NEW p \in Path \cup {NoPath}, NEW c \in Content \cup {None},
             RequestPatch(h, f, p, c)
      PROVE  HashOK'
  <2> DEFINE new == [NoTask EXCEPT !.op = "patch", !.at = "lookup", !.id = f, !.path = p,
                                   !.text = c]
  <2>1. Begin(h, new, FALSE) /\ new.at = "lookup"
    BY <1>4 DEF RequestPatch, NoTask
  <2> HIDE DEF new
  <2> QED
    BY <1>2, <2>1
<1>5. ASSUME NEW f \in 1..made, RequestDelete(h, f) PROVE HashOK'
  <2> DEFINE new == [NoTask EXCEPT !.op = "delete", !.at = "lookup", !.id = f]
  <2>1. Begin(h, new, FALSE) /\ new.at = "lookup"
    BY <1>5 DEF RequestDelete, NoTask
  <2> HIDE DEF new
  <2> QED
    BY <1>2, <2>1
<1>6. ASSUME NEW op \in {"renameFolder", "deleteFolder"}, NEW files,
             \A r \in files : row[r.id].hash = r.hash,
             Begin(h, [NoTask EXCEPT !.op = op, !.at = "transaction", !.files = files], TRUE)
      PROVE  HashOK'
  <2> DEFINE new == [NoTask EXCEPT !.op = op, !.at = "transaction", !.files = files]
  <2>1. Begin(h, new, TRUE) /\ new.at = "transaction" /\ new.files = files
    BY <1>6 DEF NoTask
  <2> HIDE DEF new
  <2> QED
    BY <1>2, <1>6, <2>1
<1>7. ASSUME NEW d \in Folder, NEW e \in Folder, RequestRenameFolder(h, d, e) PROVE HashOK'
  <2> DEFINE renamed == {[id |-> f, path |-> <<e, row[f].path[2]>>, hash |-> row[f].hash,
                          text |-> None] : f \in Below(d)}
  <2>1. Begin(h, [NoTask EXCEPT !.op = "renameFolder", !.at = "transaction",
                                !.files = renamed], TRUE)
    BY <1>7 DEF RequestRenameFolder
  <2>2. \A r \in renamed : row[r.id].hash = r.hash
    OBVIOUS
  <2> QED
    BY <1>6, <2>1, <2>2
<1>8. ASSUME NEW d \in Folder, RequestDeleteFolder(h, d) PROVE HashOK'
  <2> DEFINE all == {[id |-> f, path |-> row[f].path, hash |-> row[f].hash, text |-> None] :
                     f \in Below(d)}
  <2>1. Begin(h, [NoTask EXCEPT !.op = "deleteFolder", !.at = "transaction",
                                !.files = all], TRUE)
    BY <1>8 DEF RequestDeleteFolder
  <2>2. \A r \in all : row[r.id].hash = r.hash
    OBVIOUS
  <2> QED
    BY <1>6, <2>1, <2>2
<1> QED
    BY <1>3, <1>4, <1>5, <1>7, <1>8 DEF Begins

\* A failed update takes its content back; where that fails too, it raced.
LEMMA FailsHash ==
    ASSUME HashOK, Core, NEW t \in Task, CallFails(t)
    PROVE  HashOK'
<1>1. TasksOK /\ task' = [task EXCEPT ![t] = Caught(t)] /\ UNCHANGED <<row, blob>>
    BY DEF Core, CallFails, storeVars
<1>2. /\ raced => raced'
      /\ ~raced' => /\ task[t].at # "restore"
                    /\ ~(task[t].at = "refresh" /\ (t = Live \/ task[t].undo))
    BY DEF CallFails
<1>3. Only(t) /\ task'[t] = Caught(t)
    BY <1>1 DEF TasksOK, Only
<1>4. CASE ~raced' /\ task[t].at = "update"
  <2>1. task'[t].at = "restore" /\ task'[t].id = task[t].id /\ task'[t].cur = task[t].cur
    BY <1>1, <1>3, <1>4, CaughtShape
  <2>2. HashKnown(task[t])
    BY <1>2, <1>4 DEF HashOK
  <2>3. HashKnown(task[t])'
    BY <1>1, <1>4, <2>1, <2>2 DEF HashKnown
  <2> QED
    BY <1>1, <1>2, <1>3, <2>1, <2>3, HashQuiet
<1>5. CASE ~raced' /\ task[t].at # "update"
  <2>1. task'[t].at \in {"idle", "unblob", "findRemove", "find"}
    BY <1>1, <1>2, <1>3, <1>5, CaughtShape, NoTaskFormed
  <2>2. HashKnown(task[t])'
    BY <2>1, KnowsNone
  <2> QED
    BY <1>1, <1>2, <1>3, <1>5, <2>2, HashQuiet
<1> QED
    BY <1>4, <1>5 DEF HashOK

LEMMA LiveHash ==
    ASSUME HashOK, Core, List("hydrate") \/ List("reconcile") \/ LiveStep
    PROVE  HashOK'
<1>1. Live \in Task /\ TasksOK
    BY DEF Core, Task
<1>2. CASE LiveStep
  <2>1. /\ Only(Live) /\ UNCHANGED <<row, blob, raced>>
        /\ task'[Live].at \notin {"insert", "store", "update", "restore", "transaction"}
    BY <1>1, <1>2, LiveShape DEF storeVars, ghostVars
  <2>2. task[Live].at \in {"reading", "jobs", "reconciled"}
    BY <1>2 DEF LiveStep, ReadListed, Put, StartJob, Clear, Hydrated, Scan, Reconcile, Rest
  <2> QED
    BY <1>1, <2>1, <2>2, KnowsNone, HashQuiet
<1>3. ASSUME NEW op \in {"hydrate", "reconcile"}, List(op) PROVE HashOK'
  <2>1. /\ Only(Live) /\ UNCHANGED <<row, blob>> /\ (raced => raced')
        /\ task'[Live].at = "reading" /\ task[Live].at = "idle"
    BY <1>1, <1>3 DEF List, Busy, TasksOK, Only, NoTask, storeVars
  <2> QED
    BY <1>1, <2>1, KnowsNone, HashQuiet
<1> QED
    BY <1>2, <1>3

LEMMA HashNext ==
    ASSUME Turn, HashOK, Core, [Next]_vars
    PROVE  HashOK'
<1>1. ASSUME UNCHANGED <<task, row, blob, raced>> PROVE HashOK'
    BY <1>1 DEF HashOK, HashTracksBlob, HashKnown, InUpdate, Stored
<1>2. CASE \/ \E p \in Path, c \in Content \cup {None} : Save(p, c)
           \/ \E p, q \in Path : Move(p, q)
           \/ UNCHANGED vars
    BY <1>1, <1>2 DEF Save, Move, Edited, vars, ghostVars, storeVars
<1>3. CASE Crash
    BY <1>3 DEF Crash, HashOK
<1> QED
    BY <1>2, <1>3, OperationHash, RequestHash, FailsHash, BeginsHash, LiveHash DEF Next

LEMMA InitHash ==
    ASSUME Init
    PROVE  HashOK
<1>1. \A t \in Task : task[t].at = "idle"
    BY NoTaskFormed DEF Init
<1>2. HashTracksBlob
    BY DEF Init, HashTracksBlob, Stored
<1> QED
    BY <1>1, <1>2 DEF HashOK, HashKnown

-----------------------------------------------------------------------------
(* The plan of a reconciliation                                            *)

\* What job j says of the rows r and of the workspace s as it was listed.
PlanJob(j, r, s) ==
    /\ j.op # "create" => j.id \in File /\ r[j.id] # NoRow
    /\ j.op = "content" => j.path = NoPath /\ j.text # None /\ s[r[j.id].path] = j.text
    /\ j.op = "path" => j.path \in Path /\ j.text = None /\ s[j.path] = r[j.id].hash
    /\ j.op = "create" => j.id = 0 /\ s[j.path] = j.text

\* The file at path p has a row that stays there, or is to get one.
Covered(J, r, p) ==
    \/ \E f \in File : /\ r[f] # NoRow /\ r[f].path = p
                       /\ \A j \in J : j.op \in {"path", "remove"} => j.id # f
    \/ \E j \in J : j.op \in {"path", "create"} /\ j.path = p

\* The jobs J, done in any order, make of the rows r what the workspace was: each
\* row is as the workspace, or one job concerns it.
Plan(J, r, s) ==
    /\ \A j \in J : PlanJob(j, r, s)
    /\ \A j, k \in J : j.op # "create" /\ k.op # "create" /\ j.id = k.id => j = k
    /\ \A f \in File :
          r[f] # NoRow => \/ r[f].hash = s[r[f].path]
                          \/ \E j \in J : j.op # "create" /\ j.id = f
    /\ \A p \in Path : s[p] # None => Covered(J, r, p)

\* Where nothing is left to do, the rows are as the workspace.
LEMMA PlanDone ==
    ASSUME NEW r, NEW s, Plan({}, r, s)
    PROVE  /\ \A f \in File : r[f] # NoRow => r[f].hash = s[r[f].path]
           /\ \A p \in Path : s[p] # None => \E f \in File : r[f] # NoRow /\ r[f].path = p
BY DEF Plan, Covered

\* A job is done when its row is as the workspace, and nothing else has changed.
LEMMA PlanRow ==
    ASSUME NEW J \in SUBSET Changes, NEW c \in J, c.op \in {"content", "path"},
           NEW r \in [File -> Row \cup {NoRow}], NEW s, NEW q, NEW new \in Row,
           q = [r EXCEPT ![c.id] = new], Plan(J, r, s), new.hash = s[new.path],
           c.op = "content" => new.path = r[c.id].path, c.op = "path" => new.path = c.path
    PROVE  Plan(J \ {c}, q, s)
<1>1. c.id \in File /\ r[c.id] # NoRow /\ c.op # "create"
    BY DEF Plan, PlanJob
<1>2. q[c.id] = new /\ \A f \in File : f # c.id => q[f] = r[f]
    BY <1>1
<1>3. new # NoRow
    BY ProjectFilesAssumption DEF ProjectFilesAssumption, Row, NoRow
<1>4. \A j \in J \ {c} : j.op # "create" => j.id # c.id
    BY <1>1 DEF Plan
<1>5. ASSUME NEW j \in J \ {c} PROVE PlanJob(j, q, s)
    BY <1>2, <1>4, <1>5 DEF Plan, PlanJob
<1>6. ASSUME NEW f \in File, q[f] # NoRow
      PROVE  q[f].hash = s[q[f].path] \/ \E j \in J \ {c} : j.op # "create" /\ j.id = f
  <2>1. CASE f = c.id
    BY <1>2, <2>1
  <2>2. CASE f # c.id
    <3>1. r[f].hash = s[r[f].path] \/ \E j \in J : j.op # "create" /\ j.id = f
      BY <1>2, <1>6, <2>2 DEF Plan
    <3> QED
      BY <1>2, <2>2, <3>1
  <2> QED
    BY <2>1, <2>2
<1>7. ASSUME NEW p \in Path, s[p] # None PROVE Covered(J \ {c}, q, p)
  <2>1. Covered(J, r, p)
    BY <1>7 DEF Plan
  <2>2. ASSUME NEW f \in File, r[f] # NoRow, r[f].path = p,
               \A j \in J : j.op \in {"path", "remove"} => j.id # f
        PROVE  Covered(J \ {c}, q, p)
    <3>1. f = c.id => c.op = "content"
      BY <2>2
    <3>2. q[f] # NoRow /\ q[f].path = p
      BY <1>2, <1>3, <2>2, <3>1
    <3> QED
      BY <2>2, <3>2 DEF Covered
  <2>3. ASSUME NEW j \in J, j.op \in {"path", "create"}, j.path = p
        PROVE  Covered(J \ {c}, q, p)
    <3>1. CASE j = c
      <4>1. c.op = "path" /\ q[c.id] # NoRow /\ q[c.id].path = p
        BY <1>2, <1>3, <2>3, <3>1
      <4> QED
        BY <1>1, <1>4, <4>1 DEF Covered
    <3>2. CASE j # c
      BY <2>3, <3>2 DEF Covered
    <3> QED
      BY <3>1, <3>2
  <2> QED
    BY <2>1, <2>2, <2>3 DEF Covered
<1>8. \A j, k \in J \ {c} : j.op # "create" /\ k.op # "create" /\ j.id = k.id => j = k
    BY DEF Plan
<1> QED
    BY <1>5, <1>6, <1>7, <1>8 DEF Plan

LEMMA PlanCreate ==
    ASSUME NEW J \in SUBSET Changes, NEW c \in J, c.op = "create",
           NEW r \in [File -> Row \cup {NoRow}], NEW s, NEW q,
           NEW f \in File, r[f] = NoRow, Plan(J, r, s),
           q = [r EXCEPT ![f] = [path |-> c.path, hash |-> c.text]]
    PROVE  Plan(J \ {c}, q, s)
<1> DEFINE new == [path |-> c.path, hash |-> c.text]
<1>1. q[f] = new /\ \A g \in File : g # f => q[g] = r[g]
    OBVIOUS
<1>2. new # NoRow /\ new.hash = s[new.path] /\ new.path = c.path
    BY ProjectFilesAssumption DEF ProjectFilesAssumption, Changes, NoRow, Plan, PlanJob
<1> HIDE DEF new
<1>3. \A j \in J : j.op # "create" => j.id # f /\ j.id \in File
    BY DEF Plan, PlanJob
<1>4. ASSUME NEW j \in J \ {c} PROVE PlanJob(j, q, s)
    BY <1>1, <1>3, <1>4 DEF Plan, PlanJob
<1>5. ASSUME NEW g \in File, q[g] # NoRow
      PROVE  q[g].hash = s[q[g].path] \/ \E j \in J \ {c} : j.op # "create" /\ j.id = g
  <2>1. CASE g = f
    BY <1>1, <1>2, <2>1
  <2>2. CASE g # f
    <3>1. r[g].hash = s[r[g].path] \/ \E j \in J : j.op # "create" /\ j.id = g
      BY <1>1, <1>5, <2>2 DEF Plan
    <3> QED
      BY <1>1, <2>2, <3>1
  <2> QED
    BY <2>1, <2>2
<1>6. ASSUME NEW p \in Path, s[p] # None PROVE Covered(J \ {c}, q, p)
  <2>1. Covered(J, r, p)
    BY <1>6 DEF Plan
  <2>2. ASSUME NEW g \in File, r[g] # NoRow, r[g].path = p,
               \A j \in J : j.op \in {"path", "remove"} => j.id # g
        PROVE  Covered(J \ {c}, q, p)
    <3>1. q[g] # NoRow /\ q[g].path = p
      BY <1>1, <2>2
    <3> QED
      BY <2>2, <3>1 DEF Covered
  <2>3. ASSUME NEW j \in J, j.op \in {"path", "create"}, j.path = p
        PROVE  Covered(J \ {c}, q, p)
    <3>1. CASE j = c
      <4>1. q[f] # NoRow /\ q[f].path = p /\ \A k \in J : k.op \in {"path", "remove"} => k.id # f
        BY <1>1, <1>2, <1>3, <2>3, <3>1
      <4> QED
        BY <4>1 DEF Covered
    <3>2. CASE j # c
      BY <2>3, <3>2 DEF Covered
    <3> QED
      BY <3>1, <3>2
  <2> QED
    BY <2>1, <2>2, <2>3 DEF Covered
<1>7. \A j, k \in J \ {c} : j.op # "create" /\ k.op # "create" /\ j.id = k.id => j = k
    BY DEF Plan
<1> QED
    BY <1>4, <1>5, <1>6, <1>7 DEF Plan

LEMMA PlanRemove ==
    ASSUME NEW J \in SUBSET Changes, NEW c \in J, c.op = "remove",
           NEW r \in [File -> Row \cup {NoRow}], NEW s, NEW q,
           Plan(J, r, s), q = [r EXCEPT ![c.id] = NoRow]
    PROVE  Plan(J \ {c}, q, s)
<1>1. c.id \in File
    BY DEF Plan, PlanJob
<1>2. q[c.id] = NoRow /\ \A f \in File : f # c.id => q[f] = r[f]
    BY <1>1
<1>3. \A j \in J \ {c} : j.op # "create" => j.id # c.id /\ j.id \in File
    BY DEF Plan, PlanJob
<1>4. ASSUME NEW j \in J \ {c} PROVE PlanJob(j, q, s)
    BY <1>2, <1>3, <1>4 DEF Plan, PlanJob
<1>5. ASSUME NEW f \in File, q[f] # NoRow
      PROVE  q[f].hash = s[q[f].path] \/ \E j \in J \ {c} : j.op # "create" /\ j.id = f
  <2>1. f # c.id
    BY <1>2, <1>5
  <2>2. r[f].hash = s[r[f].path] \/ \E j \in J : j.op # "create" /\ j.id = f
    BY <1>2, <1>5, <2>1 DEF Plan
  <2> QED
    BY <1>2, <2>1, <2>2
<1>6. ASSUME NEW p \in Path, s[p] # None PROVE Covered(J \ {c}, q, p)
  <2>1. Covered(J, r, p)
    BY <1>6 DEF Plan
  <2>2. ASSUME NEW f \in File, r[f] # NoRow, r[f].path = p,
               \A j \in J : j.op \in {"path", "remove"} => j.id # f
        PROVE  Covered(J \ {c}, q, p)
    <3>1. q[f] # NoRow /\ q[f].path = p
      BY <1>2, <2>2
    <3> QED
      BY <2>2, <3>1 DEF Covered
  <2>3. ASSUME NEW j \in J, j.op \in {"path", "create"}, j.path = p
        PROVE  Covered(J \ {c}, q, p)
    BY <2>3 DEF Covered
  <2> QED
    BY <2>1, <2>2, <2>3 DEF Covered
<1>7. \A j, k \in J \ {c} : j.op # "create" /\ k.op # "create" /\ j.id = k.id => j = k
    BY DEF Plan
<1> QED
    BY <1>4, <1>5, <1>6, <1>7 DEF Plan

\* The plan made of the two listings is one: where the listing of the rows has each
\* row once, as it is.
LEMMA PlanMade ==
    ASSUME NEW r \in [File -> Row \cup {NoRow}], NEW ws \in [Path -> Content \cup {None}],
           NEW db \in SUBSET Listing,
           \A f \in File : r[f] # NoRow => \E d \in db : d.id = f,
           \A d \in db : r[d.id] = [path |-> d.path, hash |-> d.hash],
           \A d, e \in db : d.id = e.id => d = e,
           NEW missing, missing = {d \in db : ws[d.path] = None},
           NEW extra, extra = {p \in Path : ws[p] # None /\ \A d \in db : d.path # p},
           NEW renames \in Renames(missing, extra, ws)
    PROVE  Plan(Jobs(db, ws, renames, missing, extra), r, ws)
<1> DEFINE J == Jobs(db, ws, renames, missing, extra)
           Differ == {d \in db : ws[d.path] \notin {None, d.hash}}
           New == {p \in extra : \A a \in renames : a[2] # p}
           Gone == {d \in missing : \A a \in renames : a[1] # d}
           ContentJob(d) == [op |-> "content", id |-> d.id, path |-> NoPath, text |-> ws[d.path]]
           PathJob(a) == [op |-> "path", id |-> a[1].id, path |-> a[2], text |-> None]
           CreateJob(p) == [op |-> "create", id |-> 0, path |-> p, text |-> ws[p]]
           RemoveJob(d) == [op |-> "remove", id |-> d.id, path |-> NoPath, text |-> None]
<1>1. /\ \A a \in renames : /\ a[1] \in missing /\ a[2] \in extra
                            /\ a[1].hash = ws[a[2]]
      /\ \A a, b \in renames : a[1] = b[1] => a[2] = b[2]
      /\ renames \subseteq missing \X extra
    BY DEF Renames
<1>2. \A d \in db : d.id \in File /\ d.path \in Path /\ r[d.id] # NoRow
                    /\ r[d.id].path = d.path /\ r[d.id].hash = d.hash
  <2> SUFFICES ASSUME NEW d \in db
               PROVE  /\ d.id \in File /\ d.path \in Path /\ r[d.id] # NoRow
                      /\ r[d.id].path = d.path /\ r[d.id].hash = d.hash
    OBVIOUS
  <2>1. d.id \in File /\ d.path \in Path /\ d.hash \in Content
    BY DEF Listing
  <2>2. r[d.id] = [path |-> d.path, hash |-> d.hash]
    OBVIOUS
  <2> QED
    BY <2>1, <2>2, ProjectFilesAssumption DEF ProjectFilesAssumption, NoRow
<1>3. \A j \in J : \/ \E d \in Differ : j = ContentJob(d)
                   \/ \E a \in renames : j = PathJob(a)
                   \/ \E p \in New : j = CreateJob(p)
                   \/ \E d \in Gone : j = RemoveJob(d)
    BY DEF Jobs
<1>4. /\ \A d \in Differ : ContentJob(d) \in J
      /\ \A a \in renames : PathJob(a) \in J
      /\ \A p \in New : CreateJob(p) \in J
      /\ \A d \in Gone : RemoveJob(d) \in J
    BY DEF Jobs
<1> HIDE DEF J
<1>5. ASSUME NEW j \in J PROVE PlanJob(j, r, ws)
    BY <1>1, <1>2, <1>3 DEF PlanJob
<1>6. ASSUME NEW j \in J, NEW k \in J, j.op # "create", k.op # "create", j.id = k.id
      PROVE  j = k
  <2>1. CASE \E d \in Differ : j = ContentJob(d)
    BY <1>1, <1>3, <1>6, <2>1
  <2>2. CASE \E a \in renames : j = PathJob(a)
    BY <1>1, <1>3, <1>6, <2>2
  <2>3. CASE \E d \in Gone : j = RemoveJob(d)
    BY <1>1, <1>3, <1>6, <2>3
  <2> QED
    BY <1>3, <1>6, <2>1, <2>2, <2>3
<1>7. ASSUME NEW f \in File, r[f] # NoRow
      PROVE  r[f].hash = ws[r[f].path] \/ \E j \in J : j.op # "create" /\ j.id = f
  <2>1. PICK d \in db : d.id = f
    BY <1>7
  <2>2. CASE d \in missing
    <3>1. CASE \E a \in renames : a[1] = d
      <4>1. PICK a \in renames : a[1] = d
        BY <3>1
      <4>2. PathJob(a) \in J /\ PathJob(a).op # "create" /\ PathJob(a).id = f
        BY <1>4, <2>1, <4>1
      <4> QED
        BY <4>2
    <3>2. CASE \A a \in renames : a[1] # d
      <4>1. d \in Gone /\ RemoveJob(d).op # "create" /\ RemoveJob(d).id = f
        BY <2>1, <2>2, <3>2
      <4> QED
        BY <1>4, <4>1
    <3> QED
      BY <3>1, <3>2
  <2>3. CASE d \in Differ
    <3>1. ContentJob(d) \in J /\ ContentJob(d).op # "create" /\ ContentJob(d).id = f
      BY <1>4, <2>1, <2>3
    <3> QED
      BY <3>1
  <2>4. CASE d \notin missing /\ d \notin Differ
    BY <1>2, <2>1, <2>4
  <2> QED
    BY <2>2, <2>3, <2>4
<1>8. ASSUME NEW p \in Path, ws[p] # None PROVE Covered(J, r, p)
  <2>1. CASE p \in extra
    <3>1. CASE \E a \in renames : a[2] = p
      BY <1>4, <3>1 DEF Covered
    <3>2. CASE \A a \in renames : a[2] # p
      <4>1. p \in New /\ CreateJob(p).op = "create" /\ CreateJob(p).path = p
        BY <2>1, <3>2
      <4>2. CreateJob(p) \in J
        BY <1>4, <4>1
      <4> HIDE DEF CreateJob
      <4> QED
        BY <4>1, <4>2 DEF Covered
    <3> QED
      BY <3>1, <3>2
  <2>2. CASE p \notin extra
    <3>1. PICK d \in db : d.path = p
      BY <1>8, <2>2
    <3>2. ASSUME NEW j \in J, j.op \in {"path", "remove"} PROVE j.id # d.id
      BY <1>1, <1>3, <1>8, <3>1, <3>2
    <3> QED
      BY <1>2, <3>1, <3>2 DEF Covered
  <2> QED
    BY <2>1, <2>2
<1> QED
    BY <1>5, <1>6, <1>7, <1>8 DEF Plan, J

-----------------------------------------------------------------------------
(* Live keeps to its plan                                                  *)

Updating == {"find", "read", "store", "update", "restore", "refresh"}
Creating == {"blob", "insert", "unblob"}
Removing == {"findRemove", "delete", "unlink"}

\* How far Live is, and with what.
LiveForm(k) ==
    /\ ~k.undo
    /\ \/ k.at = "idle"
       \/ k.at \in {"reading", "jobs"} /\ k.op \in {"hydrate", "reconcile"}
       \/ k.at = "reconciled" /\ k.op = "reconcile"
       \/ k.at \in Updating /\ k.op \in {"content", "path"}
       \/ k.at \in Creating /\ k.op = "create"
       \/ k.at \in Removing /\ k.op = "remove"

\* The job under way, until its row is written.
Working == {"find", "read", "store", "update", "blob", "insert", "findRemove", "delete"}
Current(k) ==
    IF k.at \in Working
      THEN {[op |-> k.op, id |-> IF k.op = "create" THEN 0 ELSE k.id, path |-> k.path,
             text |-> k.text]}
      ELSE {}

\* While the reconciliation reads: every row is to be read, or listed as it is.
ListedOK ==
    task[Live].op = "reconcile" /\ task[Live].at = "reading" =>
        /\ \A f \in Stored : \E r \in todo \cup task[Live].files : r.id = f
        /\ \A j \in todo : row[j.id] = [path |-> j.path, hash |-> j.text]
        /\ \A r \in task[Live].files :
              row[r.id] = [path |-> r.path, hash |-> r.hash] /\ r.text = blob[r.id]

\* While it carries out the plan: what is left of it is one.
Carrying(k) ==
    \/ k.at \in Working \cup {"refresh", "unlink", "reconciled"}
    \/ k.at = "jobs" /\ k.op = "reconcile"
PlannedOK ==
    Carrying(task[Live]) =>
        /\ Plan(todo \cup Current(task[Live]), row, scanned)
        /\ Current(task[Live]) \cap todo = {}
        /\ task[Live].at \in {"read", "store", "update"} =>
              task[Live].cur.path = row[task[Live].id].path
        /\ task[Live].at = "refresh" => row[task[Live].id] # NoRow
        /\ task[Live].at = "reconciled" => todo = {}

PlanOK == ~raced => ListedOK /\ PlannedOK

LEMMA LiveIs ==
    ASSUME TasksOK
    PROVE  Live \in Task /\ task[Live] \in TaskState /\ task[Live] \in FormedTask
BY DEF TasksOK, FormedTask, Task

LEMMA FormIdle == LiveForm(NoTask)
BY DEF LiveForm, NoTask

\* Live ends an operation.
LEMMA FormOver ==
    ASSUME TasksOK, Fails(Live) \/ Done(Live)
    PROVE  LiveForm(task[Live])'
<1>1. CASE Fails(Live)
    BY <1>1, LiveIs, FormIdle DEF Fails, TasksOK
<1>2. CASE Done(Live)
  <2>1. task'[Live] = [NoTask EXCEPT !.op = "reconcile", !.at = "jobs"]
    BY <1>2, LiveIs DEF Done, TasksOK
  <2> QED
    BY <2>1 DEF LiveForm, NoTask
<1> QED
    BY <1>1, <1>2

LEMMA FormGoes ==
    ASSUME TasksOK, LiveForm(task[Live]), NEW x, Goto(Live, x),
           \/ task[Live].op \in {"content", "path"} /\ x \in Updating
           \/ task[Live].op = "create" /\ x \in Creating
           \/ task[Live].op = "remove" /\ x \in Removing
    PROVE  LiveForm(task[Live])'
<1>1. task'[Live].at = x /\ task'[Live].op = task[Live].op /\ task'[Live].undo = task[Live].undo
    BY LiveIs DEF Goto, TasksOK, TaskState
<1> QED
    BY <1>1 DEF LiveForm

LEMMA OperationForm ==
    ASSUME TasksOK, LiveForm(task[Live]), OperationStep(Live)
    PROVE  LiveForm(task[Live])'
<1>1. CASE WriteBlob(Live)
  <2>1. CASE Fails(Live)
    BY <2>1, FormOver
  <2>2. CASE task' = [task EXCEPT ![Live].id = made + 1, ![Live].at = "insert"]
    <3>1. /\ task'[Live].at = "insert" /\ task'[Live].op = task[Live].op
          /\ task'[Live].undo = task[Live].undo /\ task[Live].at = "blob"
      BY <1>1, <2>2, LiveIs DEF WriteBlob, At, TasksOK, TaskState
    <3> QED
      BY <3>1 DEF LiveForm, Creating, Updating, Removing
  <2> QED
    BY <1>1, <2>1, <2>2 DEF WriteBlob
<1>2. CASE Insert(Live) \/ RemoveBlob(Live)
  <2>1. task[Live].op = "create"
    BY <1>2 DEF Insert, RemoveBlob, At, LiveForm, Updating, Removing
  <2>2. Fails(Live) \/ Done(Live) \/ Goto(Live, "unblob")
    BY <1>2 DEF Insert, RemoveBlob
  <2> QED
    BY <2>1, <2>2, FormOver, FormGoes DEF Creating
<1>3. CASE Find(Live) \/ Read(Live) \/ Store(Live) \/ Update(Live) \/ Restore(Live) \/ Refresh(Live)
  <2>1. task[Live].op \in {"content", "path"} /\ ~task[Live].undo
    BY <1>3 DEF Find, Read, Store, Update, Restore, Refresh, At, LiveForm, Creating, Removing
  <2>2. UpdateIsNull(Live) => Fails(Live) \/ Done(Live)
    BY DEF UpdateIsNull
  <2>3. CASE Find(Live) /\ ~UpdateIsNull(Live)
    <3>1. task'[Live].at = "read" /\ task'[Live].op = task[Live].op /\ ~task'[Live].undo
      BY <2>1, <2>3, LiveIs DEF Find, TasksOK, TaskState
    <3> QED
      BY <2>1, <3>1 DEF LiveForm, Updating
  <2>4. CASE Read(Live) /\ ~Fails(Live)
    <3>1. task'[Live].at = "store" /\ task'[Live].op = task[Live].op /\ ~task'[Live].undo
      BY <2>1, <2>4, LiveIs DEF Read, TasksOK, TaskState
    <3> QED
      BY <2>1, <3>1 DEF LiveForm, Updating
  <2>5. CASE Store(Live) \/ Update(Live) \/ Restore(Live) \/ Refresh(Live)
    <3>1. \/ Fails(Live) \/ Done(Live)
          \/ Goto(Live, "update") \/ Goto(Live, "restore") \/ Goto(Live, "refresh")
      BY <2>2, <2>5 DEF Store, Update, Restore, Refresh
    <3> QED
      BY <2>1, <3>1, FormOver, FormGoes DEF Updating
  <2> QED
    BY <1>3, <2>2, <2>3, <2>4, <2>5, FormOver
<1>4. CASE FindToRemove(Live) \/ Delete(Live) \/ Unlink(Live)
  <2>1. task[Live].op = "remove"
    BY <1>4 DEF FindToRemove, Delete, Unlink, At, LiveForm, Updating, Creating
  <2>2. Done(Live) \/ Goto(Live, "delete") \/ Goto(Live, "unlink")
    BY <1>4 DEF FindToRemove, Delete, Unlink, Removed
  <2> QED
    BY <2>1, <2>2, FormOver, FormGoes DEF Removing
<1>5. ~Reread(Live) /\ ~ReadToRemove(Live)
    BY DEF Reread, ReadToRemove, At, LiveForm, Updating, Creating, Removing
<1> QED
    BY <1>1, <1>2, <1>3, <1>4, <1>5 DEF OperationStep

LEMMA LiveStepForm ==
    ASSUME Core, LiveForm(task[Live]), List("hydrate") \/ List("reconcile") \/ LiveStep
    PROVE  LiveForm(task[Live])'
<1>1. TasksOK /\ Live \in Task /\ task[Live] \in TaskState
    BY LiveIs DEF Core
<1>2. CASE List("hydrate") \/ List("reconcile")
    BY <1>1, <1>2 DEF List, TasksOK, LiveForm, NoTask
<1>3. ASSUME NEW j \in todo, StartJob(j) PROVE LiveForm(task[Live])'
  <2>1. j.op \in {"content", "path", "create", "remove"}
    BY <1>3 DEF StartJob, Core, TodoOK, JobsAt, Changes
  <2>2. /\ task'[Live].op = j.op /\ ~task'[Live].undo
        /\ task'[Live].at = CASE j.op = "create" -> "blob"
                              [] j.op = "remove" -> "findRemove"
                              [] OTHER -> "find"
    BY <1>1, <1>3 DEF StartJob, TasksOK, NoTask
  <2> QED
    BY <2>1, <2>2 DEF LiveForm, Updating, Creating, Removing
<1>4. CASE Clear \/ Scan
  <2>1. \E op \in {"hydrate", "reconcile"} :
           task' = [task EXCEPT ![Live] = [NoTask EXCEPT !.op = op, !.at = "jobs"]]
    BY <1>4 DEF Clear, Scan
  <2> QED
    BY <1>1, <2>1 DEF TasksOK, LiveForm, NoTask
<1>5. CASE Hydrated \/ Rest
    BY <1>1, <1>5, FormIdle DEF Hydrated, Rest, TasksOK
<1>6. CASE Reconcile
    BY <1>1, <1>6 DEF Reconcile, Goto, TasksOK, TaskState, LiveForm, Updating, Creating, Removing
<1>7. ASSUME NEW j \in todo, ReadListed(j) \/ Put(j) PROVE LiveForm(task[Live])'
  <2>1. /\ task'[Live].op = task[Live].op /\ task'[Live].at = task[Live].at
        /\ task'[Live].undo = task[Live].undo
    BY <1>1, <1>7 DEF ReadListed, Put, TasksOK, TaskState
  <2> QED
    BY <2>1 DEF LiveForm
<1> QED
    BY <1>2, <1>3, <1>4, <1>5, <1>6, <1>7 DEF LiveStep

LEMMA FailsForm ==
    ASSUME TasksOK, LiveForm(task[Live]), CallFails(Live)
    PROVE  /\ LiveForm(task[Live])'
           /\ task'[Live].at \in {"idle", "unblob", "restore"}
<1>1. task'[Live] = Caught(Live)
    BY LiveIs DEF CallFails, TasksOK
<1>2. CASE task[Live].at = "insert"
    BY <1>1, <1>2, LiveIs DEF Caught, TaskState, LiveForm, Creating, Updating, Removing
<1>3. CASE task[Live].at \in {"update", "refresh"}
    BY <1>1, <1>3, LiveIs DEF Caught, TaskState, LiveForm, Creating, Updating, Removing
<1>4. CASE task[Live].at \notin {"insert", "update", "refresh"}
  <2>1. task[Live].at \notin {"write", "erase"}
    BY DEF LiveForm, Creating, Updating, Removing
  <2>2. Caught(Live) = NoTask
    BY <1>4, <2>1 DEF Caught
  <2> QED
    BY <1>1, <2>2, FormIdle, NoTaskFormed
<1> QED
    BY <1>2, <1>3, <1>4

\* What a handler does leaves Live where it is.
LEMMA HandlerShape ==
    ASSUME Core, NEW h \in Handler,
           OperationStep(h) \/ RequestStep(h) \/ CallFails(h) \/ Begins(h)
    PROVE  /\ task'[Live] = task[Live] /\ (raced => raced')
           /\ Busy(h) \/ (raced' \/ ~Busy(Live))
<1>1. h \in Task /\ h # Live /\ TasksOK /\ Live \in Task
    BY ProjectFilesAssumption DEF ProjectFilesAssumption, Task, Core
<1>2. CASE OperationStep(h)
  <2>1. Only(h) /\ task[h].at \in Operating /\ UNCHANGED raced
    BY <1>1, <1>2, OperationShape DEF ghostVars
  <2> QED
    BY <1>1, <2>1 DEF Only, Busy, Operating
<1>3. CASE RequestStep(h)
  <2>1. UNCHANGED raced /\ Busy(h)
    BY <1>3 DEF RequestStep, Lookup, LookupText, Write, Erase, Rewrite, RenameRows,
       RenameConflicts, DeleteRows, UnlinkAll, At, Busy, ghostVars
  <2>2. task'[Live] = task[Live]
    BY <1>1, <1>3 DEF RequestStep, Lookup, LookupText, Write, Erase, Rewrite, RenameRows,
       RenameConflicts, DeleteRows, UnlinkAll, Done, Goto, TasksOK
  <2> QED
    BY <2>1, <2>2
<1>4. CASE CallFails(h)
    BY <1>1, <1>4 DEF CallFails, TasksOK
<1>5. CASE Begins(h)
  <2>1. \E new, folders : Begin(h, new, folders)
    BY <1>5, Zenon DEF Begins, RequestCreate, RequestPatch, RequestDelete, RequestRenameFolder,
       RequestDeleteFolder
  <2> QED
    BY <1>1, <2>1 DEF Begin, TasksOK
<1> QED
    BY <1>2, <1>3, <1>4, <1>5

LEMMA FormNext ==
    ASSUME Core, LiveForm(task[Live]), [Next]_vars
    PROVE  LiveForm(task[Live])'
<1>1. ASSUME task'[Live] = task[Live] PROVE LiveForm(task[Live])'
    BY <1>1 DEF LiveForm
<1>2. ASSUME NEW t \in Task, OperationStep(t) \/ CallFails(t) PROVE LiveForm(task[Live])'
  <2>1. CASE t = Live
    BY <1>2, <2>1, OperationForm, FailsForm DEF Core
  <2>2. CASE t \in Handler
    BY <1>1, <1>2, <2>2, HandlerShape
  <2> QED
    BY <2>1, <2>2 DEF Task
<1>3. CASE \/ \E p \in Path, c \in Content \cup {None} : Save(p, c)
           \/ \E p, q \in Path : Move(p, q)
           \/ UNCHANGED vars
    BY <1>1, <1>3 DEF Save, Move, Edited, vars
<1>4. CASE Crash
    BY <1>4, FormIdle, LiveIs DEF Crash, Core
<1>5. ASSUME NEW h \in Handler, Begins(h) \/ RequestStep(h) PROVE LiveForm(task[Live])'
    BY <1>1, <1>5, HandlerShape
<1> QED
    BY <1>2, <1>3, <1>4, <1>5, LiveStepForm DEF Next

\* A plan is not disturbed by one who leaves Live alone, or where Live does not carry one out.
LEMMA PlanIdle ==
    ASSUME task'[Live].at \in {"idle", "unblob", "restore"} \/ task'[Live].op = "hydrate",
           LiveForm(task[Live])'
    PROVE  PlanOK'
<1>1. ~Carrying(task[Live])'
    BY DEF Carrying, Working, LiveForm, Updating, Creating, Removing
<1>2. ~(task'[Live].op = "reconcile" /\ task'[Live].at = "reading")
    OBVIOUS
<1> QED
    BY <1>1, <1>2 DEF PlanOK, ListedOK, PlannedOK

LEMMA PlanOthers ==
    ASSUME PlanOK, LiveForm(task[Live]), task'[Live] = task[Live], raced => raced',
           Busy(Live) => raced' \/ UNCHANGED <<row, blob, scanned, todo>>
    PROVE  PlanOK'
<1>1. CASE ~Busy(Live)
    BY <1>1, PlanIdle DEF Busy, LiveForm
<1>2. CASE UNCHANGED <<row, blob, scanned, todo>>
    BY <1>2 DEF PlanOK, ListedOK, PlannedOK, Stored
<1> QED
    BY <1>1, <1>2 DEF PlanOK

\* What is left to do are changes, also the one under way.
LEMMA PendingAre ==
    ASSUME Core, LiveForm(task[Live]), Carrying(task[Live])
    PROVE  todo \cup Current(task[Live]) \subseteq Changes
<1> DEFINE k == task[Live]
<1>1. k \in TaskState /\ k \in FormedTask
    BY LiveIs DEF Core
<1>2. todo \subseteq Changes
    BY DEF Carrying, Working, Core, TodoOK, JobsAt
<1>3. CASE k.at \in {"blob", "insert"}
  <2>1. k.op = "create" /\ k.path \in Path /\ k.text \in Content
    BY <1>1, <1>3 DEF LiveForm, Updating, Creating, Removing, FormedTask, Formed
  <2> QED
    BY <1>2, <2>1 DEF Current, Changes, Job
<1>4. CASE k.at \in Working \ {"blob", "insert"}
  <2>1. k.op \in {"content", "path", "remove"} /\ k.id \in File
    BY <1>1, <1>4 DEF LiveForm, Updating, Creating, Removing, FormedTask, Formed, Working, WithFile
  <2>2. k.path \in Path \cup {NoPath} /\ k.text \in Content \cup {None}
    BY <1>1 DEF TaskState
  <2> QED
    BY <1>2, <2>1, <2>2 DEF Current, Changes, Job
<1>5. CASE k.at \notin Working
    BY <1>2, <1>5 DEF Current
<1> QED
    BY <1>3, <1>4, <1>5

\* Live goes on with its job, and the rows stay as they are.
LEMMA PlanGoes ==
    ASSUME PlanOK, ~raced, Carrying(task[Live]), UNCHANGED <<row, scanned, todo>>,
           task'[Live].at \in Working, task[Live].at \in Working,
           task'[Live].op = task[Live].op, task'[Live].path = task[Live].path,
           task'[Live].text = task[Live].text,
           task[Live].op = "create" \/ task'[Live].id = task[Live].id,
           task'[Live].at \in {"read", "store", "update"} =>
              task'[Live].cur.path = row[task'[Live].id].path
    PROVE  PlanOK'
<1>1. Current(task[Live])' = Current(task[Live])
    BY DEF Current
<1>2. task'[Live].at \notin {"reading", "refresh", "reconciled"}
    BY DEF Working
<1> QED
    BY <1>1, <1>2 DEF PlanOK, ListedOK, PlannedOK

\* The job is done: what is left is the rest.
LEMMA PlanGets ==
    ASSUME ~raced, UNCHANGED <<scanned, todo>>, Plan(todo, row, scanned)',
           task'[Live].at \notin Working \cup {"reading", "reconciled"},
           task'[Live].at = "refresh" => row'[task'[Live].id] # NoRow
    PROVE  PlanOK'
<1>1. Current(task[Live])' = {}
    BY DEF Current
<1>2. todo' \cup {} = todo' /\ {} \cap todo' = {}
    OBVIOUS
<1>3. task'[Live].at \notin {"read", "store", "update"}
    BY DEF Working
<1> QED
    BY <1>1, <1>2, <1>3 DEF PlanOK, ListedOK, PlannedOK

\* A job under way has the row it is about.
LEMMA CurrentRow ==
    ASSUME PlanOK, ~raced, Core, LiveForm(task[Live]), NEW k, k = task[Live], k.at \in Working
    PROVE  /\ Plan(todo \cup Current(k), row, scanned)
           /\ todo = (todo \cup Current(k)) \ Current(k)
           /\ k.op # "create" =>
                 /\ k.id \in File /\ row[k.id] # NoRow
                 /\ PlanJob([op |-> k.op, id |-> k.id, path |-> k.path, text |-> k.text],
                            row, scanned)
<1>1. Carrying(k)
    BY DEF Carrying
<1>2. Plan(todo \cup Current(k), row, scanned) /\ Current(k) \cap todo = {}
    BY <1>1 DEF PlanOK, PlannedOK
<1>3. ASSUME k.op # "create"
      PROVE  PlanJob([op |-> k.op, id |-> k.id, path |-> k.path, text |-> k.text],
                     row, scanned)
  <2> DEFINE c == [op |-> k.op, id |-> k.id, path |-> k.path, text |-> k.text]
  <2>1. c \in Current(k)
    BY <1>3 DEF Current
  <2> HIDE DEF c
  <2>2. PlanJob(c, row, scanned)
    BY <1>2, <2>1 DEF Plan
  <2> QED
    BY <2>2 DEF c
<1>4. ASSUME k.op # "create" PROVE k.id \in File /\ row[k.id] # NoRow
    BY <1>3, <1>4 DEF PlanJob
<1> QED
    BY <1>2, <1>3, <1>4

LEMMA NoPathIsNone == NoPath \notin Path
<1> SUFFICES ASSUME NoPath \in Folder \X Name PROVE FALSE
    BY DEF Path
<1>1. PICK a \in Folder, b \in Name : NoPath = <<a, b>>
    OBVIOUS
<1>2. Len(<<a, b>>) = 2 /\ Len(NoPath) = 0
    BY DEF NoPath
<1> QED
    BY <1>1, <1>2

\* createFileInternal: the file gets the row the plan asks for.
LEMMA CreatePlan ==
    ASSUME PlanOK, ~raced, Core, LiveForm(task[Live]), LiveForm(task[Live])',
           WriteBlob(Live) \/ Insert(Live) \/ RemoveBlob(Live)
    PROVE  PlanOK'
<1>1. Live \in Task /\ task[Live] \in TaskState /\ task[Live] \in FormedTask /\ TasksOK
    BY LiveIs DEF Core
<1>2. CASE Fails(Live) \/ Goto(Live, "unblob")
  <2>1. task'[Live].at \in {"idle", "unblob"}
    BY <1>1, <1>2, NoTaskFormed DEF Fails, Goto, TasksOK, TaskState
  <2> QED
    BY <2>1, PlanIdle
<1>3. CASE WriteBlob(Live) /\ made # MaxFile
  <2>1. /\ task[Live].at = "blob" /\ UNCHANGED <<row, scanned, todo>>
        /\ task' = [task EXCEPT ![Live].id = made + 1, ![Live].at = "insert"]
    BY <1>3 DEF WriteBlob, At
  <2>2. /\ task'[Live].at = "insert" /\ task'[Live].op = task[Live].op
        /\ task'[Live].path = task[Live].path /\ task'[Live].text = task[Live].text
    BY <1>1, <2>1 DEF TasksOK, TaskState
  <2>3. task[Live].op = "create"
    BY <2>1 DEF LiveForm, Updating, Creating, Removing
  <2> QED
    BY <2>1, <2>2, <2>3, PlanGoes DEF Working, Carrying
<1>4. CASE Insert(Live) /\ ~Taken(task[Live].path, task[Live].id)
  <2> DEFINE k == task[Live]
             c == [op |-> "create", id |-> 0, path |-> k.path, text |-> k.text]
  <2>1. /\ k.at = "insert" /\ UNCHANGED <<scanned, todo>> /\ Done(Live)
        /\ row' = [row EXCEPT ![k.id] = [path |-> k.path, hash |-> k.text]]
    BY <1>4 DEF Insert, At
  <2>2. k.op = "create" /\ Current(k) = {c}
    BY <2>1 DEF LiveForm, Updating, Creating, Removing, Current, Working
  <2>3. k.id \in File /\ row[k.id] = NoRow
    BY <1>1, <2>1, KnownIds DEF WithFile, Core, PlacesOK, Placed
  <2>4. /\ Plan(todo \cup Current(k), row, scanned)
        /\ todo = (todo \cup Current(k)) \ Current(k)
    BY <2>1, CurrentRow DEF Working
  <2>5. todo \cup Current(k) \in SUBSET Changes
    BY <2>1, PendingAre DEF Carrying, Working
  <2>6. c.op = "create" /\ c.path = k.path /\ c.text = k.text
    OBVIOUS
  <2>7. row \in [File -> Row \cup {NoRow}]
    BY DEF Core, StoreOK
  <2> DEFINE J == todo \cup Current(k)
  <2>8. c \in J /\ J \in SUBSET Changes /\ Plan(J, row, scanned) /\ todo = J \ {c}
    BY <2>2, <2>4, <2>5
  <2> HIDE DEF J, c
  <2>9. row' = [row EXCEPT ![k.id] = [path |-> c.path, hash |-> c.text]]
    BY <2>1, <2>6
  <2>10. Plan(J \ {c}, row', scanned)
    BY <2>3, <2>6, <2>7, <2>8, <2>9, PlanCreate
  <2>11. Plan(todo, row, scanned)'
    BY <2>1, <2>8, <2>10
  <2>12. task'[Live].at = "jobs"
    BY <1>1, <2>1, NoTaskFormed DEF Done, TasksOK
  <2> QED
    BY <2>1, <2>11, <2>12, PlanGets DEF Working
<1> QED
    BY <1>2, <1>3, <1>4 DEF WriteBlob, Insert, RemoveBlob

\* updateFromSync: the row gets the content, or the path, the plan asks for.
LEMMA UpdatePlan ==
    ASSUME PlanOK, HashOK, ~raced, Core, LiveForm(task[Live]), LiveForm(task[Live])',
           \/ Find(Live) \/ Read(Live) \/ Store(Live) \/ Update(Live) \/ Restore(Live)
           \/ Refresh(Live)
    PROVE  PlanOK'
<1> DEFINE k == task[Live]
<1>1. Live \in Task /\ k \in TaskState /\ k \in FormedTask /\ TasksOK
    BY LiveIs DEF Core
<1>2. k.at \in Updating /\ k.op \in {"content", "path"} /\ ~k.undo
    BY DEF Find, Read, Store, Update, Restore, Refresh, At, LiveForm, Updating, Creating, Removing
<1>3. k.at \in Working =>
        /\ Plan(todo \cup Current(k), row, scanned)
        /\ todo = (todo \cup Current(k)) \ Current(k)
        /\ k.id \in File /\ row[k.id] # NoRow
        /\ PlanJob([op |-> k.op, id |-> k.id, path |-> k.path, text |-> k.text], row, scanned)
    BY <1>2, CurrentRow
<1>4. k.at \in {"read", "store", "update"} => k.cur.path = row[k.id].path
    BY DEF PlanOK, PlannedOK, Carrying, Working
<1>5. CASE Fails(Live) \/ Goto(Live, "restore")
  <2>1. task'[Live].at \in {"idle", "restore"}
    BY <1>1, <1>5, NoTaskFormed DEF Fails, Goto, TasksOK, TaskState
  <2> QED
    BY <2>1, PlanIdle
<1>6. CASE Find(Live)
  <2>1. k.at = "find" /\ row[k.id] # NoRow
    BY <1>3, <1>6 DEF Find, At, Working
  <2>2. /\ task' = [task EXCEPT ![Live].cur.path = row[k.id].path, ![Live].at = "read"]
        /\ UNCHANGED <<row, scanned, todo>>
    BY <1>6, <2>1 DEF Find, storeVars
  <2>3. /\ task'[Live].at = "read" /\ task'[Live].op = k.op /\ task'[Live].id = k.id
        /\ task'[Live].path = k.path /\ task'[Live].text = k.text
        /\ task'[Live].cur.path = row[k.id].path
    BY <1>1, <2>2 DEF TasksOK, TaskState, Text
  <2> QED
    BY <2>1, <2>2, <2>3, PlanGoes DEF Working, Carrying
<1>7. CASE Read(Live) /\ ~Fails(Live)
  <2>1. /\ task' = [task EXCEPT ![Live].cur.text = blob[k.id], ![Live].at = "store"]
        /\ UNCHANGED <<row, scanned, todo>> /\ k.at = "read"
    BY <1>7 DEF Read, At, storeVars
  <2>2. /\ task'[Live].at = "store" /\ task'[Live].op = k.op /\ task'[Live].id = k.id
        /\ task'[Live].path = k.path /\ task'[Live].text = k.text
        /\ task'[Live].cur.path = k.cur.path
    BY <1>1, <2>1 DEF TasksOK, TaskState, Text
  <2> QED
    BY <1>4, <2>1, <2>2, PlanGoes DEF Working, Carrying
<1>8. CASE Store(Live)
  <2>1. Goto(Live, "update") /\ UNCHANGED <<row, scanned, todo>> /\ k.at = "store"
    BY <1>8 DEF Store, At
  <2>2. /\ task'[Live].at = "update" /\ task'[Live].op = k.op /\ task'[Live].id = k.id
        /\ task'[Live].path = k.path /\ task'[Live].text = k.text /\ task'[Live].cur = k.cur
    BY <1>1, <2>1 DEF Goto, TasksOK, TaskState
  <2> QED
    BY <1>4, <2>1, <2>2, PlanGoes DEF Working, Carrying
<1>9. CASE Update(Live) /\ ~Goto(Live, "restore")
  <2> DEFINE c == [op |-> k.op, id |-> k.id, path |-> k.path, text |-> k.text]
             new == [path |-> NextPath(Live), hash |-> NextText(Live)]
             J == todo \cup Current(k)
  <2>1. k.at = "update" /\ row[k.id] # NoRow /\ k.id \in File /\ k.cur.path = row[k.id].path
    BY <1>3, <1>4, <1>9 DEF Update, At, Working
  <2>2. /\ row' = [row EXCEPT ![k.id] = new] /\ Goto(Live, "refresh")
        /\ UNCHANGED <<scanned, todo>>
    BY <1>9, <2>1 DEF Update
  <2>3. NextPath(Live) \in Path /\ NextText(Live) \in Content
    BY <1>1, <2>1, NextIs
  <2>4. new \in Row /\ new.path = NextPath(Live) /\ new.hash = NextText(Live)
    BY <2>3 DEF Row
  <2>5. Current(k) = {c}
    BY <1>2, <2>1 DEF Current, Working
  <2>6. PlanJob(c, row, scanned) /\ c.op = k.op /\ c.id = k.id /\ c.path = k.path /\ c.text = k.text
    BY <1>3, <2>1 DEF Working
  <2>7. c \in J /\ J \in SUBSET Changes /\ Plan(J, row, scanned) /\ todo = J \ {c}
    <3>1. J \in SUBSET Changes
      BY <2>1, PendingAre DEF Carrying, Working
    <3>2. Plan(J, row, scanned) /\ todo = J \ Current(k)
      BY <1>3, <2>1 DEF Working
    <3> QED
      BY <2>5, <3>1, <3>2
  <2> HIDE DEF J, c, new
  <2>8. row[k.id].hash = k.cur.text
    BY <1>1, <2>1 DEF HashOK, HashKnown
  <2>9. new.hash = scanned[new.path] /\ (c.op = "content" => new.path = row[k.id].path)
        /\ (c.op = "path" => new.path = c.path)
    <3>1. CASE k.op = "content"
      BY <2>1, <2>4, <2>6, <3>1 DEF PlanJob, NextPath, NextText
    <3>2. CASE k.op = "path"
      BY <2>4, <2>6, <2>8, <3>2, NoPathIsNone DEF PlanJob, NextPath, NextText
    <3> QED
      BY <1>2, <2>6, <3>1, <3>2
  <2>10. row \in [File -> Row \cup {NoRow}]
    BY DEF Core, StoreOK
  <2>11. Plan(J \ {c}, row', scanned)
    <3>1. row' = [row EXCEPT ![c.id] = new]
      BY <2>2, <2>6
    <3> QED
      BY <1>2, <2>4, <2>6, <2>7, <2>9, <2>10, <3>1, PlanRow
  <2>12. Plan(todo, row, scanned)'
    BY <2>2, <2>7, <2>11
  <2>13. task'[Live].at = "refresh" /\ task'[Live].id = k.id
    BY <1>1, <2>2 DEF Goto, TasksOK, TaskState
  <2>14. row'[k.id] # NoRow
    BY <2>1, <2>2, <2>4, <2>10, ProjectFilesAssumption DEF ProjectFilesAssumption, Row, NoRow
  <2> QED
    BY <2>2, <2>12, <2>13, <2>14, PlanGets DEF Working
<1>10. CASE Refresh(Live)
  <2>1. k.at = "refresh"
    BY <1>10 DEF Refresh, At
  <2>2. Plan(todo \cup Current(k), row, scanned) /\ row[k.id] # NoRow
    BY <2>1 DEF PlanOK, PlannedOK, Carrying
  <2>3. Current(k) = {} /\ todo \cup {} = todo
    BY <2>1 DEF Current, Working
  <2>4. Done(Live) /\ UNCHANGED <<row, scanned, todo>>
    BY <1>2, <1>10, <2>2 DEF Refresh, storeVars
  <2>5. task'[Live].at = "jobs"
    BY <1>1, <2>4, NoTaskFormed DEF Done, TasksOK
  <2>6. Plan(todo, row, scanned)'
    BY <2>2, <2>3, <2>4
  <2> QED
    BY <2>4, <2>5, <2>6, PlanGets DEF Working
<1>11. Restore(Live) => Fails(Live)
    BY DEF Restore
<1> QED
    BY <1>5, <1>6, <1>7, <1>8, <1>9, <1>10, <1>11

\* removeFromSync: the row goes, as the plan asks.
LEMMA RemovePlan ==
    ASSUME PlanOK, ~raced, Core, LiveForm(task[Live]), LiveForm(task[Live])',
           FindToRemove(Live) \/ Delete(Live) \/ Unlink(Live)
    PROVE  PlanOK'
<1> DEFINE k == task[Live]
<1>1. Live \in Task /\ k \in TaskState /\ k \in FormedTask /\ TasksOK
    BY LiveIs DEF Core
<1>2. k.at \in Removing /\ k.op = "remove"
    BY DEF FindToRemove, Delete, Unlink, At, LiveForm, Updating, Creating, Removing
<1>3. k.at \in Working =>
        /\ Plan(todo \cup Current(k), row, scanned)
        /\ todo = (todo \cup Current(k)) \ Current(k)
        /\ k.id \in File /\ row[k.id] # NoRow
    BY <1>2, CurrentRow
<1>4. CASE FindToRemove(Live)
  <2>1. k.at = "findRemove" /\ row[k.id] # NoRow
    BY <1>3, <1>4 DEF FindToRemove, At, Working
  <2>2. Goto(Live, "delete") /\ UNCHANGED <<row, scanned, todo>>
    BY <1>4, <2>1 DEF FindToRemove, storeVars
  <2>3. /\ task'[Live].at = "delete" /\ task'[Live].op = k.op /\ task'[Live].id = k.id
        /\ task'[Live].path = k.path /\ task'[Live].text = k.text
    BY <1>1, <2>2 DEF Goto, TasksOK, TaskState
  <2> QED
    BY <2>1, <2>2, <2>3, PlanGoes DEF Working, Carrying
<1>5. CASE Delete(Live)
  <2> DEFINE c == [op |-> k.op, id |-> k.id, path |-> k.path, text |-> k.text]
             J == todo \cup Current(k)
  <2>1. k.at = "delete" /\ row[k.id] # NoRow
    BY <1>3, <1>5 DEF Delete, At, Working
  <2>2. /\ row' = [row EXCEPT ![k.id] = NoRow] /\ Goto(Live, "unlink")
        /\ UNCHANGED <<scanned, todo>>
    BY <1>5, <2>1 DEF Delete
  <2>3. Current(k) = {c} /\ c.op = "remove" /\ c.id = k.id
    BY <1>2, <2>1 DEF Current, Working
  <2>4. c \in J /\ J \in SUBSET Changes /\ Plan(J, row, scanned) /\ todo = J \ {c}
    <3>1. J \in SUBSET Changes
      BY <2>1, PendingAre DEF Carrying, Working
    <3>2. Plan(J, row, scanned) /\ todo = J \ Current(k)
      BY <1>3, <2>1 DEF Working
    <3> QED
      BY <2>3, <3>1, <3>2
  <2> HIDE DEF J, c
  <2>5. row \in [File -> Row \cup {NoRow}]
    BY DEF Core, StoreOK
  <2>6. Plan(J \ {c}, row', scanned)
    BY <2>2, <2>3, <2>4, <2>5, PlanRemove
  <2>7. Plan(todo, row, scanned)'
    BY <2>2, <2>4, <2>6
  <2>8. task'[Live].at = "unlink"
    BY <1>1, <2>2 DEF Goto, TasksOK, TaskState
  <2> QED
    BY <2>2, <2>7, <2>8, PlanGets DEF Working
<1>6. CASE Unlink(Live)
  <2>1. k.at = "unlink" /\ Done(Live) /\ UNCHANGED <<row, scanned, todo>>
    BY <1>6 DEF Unlink, At, Removed
  <2>2. Plan(todo \cup Current(k), row, scanned)
    BY <2>1 DEF PlanOK, PlannedOK, Carrying
  <2>3. Current(k) = {} /\ todo \cup {} = todo
    BY <2>1 DEF Current, Working
  <2>4. task'[Live].at = "jobs"
    BY <1>1, <2>1, NoTaskFormed DEF Done, TasksOK
  <2>5. Plan(todo, row, scanned)'
    BY <2>1, <2>2, <2>3
  <2> QED
    BY <2>1, <2>4, <2>5, PlanGets DEF Working
<1> QED
    BY <1>4, <1>5, <1>6

\* The listing has each row once, as it is: nobody else changes it meanwhile.
LEMMA ReadPlan ==
    ASSUME PlanOK, ~raced, Core, LiveForm(task[Live])', NEW j \in todo, ReadListed(j)
    PROVE  PlanOK'
<1>1. Live \in Task /\ task[Live] \in TaskState /\ TasksOK
    BY LiveIs DEF Core
<1> DEFINE got == {[id |-> j.id, path |-> j.path, hash |-> j.text, text |-> c] :
                   c \in {blob[j.id]} \ {None}}
<1>2. /\ task[Live].at = "reading" /\ todo' = todo \ {j} /\ UNCHANGED <<row, blob, scanned>>
      /\ task' = [task EXCEPT ![Live].files = @ \cup got]
    BY DEF ReadListed, storeVars
<1> HIDE DEF got
<1>3. /\ task'[Live].at = "reading" /\ task'[Live].op = task[Live].op
      /\ task'[Live].files = task[Live].files \cup got
    BY <1>1, <1>2 DEF TasksOK, TaskState
<1>4. CASE task[Live].op # "reconcile"
    BY <1>3, <1>4 DEF PlanOK, ListedOK, PlannedOK, Carrying, Working
<1>5. CASE task[Live].op = "reconcile"
  <2>1. /\ \A f \in Stored : \E r \in todo \cup task[Live].files : r.id = f
        /\ \A i \in todo : row[i.id] = [path |-> i.path, hash |-> i.text]
        /\ \A r \in task[Live].files :
              row[r.id] = [path |-> r.path, hash |-> r.hash] /\ r.text = blob[r.id]
    BY <1>2, <1>5 DEF PlanOK, ListedOK
  <2>2. j.id \in File /\ j.text \in Content
    BY <1>2 DEF Core, TodoOK, JobsAt, Reads
  <2>3. row[j.id] = [path |-> j.path, hash |-> j.text]
    BY <2>1
  <2>4. row[j.id] # NoRow
    BY <2>2, <2>3, ProjectFilesAssumption DEF ProjectFilesAssumption, NoRow
  <2>5. blob[j.id] # None
    BY <2>2, <2>4 DEF Core, StoreOK
  <2>6. /\ \A r \in got : /\ r.id = j.id /\ r.path = j.path /\ r.hash = j.text
                          /\ r.text = blob[j.id]
        /\ \E r \in got : r.id = j.id
    <3>1. [id |-> j.id, path |-> j.path, hash |-> j.text, text |-> blob[j.id]] \in got
      BY <2>5 DEF got
    <3>2. \A r \in got : /\ r.id = j.id /\ r.path = j.path /\ r.hash = j.text
                         /\ r.text = blob[j.id]
      BY DEF got
    <3> QED
      BY <3>1, <3>2
  <2>7. ASSUME NEW f \in Stored PROVE \E r \in todo' \cup task'[Live].files : r.id = f
    <3>1. PICK r \in todo \cup task[Live].files : r.id = f
      BY <2>1
    <3>2. CASE r = j
      BY <1>3, <2>6, <3>1, <3>2
    <3>3. CASE r # j
      BY <1>2, <1>3, <3>1, <3>3
    <3> QED
      BY <3>2, <3>3
  <2>8. \A r \in task'[Live].files :
           row[r.id] = [path |-> r.path, hash |-> r.hash] /\ r.text = blob[r.id]
    BY <1>3, <2>1, <2>3, <2>6
  <2>9. ListedOK'
    BY <1>2, <2>1, <2>7, <2>8 DEF ListedOK, Stored
  <2> QED
    BY <1>3, <2>9 DEF PlanOK, PlannedOK, Carrying, Working
<1> QED
    BY <1>4, <1>5

LEMMA ScanPlan ==
    ASSUME PlanOK, ~raced, Core, RestOK, Scan
    PROVE  PlanOK'
<1> DEFINE db == task[Live].files
           ws == [p \in Path |-> IF p[1] \in Excluded THEN None ELSE disk[p]]
           missing == {r \in db : ws[r.path] = None}
           extra == {p \in Path : ws[p] # None /\ \A r \in db : r.path # p}
<1>1. Live \in Task /\ task[Live] \in TaskState /\ TasksOK
    BY LiveIs DEF Core
<1>2. /\ task[Live].op = "reconcile" /\ task[Live].at = "reading" /\ todo = {}
      /\ scanned' = ws /\ UNCHANGED <<row, blob>>
      /\ task' = [task EXCEPT ![Live] = [NoTask EXCEPT !.op = "reconcile", !.at = "jobs"]]
    BY DEF Scan, storeVars
<1>3. PICK renames \in Renames(missing, extra, ws) : todo' = Jobs(db, ws, renames, missing, extra)
    BY DEF Scan
<1>4. /\ \A f \in Stored : \E r \in db : r.id = f
      /\ \A r \in db : row[r.id] = [path |-> r.path, hash |-> r.hash] /\ r.text = blob[r.id]
    BY <1>2 DEF PlanOK, ListedOK
<1>5. db \in SUBSET Listing
    BY <1>1 DEF TaskState
<1>6. \A d, e \in db : d.id = e.id => d = e
  <2> SUFFICES ASSUME NEW d \in db, NEW e \in db, d.id = e.id PROVE d = e
    OBVIOUS
  <2>1. [path |-> d.path, hash |-> d.hash] = [path |-> e.path, hash |-> e.hash] /\ d.text = e.text
    BY <1>4
  <2>2. d \in Listing /\ e \in Listing
    BY <1>5
  <2> QED
    BY <2>1, <2>2 DEF Listing
<1>7. ws \in [Path -> Content \cup {None}] /\ row \in [File -> Row \cup {NoRow}]
    BY DEF RestOK, Core, StoreOK
<1>8. \A f \in File : row[f] # NoRow => \E d \in db : d.id = f
    BY <1>4 DEF Stored
<1>9. \A d \in db : row[d.id] = [path |-> d.path, hash |-> d.hash]
    BY <1>4
<1> HIDE DEF ws, db
<1>10. Plan(Jobs(db, ws, renames, missing, extra), row, ws)
    BY <1>3, <1>5, <1>6, <1>7, <1>8, <1>9, PlanMade
<1>11. task'[Live].at = "jobs" /\ task'[Live].op = "reconcile"
    BY <1>1, <1>2, NoTaskFormed DEF TasksOK
<1>12. Plan(todo, row, scanned)'
    BY <1>2, <1>3, <1>10
<1>13. Current(task[Live])' = {} /\ todo' \cup {} = todo' /\ {} \cap todo' = {}
    BY <1>11 DEF Current, Working
<1> QED
    BY <1>11, <1>12, <1>13 DEF PlanOK, ListedOK, PlannedOK

LEMMA StartPlan ==
    ASSUME PlanOK, ~raced, Core, NEW j \in todo, StartJob(j)
    PROVE  PlanOK'
<1>1. Live \in Task /\ TasksOK
    BY LiveIs DEF Core
<1>2. /\ task[Live].op = "reconcile" /\ task[Live].at = "jobs" /\ todo' = todo \ {j}
      /\ UNCHANGED <<row, scanned>>
    BY DEF StartJob, storeVars
<1>3. /\ task'[Live].op = j.op /\ task'[Live].id = j.id /\ task'[Live].path = j.path
      /\ task'[Live].text = j.text
      /\ task'[Live].at = CASE j.op = "create" -> "blob"
                            [] j.op = "remove" -> "findRemove"
                            [] OTHER -> "find"
    BY <1>1 DEF StartJob, TasksOK, NoTask
<1>4. Current(task[Live]) = {} /\ todo \cup {} = todo
    BY <1>2 DEF Current, Working
<1>5. Plan(todo, row, scanned)
    BY <1>2, <1>4 DEF PlanOK, PlannedOK, Carrying
<1>6. j \in Job /\ (j.op = "create" => j.id = 0)
    BY <1>2, <1>5 DEF Core, TodoOK, JobsAt, Changes, Plan, PlanJob
<1>7. task'[Live].at \in {"blob", "findRemove", "find"}
    BY <1>3
<1>8. Current(task[Live])' = {j}
  <2>1. j = [op |-> j.op, id |-> j.id, path |-> j.path, text |-> j.text]
    BY <1>6 DEF Job
  <2> QED
    BY <1>3, <1>6, <1>7, <2>1 DEF Current, Working
<1>9. todo' \cup {j} = todo /\ {j} \cap todo' = {}
    BY <1>2
<1>10. Plan(todo \cup Current(task[Live]), row, scanned)'
    BY <1>2, <1>5, <1>8, <1>9
<1> QED
    BY <1>7, <1>8, <1>9, <1>10 DEF PlanOK, ListedOK, PlannedOK

LEMMA LiveStepPlan ==
    ASSUME PlanOK, ~raced, Core, RestOK, LiveForm(task[Live]), LiveForm(task[Live])', LiveStep
    PROVE  PlanOK'
<1>1. Live \in Task /\ task[Live] \in TaskState /\ TasksOK
    BY LiveIs DEF Core
<1>2. CASE Clear
  <2>1. task'[Live].op = "hydrate"
    BY <1>1, <1>2 DEF Clear, TasksOK, NoTask
  <2> QED
    BY <2>1, PlanIdle
<1>3. CASE Hydrated \/ Rest
  <2>1. task'[Live].at = "idle"
    BY <1>1, <1>3, NoTaskFormed DEF Hydrated, Rest, TasksOK
  <2> QED
    BY <2>1, PlanIdle
<1>4. CASE Reconcile
  <2>1. /\ task[Live].at = "jobs" /\ task[Live].op = "reconcile" /\ todo = {}
        /\ UNCHANGED <<row, scanned, todo>>
    BY <1>4 DEF Reconcile, storeVars
  <2>2. task'[Live].at = "reconciled" /\ task'[Live].op = "reconcile"
    BY <1>1, <1>4 DEF Reconcile, Goto, TasksOK, TaskState
  <2>3. Plan(todo \cup Current(task[Live]), row, scanned)
    BY <2>1 DEF PlanOK, PlannedOK, Carrying
  <2>4. Current(task[Live]) = {} /\ Current(task[Live])' = {}
    BY <2>1, <2>2 DEF Current, Working
  <2> QED
    BY <2>1, <2>2, <2>3, <2>4 DEF PlanOK, ListedOK, PlannedOK
<1>5. ASSUME NEW j \in todo, Put(j) PROVE PlanOK'
  <2>1. task[Live].at = "jobs" /\ j.op = "put" /\ task' = task
    BY <1>5 DEF Put
  <2>2. task[Live].op = "hydrate"
    BY <2>1 DEF Core, TodoOK, JobsAt, Changes, LiveForm, Updating, Creating, Removing
  <2> QED
    BY <2>1, <2>2, PlanIdle
<1> QED
    BY <1>2, <1>3, <1>4, <1>5, ReadPlan, ScanPlan, StartPlan DEF LiveStep

\* A reconciliation that lists the rows while no request is under way.
LEMMA ListPlan ==
    ASSUME Core, NEW op \in {"hydrate", "reconcile"}, List(op)
    PROVE  PlanOK'
<1>1. Live \in Task /\ TasksOK
    BY LiveIs DEF Core
<1>2. /\ task'[Live].op = op /\ task'[Live].at = "reading" /\ task'[Live].files = {}
      /\ UNCHANGED <<row, blob>>
      /\ todo' = {[op |-> "read", id |-> f, path |-> row[f].path, text |-> row[f].hash] :
                  f \in Stored}
    BY <1>1 DEF List, TasksOK, NoTask, storeVars
<1>3. ASSUME NEW f \in Stored PROVE \E r \in todo' : r.id = f
  <2> DEFINE j == [op |-> "read", id |-> f, path |-> row[f].path, text |-> row[f].hash]
  <2>1. j \in todo' /\ j.id = f
    BY <1>2
  <2> QED
    BY <2>1
<1>4. ASSUME NEW j \in todo' PROVE row[j.id] = [path |-> j.path, hash |-> j.text]
  <2>1. PICK f \in Stored :
           j = [op |-> "read", id |-> f, path |-> row[f].path, text |-> row[f].hash]
    BY <1>2
  <2>2. row[f] \in Row
    BY DEF Stored, Core, StoreOK
  <2> QED
    BY <2>1, <2>2 DEF Row
<1>5. ListedOK'
    BY <1>2, <1>3, <1>4 DEF ListedOK, Stored
<1>6. PlannedOK'
    BY <1>2 DEF PlannedOK, Carrying, Working
<1> QED
    BY <1>5, <1>6 DEF PlanOK

LEMMA PlanNext ==
    ASSUME Inv, Turn, HashOK, PlanOK, LiveForm(task[Live]), [Next]_vars
    PROVE  PlanOK' /\ LiveForm(task[Live])'
<1>1. Core /\ RestOK /\ LiveForm(task[Live])' /\ TasksOK
    BY FormNext DEF Inv, Core
<1>2. ASSUME NEW t \in Task, OperationStep(t) \/ CallFails(t) PROVE PlanOK'
  <2>1. CASE t = Live /\ CallFails(t)
    BY <1>1, <2>1, FailsForm, PlanIdle
  <2>2. CASE t = Live /\ OperationStep(t)
    <3>1. UNCHANGED raced
      BY <1>1, <2>2, OperationShape DEF ghostVars
    <3>2. ~Reread(Live) /\ ~ReadToRemove(Live)
      BY DEF Reread, ReadToRemove, At, LiveForm, Updating, Creating, Removing
    <3>3. CASE raced
      BY <3>1, <3>3 DEF PlanOK
    <3>4. CASE ~raced
      BY <1>1, <2>2, <3>2, <3>4, CreatePlan, UpdatePlan, RemovePlan DEF OperationStep
    <3> QED
      BY <3>3, <3>4
  <2>3. CASE t \in Handler
    <3>1. task'[Live] = task[Live] /\ (raced => raced') /\ Busy(t)
      BY <1>1, <1>2, <2>3, HandlerShape, OperationShape DEF Busy, Operating, CallFails
    <3>2. Busy(Live) => raced'
      BY <2>3, <3>1 DEF Turn, AloneOK
    <3> QED
      BY <3>1, <3>2, PlanOthers
  <2> QED
    BY <1>2, <2>1, <2>2, <2>3 DEF Task
<1>3. ASSUME NEW h \in Handler, Begins(h) \/ RequestStep(h) PROVE PlanOK'
  <2>1. task'[Live] = task[Live] /\ (raced => raced') /\ (Busy(h) \/ raced' \/ ~Busy(Live))
    BY <1>1, <1>3, HandlerShape
  <2>2. Busy(Live) => raced'
    BY <2>1 DEF Turn, AloneOK
  <2> QED
    BY <2>1, <2>2, PlanOthers
<1>4. CASE \/ \E p \in Path, c \in Content \cup {None} : Save(p, c)
           \/ \E p, q \in Path : Move(p, q)
           \/ UNCHANGED vars
  <2>1. UNCHANGED <<task, raced, row, blob, scanned, todo>>
    BY <1>4 DEF Save, Move, Edited, vars, ghostVars, storeVars
  <2>2. PlanOK'
    BY <2>1, PlanOthers
  <2> QED
    BY <1>1, <2>2
<1>5. CASE Crash
  <2>1. raced'
    BY <1>5 DEF Crash
  <2> QED
    BY <1>1, <2>1 DEF PlanOK
<1>6. CASE List("hydrate") \/ List("reconcile")
    BY <1>1, <1>6, ListPlan
<1>7. CASE LiveStep
  <2>1. UNCHANGED raced
    BY <1>1, <1>7, LiveShape DEF ghostVars
  <2>2. CASE raced
    BY <1>1, <2>1, <2>2 DEF PlanOK
  <2> QED
    BY <1>1, <1>7, <2>2, LiveStepPlan
<1> QED
    BY <1>1, <1>2, <1>3, <1>4, <1>5, <1>6, <1>7 DEF Next

LEMMA InitPlan ==
    ASSUME Init
    PROVE  PlanOK /\ LiveForm(task[Live])
<1>1. task[Live] = NoTask
    BY DEF Init, Task
<1> QED
    BY <1>1, FormIdle, NoTaskFormed DEF PlanOK, ListedOK, PlannedOK, Carrying, Working

-----------------------------------------------------------------------------
(* Theorems                                                                *)

LEMMA InvAlways == Spec => [](Inv /\ FlagsOK)
<1>1. Init => Inv /\ FlagsOK
    BY InitInv
<1>2. (Inv /\ FlagsOK) /\ [Next]_vars => (Inv /\ FlagsOK)'
    BY InvStep, FlagsStep
<1> QED
    BY <1>1, <1>2, PTL DEF Spec

\* Type correctness: whatever a task has read, and whatever is left to do, is of
\* its kind at every stage of every handler (files.repository.ts, files.router.ts,
\* project-workspace-sync-service.ts).
THEOREM FilesTypes == Spec => []TypeOK
<1>1. Inv /\ FlagsOK => TypeOK
  <2> SUFFICES ASSUME Inv, FlagsOK PROVE TypeOK
    OBVIOUS
  <2>1. task \in [Task -> TaskState]
    BY DEF Inv, Core, TasksOK, FormedTask
  <2>2. todo \subseteq Job
    BY DEF Inv, Core, TodoOK, JobsAt, Reads, Puts, Changes
  <2>3. {watched, failed, raced} \subseteq BOOLEAN
    BY DEF FlagsOK
  <2> QED
    BY <2>1, <2>2, <2>3 DEF TypeOK, Inv, Core, StoreOK, RestOK
<1> QED
    BY <1>1, InvAlways, PTL

\* Every row has its blob, also while requests and the terminals' side overlap
\* and when a call fails or the process ends, for any number of handlers, files,
\* requests and edits: a blob is stored before its row, and is removed only by
\* one who deleted the row, or never inserted it (createFileInternal, remove,
\* removeFromSync, deleteFolder).
THEOREM FilesBlobs == Spec => []BlobForRow
<1>1. Inv => BlobForRow
    BY DEF Inv, Core, StoreOK, BlobForRow, Stored
<1> QED
    BY <1>1, InvAlways, PTL

LEMMA HashAlways == Spec => [](Turn /\ HashOK)
<1>1. Init => Turn /\ HashOK
    BY InitTurn, InitHash
<1>2. (Inv /\ FlagsOK) /\ (Turn /\ HashOK) /\ [Next]_vars => (Turn /\ HashOK)'
    BY TurnNext, HashNext DEF Inv
<1> QED
    BY <1>1, <1>2, InvAlways, PTL DEF Spec

\* The hash in a row is that of the blob, unless Live overlapped a request or a
\* failure was not repaired: whoever is past its first stage holds the lock or is
\* alone, so what it read of the blob is still what the row says when it writes the
\* row, and what it puts back after a conflict is what it found (update,
\* updateFromSync, createFileInternal, renameFolder).
THEOREM FilesHashes == Spec => []HashTracksBlob
<1>1. HashOK => HashTracksBlob
    BY DEF HashOK, HashTracksBlob
<1> QED
    BY <1>1, HashAlways, PTL

\* A reconciliation that no request overlapped leaves the rows, and what is stored, as
\* the workspace was when it listed it, for any number of files, paths and contents,
\* whichever renames were matched and in whichever order the jobs of a phase are done:
\* what is left of the plan, with the job under way, says of every row and of every
\* workspace file that it is settled or has one job to come, and each job settles its
\* row and disturbs no other one (reconcileProjectWorkspace, updateFromSync,
\* createFromSync, removeFromSync).
THEOREM FilesReconciled == Spec => []Reconciled
<1>1. Inv /\ Turn /\ HashOK /\ PlanOK => Reconciled
  <2> SUFFICES ASSUME Inv, Turn, HashOK, PlanOK, task[Live].at = "reconciled", ~raced
               PROVE  /\ \A f \in Stored : /\ row[f].hash = scanned[row[f].path]
                                           /\ blob[f] = row[f].hash
                      /\ \A p \in Path : scanned[p] # None => \E f \in Stored : row[f].path = p
    BY DEF Reconciled
  <2>1. Plan(todo \cup Current(task[Live]), row, scanned) /\ todo = {}
    BY DEF PlanOK, PlannedOK, Carrying
  <2>2. todo \cup Current(task[Live]) = {}
    BY <2>1 DEF Current, Working
  <2>3. Plan({}, row, scanned)
    BY <2>1, <2>2
  <2>4. \A f \in File : ~InUpdate(f)
    <3>1. Live \in Task /\ Busy(Live) /\ \A h \in Handler : task[h].at = "idle"
      BY DEF Turn, AloneOK, Busy, Task
    <3> QED
      BY <3>1 DEF InUpdate, Task
  <2>5. \A f \in Stored : row[f].hash = blob[f]
    BY <2>4 DEF HashOK, HashTracksBlob, Stored
  <2> QED
    BY <2>3, <2>5, PlanDone DEF Stored
<1>2. Init => PlanOK /\ LiveForm(task[Live])
    BY InitPlan
<1>3. /\ Inv /\ FlagsOK
      /\ Turn /\ HashOK
      /\ PlanOK /\ LiveForm(task[Live])
      /\ [Next]_vars
      => (PlanOK /\ LiveForm(task[Live]))'
    BY PlanNext
<1> QED
    BY <1>1, <1>2, <1>3, InvAlways, HashAlways, PTL DEF Spec
================================================================================
