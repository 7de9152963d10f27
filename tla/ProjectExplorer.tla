---------------------------- MODULE ProjectExplorer ----------------------------
(***************************************************************************)
(* The files and folders of one project on the server, and one page that   *)
(* lists them and has some open in tabs.  The page learns of the project   *)
(* from the answers of its queries, of its own requests, and from events   *)
(* of the collaboration socket, which come over connections of their own   *)
(* and overtake one another.  Everybody else acts on the server only.      *)
(*                                                                         *)
(* Folders are one level deep; of several requests of the page at a time   *)
(* one is modelled, and of an import one file.                             *)
(***************************************************************************)
EXTENDS Naturals, FiniteSets, Sequences

CONSTANTS
    Folder,     \* paths of folders
    Place,      \* where files are: folders, or Root
    Name,       \* names of files in a folder
    Absent,     \* a file that does not exist
    Unknown,    \* a query that never had an answer
    MaxFile,    \* bound: files that are ever created
    MaxChange,  \* bound: requests that change the project, by whomever
    MaxCut      \* bound: cuts of the page's socket, and times the page gets the focus

File == 1 .. MaxFile
Root == "root"
Path == [in : Place, name : Name]

ASSUME ExplorerAssumption ==
    /\ Folder \subseteq Place /\ Place \subseteq Folder \cup {Root} /\ Absent \notin Path
    /\ Unknown \notin [File -> Path \cup {Absent}] /\ \A S \in SUBSET Folder : S # Unknown
    /\ MaxFile \in Nat \ {0} /\ MaxChange \in Nat /\ MaxCut \in Nat

VARIABLES
    path,       \* path[f] is the path of the file's row
    created,    \* files created so far
    folders,    \* virtualFoldersByProjectId of the server, in its memory
    list,       \* the page's cached list of files
    fileFetch,  \* the query for it: not running, asked or answered
    known,      \* the page's cached list of folders
    folderFetch, \* the query for that
    local,      \* virtualFoldersByProjectId of the page
    tabs,       \* openFileIds
    active,     \* activeFileId
    closedAll,  \* hasClosedAllTabs
    joined,     \* the page's socket is in the project's room
    inbox,      \* events sent to it and not handled
    op,         \* the request of the page that is under way
    behind,     \* "files", "folders": what the page has no way to know
    changes,    \* requests so far
    cuts        \* cuts and the like so far

server == <<path, created, folders>>
queries == <<list, fileFetch, known, folderFetch, local>>
view == <<tabs, active, closedAll>>
socket == <<joined, inbox>>
bounds == <<changes, cuts>>
explorerVars == <<server, queries, view, socket, op, behind, bounds>>

Nothing == [f \in File |-> Absent]
Existing(L) == {f \in File : L[f] # Absent}
Inside(P, d) == {f \in Existing(P) : P[f].in = d}
FoldersOf(P) == {P[f].in : f \in Existing(P)} \ {Root}
OrElse(data, default) == IF data = Unknown THEN default ELSE data

\* The page's folders, those the server told and its own, and all of the tree.
virtualFolders == OrElse(known, {}) \cup local
ShownFolders == FoldersOf(OrElse(list, Nothing)) \cup virtualFolders

Query(state, snap) == [state |-> state, snap |-> snap]
Idle == [kind |-> "none"]

ExplorerTypeOK ==
    /\ path \in [File -> Path \cup {Absent}] /\ created \in 0 .. MaxFile
    /\ folders \subseteq Folder /\ local \subseteq Folder
    /\ list = Unknown \/ list \in [File -> Path \cup {Absent}]
    /\ known = Unknown \/ known \subseteq Folder
    /\ fileFetch.state \in {"none", "asked", "answered"}
    /\ folderFetch.state \in {"none", "asked", "answered"}
    /\ tabs \subseteq File /\ active \in File \cup {Absent}
    /\ closedAll \in BOOLEAN /\ joined \in BOOLEAN
    /\ behind \subseteq {"files", "folders"}
    /\ changes \in 0 .. MaxChange /\ cuts \in 0 .. MaxCut

\* The page has just been opened on a project of one file.
ExplorerInit ==
    /\ \E p \in Path : path = [Nothing EXCEPT ![1] = p]
    /\ created = 1 /\ folders = {}
    /\ list = Unknown /\ known = Unknown /\ local = {}
    /\ fileFetch = Query("asked", Nothing) /\ folderFetch = Query("asked", {})
    /\ tabs = {} /\ active = Absent /\ closedAll = FALSE
    /\ joined = FALSE /\ inbox = <<>>
    /\ op = Idle /\ behind = {} /\ changes = 0 /\ cuts = 0

-----------------------------------------------------------------------------
(***************************************************************************)
(* The server.  A request that changes files tells the room; one about     *)
(* folders tells nobody, even when it moves or removes files.              *)
(***************************************************************************)

\* A query that has yet to be read will show what happens now.
NotAsked == {w \in {"files", "folders"} :
                \/ w = "files" /\ fileFetch.state # "asked"
                \/ w = "folders" /\ folderFetch.state # "asked"}

Tell(kind, f, at) ==
    /\ inbox' = IF joined THEN Append(inbox, [kind |-> kind, file |-> f, at |-> at]) ELSE inbox
    /\ behind' = IF joined THEN behind ELSE behind \cup ({"files"} \cap NotAsked)

TellNobody ==
    /\ behind' = behind \cup (NotAsked \cap
                    ((IF path' # path THEN {"files"} ELSE {})
                        \cup (IF folders' # folders THEN {"folders"} ELSE {})))
    /\ UNCHANGED inbox

Free(p) == \A f \in File : path[f] # p

CreateFile(p) ==
    /\ Free(p) /\ created < MaxFile
    /\ path' = [path EXCEPT ![created + 1] = p]
    /\ created' = created + 1
    /\ UNCHANGED folders
    /\ Tell("created", created + 1, p)

\* Importing leaves out a file whose path is taken.
ImportFile(p) ==
    \/ CreateFile(p)
    \/ ~Free(p) /\ UNCHANGED <<server, inbox, behind>>

RenameFile(f, p) ==
    /\ path[f] # Absent /\ Free(p)
    /\ path' = [path EXCEPT ![f] = p]
    /\ UNCHANGED <<created, folders>>
    /\ Tell("updated", f, p)

\* A version of a file is restored, from its own history or from that of the
\* project, which has a handler that does the same: its row stays where it is.
RestoreFileEntry(f) ==
    /\ path[f] # Absent
    /\ UNCHANGED server
    /\ Tell("updated", f, path[f])

RestoreProjectEntry(f) == RestoreFileEntry(f)

DeleteFile(f) ==
    /\ path[f] # Absent
    /\ path' = [path EXCEPT ![f] = Absent]
    /\ UNCHANGED <<created, folders>>
    /\ Tell("deleted", f, Absent)

CreateFolder(d) ==
    /\ folders' = folders \cup {d}
    /\ UNCHANGED <<path, created>>
    /\ TellNobody

Replaced(S, d, e) == {IF x = d THEN e ELSE x : x \in S}
IsFolder(d) == Inside(path, d) # {} \/ d \in folders

RenameFolder(d, e) ==
    /\ IsFolder(d)
    /\ \A f \in Inside(path, d) : Free([path[f] EXCEPT !.in = e])
    /\ path' = [f \in File |-> IF f \in Inside(path, d) THEN [path[f] EXCEPT !.in = e]
                                                        ELSE path[f]]
    /\ folders' = Replaced(folders, d, e)
    /\ UNCHANGED created
    /\ TellNobody

DeleteFolder(d) ==
    /\ IsFolder(d)
    /\ path' = [f \in File |-> IF f \in Inside(path, d) THEN Absent ELSE path[f]]
    /\ folders' = folders \ {d}
    /\ UNCHANGED created
    /\ TellNobody

-----------------------------------------------------------------------------
(***************************************************************************)
(* The cached queries.  Invalidating one cancels its fetch and asks anew,  *)
(* except for a first fetch, which it waits for whatever that has read.    *)
(* Setting the data leaves a running fetch alone: its answer comes later   *)
(* and replaces what was set.                                              *)
(***************************************************************************)
TooLate(data, q) == data = Unknown /\ q.state = "answered"

Anew(data, q, none) == IF TooLate(data, q) THEN q ELSE Query("asked", none)

Knowing(what, data, q, current) ==
    behind' = IF TooLate(data, q) /\ ~current THEN behind \cup {what} ELSE behind \ {what}

\* A faulty form: a query that is running is left to run.
LazyInvalidateFiles(L) ==
    /\ fileFetch' = IF fileFetch.state = "none" THEN Query("asked", Nothing) ELSE fileFetch
    /\ Knowing("files", L, fileFetch, fileFetch.snap = path)

InvalidateFiles(L) ==
    /\ fileFetch' = Anew(L, fileFetch, Nothing)
    /\ Knowing("files", L, fileFetch, fileFetch.snap = path)

InvalidateFolders ==
    /\ folderFetch' = Anew(known, folderFetch, {})
    /\ Knowing("folders", known, folderFetch, folders \subseteq folderFetch.snap)

Upserted(f, p) == [OrElse(list, Nothing) EXCEPT ![f] = p]

(***************************************************************************)
(* The page's list becomes L, and the effects of its rendering follow:     *)
(* tabs of files that a new list lacks are closed, and a file of the list  *)
(* becomes the active one when that is missing, or when there is none and  *)
(* the user has not closed all.                                            *)
(***************************************************************************)
Rendered(L, T, A, C) ==
    LET held == IF L = list THEN T ELSE T \cap Existing(L) IN
    /\ list' = L /\ closedAll' = C
    /\ \/ Existing(L) = {} /\ tabs' = {} /\ active' = Absent
       \/ /\ Existing(L) # {} /\ (A \in Existing(L) \/ (A = Absent /\ C))
          /\ tabs' = held /\ active' = A
       \/ /\ Existing(L) # {} /\ A \notin Existing(L) /\ ~(A = Absent /\ C)
          /\ \E f \in Existing(L) : active' = f /\ tabs' = held \cup {f}

ReadFiles ==
    /\ fileFetch.state = "asked"
    /\ fileFetch' = Query("answered", path)
    /\ UNCHANGED <<server, list, known, folderFetch, local, view, socket, op, behind, bounds>>

ReadFolders ==
    /\ folderFetch.state = "asked"
    /\ folderFetch' = Query("answered", folders \cup FoldersOf(path))
    /\ UNCHANGED <<server, list, fileFetch, known, local, view, socket, op, behind, bounds>>

FilesArrive ==
    /\ fileFetch.state = "answered"
    /\ Rendered(fileFetch.snap, tabs, active, closedAll)
    /\ fileFetch' = Query("none", Nothing)
    /\ UNCHANGED <<server, known, folderFetch, local, socket, op, behind, bounds>>

FoldersArrive ==
    /\ folderFetch.state = "answered"
    /\ known' = folderFetch.snap
    /\ folderFetch' = Query("none", {})
    /\ UNCHANGED <<server, list, fileFetch, local, view, socket, op, behind, bounds>>

\* The window gets the focus: queries that are not running are asked again.
Focus ==
    /\ cuts < MaxCut
    /\ fileFetch.state = "none" \/ folderFetch.state = "none"
    /\ fileFetch' = IF fileFetch.state = "none" THEN Query("asked", Nothing) ELSE fileFetch
    /\ folderFetch' = IF folderFetch.state = "none" THEN Query("asked", {}) ELSE folderFetch
    /\ behind' = behind \ ((IF fileFetch.state = "none" THEN {"files"} ELSE {})
                            \cup (IF folderFetch.state = "none" THEN {"folders"} ELSE {}))
    /\ cuts' = cuts + 1
    /\ UNCHANGED <<server, list, known, local, view, socket, op, changes>>

-----------------------------------------------------------------------------
(***************************************************************************)
(* Events.                                                                 *)
(***************************************************************************)

\* What an event set is about to be replaced by an answer that is older.
Overtaken(f, p) == fileFetch.state = "answered" /\ fileFetch.snap[f] # p

\* The event is older than a change of the file that nobody will tell of.
Outdated(e) == path[e.file] # e.at
               /\ \A i \in 2 .. Len(inbox) : inbox[i].file # e.file

Take(kind) == inbox # <<>> /\ Head(inbox).kind = kind /\ inbox' = Tail(inbox)

Told(e) == behind' = IF Overtaken(e.file, e.at) \/ Outdated(e)
                     THEN behind \cup {"files"} ELSE behind

FileCreated ==
    LET e == Head(inbox) IN
    /\ Take("created")
    /\ Rendered(Upserted(e.file, e.at), tabs, active, closedAll)
    /\ Told(e)
    /\ UNCHANGED <<server, fileFetch, known, folderFetch, local, joined, op, bounds>>

FileUpdated ==
    /\ Take("updated")
    /\ InvalidateFiles(list)
    /\ UNCHANGED <<server, list, known, folderFetch, local, view, joined, op, bounds>>

FileDeleted ==
    LET e == Head(inbox) IN
    /\ Take("deleted")
    /\ Rendered(Upserted(e.file, Absent), tabs \ {e.file},
                IF active = e.file THEN Absent ELSE active, closedAll)
    /\ Told(e)
    /\ UNCHANGED <<server, fileFetch, known, folderFetch, local, joined, op, bounds>>

Join ==
    /\ ~joined
    /\ joined' = TRUE
    /\ UNCHANGED <<server, queries, view, inbox, op, behind, bounds>>

\* What was on its way to the socket is lost; the lists are not asked again.
Cut ==
    /\ joined /\ cuts < MaxCut
    /\ joined' = FALSE /\ inbox' = <<>> /\ cuts' = cuts + 1
    /\ behind' = IF inbox = <<>> THEN behind ELSE behind \cup ({"files"} \cap NotAsked)
    /\ UNCHANGED <<server, queries, view, op, changes>>

\* The server starts again and has forgotten the folders without files.
Restart ==
    /\ cuts < MaxCut
    /\ folders' = {} /\ joined' = FALSE /\ inbox' = <<>> /\ cuts' = cuts + 1
    /\ op' = IF op # Idle /\ op.state = "sent" THEN Idle ELSE op
    /\ behind' = IF inbox = <<>> THEN behind ELSE behind \cup ({"files"} \cap NotAsked)
    /\ UNCHANGED <<path, created, queries, view, changes>>

-----------------------------------------------------------------------------
(***************************************************************************)
(* What the user does.  A file is renamed in its folder, as listed; files  *)
(* and folders are created wherever the user types.                        *)
(***************************************************************************)
Ask(o) ==
    /\ op = Idle /\ changes < MaxChange
    /\ op' = o /\ changes' = changes + 1
    /\ UNCHANGED <<server, queries, view, socket, behind, cuts>>

Request(kind, f, p, d, e) ==
    [kind |-> kind, state |-> "sent", file |-> f, at |-> p, dir |-> d, to |-> e]

AskCreate ==
    \/ \E p \in Path : Ask(Request("create", 0, p, Root, Root))
    \/ \E d \in Folder : Ask(Request("createFolder", 0, Absent, d, Root))

AskImport == \E p \in Path : Ask(Request("import", 0, p, Root, Root))

AskRename ==
    \/ \E f \in Existing(OrElse(list, Nothing)) : \E n \in Name \ {list[f].name} :
            Ask(Request("rename", f, [list[f] EXCEPT !.name = n], Root, Root))
    \/ \E d \in ShownFolders : \E e \in Folder \ {d} : Ask(Request("renameFolder", 0, Absent, d, e))

AskDelete ==
    \/ \E f \in Existing(OrElse(list, Nothing)) : Ask(Request("delete", f, Absent, Root, Root))
    \/ \E d \in ShownFolders : Ask(Request("deleteFolder", 0, Absent, d, Root))

Open(f) ==
    /\ f \in Existing(OrElse(list, Nothing))
    /\ Rendered(list, tabs \cup {f}, f, FALSE)
    /\ UNCHANGED <<server, fileFetch, known, folderFetch, local, socket, op, behind, bounds>>

\* The tab of f is closed; of the others, the one before it is shown if f was.
TabClosed(f) ==
    \E g \in IF active # f THEN {active} ELSE IF tabs \ {f} = {} THEN {Absent} ELSE tabs \ {f} :
        Rendered(list, tabs \ {f}, g, closedAll \/ tabs \ {f} = {})

CloseTab(f) ==
    /\ f \in tabs /\ TabClosed(f)
    /\ UNCHANGED <<server, fileFetch, known, folderFetch, local, socket, op, behind, bounds>>

CloseOthers(f) ==
    /\ f \in tabs /\ Rendered(list, {f}, f, FALSE)
    /\ UNCHANGED <<server, fileFetch, known, folderFetch, local, socket, op, behind, bounds>>

CloseAll ==
    /\ tabs # {} /\ Rendered(list, {}, Absent, TRUE)
    /\ UNCHANGED <<server, fileFetch, known, folderFetch, local, socket, op, behind, bounds>>

-----------------------------------------------------------------------------
(***************************************************************************)
(* The page's request: the server carries it out, the answer arrives, or   *)
(* it fails on either way, which the page only reports.                    *)
(***************************************************************************)
Sent(kind) == op # Idle /\ op.kind = kind /\ op.state = "sent"

Done(f) == op' = [op EXCEPT !.state = "done", !.file = f]

Serve ==
    /\ \/ Sent("create") /\ CreateFile(op.at) /\ Done(created + 1)
       \/ Sent("import") /\ ImportFile(op.at) /\ Done(0)
       \/ Sent("rename") /\ RenameFile(op.file, op.at) /\ Done(op.file)
       \/ Sent("delete") /\ DeleteFile(op.file) /\ Done(op.file)
       \/ Sent("createFolder") /\ CreateFolder(op.dir) /\ Done(0)
       \/ Sent("renameFolder") /\ RenameFolder(op.dir, op.to) /\ Done(0)
       \/ Sent("deleteFolder") /\ DeleteFolder(op.dir) /\ Done(0)
    /\ UNCHANGED <<queries, view, joined, bounds>>

Fails ==
    /\ op # Idle /\ op.state # "settling"
    /\ op' = Idle
    /\ UNCHANGED <<server, queries, view, socket, behind, bounds>>

QueryAnswered(kind) == op # Idle /\ op.kind = kind /\ op.state = "done"

\* A faulty form: the tab is opened, and the list left to be asked for again.
UnlistedCreateAnswered ==
    LET L == OrElse(list, Nothing) IN
    /\ QueryAnswered("create")
    /\ Rendered(L, tabs \cup {op.file}, op.file, closedAll)
    /\ InvalidateFiles(L)
    /\ op' = Idle
    /\ UNCHANGED <<server, known, folderFetch, local, socket, bounds>>

CreateAnswered ==
    LET L == Upserted(op.file, op.at) IN
    /\ QueryAnswered("create")
    /\ Rendered(L, tabs \cup {op.file}, op.file, closedAll)
    /\ InvalidateFiles(L)
    /\ op' = Idle
    /\ UNCHANGED <<server, known, folderFetch, local, socket, bounds>>

RenameAnswered ==
    LET L == Upserted(op.file, op.at) IN
    /\ QueryAnswered("rename")
    /\ Rendered(L, tabs, active, closedAll)
    /\ InvalidateFiles(L)
    /\ op' = Idle
    /\ UNCHANGED <<server, known, folderFetch, local, socket, bounds>>

DeleteAnswered ==
    /\ QueryAnswered("delete")
    /\ TabClosed(op.file)
    /\ InvalidateFiles(list)
    /\ op' = Idle
    /\ UNCHANGED <<server, known, folderFetch, local, socket, bounds>>

CreateFolderAnswered ==
    /\ QueryAnswered("createFolder")
    /\ local' = local \cup {op.dir}
    /\ InvalidateFolders
    /\ op' = Idle
    /\ UNCHANGED <<server, list, fileFetch, known, view, socket, bounds>>

\* The folders are asked for again when the files have come.
Settles == op' = [op EXCEPT !.state = "settling"]

ImportAnswered ==
    /\ QueryAnswered("import")
    /\ InvalidateFiles(list)
    /\ Settles
    /\ UNCHANGED <<server, list, known, folderFetch, local, view, socket, bounds>>

RenameFolderAnswered ==
    /\ QueryAnswered("renameFolder")
    /\ local' = Replaced(local, op.dir, op.to)
    /\ InvalidateFiles(list)
    /\ Settles
    /\ UNCHANGED <<server, list, known, folderFetch, view, socket, bounds>>

\* Its tabs are closed by what the page lists; the active file stays.
DeleteFolderAnswered ==
    LET L == OrElse(list, Nothing) IN
    /\ QueryAnswered("deleteFolder")
    /\ local' = local \ {op.dir}
    /\ tabs' = (tabs \cap Existing(L)) \ Inside(L, op.dir)
    /\ InvalidateFiles(list)
    /\ Settles
    /\ UNCHANGED <<server, list, known, folderFetch, active, closedAll, socket, bounds>>

FoldersSettled ==
    /\ op # Idle /\ op.state = "settling" /\ fileFetch.state = "none"
    /\ InvalidateFolders
    /\ op' = Idle
    /\ UNCHANGED <<server, list, fileFetch, known, local, view, socket, bounds>>

-----------------------------------------------------------------------------
(***************************************************************************)
(* Everybody else: other pages, and what terminals write in the workspace. *)
(***************************************************************************)
Others ==
    /\ changes < MaxChange
    /\ \/ \E p \in Path : ImportFile(p)
       \/ \E f \in File, p \in Path : RenameFile(f, p)
       \/ \E f \in File : DeleteFile(f) \/ RestoreFileEntry(f) \/ RestoreProjectEntry(f)
       \/ \E d \in Folder : CreateFolder(d)
       \/ \E d \in Folder : \E e \in Folder \ {d} : RenameFolder(d, e)
       \/ \E d \in Folder : DeleteFolder(d)
    /\ changes' = changes + 1
    /\ UNCHANGED <<queries, view, joined, op, cuts>>

ExplorerNext ==
    \/ ReadFiles \/ ReadFolders \/ FilesArrive \/ FoldersArrive \/ Focus
    \/ FileCreated \/ FileUpdated \/ FileDeleted \/ Join \/ Cut \/ Restart
    \/ AskCreate \/ AskImport \/ AskRename \/ AskDelete \/ CloseAll
    \/ \E f \in File : Open(f) \/ CloseTab(f) \/ CloseOthers(f)
    \/ Serve \/ Fails \/ CreateAnswered \/ RenameAnswered \/ DeleteAnswered
    \/ CreateFolderAnswered \/ ImportAnswered \/ RenameFolderAnswered
    \/ DeleteFolderAnswered \/ FoldersSettled \/ Others

ExplorerSpec == ExplorerInit /\ [][ExplorerNext]_explorerVars

-----------------------------------------------------------------------------
Quiet == fileFetch.state = "none" /\ folderFetch.state = "none" /\ inbox = <<>> /\ op = Idle

(***************************************************************************)
(* When nothing is on its way to a page, it lists the files that exist,    *)
(* under the paths they have, and shows every folder the server knows --   *)
(* whatever order the events, the answers of its queries and the answers   *)
(* of its own requests came in.  It may be wrong only where the code does  *)
(* not tell it: of folder requests of others, of events its socket missed, *)
(* when an answer that is older than an event replaces what the event set  *)
(* (workspace.tsx, setQueryData without cancelling the query), and when    *)
(* the first answer of a query is older than a change the page is told of: *)
(* a first fetch is not asked anew.  Of the folders only those are claimed *)
(* that exist: one that the page shows may be gone.                        *)
(***************************************************************************)
ListFollows ==
    Quiet => /\ "files" \in behind \/ list = path
             /\ "folders" \in behind \/ folders \subseteq ShownFolders

ByUser == CloseAll \/ \E f \in File : CloseTab(f) \/ CloseOthers(f)

(***************************************************************************)
(* A tab is closed only by its user or because its file is gone: the       *)
(* effect that closes the tabs of files a new list lacks never hits a file *)
(* that exists, such as the one the page itself has just created, unless   *)
(* the page is behind as in ListFollows.  A folder that the user deletes   *)
(* takes the tabs with it that the page shows in the folder.               *)
(***************************************************************************)
TabsKept ==
    [][\A f \in tabs \ tabs' :
            \/ path[f] = Absent \/ "files" \in behind
            \/ ByUser
            \/ DeleteFolderAnswered /\ f \in Inside(list, op.dir)]_explorerVars

=============================================================================
