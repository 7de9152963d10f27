# A specification of the collaborative code editor

TLA+ modules, model-checking configurations and TLAPS proofs about this
repository: a Node process (`server/src`) that lets several people edit the
files of a project at once over Socket.IO, keeps each document's Yjs history in
PostgreSQL, mirrors the files to a workspace directory and runs terminals in
Docker sandboxes; and the browser's side of it (`client/src`), which shares one
socket, binds documents to an editor and keeps lists of what the server has. The
specification is translated from the TypeScript sources;
`PROJECT.json` maps each definition to the lines it stands for.

## 1. Inventory

`G` = `server/src/modules/collab/collab.gateway.ts`, `Y` =
`server/src/modules/collab/yjs-history.repository.ts`, `W` =
`server/src/ws/collab-server.ts`, `T` =
`server/src/modules/collab/terminal/terminal-session-manager.ts`, `P` =
`client/src/routes/workspace.tsx`, `H` = `client/src/hooks/use-collab-doc.ts`, `C` =
`client/src/lib/collab-client.ts`.

| Component | State | Operations | Correct when |
|---|---|---|---|
| Collaborative documents (`G`, `W`) | `docSessions`, `pendingSessionInitializations`, `dirtySocketsByDocRoom`; per session the `Y.Doc`, `clients`, `authorizedSubjects`, `lastSequence`, `updatesSinceSnapshot`, `snapshotInFlight`; per socket `joinedRooms` | join, leave, update, saved, rewind, disconnect | one session per open room, its clients follow its document, nothing acknowledged is lost |
| Document history (`Y`) | `YjsAggregate`, `YjsUpdate`, `YjsSnapshot`, `YjsRewind` rows | append, snapshot, rewind edge, hydrate, timeline | sequences without gap, each update stored once, hydration complete |
| Terminal sessions (`T`, `G`) | sessions by project and owner, memberships, operation queue, pending prewarms | join/leave project, open, input, resize, close, request, decide, revoke | only the owner and one granted member write; what was opened is closed |
| Sandboxes (`docker-sandbox-manager.ts`, shell runtimes, TTY stream) | containers and shells by owner | ensure, open, write, close, dispose | one container per owner, a live shell never loses its container |
| Live sync (`project-workspace-live-sync.ts`) | watcher state and reference count per project | start, stop, schedule, reconcile | watched exactly while a terminal is open, a change is eventually reconciled |
| Workspace synchronisation (`project-workspace-sync-service.ts`, `-store.ts`) | project locks, workspace files | hydrate, reconcile, API create/update/delete | database and workspace converge, no write is lost |
| Files (`files.repository.ts`, `.service.ts`, `.router.ts`, `file-blob-store.ts`) | rows, blobs, virtual folders | create, import, update, rename, delete | row and blob agree after every failure |
| Projects, members, invites (`projects.repository.ts`) | rows | create, share, accept, revoke, remove | an invite is used once, a removed member stays removed |
| Rooms of the gateway (`G`) | per socket `joinedProjects`, `joinedDocRooms`; per project the sessions open and pending | join and leave project, join and leave document, eviction | the caps hold, pages know what is unsaved, nothing is kept for who is gone |
| Collaboration client (`C`, `H`) | the socket, the references per project, pending joins, the local document | connect, join, leave, watch, edit, preview, rewind | an edit reaches the room it was made in, what is not wanted is left |
| Workspace page (`P`, `EditorPane.tsx`, `FilesSidebar.tsx`, `BottomDrawers.tsx`) | drafts, tabs, the active file, lists of files and folders (TanStack Query), suggestions | type, save, autosave, load a version, accept, create, rename, delete, import | no edit is dropped, what is shown as saved is, lists and tabs follow the server |
| Terminal pane (`use-collab-terminal.ts`, `TerminalPane.tsx`) | states and request status by owner | watch, select, ask, decide, revoke | who controls and who waits is shown as it is |
| Structured edits, event bridge, authentication, AI, runner, HTTP, deployment | none, or outside the program | | |

How they interact: Socket.IO delivers events to handlers of `G`; these await the
authorisers and repositories `W` wires in, and emit to rooms. The HTTP API
writes files and projects and tells `G` through the event bridge. Opening a
terminal calls hooks that hydrate the workspace and start the live sync, whose
reconciliations write files and emit events. The page talks to the HTTP API and,
over one socket that `C` shares between its hooks, to `G`; what the two tell it
comes over connections of their own and in any order.

What is hard: the process has one thread, but every handler awaits the database
several times, and between two awaits any other handler runs. Handlers keep
references to sessions the room has replaced since; answers arrive in another
order than their queries were sent; a socket goes away while its handlers run;
the history is written row by row, so that a failure or a crash separates what
belongs together. In the page, effects and callbacks of one render run after
those of another, and an answer may be to a question that is no longer asked. The list of hazards, each at its line, is in `PROJECT.json`.

## 2. Modules

| Module | Models |
|---|---|
| `YjsHistory` | The rows of one file: what `Y` writes, and what a hydration reads back. The abstract history. |
| `DocSession` | The live document of one file on top of `YjsHistory`: every handler of `G` that changes document state, await by await. |
| `YjsAppend` | The transaction of `appendUpdate`, statement by statement, run by several callers; it implements `YjsHistory`'s append. |
| `GatewayRooms` | The rooms of one project in `G`: several documents, caps on sessions, waiting joins, unsaved marks. |
| `CollabClient` | One page's connection: `C` with the joins of `H`, and what `G` keeps of that connection. |
| `EditorPage` | One file in one user's page, with a collaborator: binding, preview, rewind, drafts, saves, suggestions. |
| `ProjectExplorer` | The files and folders of a project on the server, and the lists and tabs of one page. |
| `TerminalSession` | The terminal of one owner: who may use it, the queue of its operations, and its shell. |
| `TerminalSharing` | All terminals of a project: control, what the server says of it to whom, and what pages show. |
| `Sandbox` | The Docker sandbox of one owner and the runtimes of the owner's stays. |
| `LiveSync` | The watcher state of one project, its references, timers and reconciliations, and the terminals that start and stop it. |
| `ProjectFiles` | The files of one project as rows, blobs and workspace files: requests, hydration and reconciliation, call by call. |
| `Membership` | A project, its members and invites: every request statement by statement, with the locks of the database. |
| `MCDocSession`, `MCTerminalSession`, `MCProjectFiles`, `MCProjectExplorer` | Instances for TLC where the module itself does not do. |
| `DocSessionProofs`, `CollabClientProofs`, `TerminalSessionProofs`, `ProjectFilesProofs`, `MembershipProofs`, `GatewayRoomsProofs`, `SandboxProofs`, `EditorPageProofs` | Theorems about the module each is named after; `DocSessionProofs` also has those about `YjsAppend`, `TerminalSessionProofs` also has those about `TerminalSharing` and `LiveSync`, `EditorPageProofs` those about `ProjectExplorer`. |

Composition: `DocSession` is built on `YjsHistory`, which `YjsAppend` refines.
The others overlap where components meet: `GatewayRooms` has the joins of
`DocSession` for several rooms and leaves out what documents say; `CollabClient`
has the handlers of `G` for one connection, `EditorPage` the hook on top of an
open document, `TerminalSharing` the control that `TerminalSession` has for one
owner, `Sandbox` what `TerminalSession` sees as a handle.

Modules that one proof module is about name their variables and definitions
apart, so that it extends them all: `YjsAppend` says `AppendInit` and
`snapshotRows` beside the `Init` and `snapshots` of `DocSession`, `LiveSync`
`currentState`, `TerminalSharing` `activeOwner` and `Person` beside the `current`,
`active` and `Subject` of `TerminalSession`, and `ProjectExplorer` `fileFetch`
beside the `fetch` of `EditorPage`.

### YjsHistory

A Yjs document is a join-semilattice, so an update, a snapshot and a document
are sets of operations and applying one is a union. `updates` is the sequence
of update rows, `snapshots` the newest snapshot row per sequence, `rewinds` the
edges. `Hydrated` is `getHydratedState`, `HydratedAt` is
`getHydratedStateAtSequence`, with the base chosen the way the query orders rows.
Dependencies between operations (a Yjs update is pending until those it follows
have been applied) are not modelled.

### DocSession

One room. A socket stands for a subject of its own. Sessions are numbered as
they are opened: `current` is the one `docSessions` has, a handler's `sid` the
one it captured. `task[h]` is a handler in flight; its `pc` names the await it
is in. Each action is what the code does from one await to the next:

| Handler | Actions |
|---|---|
| `collab:doc:join` | `JoinStart`, `Authorize`, `JoinExisting` / `JoinPending` / `JoinCreate`, `OpenSnapshot`, `OpenUpdates`, `OpenInstall` / `OpenContent` / `OpenFails` |
| `collab:doc:leave`, `disconnect` | `Leave`, `Disconnect` |
| `collab:doc:update` | `UpdateStart`, `Authorize`, `UpdateApply` / `UpdateEvict` |
| `collab:doc:saved` | `SaveStart`, `Authorize`, `SaveSkip` / `SaveEncode`, `AppendAnswer` / `SaveFails`, `SaveAck`, then `SnapshotSaved` / `SnapshotFails` in the background |
| `collab:doc:rewind` | `RewindStart`, `Authorize`, `RewindCheck`, `RewindTarget`, `RewindSnapshot`, `RewindApply`, `AppendAnswer`, `RewindRecord`, with `RewindReject` and `RewindFails` |

Abstractions, each chosen so that no order of steps is lost:

- Awaits with nothing else between them are one step: the two access checks of
  a join, an access check with the write that follows it, the queries about a
  rewind's target, the load and save of the snapshot a rewind leaves.
- An await of a function that returns without I/O, such as `socket.join` of the
  in-memory adapter, is no step: no event of another socket runs in it.
- Edits are numbers, made by clients in the order of `edits`; the stored file
  content, inserted when a session is opened without history, is an operation of
  the session that inserted it, so that a second insertion is a second operation.
- `acked`, `orphaned`, `unsent` and `forked` record what happened and are read by
  properties only. `forked` is set when a handler of a session that is not current
  appends, and when a socket gets its access back while it waits for the file
  content: the loader answered it nothing for want of access, so that it goes on to
  start the document from the file although a history exists (section 5).
- `Environment` says what else happens: access withdrawn and restored, queries
  that fail, a crash of the process.
- Left out: rate limits, size limits, presence and cursors. Several rooms and the
  caps are in `GatewayRooms`.
  The removal of a socket whose subject is not in `authorizedSubjects` is not an
  action: `RoomConsistent` shows that the condition is never met.

### YjsAppend

Every statement of the transaction is an action, and every caller can be
aborted at each of them. The database is PostgreSQL at READ COMMITTED: reads see
committed rows, a write of a row waits for the transaction that holds it, and a
unique key is violated by a committed row only. The tables start empty: one
migration created all three of them. A commit whose answer is lost is part of
`Commit`; `DocSession` merges it with a failure before the commit, so that an
update stored although the save failed is modelled here only.

### LiveSync

One project. The terminals stand for the shells that were opened in it: after an
opening the hook in `W` calls `start`, after a close `reconcileNow` and then
`stop`. A state is the object `start` makes; `currentState` is the one
`statesByProject` has, `live` those whose interval and watcher run. A run is
`waiting` until `reconcileProjectWorkspace` gets the lock of the project, then
`read` until what it read is stored. The workspace is a number that a program in
a terminal increases; `seen` and `synced` are the number a run has read and the
last one stored.

- A terminal whose owner leaves the project is closed at once, also while its
  start is awaited (`leftEarly`); one closed by its users waits for the start.
- A failed `start` leaves the session open (`StartFails`); a run that fails makes
  its caller skip `stop`, and ends the process if a timer started it.
- `scheduleReconcile` sets its timer anew at each event. The model sets it once:
  that a timer fires in the end assumes pauses of the debounce time.

### TerminalSession

The terminal of one owner in one project. A session is an object
`ensureSession` makes; `current` is the one in the map, and a handler keeps the
one it captured in `task[h].sid`, also after the owner left and rejoined. A
handler's `pc` names what it awaits: its access check, its place in `chain` (the
`operationChain`), the sandbox, the shell or a hook of the live sync. An
operation that is next in its chain starts before anything else happens, since
only resolved promises lie between.

- `handle` is the runtime's `interactiveSession`; a shell may end by itself,
  which the runtime notices when it writes. `leaving` is what `markProjectLeft`
  started and nobody awaits: closing the shell, the hook, disposing.
- `held` counts starts less stops of the live sync. Each hook may fail once
  (`failed`); an owner who leaves while operations are queued sets `early`.
- A socket may disconnect while its join is awaited: the join then counts a
  connection that nothing takes back, as in the code.
- `resizeSession` has the control flow of `processInput` and is not a kind of
  its own. What a sandbox does when a session of an earlier stay disposes of it
  is in `Sandbox`; prewarming is part of what an opening awaits. Size and rate
  limits are left out.

### ProjectFiles

One project. A file is an id given by `createFileInternal`; `row` is its row,
`blob` what is stored under its storage key, `disk` the workspace, by path. A
path is a folder and a name: renaming and deleting folders and the directories
that are not listed need the first, nothing needs more. A content stands for its
hash and its size as well.

`task[t]` is a request, or `Live`, what the synchronisation service of the
terminals runs. Requests are served by the HTTP API under the lock of a service
of its own (`queue`), `Live` under the other's, which is why the two overlap.

| Code | Actions |
|---|---|
| `createFileInternal` | `WriteBlob`, `Insert`, `RemoveBlob` |
| `update`, `updateFromSync` | `Find`, `Read`, `Store`, `Update`, `Refresh`, `Reread`, `Restore` |
| `remove`, `removeFromSync` | `FindToRemove`, `ReadToRemove`, `Delete`, `Unlink` |
| POST, PATCH, DELETE of a file | `Request...`, `Lookup`, `LookupText`, then the above with `Write`, `Erase`, `Rewrite` |
| `renameFolder`, `deleteFolder` | `RequestRenameFolder`, `RenameRows`, `RenameConflicts`; `RequestDeleteFolder`, `DeleteRows`, `UnlinkAll` |
| hydration | `List`, `ReadListed`, `Clear`, `Put`, `Hydrated` |
| reconciliation | `List`, `ReadListed`, `Scan`, `StartJob` and the operations above, `Reconcile` |

- The same action serves a request and `Live` where the code of `update` and
  `updateFromSync` differs in a detail only; `t = Live` marks the difference.
- `Caught` is what the `catch` blocks around each await do, `CallFails` one call
  that fails. A crash leaves rows, blobs and the workspace as they are.
- `Save` and `Move` stand for any program in a terminal. The order in which
  renamed files of one content are matched is left open.
- Listing the workspace is one step (`Scan`): a change made while it is read is
  seen or not, as a whole. Emptying it is one step as well. A write to the store
  or the workspace that fails half way is not modelled, nor are the documents
  open in `DocSession`, which are not told of these changes.
- `created` and `raced` are read by properties only.

### GatewayRooms

The sockets of one project and its documents. `joining[s][f]` is a handler of
`collab:doc:join` and what it awaits: its checks, or a load, its own or another
handler's; `opening` are the loads that run, `clients` the sockets of each
session. A load that ends answers all who wait for it (`Loaded`, `LoadFails`);
its own handler is past the check of the cap by then, others are not. `dirty` is
`dirtySocketsByDocRoom`, `shown` what a page marks as unsaved. A handler that
awaits goes on after its socket left or is gone: `late` names the sockets this
happened to, `missed` the files saved while a page was away; both are read by
properties only. What pages are told arrives at once.

### CollabClient

One page. An attempt is one run of the effect of `H` that joins the selected
file; `attempt[a].stage` is where `joinDocument` is: connecting, waiting for the
sync, open, or ended. Listeners are per connection, so that a sync or an error
settles every attempt it matches (`Answered`, `Disowned`): ids decide, not the
order of requests. The callers that waited for a connection join in the order of
their calls (`InOrder`, `Joins`). A watcher is one run of the effect that watches the project;
`References` are `retainProject` and `releaseProject`. `outbox` and `inbox` are
the two directions of a connection; `handling` counts the joins the server has
been sent and awaits checks for, which may end after a later message was
handled. Every effect that runs tells the server what is active
(`sendProjectActivity`), and for that makes a connection where there is none, also
after the cleanup that closed the last (`Deselect`, `Unmount`).

What the code does not hold up against is recorded per file and per watcher, and
read by properties only. `strays` are the files an attempt of which timed out
while its answer was coming, was rejected by an error about something else, or was
made while another that had been given up still waited; the answer to one join
is then taken for that to another. `unjoined` are the watchers whose room was lost
with its connection, or whose join was refused. `refused` are the files an edit of
which was turned down; `upset` says whether a connection was lost (`drop`) or refused
(`refusal`).

### EditorPage

A text is the set of edits it has; a snapshot that is previewed, loaded or gone
back to has none of those of the model. `text` is the live document, `stored` the
file, `persisted` what is in the history. `editor` is the Monaco instance and
its model (`known`: the hook has seen one of this file, if only one that is gone,
whose model its callbacks still have), `binding` the MonacoBindings that are alive, `session` the collab
session of `H`, `draft` and `cached` what `P` keeps of the file, `save[s]` the
saves in flight, by who started them. Decisions of the code that depend on text
(is the draft dirty, does the model differ from what is to be shown) compare
these sets. A suggestion is a text made from the one shown, with one edit more.
The listing of versions is there for its requests, its content is not.

### ProjectExplorer

`path` are the rows, `folders` the virtual folders the server keeps in memory;
`list` and `known` what the page's two queries hold, `fileFetch` and
`folderFetch` the queries in flight, with the snapshot their answer will bring. `Anew`
(`invalidateQueries`) asks again, except during a first fetch that has no data,
which TanStack Query does not interrupt. `op` is the request of the page,
`inbox` the events of the socket. `Rendered` are the effects that close and open
tabs after each change of the list. `behind` names the list that the code itself
leaves wrong, until it is asked again: by an answer that was read before an event
and comes after it, by a first answer that is older than what the page is told
before it (a first fetch is not asked anew), by events the socket missed, by folders
others change. It is read by properties only. A request is carried out and its events sent in one
step; what fails half way is the matter of `ProjectFiles`. Folders are one level
deep, and an import brings one file.

### TerminalSharing

The terminals of all members, by their owners. Handlers that await a check
(`entering`, `listing`, `joining`) end in any order, what the server emits is in
`inbox` in order; the check and what follows it are one step. `shown`, `asks` and
`status` are what the hook keeps by owner. `untold` are the pages
nobody tells that a controller left, `forsaken` those nobody tells that their
request is no more; both are read by properties only.

### Sandbox

One owner in one project. A runtime is made for each stay of the owner and asked
for one thing at a time, but leaving starts at once, whatever it is doing. `ref`
is the entry of `sandboxes`, `ensure` that of `pendingEnsures` with its step,
`container` and `shell` what the Docker daemon has: they outlive a crash of the
process. `op` and `leave` are what a runtime awaits. The environment lets calls
fail, the container die, shells exit and the process crash; an ensure that fails
rejects everybody who waits for it. A shell is closed when its stream closes or
250 ms have passed. What the code loses is recorded shell by shell, and read by
properties only: `displaced` shells were taken from the reference by the opening or
the closing of another, `unclaimed` ones failed their inspection or opened for an owner
who had left, `unheard` ones had closed before the reference had them. The container
is `abandoned` if its ensuring failed after it was created, if it was started for an owner who
had left, or if it was there when the process ended; a removal ends that.

### Membership

The rows of one project, its members and its invites, at READ COMMITTED: a
statement waits for the transaction that wrote its row, an insertion that refers
to the project shares it, and deleting the project waits for those who do. Each
request is a `task` whose `pc` is its next statement. A deletion locks the project, then
deletes the rows of its members and then those of its invites, one at a time as it gets
them (`EraseMember`, `EraseInvite`, `EraseCommit`). `WaitsFor` is whom a transaction waits for
while it holds rows; of those in a cycle (`Deadlocked`) the database ends one, whichever
(`Victim`, `Break`). The cycles there are have a deletion and an accept: of a
new member, who refers to the project, or of an old one, whose row the deletion has. `granted`,
`removed` and `pardoned` record who became a member by which invite, who was
removed, and whose profile update had passed its check by then; they are read by
properties only. Names, previews and listings are left out.

## 3. Runs

Every bound guards actions that start work, never those that end it.

| Run | Shows | Instance |
|---|---|---|
| `doc_room` | `RoomConsistent`, `OneSeed`, `ViewsTrackDocument`, `Durable`, `EdgesPointBack` | two sockets and handlers, two edits, sessions and rows; access withdrawn, failures, a crash; symmetric |
| `rooms` | `SessionsCapped`, `DirtyShown`, `NothingHeld`, `JoinAnswered` | two files, two sockets, one session and one document per socket, five requests, failures |
| `yjs_append` | `StoredOnce`, `AppendAnswered`, `ImplementsAppend` | three callers, aborts and lost answers |
| `client` | `NoEditRefused`, `NothingLeftBehind`, `WatcherIsMember`, `JoinEnds` | two files, two selections and watchers, two connections, one lost; timeouts, refusals, unmounting |
| `editor` | `NothingDropped`, `EditorFollows`, `CleanIsStored` | two edits, two turns of everything else |
| `explorer` | `ListFollows`, `TabsKept` | two files in two folders under two names, two changes, two cuts or restarts; symmetric |
| `terminal` | `ControlledByMembers`, `StateTracksShell`, `SilentAfterLeave`, `WatchedWhileOpen`, `OpAnswered` | owner and guest, two handlers, two sessions, failures |
| `sharing` | `ControlShown`, `WaitingAsks` | two members, one of whom also comes from another page, six events, refusals |
| `sandbox` | `HandleWorks`, `NoStrayShell`, `NoOrphan` | two stays, three shells, four calls, one mishap |
| `live_sync` | `WatchedWhileHeld`, `ChangesReconciled` | two terminals and states, one change, one failure |
| `files` | `BlobForRow`, `HashTracksBlob`, `Reconciled` | two requests, three files, two paths; terminals, a failure, a crash |
| `membership` | `UsedOnce`, `MembersInvited`, `RemovedStaysOut`, `RequestsEnd` | owner and guest, two invites, two requests at a time and six in all, failures |

Deadlock is not checked: with its bounds used up, a system may stop. Ids of
sockets and handlers are few and used again only when nothing refers to them.

Why the bounds are enough:

- Two of a kind is what most interleavings take: a handler of a replaced session
  and one of the new one, a save and a rewind, a join that waits and one that
  loads, two saves of one page.
- `rooms`: with room for one session and two files, every join of a second file
  meets the cap in each of its checks. One socket that stays and one that comes
  and goes are enough for marks that are missed.
- `client`: two selections are A and B, or A again; a second connection is one
  that was made after the first was lost, or by a page mounted anew.
- `editor`: any two of preview, rewind, loading a version, suggestion, switching
  away and a failure follow one another, with two edits to tell who made which.
- `explorer`: two changes and two answers in flight are what an answer that is
  older than an event takes; the list cannot be wrong in more than one way twice.
- `terminal` has two settings, chosen in the initial state, since all of it at once
  is too large. In `together`, two subjects come and go, ask and decide while the
  owner stays: who controls a session does not depend on another session. In
  `alone` the owner types, leaves and comes back: the shell does not depend on who
  asks. What an owner's leaving does to others' control is proved.
- `sandbox`: two stays are one that ends and one that begins meanwhile; the third
  shell is one opened again after a mishap.
- `live_sync`: a change before and after the read of a run, a second state beside
  the first, a stop before and after another start.
- `files` serialises what the terminals' side does and what requests do
  (`"overlap"` is not in its `Environment`): `HashTracksBlob` and `Reconciled` claim
  nothing else, and `BlobForRow`, which holds with overlap too, is proved.
- `membership`: two requests at a time for each pair of an accept, a revocation, a
  removal, a profile update and a deletion. A deadlock takes an accept and a deletion;
  both cycles of the two are reached.

Exceptions. A property that the code does not keep in general says so by what it
excepts, in its comment and in its formula. An exception is a race of the code that the
model reaches, recorded in a variable that only properties read, and told in section 5;
what remains is claimed for every other behaviour. Wherever the code loses one thing of many,
the exception names that one, and the others are still claimed:

| Property | Excepts |
|---|---|
| `Durable`, `OneSeed` | everything after a fork (`forked`) |
| `ViewsTrackDocument` | the operations that went astray (`orphaned`, `unsent`) |
| `DirtyShown` | the files saved while the page was away (`missed`) |
| `NothingHeld` | the sockets that left while a handler of theirs awaited (`late`) |
| `NoEditRefused`, `NothingLeftBehind` | the files of `strays`; the first also a lost connection |
| `WatcherIsMember` | the watchers of `unjoined` |
| `JoinEnds` | how a join ends, not that it does: `strays`, a loss, a refusal |
| `NothingDropped`, `EditorFollows`, `CleanIsStored` | the races in `upset` that each names |
| `ListFollows`, `TabsKept` | the list that is `behind` |
| `WatchedWhileOpen` | failed hooks, owners who left early (`failed`, `early`) |
| `ControlShown`, `WaitingAsks` | the pages nobody tells (`untold`, `forsaken`) |
| `HandleWorks` | the shells of `displaced` and `unheard` |
| `NoStrayShell` | the shells of `displaced` and `unclaimed` |
| `NoOrphan` | the container that is `abandoned` |
| `WatchedWhileHeld`, `ChangesReconciled` | a state that was lost; a terminal left before its start (`lost`, `leftEarly`, `fault`) |
| `HashTracksBlob`, `Reconciled` | requests and terminals that overlap (`raced`) |
| `RemovedStaysOut` | who was removed after the check of an update (`pardoned`) |

The others have none. The hazards in `PROJECT.json` that an exception is about say so in
their notes.

Fairness: a handler that waits for an answer gets one, success or failure,
because drivers, Docker and timers answer or time out: `WF` on what each handler
does next. Nothing is assumed of users. In `YjsAppend` and `Membership` the
database carries out each statement it can and breaks deadlocks; aborts are not
assumed. In `LiveSync` intervals and timers fire and a run that started ends;
terminals need never close. In `CollabClient` messages of a connection that
stays up arrive, and timers run. In `GatewayRooms` loads and checks end.

Each property comes with a mutant in `PROJECT.json`, a change of the code that
the run detects; the faulty definitions stand beside the ones they change.

## 4. Proofs

Proved for all values of the constants:

- `TypeCorrect`, `RoomCorrect`, `OpeningCorrect`, `EdgesCorrect`, `DurableCorrect`,
  `SeededCorrect`, `ViewsCorrect` of `DocSession`;
- `GapFreeCorrect`, `StoredOnceCorrect`, `RetryCorrect`, `HolderCorrect`,
  `AppendRefines` of `YjsAppend`;
- `LiveSyncTypes`, `LiveSyncWatched` of `LiveSync`;
- `TerminalTypes`, `TerminalControlled`, `TerminalTracked`, `TerminalSilent`,
  `TerminalWatched` of `TerminalSession`;
- `SharingShown`, `SharingWaits` of `TerminalSharing`;
- `FilesTypes`, `FilesBlobs`, `FilesHashes`, `FilesReconciled` of `ProjectFiles`;
- `SandboxTypes`, `SandboxHandles`, `SandboxShells`, `SandboxContainers` of
  `Sandbox`;
- `EditorTypes`, `EditorBound`, `EditorKeeps`, `EditorClean` of `EditorPage`;
- `ClientTypes`, `ClientEdits`, `ClientLeaves`, `ClientWatches` of `CollabClient`;
- `ExplorerTypes`, `ExplorerFollows`, `ExplorerKeeps` of `ProjectExplorer`;
- `RoomsTypes`, `RoomsCapped`, `RoomsMarked`, `RoomsLeft`, `RoomsAwaited` of
  `GatewayRooms`;
- `TypeCorrect`, `OneUse`, `InvitedOnly`, `NoLostUse`, `RemovedStay`, `NoOrphanRows` of
  `Membership`.

Assumptions: `ConstantsAssumption` (finitely many handlers, natural bounds, a
positive snapshot interval), `TerminalAssumption` (an owner among the subjects,
finitely many handlers, natural bounds), `ClientAssumption` (the project's room
is no document's, `NoFile` no room, natural bounds), `AppenderAssumption`
(`Nobody` is no appender, `MayFail` a truth value), `SharingAssumption` (who comes
from another page is a subject, `NoPerson` is none, a natural bound),
`LiveSyncAssumption` (finitely many terminals, `NoTerminal` is none, natural
bounds), `ExplorerAssumption` (folders are places of files, `Absent` no path,
`Unknown` no list, natural bounds), `ProjectFilesAssumption` (natural bounds; the
terminals' side is no handler, `None` no content), `RoomsAssumption` (finitely
many files, positive caps), `SandboxAssumption` and `EditorAssumption` (natural
bounds) and `MembershipAssumption` (an owner among the subjects, `None` no subject
and no request, a natural bound). TLC evaluates each of them on the run of its
module. The argument in each case is an
inductive invariant, preserved by each action in a step of its own.

- `SingleOpening` needs that the handlers at an opening's await are exactly one
  while the entry is pending, for which cardinalities of sets of handlers are
  computed action by action.
- `EdgesPointBack` needs that a sequence a handler holds is not ahead of the
  history, and that a rewind in flight holds a head and a target in order.
- `Durable` is not inductive: it needs, unless `forked`, that a document opened or
  being opened contains what was acknowledged, that a save or a rewind in flight
  carries what it will acknowledge, and that each snapshot row and each
  snapshot in flight contains every acknowledged update up to its sequence. And it
  needs that who is about to start a document from the file either found no update or has no
  access (`WatchInv`): only access that comes back then, which is a fork, breaks that.
- `OneSeed` rests, unless `forked`, on what else may hold an insertion of the file
  content: snapshots, snapshots in flight and what a handler has read of the history
  hold none that the update rows lack, and a save carries the one of its document
  and has stored it when it answers. A new session is seeded only where the
  history is empty, by `WatchInv`, so that the rows never have a second.
- `ViewsTrackDocument` is stronger as an invariant than as it is run: what a client
  holds beyond its document is an update of its own on the way to it. For that, a
  rewind that is to be announced is in its document, and the views of
  sockets that are no clients are empty.
- `GapFree` needs that the holder of the aggregate row is the one transaction
  that computed the next sequence; `RetrySuffices`, that a call on its second
  attempt meets a committed aggregate, which nothing removes.
- `WatchedWhileHeld` needs that a run in flight closes the terminal that awaits it
  and no other, that the state in the map has a reference to take away even
  after references were lost, and that a new state was never watched before.
- `ControlledByMembers`, `StateTracksShell` and `SilentAfterLeave` need that sessions
  still to be made are as new, that nothing is left of the session in the map,
  and that a running operation is the head of the chain of its session, so that
  two never run in one session.
- `WatchedWhileOpen` is a balance: what a session holds and what operations and
  the leaving are about to give back, is one if its shell is open, plus
  what openings are about to hold. Each action moves one between two of these
  sets of handlers, which is why `Handler` is assumed finite.
- `ControlShown` and `WaitingAsks` speak of pages that have taken in all they were told.
  In between, the messages on the way make up the difference: the last state of a
  terminal among them has its controller, or there is none and the page is right
  already; and who waits though no longer among those who ask is on the way to be told.
  What is said at once to a room therefore ends in the state that was reached, and a
  page that goes takes its messages with it.
- `BlobForRow` needs that an id to be inserted has its blob, has no row and is
  known to one task only, that a blob to be removed belongs to an id that never
  had a row or has lost it for good, and that what an update writes, and writes
  back, is a content. Overlap does not disturb it: no step of the code inserts a
  row for an id that was given before.
- `HashTracksBlob` and `Reconciled` need whose turn it is. A request past its
  first stages holds the lock of the project, or is about folders and takes none;
  unless `raced`, the latter and the terminals' side run alone. So one task at a
  time changes rows and blobs, and the hash it holds of a file is that of its blob. A reconciliation has a plan: each row is as the workspace was listed or
  exactly one of its jobs concerns it, and each listed path is covered by a row that
  stays or a job that makes one. Doing any job of the plan leaves a plan, and an
  empty plan is what `Reconciled` states.
- `HandleWorks`, `NoStrayShell` and `NoOrphan` speak of quiet moments, and need what
  holds in between, whatever has failed, died or overlapped. A shell that runs is in a
  container that runs, and that has a reference or is about to be removed by a leaving, because
  `dispose` gives the reference up only to remove. A shell that a stay has, or is about to
  have, is the reference's, or was displaced, or its container is about to be removed;
  and the reference's shell runs, or will be heard to close, or was unheard. A shell that runs
  and is neither displaced nor unclaimed is a handle, is being installed, or somebody awaits
  its end. A container that is not abandoned is being made, is about to be removed, or
  has a reference, and with it a stay that goes on or a leaving that will come to it.
- `EditorFollows` and `NothingDropped` rest on three facts: a binding that is alive is
  of the mounted editor and the joined document, and makes them equal; the hook holds
  it, or at most one that is to be made waits for the module; and an editor with
  a document and no preview has one of these. A preview is set in the model only after
  the binding was destroyed, so that nothing is written through it. The first
  attempt failed on a preview asked for in an editor that has gone since, which
  the model did not have then (section 5).
- `CleanIsStored` needs, until a race happens, that saves come one at a time, that a
  draft outlives its save, and is what the editor has. Without a draft the question is why
  the document should be stored: because what the page has, be it the cache or the
  model, equals the document only if that is stored (a new edit is in none of
  the older texts), and because after a version was loaded the model equals the cache.
- `ListFollows` is, file by file and folder by folder, a matter of what the page is
  still to learn: unless `behind`, what it lists is right, or an event that says so is on the
  way, or the query is asked and not yet answered, or its answer has it right. `TabsKept`
  needs with that, that tabs are of files the page has been told of, and that no answer
  on the way lacks a file that is there and listed.
- `NoEditRefused`, `NothingLeftBehind` and `WatcherIsMember` are about the order of
  messages. For one document on one connection, unless its file is one of `strays`: no two
  attempts of it wait or are open; its join is in one place at most, sent, handled or answered,
  an attempt waits as long as it is, and no leave follows it; who is in the room will hear so,
  has it open or is leaving it. A file chosen again after it was given up is such a
  document again, if the attempt before it is over. With that, and unless a connection was lost, an
  update is sent from inside the room and before the leave, and an open document is a joined one.
  Of the project the last word the server hears is a join while somebody watches that is not
  `unjoined`, because the references count the hook's one watcher, so that a release is
  followed by a retain on the same connection.
- `UsedOnce`, `MembersInvited` and `RemovedStaysOut` need what requests past their
  checks rely on, and who holds which lock: an accept holds its invite from the
  consumption to its commit, so that it stays open, and the member row from the insertion
  on, and while it shares the project nobody deletes it; a deletion holds the project from
  its first row to its last. `UsersAreMembers` (whose invite is
  used up is a member, unless removed since) and `NothingOutlivesProject` are parts
  of the same invariant, and proved with it.
- `SessionsCapped` is inductive: a load that ends moves its file from the loads to
  the sessions, or drops it, and only a file that is neither is ever reserved.
  `DirtyShown` needs the same of the marks of pages that are away, which a new
  socket takes over, and that a socket never connected is in no room.
  `NothingHeld` needs that a file being opened has no session, so that those who
  wait for it displace nobody, and that the handlers of a socket that is not late
  find it connected and in the document. `LoadsAwaited` is inductive with the types:
  a check that makes a socket wait adds the load, and a load that ends answers all.
- `LoadsAwaited` and `HolderProceeds` are what `JoinAnswered` and `AppendAnswered`
  rest on for any number of sockets and callers: whoever waits, waits for a load or a
  transaction that waits for nothing itself. That these end is the fairness assumed.

`SingleOpening`, `GapFree`, `RetrySuffices`, `HolderProceeds`, `LoadsAwaited`,
`UsersAreMembers`, `NothingOutlivesProject` and the type invariants are proved and not run.

These inductive invariants were checked as invariants of the runs, and of larger
instances of them, before they were proved. All safety properties the runs check
are proved. Model-checked only: liveness, which the prover does not treat. Of recursive
definitions there are none.

## 5. Where the code and its documents disagree

The models reach each of these; the definitions named state what the document
says and stand in the modules, unchecked because the code does not keep them.

1. `DocSession!Synchronized` ("Synchronize edits in real time", `README.md`:37): an
   update in flight while its room's session is replaced is broadcast to clients
   whose document never gets it (`G`:793).
2. `DocSession!HeadMatches` ("rejects rewind when expected head sequence does not
   match current head", `collab.gateway.test.ts`:1088): a rewind moves `lastSequence`
   back over a save acknowledged while its edge was being stored (`G`:1275).
3. `ProjectFiles!CreatedKept` ("serializes operations with project lock",
   `project-workspace-sync-service.test.ts`:184): the HTTP API and the terminals each
   have locks of their own (`W`:31). A hydration that listed the rows before a file
   was created empties the workspace after it was written there; the next
   reconciliation deletes the file.
4. `ProjectFiles!ExcludedKept` ("Excluded dirs for workspace sync", `README.md`:168):
   the listing of the workspace skips the excluded directories, the listing of the
   rows does not: the first reconciliation after a terminal was opened deletes
   every file the project has in one of them.

What the models also reach, where the documents promise nothing precise:

- Documents: an acknowledged save clears the marks of edits made since it was
  encoded, and a leave those of edits that others still have unsaved; the next
  save skips them. A rewind edge may name a head that its update did not follow. A
  snapshot of a session that was opened before the last append of its predecessor
  hides that append from later hydrations. A socket whose access comes back between the loader's
  answer and that of `loadFileContent` starts a session from the file although the document has
  a history: the text is inserted a second time (`G`:2602).
- Rooms: a socket that leaves or disconnects while its join, update or save is
  awaited is added, or marked as having unsaved edits, afterwards, and nothing takes
  that back (`G`:525, 801).
- Terminals: one that is closed while another opening is queued opens again with
  its output going nowhere; input queued before a revocation is written after it;
  a subject who disconnects while joining is counted for ever.
- Sharing: a revocation drops all requests and tells only the state, so that a page
  goes on to show its request as pending (`T`:430); a controller who leaves is told
  by the list alone (`G`:2228); a page that is reconnected joins nothing again.
- Sandboxes: an owner who leaves while the container is being made leaves it
  behind; so does an ensuring that fails after it created the container, as when its start
  fails, and the end of the process. A quick return may have its container removed by the
  disposal before it. A shell whose inspection fails runs on unknown; one that opens for an
  owner who had left does as well. Opening a shell replaces the one the reference had, and
  closing one clears the reference whichever it has: input then does not reach a shell
  that runs. One that has closed before it is kept is not heard to close. A disposal that
  fails ends the process (`docker-shell-runtime.ts`:197).
- Live sync: two terminals that open at once make two watcher states, and the one
  that is overwritten is watched for ever; a run of a timer that fails ends the
  process.
- Files: of two renames of one file that overlap, the second leaves the name in
  between in the workspace. Renaming or deleting a folder leaves the workspace as
  it is, so that the next reconciliation undoes it, or fails on the paths. A second
  terminal that opens hydrates over changes nobody reconciled. An update of the
  path alone writes back the content it read before its awaits. Restoring a version
  changes the row and not the live document.
- Client: answers are matched by ids, so a file that is chosen again while its
  join is handled takes the answer to the earlier join, and the leave that was sent
  for that one makes the server refuse its edits; a sync that comes after its timeout leaves
  the document joined for nobody; an error without ids rejects
  every pending join; after a reconnection nobody joins the project again for who watches it
  (`C`:387). A page that is closed while connecting keeps its socket, and one that is closed
  while connected makes another, to tell that nothing is active (`H`:471), which stays for nobody.
- Editor: autosave does not look at the preview, the shortcut does (`P`:923, 1243);
  two bindings made while y-monaco loads double what is typed (`H`:150); content
  fetched after a version was loaded overwrites the model, and with it edits of
  others (`EditorPane.tsx`:122); the answer to a preview that was asked for before
  the editor was replaced unbinds the one there is now, which then neither shows
  the document nor changes it (`H`:551); an accepted suggestion undoes what was typed after
  it was made (`P`:1529); of two saves that overlap the earlier may be stored last.
- Lists: an answer that is older than an event replaces what the event set
  (`P`:313, 361), and a first fetch is not asked anew when the page is told of a
  change; nobody is told of others' folders (`files.router.ts`:1001, 1120); a
  page never forgets a folder of its own that others deleted (`P`:839), the server
  forgets all that have no files when it restarts; deleting a folder closes tabs by
  a list that may be old (`P`:646).

## 6. Not modelled

Structured edits and the frame parser of the TTY stream: pure functions over the
characters of a text. The event bridge, which keeps one registered emitter.
Authentication: a library and an identity provider; the models take the subject
of a socket as given. AI suggestions and the runner: stateless calls; what
accepting a suggestion does is in `EditorPage`. HTTP wiring and error mapping.
Cursors, presence and activity, which are relayed and not kept. Rate and size
limits. One-off commands in a sandbox and the local runtime. History entries of
files and projects, which nothing but their listing reads, except for restoring.
Layout, landing pages, the project dashboard. Deployment files.

## 7. Plan

1. Several requests of a page at a time in `ProjectExplorer`, and deeper folders.
2. The calls inside an import in `ProjectFiles`.
3. `StructuredDiff` and `TtyStream` as functions against reference definitions.
