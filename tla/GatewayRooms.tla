---------------------------- MODULE GatewayRooms ----------------------------
(***************************************************************************)
(* The rooms of one project in collab.gateway.ts: which sockets are in the *)
(* project and in its documents, which document sessions exist or are      *)
(* being opened, and who has edits that are not saved.  A handler runs to  *)
(* its first await at once; what it awaits (the access checks, the load of *)
(* a document, the append of a save) may end after the socket has left or  *)
(* is gone.  What a document says is the matter of DocSession.             *)
(***************************************************************************)
EXTENDS Naturals, FiniteSets

CONSTANTS
    File,          \* ids of the files of the project
    MaxSocket,     \* bound: connections ever made
    MaxSessions,   \* COLLAB_MAX_DOC_SESSIONS
    MaxDocs,       \* COLLAB_MAX_DOCS_PER_SOCKET
    MaxRequest,    \* bound: joins, updates, saves, deletions and revocations
    Environment    \* "failure": a load or an append may fail

ASSUME RoomsAssumption ==
    /\ IsFiniteSet(File) /\ MaxSocket \in Nat /\ MaxRequest \in Nat
    /\ MaxSessions \in Nat \ {0} /\ MaxDocs \in Nat \ {0}

\* The ids of sockets, in the order of their connections: none is used again.
Socket == 1 .. MaxSocket

VARIABLES
    conn,       \* conn[s]: "new", "up", "gone", or "replaced" by a later socket
    inProject,  \* the sockets in the room of the project, each counted as a connection
    clients,    \* clients[f]: the sockets in the document; its session exists if any is
    opening,    \* the files in pendingSessionInitializations
    dirty,      \* dirtySocketsByDocRoom
    entering,   \* the sockets whose join of the project awaits the checks
    joining,    \* joining[s][f]: what a join of the document awaits
    updating,   \* updating[s]: the files with an update that awaits its check
    saving,     \* saving[s][f]: what the report of a save awaits
    barred,     \* the sockets whose subject may no longer use the project
    deleted,    \* the files that are deleted
    shown,      \* shown[s]: the files the page of s marks as unsaved
    missed,     \* missed[s]: those of them saved while the page was away
    late,       \* the sockets that left or went while a handler of theirs awaited
    requests    \* joins, updates, saves, deletions and revocations so far

rooms == <<inProject, clients, opening, dirty>>
handlers == <<entering, joining, updating, saving>>
access == <<barred, deleted>>
pages == <<shown, missed>>
vars == <<conn, rooms, handlers, access, pages, late, requests>>

TypeOK ==
    /\ conn \in [Socket -> {"new", "up", "gone", "replaced"}]
    /\ inProject \subseteq Socket /\ entering \subseteq Socket
    /\ barred \subseteq Socket /\ late \subseteq Socket
    /\ clients \in [File -> SUBSET Socket] /\ dirty \in [File -> SUBSET Socket]
    /\ opening \subseteq File /\ deleted \subseteq File
    /\ joining \in [Socket -> [File -> {"none", "checks", "session"}]]
    /\ updating \in [Socket -> SUBSET File]
    /\ saving \in [Socket -> [File -> {"none", "check", "append"}]]
    /\ shown \in [Socket -> SUBSET File] /\ missed \in [Socket -> SUBSET File]
    /\ requests \in 0 .. MaxRequest

Init ==
    /\ conn = [s \in Socket |-> "new"]
    /\ inProject = {} /\ entering = {} /\ barred = {} /\ late = {}
    /\ clients = [f \in File |-> {}] /\ dirty = [f \in File |-> {}]
    /\ opening = {} /\ deleted = {}
    /\ joining = [s \in Socket |-> [f \in File |-> "none"]]
    /\ updating = [s \in Socket |-> {}]
    /\ saving = [s \in Socket |-> [f \in File |-> "none"]]
    /\ shown = [s \in Socket |-> {}] /\ missed = [s \in Socket |-> {}]
    /\ requests = 0

-------------------------------------------------------------------------------
Request == requests < MaxRequest /\ requests' = requests + 1

CanJoinFile(s, f) == s \notin barred /\ f \notin deleted

Open(f) == clients[f] # {}
Sessions == {f \in File : Open(f)}
Documents(s) == {f \in File : s \in clients[f]}
Dirty == {f \in File : dirty[f] # {}}

\* Who has unsaved edits becomes d; the sockets of the project, but for those
\* that are going, are told of the files that were clean or become so.
Told(d, going) ==
    LET soiled == {f \in File : dirty[f] = {} /\ d[f] # {}}
        cleaned == {f \in File : dirty[f] # {} /\ d[f] = {}}
    IN  /\ dirty' = d
        /\ shown' = [s \in Socket |-> IF s \in inProject \ going
                                      THEN (shown[s] \cup soiled) \ cleaned ELSE shown[s]]
        /\ missed' = [s \in Socket |->
                        IF s \in inProject \ going THEN missed[s] \ (soiled \cup cleaned)
                        ELSE missed[s] \cup (shown[s] \cap cleaned)]

\* Faulty: the unsaved edits of who leaves are kept.
KeepingLeft(s, fs, going) ==
    /\ clients' = [f \in File |-> IF f \in fs THEN clients[f] \ {s} ELSE clients[f]]
    /\ Told(dirty, going)

\* Socket s leaves the documents fs.
Left(s, fs, going) ==
    /\ clients' = [f \in File |-> IF f \in fs THEN clients[f] \ {s} ELSE clients[f]]
    /\ Told([f \in File |-> IF f \in fs THEN dirty[f] \ {s} ELSE dirty[f]], going)

-------------------------------------------------------------------------------
(* Sockets, and the room of the project.                                   *)

\* A page connects, for the first time or in place of a socket that is gone.
Connect(s) ==
    /\ conn[s] = "new" /\ \A t \in 1 .. s - 1 : conn[t] # "new"
    /\ \/ conn' = [conn EXCEPT ![s] = "up"] /\ UNCHANGED pages
       \/ \E t \in Socket : /\ conn[t] = "gone"
                            /\ conn' = [conn EXCEPT ![s] = "up", ![t] = "replaced"]
                            /\ shown' = [shown EXCEPT ![s] = shown[t]]
                            /\ missed' = [missed EXCEPT ![s] = missed[t]]
    /\ UNCHANGED <<rooms, handlers, access, late, requests>>

JoinProject(s) ==
    /\ conn[s] = "up" /\ s \notin entering /\ Request
    /\ entering' = entering \cup {s}
    /\ UNCHANGED <<conn, rooms, joining, updating, saving, access, pages, late>>

\* The checks of a join of the project end; canJoinProject and canUseTerminal are
\* one wait here, as nothing is done between them.
ProjectChecked(s) ==
    /\ s \in entering
    /\ entering' = entering \ {s}
    /\ IF s \in barred THEN UNCHANGED <<inProject, pages>>
       ELSE /\ inProject' = inProject \cup {s}
            /\ IF conn[s] = "up"
               THEN /\ shown' = [shown EXCEPT ![s] = @ \cup Dirty]
                    /\ missed' = [missed EXCEPT ![s] = @ \ Dirty]
               ELSE UNCHANGED pages
    /\ UNCHANGED <<conn, clients, opening, dirty, joining, updating, saving, access, late, requests>>

LeaveProject(s) ==
    /\ conn[s] = "up" /\ s \in inProject
    /\ inProject' = inProject \ {s}
    /\ UNCHANGED <<conn, clients, opening, dirty, handlers, access, pages, late, requests>>

Awaits(s) == \/ s \in entering \/ updating[s] # {}
             \/ \E f \in File : joining[s][f] # "none"

\* Faulty: the unsaved edits of a socket that goes are forgotten with nobody told.
QuietDisconnect(s) ==
    /\ conn[s] = "up"
    /\ conn' = [conn EXCEPT ![s] = "gone"]
    /\ inProject' = inProject \ {s}
    /\ clients' = [f \in File |-> clients[f] \ {s}]
    /\ dirty' = [f \in File |-> dirty[f] \ {s}]
    /\ late' = IF Awaits(s) THEN late \cup {s} ELSE late
    /\ UNCHANGED <<opening, handlers, access, pages, requests>>

Disconnect(s) ==
    /\ conn[s] = "up"
    /\ conn' = [conn EXCEPT ![s] = "gone"]
    /\ inProject' = inProject \ {s}
    /\ Left(s, File, {s})
    /\ late' = IF Awaits(s) THEN late \cup {s} ELSE late
    /\ UNCHANGED <<opening, handlers, access, requests>>

-------------------------------------------------------------------------------
(* Documents                                                               *)

JoinDoc(s, f) ==
    /\ conn[s] = "up" /\ joining[s][f] = "none" /\ Request
    /\ joining' = [joining EXCEPT ![s][f] = "checks"]
    /\ UNCHANGED <<conn, rooms, entering, updating, saving, access, pages, late>>

\* Faulty: sessions that are being opened are not counted.
OpenOnlyBusy(f) ==
    /\ ~Open(f) /\ f \notin opening
    /\ Cardinality(Sessions) >= MaxSessions

\* The server has no room for a session of f that neither exists nor is awaited.
Busy(f) ==
    /\ ~Open(f) /\ f \notin opening
    /\ Cardinality(Sessions) + Cardinality(opening) >= MaxSessions

Refused(s, f) ==
    \/ ~CanJoinFile(s, f)
    \/ s \notin clients[f] /\ Cardinality(Documents(s)) >= MaxDocs
    \/ Busy(f)

JoinChecked(s, f) ==
    /\ joining[s][f] = "checks"
    /\ joining' = [joining EXCEPT ![s][f] =
                     IF Refused(s, f) \/ Open(f) THEN "none" ELSE "session"]
    /\ clients' = IF Refused(s, f) \/ ~Open(f) THEN clients
                  ELSE [clients EXCEPT ![f] = @ \cup {s}]
    /\ opening' = IF Refused(s, f) \/ Open(f) THEN opening ELSE opening \cup {f}
    /\ UNCHANGED <<conn, inProject, dirty, entering, updating, saving, access, pages, late, requests>>

Waiting(f) == {s \in Socket : joining[s][f] = "session"}
Answered(f) == joining' = [s \in Socket |->
    IF s \in Waiting(f) THEN [joining[s] EXCEPT ![f] = "none"] ELSE joining[s]]

\* Those who wait join the new session, be they still connected or not.
Loaded(f) ==
    /\ f \in opening
    /\ opening' = opening \ {f}
    /\ clients' = [clients EXCEPT ![f] = Waiting(f)]
    /\ Answered(f)
    /\ UNCHANGED <<conn, inProject, dirty, entering, updating, saving, access, pages, late, requests>>

\* Faulty: a load that fails is not made known to those who wait for it.
SilentLoadFails(f) ==
    /\ f \in opening /\ ("failure" \in Environment \/ f \in deleted)
    /\ opening' = opening \ {f}
    /\ UNCHANGED <<conn, inProject, clients, dirty, handlers, access, pages, late, requests>>

\* The file is gone, or the load throws: all who wait are answered.
LoadFails(f) ==
    /\ f \in opening /\ ("failure" \in Environment \/ f \in deleted)
    /\ opening' = opening \ {f}
    /\ Answered(f)
    /\ UNCHANGED <<conn, inProject, clients, dirty, entering, updating, saving, access, pages, late, requests>>

LeaveDoc(s, f) ==
    /\ conn[s] = "up" /\ s \in clients[f]
    /\ Left(s, {f}, {})
    /\ late' = IF f \in updating[s] THEN late \cup {s} ELSE late
    /\ UNCHANGED <<conn, inProject, opening, handlers, access, requests>>

-------------------------------------------------------------------------------
(* Edits and saves                                                         *)

Update(s, f) ==
    /\ conn[s] = "up" /\ s \in clients[f] /\ f \notin updating[s] /\ Request
    /\ updating' = [updating EXCEPT ![s] = @ \cup {f}]
    /\ UNCHANGED <<conn, rooms, entering, joining, saving, access, pages, late>>

\* Whether the socket is still in the document is not asked again.
UpdateChecked(s, f) ==
    /\ f \in updating[s]
    /\ updating' = [updating EXCEPT ![s] = @ \ {f}]
    /\ IF CanJoinFile(s, f)
       THEN Told([dirty EXCEPT ![f] = @ \cup {s}], {}) /\ UNCHANGED clients
       ELSE Left(s, {f}, {})
    /\ UNCHANGED <<conn, inProject, opening, entering, joining, saving, access, late, requests>>

Saved(s, f) ==
    /\ conn[s] = "up" /\ s \in clients[f] /\ saving[s][f] = "none" /\ Request
    /\ saving' = [saving EXCEPT ![s][f] = "check"]
    /\ UNCHANGED <<conn, rooms, entering, joining, updating, access, pages, late>>

SavedChecked(s, f) ==
    /\ saving[s][f] = "check"
    /\ saving' = [saving EXCEPT ![s][f] =
                    IF CanJoinFile(s, f) /\ dirty[f] # {} THEN "append" ELSE "none"]
    /\ UNCHANGED <<conn, rooms, entering, joining, updating, access, pages, late, requests>>

\* markDocumentSavedGlobally: the edits of all are saved.
Appended(s, f) ==
    /\ saving[s][f] = "append"
    /\ saving' = [saving EXCEPT ![s][f] = "none"]
    /\ Told([dirty EXCEPT ![f] = {}], {})
    /\ UNCHANGED <<conn, inProject, clients, opening, entering, joining, updating, access, late, requests>>

AppendFails(s, f) ==
    /\ saving[s][f] = "append" /\ "failure" \in Environment
    /\ saving' = [saving EXCEPT ![s][f] = "none"]
    /\ UNCHANGED <<conn, rooms, entering, joining, updating, access, pages, late, requests>>

-------------------------------------------------------------------------------
(* A file is deleted, a subject removed from the project.                  *)

\* The pages in the project forget the file.
Delete(f) ==
    /\ f \notin deleted /\ Request
    /\ deleted' = deleted \cup {f}
    /\ shown' = [s \in Socket |-> IF s \in inProject THEN shown[s] \ {f} ELSE shown[s]]
    /\ UNCHANGED <<conn, rooms, handlers, barred, missed, late>>

Bar(s) ==
    /\ conn[s] = "up" /\ s \notin barred /\ Request
    /\ barred' = barred \cup {s}
    /\ UNCHANGED <<conn, rooms, handlers, deleted, pages, late>>

-------------------------------------------------------------------------------
Checked(s) ==
    \/ ProjectChecked(s)
    \/ \E f \in File : \/ JoinChecked(s, f) \/ UpdateChecked(s, f)
                       \/ SavedChecked(s, f) \/ Appended(s, f) \/ AppendFails(s, f)

LoadEnds(f) == Loaded(f) \/ LoadFails(f)

Next ==
    \/ \E s \in Socket :
         \/ Connect(s) \/ JoinProject(s) \/ LeaveProject(s) \/ Disconnect(s) \/ Bar(s)
         \/ \E f \in File : JoinDoc(s, f) \/ LeaveDoc(s, f) \/ Update(s, f) \/ Saved(s, f)
         \/ Checked(s)
    \/ \E f \in File : LoadEnds(f) \/ Delete(f)

Spec == Init /\ [][Next]_vars

\* What a handler awaits ends.
FairSpec ==
    /\ Spec
    /\ \A f \in File : WF_vars(LoadEnds(f))
    /\ \A s \in Socket, f \in File : WF_vars(JoinChecked(s, f))

-------------------------------------------------------------------------------
\* Sessions that exist and sessions that are being opened stay within the cap,
\* however many joins await their checks when one of them reserves its place.
SessionsCapped == Cardinality(Sessions) + Cardinality(opening) <= MaxSessions

\* A page in the project marks a file as unsaved if someone has unsaved edits of
\* it.  The other way round, it also keeps a mark of a file saved while the page
\* was away: on a join only the files that are dirty are told.
DirtyShown ==
    \A s \in inProject : conn[s] = "up" =>
        /\ Dirty \ deleted \subseteq shown[s]
        /\ shown[s] \ deleted \subseteq Dirty \cup missed[s]

\* Who left or is gone has no place in a room and no unsaved edits, unless a
\* handler of theirs was awaiting something: it goes on as if they were there.
NothingHeld ==
    \A s \in Socket \ late :
        /\ conn[s] \in {"gone", "replaced"} => s \notin inProject /\ Documents(s) = {}
        /\ \A f \in File : s \in dirty[f] => s \in clients[f]

\* A document is being loaded just when somebody waits for its session: who waits
\* waits for a load that will answer, and a session that comes into being is not
\* left with nobody in it, with a place within the cap that nothing frees.
LoadsAwaited == \A f \in File : f \in opening <=> Waiting(f) # {}

\* Everyone who asks to join a document is answered: nobody waits for ever for a
\* session that somebody else opens.
JoinAnswered ==
    \A s \in Socket, f \in File : joining[s][f] # "none" ~> joining[s][f] = "none"

===============================================================================
