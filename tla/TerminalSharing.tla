--------------------------- MODULE TerminalSharing ---------------------------
(***************************************************************************)
(* How the members of a project share control of their terminals: the      *)
(* handlers of collab.gateway.ts and what they say to the rooms of         *)
(* terminals, and the pages of use-collab-terminal.ts and TerminalPane.tsx *)
(* that show it.  Handlers that await an access check end in any order;    *)
(* what the server says to a page arrives in order.  Opening, input and    *)
(* the shells are the matter of TerminalSession.                           *)
(***************************************************************************)
EXTENDS Naturals, Sequences, FiniteSets

CONSTANTS
    Person,       \* the subjects of the project's members
    NoPerson,     \* no subject
    Elsewhere,    \* those in the project over the connection of a document page too
    MaxEvent,     \* bound: what users and networks do
    Environment   \* "refusal": an access check may refuse

ASSUME SharingAssumption ==
    /\ NoPerson \notin Person /\ Elsewhere \subseteq Person /\ MaxEvent \in Nat

VARIABLES
    \* the server
    inProject,   \* the subjects whose terminal connection is in the room of the project
    rooms,       \* rooms[s]: the terminals in whose rooms the connection of s is
    controller,  \* controller[o]: who controls the terminal of o
    pending,     \* pending[o]: who asked to control it
    entering,    \* the subjects whose join of the project awaits its checks
    listing,     \* the subjects whose request of the list awaits its check
    joining,     \* joining[s]: the terminals whose join awaits its check
    \* the pages
    following,   \* the subjects whose page follows what the server says
    inbox,       \* inbox[s]: what the server said and the page has not taken in
    tabs,        \* tabs[s]: terminals
    activeOwner, \* activeOwner[s]: activeOwnerSubject
    shown,       \* shown[s][o]: statesByOwner, the controller
    asks,        \* asks[s]: statesByOwner, those who ask for the own terminal
    status,      \* status[s][o]: requestStatusByOwner
    \* history
    untold,      \* <<s, o>>: s is in the room of o and was not told that the controller left
    forsaken,    \* <<s, o>>: a request of s for o ended and s was not told
    events       \* what users and networks did so far

server == <<inProject, rooms, controller, pending, entering, listing, joining>>
display == <<tabs, activeOwner, shown, asks, status>>
sharingVars == <<server, following, inbox, display, untold, forsaken, events>>

Status == {"idle", "pending", "approved", "rejected", "revoked"}

SharingTypeOK ==
    /\ inProject \subseteq Person
    /\ entering \subseteq Person /\ listing \subseteq Person
    /\ rooms \in [Person -> SUBSET Person] /\ joining \in [Person -> SUBSET Person]
    /\ controller \in [Person -> Person]
    /\ pending \in [Person -> SUBSET Person]
    /\ following \subseteq Person
    /\ DOMAIN inbox = Person
    /\ tabs \in [Person -> SUBSET Person] /\ asks \in [Person -> SUBSET Person]
    /\ activeOwner \in [Person -> Person \cup {NoPerson}]
    /\ shown \in [Person -> [Person -> Person \cup {NoPerson}]]
    /\ status \in [Person -> [Person -> Status]]
    /\ untold \subseteq Person \X Person /\ forsaken \subseteq Person \X Person
    /\ events \in 0 .. MaxEvent

SharingInit ==
    /\ inProject = {} /\ entering = {} /\ listing = {}
    /\ rooms = [s \in Person |-> {}] /\ joining = [s \in Person |-> {}]
    /\ controller = [o \in Person |-> o] /\ pending = [o \in Person |-> {}]
    /\ following = {} /\ inbox = [s \in Person |-> <<>>]
    /\ tabs = [s \in Person |-> {}] /\ asks = [s \in Person |-> {}]
    /\ activeOwner = [s \in Person |-> NoPerson]
    /\ shown = [s \in Person |-> [o \in Person |-> NoPerson]]
    /\ status = [s \in Person |-> [o \in Person |-> "idle"]]
    /\ untold = {} /\ forsaken = {} /\ events = 0

-------------------------------------------------------------------------------
UserEvent == events < MaxEvent /\ events' = events + 1

Present(s) == s \in inProject \cup Elsewhere
Members == {s \in Person : Present(s)}

List(members) == [kind |-> "list", members |-> members]
StateMessage(o, c, p) == [kind |-> "state", owner |-> o, controller |-> c, pending |-> p]
Requested(o, s) == [kind |-> "requested", owner |-> o, by |-> s]
Decision(o, s, d) == [kind |-> "decision", owner |-> o, by |-> s, status |-> d]

Room(o) == {s \in Person : o \in rooms[s]}

\* The messages to[s] go to the pages that listen.
Send(to) == inbox' = [s \in Person |-> IF s \in following THEN inbox[s] \o to[s] ELSE inbox[s]]

\* ms is said to the room of o.  The list the project is sent after it differs
\* from the one before in a number only.
Announce(o, ms) == Send([s \in Person |-> IF s \in Room(o) THEN ms ELSE <<>>])

-------------------------------------------------------------------------------
(* Members come and go                                                     *)

\* The join of the project ends: the list goes to all, the state of the own
\* terminal to the one who joined.  The list s asked for, if it is answered after
\* that, says nothing new.
EnterDone(s) ==
    /\ s \in entering
    /\ entering' = entering \ {s} /\ listing' = listing \ {s}
    /\ inProject' = inProject \cup {s}
    /\ rooms' = [rooms EXCEPT ![s] = @ \cup {s}]
    /\ Send([t \in Person |->
                (IF t \in inProject' THEN <<List(Members \cup {s})>> ELSE <<>>)
                \o (IF t = s THEN <<StateMessage(s, controller[s], pending[s])>> ELSE <<>>)])
    /\ untold' = untold \ {<<s, s>>}
    /\ UNCHANGED <<controller, pending, joining, following, display, forsaken, events>>

\* markProjectLeft: another connection of s keeps s in the project.  Whoever no
\* longer follows is not told, nor is it held that they were not.
Leaves(s) ==
    LET stays == s \in Elsewhere
        heir(o) == IF ~stays /\ s \in {o, controller[o]} THEN o ELSE controller[o]
        rest(o) == IF stays THEN pending[o] ELSE IF o = s THEN {} ELSE pending[o] \ {s}
    IN  /\ controller' = [o \in Person |-> heir(o)]
        /\ pending' = [o \in Person |-> rest(o)]
        /\ untold' = {p \in following' \X Person :
                        p \in untold \/ (p[2] \in rooms'[p[1]] /\ heir(p[2]) # controller[p[2]])}
        /\ forsaken' = {p \in following' \X Person :
                        p \in forsaken \/ p[1] \in pending[p[2]] \ rest(p[2])}

\* The terminal connection of s leaves the room of the project, if it is there.
LeavesProject(s) ==
    LET there == s \in inProject
        rest == inProject \ {s}
    IN  /\ inProject' = rest
        /\ IF there THEN Leaves(s)
           ELSE /\ UNCHANGED <<controller, pending>>
                /\ untold' = {p \in untold : p[1] # s} /\ forsaken' = {p \in forsaken : p[1] # s}
        /\ inbox' = [t \in Person |->
                       IF t = s THEN <<>>
                       ELSE IF there /\ t \in rest \cap following
                       THEN Append(inbox[t], List(rest \cup Elsewhere)) ELSE inbox[t]]

-------------------------------------------------------------------------------
(* The page of s                                                           *)

Mount(s) ==
    /\ s \notin following /\ UserEvent
    /\ following' = following \cup {s}
    /\ entering' = entering \cup {s} /\ listing' = listing \cup {s}
    /\ UNCHANGED <<inProject, rooms, controller, pending, joining, inbox, display,
                   untold, forsaken>>

\* The page stops following, and starts from nothing when it is mounted again.
Stops(s) ==
    /\ s \in following
    /\ following' = following \ {s}
    /\ tabs' = [tabs EXCEPT ![s] = {}] /\ asks' = [asks EXCEPT ![s] = {}]
    /\ activeOwner' = [activeOwner EXCEPT ![s] = NoPerson]
    /\ shown' = [shown EXCEPT ![s] = [o \in Person |-> NoPerson]]
    /\ status' = [status EXCEPT ![s] = [o \in Person |-> "idle"]]
    /\ LeavesProject(s) /\ UserEvent
    /\ UNCHANGED <<entering, listing, joining>>

\* The page goes: it leaves the project, and the terminal.
Unmount(s) ==
    /\ rooms' = [rooms EXCEPT ![s] = IF s \in inProject THEN {} ELSE @ \ {activeOwner[s]}]
    /\ Stops(s)

\* The connection is lost, all its handlers having ended.  A new one joins
\* nothing: what the page shows is no longer followed.
Cut(s) ==
    /\ s \notin entering \cup listing /\ joining[s] = {}
    /\ rooms' = [rooms EXCEPT ![s] = {}]
    /\ Stops(s)

\* The effect on the active terminal: from its room to that of o.
Activate(s, o) ==
    /\ activeOwner' = [activeOwner EXCEPT ![s] = o]
    /\ rooms' = IF o = activeOwner[s] THEN rooms ELSE [rooms EXCEPT ![s] = @ \ {activeOwner[s]}]
    /\ joining' = IF o \in {NoPerson, activeOwner[s]} THEN joining
                  ELSE [joining EXCEPT ![s] = @ \cup {o}]

Select(s, o) ==
    /\ s \in following /\ o \in tabs[s] \ {activeOwner[s]} /\ UserEvent
    /\ Activate(s, o)
    /\ UNCHANGED <<inProject, controller, pending, entering, listing,
                   following, inbox, tabs, shown, asks, status, untold, forsaken>>

\* The list keeps the active terminal if it can, or else takes the own one, or
\* else the first.
TakeList(s, m) ==
    /\ tabs' = [tabs EXCEPT ![s] = m.members]
    /\ \E o \in m.members \cup {NoPerson} :
         /\ CASE activeOwner[s] \in m.members -> o = activeOwner[s]
              [] activeOwner[s] \notin m.members /\ s \in m.members -> o = s
              [] OTHER -> o = NoPerson <=> m.members = {}
         /\ Activate(s, o)
    /\ UNCHANGED <<shown, asks, status>>

TakeState(s, m) ==
    /\ shown' = [shown EXCEPT ![s][m.owner] = m.controller]
    /\ asks' = IF m.owner = s THEN [asks EXCEPT ![s] = m.pending] ELSE asks
    /\ status' = IF m.controller = s THEN [status EXCEPT ![s][m.owner] = "approved"] ELSE status
    /\ UNCHANGED <<tabs, activeOwner, rooms, joining>>

TakeRequested(s, m) ==
    /\ asks' = IF m.owner = s /\ shown[s][s] # NoPerson THEN [asks EXCEPT ![s] = @ \cup {m.by}]
               ELSE asks
    /\ UNCHANGED <<tabs, activeOwner, shown, status, rooms, joining>>

TakeDecision(s, m) ==
    /\ status' = IF m.by = s THEN [status EXCEPT ![s][m.owner] = m.status] ELSE status
    /\ UNCHANGED <<tabs, activeOwner, shown, asks, rooms, joining>>

Receive(s) ==
    /\ s \in following /\ inbox[s] # <<>>
    /\ inbox' = [inbox EXCEPT ![s] = Tail(@)]
    /\ LET m == Head(inbox[s])
       IN  CASE m.kind = "list"      -> TakeList(s, m)
             [] m.kind = "state"     -> TakeState(s, m)
             [] m.kind = "requested" -> TakeRequested(s, m)
             [] m.kind = "decision"  -> TakeDecision(s, m)
    /\ UNCHANGED <<inProject, controller, pending, entering, listing,
                   following, untold, forsaken, events>>

-------------------------------------------------------------------------------
(* Handlers that await an access check                                     *)

ListDone(s) ==
    /\ s \in listing
    /\ listing' = listing \ {s}
    /\ Send([t \in Person |-> IF t = s /\ Present(s) THEN <<List(Members)>> ELSE <<>>])
    /\ UNCHANGED <<inProject, rooms, controller, pending, entering, joining,
                   following, display, untold, forsaken, events>>

JoinDone(s, o) ==
    /\ o \in joining[s]
    /\ joining' = [joining EXCEPT ![s] = @ \ {o}]
    /\ IF Present(s) /\ Present(o)
       THEN /\ rooms' = [rooms EXCEPT ![s] = @ \cup {o}]
            /\ Send([t \in Person |->
                       IF t = s THEN <<StateMessage(o, controller[o], pending[o])>> ELSE <<>>])
            /\ untold' = untold \ {<<s, o>>}
       ELSE UNCHANGED <<rooms, inbox, untold>>
    /\ UNCHANGED <<inProject, controller, pending, entering, listing,
                   following, display, forsaken, events>>

Refused(s) ==
    /\ "refusal" \in Environment /\ UserEvent
    /\ \/ s \in entering /\ entering' = entering \ {s} /\ UNCHANGED <<listing, joining>>
       \/ s \in listing /\ listing' = listing \ {s} /\ UNCHANGED <<entering, joining>>
       \/ \E o \in joining[s] : joining' = [joining EXCEPT ![s] = @ \ {o}]
                                /\ UNCHANGED <<entering, listing>>
    /\ UNCHANGED <<inProject, rooms, controller, pending, following, inbox,
                   display, untold, forsaken>>

-------------------------------------------------------------------------------
(* Asking for control, and giving it                                       *)

\* What the pane has a button for.
CanRequest(s, o) ==
    s \in following /\ o \notin {NoPerson, s} /\ shown[s][o] # s /\ status[s][o] # "pending"
CanDecide(s, by) == s \in following /\ activeOwner[s] = s /\ by \in asks[s]
CanRevoke(s) == s \in following /\ activeOwner[s] = s /\ shown[s][s] # s

Waits(s, o) == status' = [status EXCEPT ![s][o] = "pending"]

\* The page shows that s waits even if the server turns the request down.
RequestControl(s) ==
    LET o == activeOwner[s]
    IN
    /\ CanRequest(s, o) /\ UserEvent /\ Waits(s, o)
    /\ IF Present(s) /\ Present(o) /\ controller[o] # s
       THEN /\ pending' = [pending EXCEPT ![o] = @ \cup {s}]
            /\ Announce(o, <<Requested(o, s)>>)
            /\ forsaken' = forsaken \ {<<s, o>>}
       ELSE /\ UNCHANGED <<pending, inbox>>
            /\ forsaken' = forsaken \cup {<<s, o>>}
    /\ UNCHANGED <<inProject, rooms, controller, entering, listing, joining,
                   following, tabs, activeOwner, shown, asks, untold>>

\* Faulty: the room is told of the decision and not of the new state.
StatelessDecide(s, by, approve) ==
    /\ CanDecide(s, by) /\ UserEvent
    /\ IF Present(s) /\ by \in pending[s]
       THEN /\ pending' = [pending EXCEPT ![s] = @ \ {by}]
            /\ controller' = IF approve /\ Present(by) THEN [controller EXCEPT ![s] = by]
                             ELSE controller
            /\ Announce(s, <<Decision(s, by, IF approve THEN "approved" ELSE "rejected")>>)
            /\ untold' = untold \ {<<t, s>> : t \in Room(s)}
            /\ forsaken' = forsaken \cup {<<t, s>> : t \in ({by} \cap following) \ Room(s)}
       ELSE UNCHANGED <<controller, pending, inbox, untold, forsaken>>
    /\ UNCHANGED <<inProject, rooms, entering, listing, joining, following, display>>

\* Faulty: the room is told of the new state and not of the decision.
SilentDecide(s, by, approve) ==
    /\ CanDecide(s, by) /\ UserEvent
    /\ IF Present(s) /\ by \in pending[s]
       THEN /\ pending' = [pending EXCEPT ![s] = @ \ {by}]
            /\ controller' = IF approve /\ Present(by) THEN [controller EXCEPT ![s] = by]
                             ELSE controller
            /\ Announce(s, <<StateMessage(s, controller'[s], pending'[s])>>)
            /\ untold' = untold \ {<<t, s>> : t \in Room(s)}
            /\ forsaken' = forsaken \cup {<<t, s>> : t \in ({by} \cap following) \ Room(s)}
       ELSE UNCHANGED <<controller, pending, inbox, untold, forsaken>>
    /\ UNCHANGED <<inProject, rooms, entering, listing, joining, following, display>>

Decide(s, by, approve) ==
    /\ CanDecide(s, by) /\ UserEvent
    /\ IF Present(s) /\ by \in pending[s]
       THEN /\ pending' = [pending EXCEPT ![s] = @ \ {by}]
            /\ controller' = IF approve /\ Present(by) THEN [controller EXCEPT ![s] = by]
                             ELSE controller
            /\ Announce(s, <<StateMessage(s, controller'[s], pending'[s]),
                             Decision(s, by, IF approve THEN "approved" ELSE "rejected")>>)
            /\ untold' = untold \ {<<t, s>> : t \in Room(s)}
            /\ forsaken' = forsaken \cup {<<t, s>> : t \in ({by} \cap following) \ Room(s)}
       ELSE UNCHANGED <<controller, pending, inbox, untold, forsaken>>
    /\ UNCHANGED <<inProject, rooms, entering, listing, joining, following, display>>

\* Every request for the terminal of s is dropped; the decision names the
\* subject only who had control.
Revoke(s) ==
    LET had == controller[s]
    IN
    /\ CanRevoke(s) /\ UserEvent
    /\ IF Present(s)
       THEN /\ controller' = [controller EXCEPT ![s] = s]
            /\ pending' = [pending EXCEPT ![s] = {}]
            /\ Announce(s, <<StateMessage(s, s, {})>>
                           \o IF had # s THEN <<Decision(s, had, "revoked")>> ELSE <<>>)
            /\ untold' = untold \ {<<t, s>> : t \in Room(s)}
            /\ forsaken' = forsaken \cup {<<t, s>> : t \in pending[s] \cap following}
       ELSE UNCHANGED <<controller, pending, inbox, untold, forsaken>>
    /\ UNCHANGED <<inProject, rooms, entering, listing, joining, following, display>>

-------------------------------------------------------------------------------
SharingNext ==
    \E s \in Person :
        \/ Mount(s) \/ Unmount(s) \/ Cut(s) \/ Receive(s)
        \/ EnterDone(s) \/ ListDone(s) \/ Refused(s)
        \/ RequestControl(s) \/ Revoke(s)
        \/ \E o \in Person : Select(s, o) \/ JoinDone(s, o)
        \/ \E by \in Person, approve \in BOOLEAN : Decide(s, by, approve)

SharingSpec == SharingInit /\ [][SharingNext]_sharingVars

-------------------------------------------------------------------------------
\* A page that has taken in all it was told shows who controls a terminal in
\* whose room it is, unless the controller left the project: only the list, which
\* the page does not go by, tells of that.
ControlShown ==
    \A s, o \in Person :
        s \in following /\ inbox[s] = <<>> /\ o \in rooms[s] /\ <<s, o>> \notin untold
            => shown[s][o] \in {NoPerson, controller[o]}

\* Who is shown to wait for an answer, and cannot ask again, is still among those
\* who ask, unless the request was forsaken: turned down, dropped by a revocation
\* or a departure, or decided while the page was in another room.
WaitingAsks ==
    \A s, o \in Person :
        s \in following /\ inbox[s] = <<>> /\ status[s][o] = "pending"
            => s \in pending[o] \/ <<s, o>> \in forsaken

===============================================================================
