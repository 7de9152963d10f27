------------------------- MODULE GatewayRoomsProofs -------------------------
(***************************************************************************)
(* What a project's rooms keep to, for any files, sockets and caps: the    *)
(* number of document sessions, the marks of unsaved edits in the pages,   *)
(* and what is left of a socket that went.                                 *)
(***************************************************************************)
EXTENDS GatewayRooms, FiniteSetTheorems, TLAPS

\* A socket that was never connected has done nothing.
Fresh ==
    \A s \in Socket : conn[s] = "new" =>
        /\ s \notin inProject /\ s \notin entering
        /\ updating[s] = {} /\ Documents(s) = {}
        /\ \A f \in File : joining[s][f] = "none"

\* A session that exists is not being opened: those who wait for the new one do
\* not take the place of others.
Apart == \A f \in opening : clients[f] = {}

\* A mark in a page, in the project or not, is of a file that is dirty or that was
\* saved while the page was away.
Marks == \A s \in Socket : shown[s] \ deleted \subseteq Dirty \cup missed[s]

\* Handlers of a socket that is not late find it where they left it.
Settled ==
    \A s \in Socket \ late :
        /\ conn[s] \in {"gone", "replaced"} => ~Awaits(s)
        /\ \A f \in updating[s] : s \in clients[f]

Inv ==
    /\ TypeOK /\ Fresh /\ Apart /\ Marks /\ Settled
    /\ SessionsCapped /\ DirtyShown /\ NothingHeld

-------------------------------------------------------------------------------
(* How many sessions there are.                                            *)

LEMMA Finite ==
    /\ IsFiniteSet(File)
    /\ \A S \in SUBSET File : IsFiniteSet(S) /\ Cardinality(S) \in Nat
    /\ MaxSessions \in Nat
BY RoomsAssumption, FS_Subset, FS_CardinalityType DEF RoomsAssumption

\* Sessions only end, and so does opening them.
LEMMA CapShrinks ==
    ASSUME TypeOK, SessionsCapped, Sessions' \subseteq Sessions, opening' \subseteq opening
    PROVE  SessionsCapped'
<1>1. Sessions \in SUBSET File /\ opening \in SUBSET File
    BY DEF TypeOK, Sessions
<1>2. Cardinality(Sessions') <= Cardinality(Sessions)
    BY <1>1, Finite, FS_Subset
<1>3. Cardinality(opening') <= Cardinality(opening)
    BY <1>1, Finite, FS_Subset
<1>4. Sessions' \in SUBSET File /\ opening' \in SUBSET File
    BY <1>1
<1> QED
    BY <1>1, <1>2, <1>3, <1>4, Finite DEF SessionsCapped

\* A session that was being opened exists.
LEMMA CapMoves ==
    ASSUME TypeOK, SessionsCapped, NEW f \in opening,
           Sessions' \subseteq Sessions \cup {f}, opening' = opening \ {f}
    PROVE  SessionsCapped'
<1>1. Sessions \in SUBSET File /\ opening \in SUBSET File /\ f \in File
    BY DEF TypeOK, Sessions
<1>2. IsFiniteSet(Sessions) /\ IsFiniteSet(opening) /\ IsFiniteSet(Sessions \cup {f})
    <2>1. Sessions \cup {f} \in SUBSET File
        BY <1>1
    <2> QED
        BY <1>1, <2>1, Finite
<1>3. Cardinality(Sessions \cup {f}) <= Cardinality(Sessions) + 1
    BY <1>1, <1>2, Finite, FS_AddElement
<1>4. Cardinality(Sessions') <= Cardinality(Sessions \cup {f})
    BY <1>2, FS_Subset
<1>5. Cardinality(opening') = Cardinality(opening) - 1
    BY <1>2, FS_RemoveElement
<1>6. Sessions' \in SUBSET File /\ opening' \in SUBSET File /\ Sessions \cup {f} \in SUBSET File
    BY <1>1
<1> QED
    BY <1>1, <1>3, <1>4, <1>5, <1>6, Finite DEF SessionsCapped

\* A place is reserved for a session that may be opened.
LEMMA CapReserves ==
    ASSUME TypeOK, SessionsCapped, NEW f \in File, ~Open(f), ~Busy(f),
           Sessions' = Sessions, opening' = opening \cup {f}
    PROVE  SessionsCapped'
<1>1. Sessions \in SUBSET File /\ opening \in SUBSET File
    BY DEF TypeOK, Sessions
<1>2. CASE f \in opening
    <2>1. opening' = opening
        BY <1>2
    <2> QED
        BY <2>1 DEF SessionsCapped
<1>3. CASE f \notin opening
    <2>1. Cardinality(opening') = Cardinality(opening) + 1
        BY <1>1, <1>3, Finite, FS_AddElement
    <2>2. ~(Cardinality(Sessions) + Cardinality(opening) >= MaxSessions)
        BY <1>3 DEF Busy
    <2> QED
        BY <1>1, <2>1, <2>2, Finite DEF SessionsCapped
<1> QED
    BY <1>2, <1>3

-------------------------------------------------------------------------------
(* What the pages are told.                                                *)

\* Telling the project keeps the marks true; those who go are told nothing.
LEMMA ToldKeeps ==
    ASSUME TypeOK, Marks, DirtyShown, NEW d \in [File -> SUBSET Socket],
           NEW going \in SUBSET Socket, Told(d, going),
           inProject' = inProject \ going, deleted' = deleted,
           \A s \in Socket \ going : conn'[s] = conn[s]
    PROVE  /\ dirty' = d
           /\ shown' \in [Socket -> SUBSET File] /\ missed' \in [Socket -> SUBSET File]
           /\ Marks' /\ DirtyShown'
<1> DEFINE soiled == {f \in File : dirty[f] = {} /\ d[f] # {}}
           cleaned == {f \in File : dirty[f] # {} /\ d[f] = {}}
<1>1. dirty' = d
    BY DEF Told
<1>2. \A s \in Socket :
        /\ shown'[s] = IF s \in inProject \ going THEN (shown[s] \cup soiled) \ cleaned
                       ELSE shown[s]
        /\ missed'[s] = IF s \in inProject \ going THEN missed[s] \ (soiled \cup cleaned)
                        ELSE missed[s] \cup (shown[s] \cap cleaned)
    BY DEF Told
<1>3. Dirty' = (Dirty \cup soiled) \ cleaned
    BY <1>1 DEF Dirty
<1>4. shown' \in [Socket -> SUBSET File] /\ missed' \in [Socket -> SUBSET File]
    BY DEF Told, TypeOK
<1> HIDE DEF soiled, cleaned
<1>5. Marks'
    BY <1>2, <1>3 DEF Marks
<1>6. DirtyShown'
    <2> SUFFICES ASSUME NEW s \in inProject', conn'[s] = "up"
                 PROVE  /\ Dirty' \ deleted' \subseteq shown'[s]
                        /\ shown'[s] \ deleted' \subseteq Dirty' \cup missed'[s]
        BY DEF DirtyShown
    <2>1. s \in Socket /\ s \in inProject \ going /\ conn[s] = "up"
        BY DEF TypeOK
    <2>2. Dirty \ deleted \subseteq shown[s]
        BY <2>1 DEF DirtyShown
    <2>3. shown'[s] = (shown[s] \cup soiled) \ cleaned
        BY <1>2, <2>1
    <2>4. shown'[s] \ deleted' \subseteq Dirty' \cup missed'[s]
        BY <1>5, <2>1 DEF Marks
    <2> QED
        BY <1>3, <2>2, <2>3, <2>4
<1> QED
    BY <1>1, <1>4, <1>5, <1>6

-------------------------------------------------------------------------------
(* Every step.                                                             *)

LEMMA InitInv == Init => Inv
<1> SUFFICES ASSUME Init PROVE Inv
    OBVIOUS
<1>1. TypeOK
    BY RoomsAssumption DEF RoomsAssumption, Init, TypeOK
<1>2. Fresh /\ Apart /\ Marks /\ Settled /\ DirtyShown /\ NothingHeld
    BY DEF Init, Fresh, Apart, Marks, Settled, DirtyShown, NothingHeld, Documents, Awaits
<1>3. SessionsCapped
    <2>1. Sessions = {} /\ opening = {}
        BY DEF Init, Sessions, Open
    <2> QED
        BY <2>1, FS_EmptySet, RoomsAssumption DEF SessionsCapped, RoomsAssumption
<1> QED
    BY <1>1, <1>2, <1>3 DEF Inv

\* A step that changes neither who is in a room nor what a page shows.
LEMMA QuietStep ==
    ASSUME Inv, TypeOK', UNCHANGED <<conn, rooms, access, pages, late>>,
           Fresh', Settled'
    PROVE  Inv'
<1>1. Apart' /\ Marks' /\ DirtyShown'
    BY DEF Inv, rooms, access, pages, Apart, Marks, DirtyShown, Dirty
<1>2. SessionsCapped'
    <2>1. Sessions' = Sessions /\ opening' = opening
        BY DEF rooms, Sessions, Open
    <2> QED
        BY <2>1 DEF Inv, SessionsCapped
<1>3. NothingHeld'
    BY DEF Inv, rooms, NothingHeld, Documents
<1> QED
    BY <1>1, <1>2, <1>3 DEF Inv

\* Socket s leaves the documents fs: sessions may end, and no more.
LEMMA LeftKeeps ==
    ASSUME Inv, NEW s \in Socket, NEW fs \in SUBSET File, NEW going \in SUBSET Socket,
           Left(s, fs, going), opening' = opening,
           inProject' = inProject \ going, deleted' = deleted,
           \A t \in Socket \ going : conn'[t] = conn[t]
    PROVE  /\ \A f \in File : /\ clients'[f] = IF f \in fs THEN clients[f] \ {s} ELSE clients[f]
                              /\ dirty'[f] = IF f \in fs THEN dirty[f] \ {s} ELSE dirty[f]
           /\ clients' \in [File -> SUBSET Socket] /\ dirty' \in [File -> SUBSET Socket]
           /\ shown' \in [Socket -> SUBSET File] /\ missed' \in [Socket -> SUBSET File]
           /\ Apart' /\ Marks' /\ DirtyShown' /\ SessionsCapped'
<1> DEFINE d == [f \in File |-> IF f \in fs THEN dirty[f] \ {s} ELSE dirty[f]]
<1>1. d \in [File -> SUBSET Socket]
    BY DEF Inv, TypeOK
<1>2. Told(d, going)
    BY DEF Left
<1> HIDE DEF d
<1>3. /\ dirty' = d
      /\ shown' \in [Socket -> SUBSET File] /\ missed' \in [Socket -> SUBSET File]
      /\ Marks' /\ DirtyShown'
    BY <1>1, <1>2, ToldKeeps DEF Inv
<1>4. \A f \in File : /\ clients'[f] = IF f \in fs THEN clients[f] \ {s} ELSE clients[f]
                      /\ dirty'[f] = IF f \in fs THEN dirty[f] \ {s} ELSE dirty[f]
    BY <1>3 DEF Left, d
<1>5. clients' \in [File -> SUBSET Socket]
    BY DEF Left, Inv, TypeOK
<1>6. Apart'
    BY <1>4 DEF Inv, Apart, TypeOK
<1>7. SessionsCapped'
    <2>1. Sessions' \subseteq Sessions
        BY <1>4 DEF Sessions, Open
    <2> QED
        BY <2>1, CapShrinks DEF Inv
<1> QED
    BY <1>1, <1>3, <1>4, <1>5, <1>6, <1>7

LEMMA StepInv == Inv /\ [Next]_vars => Inv'
<1> SUFFICES ASSUME Inv, [Next]_vars PROVE Inv'
    OBVIOUS
<1>1. ASSUME NEW s \in Socket, Connect(s) PROVE Inv'
  <2>1. /\ conn[s] = "new" /\ conn'[s] = "up"
        /\ \A u \in Socket \ {s} :
              conn'[u] = conn[u] \/ (conn[u] = "gone" /\ conn'[u] = "replaced")
        /\ \A u \in Socket \ {s} : shown'[u] = shown[u] /\ missed'[u] = missed[u]
        /\ \E t \in Socket : shown'[s] = shown[t] /\ missed'[s] = missed[t]
        /\ conn' \in [Socket -> {"new", "up", "gone", "replaced"}]
        /\ shown' \in [Socket -> SUBSET File] /\ missed' \in [Socket -> SUBSET File]
    <3>1. CASE conn' = [conn EXCEPT ![s] = "up"] /\ UNCHANGED pages
        <4>1. /\ conn[s] = "new" /\ conn' = [conn EXCEPT ![s] = "up"]
              /\ shown' = shown /\ missed' = missed
            BY <1>1, <3>1 DEF Connect, pages
        <4>2. \E t \in Socket : shown'[s] = shown[t] /\ missed'[s] = missed[t]
            BY <4>1
        <4>3. /\ conn'[s] = "up" /\ \A u \in Socket \ {s} : conn'[u] = conn[u]
              /\ conn' \in [Socket -> {"new", "up", "gone", "replaced"}]
              /\ shown' \in [Socket -> SUBSET File] /\ missed' \in [Socket -> SUBSET File]
            BY <4>1 DEF Inv, TypeOK
        <4> QED
            BY <4>1, <4>2, <4>3
    <3>2. CASE \E t \in Socket : /\ conn[t] = "gone"
                                 /\ conn' = [conn EXCEPT ![s] = "up", ![t] = "replaced"]
                                 /\ shown' = [shown EXCEPT ![s] = shown[t]]
                                 /\ missed' = [missed EXCEPT ![s] = missed[t]]
        <4>1. PICK t \in Socket : /\ conn[t] = "gone"
                                  /\ conn' = [conn EXCEPT ![s] = "up", ![t] = "replaced"]
                                  /\ shown' = [shown EXCEPT ![s] = shown[t]]
                                  /\ missed' = [missed EXCEPT ![s] = missed[t]]
            BY <3>2
        <4>2. conn[s] = "new" /\ t # s
            BY <1>1, <4>1 DEF Connect
        <4>3. /\ conn'[s] = "up" /\ conn[t] = "gone" /\ conn'[t] = "replaced"
              /\ \A u \in Socket \ {s, t} : conn'[u] = conn[u]
              /\ conn' \in [Socket -> {"new", "up", "gone", "replaced"}]
            BY <4>1, <4>2 DEF Inv, TypeOK
        <4>4. /\ \A u \in Socket \ {s} : shown'[u] = shown[u] /\ missed'[u] = missed[u]
              /\ shown'[s] = shown[t] /\ missed'[s] = missed[t]
              /\ shown' \in [Socket -> SUBSET File] /\ missed' \in [Socket -> SUBSET File]
            BY <4>1 DEF Inv, TypeOK
        <4>5. \E u \in Socket : shown'[s] = shown[u] /\ missed'[s] = missed[u]
            BY <4>4
        <4> QED
            BY <4>2, <4>3, <4>4, <4>5
    <3> QED
        BY <1>1, <3>1, <3>2 DEF Connect
  <2>2. UNCHANGED <<rooms, handlers, access, late, requests>>
    BY <1>1 DEF Connect
  <2>3. TypeOK'
    BY <2>1, <2>2 DEF Inv, TypeOK, rooms, handlers, access
  <2>4. Fresh'
    BY <2>1, <2>2 DEF Inv, Fresh, rooms, handlers, Documents
  <2>5. Settled' /\ NothingHeld'
    <3>1. \A u \in Socket : /\ Awaits(u)' <=> Awaits(u)
                            /\ Documents(u)' = Documents(u)
        BY <2>2 DEF rooms, handlers, Awaits, Documents
    <3>2. \A u \in Socket : conn'[u] \in {"gone", "replaced"} => conn[u] \in {"gone", "replaced"}
        BY <2>1
    <3> QED
        BY <2>2, <3>1, <3>2 DEF Inv, rooms, handlers, Settled, NothingHeld
  <2>6. Apart' /\ Marks'
    BY <2>1, <2>2 DEF Inv, rooms, access, Apart, Marks, Dirty
  <2>7. DirtyShown'
    BY <2>1, <2>2 DEF Inv, TypeOK, rooms, access, Fresh, DirtyShown, Dirty
  <2>8. SessionsCapped'
    BY <2>2, CapShrinks DEF Inv, rooms, Sessions, Open
  <2> QED
    BY <2>3, <2>4, <2>5, <2>6, <2>7, <2>8 DEF Inv
<1>2. ASSUME NEW s \in Socket, JoinProject(s) PROVE Inv'
  <2>1. TypeOK'
    BY <1>2, RoomsAssumption
    DEF RoomsAssumption, JoinProject, Request, Inv, TypeOK, rooms, access, pages
  <2>2. Fresh' /\ Settled'
    BY <1>2 DEF JoinProject, Inv, TypeOK, rooms, Fresh, Settled, Documents, Awaits
  <2> QED
    BY <1>2, <2>1, <2>2, QuietStep DEF JoinProject
<1>3. ASSUME NEW s \in Socket, ProjectChecked(s) PROVE Inv'
  <2>1. /\ s \in entering /\ entering' = entering \ {s}
        /\ inProject' \subseteq inProject \cup {s}
        /\ UNCHANGED <<conn, clients, opening, dirty, joining, updating, saving, access, late, requests>>
    BY <1>3 DEF ProjectChecked
  <2>2. /\ shown' \in [Socket -> SUBSET File] /\ missed' \in [Socket -> SUBSET File]
        /\ \A u \in Socket \ {s} : shown'[u] = shown[u] /\ missed'[u] = missed[u]
        /\ \/ shown'[s] = shown[s] /\ missed'[s] = missed[s] /\ ~(conn[s] = "up" /\ s \notin barred)
           \/ shown'[s] = shown[s] \cup Dirty /\ missed'[s] = missed[s] \ Dirty
        /\ s \in barred => inProject' = inProject
    <3>1. Dirty \in SUBSET File
        BY DEF Dirty
    <3>2. CASE s \in barred \/ conn[s] # "up"
        BY <1>3, <3>2 DEF ProjectChecked, Inv, TypeOK, pages
    <3>3. CASE s \notin barred /\ conn[s] = "up"
        <4>1. /\ shown' = [shown EXCEPT ![s] = @ \cup Dirty]
              /\ missed' = [missed EXCEPT ![s] = @ \ Dirty]
            BY <1>3, <3>3 DEF ProjectChecked
        <4> QED
            BY <3>1, <3>3, <4>1 DEF Inv, TypeOK
    <3> QED
        BY <3>2, <3>3
  <2>3. TypeOK'
    BY <2>1, <2>2 DEF Inv, TypeOK, access
  <2>4. Fresh' /\ Settled' /\ NothingHeld'
    BY <2>1 DEF Inv, TypeOK, access, Fresh, Settled, NothingHeld, Documents, Awaits
  <2>5. Apart' /\ Marks'
    BY <2>1, <2>2 DEF Inv, TypeOK, access, Apart, Marks, Dirty
  <2>6. DirtyShown'
    BY <2>1, <2>2, <2>5 DEF Inv, TypeOK, access, Marks, DirtyShown, Dirty
  <2>7. SessionsCapped'
    BY <2>1, CapShrinks DEF Inv, Sessions, Open
  <2> QED
    BY <2>3, <2>4, <2>5, <2>6, <2>7 DEF Inv
<1>4. ASSUME NEW s \in Socket, LeaveProject(s) PROVE Inv'
  <2>1. TypeOK' /\ Fresh' /\ Settled' /\ NothingHeld'
    BY <1>4 DEF LeaveProject, Inv, TypeOK, handlers, access, pages, Fresh, Settled,
        NothingHeld, Documents, Awaits
  <2>2. Apart' /\ Marks' /\ DirtyShown'
    BY <1>4 DEF LeaveProject, Inv, access, pages, Apart, Marks, DirtyShown, Dirty
  <2>3. SessionsCapped'
    BY <1>4, CapShrinks DEF LeaveProject, Inv, Sessions, Open
  <2> QED
    BY <2>1, <2>2, <2>3 DEF Inv
<1>5. ASSUME NEW s \in Socket, Disconnect(s) PROVE Inv'
  <2>1. /\ \A f \in File : clients'[f] = clients[f] \ {s} /\ dirty'[f] = dirty[f] \ {s}
        /\ clients' \in [File -> SUBSET Socket] /\ dirty' \in [File -> SUBSET Socket]
        /\ shown' \in [Socket -> SUBSET File] /\ missed' \in [Socket -> SUBSET File]
        /\ Apart' /\ Marks' /\ DirtyShown' /\ SessionsCapped'
    <3>1. Left(s, File, {s}) /\ inProject' = inProject \ {s} /\ UNCHANGED <<opening, access>>
        BY <1>5 DEF Disconnect
    <3>2. \A t \in Socket \ {s} : conn'[t] = conn[t]
        BY <1>5 DEF Disconnect, Inv, TypeOK
    <3> QED
        BY <3>1, <3>2, LeftKeeps DEF access
  <2>2. TypeOK'
    BY <1>5, <2>1 DEF Disconnect, Inv, TypeOK, handlers, access
  <2>3. Fresh' /\ Settled' /\ NothingHeld'
    BY <1>5, <2>1 DEF Disconnect, Inv, TypeOK, handlers, Fresh, Settled, NothingHeld, Documents, Awaits
  <2> QED
    BY <2>1, <2>2, <2>3 DEF Inv
<1>6. ASSUME NEW s \in Socket, Bar(s) PROVE Inv'
  <2>1. TypeOK' /\ Fresh' /\ Settled' /\ NothingHeld'
    BY <1>6, RoomsAssumption
    DEF RoomsAssumption, Bar, Request, Inv, TypeOK, rooms, handlers, pages, Fresh, Settled,
        NothingHeld, Documents, Awaits
  <2>2. Apart' /\ Marks' /\ DirtyShown'
    BY <1>6 DEF Bar, Inv, rooms, pages, Apart, Marks, DirtyShown, Dirty
  <2>3. SessionsCapped'
    BY <1>6, CapShrinks DEF Bar, Inv, rooms, Sessions, Open
  <2> QED
    BY <2>1, <2>2, <2>3 DEF Inv
<1>7. ASSUME NEW s \in Socket, NEW f \in File, JoinDoc(s, f) PROVE Inv'
  <2>1. TypeOK'
    BY <1>7, RoomsAssumption
    DEF RoomsAssumption, JoinDoc, Request, Inv, TypeOK, rooms, access, pages
  <2>2. Fresh' /\ Settled'
    BY <1>7 DEF JoinDoc, Inv, TypeOK, rooms, Fresh, Settled, Documents, Awaits
  <2> QED
    BY <1>7, <2>1, <2>2, QuietStep DEF JoinDoc
<1>8. ASSUME NEW s \in Socket, NEW f \in File, LeaveDoc(s, f) PROVE Inv'
  <2>1. /\ \A g \in File : /\ clients'[g] = IF g \in {f} THEN clients[g] \ {s} ELSE clients[g]
                           /\ dirty'[g] = IF g \in {f} THEN dirty[g] \ {s} ELSE dirty[g]
        /\ clients' \in [File -> SUBSET Socket] /\ dirty' \in [File -> SUBSET Socket]
        /\ shown' \in [Socket -> SUBSET File] /\ missed' \in [Socket -> SUBSET File]
        /\ Apart' /\ Marks' /\ DirtyShown' /\ SessionsCapped'
    <3>1. PICK fs \in SUBSET File, going \in SUBSET Socket :
              /\ fs = {f} /\ Left(s, fs, going) /\ inProject' = inProject \ going
        BY <1>8, {f} \in SUBSET File, {} \in SUBSET Socket DEF LeaveDoc
    <3>2. opening' = opening /\ deleted' = deleted /\ conn' = conn
        BY <1>8 DEF LeaveDoc, access
    <3>3. \A t \in Socket \ going : conn'[t] = conn[t]
        BY <3>2
    <3> QED
        BY <3>1, <3>2, <3>3, LeftKeeps
  <2>2. TypeOK'
    BY <1>8, <2>1 DEF LeaveDoc, Inv, TypeOK, handlers, access
  <2>3. Fresh' /\ Settled' /\ NothingHeld'
    <3>1. \A t \in Socket \ {s} : t \in late' <=> t \in late
        BY <1>8 DEF LeaveDoc
    <3>2. s \notin late' => s \notin late /\ f \notin updating[s]
        BY <1>8 DEF LeaveDoc
    <3>3. conn[s] = "up" /\ UNCHANGED <<conn, inProject, handlers>>
        BY <1>8 DEF LeaveDoc
    <3>4. Fresh'
        BY <2>1, <3>3 DEF Inv, Fresh, handlers, Documents
    <3>7. \A t \in Socket : /\ Awaits(t)' <=> Awaits(t)
                            /\ Documents(t)' \subseteq Documents(t)
        BY <2>1, <3>3 DEF handlers, Awaits, Documents
    <3>8. \A t \in Socket : t \notin late' => t \notin late /\ (t = s => f \notin updating[t])
        BY <3>1, <3>2
    <3>5. Settled'
        <4> SUFFICES ASSUME NEW t \in Socket, t \notin late'
                     PROVE  /\ conn'[t] \in {"gone", "replaced"} => ~Awaits(t)'
                            /\ \A g \in updating'[t] : t \in clients'[g]
            BY DEF Settled
        <4> QED
            BY <2>1, <3>3, <3>7, <3>8 DEF Inv, TypeOK, Settled, handlers
    <3>6. NothingHeld'
        <4> SUFFICES ASSUME NEW t \in Socket, t \notin late'
                     PROVE  /\ conn'[t] \in {"gone", "replaced"} =>
                                  t \notin inProject' /\ Documents(t)' = {}
                            /\ \A g \in File : t \in dirty'[g] => t \in clients'[g]
            BY DEF NothingHeld
        <4> QED
            BY <2>1, <3>3, <3>7, <3>8 DEF Inv, NothingHeld
    <3> QED
        BY <3>4, <3>5, <3>6
  <2> QED
    BY <2>1, <2>2, <2>3 DEF Inv
<1>9. ASSUME NEW s \in Socket, NEW f \in File, Update(s, f) PROVE Inv'
  <2>1. TypeOK'
    BY <1>9, RoomsAssumption
    DEF RoomsAssumption, Update, Request, Inv, TypeOK, rooms, access, pages
  <2>2. Fresh' /\ Settled'
    BY <1>9 DEF Update, Inv, TypeOK, rooms, Fresh, Settled, Documents, Awaits
  <2> QED
    BY <1>9, <2>1, <2>2, QuietStep DEF Update
<1>10. ASSUME NEW s \in Socket, NEW f \in File, Saved(s, f) PROVE Inv'
  <2>1. TypeOK'
    BY <1>10, RoomsAssumption
    DEF RoomsAssumption, Saved, Request, Inv, TypeOK, rooms, access, pages
  <2>2. Fresh' /\ Settled'
    BY <1>10 DEF Saved, Inv, rooms, Fresh, Settled, Documents, Awaits
  <2> QED
    BY <1>10, <2>1, <2>2, QuietStep DEF Saved
<1>11. ASSUME NEW s \in Socket, NEW f \in File, JoinChecked(s, f) PROVE Inv'
  <2>1. TypeOK'
    BY <1>11 DEF JoinChecked, Inv, TypeOK, access, pages
  <2>2. Fresh' /\ Settled' /\ NothingHeld'
    BY <1>11 DEF JoinChecked, Inv, TypeOK, Fresh, Settled, NothingHeld, Documents, Awaits
  <2>3. Apart' /\ Marks' /\ DirtyShown'
    BY <1>11 DEF JoinChecked, Inv, TypeOK, access, pages, Apart, Marks, DirtyShown, Dirty, Open
  <2>4. SessionsCapped'
    <3>1. Sessions' = Sessions
        BY <1>11 DEF JoinChecked, Inv, TypeOK, Sessions, Open
    <3>2. CASE Refused(s, f) \/ Open(f)
        <4>1. opening' = opening
            BY <1>11, <3>2 DEF JoinChecked
        <4> QED
            BY <3>1, <4>1 DEF Inv, SessionsCapped
    <3>3. CASE ~Refused(s, f) /\ ~Open(f)
        <4>1. opening' = opening \cup {f} /\ ~Busy(f)
            BY <1>11, <3>3 DEF JoinChecked, Refused
        <4> QED
            BY <3>1, <3>3, <4>1, CapReserves DEF Inv
    <3> QED
        BY <3>2, <3>3
  <2> QED
    BY <2>1, <2>2, <2>3, <2>4 DEF Inv
<1>12. ASSUME NEW s \in Socket, NEW f \in File, UpdateChecked(s, f) PROVE Inv'
  <2> DEFINE d == [dirty EXCEPT ![f] = @ \cup {s}]
  <2>1. inProject' = inProject \ {} /\ UNCHANGED <<conn, opening, access, late, entering, joining, saving, requests>>
    BY <1>12 DEF UpdateChecked
  <2>2. CASE CanJoinFile(s, f)
    <3>1. d \in [File -> SUBSET Socket]
        BY DEF Inv, TypeOK
    <3>2. Told(d, {}) /\ clients' = clients
        BY <1>12, <2>2 DEF UpdateChecked
    <3>3. /\ dirty' = d
          /\ shown' \in [Socket -> SUBSET File] /\ missed' \in [Socket -> SUBSET File]
          /\ Marks' /\ DirtyShown'
        <4> HIDE DEF d
        <4> QED
            BY <2>1, <3>1, <3>2, ToldKeeps DEF Inv, access
    <3>6. f \in updating[s] /\ updating' = [updating EXCEPT ![s] = @ \ {f}]
        BY <1>12 DEF UpdateChecked
    <3>7. TypeOK' /\ Apart'
        BY <2>1, <3>1, <3>2, <3>3, <3>6 DEF Inv, TypeOK, access, Apart
    <3>4. Fresh' /\ Settled' /\ NothingHeld'
        BY <2>1, <3>2, <3>3, <3>6
        DEF Inv, TypeOK, Fresh, Settled, NothingHeld, Documents, Awaits
    <3>5. SessionsCapped'
        BY <2>1, <3>2, CapShrinks DEF Inv, Sessions, Open
    <3> QED
        BY <3>3, <3>4, <3>5, <3>7 DEF Inv
  <2>3. CASE ~CanJoinFile(s, f)
    <3>1. /\ \A g \in File : /\ clients'[g] = IF g \in {f} THEN clients[g] \ {s} ELSE clients[g]
                             /\ dirty'[g] = IF g \in {f} THEN dirty[g] \ {s} ELSE dirty[g]
          /\ clients' \in [File -> SUBSET Socket] /\ dirty' \in [File -> SUBSET Socket]
          /\ shown' \in [Socket -> SUBSET File] /\ missed' \in [Socket -> SUBSET File]
          /\ Apart' /\ Marks' /\ DirtyShown' /\ SessionsCapped'
      <4>1. PICK fs \in SUBSET File, going \in SUBSET Socket :
                /\ fs = {f} /\ Left(s, fs, going) /\ inProject' = inProject \ going
        BY <1>12, <2>1, <2>3, {f} \in SUBSET File, {} \in SUBSET Socket DEF UpdateChecked
      <4>2. opening' = opening /\ deleted' = deleted /\ conn' = conn
        BY <2>1 DEF access
      <4>3. \A t \in Socket \ going : conn'[t] = conn[t]
        BY <4>2
      <4> HIDE DEF d
      <4> QED
        BY <4>1, <4>2, <4>3, LeftKeeps
    <3>2. TypeOK'
        BY <1>12, <2>1, <3>1 DEF UpdateChecked, Inv, TypeOK, access
    <3>3. f \in updating[s] /\ updating' = [updating EXCEPT ![s] = @ \ {f}]
        BY <1>12 DEF UpdateChecked
    <3>7. \A t \in Socket : /\ Documents(t)' \subseteq Documents(t)
                            /\ updating'[t] \subseteq updating[t]
        BY <3>1, <3>3 DEF Inv, TypeOK, Documents
    <3>4. Fresh'
        BY <2>1, <3>7 DEF Inv, Fresh
    <3>5. Settled'
        BY <2>1, <3>1, <3>3 DEF Inv, TypeOK, Settled, Awaits
    <3>6. NothingHeld'
        BY <2>1, <3>1, <3>7 DEF Inv, NothingHeld
    <3> QED
        BY <3>1, <3>2, <3>4, <3>5, <3>6 DEF Inv
  <2> QED
    BY <2>2, <2>3
<1>13. ASSUME NEW s \in Socket, NEW f \in File, SavedChecked(s, f) \/ AppendFails(s, f) PROVE Inv'
  <2>1. TypeOK'
    <3>1. \E pc \in {"none", "append"} : saving' = [saving EXCEPT ![s][f] = pc]
        BY <1>13 DEF SavedChecked, AppendFails
    <3>2. saving' \in [Socket -> [File -> {"none", "check", "append"}]]
        BY <3>1 DEF Inv, TypeOK
    <3> QED
        BY <1>13, <3>2 DEF SavedChecked, AppendFails, Inv, TypeOK, rooms, access, pages
  <2>2. Fresh' /\ Settled'
    BY <1>13 DEF SavedChecked, AppendFails, Inv, rooms, Fresh, Settled, Documents, Awaits
  <2> QED
    BY <1>13, <2>1, <2>2, QuietStep DEF SavedChecked, AppendFails
<1>14. ASSUME NEW s \in Socket, NEW f \in File, Appended(s, f) PROVE Inv'
  <2> DEFINE d == [dirty EXCEPT ![f] = {}]
  <2>1. d \in [File -> SUBSET Socket]
    BY DEF Inv, TypeOK
  <2>2. /\ Told(d, {}) /\ inProject' = inProject \ {}
        /\ UNCHANGED <<conn, clients, opening, access, late, entering, joining, updating, requests>>
    BY <1>14 DEF Appended
  <2>3. /\ dirty' = d
        /\ shown' \in [Socket -> SUBSET File] /\ missed' \in [Socket -> SUBSET File]
        /\ Marks' /\ DirtyShown'
    <3> HIDE DEF d
    <3> QED
        BY <2>1, <2>2, ToldKeeps DEF Inv, access
  <2>4. TypeOK' /\ Fresh' /\ Settled' /\ NothingHeld' /\ Apart'
    <3>1. saving' \in [Socket -> [File -> {"none", "check", "append"}]]
        BY <1>14 DEF Appended, Inv, TypeOK
    <3>2. TypeOK' /\ Apart'
        BY <2>1, <2>2, <2>3, <3>1 DEF Inv, TypeOK, access, Apart
    <3>3. Fresh' /\ Settled'
        BY <2>2 DEF Inv, Fresh, Settled, Documents, Awaits
    <3>4. NothingHeld'
        BY <2>2, <2>3 DEF Inv, TypeOK, NothingHeld, Documents
    <3> QED
        BY <3>2, <3>3, <3>4
  <2>5. SessionsCapped'
    BY <2>2, CapShrinks DEF Inv, Sessions, Open
  <2> QED
    BY <2>3, <2>4, <2>5 DEF Inv
<1>15. ASSUME NEW f \in File, Loaded(f) PROVE Inv'
  <2>1. TypeOK'
    BY <1>15 DEF Loaded, Answered, Waiting, Inv, TypeOK, access, pages
  <2>2. Fresh' /\ Settled' /\ NothingHeld'
    BY <1>15 DEF Loaded, Answered, Waiting, Inv, TypeOK, Fresh, Settled, NothingHeld, Apart,
        Documents, Awaits
  <2>3. Apart' /\ Marks' /\ DirtyShown'
    BY <1>15 DEF Loaded, Inv, TypeOK, access, pages, Apart, Marks, DirtyShown, Dirty
  <2>4. SessionsCapped'
    <3>1. Sessions' \subseteq Sessions \cup {f}
        BY <1>15 DEF Loaded, Inv, TypeOK, Sessions, Open
    <3> QED
        BY <1>15, <3>1, CapMoves DEF Loaded, Inv
  <2> QED
    BY <2>1, <2>2, <2>3, <2>4 DEF Inv
<1>16. ASSUME NEW f \in File, LoadFails(f) PROVE Inv'
  <2>1. TypeOK'
    BY <1>16 DEF LoadFails, Answered, Waiting, Inv, TypeOK, access, pages
  <2>2. Fresh' /\ Settled' /\ NothingHeld'
    BY <1>16 DEF LoadFails, Answered, Waiting, Inv, TypeOK, Fresh, Settled, NothingHeld,
        Documents, Awaits
  <2>3. Apart' /\ Marks' /\ DirtyShown'
    BY <1>16 DEF LoadFails, Inv, TypeOK, access, pages, Apart, Marks, DirtyShown, Dirty
  <2>4. SessionsCapped'
    BY <1>16, CapShrinks DEF LoadFails, Inv, Sessions, Open
  <2> QED
    BY <2>1, <2>2, <2>3, <2>4 DEF Inv
<1>17. ASSUME NEW f \in File, Delete(f) PROVE Inv'
  <2>1. TypeOK'
    BY <1>17, RoomsAssumption
    DEF RoomsAssumption, Delete, Request, Inv, TypeOK, rooms, handlers
  <2>2. Fresh' /\ Settled' /\ NothingHeld'
    BY <1>17 DEF Delete, Inv, rooms, handlers, Fresh, Settled, NothingHeld, Documents, Awaits
  <2>3. Apart' /\ Marks' /\ DirtyShown'
    BY <1>17 DEF Delete, Inv, TypeOK, rooms, Apart, Marks, DirtyShown, Dirty
  <2>4. SessionsCapped'
    BY <1>17, CapShrinks DEF Delete, Inv, rooms, Sessions, Open
  <2> QED
    BY <2>1, <2>2, <2>3, <2>4 DEF Inv
<1>18. CASE UNCHANGED vars
  <2>1. TypeOK' /\ Fresh' /\ Settled'
    BY <1>18 DEF vars, rooms, handlers, access, pages, Inv, TypeOK, Fresh, Settled, Documents, Awaits
  <2> QED
    BY <1>18, <2>1, QuietStep DEF vars
<1> QED
    BY <1>1, <1>2, <1>3, <1>4, <1>5, <1>6, <1>7, <1>8, <1>9, <1>10, <1>11, <1>12, <1>13,
       <1>14, <1>15, <1>16, <1>17, <1>18
    DEF Next, Checked, LoadEnds

-------------------------------------------------------------------------------
\* Every behaviour of the rooms keeps the invariant.
THEOREM RoomsInvariant == Spec => []Inv
<1>1. Init => Inv
    BY InitInv
<1>2. Inv /\ [Next]_vars => Inv'
    BY StepInv
<1> QED
    BY <1>1, <1>2, PTL DEF Spec

\* The rooms' state has its types.
THEOREM RoomsTypes == Spec => []TypeOK
<1>1. Inv => TypeOK
    BY DEF Inv
<1> QED
    BY <1>1, RoomsInvariant, PTL

\* Sessions and those being opened stay within the cap, for any cap and any number
\* of sockets and files: canCreateDocSession is asked again after the awaits, and
\* the load that follows is counted before the next await.
THEOREM RoomsCapped == Spec => []SessionsCapped
<1>1. Inv => SessionsCapped
    BY DEF Inv
<1> QED
    BY <1>1, RoomsInvariant, PTL

\* The marks of a page in the project are those of the files with unsaved edits.
THEOREM RoomsMarked == Spec => []DirtyShown
<1>1. Inv => DirtyShown
    BY DEF Inv
<1> QED
    BY <1>1, RoomsInvariant, PTL

\* Nothing is left of a socket that went while no handler of it was awaiting.
THEOREM RoomsLeft == Spec => []NothingHeld
<1>1. Inv => NothingHeld
    BY DEF Inv
<1> QED
    BY <1>1, RoomsInvariant, PTL

-------------------------------------------------------------------------------
(* Who waits for a session, and the loads.                                 *)

\* A step that neither starts nor ends a wait for a session, nor a load.
LEMMA WaitsKept ==
    ASSUME LoadsAwaited, opening' = opening,
           \A s \in Socket, f \in File :
              joining'[s][f] = "session" <=> joining[s][f] = "session"
    PROVE  LoadsAwaited'
BY DEF LoadsAwaited, Waiting

\* The check of a join lets a socket wait only along with a load.
LEMMA WaitStarts ==
    ASSUME TypeOK, LoadsAwaited, NEW s \in Socket, NEW f \in File, JoinChecked(s, f)
    PROVE  LoadsAwaited'
<1>1. \A t \in Socket, g \in File :
        joining'[t][g] = IF t = s /\ g = f
                         THEN IF Refused(s, f) \/ Open(f) THEN "none" ELSE "session"
                         ELSE joining[t][g]
    BY DEF JoinChecked, TypeOK
<1>2. CASE Refused(s, f) \/ Open(f)
    <2>1. opening' = opening /\ joining[s][f] = "checks"
        BY <1>2 DEF JoinChecked
    <2> QED
        BY <1>1, <1>2, <2>1, WaitsKept
<1>3. CASE ~(Refused(s, f) \/ Open(f))
    <2>1. opening' = opening \cup {f} /\ s \in Waiting(f)'
        BY <1>1, <1>3 DEF JoinChecked, Waiting
    <2>2. \A g \in File \ {f} : Waiting(g)' = Waiting(g)
        BY <1>1 DEF Waiting
    <2> QED
        BY <2>1, <2>2 DEF LoadsAwaited
<1> QED
    BY <1>2, <1>3

\* A load that ends answers all who wait for it.
LEMMA WaitEnds ==
    ASSUME TypeOK, LoadsAwaited, NEW f \in File, Answered(f), opening' = opening \ {f}
    PROVE  LoadsAwaited'
<1>1. \A t \in Socket, g \in File :
        joining'[t][g] = IF g = f /\ joining[t][f] = "session" THEN "none" ELSE joining[t][g]
    BY DEF Answered, Waiting, TypeOK
<1>2. Waiting(f)' = {} /\ \A g \in File \ {f} : Waiting(g)' = Waiting(g)
    BY <1>1 DEF Waiting
<1> QED
    BY <1>2 DEF LoadsAwaited

\* Every step leaves a load for those who wait, and nobody's load alone.
LEMMA WaitStep ==
    ASSUME TypeOK, LoadsAwaited, [Next]_vars
    PROVE  LoadsAwaited'
<1>1. ASSUME NEW s \in Socket, NEW f \in File, JoinDoc(s, f) PROVE LoadsAwaited'
    <2>1. \A t \in Socket, g \in File :
            joining'[t][g] = IF t = s /\ g = f THEN "checks" ELSE joining[t][g]
        BY <1>1 DEF JoinDoc, TypeOK
    <2>2. joining[s][f] = "none" /\ opening' = opening
        BY <1>1 DEF JoinDoc, rooms
    <2> QED
        BY <2>1, <2>2, WaitsKept
<1>2. ASSUME NEW f \in File, LoadEnds(f) PROVE LoadsAwaited'
    BY <1>2, WaitEnds DEF LoadEnds, Loaded, LoadFails
<1>3. ASSUME opening' = opening, joining' = joining PROVE LoadsAwaited'
    BY <1>3, WaitsKept
<1>4. ASSUME NEW s \in Socket,
             \/ Connect(s) \/ JoinProject(s) \/ LeaveProject(s) \/ Disconnect(s) \/ Bar(s)
             \/ ProjectChecked(s)
      PROVE  LoadsAwaited'
    BY <1>3, <1>4 DEF Connect, JoinProject, LeaveProject, Disconnect, Bar, ProjectChecked,
        rooms, handlers
<1>5. ASSUME NEW s \in Socket, NEW f \in File,
             \/ LeaveDoc(s, f) \/ Update(s, f) \/ Saved(s, f) \/ UpdateChecked(s, f)
             \/ SavedChecked(s, f) \/ Appended(s, f) \/ AppendFails(s, f)
      PROVE  LoadsAwaited'
    BY <1>3, <1>5 DEF LeaveDoc, Update, Saved, UpdateChecked, SavedChecked, Appended,
        AppendFails, rooms, handlers
<1>6. ASSUME NEW f \in File, Delete(f) PROVE LoadsAwaited'
    BY <1>3, <1>6 DEF Delete, rooms, handlers
<1>7. CASE UNCHANGED vars
    BY <1>3, <1>7 DEF vars, rooms, handlers
<1> QED
    BY <1>1, <1>2, <1>4, <1>5, <1>6, <1>7, WaitStarts DEF Next, Checked

\* Who waits for a session waits for a load that is under way, and each load has
\* somebody waiting, for any number of sockets, files and joins at once
\* (getOrCreateDocSession and pendingSessionInitializations).
THEOREM RoomsAwaited == Spec => []LoadsAwaited
<1>1. Init => LoadsAwaited
    BY DEF Init, LoadsAwaited, Waiting
<1>2. TypeOK /\ LoadsAwaited /\ [Next]_vars => LoadsAwaited'
    BY WaitStep
<1> QED
    BY <1>1, <1>2, RoomsTypes, PTL DEF Spec

===============================================================================
