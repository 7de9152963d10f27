--------------------------- MODULE CollabClientProofs ---------------------------
(***************************************************************************)
(* What holds of the browser's side of the collaboration protocol for any  *)
(* files and any number of selections, watches, sockets and edits.  The    *)
(* argument is about the messages of one connection and one document: what *)
(* the client still sends, what the server handles and what it has already *)
(* answered are related to the attempts of joinDocument that wait for it.  *)
(***************************************************************************)
EXTENDS CollabClient, FiniteSetTheorems, TLAPS

(* Queues of messages, of which M and N are sets: q has one of M, one at   *)
(* most, all of M before all of N, and one of M that no N follows.         *)

Has(q, M) == \E i \in DOMAIN q : q[i] \in M
Once(q, M) == \A i, j \in DOMAIN q : q[i] \in M /\ q[j] \in M => i = j
Before(q, M, N) == \A i, j \in DOMAIN q : q[i] \in M /\ q[j] \in N => i < j
Ends(q, M, N) ==
    \E i \in DOMAIN q : q[i] \in M /\ \A j \in DOMAIN q : j > i => q[j] \notin N

Try == [file : File \cup {NoFile}, sock : 0 .. MaxSocket, stage : Stage,
        cancelled : BOOLEAN]
Viewer == [sock : 0 .. MaxSocket, cancelled : BOOLEAN,
           stage : {"none", "connecting", "active", "done"}]
\* Updates are sent for documents only, never for the project's room.
ToServer == {m \in [kind : {"join", "leave", "update"}, room : Room] :
                m.kind = "update" => m.room \in File}
ToClient == [kind : {"sync", "refused", "outside"}, room : Room]
Queues == [Socket -> Seq(ToServer)]

JoinOf(r) == {Message("join", r)}
LeaveOf(r) == {Message("leave", r)}
UpdateOf(r) == {Message("update", r)}
SyncOf(r) == {Message("sync", r)}
AnswerOf(r) == {Message("sync", r), Message("refused", r)}

\* TypeOK, in the parts that different actions write.
PageTypes ==
    /\ attempt \in [Attempt -> Try] /\ watch \in [Watch -> Viewer]
    /\ selects \in 0 .. MaxSelect /\ watches \in 0 .. MaxWatch
    /\ mounted \in BOOLEAN /\ refused \subseteq File
    /\ edits \in Nat /\ drops \in Nat
    /\ upset \subseteq Upsets /\ strays \subseteq File
    /\ unjoined \subseteq 0 .. MaxWatch
NetTypes ==
    /\ sock \in 0 .. sockets /\ connecting \in 0 .. sockets
    /\ sockets \in 0 .. MaxSocket
    /\ count \in Nat /\ (sock = 0 => count = 0)
    /\ status \in {"idle", "connecting", "synced", "disconnected", "error"}
    /\ link \in [Socket -> {"none", "opening", "up", "down", "closed"}]
    /\ outbox \in Queues /\ inbox \in [Socket -> Seq(ToClient)]
    /\ handling \in [Socket -> [Room -> Nat]]
    /\ rooms \in [Socket -> SUBSET Room]
Types == PageTypes /\ NetTypes

\* The server knows nothing of a connection that is not up, and the buffer of
\* its socket holds no join of a document.
Idle(s) ==
    /\ rooms[s] = {} /\ inbox[s] = <<>>
    /\ \A r \in Room : handling[s][r] = 0
    /\ \A f \in File : ~Has(outbox[s], JoinOf(f))

\* One socket is the client's, or one is being connected, never both.
Links ==
    /\ \A s \in Socket : link[s] # "up" => Idle(s)
    /\ \A s \in Socket : link[s] \in {"up", "down"} => s = sock
    /\ \A s \in Socket : s > sockets => link[s] = "none"
    /\ sock # 0 => link[sock] \in {"up", "down"}
    /\ connecting # 0 => sock = 0 /\ link[connecting] = "opening"
    /\ "drop" \notin upset => \A s \in Socket : link[s] # "down"

\* Every attempt but the last is cancelled, and a cancelled one is not open.
Attempts ==
    \A a \in Attempt :
        /\ a > selects => attempt[a].stage = "none"
        /\ a < selects => attempt[a].cancelled
        /\ attempt[a].stage = "open" => ~attempt[a].cancelled
        /\ attempt[a].stage # "none" => attempt[a].file \in File
        /\ attempt[a].stage \in {"joining", "open"} => attempt[a].sock # 0

\* Unless it is one of strays, no two attempts that wait or are open are for the
\* same file.
Live(a) == attempt[a].stage \in {"connecting", "joining", "open"}
Distinct ==
    \A a, b \in Attempt :
        /\ Live(a) /\ Live(b) /\ attempt[a].file = attempt[b].file
        /\ attempt[a].file \notin strays
        => a = b

InStage(att, stage, s, f) ==
    \E a \in Attempt : att[a].stage = stage /\ att[a].sock = s /\ att[a].file = f

\* One document f on one connection: o is the outbox, i the inbox, h the joins
\* that are handled, r the rooms.  A join is in one place at most: sent, handled
\* or answered; and no leave is sent after a join, or while it is handled.
Coherent(o, i, h, f) ==
    /\ Once(o, JoinOf(f)) /\ Before(o, LeaveOf(f), JoinOf(f))
    /\ Once(i, AnswerOf(f)) /\ h \in {0, 1}
    /\ Has(o, JoinOf(f)) => h = 0 /\ ~Has(i, AnswerOf(f))
    /\ h = 1 => ~Has(i, AnswerOf(f)) /\ ~Has(o, LeaveOf(f))
    /\ Has(i, AnswerOf(f)) => ~Has(o, LeaveOf(f))
Outstanding(o, i, h, f) == Has(o, JoinOf(f)) \/ h = 1 \/ Has(i, AnswerOf(f))

\* Whoever is in the room of f will hear so, has it open, or is leaving.
Accounted(att, o, i, r, s, f) ==
    f \in r => \/ Has(i, SyncOf(f)) \/ InStage(att, "open", s, f)
               \/ Has(o, LeaveOf(f))

\* A join on its way has an attempt that waits for it, while every answer about
\* f was the answer to the attempt that took it.
Asked(att, o, i, h, r, s, f) ==
    /\ Coherent(o, i, h, f)
    /\ Outstanding(o, i, h, f) => InStage(att, "joining", s, f)
    /\ Accounted(att, o, i, r, s, f)
Asks ==
    \A s \in Socket, f \in File : f \notin strays =>
        Asked(attempt, outbox[s], inbox[s], handling[s][f], rooms[s], s, f)

\* While no connection was lost, an update is sent from the room, and before its
\* leave; a document is open only while the server has it joined.
Edited(att, l, o, i, r, s, f) ==
    /\ Before(o, UpdateOf(f), LeaveOf(f))
    /\ Has(o, UpdateOf(f)) => f \in r
    /\ Has(i, SyncOf(f)) => f \in r
    /\ InStage(att, "open", s, f) => l = "up" /\ f \in r /\ ~Has(o, LeaveOf(f))
Edits ==
    "drop" \notin upset =>
        /\ refused \subseteq strays
        /\ \A s \in Socket, f \in File : f \notin strays =>
              Edited(attempt, link[s], outbox[s], inbox[s], rooms[s], s, f)

Watches ==
    \A w \in Watch :
        /\ w < watches => watch[w].cancelled
        /\ w > watches => watch[w].stage = "none"
        /\ watch[w].stage = "active" => ~watch[w].cancelled

\* The last word about the project is a join: it is the last of both kinds that
\* is sent, or no leave is and the join is handled or done.
Kept(o, h, r) ==
    \/ Ends(o, JoinOf(Project), LeaveOf(Project))
    \/ ~Has(o, LeaveOf(Project)) /\ (Project \in r \/ h > 0)

\* The references count the hook's one watcher at most.  A watcher of which no
\* room was lost and no join refused has the last word on the connection.
Watched ==
    /\ count \in {0, 1} /\ (count = 1 => Watching)
    /\ Watching /\ sock # 0 /\ link[sock] = "down" => watches \in unjoined
    /\ Watching /\ watches \notin unjoined =>
          sock # 0 /\ Kept(outbox[sock], handling[sock][Project], rooms[sock])

CInv == /\ Types /\ Links /\ Attempts /\ Distinct /\ Asks /\ Edits
        /\ Watches /\ Watched

-------------------------------------------------------------------------------
(* Queues                                                                  *)

\* An empty queue has nothing, and nothing in it is out of order.
LEMMA Nothing ==
    ASSUME NEW M, NEW N
    PROVE  /\ ~Has(<<>>, M) /\ Once(<<>>, M) /\ Before(<<>>, M, N)
BY DEF Has, Once, Before

\* What a queue has after one message was appended.
LEMMA AppendHas ==
    ASSUME NEW T, NEW q \in Seq(T), NEW x \in T, NEW M
    PROVE  Has(Append(q, x), M) <=> Has(q, M) \/ x \in M
<1>1. /\ DOMAIN q = 1 .. Len(q) /\ DOMAIN Append(q, x) = 1 .. Len(q) + 1 /\ Len(q) \in Nat
      /\ Append(q, x)[Len(q) + 1] = x /\ \A i \in 1 .. Len(q) : Append(q, x)[i] = q[i]
  OBVIOUS
<1>2. ASSUME Has(q, M)
      PROVE  Has(Append(q, x), M)
  <2>1. PICK i \in DOMAIN q : q[i] \in M
    BY <1>2 DEF Has
  <2> QED
    BY <1>1, <2>1 DEF Has
<1>3. ASSUME x \in M
      PROVE  Has(Append(q, x), M)
  BY <1>1, <1>3 DEF Has
<1>4. ASSUME Has(Append(q, x), M)
      PROVE  Has(q, M) \/ x \in M
  BY <1>1, <1>4 DEF Has
<1> QED
  BY <1>2, <1>3, <1>4

\* The first message of a kind may be appended.
LEMMA AppendOnce ==
    ASSUME NEW T, NEW q \in Seq(T), NEW x \in T, NEW M,
           Once(q, M), x \in M => ~Has(q, M)
    PROVE  Once(Append(q, x), M)
BY DEF Has, Once

\* What must come first is not appended after the other kind.
LEMMA AppendBefore ==
    ASSUME NEW T, NEW q \in Seq(T), NEW x \in T, NEW M, NEW N,
           Before(q, M, N), x \in M => x \notin N /\ ~Has(q, N)
    PROVE  Before(Append(q, x), M, N)
BY DEF Has, Before

\* A message of M ends the queue; any but one of N lets it end as before.
LEMMA AppendEnds ==
    ASSUME NEW T, NEW q \in Seq(T), NEW x \in T, NEW M, NEW N,
           x \in M \/ (Ends(q, M, N) /\ x \notin N)
    PROVE  Ends(Append(q, x), M, N)
<1>1. Len(Append(q, x)) = Len(q) + 1 /\ Append(q, x)[Len(q) + 1] = x
  OBVIOUS
<1>2. \A i \in 1 .. Len(q) : Append(q, x)[i] = q[i]
  OBVIOUS
<1>3. DOMAIN q = 1 .. Len(q) /\ DOMAIN Append(q, x) = 1 .. Len(q) + 1 /\ Len(q) \in Nat
  OBVIOUS
<1>4. CASE x \in M
  BY <1>1, <1>3, <1>4 DEF Ends
<1>5. CASE Ends(q, M, N) /\ x \notin N
  <2>1. PICK i \in 1 .. Len(q) : q[i] \in M /\ \A j \in 1 .. Len(q) : j > i => q[j] \notin N
    BY <1>3, <1>5 DEF Ends
  <2>2. \A j \in 1 .. Len(q) + 1 : j > i => Append(q, x)[j] \notin N
    BY <1>1, <1>2, <1>3, <1>5, <2>1
  <2> QED
    BY <1>2, <1>3, <2>1, <2>2 DEF Ends
<1> QED
  BY <1>4, <1>5

\* The elements of a queue, by their place in its tail.
LEMMA Tails ==
    ASSUME NEW T, NEW q \in Seq(T), q # <<>>
    PROVE  /\ Head(q) \in T /\ Tail(q) \in Seq(T)
           /\ Head(q) = q[1] /\ 1 \in DOMAIN q
           /\ \A i \in DOMAIN Tail(q) : i + 1 \in DOMAIN q /\ Tail(q)[i] = q[i + 1]
           /\ \A i \in DOMAIN q : i = 1 \/ (i - 1 \in DOMAIN Tail(q) /\ Tail(q)[i - 1] = q[i])
           /\ DOMAIN q \subseteq Nat /\ DOMAIN Tail(q) \subseteq Nat \ {0}
<1>1. /\ DOMAIN q = 1 .. Len(q) /\ Len(q) \in Nat \ {0}
      /\ DOMAIN Tail(q) = 1 .. Len(q) - 1
      /\ \A i \in 1 .. Len(q) - 1 : Tail(q)[i] = q[i + 1]
  OBVIOUS
<1>2. Head(q) \in T /\ Tail(q) \in Seq(T) /\ Head(q) = q[1]
  OBVIOUS
<1>3. ASSUME NEW i \in DOMAIN q, i # 1
      PROVE  i - 1 \in DOMAIN Tail(q) /\ Tail(q)[i - 1] = q[i]
  <2>1. i - 1 \in 1 .. Len(q) - 1 /\ (i - 1) + 1 = i
    BY <1>1, <1>3
  <2>2. Tail(q)[i - 1] = q[(i - 1) + 1]
    BY <1>1, <2>1
  <2> QED
    BY <1>1, <2>1, <2>2
<1>4. /\ \A i \in DOMAIN Tail(q) : i + 1 \in DOMAIN q /\ Tail(q)[i] = q[i + 1]
      /\ 1 \in DOMAIN q /\ DOMAIN q \subseteq Nat /\ DOMAIN Tail(q) \subseteq Nat \ {0}
  BY <1>1
<1>5. \A i \in DOMAIN q : i = 1 \/ (i - 1 \in DOMAIN Tail(q) /\ Tail(q)[i - 1] = q[i])
  BY <1>3
<1> QED
  BY <1>2, <1>4, <1>5, Zenon

\* What a queue has is its head or in its tail.
LEMMA TailHas ==
    ASSUME NEW T, NEW q \in Seq(T), q # <<>>, NEW M
    PROVE  Has(q, M) <=> Head(q) \in M \/ Has(Tail(q), M)
<1>1. ASSUME Has(q, M)
      PROVE  Head(q) \in M \/ Has(Tail(q), M)
  <2>1. PICK i \in DOMAIN q : q[i] \in M
    BY <1>1 DEF Has
  <2>2. \/ i = 1 /\ Head(q) = q[1]
        \/ i - 1 \in DOMAIN Tail(q) /\ Tail(q)[i - 1] = q[i]
    BY Tails
  <2> QED
    BY <2>1, <2>2 DEF Has
<1>2. ASSUME Has(Tail(q), M)
      PROVE  Has(q, M)
  BY <1>2, Tails DEF Has
<1>3. ASSUME Head(q) \in M
      PROVE  Has(q, M)
  BY <1>3, Tails DEF Has
<1> QED
  BY <1>1, <1>2, <1>3

\* Taking the one message of a kind leaves none.
LEMMA TailOnce ==
    ASSUME NEW T, NEW q \in Seq(T), q # <<>>, NEW M, Once(q, M)
    PROVE  Once(Tail(q), M) /\ (Head(q) \in M => ~Has(Tail(q), M))
<1>1. ASSUME NEW i \in DOMAIN Tail(q), NEW j \in DOMAIN Tail(q),
             Tail(q)[i] \in M, Tail(q)[j] \in M
      PROVE  i = j
  <2>1. i + 1 = j + 1
    BY <1>1, Tails DEF Once
  <2> QED
    BY <2>1, Tails
<1>2. ASSUME Head(q) \in M, NEW i \in DOMAIN Tail(q), Tail(q)[i] \in M
      PROVE  FALSE
  <2>1. i + 1 = 1
    BY <1>2, Tails DEF Once
  <2> QED
    BY <2>1, Tails
<1> QED
  BY <1>1, <1>2 DEF Once, Has

\* If the head is of the later kind, none of the earlier is left.
LEMMA TailBefore ==
    ASSUME NEW T, NEW q \in Seq(T), q # <<>>, NEW M, NEW N, Before(q, M, N)
    PROVE  Before(Tail(q), M, N) /\ (Head(q) \in N => ~Has(Tail(q), M))
<1>1. ASSUME NEW i \in DOMAIN Tail(q), NEW j \in DOMAIN Tail(q),
             Tail(q)[i] \in M, Tail(q)[j] \in N
      PROVE  i < j
  <2>1. i + 1 < j + 1
    BY <1>1, Tails DEF Before
  <2>2. i \in Nat /\ j \in Nat
    BY Tails
  <2> QED
    BY <2>1, <2>2
<1>2. ASSUME Head(q) \in N, NEW i \in DOMAIN Tail(q), Tail(q)[i] \in M
      PROVE  FALSE
  <2>1. i + 1 < 1
    BY <1>2, Tails DEF Before
  <2>2. i \in Nat
    BY Tails
  <2> QED
    BY <2>1, <2>2
<1> QED
  BY <1>1, <1>2 DEF Before, Has

\* Taking the head ends the queue as before, or took what ended it.
LEMMA TailEnds ==
    ASSUME NEW T, NEW q \in Seq(T), q # <<>>, NEW M, NEW N, Ends(q, M, N)
    PROVE  Ends(Tail(q), M, N) \/ (Head(q) \in M /\ ~Has(Tail(q), N))
<1>1. PICK i \in DOMAIN q : q[i] \in M /\ \A j \in DOMAIN q : j > i => q[j] \notin N
  BY DEF Ends
<1>2. /\ i \in Nat
      /\ \A j \in DOMAIN Tail(q) : j \in Nat /\ j > 0
  BY Tails
<1>3. CASE i = 1
  <2>1. \A j \in DOMAIN Tail(q) : j + 1 > i
    BY <1>2, <1>3
  <2>2. ~Has(Tail(q), N)
    BY <1>1, <2>1, Tails DEF Has
  <2>3. Head(q) \in M
    BY <1>1, <1>3, Tails
  <2> QED
    BY <2>2, <2>3
<1>4. CASE i # 1
  <2>1. i - 1 \in DOMAIN Tail(q) /\ Tail(q)[i - 1] \in M
    BY <1>1, <1>4, Tails
  <2>2. \A j \in DOMAIN Tail(q) : j > i - 1 => j + 1 > i
    BY <1>2
  <2>3. \A j \in DOMAIN Tail(q) : j > i - 1 => Tail(q)[j] \notin N
    BY <1>1, <2>2, Tails
  <2>4. \E k \in DOMAIN Tail(q) :
          Tail(q)[k] \in M /\ \A j \in DOMAIN Tail(q) : j > k => Tail(q)[j] \notin N
    BY <2>1, <2>3, Zenon
  <2> QED
    BY <2>4, Zenon DEF Ends
<1> QED
  BY <1>3, <1>4

\* The elements of two queues, by their place in both.
LEMMA Joined ==
    ASSUME NEW T, NEW q \in Seq(T), NEW p \in Seq(T)
    PROVE  /\ q \o p \in Seq(T)
           /\ DOMAIN q = 1 .. Len(q) /\ DOMAIN p = 1 .. Len(p)
           /\ Len(q) \in Nat /\ Len(p) \in Nat
           /\ DOMAIN (q \o p) = 1 .. Len(q) + Len(p)
           /\ \A i \in DOMAIN q : (q \o p)[i] = q[i]
           /\ \A i \in DOMAIN p : (q \o p)[Len(q) + i] = p[i]
           /\ \A i \in DOMAIN (q \o p) :
                \/ i \in DOMAIN q
                \/ i > Len(q) /\ i - Len(q) \in DOMAIN p /\ (q \o p)[i] = p[i - Len(q)]
OBVIOUS

\* What two queues have together.
LEMMA JoinedHas ==
    ASSUME NEW T, NEW q \in Seq(T), NEW p \in Seq(T), NEW M
    PROVE  Has(q \o p, M) <=> Has(q, M) \/ Has(p, M)
<1>1. ASSUME Has(q, M)
      PROVE  Has(q \o p, M)
  <2>1. PICK i \in DOMAIN q : q[i] \in M
    BY <1>1 DEF Has
  <2>2. i \in DOMAIN (q \o p) /\ (q \o p)[i] = q[i]
    BY Joined
  <2> QED
    BY <2>1, <2>2 DEF Has
<1>2. ASSUME Has(p, M)
      PROVE  Has(q \o p, M)
  <2>1. PICK i \in DOMAIN p : p[i] \in M
    BY <1>2 DEF Has
  <2>2. Len(q) + i \in DOMAIN (q \o p) /\ (q \o p)[Len(q) + i] = p[i]
    BY Joined
  <2> QED
    BY <2>1, <2>2 DEF Has
<1>3. ASSUME Has(q \o p, M)
      PROVE  Has(q, M) \/ Has(p, M)
  <2>1. PICK i \in DOMAIN (q \o p) : (q \o p)[i] \in M
    BY <1>3 DEF Has
  <2> QED
    BY <2>1, Joined DEF Has
<1> QED
  BY <1>1, <1>2, <1>3

\* Two queues of which one has none of M have one of M at most.
LEMMA JoinedOnce ==
    ASSUME NEW T, NEW q \in Seq(T), NEW p \in Seq(T), NEW M,
           Once(q, M), Once(p, M), ~Has(q, M) \/ ~Has(p, M)
    PROVE  Once(q \o p, M)
<1> SUFFICES ASSUME NEW i \in DOMAIN (q \o p), NEW j \in DOMAIN (q \o p),
                    (q \o p)[i] \in M, (q \o p)[j] \in M
             PROVE  i = j
  BY DEF Once
<1>1. CASE i \in DOMAIN q /\ j \in DOMAIN q
  BY <1>1, Joined DEF Once
<1>2. CASE i \in DOMAIN q /\ j \notin DOMAIN q
  BY <1>2, Joined DEF Has
<1>3. CASE i \notin DOMAIN q /\ j \in DOMAIN q
  BY <1>3, Joined DEF Has
<1>4. CASE i \notin DOMAIN q /\ j \notin DOMAIN q
  <2>1. /\ i - Len(q) \in DOMAIN p /\ p[i - Len(q)] \in M
        /\ j - Len(q) \in DOMAIN p /\ p[j - Len(q)] \in M
    BY <1>4, Joined
  <2>2. i - Len(q) = j - Len(q)
    BY <2>1 DEF Once
  <2> QED
    BY <2>2, Joined
<1> QED
  BY <1>1, <1>2, <1>3, <1>4

\* Two ordered queues, nothing of M in the second or of N in the first.
LEMMA JoinedBefore ==
    ASSUME NEW T, NEW q \in Seq(T), NEW p \in Seq(T), NEW M, NEW N,
           Before(q, M, N), Before(p, M, N), ~Has(q, N) \/ ~Has(p, M)
    PROVE  Before(q \o p, M, N)
<1> SUFFICES ASSUME NEW i \in DOMAIN (q \o p), NEW j \in DOMAIN (q \o p),
                    (q \o p)[i] \in M, (q \o p)[j] \in N
             PROVE  i < j
  BY DEF Before
<1>1. CASE i \in DOMAIN q /\ j \in DOMAIN q
  BY <1>1, Joined DEF Before
<1>2. CASE i \in DOMAIN q /\ j \notin DOMAIN q
  BY <1>2, Joined
<1>3. CASE i \notin DOMAIN q /\ j \in DOMAIN q
  BY <1>3, Joined DEF Has
<1>4. CASE i \notin DOMAIN q /\ j \notin DOMAIN q
  <2>1. /\ i - Len(q) \in DOMAIN p /\ p[i - Len(q)] \in M
        /\ j - Len(q) \in DOMAIN p /\ p[j - Len(q)] \in N
    BY <1>4, Joined
  <2>2. i - Len(q) < j - Len(q)
    BY <2>1 DEF Before
  <2> QED
    BY <2>2, Joined
<1> QED
  BY <1>1, <1>2, <1>3, <1>4

\* A second queue without N lets the first end as before.
LEMMA JoinedEnds ==
    ASSUME NEW T, NEW q \in Seq(T), NEW p \in Seq(T), NEW M, NEW N,
           Ends(q, M, N), ~Has(p, N)
    PROVE  Ends(q \o p, M, N)
<1>1. PICK i \in DOMAIN q : q[i] \in M /\ \A j \in DOMAIN q : j > i => q[j] \notin N
  BY DEF Ends
<1>2. i \in DOMAIN (q \o p) /\ (q \o p)[i] \in M
  BY <1>1, Joined
<1>3. ASSUME NEW j \in DOMAIN (q \o p), j > i
      PROVE  (q \o p)[j] \notin N
  <2>1. CASE j \in DOMAIN q
    BY <1>1, <1>3, <2>1, Joined
  <2>2. CASE j \notin DOMAIN q
    BY <2>2, Joined DEF Has
  <2> QED
    BY <2>1, <2>2
<1> QED
  BY <1>2, <1>3 DEF Ends

\* A message sent n times, as HearSync does with the leaves of the disowned.
LEMMA Repeats ==
    ASSUME NEW T, NEW x \in T, NEW n \in Nat, NEW M, NEW N
    PROVE  LET q == [i \in 1 .. n |-> x]
           IN  /\ q \in Seq(T)
               /\ Has(q, M) <=> n > 0 /\ x \in M
               /\ x \notin M \/ n <= 1 => Once(q, M)
               /\ x \notin M \/ x \notin N => Before(q, M, N)
<1> DEFINE q == [i \in 1 .. n |-> x]
<1>1. q \in Seq(T) /\ DOMAIN q = 1 .. n /\ \A i \in 1 .. n : q[i] = x
  OBVIOUS
<1> HIDE DEF q
<1>2. Has(q, M) <=> n > 0 /\ x \in M
  BY <1>1 DEF Has
<1>3. x \notin M \/ n <= 1 => Once(q, M)
  BY <1>1 DEF Once
<1>4. x \notin M \/ x \notin N => Before(q, M, N)
  BY <1>1 DEF Before
<1> QED
  BY <1>1, <1>2, <1>3, <1>4 DEF q

-------------------------------------------------------------------------------
(* One file on one connection                                              *)

\* The types of the messages about room r.
LEMMA Messages ==
    ASSUME NEW r \in Room
    PROVE  /\ JoinOf(r) \subseteq ToServer /\ LeaveOf(r) \subseteq ToServer
           /\ SyncOf(r) \subseteq AnswerOf(r) /\ AnswerOf(r) \subseteq ToClient
           /\ Message("join", r) \in ToServer /\ Message("leave", r) \in ToServer
           /\ r \in File => Message("update", r) \in ToServer
           /\ Message("sync", r) \in ToClient
           /\ Message("refused", r) \in ToClient /\ Message("outside", r) \in ToClient
BY DEF JoinOf, LeaveOf, UpdateOf, SyncOf, AnswerOf, ToServer, ToClient, Message

\* Messages differ by kind and by room.
LEMMA Kinds ==
    ASSUME NEW r \in Room, NEW t \in Room
    PROVE  /\ \A m : m \in JoinOf(r) <=> m = Message("join", r)
           /\ \A m : m \in LeaveOf(r) <=> m = Message("leave", r)
           /\ \A m : m \in UpdateOf(r) <=> m = Message("update", r)
           /\ \A m : m \in SyncOf(r) <=> m = Message("sync", r)
           /\ \A m : m \in AnswerOf(r) <=> m = Message("sync", r) \/ m = Message("refused", r)
           /\ Message("join", r) # Message("leave", t)
           /\ Message("join", r) # Message("update", t)
           /\ Message("leave", r) # Message("update", t)
           /\ Message("sync", r) # Message("refused", t)
           /\ Message("sync", r) # Message("outside", t)
           /\ Message("refused", r) # Message("outside", t)
           /\ Message("join", r) = Message("join", t) => r = t
           /\ Message("leave", r) = Message("leave", t) => r = t
           /\ Message("update", r) = Message("update", t) => r = t
           /\ Message("sync", r) = Message("sync", t) => r = t
           /\ Message("refused", r) = Message("refused", t) => r = t
<1>1. /\ \A m : m \in JoinOf(r) <=> m = Message("join", r)
      /\ \A m : m \in LeaveOf(r) <=> m = Message("leave", r)
      /\ \A m : m \in UpdateOf(r) <=> m = Message("update", r)
      /\ \A m : m \in SyncOf(r) <=> m = Message("sync", r)
      /\ \A m : m \in AnswerOf(r) <=> m = Message("sync", r) \/ m = Message("refused", r)
  BY DEF JoinOf, LeaveOf, UpdateOf, SyncOf, AnswerOf
<1>2. \A k : Message(k, r).kind = k /\ Message(k, r).room = r
  BY DEF Message
<1>3. \A k : Message(k, t).kind = k /\ Message(k, t).room = t
  BY DEF Message
<1>4. /\ Message("join", r) # Message("leave", t)
      /\ Message("join", r) # Message("update", t)
      /\ Message("leave", r) # Message("update", t)
      /\ Message("sync", r) # Message("refused", t)
      /\ Message("sync", r) # Message("outside", t)
      /\ Message("refused", r) # Message("outside", t)
  BY <1>2, <1>3
<1>5. \A k : Message(k, r) = Message(k, t) => r = t
  BY <1>2, <1>3
<1> QED
  BY <1>1, <1>4, <1>5

\* Who has one of M has one of any larger set.
LEMMA SubsetHas ==
    ASSUME NEW q, NEW M, NEW N, M \subseteq N, Has(q, M)
    PROVE  Has(q, N)
BY DEF Has

\* A connection nobody knows anything of asks nothing.
LEMMA AskedWiped ==
    ASSUME NEW att, NEW s, NEW f
    PROVE  Asked(att, <<>>, <<>>, 0, {}, s, f)
BY Nothing DEF Asked, Coherent, Outstanding, Accounted

\* Attempts change or rooms are left, and nothing that waits is lost.
LEMMA AskedStays ==
    ASSUME NEW att, NEW two, NEW o, NEW i, NEW h, NEW r, NEW t, NEW s, NEW f,
           Asked(att, o, i, h, r, s, f), f \in t => f \in r,
           InStage(att, "joining", s, f) => InStage(two, "joining", s, f),
           InStage(att, "open", s, f) => InStage(two, "open", s, f)
    PROVE  Asked(two, o, i, h, t, s, f)
BY DEF Asked, Accounted

\* With nothing on its way, no attempt has to wait.
LEMMA AskedQuiet ==
    ASSUME NEW att, NEW two, NEW o, NEW i, NEW h, NEW r, NEW s, NEW f,
           Asked(att, o, i, h, r, s, f), ~Outstanding(o, i, h, f),
           InStage(att, "open", s, f) => InStage(two, "open", s, f)
    PROVE  Asked(two, o, i, h, r, s, f)
BY DEF Asked, Accounted

\* Messages of other documents, and updates, may be sent.
LEMMA AskedSends ==
    ASSUME NEW att, NEW o \in Seq(ToServer), NEW i, NEW h, NEW r, NEW s,
           NEW f \in File,
           NEW m \in ToServer, m \notin JoinOf(f), m \notin LeaveOf(f),
           Asked(att, o, i, h, r, s, f)
    PROVE  Asked(att, Append(o, m), i, h, r, s, f)
<1>1. /\ Has(Append(o, m), JoinOf(f)) <=> Has(o, JoinOf(f))
      /\ Has(Append(o, m), LeaveOf(f)) <=> Has(o, LeaveOf(f))
  BY AppendHas
<1>2. Once(o, JoinOf(f)) => Once(Append(o, m), JoinOf(f))
  BY AppendOnce
<1>3. Before(o, LeaveOf(f), JoinOf(f)) => Before(Append(o, m), LeaveOf(f), JoinOf(f))
  BY AppendBefore
<1> QED
  BY <1>1, <1>2, <1>3, Zenon DEF Asked, Coherent, Outstanding, Accounted

\* A leave may be sent unless an attempt waits for the join.
LEMMA AskedLeaves ==
    ASSUME NEW att, NEW two, NEW o \in Seq(ToServer), NEW i, NEW h, NEW r,
           NEW s,
           NEW f \in File, ~InStage(att, "joining", s, f),
           Asked(att, o, i, h, r, s, f)
    PROVE  Asked(two, Append(o, Message("leave", f)), i, h, r, s, f)
<1> DEFINE m == Message("leave", f)
<1>0. f \in Room /\ m \in ToServer /\ m \notin JoinOf(f) /\ m \in LeaveOf(f)
  BY Messages, Kinds DEF Room
<1> HIDE DEF m
<1>1. /\ Has(Append(o, m), JoinOf(f)) <=> Has(o, JoinOf(f))
      /\ Has(Append(o, m), LeaveOf(f))
  BY <1>0, AppendHas
<1>2. Once(o, JoinOf(f)) => Once(Append(o, m), JoinOf(f))
  BY <1>0, AppendOnce
<1>3. ~Outstanding(o, i, h, f)
  BY DEF Asked
<1>4. Before(o, LeaveOf(f), JoinOf(f)) => Before(Append(o, m), LeaveOf(f), JoinOf(f))
  BY <1>0, <1>3, AppendBefore DEF Outstanding
<1>5. Asked(two, Append(o, m), i, h, r, s, f)
  BY <1>1, <1>2, <1>3, <1>4, Zenon DEF Asked, Coherent, Outstanding, Accounted
<1> QED
  BY <1>5 DEF m

\* A join may be sent for a new attempt if none waited before.
LEMMA AskedJoins ==
    ASSUME NEW att, NEW two, NEW o \in Seq(ToServer), NEW i, NEW h, NEW r,
           NEW s,
           NEW f \in File, ~InStage(att, "joining", s, f),
           InStage(two, "joining", s, f),
           InStage(att, "open", s, f) => InStage(two, "open", s, f),
           Asked(att, o, i, h, r, s, f)
    PROVE  Asked(two, Append(o, Message("join", f)), i, h, r, s, f)
<1> DEFINE m == Message("join", f)
<1>0. f \in Room /\ m \in ToServer /\ m \in JoinOf(f) /\ m \notin LeaveOf(f)
  BY Messages, Kinds DEF Room
<1> HIDE DEF m
<1>1. Has(Append(o, m), LeaveOf(f)) <=> Has(o, LeaveOf(f))
  BY <1>0, AppendHas
<1>2. ~Outstanding(o, i, h, f)
  BY DEF Asked
<1>3. Once(Append(o, m), JoinOf(f))
  BY <1>0, <1>2, AppendOnce DEF Outstanding, Asked, Coherent
<1>4. Before(o, LeaveOf(f), JoinOf(f)) => Before(Append(o, m), LeaveOf(f), JoinOf(f))
  BY <1>0, AppendBefore
<1>5. h \in {0, 1} /\ h # 1
  BY <1>2 DEF Asked, Coherent, Outstanding
<1>6. Asked(two, Append(o, m), i, h, r, s, f)
  BY <1>1, <1>2, <1>3, <1>4, <1>5 DEF Asked, Coherent, Outstanding, Accounted
<1> QED
  BY <1>6 DEF m

\* The server takes a message that is not about the membership in f.
LEMMA AskedTaken ==
    ASSUME NEW att, NEW o \in Seq(ToServer), o # <<>>, NEW i, NEW h, NEW r,
           NEW t, NEW s,
           NEW f \in File, Head(o) \notin JoinOf(f), Head(o) \notin LeaveOf(f),
           f \in t => f \in r, Asked(att, o, i, h, r, s, f)
    PROVE  Asked(att, Tail(o), i, h, t, s, f)
<1>1. /\ Has(Tail(o), JoinOf(f)) <=> Has(o, JoinOf(f))
      /\ Has(Tail(o), LeaveOf(f)) <=> Has(o, LeaveOf(f))
  BY TailHas
<1>2. Once(o, JoinOf(f)) => Once(Tail(o), JoinOf(f))
  BY TailOnce
<1>3. Before(o, LeaveOf(f), JoinOf(f)) => Before(Tail(o), LeaveOf(f), JoinOf(f))
  BY TailBefore
<1> QED
  BY <1>1, <1>2, <1>3, Zenon DEF Asked, Coherent, Outstanding, Accounted

\* The server takes the join: it was the only one, and is handled now.
LEMMA AskedJoinTaken ==
    ASSUME NEW att, NEW o \in Seq(ToServer), o # <<>>, NEW i, NEW h, NEW r,
           NEW s,
           NEW f \in File, Head(o) = Message("join", f),
           Asked(att, o, i, h, r, s, f)
    PROVE  h = 0 /\ Asked(att, Tail(o), i, 1, r, s, f)
<1>0. f \in Room /\ Head(o) \in JoinOf(f) /\ Head(o) \notin LeaveOf(f)
  BY Kinds DEF Room
<1>1. /\ Has(o, JoinOf(f))
      /\ Has(Tail(o), LeaveOf(f)) <=> Has(o, LeaveOf(f))
  BY <1>0, TailHas
<1>2. Once(o, JoinOf(f)) => Once(Tail(o), JoinOf(f)) /\ ~Has(Tail(o), JoinOf(f))
  BY <1>0, TailOnce
<1>3. Before(o, LeaveOf(f), JoinOf(f))
        => Before(Tail(o), LeaveOf(f), JoinOf(f)) /\ ~Has(Tail(o), LeaveOf(f))
  BY <1>0, TailBefore
<1> QED
  BY <1>1, <1>2, <1>3 DEF Asked, Coherent, Outstanding, Accounted

\* The server takes a leave: the connection is not in the room any more.
LEMMA AskedLeaveTaken ==
    ASSUME NEW att, NEW o \in Seq(ToServer), o # <<>>, NEW i, NEW h, NEW r,
           NEW s,
           NEW f \in File, Head(o) = Message("leave", f),
           Asked(att, o, i, h, r, s, f)
    PROVE  Asked(att, Tail(o), i, h, r \ {f}, s, f)
<1>0. f \in Room /\ Head(o) \in LeaveOf(f) /\ Head(o) \notin JoinOf(f)
  BY Kinds DEF Room
<1>1. /\ Has(Tail(o), JoinOf(f)) <=> Has(o, JoinOf(f))
      /\ Has(o, LeaveOf(f))
  BY <1>0, TailHas
<1>2. Once(o, JoinOf(f)) => Once(Tail(o), JoinOf(f))
  BY TailOnce
<1>3. Before(o, LeaveOf(f), JoinOf(f)) => Before(Tail(o), LeaveOf(f), JoinOf(f))
  BY TailBefore
<1>4. Coherent(o, i, h, f) /\ (Outstanding(o, i, h, f) => InStage(att, "joining", s, f))
  BY DEF Asked
<1>5. h # 1 /\ ~Has(i, AnswerOf(f))
  BY <1>1, <1>4 DEF Coherent
<1>6. Coherent(Tail(o), i, h, f)
  BY <1>1, <1>2, <1>3, <1>4, <1>5 DEF Coherent
<1>7. Outstanding(Tail(o), i, h, f) => Outstanding(o, i, h, f)
  BY <1>1 DEF Outstanding
<1> QED
  BY <1>4, <1>6, <1>7 DEF Asked, Accounted

\* The server sends what is not an answer to the join of f.
LEMMA AskedTold ==
    ASSUME NEW att, NEW o, NEW i \in Seq(ToClient), NEW h, NEW r, NEW t, NEW s,
           NEW f \in File, NEW m \in ToClient, m \notin AnswerOf(f),
           f \in t => f \in r, Asked(att, o, i, h, r, s, f)
    PROVE  Asked(att, o, Append(i, m), h, t, s, f)
<1>0. f \in Room /\ m \notin SyncOf(f)
  BY Messages DEF Room
<1>1. /\ Has(Append(i, m), AnswerOf(f)) <=> Has(i, AnswerOf(f))
      /\ Has(Append(i, m), SyncOf(f)) <=> Has(i, SyncOf(f))
  BY <1>0, AppendHas
<1>2. Once(i, AnswerOf(f)) => Once(Append(i, m), AnswerOf(f))
  BY AppendOnce
<1> QED
  BY <1>1, <1>2, Zenon DEF Asked, Coherent, Outstanding, Accounted

\* The server answers the join it was handling, and it was the only one.
LEMMA AskedAnswered ==
    ASSUME NEW att, NEW o, NEW i \in Seq(ToClient), NEW h \in Nat, h > 0,
           NEW r, NEW t, NEW s,
           NEW f \in File, NEW m \in AnswerOf(f),
           f \in t => f \in r \/ m = Message("sync", f), Asked(att, o, i, h, r, s, f)
    PROVE  h = 1 /\ Asked(att, o, Append(i, m), h - 1, t, s, f)
<1>0. f \in Room /\ m \in ToClient /\ (m \in SyncOf(f) <=> m = Message("sync", f))
  BY Messages, Kinds DEF Room
<1>1. h = 1 /\ h - 1 = 0 /\ Coherent(o, i, h, f)
  BY DEF Asked, Coherent
<1>2. ~Has(o, JoinOf(f)) /\ ~Has(i, AnswerOf(f)) /\ ~Has(o, LeaveOf(f))
  BY <1>1 DEF Coherent
<1>3. /\ Has(Append(i, m), AnswerOf(f))
      /\ Has(Append(i, m), SyncOf(f)) <=> (Has(i, SyncOf(f)) \/ m = Message("sync", f))
  BY <1>0, AppendHas
<1>4. Once(Append(i, m), AnswerOf(f))
  BY <1>0, <1>1, <1>2, AppendOnce DEF Coherent
<1>5. Coherent(o, Append(i, m), 0, f)
  BY <1>1, <1>2, <1>4 DEF Coherent
<1>6. InStage(att, "joining", s, f)
  BY <1>1 DEF Asked, Outstanding
<1>7. Accounted(att, o, Append(i, m), t, s, f)
  BY <1>2, <1>3 DEF Asked, Accounted
<1> QED
  BY <1>1, <1>5, <1>6, <1>7 DEF Asked

\* The client hears what is not an answer to the join of f.
LEMMA AskedHears ==
    ASSUME NEW att, NEW two, NEW o, NEW i \in Seq(ToClient), i # <<>>, NEW h,
           NEW r, NEW s,
           NEW f \in File, Head(i) \notin AnswerOf(f),
           InStage(att, "joining", s, f) => InStage(two, "joining", s, f),
           InStage(att, "open", s, f) => InStage(two, "open", s, f),
           Asked(att, o, i, h, r, s, f)
    PROVE  Asked(two, o, Tail(i), h, r, s, f)
<1>0. f \in Room /\ Head(i) \notin SyncOf(f)
  BY Messages DEF Room
<1>1. /\ Has(Tail(i), AnswerOf(f)) <=> Has(i, AnswerOf(f))
      /\ Has(Tail(i), SyncOf(f)) <=> Has(i, SyncOf(f))
  BY <1>0, TailHas
<1>2. Once(i, AnswerOf(f)) => Once(Tail(i), AnswerOf(f))
  BY TailOnce
<1> QED
  BY <1>1, <1>2, Zenon DEF Asked, Coherent, Outstanding, Accounted

\* An answer is the last that is to come.
LEMMA Answering ==
    ASSUME NEW att, NEW o, NEW i \in Seq(ToClient), i # <<>>, NEW h, NEW r,
           NEW s,
           NEW f \in File, Head(i) \in AnswerOf(f), Asked(att, o, i, h, r, s, f)
    PROVE  /\ ~Outstanding(o, Tail(i), h, f) /\ h = 0 /\ Coherent(o, Tail(i), h, f)
           /\ ~Has(o, LeaveOf(f)) /\ InStage(att, "joining", s, f)
           /\ Has(i, SyncOf(f)) => Head(i) \in SyncOf(f)
<1>0. f \in Room /\ SyncOf(f) \subseteq AnswerOf(f)
  BY Messages DEF Room
<1>1. /\ Has(i, AnswerOf(f))
      /\ Has(i, SyncOf(f)) => Head(i) \in SyncOf(f) \/ Has(Tail(i), SyncOf(f))
  BY TailHas
<1>2. Once(i, AnswerOf(f)) => Once(Tail(i), AnswerOf(f)) /\ ~Has(Tail(i), AnswerOf(f))
  BY TailOnce
<1>3. Has(Tail(i), SyncOf(f)) => Has(Tail(i), AnswerOf(f))
  BY <1>0, SubsetHas
<1>4. Coherent(o, i, h, f) /\ InStage(att, "joining", s, f)
  BY <1>1 DEF Asked, Outstanding
<1>5. ~Has(Tail(i), AnswerOf(f)) /\ Once(Tail(i), AnswerOf(f))
  BY <1>2, <1>4 DEF Coherent
<1>6. h = 0 /\ ~Has(o, JoinOf(f)) /\ ~Has(o, LeaveOf(f))
  BY <1>1, <1>4 DEF Coherent
<1> QED
  BY <1>1, <1>3, <1>4, <1>5, <1>6 DEF Coherent, Outstanding

\* A sync is heard: the file is open, or is left by whoever gave it up.
LEMMA AskedSynced ==
    ASSUME NEW att, NEW two, NEW o \in Seq(ToServer), NEW i \in Seq(ToClient),
           i # <<>>,
           NEW h, NEW r, NEW s, NEW f \in File, Head(i) = Message("sync", f),
           NEW n \in Nat, n > 0 \/ InStage(two, "open", s, f),
           Asked(att, o, i, h, r, s, f)
    PROVE  Asked(two, o \o [k \in 1 .. n |-> Message("leave", f)], Tail(i), h, r, s, f)
<1> DEFINE m == Message("leave", f)  p == [k \in 1 .. n |-> m]
<1>0. /\ f \in Room /\ m \in ToServer /\ m \notin JoinOf(f) /\ m \in LeaveOf(f)
      /\ Head(i) \in AnswerOf(f)
  BY Messages, Kinds DEF Room
<1>1. /\ p \in Seq(ToServer) /\ ~Has(p, JoinOf(f)) /\ (Has(p, LeaveOf(f)) <=> n > 0)
      /\ Once(p, JoinOf(f)) /\ Before(p, LeaveOf(f), JoinOf(f))
  BY <1>0, Repeats
<1>2. ~Outstanding(o, Tail(i), h, f) /\ h = 0 /\ Coherent(o, Tail(i), h, f)
  BY <1>0, Answering
<1> HIDE DEF p, m
<1>3. ~Has(o, JoinOf(f)) /\ ~Has(Tail(i), AnswerOf(f))
  BY <1>2 DEF Outstanding
<1>4. /\ ~Has(o \o p, JoinOf(f))
      /\ n > 0 => Has(o \o p, LeaveOf(f))
  BY <1>1, <1>3, JoinedHas
<1>5. Once(o \o p, JoinOf(f)) /\ Before(o \o p, LeaveOf(f), JoinOf(f))
  BY <1>1, <1>2, <1>3, JoinedOnce, JoinedBefore DEF Coherent
<1>6. Coherent(o \o p, Tail(i), h, f) /\ ~Outstanding(o \o p, Tail(i), h, f)
  BY <1>2, <1>3, <1>4, <1>5 DEF Coherent, Outstanding
<1>7. Accounted(two, o \o p, Tail(i), r, s, f)
  BY <1>4 DEF Accounted
<1>8. Asked(two, o \o p, Tail(i), h, r, s, f)
  BY <1>6, <1>7 DEF Asked
<1> QED
  BY <1>8 DEF p, m

\* A refusal is heard: nothing is on its way, nobody has to wait.
LEMMA AskedRejected ==
    ASSUME NEW att, NEW two, NEW o, NEW i \in Seq(ToClient), i # <<>>,
           NEW h, NEW r, NEW s, NEW f \in File, Head(i) = Message("refused", f),
           InStage(att, "open", s, f) => InStage(two, "open", s, f),
           Asked(att, o, i, h, r, s, f)
    PROVE  Asked(two, o, Tail(i), h, r, s, f)
<1>0. f \in Room /\ Head(i) \in AnswerOf(f) /\ Head(i) \notin SyncOf(f)
  BY Kinds DEF Room
<1>1. /\ ~Outstanding(o, Tail(i), h, f) /\ Coherent(o, Tail(i), h, f)
      /\ ~Has(i, SyncOf(f))
  BY <1>0, Answering
<1> QED
  BY <1>1 DEF Asked, Accounted

\* A batch without joins or leaves of f may be sent.
LEMMA AskedSendsAll ==
    ASSUME NEW att, NEW o \in Seq(ToServer), NEW p \in Seq(ToServer), NEW i,
           NEW h, NEW r,
           NEW s, NEW f \in File, ~Has(p, JoinOf(f)), ~Has(p, LeaveOf(f)),
           Once(p, JoinOf(f)), Before(p, LeaveOf(f), JoinOf(f)),
           Asked(att, o, i, h, r, s, f)
    PROVE  Asked(att, o \o p, i, h, r, s, f)
<1>1. /\ Has(o \o p, JoinOf(f)) <=> Has(o, JoinOf(f))
      /\ Has(o \o p, LeaveOf(f)) <=> Has(o, LeaveOf(f))
  BY JoinedHas
<1>2. Once(o, JoinOf(f)) => Once(o \o p, JoinOf(f))
  BY JoinedOnce
<1>3. Before(o, LeaveOf(f), JoinOf(f)) => Before(o \o p, LeaveOf(f), JoinOf(f))
  BY JoinedBefore
<1> QED
  BY <1>1, <1>2, <1>3, Zenon DEF Asked, Coherent, Outstanding, Accounted

\* Without an open document, a connection that was wiped is in order.
LEMMA EditedWiped ==
    ASSUME NEW att, NEW l, NEW s, NEW f, ~InStage(att, "open", s, f)
    PROVE  Edited(att, l, <<>>, <<>>, {}, s, f)
BY Nothing DEF Edited

\* No document is opened, no room is left: edits stay in order.
LEMMA EditedStays ==
    ASSUME NEW att, NEW two, NEW l, NEW k, NEW o, NEW i, NEW r, NEW t, NEW s,
           NEW f,
           Edited(att, l, o, i, r, s, f), f \in r => f \in t, l = "up" => k = "up",
           InStage(two, "open", s, f) => InStage(att, "open", s, f)
    PROVE  Edited(two, k, o, i, t, s, f)
BY DEF Edited

\* An edit is sent by whoever has the document open.
LEMMA EditedSends ==
    ASSUME NEW att, NEW l, NEW o \in Seq(ToServer), NEW i, NEW r, NEW s,
           NEW f \in File,
           NEW m \in ToServer, m \notin LeaveOf(f),
           m \in UpdateOf(f) => InStage(att, "open", s, f),
           Edited(att, l, o, i, r, s, f)
    PROVE  Edited(att, l, Append(o, m), i, r, s, f)
<1>1. /\ Has(Append(o, m), UpdateOf(f)) <=> Has(o, UpdateOf(f)) \/ m \in UpdateOf(f)
      /\ Has(Append(o, m), LeaveOf(f)) <=> Has(o, LeaveOf(f))
  BY AppendHas
<1>2. m \in UpdateOf(f) => f \in r /\ ~Has(o, LeaveOf(f))
  BY DEF Edited
<1>3. Before(Append(o, m), UpdateOf(f), LeaveOf(f))
  BY <1>2, AppendBefore DEF Edited
<1> QED
  BY <1>1, <1>2, <1>3, Zenon DEF Edited

\* Whoever leaves has the document open no more.
LEMMA EditedLeaves ==
    ASSUME NEW att, NEW two, NEW l, NEW o \in Seq(ToServer), NEW i, NEW r,
           NEW s,
           NEW f \in File, ~InStage(two, "open", s, f),
           Edited(att, l, o, i, r, s, f)
    PROVE  Edited(two, l, Append(o, Message("leave", f)), i, r, s, f)
<1> DEFINE m == Message("leave", f)
<1>0. f \in Room /\ m \in ToServer /\ m \notin UpdateOf(f)
  BY Messages, Kinds DEF Room
<1> HIDE DEF m
<1>1. Has(Append(o, m), UpdateOf(f)) <=> Has(o, UpdateOf(f))
  BY <1>0, AppendHas
<1>2. Before(o, UpdateOf(f), LeaveOf(f)) => Before(Append(o, m), UpdateOf(f), LeaveOf(f))
  BY <1>0, AppendBefore
<1>3. Edited(two, l, Append(o, m), i, r, s, f)
  BY <1>1, <1>2, Zenon DEF Edited
<1> QED
  BY <1>3 DEF m

\* The server takes what is not a leave: no room is lost.
LEMMA EditedTaken ==
    ASSUME NEW att, NEW l, NEW o \in Seq(ToServer), o # <<>>, NEW i, NEW r,
           NEW t, NEW s,
           NEW f \in File, Head(o) \notin LeaveOf(f), f \in r => f \in t,
           Edited(att, l, o, i, r, s, f)
    PROVE  Edited(att, l, Tail(o), i, t, s, f)
<1>1. /\ Has(Tail(o), UpdateOf(f)) => Has(o, UpdateOf(f))
      /\ Has(Tail(o), LeaveOf(f)) <=> Has(o, LeaveOf(f))
  BY TailHas
<1>2. Before(o, UpdateOf(f), LeaveOf(f)) => Before(Tail(o), UpdateOf(f), LeaveOf(f))
  BY TailBefore
<1> QED
  BY <1>1, <1>2, Zenon DEF Edited

\* The server takes the leave: no edit, and no join, comes after it.
LEMMA EditedLeaveTaken ==
    ASSUME NEW att, NEW l, NEW o \in Seq(ToServer), o # <<>>, NEW i, NEW h,
           NEW r, NEW s,
           NEW f \in File, Head(o) = Message("leave", f),
           Asked(att, o, i, h, r, s, f),
           Edited(att, l, o, i, r, s, f)
    PROVE  Edited(att, l, Tail(o), i, r \ {f}, s, f)
<1>0. f \in Room /\ Head(o) \in LeaveOf(f) /\ SyncOf(f) \subseteq AnswerOf(f)
  BY Messages, Kinds DEF Room
<1>1. Has(o, LeaveOf(f))
  BY <1>0, TailHas
<1>2. Before(o, UpdateOf(f), LeaveOf(f))
        => Before(Tail(o), UpdateOf(f), LeaveOf(f)) /\ ~Has(Tail(o), UpdateOf(f))
  BY <1>0, TailBefore
<1>3. ~Has(i, AnswerOf(f))
  BY <1>1 DEF Asked, Coherent
<1>4. ~Has(i, SyncOf(f))
  BY <1>0, <1>3, SubsetHas
<1> QED
  BY <1>1, <1>2, <1>4 DEF Edited

\* The server tells a sync only to a connection that is in the room.
LEMMA EditedTold ==
    ASSUME NEW att, NEW l, NEW o, NEW i \in Seq(ToClient), NEW r, NEW t, NEW s,
           NEW f \in File, NEW m \in ToClient,
           f \in r \/ m \in SyncOf(f) => f \in t,
           Edited(att, l, o, i, r, s, f)
    PROVE  Edited(att, l, o, Append(i, m), t, s, f)
<1>1. Has(Append(i, m), SyncOf(f)) <=> Has(i, SyncOf(f)) \/ m \in SyncOf(f)
  BY AppendHas
<1> QED
  BY <1>1 DEF Edited

\* The client hears a message that opens nothing.
LEMMA EditedHears ==
    ASSUME NEW att, NEW two, NEW l, NEW o, NEW i \in Seq(ToClient), i # <<>>,
           NEW r, NEW s,
           NEW f \in File,
           InStage(two, "open", s, f) => InStage(att, "open", s, f),
           Edited(att, l, o, i, r, s, f)
    PROVE  Edited(two, l, o, Tail(i), r, s, f)
<1>1. Has(Tail(i), SyncOf(f)) => Has(i, SyncOf(f))
  BY TailHas
<1> QED
  BY <1>1 DEF Edited

\* A batch without edits or leaves of f may be sent.
LEMMA EditedSendsAll ==
    ASSUME NEW att, NEW l, NEW o \in Seq(ToServer), NEW p \in Seq(ToServer),
           NEW i, NEW r,
           NEW s, NEW f \in File, ~Has(p, UpdateOf(f)), ~Has(p, LeaveOf(f)),
           Before(p, UpdateOf(f), LeaveOf(f)), Edited(att, l, o, i, r, s, f)
    PROVE  Edited(att, l, o \o p, i, r, s, f)
<1>1. /\ Has(o \o p, UpdateOf(f)) <=> Has(o, UpdateOf(f))
      /\ Has(o \o p, LeaveOf(f)) <=> Has(o, LeaveOf(f))
  BY JoinedHas
<1>2. Before(o, UpdateOf(f), LeaveOf(f)) => Before(o \o p, UpdateOf(f), LeaveOf(f))
  BY JoinedBefore
<1> QED
  BY <1>1, <1>2, Zenon DEF Edited

\* A sync opens the document while the connection is in its room.
LEMMA EditedSynced ==
    ASSUME NEW att, NEW two, NEW o \in Seq(ToServer), NEW i \in Seq(ToClient),
           i # <<>>,
           NEW h, NEW r, NEW s, NEW f \in File, Head(i) = Message("sync", f),
           NEW n \in Nat, InStage(two, "open", s, f) => n = 0,
           Asked(att, o, i, h, r, s, f), Edited(att, "up", o, i, r, s, f)
    PROVE  Edited(two, "up", o \o [k \in 1 .. n |-> Message("leave", f)], Tail(i), r, s, f)
<1> DEFINE m == Message("leave", f)  p == [k \in 1 .. n |-> m]
<1>0. /\ f \in Room /\ m \in ToServer /\ m \notin UpdateOf(f)
      /\ Head(i) \in AnswerOf(f) /\ Head(i) \in SyncOf(f)
  BY Messages, Kinds DEF Room
<1>a. /\ p \in Seq(ToServer) /\ ~Has(p, UpdateOf(f))
      /\ Before(p, UpdateOf(f), LeaveOf(f))
  BY <1>0, Repeats
<1>b. Has(p, LeaveOf(f)) => n > 0
  <2>1. DOMAIN p = 1 .. n
    OBVIOUS
  <2> HIDE DEF p
  <2>2. (\E j \in 1 .. n : TRUE) => n > 0
    OBVIOUS
  <2> QED BY <2>1, <2>2 DEF Has
<1>1. /\ p \in Seq(ToServer) /\ ~Has(p, UpdateOf(f)) /\ (Has(p, LeaveOf(f)) => n > 0)
      /\ Before(p, UpdateOf(f), LeaveOf(f))
  BY <1>a, <1>b
<1>2. ~Has(o, LeaveOf(f))
  BY <1>0, Answering
<1>3. Has(i, SyncOf(f)) /\ (Has(Tail(i), SyncOf(f)) => Has(i, SyncOf(f)))
  BY <1>0, TailHas
<1> HIDE DEF p, m
<1>4. /\ Has(o \o p, UpdateOf(f)) => Has(o, UpdateOf(f))
      /\ Has(o \o p, LeaveOf(f)) => n > 0
  BY <1>1, <1>2, JoinedHas
<1>5. Before(o \o p, UpdateOf(f), LeaveOf(f))
  BY <1>1, <1>2, JoinedBefore DEF Edited
<1>6. f \in r
  BY <1>3 DEF Edited
<1>7. Edited(two, "up", o \o p, Tail(i), r, s, f)
  BY <1>4, <1>5, <1>6 DEF Edited
<1> QED
  BY <1>7 DEF p, m

-------------------------------------------------------------------------------
(* The room of the project                                                 *)

\* The room of the project is not that of a document.
LEMMA ProjectRoom ==
    /\ Project \in Room /\ File \subseteq Room /\ NoFile \notin Room
    /\ \A f \in File : f # Project
BY ClientAssumption DEF ClientAssumption, Room

\* What is not a leave of the project keeps it joined.
LEMMA KeptSends ==
    ASSUME NEW o \in Seq(ToServer), NEW h, NEW r, NEW m \in ToServer,
           m \notin LeaveOf(Project), Kept(o, h, r)
    PROVE  Kept(Append(o, m), h, r)
<1>1. Has(Append(o, m), LeaveOf(Project)) <=> Has(o, LeaveOf(Project))
  BY AppendHas
<1>2. Ends(o, JoinOf(Project), LeaveOf(Project))
        => Ends(Append(o, m), JoinOf(Project), LeaveOf(Project))
  BY AppendEnds
<1> QED
  BY <1>1, <1>2 DEF Kept

\* A join of the project is the last word, whatever came before.
LEMMA KeptJoins ==
    ASSUME NEW o \in Seq(ToServer), NEW h, NEW r
    PROVE  Kept(Append(o, Message("join", Project)), h, r)
<1>1. Message("join", Project) \in JoinOf(Project) /\ Message("join", Project) \in ToServer
  BY ProjectRoom, Kinds, Messages
<1>2. Ends(Append(o, Message("join", Project)), JoinOf(Project), LeaveOf(Project))
  BY <1>1, AppendEnds
<1> QED
  BY <1>2 DEF Kept

\* A batch without a leave of the project keeps it joined.
LEMMA KeptSendsAll ==
    ASSUME NEW o \in Seq(ToServer), NEW p \in Seq(ToServer), NEW h, NEW r,
           ~Has(p, LeaveOf(Project)), Kept(o, h, r)
    PROVE  Kept(o \o p, h, r)
<1>1. Has(o \o p, LeaveOf(Project)) <=> Has(o, LeaveOf(Project))
  BY JoinedHas
<1>2. Ends(o, JoinOf(Project), LeaveOf(Project))
        => Ends(o \o p, JoinOf(Project), LeaveOf(Project))
  BY JoinedEnds
<1> QED
  BY <1>1, <1>2 DEF Kept

\* The server takes a message: a leave it takes was overridden by a join.
LEMMA KeptTaken ==
    ASSUME NEW o \in Seq(ToServer), o # <<>>, NEW h, NEW k, NEW r, NEW t,
           Project \in r => Project \in t \/ Head(o) \in LeaveOf(Project),
           Head(o) \in JoinOf(Project) => k > 0, h > 0 => k > 0, Kept(o, h, r)
    PROVE  Kept(Tail(o), k, t)
<1>1. Has(o, LeaveOf(Project)) <=> Head(o) \in LeaveOf(Project) \/ Has(Tail(o), LeaveOf(Project))
  BY TailHas
<1>2. Ends(o, JoinOf(Project), LeaveOf(Project))
        => \/ Ends(Tail(o), JoinOf(Project), LeaveOf(Project))
           \/ Head(o) \in JoinOf(Project) /\ ~Has(Tail(o), LeaveOf(Project))
  BY TailEnds
<1> QED
  BY <1>1, <1>2 DEF Kept

-------------------------------------------------------------------------------
(* What is sent, what is cancelled                                         *)

\* The types of the invariant are those of the specification.
LEMMA Typed == ASSUME Types PROVE TypeOK
<1> DEFINE Sent == [kind : {"join", "leave", "update"}, room : Room]
<1>1. ToServer \subseteq Sent
  BY DEF ToServer
<1> HIDE DEF Sent
<1>2. \A q \in Seq(ToServer) : q \in Seq(Sent)
  BY <1>1
<1>3. outbox \in [Socket -> Seq(Sent)]
  BY <1>2 DEF Types, NetTypes, Queues
<1> QED
  BY <1>3 DEF Sent, Types, PageTypes, NetTypes, TypeOK, Try, Viewer, ToClient

\* The bounds are numbers, and SMT needs to be told.
LEMMA Numbers ==
    /\ MaxSelect \in Nat /\ MaxWatch \in Nat /\ MaxSocket \in Nat
    /\ Attempt \subseteq Nat \ {0} /\ Watch \subseteq Nat \ {0}
    /\ \A s : s \in Socket <=> s \in 0 .. MaxSocket /\ s # 0
    /\ \A a : a \in Attempt <=> a \in 0 .. MaxSelect /\ a # 0
    /\ \A w : w \in Watch <=> w \in 0 .. MaxWatch /\ w # 0
BY ClientAssumption DEF ClientAssumption, Attempt, Watch, Socket

\* Emit appends one message to one outbox, if its socket is not closed.
LEMMA Emitted ==
    ASSUME NEW q \in Queues, NEW s \in 0 .. MaxSocket, NEW m \in ToServer
    PROVE  /\ Emit(q, s, m) \in Queues
           /\ \A t \in Socket : Emit(q, s, m)[t] =
                IF t = s /\ link[t] # "closed" THEN Append(q[t], m) ELSE q[t]
BY Numbers DEF Emit, Queues

\* The attempts after the cleanup of the hook.
LEMMA Tries ==
    ASSUME PageTypes
    PROVE  /\ Cancelled \in [Attempt -> Try]
           /\ \A a \in Attempt :
                /\ Cancelled[a].file = attempt[a].file
                /\ Cancelled[a].sock = attempt[a].sock
                /\ Cancelled[a].stage =
                     IF a = selects /\ attempt[a].stage = "open" THEN "done"
                     ELSE attempt[a].stage
                /\ Cancelled[a].cancelled = (a = selects \/ attempt[a].cancelled)
<1>1. attempt \in [Attempt -> Try] /\ selects \in 0 .. MaxSelect
  BY DEF PageTypes
<1>2. CASE selects = 0
  BY <1>1, <1>2, Numbers DEF Cancelled, Try
<1>3. CASE selects # 0
  <2>1. selects \in Attempt
    BY <1>1, <1>3, Numbers
  <2> DEFINE x == attempt[selects]
  <2>2. x \in Try /\ Cancelled = [attempt EXCEPT ![selects] =
           [x EXCEPT !.cancelled = TRUE, !.stage = IF @ = "open" THEN "done" ELSE @]]
    BY <1>1, <1>3, <2>1 DEF Cancelled, Try
  <2> QED
    BY <1>1, <2>1, <2>2, Zenon DEF Try, Stage
<1> QED
  BY <1>2, <1>3

\* The outboxes after the cleanup of the hook: a leave of what was open.
LEMMA Leaves ==
    ASSUME Types, Attempts
    PROVE  /\ LeftOpen \in Queues
           /\ \A t \in Socket : LeftOpen[t] =
                IF /\ selects # 0 /\ attempt[selects].stage = "open"
                   /\ attempt[selects].sock = t /\ link[t] # "closed"
                THEN Append(outbox[t], Message("leave", attempt[selects].file))
                ELSE outbox[t]
<1>1. outbox \in Queues /\ selects \in 0 .. MaxSelect /\ attempt \in [Attempt -> Try]
  BY DEF Types, PageTypes, NetTypes
<1>2. CASE selects > 0 /\ attempt[selects].stage = "open"
  <2>1. selects \in Attempt
    BY <1>1, <1>2, Numbers
  <2>2. attempt[selects].file \in File /\ attempt[selects].sock \in 0 .. MaxSocket
    BY <1>1, <1>2, <2>1 DEF Attempts, Try
  <2>3. Message("leave", attempt[selects].file) \in ToServer
    BY <2>2, ProjectRoom, Messages
  <2> QED
    BY <1>1, <1>2, <2>2, <2>3, Emitted DEF LeftOpen
<1>3. CASE ~(selects > 0 /\ attempt[selects].stage = "open")
  <2>1. LeftOpen = outbox
    BY <1>3 DEF LeftOpen
  <2> QED
    BY <1>1, <1>3, <2>1
<1> QED
  BY <1>2, <1>3

-------------------------------------------------------------------------------
(* Types and connections                                                   *)

\* What is left of a connection that is gone.
LEMMA Forgotten ==
    ASSUME NetTypes, NEW t \in Socket, Forget(t)
    PROVE  /\ inbox' \in [Socket -> Seq(ToClient)]
           /\ \A s \in Socket : inbox'[s] = IF s = t THEN <<>> ELSE inbox[s]
           /\ rooms' \in [Socket -> SUBSET Room]
           /\ \A s \in Socket : rooms'[s] = IF s = t THEN {} ELSE rooms[s]
           /\ handling' \in [Socket -> [Room -> Nat]]
           /\ \A s \in Socket : handling'[s] = IF s = t THEN [r \in Room |-> 0]
                                               ELSE handling[s]
<1>1. inbox' = [inbox EXCEPT ![t] = <<>>] /\ inbox \in [Socket -> Seq(ToClient)]
  BY DEF Forget, NetTypes
<1>2. rooms' = [rooms EXCEPT ![t] = {}] /\ rooms \in [Socket -> SUBSET Room]
  BY DEF Forget, NetTypes
<1>3. /\ handling' = [handling EXCEPT ![t] = [r \in Room |-> 0]]
      /\ handling \in [Socket -> [Room -> Nat]]
  BY DEF Forget, NetTypes
<1>4. [r \in Room |-> 0] \in [Room -> Nat]
  OBVIOUS
<1> QED
  BY <1>1, <1>2, <1>3, <1>4

\* Making a connection anew keeps the types and the links.
LEMMA AnewNet ==
    ASSUME NetTypes, Links, NEW q \in Queues, ConnectInternal(q),
           status' \in {"idle", "connecting", "synced", "disconnected", "error"},
           upset \subseteq upset',
           \A s \in Socket, f \in File : Has(q[s], JoinOf(f)) => Has(outbox[s], JoinOf(f))
    PROVE  NetTypes' /\ Links'
<1>1. /\ sockets' = sockets + 1 /\ connecting' = sockets + 1 /\ sock' = 0
      /\ sockets < MaxSocket
      /\ count' = IF sock = 0 THEN count ELSE 0
      /\ link' = [s \in Socket |-> CASE s = sockets + 1 -> "opening"
                                     [] s = sock -> "closed"
                                     [] OTHER -> link[s]]
      /\ outbox' = [s \in Socket |-> IF s = sock THEN <<>> ELSE q[s]]
      /\ IF sock = 0 THEN UNCHANGED <<inbox, rooms, handling>> ELSE Forget(sock)
  BY Zenon DEF ConnectInternal
<1>a. sockets \in 0 .. MaxSocket /\ MaxSocket \in Nat /\ sock \in 0 .. sockets
  BY Numbers DEF NetTypes
<1>0. /\ sockets + 1 \in Socket /\ sockets < MaxSocket /\ sockets \in Nat
      /\ \A s \in Socket : s \in Nat /\ s # 0
      /\ sock # 0 => sock \in Socket /\ sock <= sockets
  BY <1>1, <1>a DEF Socket
<1>2. /\ link' \in [Socket -> {"none", "opening", "up", "down", "closed"}]
      /\ \A s \in Socket : link'[s] = IF s = sockets + 1 THEN "opening"
                                      ELSE IF s = sock THEN "closed" ELSE link[s]
  BY <1>0, <1>1 DEF NetTypes
<1>3. /\ inbox' \in [Socket -> Seq(ToClient)]
      /\ \A s \in Socket : inbox'[s] = IF s = sock THEN <<>> ELSE inbox[s]
      /\ rooms' \in [Socket -> SUBSET Room]
      /\ \A s \in Socket : rooms'[s] = IF s = sock THEN {} ELSE rooms[s]
      /\ handling' \in [Socket -> [Room -> Nat]]
      /\ \A s \in Socket : handling'[s] = IF s = sock THEN [r \in Room |-> 0] ELSE handling[s]
  <2>1. CASE sock = 0
    BY <1>0, <1>1, <2>1 DEF NetTypes
  <2>2. CASE sock # 0
    BY <1>0, <1>1, <2>2, Forgotten DEF NetTypes
  <2> QED
    BY <2>1, <2>2
<1>6. outbox' \in Queues
  BY <1>1 DEF Queues
<1>7. NetTypes'
  BY <1>0, <1>1, <1>2, <1>3, <1>6, Numbers DEF NetTypes
<1>8. ASSUME NEW s \in Socket, link'[s] # "up"
      PROVE  Idle(s)'
  <2>1. CASE s = sock
    <3>1. outbox'[s] = <<>> /\ inbox'[s] = <<>> /\ rooms'[s] = {}
      BY <1>1, <1>3, <2>1
    <3>2. \A r \in Room : handling'[s][r] = 0
      BY <1>3, <2>1
    <3> QED
      BY <3>1, <3>2, Nothing DEF Idle
  <2>2. CASE s # sock
    <3>1. link[s] # "up"
      BY <1>0, <1>2, <1>8, <2>2 DEF Links
    <3>2. Idle(s)
      BY <3>1 DEF Links
    <3> QED
      BY <1>1, <1>3, <2>2, <3>2 DEF Idle
  <2> QED
    BY <2>1, <2>2
<1>9. /\ \A s \in Socket : link'[s] \in {"up", "down"} => s = sock'
      /\ \A s \in Socket : s > sockets' => link'[s] = "none"
      /\ sock' # 0 => link'[sock'] \in {"up", "down"}
      /\ connecting' # 0 => sock' = 0 /\ link'[connecting'] = "opening"
      /\ "drop" \notin upset' => \A s \in Socket : link'[s] # "down"
  BY <1>0, <1>1, <1>2 DEF Links
<1> QED
  BY <1>7, <1>8, <1>9 DEF Links

\* A call of connect() keeps the types and the links.
LEMMA ConnectNet ==
    ASSUME NetTypes, Links, NEW q \in Queues, Connect(q),
           status' \in {"idle", "connecting", "synced", "disconnected", "error"},
           upset \subseteq upset',
           \A s \in Socket, f \in File :
              link[s] # "up" /\ Has(q[s], JoinOf(f)) => Has(outbox[s], JoinOf(f))
    PROVE  NetTypes' /\ Links'
<1>1. CASE Connected \/ connecting # 0
  <2>1. /\ outbox' = q
        /\ UNCHANGED <<sockets, connecting, sock, count, link, inbox,
                       serverVars>>
    BY <1>1 DEF Connect
  <2>2. NetTypes'
    BY <2>1 DEF NetTypes, serverVars
  <2>3. \A s \in Socket : link'[s] # "up" => Idle(s)'
    BY <2>1 DEF Links, Idle, serverVars
  <2> QED
    BY <2>1, <2>2, <2>3 DEF Links, serverVars
<1>2. CASE ~(Connected \/ connecting # 0)
  <2>1. ConnectInternal(q)
    BY <1>2 DEF Connect
  <2>2. \A s \in Socket : link[s] # "up"
    BY <1>2, Numbers DEF Links, Connected
  <2> QED
    BY <1>2, <2>1, <2>2, AnewNet
<1> QED
  BY <1>1, <1>2

\* The cleanup asks for no document.
LEMMA LeavesAskNothing ==
    ASSUME Types, Attempts, NEW s \in Socket, NEW f \in File,
           Has(LeftOpen[s], JoinOf(f))
    PROVE  Has(outbox[s], JoinOf(f))
<1>1. CASE LeftOpen[s] = outbox[s]
  BY <1>1
<1>2. CASE LeftOpen[s] # outbox[s]
  <2>1. /\ selects # 0 /\ attempt[selects].stage = "open"
        /\ LeftOpen[s] = Append(outbox[s], Message("leave", attempt[selects].file))
    BY <1>2, Leaves
  <2>2. selects \in Attempt /\ attempt[selects].file \in File
    BY <2>1, Numbers DEF Types, PageTypes, Attempts
  <2>3. /\ Message("leave", attempt[selects].file) \in ToServer
        /\ Message("leave", attempt[selects].file) \notin JoinOf(f)
    BY <2>2, ProjectRoom, Messages, Kinds
  <2>4. outbox[s] \in Seq(ToServer)
    BY DEF Types, NetTypes, Queues
  <2> QED
    BY <2>1, <2>3, <2>4, AppendHas
<1> QED
  BY <1>1, <1>2

\* The attempt that a selection adds, and what becomes of the others.
LEMMA Selected ==
    ASSUME PageTypes, NetTypes, NEW g \in File, Select(g)
    PROVE  /\ selects + 1 \in Attempt /\ selects' = selects + 1
           /\ attempt' \in [Attempt -> Try]
           /\ \A a \in Attempt : a # selects + 1 => attempt'[a] = Cancelled[a]
           /\ attempt'[selects + 1].file = g /\ ~attempt'[selects + 1].cancelled
           /\ attempt'[selects + 1].stage = IF Connected THEN "joining" ELSE "connecting"
           /\ attempt'[selects + 1].sock = IF Connected THEN sock ELSE 0
           /\ selects > 0 => attempt[selects].cancelled \/ attempt[selects].file # g
           /\ strays' = IF \E b \in Attempt : Pending(b) /\ attempt[b].file = g
                        THEN strays \cup {g} ELSE strays
           /\ strays \subseteq strays' /\ strays' \subseteq File
           /\ UNCHANGED <<watch, watches, mounted, edits, drops, refused, upset,
                          unjoined>>
<1>1. Cancelled \in [Attempt -> Try] /\ sock \in 0 .. MaxSocket /\ selects \in 0 .. MaxSelect
  BY Tries, Numbers DEF NetTypes, PageTypes
<1>2. selects + 1 \in Attempt /\ selects' = selects + 1
  BY DEF Select
<1> DEFINE new == [file |-> g, stage |-> IF Connected THEN "joining" ELSE "connecting",
                   cancelled |-> FALSE, sock |-> IF Connected THEN sock ELSE 0]
<1>3. attempt' = [Cancelled EXCEPT ![selects + 1] = new]
  BY DEF Select
<1>4. new \in Try
  BY <1>1, Numbers DEF Try, Stage
<1>5. /\ attempt' \in [Attempt -> Try]
      /\ \A a \in Attempt : a # selects + 1 => attempt'[a] = Cancelled[a]
      /\ attempt'[selects + 1] = new
  BY <1>1, <1>2, <1>3, <1>4
<1>6. /\ selects > 0 => attempt[selects].cancelled \/ attempt[selects].file # g
      /\ strays' = IF \E b \in Attempt : Pending(b) /\ attempt[b].file = g
                   THEN strays \cup {g} ELSE strays
      /\ UNCHANGED <<watch, watches, mounted, edits, drops, refused, upset,
                     unjoined>>
  BY DEF Select
<1>7. strays \subseteq strays' /\ strays' \subseteq File
  BY <1>6 DEF PageTypes
<1> QED
  BY <1>2, <1>5, <1>6, <1>7

\* Selecting a file keeps the types, the links and the attempts.
LEMMA SelectBasic ==
    ASSUME Types, Links, Attempts, Distinct, NEW g \in File, Select(g)
    PROVE  Types' /\ Links' /\ Attempts' /\ Distinct'
<1>0. PageTypes /\ NetTypes
  BY DEF Types
<1>1. PageTypes'
  BY <1>0, Selected, Numbers DEF PageTypes
<1>2. Attempts'
  <2> SUFFICES ASSUME NEW a \in Attempt
               PROVE  /\ a > selects' => attempt'[a].stage = "none"
                      /\ a < selects' => attempt'[a].cancelled
                      /\ attempt'[a].stage = "open" => ~attempt'[a].cancelled
                      /\ attempt'[a].stage # "none" => attempt'[a].file \in File
                      /\ attempt'[a].stage \in {"joining", "open"} => attempt'[a].sock # 0
    BY DEF Attempts
  <2>1. CASE a = selects + 1
    BY <1>0, <2>1, Selected, Numbers DEF Connected
  <2>2. CASE a # selects + 1
    <3>1. attempt'[a] = Cancelled[a] /\ selects' = selects + 1 /\ selects \in Nat /\ a \in Nat
      BY <1>0, <2>2, Selected, Numbers DEF PageTypes
    <3>2. /\ a > selects' => a > selects
          /\ a < selects' => a = selects \/ a < selects
          /\ attempt[a].stage = "open" => a = selects
      BY <2>2, <3>1, Numbers DEF Attempts
    <3> QED
      BY <1>0, <3>1, <3>2, Tries DEF Attempts
  <2> QED
    BY <2>1, <2>2
<1>3. Distinct'
  <2> SUFFICES ASSUME NEW a \in Attempt, NEW b \in Attempt,
                      Live(a)', Live(b)', attempt'[a].file = attempt'[b].file, a # b,
                      attempt'[a].file \notin strays'
               PROVE  FALSE
    BY DEF Distinct
  <2>1. /\ attempt'[a].file \notin strays
        /\ attempt'[a].file = g =>
              \A c \in Attempt : ~(Pending(c) /\ attempt[c].file = g)
    BY <1>0, Selected
  <2>2. ASSUME NEW c \in Attempt, c # selects + 1, Live(c)'
        PROVE  Live(c) /\ attempt[c].stage # "open" /\ attempt'[c].file = attempt[c].file
    <3>1. attempt'[c] = Cancelled[c]
      BY <1>0, <2>2, Selected
    <3>2. attempt[c].stage = "open" => c = selects
      BY <1>0, Numbers DEF Attempts, PageTypes
    <3> QED
      BY <1>0, <2>2, <3>1, <3>2, Tries DEF Live
  <2>3. ASSUME NEW c \in Attempt, c # selects + 1, Live(c)',
               attempt'[c].file = g, attempt'[a].file = g
        PROVE  FALSE
    BY <2>1, <2>2, <2>3 DEF Live, Pending
  <2>4. CASE a # selects + 1 /\ b # selects + 1
    BY <2>1, <2>2, <2>4 DEF Distinct
  <2>5. CASE a = selects + 1 \/ b = selects + 1
    BY <1>0, <2>3, <2>5, Selected
  <2> QED
    BY <2>4, <2>5
<1>4. /\ Connect(IF Connected THEN Emit(LeftOpen, sock, Message("join", g)) ELSE LeftOpen)
      /\ status' \in {"idle", "connecting", "synced", "disconnected", "error"}
  BY <1>0 DEF Select, NetTypes
<1> DEFINE q == IF Connected THEN Emit(LeftOpen, sock, Message("join", g)) ELSE LeftOpen
<1>5. LeftOpen \in Queues /\ sock \in 0 .. MaxSocket /\ Message("join", g) \in ToServer
  BY Leaves, ProjectRoom, Messages, Numbers DEF Types, NetTypes
<1>6. /\ q \in Queues
      /\ \A s \in Socket : link[s] # "up" => q[s] = LeftOpen[s]
  BY <1>5, Emitted DEF Connected
<1>7. \A s \in Socket, f \in File :
         link[s] # "up" /\ Has(q[s], JoinOf(f)) => Has(outbox[s], JoinOf(f))
  BY <1>6, LeavesAskNothing
<1>8. NetTypes' /\ Links'
  BY <1>0, <1>4, <1>6, <1>7, Selected, ConnectNet
<1> QED
  BY <1>1, <1>2, <1>3, <1>8 DEF Types

\* Deselecting keeps the types, the links and the attempts.
LEMMA DeselectBasic ==
    ASSUME Types, Links, Attempts, Distinct, Deselect
    PROVE  Types' /\ Links' /\ Attempts' /\ Distinct'
<1>1. /\ selects > 0 /\ attempt' = Cancelled /\ Connect(LeftOpen) /\ status' = "idle"
      /\ UNCHANGED <<selects, watch, watches, mounted, history>>
  BY DEF Deselect
<1>2. PageTypes /\ NetTypes
  BY DEF Types
<1>3. PageTypes'
  BY <1>1, <1>2, Tries DEF PageTypes, history
<1>4. NetTypes' /\ Links'
  BY <1>1, <1>2, Leaves, LeavesAskNothing, ConnectNet DEF history
<1>6. Attempts' /\ Distinct'
  <2>1. \A a \in Attempt : Live(a)' => Live(a)
    BY <1>1, <1>2, Tries DEF Live
  <2>2. Distinct'
    BY <1>1, <1>2, <2>1, Tries DEF Distinct, history
  <2>3. ASSUME NEW a \in Attempt
        PROVE  /\ a > selects' => attempt'[a].stage = "none"
               /\ a < selects' => attempt'[a].cancelled
               /\ attempt'[a].stage = "open" => ~attempt'[a].cancelled
               /\ attempt'[a].stage # "none" => attempt'[a].file \in File
               /\ attempt'[a].stage \in {"joining", "open"} => attempt'[a].sock # 0
    <3>1. attempt[a].stage = "open" => a = selects
      BY <1>2, Numbers DEF Attempts, PageTypes
    <3> QED
      BY <1>1, <1>2, <3>1, Tries DEF Attempts
  <2> QED
    BY <2>2, <2>3 DEF Attempts
<1> QED
  BY <1>3, <1>4, <1>6 DEF Types

\* The watchers after the cleanup of the hook.
LEMMA Viewers ==
    ASSUME PageTypes
    PROVE  /\ Unwatched \in [Watch -> Viewer]
           /\ \A w \in Watch :
                /\ Unwatched[w].sock = watch[w].sock
                /\ Unwatched[w].stage =
                     IF w = watches /\ watch[w].stage = "active" THEN "done"
                     ELSE watch[w].stage
                /\ Unwatched[w].cancelled = (w = watches \/ watch[w].cancelled)
<1>1. watch \in [Watch -> Viewer] /\ watches \in 0 .. MaxWatch
  BY DEF PageTypes
<1>2. CASE watches = 0
  BY <1>1, <1>2, Numbers DEF Unwatched, Viewer
<1>3. CASE watches # 0
  <2>1. watches \in Watch
    BY <1>1, <1>3, Numbers
  <2> DEFINE x == watch[watches]
  <2>2. x \in Viewer /\ Unwatched = [watch EXCEPT ![watches] =
           [x EXCEPT !.cancelled = TRUE, !.stage = IF @ = "active" THEN "done" ELSE @]]
    BY <1>1, <1>3, <2>1 DEF Unwatched, Viewer
  <2> QED
    BY <1>1, <2>1, <2>2, Zenon DEF Viewer
<1> QED
  BY <1>2, <1>3

\* The outboxes and references after a watcher was released.
LEMMA Releases ==
    ASSUME Types
    PROVE  /\ ReleasedProject \in Queues /\ References \in Nat
           /\ count = 0 => References = 0
           /\ \A t \in Socket :
                \/ ReleasedProject[t] = outbox[t]
                \/ ReleasedProject[t] = Append(outbox[t], Message("leave", Project))
<1>1. /\ outbox \in Queues /\ count \in Nat /\ watch \in [Watch -> Viewer]
      /\ watches \in 0 .. MaxWatch
  BY DEF Types, PageTypes, NetTypes
<1>2. References \in Nat /\ (count = 0 => References = 0)
  BY <1>1 DEF References
<1>3. CASE ReleasedProject = outbox
  BY <1>1, <1>2, <1>3
<1>4. CASE ReleasedProject # outbox
  <2>1. Watching /\ ReleasedProject = Emit(outbox, watch[watches].sock, Message("leave", Project))
    BY <1>4 DEF ReleasedProject
  <2>2. watches \in Watch
    BY <1>1, <2>1, Numbers DEF Watching
  <2>3. watch[watches].sock \in 0 .. MaxSocket /\ Message("leave", Project) \in ToServer
    BY <1>1, <2>2, ProjectRoom, Messages DEF Viewer
  <2>4. ReleasedProject \in Queues
    BY <1>1, <2>1, <2>3, Emitted
  <2>5. \A t \in Socket : ReleasedProject[t] =
           IF t = watch[watches].sock /\ link[t] # "closed"
           THEN Append(outbox[t], Message("leave", Project)) ELSE outbox[t]
    BY <1>1, <2>1, <2>3, Emitted
  <2> QED
    BY <1>2, <2>4, <2>5
<1> QED
  BY <1>3, <1>4

\* Releasing the project asks for no document.
LEMMA ReleasesAskNothing ==
    ASSUME Types, NEW s \in Socket, NEW f \in File,
           Has(ReleasedProject[s], JoinOf(f))
    PROVE  Has(outbox[s], JoinOf(f))
<1>1. /\ Message("leave", Project) \in ToServer
      /\ Message("leave", Project) \notin JoinOf(f)
  BY ProjectRoom, Messages, Kinds
<1>2. outbox[s] \in Seq(ToServer)
  BY DEF Types, NetTypes, Queues
<1> QED
  BY <1>1, <1>2, Releases, AppendHas

\* The watcher that follows, and the three ways it is connected.
LEMMA Rewatched ==
    ASSUME PageTypes, NetTypes, Rewatch
    PROVE  /\ watches + 1 \in Watch /\ watches' = watches + 1
           /\ watch' \in [Watch -> Viewer]
           /\ \A w \in Watch : w # watches + 1 => watch'[w] = Unwatched[w]
           /\ ~watch'[watches + 1].cancelled
           /\ watch'[watches + 1].stage = IF Connected THEN "active" ELSE "connecting"
           /\ watch'[watches + 1].sock = IF Connected THEN sock ELSE 0
           /\ UNCHANGED <<attempt, selects, mounted, edits, drops, refused,
                          upset, strays, unjoined>>
           /\ \/ /\ Connected
                 /\ outbox' = IF References = 0
                              THEN Emit(ReleasedProject, sock, Message("join", Project))
                              ELSE ReleasedProject
                 /\ count' = References + 1
                 /\ UNCHANGED <<sockets, connecting, sock, link, inbox,
                                handling, rooms, status>>
              \/ /\ ~Connected /\ connecting # 0
                 /\ outbox' = ReleasedProject /\ count' = References
                 /\ UNCHANGED <<sockets, connecting, sock, link, inbox,
                                handling, rooms, status>>
              \/ /\ ~Connected /\ connecting = 0 /\ ConnectInternal(ReleasedProject)
                 /\ status' = "connecting"
<1>1. Unwatched \in [Watch -> Viewer] /\ sock \in 0 .. MaxSocket /\ watches \in 0 .. MaxWatch
  BY Viewers, Numbers DEF NetTypes, PageTypes
<1>2. watches + 1 \in Watch /\ watches' = watches + 1
  BY DEF Rewatch
<1> DEFINE new == [sock |-> IF Connected THEN sock ELSE 0, cancelled |-> FALSE,
                   stage |-> IF Connected THEN "active" ELSE "connecting"]
<1>3. watch' = [Unwatched EXCEPT ![watches + 1] = new]
  BY DEF Rewatch
<1>4. new \in Viewer
  BY <1>1, Numbers DEF Viewer
<1>5. /\ watch' \in [Watch -> Viewer]
      /\ \A w \in Watch : w # watches + 1 => watch'[w] = Unwatched[w]
      /\ watch'[watches + 1] = new
  BY <1>1, <1>2, <1>3, <1>4
<1>6. UNCHANGED <<attempt, selects, mounted, edits, drops, refused, upset, strays,
                  unjoined>>
  BY DEF Rewatch, docVars, history
<1>7. \/ /\ Connected
         /\ outbox' = IF References = 0
                      THEN Emit(ReleasedProject, sock, Message("join", Project))
                      ELSE ReleasedProject
         /\ count' = References + 1
         /\ UNCHANGED <<sockets, connecting, sock, link, inbox, handling,
                        rooms, status>>
      \/ /\ ~Connected /\ connecting # 0
         /\ outbox' = ReleasedProject /\ count' = References
         /\ UNCHANGED <<sockets, connecting, sock, link, inbox, handling,
                        rooms, status>>
      \/ /\ ~Connected /\ connecting = 0 /\ ConnectInternal(ReleasedProject)
         /\ status' = "connecting"
  BY DEF Rewatch, serverVars
<1> HIDE DEF new
<1> QED
  BY <1>2, <1>5, <1>6, <1>7 DEF new

\* Watching again keeps the types, the links and the attempts.
LEMMA RewatchBasic ==
    ASSUME Types, Links, Attempts, Distinct, Watches, Rewatch
    PROVE  Types' /\ Links' /\ Attempts' /\ Distinct' /\ Watches'
<1>0. PageTypes /\ NetTypes
  BY DEF Types
<1>1. PageTypes'
  BY <1>0, Rewatched, Numbers DEF PageTypes
<1>2. Attempts' /\ Distinct'
  BY <1>0, Rewatched DEF Attempts, Distinct, Live
<1>3. Watches'
  <2> SUFFICES ASSUME NEW w \in Watch
               PROVE  /\ w < watches' => watch'[w].cancelled
                      /\ w > watches' => watch'[w].stage = "none"
                      /\ watch'[w].stage = "active" => ~watch'[w].cancelled
    BY DEF Watches
  <2>1. CASE w = watches + 1
    BY <1>0, <2>1, Rewatched, Numbers
  <2>2. CASE w # watches + 1
    <3>1. watch'[w] = Unwatched[w] /\ watches' = watches + 1 /\ watches \in Nat /\ w \in Nat
      BY <1>0, <2>2, Rewatched, Numbers DEF PageTypes
    <3>2. /\ w > watches' => w > watches
          /\ w < watches' => w = watches \/ w < watches
          /\ watch[w].stage = "active" => w = watches
      BY <2>2, <3>1, Numbers DEF Watches
    <3> QED
      BY <1>0, <3>1, <3>2, Viewers DEF Watches
  <2> QED
    BY <2>1, <2>2
<1>4. upset \subseteq upset'
  BY <1>0, Rewatched
<1>5. /\ ReleasedProject \in Queues /\ References \in Nat /\ (count = 0 => References = 0)
      /\ sock \in 0 .. MaxSocket /\ Message("join", Project) \in ToServer
  BY <1>0, Releases, ProjectRoom, Messages, Numbers DEF NetTypes
<1>6. Emit(ReleasedProject, sock, Message("join", Project)) \in Queues
  BY <1>5, Emitted
<1>7. CASE UNCHANGED <<sockets, connecting, sock, link, inbox, handling, rooms,
                       status>>
  <2>1. \/ Connected /\ outbox' \in Queues /\ count' = References + 1
        \/ ~Connected /\ outbox' = ReleasedProject /\ count' = References
        \/ ConnectInternal(ReleasedProject) /\ connecting = 0
    BY <1>0, <1>5, <1>6, Rewatched
  <2>2. ~ConnectInternal(ReleasedProject)
    BY <1>0, <1>7 DEF ConnectInternal, NetTypes
  <2>3. outbox' \in Queues /\ count' \in Nat /\ (sock' = 0 => count' = 0)
    BY <1>0, <1>5, <1>7, <2>1, <2>2 DEF Connected, NetTypes
  <2>4. NetTypes'
    BY <1>0, <1>7, <2>3 DEF NetTypes
  <2>5. ASSUME NEW s \in Socket, NEW f \in File, link[s] # "up",
               Has(outbox'[s], JoinOf(f))
        PROVE  Has(outbox[s], JoinOf(f))
    <3>1. Connected => s # sock
      BY <2>5 DEF Connected
    <3>2. outbox'[s] = ReleasedProject[s]
      BY <1>0, <1>5, <2>2, <3>1, Rewatched, Emitted
    <3> QED
      BY <2>5, <3>2, ReleasesAskNothing
  <2>6. \A s \in Socket : link'[s] # "up" => Idle(s)'
    BY <1>7, <2>5 DEF Links, Idle
  <2> QED
    BY <1>1, <1>2, <1>3, <1>4, <1>7, <2>4, <2>6 DEF Links, Types
<1>8. CASE ConnectInternal(ReleasedProject) /\ status' = "connecting"
  BY <1>0, <1>1, <1>2, <1>3, <1>4, <1>5, <1>8, ReleasesAskNothing,
     AnewNet DEF Types
<1> QED
  BY <1>0, <1>7, <1>8, Rewatched

\* Who waits for the connection, by the stage it is in.
LEMMA Waiting ==
    ASSUME Types, Attempts
    PROVE  /\ WaitingAttempts \subseteq Attempt /\ WaitingWatches \subseteq Watch
           /\ \A a \in WaitingAttempts : attempt[a].file \in File
           /\ \A a \in Attempt : a \in WaitingAttempts <=> attempt[a].stage = "connecting"
           /\ \A w \in Watch : w \in WaitingWatches <=> watch[w].stage = "connecting"
BY DEF WaitingAttempts, WaitingWatches, Attempts

\* The joins of those who waited: one each.
LEMMA JoinsOf ==
    ASSUME Types, Attempts, NEW q \in InOrder(WaitingAttempts)
    PROVE  /\ Joins(q) \in Seq(ToServer)
           /\ \A i \in DOMAIN Joins(q) : \E a \in WaitingAttempts :
                 q[i] = a /\ Joins(q)[i] = Message("join", attempt[a].file)
           /\ \A i, j \in DOMAIN Joins(q) : q[i] = q[j] => i = j
<1>1. WaitingAttempts \subseteq Attempt /\ \A a \in WaitingAttempts : attempt[a].file \in File
  BY Waiting
<1>2. IsFiniteSet(WaitingAttempts) /\ Cardinality(WaitingAttempts) \in Nat
  <2>1. IsFiniteSet(1 .. MaxSelect)
    BY Numbers, FS_Interval
  <2> QED
    BY <1>1, <2>1, FS_Subset, FS_CardinalityType DEF Attempt
<1>3. /\ q \in [1 .. Cardinality(WaitingAttempts) -> WaitingAttempts]
      /\ \A i, j \in DOMAIN q : i < j => q[i] < q[j]
  BY DEF InOrder
<1> DEFINE n == Cardinality(WaitingAttempts)
<1>4. DOMAIN q = 1 .. n /\ n \in Nat
  BY <1>2, <1>3
<1>5. Joins(q) = [i \in 1 .. n |-> Message("join", attempt[q[i]].file)]
  BY <1>4 DEF Joins
<1>6. \A i \in 1 .. n : q[i] \in WaitingAttempts
  BY <1>3
<1>7. \A i \in 1 .. n : Message("join", attempt[q[i]].file) \in ToServer
  BY <1>1, <1>6, ProjectRoom, Messages
<1> HIDE DEF n
<1>8. Joins(q) \in Seq(ToServer) /\ DOMAIN Joins(q) = 1 .. n
  BY <1>4, <1>5, <1>7
<1>9. \A i \in 1 .. n : q[i] \in Nat
  BY <1>1, <1>6, Numbers
<1>10. \A i, j \in 1 .. n : q[i] = q[j] => i = j
  <2> SUFFICES ASSUME NEW i \in 1 .. n, NEW j \in 1 .. n, q[i] = q[j], i # j
               PROVE  FALSE
    OBVIOUS
  <2>1. CASE i < j
    BY <1>3, <1>4, <1>9, <2>1
  <2>2. CASE j < i
    BY <1>3, <1>4, <1>9, <2>2
  <2> QED
    BY <1>4, <2>1, <2>2
<1> QED
  BY <1>5, <1>6, <1>8, <1>10

\* The joins of those who waited are for their files, once for each.
LEMMA JoinsHave ==
    ASSUME Types, Attempts, NEW q \in InOrder(WaitingAttempts), NEW f \in File
    PROVE  /\ Has(Joins(q), JoinOf(f)) =>
                \E a \in WaitingAttempts : attempt[a].file = f
           /\ ~Has(Joins(q), LeaveOf(f)) /\ ~Has(Joins(q), UpdateOf(f))
           /\ ~Has(Joins(q), LeaveOf(Project))
           /\ Distinct /\ f \notin strays => Once(Joins(q), JoinOf(f))
<1>1. \A i \in DOMAIN Joins(q) : \E a \in WaitingAttempts :
         /\ q[i] = a /\ Joins(q)[i] = Message("join", attempt[a].file)
         /\ attempt[a].file \in Room
  BY JoinsOf, Waiting, ProjectRoom
<1>2. f \in Room /\ Project \in Room
  BY ProjectRoom
<1>3. \A a \in WaitingAttempts :
         /\ attempt[a].file \in Room =>
              /\ Message("join", attempt[a].file) \notin LeaveOf(f)
              /\ Message("join", attempt[a].file) \notin UpdateOf(f)
              /\ Message("join", attempt[a].file) \notin LeaveOf(Project)
              /\ Message("join", attempt[a].file) \in JoinOf(f) => attempt[a].file = f
  BY <1>2, Kinds
<1>4. ASSUME Distinct, f \notin strays, NEW i \in DOMAIN Joins(q),
             NEW j \in DOMAIN Joins(q),
             Joins(q)[i] \in JoinOf(f), Joins(q)[j] \in JoinOf(f)
      PROVE  i = j
  <2>1. q[i] \in WaitingAttempts /\ attempt[q[i]].file = f
    BY <1>1, <1>3, <1>4
  <2>2. q[j] \in WaitingAttempts /\ attempt[q[j]].file = f
    BY <1>1, <1>3, <1>4
  <2>3. q[i] = q[j]
    BY <1>4, <2>1, <2>2, Waiting DEF Distinct, Live
  <2> QED
    BY <2>3, JoinsOf
<1> QED
  BY <1>1, <1>3, <1>4 DEF Has, Once

\* The messages about the project have the type of the outbox.
LEMMA RetainsType == Retains \in Seq(ToServer)
<1>1. Message("join", Project) \in ToServer /\ Message("leave", Project) \in ToServer
  BY ProjectRoom, Messages
<1> DEFINE j == Message("join", Project)  l == Message("leave", Project)
<1>2. Retains = <<>> \/ Retains = <<j>> \/ Retains = <<j, l>>
  BY DEF Retains
<1> HIDE DEF j, l
<1>3. <<>> \in Seq(ToServer) /\ (j \in ToServer => <<j>> \in Seq(ToServer))
  OBVIOUS
<1>4. j \in ToServer /\ l \in ToServer => <<j, l>> \in Seq(ToServer)
  OBVIOUS
<1>5. j \in ToServer /\ l \in ToServer
  BY <1>1 DEF j, l
<1> QED
  BY <1>2, <1>3, <1>4, <1>5

\* They are not about documents.
LEMMA RetainsHave ==
    ASSUME NEW f \in File
    PROVE  /\ Retains \in Seq(ToServer)
           /\ ~Has(Retains, JoinOf(f)) /\ ~Has(Retains, LeaveOf(f)) /\ ~Has(Retains, UpdateOf(f))
<1>1. /\ Message("join", Project) \in ToServer /\ Message("leave", Project) \in ToServer
      /\ Message("join", Project) \notin JoinOf(f) \cup LeaveOf(f) \cup UpdateOf(f)
      /\ Message("leave", Project) \notin JoinOf(f) \cup LeaveOf(f) \cup UpdateOf(f)
  BY ProjectRoom, Messages, Kinds
<1>2. \/ Retains = <<>> \/ Retains = <<Message("join", Project)>>
      \/ Retains = <<Message("join", Project), Message("leave", Project)>>
  BY DEF Retains
<1>3. Retains \in Seq(ToServer)
  BY RetainsType
<1>4. \A i \in DOMAIN Retains :
         Retains[i] = Message("join", Project) \/ Retains[i] = Message("leave", Project)
  BY <1>2
<1> QED
  BY <1>1, <1>3, <1>4 DEF Has

\* The connection that is made, and what its callers send.
LEMMA ConnectedNow ==
    ASSUME Types, Links, Attempts, ConnectOk
    PROVE  /\ connecting \in Socket /\ sock = 0 /\ link[connecting] = "opening"
           /\ sock' = connecting /\ connecting' = 0
           /\ link' \in [Socket -> {"none", "opening", "up", "down", "closed"}]
           /\ \A s \in Socket : link'[s] = IF s = connecting THEN "up" ELSE link[s]
           /\ outbox' \in Queues
           /\ \A s \in Socket : s # connecting => outbox'[s] = outbox[s]
           /\ \E q \in InOrder(WaitingAttempts) : outbox'[connecting] = Retains \o Joins(q)
           /\ count = 0 /\ count' \in Nat
           /\ count' = Cardinality({w \in WaitingWatches : ~watch[w].cancelled})
           /\ watch' \in [Watch -> Viewer] /\ attempt' \in [Attempt -> Try]
           /\ \A w \in Watch :
                /\ watch'[w].cancelled = watch[w].cancelled
                /\ w \notin WaitingWatches => watch'[w] = watch[w]
                /\ w \in WaitingWatches =>
                     /\ watch'[w].sock = connecting
                     /\ watch'[w].stage = IF watch[w].cancelled THEN "done" ELSE "active"
           /\ \A a \in Attempt :
                /\ attempt'[a].cancelled = attempt[a].cancelled
                /\ attempt'[a].file = attempt[a].file
                /\ a \notin WaitingAttempts => attempt'[a] = attempt[a]
                /\ a \in WaitingAttempts =>
                     attempt'[a].sock = connecting /\ attempt'[a].stage = "joining"
           /\ UNCHANGED <<selects, watches, sockets, mounted, inbox, handling,
                          rooms, edits, drops,
                          refused, upset, strays, unjoined>>
<1>0. PageTypes /\ NetTypes
  BY DEF Types
<1>a. connecting # 0 /\ connecting \in 0 .. sockets /\ sockets \in 0 .. MaxSocket
  BY <1>0 DEF NetTypes, ConnectOk
<1>b. connecting \in Socket
  BY <1>a, Numbers
<1>1. connecting \in Socket /\ sock = 0 /\ link[connecting] = "opening" /\ count = 0
  BY <1>0, <1>a, <1>b DEF NetTypes, Links
<1>2. /\ sock' = connecting /\ connecting' = 0
      /\ link' = [link EXCEPT ![connecting] = "up"]
      /\ \E q \in InOrder(WaitingAttempts) :
            outbox' = [outbox EXCEPT ![connecting] = Retains \o Joins(q)]
      /\ count' = count + Cardinality({w \in WaitingWatches : ~watch[w].cancelled})
      /\ watch' = [w \in Watch |->
                  IF w \notin WaitingWatches THEN watch[w]
                  ELSE [watch[w] EXCEPT !.sock = connecting,
                          !.stage = IF watch[w].cancelled THEN "done" ELSE "active"]]
      /\ attempt' = [a \in Attempt |->
                    IF a \notin WaitingAttempts THEN attempt[a]
                    ELSE [attempt[a] EXCEPT !.sock = connecting, !.stage = "joining"]]
      /\ UNCHANGED <<selects, watches, sockets, mounted, inbox, handling,
                     rooms, edits, drops,
                     refused, upset, strays, unjoined>>
  BY DEF ConnectOk, history, serverVars
<1>3. /\ link' \in [Socket -> {"none", "opening", "up", "down", "closed"}]
      /\ \A s \in Socket : link'[s] = IF s = connecting THEN "up" ELSE link[s]
  BY <1>0, <1>1, <1>2 DEF NetTypes
<1>4. PICK q \in InOrder(WaitingAttempts) :
         outbox' = [outbox EXCEPT ![connecting] = Retains \o Joins(q)]
  BY <1>2
<1>5. Retains \o Joins(q) \in Seq(ToServer)
  BY RetainsType, JoinsOf, Joined
<1>6. /\ outbox' \in Queues /\ outbox'[connecting] = Retains \o Joins(q)
      /\ \A s \in Socket : s # connecting => outbox'[s] = outbox[s]
  BY <1>0, <1>1, <1>4, <1>5 DEF NetTypes, Queues
<1>7. IsFiniteSet({w \in WaitingWatches : ~watch[w].cancelled})
  <2>1. IsFiniteSet(1 .. MaxWatch)
    BY Numbers, FS_Interval
  <2>2. {w \in WaitingWatches : ~watch[w].cancelled} \subseteq 1 .. MaxWatch
    BY Waiting DEF Watch
  <2> QED
    BY <2>1, <2>2, FS_Subset
<1>8. /\ Cardinality({w \in WaitingWatches : ~watch[w].cancelled}) \in Nat
      /\ count' = Cardinality({w \in WaitingWatches : ~watch[w].cancelled})
  <2> DEFINE live == {w \in WaitingWatches : ~watch[w].cancelled}
  <2>1. Cardinality(live) \in Nat
    BY <1>7, FS_CardinalityType
  <2>2. count' = count + Cardinality(live)
    BY <1>2
  <2> HIDE DEF live
  <2>3. count' = Cardinality(live)
    BY <1>1, <2>1, <2>2
  <2> QED
    BY <2>1, <2>3 DEF live
<1>9. connecting \in 0 .. MaxSocket
  BY <1>1, Numbers
<1>10. /\ watch' \in [Watch -> Viewer]
       /\ \A w \in Watch :
                /\ watch'[w].cancelled = watch[w].cancelled
                /\ w \notin WaitingWatches => watch'[w] = watch[w]
                /\ w \in WaitingWatches =>
                     /\ watch'[w].sock = connecting
                     /\ watch'[w].stage = IF watch[w].cancelled THEN "done" ELSE "active"
  BY <1>0, <1>2, <1>9 DEF PageTypes, Viewer
<1>11. /\ attempt' \in [Attempt -> Try]
       /\ \A a \in Attempt :
                /\ attempt'[a].cancelled = attempt[a].cancelled
                /\ attempt'[a].file = attempt[a].file
                /\ a \notin WaitingAttempts => attempt'[a] = attempt[a]
                /\ a \in WaitingAttempts =>
                     attempt'[a].sock = connecting /\ attempt'[a].stage = "joining"
  BY <1>0, <1>2, <1>9 DEF PageTypes, Try, Stage
<1> QED
  BY <1>1, <1>2, <1>3, <1>6, <1>8, <1>10, <1>11

\* A connection that is made keeps the types, the links and the attempts.
LEMMA ConnectOkBasic ==
    ASSUME Types, Links, Attempts, Distinct, Watches, ConnectOk
    PROVE  Types' /\ Links' /\ Attempts' /\ Distinct' /\ Watches'
<1>0. PageTypes /\ NetTypes
  BY DEF Types
<1>1. PageTypes'
  BY <1>0, ConnectedNow DEF PageTypes
<1>2. status' \in {"synced", "connecting"}
  BY DEF ConnectOk
<1>3. connecting \in 0 .. sockets /\ connecting # 0
  BY DEF ConnectOk, Types, NetTypes
<1>4. NetTypes'
  BY <1>0, <1>2, <1>3, ConnectedNow DEF NetTypes
<1>5. Links'
  <2>1. \A s \in Socket : link'[s] # "up" => Idle(s)'
    BY ConnectedNow DEF Links, Idle
  <2>2. /\ \A s \in Socket : link'[s] \in {"up", "down"} => s = sock'
        /\ \A s \in Socket : s > sockets' => link'[s] = "none"
        /\ sock' # 0 => link'[sock'] \in {"up", "down"}
        /\ connecting' = 0
        /\ "drop" \notin upset' => \A s \in Socket : link'[s] # "down"
    <3>1. \A s \in Socket : s # 0 /\ link[s] \notin {"up", "down"}
      BY ConnectedNow, Numbers DEF Links
    <3>2. /\ sock' = connecting /\ connecting' = 0 /\ sockets' = sockets
          /\ connecting \in Socket /\ link[connecting] = "opening"
          /\ \A s \in Socket : link'[s] = IF s = connecting THEN "up" ELSE link[s]
      BY ConnectedNow
    <3> QED
      BY <3>1, <3>2 DEF Links
  <2> QED
    BY <2>1, <2>2 DEF Links
<1>6. Attempts'
  BY <1>3, ConnectedNow, Waiting DEF Attempts
<1>7. Distinct'
  BY ConnectedNow, Waiting DEF Distinct, Live
<1>8. Watches'
  BY ConnectedNow, Waiting DEF Watches
<1> QED
  BY <1>1, <1>4, <1>5, <1>6, <1>7, <1>8 DEF Types

\* Attempts that end, or go on to be open, and nothing else.
LEMMA Ending ==
    ASSUME PageTypes, Attempts, Distinct, attempt' \in [Attempt -> Try],
           strays \subseteq strays', UNCHANGED selects,
           \A a \in Attempt :
              /\ attempt'[a].file = attempt[a].file /\ attempt'[a].sock = attempt[a].sock
              /\ attempt'[a].cancelled = attempt[a].cancelled
              /\ attempt'[a].stage # attempt[a].stage =>
                   /\ attempt[a].stage \in {"connecting", "joining"}
                   /\ \/ attempt'[a].stage = "done"
                      \/ /\ attempt'[a].stage = "open" /\ ~attempt[a].cancelled
                         /\ attempt[a].stage = "joining"
    PROVE  Attempts' /\ Distinct'
<1>1. Attempts'
  BY DEF Attempts
<1>2. \A a \in Attempt : Live(a)' => Live(a)
  BY DEF Live
<1>3. Distinct'
  BY <1>2 DEF Distinct
<1> QED
  BY <1>1, <1>3

\* A connection that fails: every caller that waited is done.
LEMMA ConnectFailsBasic ==
    ASSUME Types, Links, Attempts, Distinct, Watches, ConnectFails
    PROVE  /\ Types' /\ Links' /\ Attempts' /\ Distinct' /\ Watches'
           /\ connecting # 0 /\ connecting \in Socket /\ sock = 0
           /\ \A s \in Socket : link'[s] = IF s = connecting THEN "closed" ELSE link[s]
           /\ UNCHANGED <<selects, watches, count, sock, outbox, inbox,
                          handling, rooms, refused, strays, unjoined>>
           /\ upset' = upset \cup {"refusal"}
           /\ \A w \in Watch : watch'[w].stage = "active" => watch[w].stage = "active"
           /\ \A a \in Attempt :
                /\ attempt'[a].file = attempt[a].file /\ attempt'[a].sock = attempt[a].sock
                /\ attempt'[a].cancelled = attempt[a].cancelled
                /\ attempt'[a].stage = IF attempt[a].stage = "connecting" THEN "done"
                                       ELSE attempt[a].stage
<1>0. PageTypes /\ NetTypes
  BY DEF Types
<1>1. /\ connecting # 0 /\ connecting' = 0
      /\ link' = [link EXCEPT ![connecting] = "closed"]
      /\ watch' = [w \in Watch |-> IF w \in WaitingWatches
                                 THEN [watch[w] EXCEPT !.stage = "done"] ELSE watch[w]]
      /\ attempt' = [a \in Attempt |-> IF a \in WaitingAttempts
                                     THEN [attempt[a] EXCEPT !.stage = "done"] ELSE attempt[a]]
      /\ status' = "error"
      /\ upset' = upset \cup {"refusal"}
      /\ UNCHANGED <<selects, watches, count, sock, sockets, mounted, outbox,
                     inbox,
                   handling, rooms, edits, drops, refused, strays, unjoined>>
  BY DEF ConnectFails, serverVars
<1>2. connecting \in Socket /\ sock = 0 /\ link[connecting] = "opening"
  BY <1>0, <1>1, Numbers DEF NetTypes, Links
<1>3. /\ attempt' \in [Attempt -> Try]
      /\ \A a \in Attempt :
                /\ attempt'[a].file = attempt[a].file /\ attempt'[a].sock = attempt[a].sock
                /\ attempt'[a].cancelled = attempt[a].cancelled
                /\ attempt'[a].stage = IF attempt[a].stage = "connecting" THEN "done"
                                       ELSE attempt[a].stage
  BY <1>0, <1>1, Waiting DEF PageTypes, Try, Stage
<1>4. /\ watch' \in [Watch -> Viewer]
      /\ \A w \in Watch :
                /\ watch'[w].cancelled = watch[w].cancelled
                /\ watch'[w].stage = IF watch[w].stage = "connecting" THEN "done"
                                       ELSE watch[w].stage
  BY <1>0, <1>1, Waiting DEF PageTypes, Viewer
<1>5. /\ link' \in [Socket -> {"none", "opening", "up", "down", "closed"}]
      /\ \A s \in Socket : link'[s] = IF s = connecting THEN "closed" ELSE link[s]
  BY <1>0, <1>1, <1>2 DEF NetTypes
<1>6. Types'
  BY <1>0, <1>1, <1>3, <1>4, <1>5 DEF Types, PageTypes, NetTypes, Upsets
<1>7. \A s \in Socket : link'[s] # "up" => Idle(s)'
  BY <1>1, <1>2, <1>5 DEF Links, Idle
<1>8. /\ \A s \in Socket : link'[s] \in {"up", "down"} => s = sock'
      /\ \A s \in Socket : s > sockets' => link'[s] = "none"
      /\ sock' = 0 /\ connecting' = 0
      /\ "drop" \notin upset' => \A s \in Socket : link'[s] # "down"
  <2>1. connecting \in 0 .. sockets
    BY <1>0 DEF NetTypes
  <2>2. ~(connecting > sockets)
    BY <2>1, <1>0, Numbers DEF NetTypes
  <2> QED
    BY <1>1, <1>2, <1>5, <2>2 DEF Links
<1>9. Links'
  BY <1>7, <1>8 DEF Links
<1>10. Attempts' /\ Distinct'
  BY <1>0, <1>1, <1>3, Ending
<1>11. Watches'
  BY <1>1, <1>4 DEF Watches
<1> QED
  BY <1>1, <1>2, <1>3, <1>4, <1>5, <1>6, <1>9, <1>10, <1>11

\* A connection that is lost: the server forgets it, the attempts stay.
LEMMA LoseBasic ==
    ASSUME Types, Links, Attempts, Distinct, Watches, Lose
    PROVE  /\ Types' /\ Links' /\ Attempts' /\ Distinct' /\ Watches'
           /\ \A s \in Socket :
                IF s = sock
                THEN /\ outbox'[s] = <<>> /\ inbox'[s] = <<>> /\ rooms'[s] = {}
                     /\ \A r \in Room : handling'[s][r] = 0
                ELSE UNCHANGED <<outbox[s], inbox[s], rooms[s], handling[s]>>
           /\ UNCHANGED <<attempt, watch, watches, count, sock, strays>>
           /\ "drop" \in upset' /\ watches \in unjoined'
<1>0. PageTypes /\ NetTypes
  BY DEF Types
<1>1. /\ sock # 0 /\ link[sock] = "up"
      /\ link' = [link EXCEPT ![sock] = "down"]
      /\ outbox' = [outbox EXCEPT ![sock] = <<>>]
      /\ Forget(sock)
      /\ status' = "disconnected"
      /\ drops' = drops + 1 /\ upset' = upset \cup {"drop"}
      /\ unjoined' = unjoined \cup {watches}
      /\ UNCHANGED <<attempt, selects, watch, watches, count, sock, sockets,
                     connecting, mounted,
                     edits, refused, strays>>
  BY DEF Lose, Connected, docVars, watchVars, clientVars
<1>a. sock # 0
  BY <1>1
<1>2. sock \in Socket
  BY <1>0, <1>a, Numbers DEF NetTypes
<1>3. /\ link' \in [Socket -> {"none", "opening", "up", "down", "closed"}]
      /\ \A s \in Socket : link'[s] = IF s = sock THEN "down" ELSE link[s]
  BY <1>0, <1>1, <1>2 DEF NetTypes
<1>4. /\ outbox' \in Queues
      /\ \A s \in Socket : outbox'[s] = IF s = sock THEN <<>> ELSE outbox[s]
  BY <1>0, <1>1, <1>2 DEF NetTypes, Queues
<1>5. Types'
  <2>1. PageTypes'
    BY <1>0, <1>1 DEF PageTypes, Upsets
  <2>2. NetTypes'
    BY <1>0, <1>1, <1>2, <1>3, <1>4, Forgotten DEF NetTypes
  <2> QED
    BY <2>1, <2>2 DEF Types
<1>6. \A s \in Socket :
                IF s = sock
                THEN /\ outbox'[s] = <<>> /\ inbox'[s] = <<>> /\ rooms'[s] = {}
                     /\ \A r \in Room : handling'[s][r] = 0
                ELSE UNCHANGED <<outbox[s], inbox[s], rooms[s], handling[s]>>
  BY <1>0, <1>1, <1>2, <1>4, Forgotten
<1>7. \A s \in Socket : link'[s] # "up" => Idle(s)'
  BY <1>3, <1>6, Nothing DEF Links, Idle
<1>8. Links'
  <2>1. ~(sock > sockets) /\ sock # 0
    BY <1>0, <1>1, Numbers DEF NetTypes
  <2> QED
    BY <1>1, <1>2, <1>3, <1>7, <2>1 DEF Links
<1>9. Attempts' /\ Distinct' /\ Watches'
  BY <1>1 DEF Attempts, Distinct, Live, Watches
<1> QED
  BY <1>1, <1>5, <1>6, <1>8, <1>9

\* The connection is up again, and nothing else changes.
LEMMA ReconnectBasic ==
    ASSUME Types, Links, Attempts, Distinct, Watches, Reconnect
    PROVE  /\ Types' /\ Links' /\ Attempts' /\ Distinct' /\ Watches'
           /\ \A s \in Socket : link'[s] = IF s = sock THEN "up" ELSE link[s]
           /\ UNCHANGED <<docVars, watchVars, clientVars, outbox, inbox,
                          serverVars, history>>
<1>0. PageTypes /\ NetTypes
  BY DEF Types
<1>1. /\ sock # 0 /\ link[sock] = "down"
      /\ link' = [link EXCEPT ![sock] = "up"] /\ status' = "synced"
      /\ UNCHANGED <<docVars, watchVars, clientVars, outbox, inbox, serverVars,
                     history>>
  BY DEF Reconnect
<1>a. sock \in 0 .. sockets /\ sockets \in 0 .. MaxSocket /\ sock # 0
  BY <1>0, <1>1 DEF NetTypes
<1>2. sock \in Socket
  BY <1>a, Numbers
<1>3. /\ link' \in [Socket -> {"none", "opening", "up", "down", "closed"}]
      /\ \A s \in Socket : link'[s] = IF s = sock THEN "up" ELSE link[s]
  BY <1>0, <1>1, <1>2 DEF NetTypes
<1>4. Types'
  BY <1>0, <1>1, <1>3 DEF Types, PageTypes, NetTypes, docVars, watchVars,
                          clientVars, serverVars,
     history
<1>5. \A s \in Socket : link'[s] # "up" => Idle(s)'
  BY <1>1, <1>3 DEF Links, Idle, serverVars
<1>6. Links'
  <2>1. ~(sock > sockets) /\ sock # 0
    BY <1>0, <1>1, Numbers DEF NetTypes
  <2> QED
    BY <1>1, <1>2, <1>3, <1>5, <2>1 DEF Links, clientVars, history
<1>7. Attempts' /\ Distinct' /\ Watches'
  BY <1>1 DEF Attempts, Distinct, Live, Watches, docVars, watchVars, history
<1> QED
  BY <1>1, <1>3, <1>4, <1>6, <1>7

\* The server takes a message: a join, a leave or an update.
LEMMA TakeBasic ==
    ASSUME Types, Links, Attempts, Distinct, Watches, NEW s \in Socket, Take(s)
    PROVE  /\ Types' /\ Links' /\ Attempts' /\ Distinct' /\ Watches'
           /\ link[s] = "up" /\ outbox[s] # <<>> /\ outbox[s] \in Seq(ToServer)
           /\ Head(outbox[s]) \in ToServer
           /\ \A t \in Socket : outbox'[t] = IF t = s THEN Tail(outbox[s]) ELSE outbox[t]
           /\ \A t \in Socket : t # s => UNCHANGED <<inbox[t], handling[t],
                                                     rooms[t]>>
           /\ UNCHANGED <<docVars, watchVars, clientVars, status, link, edits,
                          drops, upset, strays, unjoined>>
           /\ LET m == Head(outbox[s])
              IN  \/ /\ m.kind = "join"
                     /\ \A r \in Room : handling'[s][r] = IF r = m.room THEN handling[s][r] + 1
                                                          ELSE handling[s][r]
                     /\ UNCHANGED <<rooms, inbox, refused>>
                  \/ /\ m.kind = "leave"
                     /\ rooms'[s] = rooms[s] \ {m.room}
                     /\ UNCHANGED <<handling, inbox, refused>>
                  \/ /\ m.kind = "update" /\ m.room \in rooms[s]
                     /\ UNCHANGED <<handling, rooms, inbox, refused>>
                  \/ /\ m.kind = "update" /\ m.room \notin rooms[s]
                     /\ refused' = refused \cup {m.room}
                     /\ inbox'[s] = Append(inbox[s], Message("outside", m.room))
                     /\ UNCHANGED <<handling, rooms>>
<1>0. PageTypes /\ NetTypes
  BY DEF Types
<1> DEFINE m == Head(outbox[s])
<1>1. /\ link[s] = "up" /\ outbox[s] # <<>>
      /\ outbox' = [outbox EXCEPT ![s] = Tail(@)]
      /\ TakeJoin(s, m) \/ TakeLeave(s, m) \/ TakeUpdate(s, m)
      /\ UNCHANGED <<docVars, watchVars, clientVars, status, link, edits,
                     drops, upset, strays, unjoined>>
  BY DEF Take
<1>2. outbox[s] \in Seq(ToServer) /\ outbox \in Queues
  BY <1>0 DEF NetTypes, Queues
<1>3. m \in ToServer /\ Tail(outbox[s]) \in Seq(ToServer)
  BY <1>1, <1>2
<1> HIDE DEF m
<1>4. /\ outbox' \in Queues
      /\ \A t \in Socket : outbox'[t] = IF t = s THEN Tail(outbox[s]) ELSE outbox[t]
  BY <1>1, <1>2, <1>3 DEF Queues
<1>5. m.room \in Room /\ (m.kind = "update" => m.room \in File)
  BY <1>3 DEF ToServer
<1>6. /\ inbox \in [Socket -> Seq(ToClient)] /\ handling \in [Socket -> [Room -> Nat]]
      /\ rooms \in [Socket -> SUBSET Room] /\ refused \subseteq File
  BY <1>0 DEF PageTypes, NetTypes
<1>7. /\ inbox' \in [Socket -> Seq(ToClient)] /\ handling' \in [Socket -> [Room -> Nat]]
      /\ rooms' \in [Socket -> SUBSET Room] /\ refused' \subseteq File
      /\ \A t \in Socket : t # s => UNCHANGED <<inbox[t], handling[t],
                                                rooms[t]>>
      /\ \/ /\ m.kind = "join"
            /\ \A r \in Room : handling'[s][r] = IF r = m.room THEN handling[s][r] + 1
                                                 ELSE handling[s][r]
            /\ UNCHANGED <<rooms, inbox, refused>>
         \/ /\ m.kind = "leave"
            /\ rooms'[s] = rooms[s] \ {m.room}
            /\ UNCHANGED <<handling, inbox, refused>>
         \/ /\ m.kind = "update" /\ m.room \in rooms[s]
            /\ UNCHANGED <<handling, rooms, inbox, refused>>
         \/ /\ m.kind = "update" /\ m.room \notin rooms[s]
            /\ refused' = refused \cup {m.room}
            /\ inbox'[s] = Append(inbox[s], Message("outside", m.room))
            /\ UNCHANGED <<handling, rooms>>
  <2>1. CASE TakeJoin(s, m)
    BY <1>5, <1>6, <2>1 DEF TakeJoin
  <2>2. CASE TakeLeave(s, m)
    BY <1>5, <1>6, <2>2 DEF TakeLeave
  <2>3. CASE TakeUpdate(s, m)
    <3>1. CASE m.room \in rooms[s]
      BY <1>6, <2>3, <3>1 DEF TakeUpdate
    <3>2. CASE m.room \notin rooms[s]
      <4>1. Message("outside", m.room) \in ToClient
        BY <1>5, Messages
      <4>2. /\ m.kind = "update" /\ refused' = refused \cup {m.room}
            /\ UNCHANGED <<handling, rooms>>
            /\ inbox' = [inbox EXCEPT ![s] = Append(@, Message("outside", m.room))]
        BY <2>3, <3>2 DEF TakeUpdate
      <4>3. /\ inbox' \in [Socket -> Seq(ToClient)]
            /\ inbox'[s] = Append(inbox[s], Message("outside", m.room))
            /\ \A t \in Socket : t # s => inbox'[t] = inbox[t]
        BY <1>6, <4>1, <4>2
      <4> QED
        BY <1>5, <1>6, <3>2, <4>2, <4>3
    <3> QED
      BY <3>1, <3>2
  <2> QED
    BY <1>1, <2>1, <2>2, <2>3
<1>8. Types'
  BY <1>0, <1>1, <1>4, <1>7 DEF Types, PageTypes, NetTypes, docVars, watchVars,
                                clientVars
<1>9. Links'
  <2>1. \A t \in Socket : t # s => UNCHANGED <<inbox[t], handling[t], rooms[t],
                                               outbox[t], link[t]>>
    BY <1>1, <1>4, <1>7
  <2>2. \A t \in Socket : link'[t] # "up" => t # s /\ link[t] # "up"
    BY <1>1
  <2>3. \A t \in Socket : link'[t] # "up" => Idle(t)'
    BY <2>1, <2>2 DEF Links, Idle
  <2> QED
    BY <1>1, <2>3 DEF Links, clientVars
<1>10. Attempts' /\ Distinct' /\ Watches'
  BY <1>1 DEF Attempts, Distinct, Live, Watches, docVars, watchVars
<1> QED
  BY <1>1, <1>2, <1>3, <1>4, <1>7, <1>8, <1>9, <1>10 DEF m

\* The join of r is done: the room is entered, a document is synced.
LEMMA JoinDoneBasic ==
    ASSUME Types, Links, Attempts, Distinct, Watches,
           NEW s \in Socket, NEW r \in Room, JoinDone(s, r)
    PROVE  /\ Types' /\ Links' /\ Attempts' /\ Distinct' /\ Watches'
           /\ handling[s][r] > 0
           /\ handling'[s][r] = handling[s][r] - 1 /\ rooms'[s] = rooms[s] \cup {r}
           /\ \A t \in Room : t # r => handling'[s][t] = handling[s][t]
           /\ inbox'[s] = IF r = Project THEN inbox[s] ELSE Append(inbox[s], Message("sync", r))
           /\ \A t \in Socket : t # s => UNCHANGED <<inbox[t], handling[t],
                                                     rooms[t]>>
           /\ UNCHANGED <<docVars, watchVars, clientVars, status, link, outbox,
                          history>>
<1>0. PageTypes /\ NetTypes
  BY DEF Types
<1>1. /\ handling[s][r] > 0
      /\ handling' = [handling EXCEPT ![s][r] = @ - 1]
      /\ rooms' = [rooms EXCEPT ![s] = @ \cup {r}]
      /\ inbox' = IF r = Project THEN inbox
                ELSE [inbox EXCEPT ![s] = Append(@, Message("sync", r))]
      /\ UNCHANGED <<docVars, watchVars, clientVars, status, link, outbox,
                     history>>
  BY DEF JoinDone
<1>2. /\ inbox \in [Socket -> Seq(ToClient)] /\ handling \in [Socket -> [Room -> Nat]]
      /\ rooms \in [Socket -> SUBSET Room]
  BY <1>0 DEF NetTypes
<1>3. Message("sync", r) \in ToClient
  BY Messages
<1>4. /\ inbox' \in [Socket -> Seq(ToClient)]
      /\ inbox'[s] = IF r = Project THEN inbox[s] ELSE Append(inbox[s], Message("sync", r))
      /\ \A t \in Socket : t # s => inbox'[t] = inbox[t]
  BY <1>1, <1>2, <1>3
<1>5. /\ handling' \in [Socket -> [Room -> Nat]]
      /\ handling'[s][r] = handling[s][r] - 1
      /\ \A t \in Room : t # r => handling'[s][t] = handling[s][t]
      /\ \A t \in Socket : t # s => handling'[t] = handling[t]
  BY <1>1, <1>2
<1>6. /\ rooms' \in [Socket -> SUBSET Room] /\ rooms'[s] = rooms[s] \cup {r}
      /\ \A t \in Socket : t # s => rooms'[t] = rooms[t]
  BY <1>1, <1>2
<1>7. Types'
  BY <1>0, <1>1, <1>4, <1>5, <1>6 DEF Types, PageTypes, NetTypes, docVars,
                                      watchVars, clientVars,
     history
<1>8. Links'
  <2>1. link[s] = "up"
    BY <1>1 DEF Links, Idle
  <2>2. \A t \in Socket : link'[t] # "up" => Idle(t)'
    BY <1>1, <1>4, <1>5, <1>6, <2>1 DEF Links, Idle
  <2> QED
    BY <1>1, <2>2 DEF Links, clientVars, history
<1>9. Attempts' /\ Distinct' /\ Watches'
  BY <1>1 DEF Attempts, Distinct, Live, Watches, docVars, watchVars, history
<1> QED
  BY <1>1, <1>4, <1>5, <1>6, <1>7, <1>8, <1>9

\* The join of r is refused, and the client is told.
LEMMA JoinRefusedBasic ==
    ASSUME Types, Links, Attempts, Distinct, Watches,
           NEW s \in Socket, NEW r \in Room, JoinRefused(s, r)
    PROVE  /\ Types' /\ Links' /\ Attempts' /\ Distinct' /\ Watches'
           /\ handling[s][r] > 0
           /\ handling'[s][r] = handling[s][r] - 1
           /\ \A t \in Room : t # r => handling'[s][t] = handling[s][t]
           /\ inbox'[s] = Append(inbox[s], Message("refused", r))
           /\ \A t \in Socket : t # s => UNCHANGED <<inbox[t], handling[t]>>
           /\ upset' = upset \cup {"refusal"}
           /\ unjoined \subseteq unjoined'
           /\ /\ r = Project /\ r \notin rooms[s] /\ handling[s][r] = 1
              /\ watches \notin unjoined'
              => Has(outbox[s], JoinOf(Project))
           /\ UNCHANGED <<docVars, watchVars, clientVars, status, link, outbox,
                          rooms,
                   edits, drops, refused, strays>>
<1>0. PageTypes /\ NetTypes
  BY DEF Types
<1>1. /\ handling[s][r] > 0
      /\ handling' = [handling EXCEPT ![s][r] = @ - 1]
      /\ inbox' = [inbox EXCEPT ![s] = Append(@, Message("refused", r))]
      /\ upset' = upset \cup {"refusal"}
      /\ unjoined' = IF /\ r = Project /\ r \notin rooms[s] /\ handling[s][r] = 1
                        /\ ~Contains(outbox[s], Message("join", r))
                     THEN unjoined \cup {watches} ELSE unjoined
      /\ UNCHANGED <<docVars, watchVars, clientVars, status, link, outbox,
                     rooms,
                   edits, drops, refused, strays>>
  BY DEF JoinRefused
<1>2. inbox \in [Socket -> Seq(ToClient)] /\ handling \in [Socket -> [Room -> Nat]]
  BY <1>0 DEF NetTypes
<1>3. Message("refused", r) \in ToClient
  BY Messages
<1>4. /\ inbox' \in [Socket -> Seq(ToClient)]
      /\ inbox'[s] = Append(inbox[s], Message("refused", r))
      /\ \A t \in Socket : t # s => inbox'[t] = inbox[t]
  BY <1>1, <1>2, <1>3
<1>5. /\ handling' \in [Socket -> [Room -> Nat]]
      /\ handling'[s][r] = handling[s][r] - 1
      /\ \A t \in Room : t # r => handling'[s][t] = handling[s][t]
      /\ \A t \in Socket : t # s => handling'[t] = handling[t]
  BY <1>1, <1>2
<1>6. /\ unjoined \subseteq unjoined' /\ unjoined' \subseteq 0 .. MaxWatch
      /\ /\ r = Project /\ r \notin rooms[s] /\ handling[s][r] = 1
         /\ watches \notin unjoined'
         => Has(outbox[s], JoinOf(Project))
  <2>1. unjoined \subseteq 0 .. MaxWatch /\ watches \in 0 .. MaxWatch
    BY <1>0 DEF PageTypes
  <2>2. Contains(outbox[s], Message("join", Project)) => Has(outbox[s], JoinOf(Project))
    BY DEF Contains, Has, JoinOf
  <2> QED
    BY <1>1, <2>1, <2>2
<1>7. Types'
  BY <1>0, <1>1, <1>4, <1>5, <1>6 DEF Types, PageTypes, NetTypes, docVars, watchVars,
                                clientVars, Upsets
<1>8. Links'
  <2>1. link[s] = "up"
    BY <1>1 DEF Links, Idle
  <2>2. \A t \in Socket : link'[t] # "up" => Idle(t)'
    BY <1>1, <1>4, <1>5, <2>1 DEF Links, Idle
  <2> QED
    BY <1>1, <2>2 DEF Links, clientVars
<1>9. Attempts' /\ Distinct' /\ Watches'
  BY <1>1 DEF Attempts, Distinct, Live, Watches, docVars, watchVars
<1> QED
  BY <1>1, <1>4, <1>5, <1>6, <1>7, <1>8, <1>9

\* A sync is heard: what becomes of attempts, outbox and strays.
LEMMA HeardSync ==
    ASSUME PageTypes, NetTypes, NEW s \in Socket, NEW m \in ToClient,
           HearSync(s, m)
    PROVE  /\ m = Message("sync", m.room) /\ m.room \in Room
           /\ attempt' \in [Attempt -> Try] /\ UNCHANGED strays
           /\ \A a \in Attempt :
                /\ attempt'[a].file = attempt[a].file /\ attempt'[a].sock = attempt[a].sock
                /\ attempt'[a].cancelled = attempt[a].cancelled
                /\ attempt'[a].stage =
                     IF /\ attempt[a].stage = "joining" /\ attempt[a].sock = s
                        /\ attempt[a].file = m.room
                     THEN IF attempt[a].cancelled THEN "done" ELSE "open"
                     ELSE attempt[a].stage
           /\ outbox' \in Queues
           /\ \A t \in Socket : t # s => outbox'[t] = outbox[t]
           /\ \E n \in Nat :
                /\ outbox'[s] = outbox[s] \o [i \in 1 .. n |-> Message("leave", m.room)]
                /\ n = 0 <=> ~ \E a \in Attempt :
                        /\ attempt[a].stage = "joining" /\ attempt[a].sock = s
                        /\ attempt[a].file = m.room /\ attempt[a].cancelled
           /\ status' \in {"synced", status}
<1>1. /\ m.kind = "sync"
      /\ attempt' = [a \in Attempt |->
                    IF a \notin Answered(s, m) THEN attempt[a]
                    ELSE [attempt[a] EXCEPT !.stage =
                            IF attempt[a].cancelled THEN "done" ELSE "open"]]
      /\ outbox' = [outbox EXCEPT ![s] = @ \o
                    [i \in 1 .. Cardinality(Disowned(s, m)) |-> Message("leave", m.room)]]
      /\ UNCHANGED strays
      /\ status' \in {"synced", status}
  BY DEF HearSync
<1>2. m = Message("sync", m.room) /\ m.room \in Room
  BY <1>1 DEF ToClient, Message
<1>3. /\ \A a \in Attempt : a \in Answered(s, m) <=>
            /\ attempt[a].stage = "joining" /\ attempt[a].sock = s /\ attempt[a].file = m.room
      /\ Disowned(s, m) \subseteq Attempt
      /\ \A a \in Attempt : a \in Disowned(s, m) <=> a \in Answered(s, m) /\ attempt[a].cancelled
  BY DEF Answered, Joining, Disowned
<1>4. /\ attempt' \in [Attempt -> Try]
      /\ \A a \in Attempt :
                /\ attempt'[a].file = attempt[a].file /\ attempt'[a].sock = attempt[a].sock
                /\ attempt'[a].cancelled = attempt[a].cancelled
                /\ attempt'[a].stage =
                     IF a \in Answered(s, m)
                     THEN IF attempt[a].cancelled THEN "done" ELSE "open"
                     ELSE attempt[a].stage
  BY <1>1 DEF PageTypes, Try, Stage
<1>b. \A a \in Attempt :
         attempt'[a].stage =
            IF /\ attempt[a].stage = "joining" /\ attempt[a].sock = s
               /\ attempt[a].file = m.room
            THEN IF attempt[a].cancelled THEN "done" ELSE "open"
            ELSE attempt[a].stage
  BY <1>3, <1>4
<1>5. /\ Cardinality(Disowned(s, m)) \in Nat
      /\ Cardinality(Disowned(s, m)) = 0 <=> Disowned(s, m) = {}
  <2>1. IsFiniteSet(1 .. MaxSelect)
    BY Numbers, FS_Interval
  <2>2. IsFiniteSet(Disowned(s, m))
    BY <1>3, <2>1, FS_Subset DEF Attempt
  <2> QED
    BY <2>2, FS_CardinalityType, FS_EmptySet
<1> DEFINE n == Cardinality(Disowned(s, m))  p == [i \in 1 .. n |-> Message("leave", m.room)]
<1>6. p \in Seq(ToServer)
  BY <1>2, <1>5, Messages, Repeats
<1>7. outbox' = [outbox EXCEPT ![s] = @ \o p]
  BY <1>1
<1>8. outbox \in Queues /\ outbox[s] \in Seq(ToServer)
  BY DEF NetTypes, Queues
<1> HIDE DEF p
<1>9. outbox[s] \o p \in Seq(ToServer)
  BY <1>6, <1>8, Joined
<1>10. /\ outbox' \in Queues /\ outbox'[s] = outbox[s] \o p
       /\ \A t \in Socket : t # s => outbox'[t] = outbox[t]
  BY <1>7, <1>8, <1>9 DEF Queues
<1>11. n \in Nat /\ (n = 0 <=> ~ \E a \in Attempt :
                        /\ attempt[a].stage = "joining" /\ attempt[a].sock = s
                        /\ attempt[a].file = m.room /\ attempt[a].cancelled)
  BY <1>3, <1>5
<1> HIDE DEF n
<1>12. \E k \in Nat :
                /\ outbox'[s] = outbox[s] \o [i \in 1 .. k |-> Message("leave", m.room)]
                /\ k = 0 <=> ~ \E a \in Attempt :
                        /\ attempt[a].stage = "joining" /\ attempt[a].sock = s
                        /\ attempt[a].file = m.room /\ attempt[a].cancelled
  BY <1>10, <1>11 DEF p
<1> QED
  BY <1>1, <1>2, <1>4, <1>b, <1>10, <1>12, Zenon

\* An error is heard: who it rejects, and when that is recorded.
LEMMA HeardError ==
    ASSUME PageTypes, NetTypes, Attempts, NEW s \in Socket, NEW m \in ToClient,
           HearError(s, m)
    PROVE  /\ m.room \in Room
           /\ m = Message("refused", m.room) \/ m = Message("outside", m.room)
           /\ attempt' \in [Attempt -> Try]
           /\ strays \subseteq strays' /\ strays' \subseteq File
           /\ \A a \in Attempt :
                /\ attempt'[a].file = attempt[a].file /\ attempt'[a].sock = attempt[a].sock
                /\ attempt'[a].cancelled = attempt[a].cancelled
                /\ \/ attempt'[a].stage = attempt[a].stage
                   \/ /\ attempt[a].stage = "joining" /\ attempt'[a].stage = "done"
                      /\ attempt[a].sock = s
                      /\ \/ attempt[a].file \in strays'
                         \/ attempt[a].file = m.room /\ m = Message("refused", m.room)
           /\ UNCHANGED outbox
           /\ status' \in {"error", status}
<1> DEFINE named == m.kind = "outside"
           rejected == {a \in Joining(s) : named => attempt[a].file = m.room}
<1>1. /\ m.kind \in {"refused", "outside"}
      /\ attempt' = [a \in Attempt |-> IF a \in rejected
                                     THEN [attempt[a] EXCEPT !.stage = "done"]
                                     ELSE attempt[a]]
      /\ strays' = strays \cup
            {attempt[a].file : a \in {b \in rejected : named \/ attempt[b].file # m.room}}
      /\ UNCHANGED outbox
      /\ status' \in {"error", status}
  BY DEF HearError
<1>2. /\ m.room \in Room
      /\ (m.kind = "refused" /\ m = Message("refused", m.room))
            \/ (m.kind = "outside" /\ m = Message("outside", m.room))
  BY <1>1 DEF ToClient, Message
<1>3. \A a \in rejected :
         /\ a \in Attempt /\ attempt[a].stage = "joining" /\ attempt[a].sock = s
         /\ ~named \/ attempt[a].file = m.room
  BY DEF Joining
<1>4. \A a \in rejected : attempt[a].file \in strays' \/ (attempt[a].file = m.room /\ ~named)
  BY <1>1
<1> HIDE DEF rejected
<1>5. /\ attempt' \in [Attempt -> Try]
      /\ \A a \in Attempt :
                /\ attempt'[a].file = attempt[a].file /\ attempt'[a].sock = attempt[a].sock
                /\ attempt'[a].cancelled = attempt[a].cancelled
                /\ attempt'[a].stage = IF a \in rejected THEN "done" ELSE attempt[a].stage
  BY <1>1 DEF PageTypes, Try, Stage
<1>6. strays \subseteq strays' /\ strays' \subseteq File
  <2>1. \A a \in rejected : attempt[a].file \in File
    BY <1>3 DEF Attempts
  <2> QED
    BY <1>1, <2>1 DEF PageTypes
<1> QED
  BY <1>1, <1>2, <1>3, <1>4, <1>5, <1>6

\* Hearing keeps the types, the links and the attempts.
LEMMA HearBasic ==
    ASSUME Types, Links, Attempts, Distinct, Watches, NEW s \in Socket, Hear(s)
    PROVE  /\ Types' /\ Links' /\ Attempts' /\ Distinct' /\ Watches'
           /\ link[s] = "up" /\ inbox[s] # <<>> /\ inbox[s] \in Seq(ToClient)
           /\ Head(inbox[s]) \in ToClient
           /\ HearSync(s, Head(inbox[s])) \/ HearError(s, Head(inbox[s]))
           /\ inbox'[s] = Tail(inbox[s])
           /\ \A t \in Socket : t # s => inbox'[t] = inbox[t]
           /\ UNCHANGED <<selects, watchVars, clientVars, link, serverVars,
                          edits, drops, refused, upset, unjoined>>
           /\ strays \subseteq strays'
<1>0. PageTypes /\ NetTypes
  BY DEF Types
<1> DEFINE m == Head(inbox[s])
<1>1. /\ link[s] = "up" /\ inbox[s] # <<>>
      /\ inbox' = [inbox EXCEPT ![s] = Tail(@)]
      /\ HearSync(s, m) \/ HearError(s, m)
      /\ UNCHANGED <<selects, watchVars, clientVars, link, serverVars, edits,
                     drops, refused, upset, unjoined>>
  BY DEF Hear
<1>2. inbox[s] \in Seq(ToClient) /\ inbox \in [Socket -> Seq(ToClient)]
  BY <1>0 DEF NetTypes
<1>3. m \in ToClient /\ Tail(inbox[s]) \in Seq(ToClient)
  BY <1>1, <1>2
<1> HIDE DEF m
<1>4. /\ inbox' \in [Socket -> Seq(ToClient)] /\ inbox'[s] = Tail(inbox[s])
      /\ \A t \in Socket : t # s => inbox'[t] = inbox[t]
  BY <1>1, <1>2, <1>3
<1>5. /\ attempt' \in [Attempt -> Try] /\ strays \subseteq strays' /\ strays' \subseteq File
      /\ \A a \in Attempt :
              /\ attempt'[a].file = attempt[a].file /\ attempt'[a].sock = attempt[a].sock
              /\ attempt'[a].cancelled = attempt[a].cancelled
              /\ attempt'[a].stage # attempt[a].stage =>
                   /\ attempt[a].stage \in {"connecting", "joining"}
                   /\ \/ attempt'[a].stage = "done"
                      \/ /\ attempt'[a].stage = "open" /\ ~attempt[a].cancelled
                         /\ attempt[a].stage = "joining"
      /\ status' \in {"synced", "error", status} /\ outbox' \in Queues
      /\ \A t \in Socket : t # s => outbox'[t] = outbox[t]
  <2>1. CASE HearSync(s, m)
    <3>1. \A a \in Attempt : attempt[a].cancelled \in BOOLEAN
      BY <1>0 DEF PageTypes, Try
    <3> QED
      BY <1>0, <1>3, <2>1, <3>1, HeardSync DEF PageTypes
  <2>2. CASE HearError(s, m)
    BY <1>0, <1>3, <2>2, HeardError DEF NetTypes
  <2> QED
    BY <1>1, <2>1, <2>2
<1>6. Types'
  BY <1>0, <1>1, <1>4, <1>5 DEF Types, PageTypes, NetTypes, watchVars,
                                clientVars, serverVars
<1>7. Links'
  <2>1. \A t \in Socket : link'[t] # "up" => Idle(t)'
    BY <1>1, <1>4, <1>5 DEF Links, Idle, serverVars
  <2> QED
    BY <1>1, <1>5, <2>1 DEF Links, clientVars
<1>8. Attempts' /\ Distinct'
  BY <1>0, <1>1, <1>5, Ending
<1>9. Watches'
  BY <1>1 DEF Watches, watchVars
<1> QED
  BY <1>1, <1>2, <1>3, <1>4, <1>5, <1>6, <1>7, <1>8, <1>9 DEF m

\* An attempt that waited too long is done, and nothing else changes.
LEMMA TimeoutBasic ==
    ASSUME Types, Links, Attempts, Distinct, Watches, NEW a \in Attempt,
           Timeout(a)
    PROVE  /\ Types' /\ Links' /\ Attempts' /\ Distinct' /\ Watches'
           /\ attempt[a].stage = "joining"
           /\ \A b \in Attempt :
                /\ attempt'[b].file = attempt[b].file /\ attempt'[b].sock = attempt[b].sock
                /\ attempt'[b].cancelled = attempt[b].cancelled
                /\ attempt'[b].stage = IF b = a THEN "done" ELSE attempt[b].stage
           /\ strays' = IF Coming(a) THEN strays \cup {attempt[a].file} ELSE strays
           /\ UNCHANGED <<selects, watchVars, clientVars, link, outbox, inbox,
                          serverVars,
                   edits, drops, refused, upset, unjoined>>
<1>0. PageTypes /\ NetTypes
  BY DEF Types
<1>1. /\ attempt[a].stage = "joining"
      /\ attempt' = [attempt EXCEPT ![a].stage = "done"]
      /\ status' \in {"error", status}
      /\ strays' = IF Coming(a) THEN strays \cup {attempt[a].file} ELSE strays
      /\ UNCHANGED <<selects, watchVars, clientVars, link, outbox, inbox,
                     serverVars,
                   edits, drops, refused, upset, unjoined>>
  BY DEF Timeout, TimerRuns
<1>2. /\ attempt' \in [Attempt -> Try]
      /\ \A b \in Attempt :
                /\ attempt'[b].file = attempt[b].file /\ attempt'[b].sock = attempt[b].sock
                /\ attempt'[b].cancelled = attempt[b].cancelled
                /\ attempt'[b].stage = IF b = a THEN "done" ELSE attempt[b].stage
  BY <1>0, <1>1 DEF PageTypes, Try, Stage
<1>3. strays \subseteq strays' /\ strays' \subseteq File
  <2>1. attempt[a].file \in File
    BY <1>1 DEF Attempts
  <2> QED
    BY <1>0, <1>1, <2>1 DEF PageTypes
<1>4. Types'
  BY <1>0, <1>1, <1>2, <1>3 DEF Types, PageTypes, NetTypes, watchVars,
                                clientVars, serverVars
<1>5. Links'
  BY <1>1, <1>3 DEF Links, Idle, clientVars, serverVars
<1>6. Attempts' /\ Distinct'
  BY <1>0, <1>1, <1>2, <1>3, Ending
<1>7. Watches'
  BY <1>1 DEF Watches, watchVars
<1> QED
  BY <1>1, <1>2, <1>4, <1>5, <1>6, <1>7

\* An edit sends one update of the open document.
LEMMA EditBasic ==
    ASSUME Types, Links, Attempts, Distinct, Watches, Edit
    PROVE  /\ Types' /\ Links' /\ Attempts' /\ Distinct' /\ Watches'
           /\ selects \in Attempt /\ attempt[selects].stage = "open"
           /\ attempt[selects].file \in File
           /\ Message("update", attempt[selects].file) \in ToServer
           /\ \A t \in Socket : outbox'[t] =
                IF t = attempt[selects].sock /\ link[t] # "closed"
                THEN Append(outbox[t], Message("update", attempt[selects].file))
                ELSE outbox[t]
           /\ UNCHANGED <<docVars, watchVars, clientVars, status, link, inbox,
                          serverVars, drops,
                   refused, upset, strays, unjoined>>
<1>0. PageTypes /\ NetTypes
  BY DEF Types
<1> DEFINE m == Message("update", attempt[selects].file)
<1>1. /\ selects > 0 /\ attempt[selects].stage = "open"
      /\ edits' = edits + 1
      /\ outbox' = Emit(outbox, attempt[selects].sock, m)
      /\ UNCHANGED <<docVars, watchVars, clientVars, status, link, inbox,
                     serverVars, drops,
                   refused, upset, strays, unjoined>>
  BY DEF Edit
<1>2. selects \in Attempt
  BY <1>0, <1>1, Numbers DEF PageTypes
<1>3. attempt[selects].file \in File /\ attempt[selects].sock \in 0 .. MaxSocket
  BY <1>0, <1>1, <1>2 DEF Attempts, PageTypes, Try
<1>4. m \in ToServer
  BY <1>3, ProjectRoom, Messages
<1>5. outbox \in Queues
  BY <1>0 DEF NetTypes
<1> HIDE DEF m
<1>6. /\ outbox' \in Queues
      /\ \A t \in Socket : outbox'[t] =
           IF t = attempt[selects].sock /\ link[t] # "closed" THEN Append(outbox[t], m)
           ELSE outbox[t]
  BY <1>1, <1>3, <1>4, <1>5, Emitted
<1>7. Types'
  <2>1. edits' \in Nat
    BY <1>0, <1>1 DEF PageTypes
  <2> QED
    BY <1>0, <1>1, <1>6, <2>1 DEF Types, PageTypes, NetTypes, docVars,
                                  watchVars, clientVars,
       serverVars
<1>8. Links'
  <2>1. \A t \in Socket, f \in File : Has(outbox'[t], JoinOf(f)) => Has(outbox[t], JoinOf(f))
    <3>1. \A f \in File : m \notin JoinOf(f)
      BY <1>3, ProjectRoom, Kinds DEF m
    <3>2. \A t \in Socket : outbox[t] \in Seq(ToServer)
      BY <1>5 DEF Queues
    <3> QED
      BY <1>4, <1>6, <3>1, <3>2, AppendHas
  <2> QED
    BY <1>1, <2>1 DEF Links, Idle, clientVars, serverVars
<1>9. Attempts' /\ Distinct' /\ Watches'
  BY <1>1 DEF Attempts, Distinct, Live, Watches, docVars, watchVars
<1> QED
  BY <1>1, <1>2, <1>3, <1>4, <1>6, <1>7, <1>8, <1>9 DEF m

\* Closing the workspace cancels everything and drops the connection, and a last
\* call makes another, unless one is being made.
LEMMA UnmountBasic ==
    ASSUME Types, Links, Attempts, Distinct, Watches, Unmount
    PROVE  /\ Types' /\ Links' /\ Attempts' /\ Distinct' /\ Watches'
           /\ attempt' = Cancelled /\ watch' = Unwatched /\ count' = 0
           /\ \/ /\ connecting # 0 /\ sock = 0
                 /\ UNCHANGED <<sock, link, outbox, inbox, handling, rooms>>
              \/ ConnectInternal(outbox)
           /\ UNCHANGED <<selects, watches, history>>
<1>0. PageTypes /\ NetTypes
  BY DEF Types
<1>1. /\ mounted' = FALSE
      /\ attempt' = Cancelled /\ watch' = Unwatched /\ status' = "idle"
      /\ IF connecting # 0
         THEN UNCHANGED <<sockets, connecting, sock, count, link, outbox, inbox,
                          handling, rooms>>
         ELSE ConnectInternal(outbox)
      /\ UNCHANGED <<selects, watches, history>>
  BY DEF Unmount, serverVars
<1>2. PageTypes'
  BY <1>0, <1>1, Tries, Viewers DEF PageTypes, history
<1>5. /\ NetTypes' /\ Links' /\ count' = 0
      /\ \/ /\ connecting # 0 /\ sock = 0
            /\ UNCHANGED <<sock, link, outbox, inbox, handling, rooms>>
         \/ ConnectInternal(outbox)
  <2>1. CASE connecting # 0
    <3>1. UNCHANGED <<sockets, connecting, sock, count, link, outbox, inbox,
                      handling, rooms>>
      BY <1>1, <2>1
    <3>2. NetTypes' /\ Links'
      BY <1>0, <1>1, <3>1 DEF NetTypes, Links, Idle, history
    <3>3. sock = 0 /\ count' = 0
      BY <1>0, <2>1, <3>1 DEF Links, NetTypes
    <3> QED
      BY <2>1, <3>1, <3>2, <3>3
  <2>2. CASE connecting = 0
    <3>1. ConnectInternal(outbox) /\ outbox \in Queues
      BY <1>0, <1>1, <2>2 DEF NetTypes
    <3>2. NetTypes' /\ Links'
      BY <1>0, <1>1, <3>1, AnewNet DEF history
    <3>3. count' = 0
      BY <1>0, <3>1 DEF ConnectInternal, NetTypes
    <3> QED
      BY <3>1, <3>2, <3>3
  <2> QED
    BY <2>1, <2>2
<1>6. Attempts' /\ Distinct'
  <2>1. \A a \in Attempt : Live(a)' => Live(a)
    BY <1>0, <1>1, Tries DEF Live
  <2>2. Distinct'
    BY <1>0, <1>1, <2>1, Tries DEF Distinct, history
  <2>3. ASSUME NEW a \in Attempt
        PROVE  /\ a > selects' => attempt'[a].stage = "none"
               /\ a < selects' => attempt'[a].cancelled
               /\ attempt'[a].stage = "open" => ~attempt'[a].cancelled
               /\ attempt'[a].stage # "none" => attempt'[a].file \in File
               /\ attempt'[a].stage \in {"joining", "open"} => attempt'[a].sock # 0
    <3>1. attempt[a].stage = "open" => a = selects
      BY <1>0, Numbers DEF Attempts, PageTypes
    <3> QED
      BY <1>0, <1>1, <3>1, Tries DEF Attempts
  <2> QED
    BY <2>2, <2>3 DEF Attempts
<1>7. Watches'
  <2>1. ASSUME NEW w \in Watch
        PROVE  /\ w < watches' => watch'[w].cancelled
               /\ w > watches' => watch'[w].stage = "none"
               /\ watch'[w].stage = "active" => ~watch'[w].cancelled
    <3>1. watch[w].stage = "active" => w = watches
      BY <1>0, Numbers DEF Watches, PageTypes
    <3> QED
      BY <1>0, <1>1, <3>1, Viewers DEF Watches
  <2> QED
    BY <2>1 DEF Watches
<1> QED
  BY <1>1, <1>2, <1>5, <1>6, <1>7 DEF Types

-------------------------------------------------------------------------------
(* Joins and their answers                                                 *)

\* Whoever is not in the room owes no account of an open document.
LEMMA AskedRoomless ==
    ASSUME NEW att, NEW two, NEW o, NEW i, NEW h, NEW r, NEW t, NEW s, NEW f,
           Asked(att, o, i, h, r, s, f), f \notin t,
           InStage(att, "joining", s, f) => InStage(two, "joining", s, f)
    PROVE  Asked(two, o, i, h, t, s, f)
BY DEF Asked, Accounted

\* The types of one connection and one document.
LEMMA Sequences ==
    ASSUME Types, NEW s \in Socket, NEW f \in File
    PROVE  /\ outbox[s] \in Seq(ToServer) /\ inbox[s] \in Seq(ToClient)
           /\ rooms[s] \subseteq Room /\ handling[s][f] \in Nat /\ f \in Room
BY ProjectRoom DEF Types, NetTypes, Queues

\* The attempt that is open is the hook's.
LEMMA OpenIsLast ==
    ASSUME Types, Attempts, NEW a \in Attempt, attempt[a].stage = "open"
    PROVE  a = selects /\ selects # 0
BY Numbers DEF Types, PageTypes, Attempts

\* Cleaning up after the last attempt, and leaving what it has open.
LEMMA LeavingStages ==
    ASSUME Types, Attempts, NEW s \in Socket, NEW f \in File
    PROVE  /\ InStage(attempt, "joining", s, f) <=> InStage(Cancelled, "joining", s, f)
           /\ ~InStage(Cancelled, "open", s, f)
<1>1. \A a \in Attempt :
         /\ Cancelled[a].file = attempt[a].file /\ Cancelled[a].sock = attempt[a].sock
         /\ Cancelled[a].stage = "joining" <=> attempt[a].stage = "joining"
         /\ Cancelled[a].stage # "open"
  BY Tries, OpenIsLast DEF Types
<1> QED
  BY <1>1 DEF InStage

\* The cleanup keeps one document in order: its leave follows no join.
LEMMA LeavingAsked ==
    ASSUME Types, Links, Attempts, Distinct,
           NEW s \in Socket, NEW f \in File, f \notin strays,
           Asked(attempt, outbox[s], inbox[s], handling[s][f], rooms[s], s, f)
    PROVE  Asked(Cancelled, LeftOpen[s], inbox[s], handling[s][f], rooms[s], s, f)
<1>1. /\ InStage(attempt, "joining", s, f) => InStage(Cancelled, "joining", s, f)
  BY LeavingStages
<1> DEFINE leaves == /\ selects # 0 /\ attempt[selects].stage = "open"
                     /\ attempt[selects].sock = s
<1>2. leaves => selects \in Attempt /\ attempt[selects].file \in File
  BY Numbers DEF Types, PageTypes, Attempts
<1>3. CASE leaves /\ attempt[selects].file = f
  <2>1. CASE link[s] = "closed"
    <3>1. LeftOpen[s] = outbox[s] /\ f \notin rooms[s]
      BY <2>1, Leaves DEF Links, Idle
    <3> QED
      BY <1>1, <3>1, AskedRoomless
  <2>2. CASE link[s] # "closed"
    <3>1. LeftOpen[s] = Append(outbox[s], Message("leave", f))
      BY <1>3, <2>2, Leaves
    <3>2. ~InStage(attempt, "joining", s, f)
      BY <1>2, <1>3 DEF Distinct, Live, InStage
    <3> QED
      BY <3>1, <3>2, Sequences, AskedLeaves
  <2> QED
    BY <2>1, <2>2
<1>4. CASE ~(leaves /\ attempt[selects].file = f)
  <2>1. ~InStage(attempt, "open", s, f)
    BY <1>4, OpenIsLast DEF InStage
  <2>2. Asked(Cancelled, outbox[s], inbox[s], handling[s][f], rooms[s], s, f)
    BY <1>1, <2>1, AskedStays
  <2>3. CASE LeftOpen[s] = outbox[s]
    BY <2>2, <2>3
  <2>4. CASE LeftOpen[s] # outbox[s]
    <3>1. leaves /\ LeftOpen[s] = Append(outbox[s], Message("leave", attempt[selects].file))
      BY <2>4, Leaves
    <3>2. attempt[selects].file \in File /\ attempt[selects].file # f
      BY <1>2, <1>4, <3>1
    <3>3. /\ Message("leave", attempt[selects].file) \in ToServer
          /\ Message("leave", attempt[selects].file) \notin JoinOf(f)
          /\ Message("leave", attempt[selects].file) \notin LeaveOf(f)
      BY <3>2, ProjectRoom, Messages, Kinds
    <3> QED
      BY <2>2, <3>1, <3>3, Sequences, AskedSends
  <2> QED
    BY <2>3, <2>4
<1> QED
  BY <1>3, <1>4

\* A connection that is made anew has forgotten the old one.
LEMMA AnewEffect ==
    ASSUME Types, NEW q, ConnectInternal(q), NEW s \in Socket
    PROVE  /\ s = sock => /\ outbox'[s] = <<>> /\ inbox'[s] = <<>> /\ rooms'[s] = {}
                          /\ \A r \in Room : handling'[s][r] = 0
           /\ s # sock => /\ outbox'[s] = q[s]
                          /\ UNCHANGED <<inbox[s], rooms[s], handling[s]>>
           /\ sock # 0 /\ s = sock => link'[s] \in {"opening", "closed"}
           /\ s # sock => link'[s] \in {"opening", link[s]}
<1>1. /\ outbox' = [t \in Socket |-> IF t = sock THEN <<>> ELSE q[t]]
      /\ IF sock = 0 THEN UNCHANGED <<inbox, rooms, handling>> ELSE Forget(sock)
      /\ link' = [t \in Socket |-> CASE t = sockets + 1 -> "opening"
                                     [] t = sock -> "closed"
                                     [] OTHER -> link[t]]
  BY Zenon DEF ConnectInternal
<1>2. outbox'[s] = IF s = sock THEN <<>> ELSE q[s]
  BY <1>1
<1>3. /\ s = sock => link'[s] \in {"opening", "closed"}
      /\ s # sock => link'[s] \in {"opening", link[s]}
  BY <1>1
<1>4. sock # 0 => sock \in Socket
  <2>1. sock \in 0 .. MaxSocket
    BY Numbers DEF Types, NetTypes
  <2> QED
    BY <2>1, Numbers
<1>5. /\ s = sock => /\ inbox'[s] = <<>> /\ rooms'[s] = {}
                     /\ \A r \in Room : handling'[s][r] = 0
      /\ s # sock => UNCHANGED <<inbox[s], rooms[s], handling[s]>>
  <2>1. CASE sock = 0
    BY <1>1, <2>1, Numbers
  <2>2. CASE sock # 0
    <3>1. NetTypes /\ Forget(sock) /\ sock \in Socket
      BY <1>1, <1>4, <2>2 DEF Types
    <3> QED
      BY <3>1, Forgotten
  <2> QED
    BY <2>1, <2>2
<1> QED
  BY <1>2, <1>3, <1>5

\* Making a connection anew keeps one document in order.
LEMMA AnewAsked ==
    ASSUME Types, NEW q, ConnectInternal(q), NEW att, NEW s \in Socket,
           NEW f \in File,
           Asked(att, q[s], inbox[s], handling[s][f], rooms[s], s, f)
    PROVE  Asked(att, outbox'[s], inbox'[s], handling'[s][f], rooms'[s], s, f)
<1>1. CASE s = sock
  <2>1. outbox'[s] = <<>> /\ inbox'[s] = <<>> /\ rooms'[s] = {} /\ handling'[s][f] = 0
    BY <1>1, AnewEffect, ProjectRoom
  <2> QED
    BY <2>1, AskedWiped
<1>2. CASE s # sock
  BY <1>2, AnewEffect
<1> QED
  BY <1>1, <1>2

\* Who waits after a selection: who did before, and the new attempt.
LEMMA SelectStages ==
    ASSUME Types, Attempts, NEW g \in File, Select(g), NEW s \in Socket,
           NEW f \in File
    PROVE  /\ InStage(attempt', "joining", s, f) <=>
                InStage(Cancelled, "joining", s, f) \/ (Connected /\ s = sock /\ f = g)
           /\ ~InStage(attempt', "open", s, f)
<1>0. PageTypes /\ NetTypes
  BY DEF Types
<1>1. Cancelled[selects + 1].stage = "none"
  <2>1. attempt[selects + 1].stage = "none"
    BY <1>0, Selected, Numbers DEF Attempts, PageTypes
  <2> QED
    BY <1>0, <2>1, Selected, Tries
<1>2. \A a \in Attempt : a # selects + 1 => attempt'[a] = Cancelled[a]
  BY <1>0, Selected
<1>3. ~InStage(Cancelled, "open", s, f)
  BY LeavingStages
<1>4. /\ selects + 1 \in Attempt
      /\ attempt'[selects + 1].file = g
      /\ attempt'[selects + 1].stage = IF Connected THEN "joining" ELSE "connecting"
      /\ attempt'[selects + 1].sock = IF Connected THEN sock ELSE 0
  BY <1>0, Selected
<1>5. ~InStage(attempt', "open", s, f)
  BY <1>2, <1>3, <1>4 DEF InStage
<1>6. ASSUME InStage(attempt', "joining", s, f)
      PROVE  InStage(Cancelled, "joining", s, f) \/ (Connected /\ s = sock /\ f = g)
  BY <1>2, <1>4, <1>6 DEF InStage
<1>7. ASSUME InStage(Cancelled, "joining", s, f)
      PROVE  InStage(attempt', "joining", s, f)
  BY <1>1, <1>2, <1>7 DEF InStage
<1>8. ASSUME Connected /\ s = sock /\ f = g
      PROVE  InStage(attempt', "joining", s, f)
  BY <1>4, <1>8 DEF InStage
<1> QED
  BY <1>5, <1>6, <1>7, <1>8

\* Selecting a file asks for it once.
LEMMA SelectAsks ==
    ASSUME Types, Links, Attempts, Distinct, Asks, NEW g \in File, Select(g)
    PROVE  Asks'
<1> SUFFICES ASSUME NEW s \in Socket, NEW f \in File, f \notin strays'
             PROVE  Asked(attempt', outbox'[s], inbox'[s], handling'[s][f], rooms'[s], s, f)
  BY DEF Asks
<1>0. PageTypes /\ NetTypes
  BY DEF Types
<1>1. /\ f \notin strays
      /\ f = g => \A b \in Attempt : ~(Pending(b) /\ attempt[b].file = g)
  BY <1>0, Selected
<1>2. Asked(Cancelled, LeftOpen[s], inbox[s], handling[s][f], rooms[s], s, f)
  BY <1>1, LeavingAsked DEF Asks
<1>3. LeftOpen \in Queues /\ LeftOpen[s] \in Seq(ToServer) /\ sock \in 0 .. MaxSocket
  BY <1>0, Leaves, Numbers DEF Queues, NetTypes
<1>4. Connect(IF Connected THEN Emit(LeftOpen, sock, Message("join", g)) ELSE LeftOpen)
  BY DEF Select
<1>5. CASE Connected
  <2>1. /\ outbox' = Emit(LeftOpen, sock, Message("join", g))
        /\ UNCHANGED <<inbox, handling, rooms>>
    BY <1>4, <1>5 DEF Connect, serverVars
  <2>2. Message("join", g) \in ToServer
    BY ProjectRoom, Messages
  <2>3. outbox'[s] = IF s = sock THEN Append(LeftOpen[s], Message("join", g)) ELSE LeftOpen[s]
    BY <1>3, <1>5, <2>1, <2>2, Emitted DEF Connected
  <2>4. CASE s = sock /\ f = g
    <3>1. ~InStage(Cancelled, "joining", s, f)
      BY <1>1, <2>4, LeavingStages DEF InStage, Pending
    <3>2. InStage(attempt', "joining", s, f)
      BY <1>5, <2>4, SelectStages
    <3>3. ~InStage(Cancelled, "open", s, f)
      BY LeavingStages
    <3>4. Asked(attempt', Append(LeftOpen[s], Message("join", f)), inbox[s], handling[s][f],
                rooms[s], s, f)
      BY <1>2, <1>3, <3>1, <3>2, <3>3, AskedJoins
    <3> QED
      BY <2>1, <2>3, <2>4, <3>4
  <2>5. CASE s = sock /\ f # g
    <3>1. Message("join", g) \notin JoinOf(f) /\ Message("join", g) \notin LeaveOf(f)
      BY <2>5, ProjectRoom, Kinds
    <3>2. Asked(Cancelled, Append(LeftOpen[s], Message("join", g)), inbox[s], handling[s][f],
                rooms[s], s, f)
      BY <1>2, <1>3, <2>2, <3>1, AskedSends
    <3>3. /\ InStage(Cancelled, "joining", s, f) => InStage(attempt', "joining", s, f)
          /\ ~InStage(Cancelled, "open", s, f)
      BY SelectStages, LeavingStages
    <3>4. Asked(attempt', Append(LeftOpen[s], Message("join", g)), inbox[s], handling[s][f],
                rooms[s], s, f)
      BY <3>2, <3>3, AskedStays
    <3> QED
      BY <2>1, <2>3, <2>5, <3>4
  <2>6. CASE s # sock
    <3>1. /\ InStage(Cancelled, "joining", s, f) => InStage(attempt', "joining", s, f)
          /\ ~InStage(Cancelled, "open", s, f)
      BY SelectStages, LeavingStages
    <3> QED
      BY <1>2, <2>1, <2>3, <2>6, <3>1, AskedStays
  <2> QED
    BY <2>4, <2>5, <2>6
<1>6. CASE ~Connected
  <2>1. /\ InStage(Cancelled, "joining", s, f) => InStage(attempt', "joining", s, f)
        /\ ~InStage(Cancelled, "open", s, f)
    BY SelectStages, LeavingStages
  <2>2. Asked(attempt', LeftOpen[s], inbox[s], handling[s][f], rooms[s], s, f)
    BY <1>2, <2>1, AskedStays
  <2>3. CASE connecting # 0
    <3>1. outbox' = LeftOpen /\ UNCHANGED <<inbox, handling, rooms>>
      BY <1>4, <1>6, <2>3 DEF Connect, serverVars
    <3> QED
      BY <2>2, <3>1
  <2>4. CASE connecting = 0
    <3>1. ConnectInternal(LeftOpen)
      BY <1>4, <1>6, <2>4 DEF Connect
    <3> QED
      BY <2>2, <3>1, AnewAsked
  <2> QED
    BY <2>3, <2>4
<1> QED
  BY <1>5, <1>6

\* Deselecting leaves no join unaccounted for.
LEMMA DeselectAsks ==
    ASSUME Types, Links, Attempts, Distinct, Asks, Deselect
    PROVE  Asks'
<1> SUFFICES ASSUME NEW s \in Socket, NEW f \in File, f \notin strays'
             PROVE  Asked(attempt', outbox'[s], inbox'[s], handling'[s][f], rooms'[s], s, f)
  BY DEF Asks
<1>1. attempt' = Cancelled /\ Connect(LeftOpen) /\ f \notin strays
  BY DEF Deselect, history
<1>2. Asked(Cancelled, LeftOpen[s], inbox[s], handling[s][f], rooms[s], s, f)
  BY <1>1, LeavingAsked DEF Asks
<1>3. CASE ConnectInternal(LeftOpen)
  BY <1>1, <1>2, <1>3, AnewAsked
<1>4. CASE ~ConnectInternal(LeftOpen)
  <2>1. outbox' = LeftOpen /\ UNCHANGED <<inbox, handling, rooms>>
    BY <1>1, <1>4 DEF Connect, serverVars
  <2> QED
    BY <1>1, <1>2, <2>1
<1> QED
  BY <1>3, <1>4

\* Releasing the project is not about documents.
LEMMA ReleasedAsked ==
    ASSUME Types, NEW s \in Socket, NEW f \in File,
           Asked(attempt, outbox[s], inbox[s], handling[s][f], rooms[s], s, f)
    PROVE  Asked(attempt, ReleasedProject[s], inbox[s], handling[s][f], rooms[s], s, f)
<1>1. /\ Message("leave", Project) \in ToServer
      /\ Message("leave", Project) \notin JoinOf(f) /\ Message("leave", Project) \notin LeaveOf(f)
  BY ProjectRoom, Messages, Kinds
<1>2. \/ ReleasedProject[s] = outbox[s]
      \/ ReleasedProject[s] = Append(outbox[s], Message("leave", Project))
  BY Releases
<1>3. Asked(attempt, Append(outbox[s], Message("leave", Project)), inbox[s], handling[s][f],
            rooms[s], s, f)
  BY <1>1, Sequences, AskedSends
<1> QED
  BY <1>2, <1>3

\* Watching again is not about documents.
LEMMA RewatchAsks ==
    ASSUME Types, Links, Attempts, Distinct, Asks, Rewatch
    PROVE  Asks'
<1>0. PageTypes /\ NetTypes
  BY DEF Types
<1>1. UNCHANGED <<attempt, strays>>
  BY <1>0, Rewatched
<1> SUFFICES ASSUME NEW s \in Socket, NEW f \in File, f \notin strays'
             PROVE  Asked(attempt, outbox'[s], inbox'[s], handling'[s][f], rooms'[s], s, f)
  BY <1>1 DEF Asks
<1>2. Asked(attempt, outbox[s], inbox[s], handling[s][f], rooms[s], s, f)
  BY <1>1 DEF Asks
<1>3. Asked(attempt, ReleasedProject[s], inbox[s], handling[s][f], rooms[s], s, f)
  BY <1>2, ReleasedAsked
<1>4. /\ ReleasedProject \in Queues /\ ReleasedProject[s] \in Seq(ToServer)
      /\ sock \in 0 .. MaxSocket /\ Message("join", Project) \in ToServer
      /\ Message("join", Project) \notin JoinOf(f) /\ Message("join", Project) \notin LeaveOf(f)
  BY <1>0, Releases, ProjectRoom, Messages, Kinds, Numbers DEF Queues, NetTypes
<1>5. Asked(attempt, Append(ReleasedProject[s], Message("join", Project)), inbox[s],
            handling[s][f], rooms[s], s, f)
  BY <1>3, <1>4, AskedSends
<1> DEFINE m == Message("join", Project)
           sent == Emit(ReleasedProject, sock, m)
           queue == ReleasedProject[s]
<1>a. sent[s] = IF s = sock /\ link[s] # "closed" THEN Append(ReleasedProject[s], m)
                ELSE ReleasedProject[s]
  BY <1>4, Emitted
<1>6. sent[s] = queue \/ sent[s] = Append(queue, m)
  BY <1>a
<1>7. CASE ~ConnectInternal(ReleasedProject)
  <2>1. /\ UNCHANGED <<inbox, handling, rooms>>
        /\ outbox'[s] = queue \/ outbox'[s] = Append(queue, m)
    <3>1. outbox' = sent \/ outbox' = ReleasedProject
      BY <1>0, <1>7, Rewatched
    <3>2. outbox'[s] = queue \/ outbox'[s] = Append(queue, m)
      BY <1>6, <3>1
    <3>3. UNCHANGED <<inbox, handling, rooms>>
      BY <1>0, <1>7, Rewatched
    <3> QED
      BY <3>2, <3>3
  <2> QED
    BY <1>3, <1>5, <2>1
<1>8. CASE ConnectInternal(ReleasedProject)
  BY <1>3, <1>8, AnewAsked
<1> QED
  BY <1>7, <1>8

\* Each of those who waited asks once, on the new connection.
LEMMA ConnectOkAsks ==
    ASSUME Types, Links, Attempts, Distinct, Asks, ConnectOk
    PROVE  Asks'
<1> SUFFICES ASSUME NEW s \in Socket, NEW f \in File, f \notin strays'
             PROVE  Asked(attempt', outbox'[s], inbox'[s], handling'[s][f], rooms'[s], s, f)
  BY DEF Asks
<1>1. UNCHANGED <<inbox, handling, rooms, strays>>
  BY ConnectedNow
<1>2. /\ Asked(attempt, outbox[s], inbox[s], handling[s][f], rooms[s], s, f)
      /\ f \notin strays
  BY <1>1 DEF Asks
<1>3. \A a \in Attempt :
         attempt[a].stage \in {"joining", "open"} => attempt'[a] = attempt[a]
  BY ConnectedNow, Waiting
<1>4. /\ InStage(attempt, "joining", s, f) => InStage(attempt', "joining", s, f)
      /\ InStage(attempt, "open", s, f) => InStage(attempt', "open", s, f)
  BY <1>3 DEF InStage
<1>5. CASE s # connecting
  <2>1. outbox'[s] = outbox[s]
    BY <1>5, ConnectedNow
  <2> QED
    BY <1>1, <1>2, <1>4, <2>1, AskedStays
<1>6. CASE s = connecting
  <2>1. link[s] = "opening"
    BY <1>6, ConnectedNow
  <2>2. inbox[s] = <<>> /\ handling[s][f] = 0 /\ rooms[s] = {}
    BY <2>1, ProjectRoom DEF Links, Idle
  <2>3. PICK q \in InOrder(WaitingAttempts) : outbox'[s] = Retains \o Joins(q)
    BY <1>6, ConnectedNow
  <2>4. /\ Retains \in Seq(ToServer) /\ Joins(q) \in Seq(ToServer)
        /\ ~Has(Retains, JoinOf(f)) /\ ~Has(Retains, LeaveOf(f))
        /\ ~Has(Joins(q), LeaveOf(f))
        /\ Once(Joins(q), JoinOf(f))
        /\ Has(Joins(q), JoinOf(f)) => \E a \in WaitingAttempts : attempt[a].file = f
    BY <1>2, RetainsHave, JoinsOf, JoinsHave
  <2>5. Once(Retains, JoinOf(f)) /\ Before(Retains, LeaveOf(f), JoinOf(f))
        /\ Before(Joins(q), LeaveOf(f), JoinOf(f))
    BY <2>4 DEF Has, Once, Before
  <2>6. Once(outbox'[s], JoinOf(f)) /\ Before(outbox'[s], LeaveOf(f), JoinOf(f))
    BY <2>3, <2>4, <2>5, JoinedOnce, JoinedBefore
  <2>7. /\ ~Has(outbox'[s], LeaveOf(f))
        /\ Has(outbox'[s], JoinOf(f)) => \E a \in WaitingAttempts : attempt[a].file = f
    BY <2>3, <2>4, JoinedHas
  <2>8. (\E a \in WaitingAttempts : attempt[a].file = f) => InStage(attempt', "joining", s, f)
    BY <1>6, ConnectedNow, Waiting DEF InStage
  <2>9. ~Has(inbox[s], AnswerOf(f)) /\ Once(inbox[s], AnswerOf(f))
    BY <2>2, Nothing
  <2>10. Coherent(outbox'[s], inbox[s], handling[s][f], f)
    BY <2>2, <2>6, <2>7, <2>9 DEF Coherent
  <2>11. Outstanding(outbox'[s], inbox[s], handling[s][f], f) => InStage(attempt', "joining", s, f)
    BY <2>2, <2>7, <2>8, <2>9 DEF Outstanding
  <2> QED
    BY <1>1, <2>2, <2>10, <2>11 DEF Asked, Accounted
<1> QED
  BY <1>5, <1>6

\* A connection that failed was asked for nothing.
LEMMA ConnectFailsAsks ==
    ASSUME Types, Links, Attempts, Distinct, Watches, Asks, ConnectFails
    PROVE  Asks'
<1> SUFFICES ASSUME NEW s \in Socket, NEW f \in File, f \notin strays'
             PROVE  Asked(attempt', outbox'[s], inbox'[s], handling'[s][f], rooms'[s], s, f)
  BY DEF Asks
<1>1. UNCHANGED <<outbox, inbox, handling, rooms, strays>>
  BY ConnectFailsBasic
<1>2. Asked(attempt, outbox[s], inbox[s], handling[s][f], rooms[s], s, f)
  BY <1>1 DEF Asks
<1>3. /\ InStage(attempt, "joining", s, f) => InStage(attempt', "joining", s, f)
      /\ InStage(attempt, "open", s, f) => InStage(attempt', "open", s, f)
  BY ConnectFailsBasic DEF InStage
<1> QED
  BY <1>1, <1>2, <1>3, AskedStays

\* A connection that is lost is asked for nothing any more.
LEMMA LoseAsks ==
    ASSUME Types, Links, Attempts, Distinct, Watches, Asks, Lose
    PROVE  Asks'
<1> SUFFICES ASSUME NEW s \in Socket, NEW f \in File, f \notin strays'
             PROVE  Asked(attempt', outbox'[s], inbox'[s], handling'[s][f], rooms'[s], s, f)
  BY DEF Asks
<1>1. UNCHANGED <<attempt, strays>>
  BY LoseBasic
<1>2. Asked(attempt, outbox[s], inbox[s], handling[s][f], rooms[s], s, f)
  BY <1>1 DEF Asks
<1>3. CASE s = sock
  <2>1. outbox'[s] = <<>> /\ inbox'[s] = <<>> /\ rooms'[s] = {} /\ handling'[s][f] = 0
    BY <1>3, LoseBasic, ProjectRoom
  <2> QED
    BY <2>1, AskedWiped
<1>4. CASE s # sock
  BY <1>1, <1>2, <1>4, LoseBasic
<1> QED
  BY <1>3, <1>4

\* A connection that is closed is asked for nothing any more.
LEMMA UnmountAsks ==
    ASSUME Types, Links, Attempts, Distinct, Watches, Asks, Unmount
    PROVE  Asks'
<1> SUFFICES ASSUME NEW s \in Socket, NEW f \in File, f \notin strays'
             PROVE  Asked(attempt', outbox'[s], inbox'[s], handling'[s][f], rooms'[s], s, f)
  BY DEF Asks
<1>1. attempt' = Cancelled /\ strays' = strays
  BY UnmountBasic DEF history
<1>2. Asked(attempt, outbox[s], inbox[s], handling[s][f], rooms[s], s, f)
  BY <1>1 DEF Asks
<1>3. ASSUME s # sock
      PROVE  Asked(Cancelled, outbox[s], inbox[s], handling[s][f], rooms[s], s, f)
  <2>1. f \notin rooms[s]
    BY <1>3 DEF Links, Idle
  <2>2. InStage(attempt, "joining", s, f) => InStage(Cancelled, "joining", s, f)
    BY LeavingStages
  <2> QED
    BY <1>2, <2>1, <2>2, AskedRoomless
<1>4. CASE ConnectInternal(outbox)
  <2>1. CASE s = sock
    <3>1. outbox'[s] = <<>> /\ inbox'[s] = <<>> /\ rooms'[s] = {} /\ handling'[s][f] = 0
      BY <1>4, <2>1, AnewEffect, ProjectRoom
    <3> QED
      BY <3>1, AskedWiped
  <2>2. CASE s # sock
    BY <1>1, <1>3, <1>4, <2>2, AnewAsked
  <2> QED
    BY <2>1, <2>2
<1>5. CASE ~ConnectInternal(outbox)
  <2>1. sock = 0 /\ UNCHANGED <<outbox, inbox, handling, rooms>>
    BY <1>5, UnmountBasic
  <2>2. s # sock
    BY <2>1, Numbers
  <2> QED
    BY <1>1, <1>3, <2>1, <2>2
<1> QED
  BY <1>4, <1>5

\* An edit asks for nothing.
LEMMA EditAsks ==
    ASSUME Types, Links, Attempts, Distinct, Watches, Asks, Edit
    PROVE  Asks'
<1> SUFFICES ASSUME NEW s \in Socket, NEW f \in File, f \notin strays'
             PROVE  Asked(attempt', outbox'[s], inbox'[s], handling'[s][f], rooms'[s], s, f)
  BY DEF Asks
<1>1. UNCHANGED <<attempt, inbox, handling, rooms, strays>>
  BY EditBasic DEF docVars, serverVars
<1>2. Asked(attempt, outbox[s], inbox[s], handling[s][f], rooms[s], s, f)
  BY <1>1 DEF Asks
<1> DEFINE m == Message("update", attempt[selects].file)
<1>3. /\ m \in ToServer /\ m \notin JoinOf(f) /\ m \notin LeaveOf(f)
      /\ outbox'[s] \in {outbox[s], Append(outbox[s], m)}
  BY EditBasic, ProjectRoom, Kinds
<1> HIDE DEF m
<1>4. Asked(attempt, Append(outbox[s], m), inbox[s], handling[s][f], rooms[s], s, f)
  BY <1>2, <1>3, Sequences, AskedSends
<1> QED
  BY <1>1, <1>2, <1>3, <1>4

\* Connecting again asks for nothing.
LEMMA ReconnectAsks ==
    ASSUME Types, Links, Attempts, Distinct, Watches, Asks, Reconnect
    PROVE  Asks'
BY ReconnectBasic DEF Asks, docVars, serverVars, history

\* Whatever the server takes, a join stays in one place.
LEMMA TakeAsks ==
    ASSUME Types, Links, Attempts, Distinct, Watches, Asks, NEW s \in Socket,
           Take(s)
    PROVE  Asks'
<1> SUFFICES ASSUME NEW t \in Socket, NEW f \in File, f \notin strays'
             PROVE  Asked(attempt', outbox'[t], inbox'[t], handling'[t][f], rooms'[t], t, f)
  BY DEF Asks
<1>1. UNCHANGED <<attempt, strays>>
  BY TakeBasic DEF docVars
<1>2. Asked(attempt, outbox[t], inbox[t], handling[t][f], rooms[t], t, f)
  BY <1>1 DEF Asks
<1>3. CASE t # s
  <2>1. UNCHANGED <<outbox[t], inbox[t], handling[t], rooms[t]>>
    BY <1>3, TakeBasic
  <2> QED
    BY <1>1, <1>2, <2>1
<1>4. CASE t = s
  <2> DEFINE o == outbox[s]  m == Head(outbox[s])
  <2>1. o \in Seq(ToServer) /\ o # <<>> /\ m \in ToServer /\ outbox'[s] = Tail(o)
    BY TakeBasic
  <2>2. m = Message(m.kind, m.room) /\ m.room \in Room
    BY <2>1 DEF ToServer, Message
  <2>3. inbox[s] \in Seq(ToClient) /\ f \in Room
    BY Sequences
  <2>4. CASE m.kind = "join" /\ m.room = f
    <3>1. /\ handling'[s][f] = handling[s][f] + 1 /\ UNCHANGED <<rooms, inbox>>
      BY <2>3, <2>4, TakeBasic
    <3>2. m = Message("join", f)
      BY <2>2, <2>4
    <3>3. handling[s][f] = 0 /\ Asked(attempt, Tail(o), inbox[s], 1, rooms[s], s, f)
      BY <1>2, <1>4, <2>1, <3>2, AskedJoinTaken
    <3> QED
      BY <1>1, <1>4, <2>1, <3>1, <3>3
  <2>5. CASE m.kind = "leave" /\ m.room = f
    <3>1. rooms'[s] = rooms[s] \ {f} /\ UNCHANGED <<handling, inbox>>
      BY <2>5, TakeBasic
    <3>2. m = Message("leave", f)
      BY <2>2, <2>5
    <3>3. Asked(attempt, Tail(o), inbox[s], handling[s][f], rooms[s] \ {f}, s, f)
      BY <1>2, <1>4, <2>1, <3>2, AskedLeaveTaken
    <3> QED
      BY <1>1, <1>4, <2>1, <3>1, <3>3
  <2>6. CASE ~(m.kind \in {"join", "leave"} /\ m.room = f)
    <3>1. m \notin JoinOf(f) /\ m \notin LeaveOf(f)
      BY <2>2, <2>6 DEF JoinOf, LeaveOf, Message
    <3>2. Asked(attempt, Tail(o), inbox[s], handling[s][f], rooms[s], s, f)
      BY <1>2, <1>4, <2>1, <3>1, AskedTaken
    <3>3. CASE m.kind = "join"
      <4>1. handling'[s][f] = handling[s][f] /\ UNCHANGED <<rooms, inbox>>
        BY <2>3, <2>6, <3>3, TakeBasic
      <4> QED
        BY <1>1, <1>4, <2>1, <3>2, <4>1
    <3>4. CASE m.kind = "leave"
      <4>1. rooms'[s] = rooms[s] \ {m.room} /\ UNCHANGED <<handling, inbox>>
        BY <3>4, TakeBasic
      <4>2. Asked(attempt, Tail(o), inbox[s], handling[s][f], rooms[s] \ {m.room}, s, f)
        BY <3>2, AskedStays
      <4> QED
        BY <1>1, <1>4, <2>1, <4>1, <4>2
    <3>5. CASE m.kind = "update" /\ m.room \in rooms[s]
      <4>1. UNCHANGED <<handling, rooms, inbox>>
        BY <3>5, TakeBasic
      <4> QED
        BY <1>1, <1>4, <2>1, <3>2, <4>1
    <3>6. CASE m.kind = "update" /\ m.room \notin rooms[s]
      <4>1. /\ inbox'[s] = Append(inbox[s], Message("outside", m.room))
            /\ UNCHANGED <<handling, rooms>>
        BY <3>6, TakeBasic
      <4>2. /\ Message("outside", m.room) \in ToClient
            /\ Message("outside", m.room) \notin AnswerOf(f)
        BY <2>2, <2>3, Messages, Kinds
      <4>3. Asked(attempt, Tail(o), Append(inbox[s], Message("outside", m.room)),
                  handling[s][f], rooms[s], s, f)
        BY <2>3, <3>2, <4>2, AskedTold
      <4> QED
        BY <1>1, <1>4, <2>1, <4>1, <4>3
    <3> QED
      BY <2>1, <3>3, <3>4, <3>5, <3>6 DEF ToServer
  <2> QED
    BY <2>4, <2>5, <2>6
<1> QED
  BY <1>3, <1>4

\* A join that is done is answered once.
LEMMA JoinDoneAsks ==
    ASSUME Types, Links, Attempts, Distinct, Watches, Asks,
           NEW s \in Socket, NEW r \in Room, JoinDone(s, r)
    PROVE  Asks'
<1> SUFFICES ASSUME NEW t \in Socket, NEW f \in File, f \notin strays'
             PROVE  Asked(attempt', outbox'[t], inbox'[t], handling'[t][f], rooms'[t], t, f)
  BY DEF Asks
<1>1. UNCHANGED <<attempt, strays, outbox>>
  BY JoinDoneBasic DEF docVars, history
<1>2. Asked(attempt, outbox[t], inbox[t], handling[t][f], rooms[t], t, f)
  BY <1>1 DEF Asks
<1>3. CASE t # s
  <2>1. UNCHANGED <<inbox[t], handling[t], rooms[t]>>
    BY <1>3, JoinDoneBasic
  <2> QED
    BY <1>1, <1>2, <2>1
<1>4. CASE t = s
  <2> DEFINE m == Message("sync", r)
  <2>1. /\ inbox[s] \in Seq(ToClient) /\ f \in Room /\ m \in ToClient
        /\ handling[s][f] \in Nat
    BY Sequences, Messages
  <2>2. CASE r = f
    <3>1. m \in AnswerOf(f)
      BY <2>2, <2>1, Kinds
    <3>2. /\ handling[s][f] > 0 /\ handling'[s][f] = handling[s][f] - 1
          /\ rooms'[s] = rooms[s] \cup {f} /\ inbox'[s] = Append(inbox[s], m)
      BY <2>2, JoinDoneBasic, ProjectRoom
    <3>3. Asked(attempt, outbox[s], Append(inbox[s], m), handling[s][f] - 1,
                rooms[s] \cup {f}, s, f)
      BY <1>2, <1>4, <2>1, <2>2, <3>1, <3>2, AskedAnswered
    <3> QED
      BY <1>1, <1>4, <3>2, <3>3
  <2>3. CASE r # f
    <3>1. m \notin AnswerOf(f)
      BY <2>3, <2>1, Kinds
    <3>2. /\ handling'[s][f] = handling[s][f] /\ rooms'[s] = rooms[s] \cup {r}
          /\ inbox'[s] = inbox[s] \/ inbox'[s] = Append(inbox[s], m)
      BY <2>1, <2>3, JoinDoneBasic
    <3>3. f \in rooms[s] \cup {r} => f \in rooms[s]
      BY <2>3
    <3>4. Asked(attempt, outbox[s], Append(inbox[s], m), handling[s][f],
                rooms[s] \cup {r}, s, f)
      BY <1>2, <1>4, <2>1, <3>1, <3>3, AskedTold
    <3>5. Asked(attempt, outbox[s], inbox[s], handling[s][f], rooms[s] \cup {r}, s, f)
      BY <1>2, <1>4, <3>3, AskedStays
    <3> QED
      BY <1>1, <1>4, <3>2, <3>4, <3>5
  <2> QED
    BY <2>2, <2>3
<1> QED
  BY <1>3, <1>4

\* A join that is refused is answered once.
LEMMA JoinRefusedAsks ==
    ASSUME Types, Links, Attempts, Distinct, Watches, Asks,
           NEW s \in Socket, NEW r \in Room, JoinRefused(s, r)
    PROVE  Asks'
<1> SUFFICES ASSUME NEW t \in Socket, NEW f \in File, f \notin strays'
             PROVE  Asked(attempt', outbox'[t], inbox'[t], handling'[t][f], rooms'[t], t, f)
  BY DEF Asks
<1>1. UNCHANGED <<attempt, outbox, rooms, strays>>
  BY JoinRefusedBasic DEF docVars
<1>2. Asked(attempt, outbox[t], inbox[t], handling[t][f], rooms[t], t, f)
  BY <1>1 DEF Asks
<1>3. CASE t # s
  <2>1. UNCHANGED <<inbox[t], handling[t]>>
    BY <1>3, JoinRefusedBasic
  <2> QED
    BY <1>1, <1>2, <2>1
<1>4. CASE t = s
  <2> DEFINE m == Message("refused", r)
  <2>1. /\ inbox[s] \in Seq(ToClient) /\ f \in Room /\ m \in ToClient
        /\ handling[s][f] \in Nat
    BY Sequences, Messages
  <2>4. inbox'[s] = Append(inbox[s], m)
    BY JoinRefusedBasic
  <2>2. CASE r = f
    <3>1. m \in AnswerOf(f)
      BY <2>2, <2>1, Kinds
    <3>2. handling[s][f] > 0 /\ handling'[s][f] = handling[s][f] - 1
      BY <2>2, JoinRefusedBasic
    <3>3. Asked(attempt, outbox[s], Append(inbox[s], m), handling[s][f] - 1, rooms[s], s, f)
      BY <1>2, <1>4, <2>1, <2>2, <3>1, <3>2, AskedAnswered
    <3> QED
      BY <1>1, <1>4, <2>4, <3>2, <3>3
  <2>3. CASE r # f
    <3>1. m \notin AnswerOf(f)
      BY <2>3, <2>1, Kinds
    <3>2. handling'[s][f] = handling[s][f]
      BY <2>1, <2>3, JoinRefusedBasic
    <3>3. Asked(attempt, outbox[s], Append(inbox[s], m), handling[s][f], rooms[s], s, f)
      BY <1>2, <1>4, <2>1, <3>1, AskedTold
    <3> QED
      BY <1>1, <1>4, <2>4, <3>2, <3>3
  <2> QED
    BY <2>2, <2>3
<1> QED
  BY <1>3, <1>4

\* A sync that is heard opens the document, or leaves it.
LEMMA HearSyncAsks ==
    ASSUME Types, Links, Attempts, Distinct, Watches, NEW s \in Socket, Hear(s),
           HearSync(s, Head(inbox[s])), NEW f \in File,
           Asked(attempt, outbox[s], inbox[s], handling[s][f], rooms[s], s, f)
    PROVE  Asked(attempt', outbox'[s], Tail(inbox[s]), handling[s][f], rooms[s], s, f)
<1> DEFINE m == Head(inbox[s])  g == m.room
<1>1. /\ inbox[s] # <<>> /\ inbox[s] \in Seq(ToClient) /\ m \in ToClient
      /\ outbox[s] \in Seq(ToServer) /\ f \in Room
  BY HearBasic, Sequences
<1>2. PICK n \in Nat :
         /\ outbox'[s] = outbox[s] \o [i \in 1 .. n |-> Message("leave", g)]
         /\ n = 0 <=> ~ \E a \in Attempt :
                 /\ attempt[a].stage = "joining" /\ attempt[a].sock = s
                 /\ attempt[a].file = g /\ attempt[a].cancelled
  BY <1>1, HeardSync DEF Types
<1>3. /\ m = Message("sync", g) /\ g \in Room
      /\ \A a \in Attempt :
            /\ attempt'[a].file = attempt[a].file /\ attempt'[a].sock = attempt[a].sock
            /\ attempt'[a].cancelled = attempt[a].cancelled
            /\ attempt'[a].stage =
                 IF /\ attempt[a].stage = "joining" /\ attempt[a].sock = s
                    /\ attempt[a].file = g
                 THEN IF attempt[a].cancelled THEN "done" ELSE "open"
                 ELSE attempt[a].stage
  BY <1>1, HeardSync DEF Types
<1>4. CASE g = f
  <2>1. InStage(attempt, "joining", s, f)
    <3>1. m \in AnswerOf(f)
      BY <1>1, <1>3, <1>4, Kinds
    <3> QED
      BY <1>1, <3>1, Answering
  <2>2. PICK a \in Attempt : /\ attempt[a].stage = "joining" /\ attempt[a].sock = s
                             /\ attempt[a].file = f
    BY <2>1 DEF InStage
  <2>3. n > 0 \/ InStage(attempt', "open", s, f)
    <3>1. CASE attempt[a].cancelled
      BY <1>2, <1>4, <2>2, <3>1
    <3>2. CASE ~attempt[a].cancelled
      BY <1>3, <1>4, <2>2, <3>2 DEF InStage
    <3> QED
      BY <3>1, <3>2
  <2>4. m = Message("sync", f)
    BY <1>3, <1>4
  <2>5. Asked(attempt', outbox[s] \o [i \in 1 .. n |-> Message("leave", f)], Tail(inbox[s]),
              handling[s][f], rooms[s], s, f)
    BY <1>1, <2>3, <2>4, AskedSynced
  <2> QED
    BY <1>2, <1>4, <2>5
<1>5. CASE g # f
  <2>1. /\ InStage(attempt, "joining", s, f) => InStage(attempt', "joining", s, f)
        /\ InStage(attempt, "open", s, f) => InStage(attempt', "open", s, f)
    BY <1>3, <1>5 DEF InStage
  <2>2. /\ m \notin AnswerOf(f) /\ Message("leave", g) \in ToServer
        /\ Message("leave", g) \notin JoinOf(f) /\ Message("leave", g) \notin LeaveOf(f)
    BY <1>1, <1>3, <1>5, Kinds, Messages
  <2>3. Asked(attempt', outbox[s], Tail(inbox[s]), handling[s][f], rooms[s], s, f)
    BY <1>1, <2>1, <2>2, AskedHears
  <2> DEFINE p == [i \in 1 .. n |-> Message("leave", g)]
  <2>4. /\ p \in Seq(ToServer) /\ ~Has(p, JoinOf(f)) /\ ~Has(p, LeaveOf(f))
        /\ Once(p, JoinOf(f)) /\ Before(p, LeaveOf(f), JoinOf(f))
    BY <2>2, Repeats
  <2> HIDE DEF p
  <2>5. Asked(attempt', outbox[s] \o p, Tail(inbox[s]), handling[s][f], rooms[s], s, f)
    BY <1>1, <2>3, <2>4, AskedSendsAll
  <2> QED
    BY <1>2, <2>5 DEF p
<1> QED
  BY <1>4, <1>5

\* A refusal that is heard rejects the attempt it answers.
LEMMA HearErrorAsks ==
    ASSUME Types, Links, Attempts, Distinct, Watches, NEW s \in Socket,
           Hear(s), HearError(s, Head(inbox[s])),
           NEW f \in File, f \notin strays',
           Asked(attempt, outbox[s], inbox[s], handling[s][f], rooms[s], s, f)
    PROVE  Asked(attempt', outbox'[s], Tail(inbox[s]), handling[s][f], rooms[s], s, f)
<1> DEFINE m == Head(inbox[s])
<1>1. /\ inbox[s] # <<>> /\ inbox[s] \in Seq(ToClient) /\ m \in ToClient
      /\ outbox[s] \in Seq(ToServer) /\ f \in Room
  BY HearBasic, Sequences
<1>2. /\ m.room \in Room
      /\ m = Message("refused", m.room) \/ m = Message("outside", m.room)
      /\ outbox' = outbox
  BY <1>1, HeardError DEF Types
<1>3. \A a \in Attempt :
         /\ attempt'[a].file = attempt[a].file /\ attempt'[a].sock = attempt[a].sock
         /\ \/ attempt'[a].stage = attempt[a].stage
            \/ /\ attempt[a].stage = "joining"
               /\ attempt[a].file = f => m = Message("refused", f)
  BY <1>1, HeardError DEF Types
<1>4. InStage(attempt, "open", s, f) => InStage(attempt', "open", s, f)
  BY <1>3 DEF InStage
<1>5. CASE m = Message("refused", f)
  BY <1>1, <1>2, <1>4, <1>5, AskedRejected
<1>6. CASE m # Message("refused", f)
  <2>1. InStage(attempt, "joining", s, f) => InStage(attempt', "joining", s, f)
    BY <1>3, <1>6 DEF InStage
  <2>2. m # Message("sync", f)
    BY <1>1, <1>2, Kinds
  <2>3. m \notin AnswerOf(f)
    BY <1>6, <2>2 DEF AnswerOf
  <2> QED
    BY <1>1, <1>2, <1>4, <2>1, <2>3, AskedHears
<1> QED
  BY <1>5, <1>6

\* Whatever is heard, no attempt is left without an answer to come.
LEMMA HearAsks ==
    ASSUME Types, Links, Attempts, Distinct, Watches, Asks, NEW s \in Socket,
           Hear(s)
    PROVE  Asks'
<1> SUFFICES ASSUME NEW t \in Socket, NEW f \in File, f \notin strays'
             PROVE  Asked(attempt', outbox'[t], inbox'[t], handling'[t][f], rooms'[t], t, f)
  BY DEF Asks
<1>1. /\ strays \subseteq strays' /\ UNCHANGED <<handling, rooms>>
      /\ Head(inbox[s]) \in ToClient
  BY HearBasic DEF serverVars
<1>2. Asked(attempt, outbox[t], inbox[t], handling[t][f], rooms[t], t, f)
  BY <1>1 DEF Asks
<1>3. HearSync(s, Head(inbox[s])) \/ HearError(s, Head(inbox[s]))
  BY HearBasic
<1>4. CASE t = s
  <2>1. Asked(attempt', outbox'[s], Tail(inbox[s]), handling[s][f], rooms[s], s, f)
    BY <1>2, <1>3, <1>4, HearSyncAsks, HearErrorAsks
  <2>2. inbox'[s] = Tail(inbox[s])
    BY HearBasic
  <2> QED
    BY <1>1, <1>4, <2>1, <2>2
<1>5. CASE t # s
  <2>1. outbox'[t] = outbox[t]
    BY <1>1, <1>3, <1>5, HeardSync, HeardError DEF Types
  <2>2. inbox'[t] = inbox[t]
    BY <1>5, HearBasic
  <2>3. \A a \in Attempt :
           /\ attempt'[a].file = attempt[a].file /\ attempt'[a].sock = attempt[a].sock
           /\ attempt'[a].stage = attempt[a].stage \/ attempt[a].sock = s
    <3>1. CASE HearSync(s, Head(inbox[s]))
      BY <1>1, <3>1, HeardSync DEF Types
    <3>2. CASE HearError(s, Head(inbox[s]))
      BY <1>1, <3>2, HeardError DEF Types
    <3> QED
      BY <1>3, <3>1, <3>2
  <2>4. /\ InStage(attempt, "joining", t, f) => InStage(attempt', "joining", t, f)
        /\ InStage(attempt, "open", t, f) => InStage(attempt', "open", t, f)
    BY <1>5, <2>3 DEF InStage
  <2> QED
    BY <1>1, <1>2, <2>1, <2>2, <2>4, AskedStays
<1> QED
  BY <1>4, <1>5

\* No answer is to come to an attempt that times out in time.
LEMMA NothingComes ==
    ASSUME Types, Links, NEW a \in Attempt, NEW s \in Socket, NEW f \in File,
           attempt[a].sock = s, attempt[a].file = f, ~Coming(a),
           Coherent(outbox[s], inbox[s], handling[s][f], f)
    PROVE  ~Outstanding(outbox[s], inbox[s], handling[s][f], f)
<1>1. outbox[s] \in Seq(ToServer) /\ inbox[s] \in Seq(ToClient) /\ f \in Room
  BY Sequences
<1>2. CASE link[s] # "up"
  <2>1. ~Has(outbox[s], JoinOf(f)) /\ handling[s][f] = 0 /\ inbox[s] = <<>>
    BY <1>1, <1>2 DEF Links, Idle
  <2> QED
    BY <2>1, Nothing DEF Outstanding
<1>3. CASE link[s] = "up"
  <2>1. /\ ~Contains(outbox[s], Message("join", f)) /\ ~(handling[s][f] > 0)
        /\ ~Contains(inbox[s], Message("sync", f))
        /\ ~Contains(inbox[s], Message("refused", f))
    BY <1>3 DEF Coming
  <2>2. ~Has(outbox[s], JoinOf(f))
    BY <1>1, <2>1 DEF Contains, Has, JoinOf
  <2>3. ~Has(inbox[s], AnswerOf(f))
    BY <1>1, <2>1 DEF Contains, Has, AnswerOf
  <2> QED
    BY <2>1, <2>2, <2>3 DEF Outstanding, Coherent
<1> QED
  BY <1>2, <1>3

\* A timeout is late, or no answer is to come.
LEMMA TimeoutAsks ==
    ASSUME Types, Links, Attempts, Distinct, Watches, Asks, NEW a \in Attempt,
           Timeout(a)
    PROVE  Asks'
<1> SUFFICES ASSUME NEW t \in Socket, NEW f \in File, f \notin strays'
             PROVE  Asked(attempt', outbox'[t], inbox'[t], handling'[t][f], rooms'[t], t, f)
  BY DEF Asks
<1>1. /\ UNCHANGED <<outbox, inbox, handling, rooms>> /\ f \notin strays
      /\ attempt[a].file = f => ~Coming(a)
  BY TimeoutBasic DEF serverVars
<1>2. Asked(attempt, outbox[t], inbox[t], handling[t][f], rooms[t], t, f)
  BY <1>1 DEF Asks
<1>3. InStage(attempt, "open", t, f) => InStage(attempt', "open", t, f)
  BY TimeoutBasic DEF InStage
<1>4. CASE attempt[a].sock = t /\ attempt[a].file = f
  <2>1. ~Outstanding(outbox[t], inbox[t], handling[t][f], f)
    BY <1>1, <1>2, <1>4, NothingComes DEF Asked
  <2> QED
    BY <1>1, <1>2, <1>3, <2>1, AskedQuiet
<1>5. CASE ~(attempt[a].sock = t /\ attempt[a].file = f)
  <2>1. InStage(attempt, "joining", t, f) => InStage(attempt', "joining", t, f)
    BY <1>5, TimeoutBasic DEF InStage
  <2> QED
    BY <1>1, <1>2, <1>3, <2>1, AskedStays
<1> QED
  BY <1>4, <1>5

-------------------------------------------------------------------------------
(* Edits, and the rooms of the files that are open                         *)

\* A document nobody has open is in order on any link.
LEMMA EditedClosed ==
    ASSUME NEW att, NEW two, NEW l, NEW k, NEW o, NEW i, NEW r, NEW s, NEW f,
           Edited(att, l, o, i, r, s, f), ~InStage(two, "open", s, f)
    PROVE  Edited(two, k, o, i, r, s, f)
BY DEF Edited

\* While no connection was lost, what the invariant says of one document.
LEMMA Orderlies ==
    ASSUME Types, Links, Asks, Edits, "drop" \notin upset', upset \subseteq upset',
           strays \subseteq strays'
    PROVE  /\ refused \subseteq strays'
           /\ sock # 0 => Connected
           /\ \A s \in Socket, f \in File : f \notin strays' =>
                /\ f \notin strays
                /\ Asked(attempt, outbox[s], inbox[s], handling[s][f], rooms[s], s, f)
                /\ Edited(attempt, link[s], outbox[s], inbox[s], rooms[s], s, f)
                /\ InStage(attempt, "open", s, f) => link[s] = "up" /\ s = sock
<1>1. "drop" \notin upset /\ refused \subseteq strays
  BY DEF Edits
<1>2. sock # 0 => Connected
  <2>1. sock # 0 => sock \in Socket
    <3>1. sock \in 0 .. MaxSocket
      BY Numbers DEF Types, NetTypes
    <3> QED
      BY <3>1, Numbers
  <2> QED
    BY <1>1, <2>1 DEF Links, Connected
<1>3. \A s \in Socket, f \in File : f \notin strays =>
         (InStage(attempt, "open", s, f) => link[s] = "up" /\ s = sock)
  BY <1>1 DEF Edits, Edited, Links
<1> QED
  BY <1>1, <1>2, <1>3 DEF Asks, Edits

\* The cleanup sends its leave after every edit.
LEMMA LeavingEdited ==
    ASSUME Types, Links, Attempts, NEW s \in Socket, NEW f \in File,
           Edited(attempt, link[s], outbox[s], inbox[s], rooms[s], s, f)
    PROVE  Edited(Cancelled, link[s], LeftOpen[s], inbox[s], rooms[s], s, f)
<1>1. ~InStage(Cancelled, "open", s, f)
  BY LeavingStages
<1>2. Edited(Cancelled, link[s], outbox[s], inbox[s], rooms[s], s, f)
  BY <1>1, EditedClosed
<1>3. CASE LeftOpen[s] = outbox[s]
  BY <1>2, <1>3
<1>4. CASE LeftOpen[s] # outbox[s]
  <2> DEFINE g == attempt[selects].file
  <2>1. /\ selects # 0 /\ attempt[selects].stage = "open"
        /\ LeftOpen[s] = Append(outbox[s], Message("leave", g))
    BY <1>4, Leaves
  <2>2. g \in File
    BY <2>1, Numbers DEF Types, PageTypes, Attempts
  <2>3. CASE g = f
    BY <1>1, <1>2, <2>1, <2>3, Sequences, EditedLeaves
  <2>4. CASE g # f
    <3>1. /\ Message("leave", g) \in ToServer /\ Message("leave", g) \notin LeaveOf(f)
          /\ Message("leave", g) \notin UpdateOf(f)
      BY <2>2, <2>4, ProjectRoom, Messages, Kinds
    <3> QED
      BY <1>2, <2>1, <3>1, Sequences, EditedSends
  <2> QED
    BY <2>3, <2>4
<1> QED
  BY <1>3, <1>4

\* A new connection has nothing open.
LEMMA AnewEdited ==
    ASSUME Types, NEW q, ConnectInternal(q), NEW att,
           NEW s \in Socket,
           NEW f \in File, ~InStage(att, "open", s, f),
           Edited(att, link[s], q[s], inbox[s], rooms[s], s, f)
    PROVE  Edited(att, link'[s], outbox'[s], inbox'[s], rooms'[s], s, f)
<1>1. CASE s = sock
  <2>1. outbox'[s] = <<>> /\ inbox'[s] = <<>> /\ rooms'[s] = {}
    BY <1>1, AnewEffect
  <2> QED
    BY <2>1, EditedWiped
<1>2. CASE s # sock
  <2>1. outbox'[s] = q[s] /\ UNCHANGED <<inbox[s], rooms[s]>>
    BY <1>2, AnewEffect
  <2> QED
    BY <2>1, EditedClosed
<1> QED
  BY <1>1, <1>2

\* Selecting a file sends no edit of it before it is synced.
LEMMA SelectEdits ==
    ASSUME Types, Links, Attempts, Distinct, Asks, Edits, NEW g \in File,
           Select(g)
    PROVE  Edits'
<1>0. PageTypes /\ NetTypes
  BY DEF Types
<1>1. strays \subseteq strays' /\ UNCHANGED <<upset, refused>>
  BY <1>0, Selected
<1>a. "drop" \notin upset' => refused' \subseteq strays'
  BY <1>1, Orderlies
<1> SUFFICES ASSUME "drop" \notin upset', NEW s \in Socket, NEW f \in File,
                    f \notin strays'
             PROVE  Edited(attempt', link'[s], outbox'[s], inbox'[s], rooms'[s], s, f)
  BY <1>a DEF Edits
<1>2. /\ sock # 0 => Connected
      /\ Edited(attempt, link[s], outbox[s], inbox[s], rooms[s], s, f)
  BY <1>1, Orderlies
<1>3. Edited(Cancelled, link[s], LeftOpen[s], inbox[s], rooms[s], s, f)
  BY <1>2, LeavingEdited
<1>4. ~InStage(attempt', "open", s, f)
  BY SelectStages
<1>5. LeftOpen \in Queues /\ LeftOpen[s] \in Seq(ToServer) /\ sock \in 0 .. MaxSocket
  BY <1>0, Leaves, Numbers DEF Queues, NetTypes
<1>6. Connect(IF Connected THEN Emit(LeftOpen, sock, Message("join", g)) ELSE LeftOpen)
  BY DEF Select
<1>7. Edited(attempt', link[s], LeftOpen[s], inbox[s], rooms[s], s, f)
  BY <1>3, <1>4, EditedClosed
<1>8. CASE Connected
  <2> DEFINE m == Message("join", g)
  <2>1. /\ outbox' = Emit(LeftOpen, sock, m)
        /\ UNCHANGED <<inbox, rooms, link>>
    BY <1>6, <1>8 DEF Connect, serverVars
  <2>2. m \in ToServer /\ m \notin LeaveOf(f) /\ m \notin UpdateOf(f)
    BY ProjectRoom, Messages, Kinds
  <2> HIDE DEF m
  <2>3. outbox'[s] = IF s = sock THEN Append(LeftOpen[s], m) ELSE LeftOpen[s]
    BY <1>5, <1>8, <2>1, <2>2, Emitted DEF Connected
  <2>4. Edited(attempt', link[s], Append(LeftOpen[s], m), inbox[s], rooms[s], s, f)
    BY <1>5, <1>7, <2>2, EditedSends
  <2> QED
    BY <1>2, <1>7, <2>1, <2>3, <2>4
<1>9. CASE ~Connected
  <2>1. CASE connecting # 0
    <3>1. outbox' = LeftOpen /\ UNCHANGED <<inbox, rooms, link>>
      BY <1>6, <1>9, <2>1 DEF Connect, serverVars
    <3> QED
      BY <1>2, <1>7, <3>1
  <2>2. CASE connecting = 0
    <3>1. ConnectInternal(LeftOpen)
      BY <1>6, <1>9, <2>2 DEF Connect
    <3> QED
      BY <1>2, <1>4, <1>7, <3>1, AnewEdited
  <2> QED
    BY <2>1, <2>2
<1> QED
  BY <1>8, <1>9

\* Deselecting sends its leave after every edit.
LEMMA DeselectEdits ==
    ASSUME Types, Links, Attempts, Distinct, Asks, Edits, Deselect
    PROVE  Edits'
<1>1. /\ attempt' = Cancelled /\ Connect(LeftOpen)
      /\ UNCHANGED <<upset, refused, strays>>
  BY DEF Deselect, history
<1>a. "drop" \notin upset' => refused' \subseteq strays'
  BY <1>1, Orderlies
<1> SUFFICES ASSUME "drop" \notin upset', NEW s \in Socket, NEW f \in File,
                    f \notin strays'
             PROVE  Edited(attempt', link'[s], outbox'[s], inbox'[s], rooms'[s], s, f)
  BY <1>a DEF Edits
<1>2. Edited(attempt, link[s], outbox[s], inbox[s], rooms[s], s, f)
  BY <1>1, Orderlies
<1>3. Edited(Cancelled, link[s], LeftOpen[s], inbox[s], rooms[s], s, f)
  BY <1>2, LeavingEdited
<1>4. CASE ConnectInternal(LeftOpen)
  BY <1>1, <1>3, <1>4, LeavingStages, AnewEdited
<1>5. CASE ~ConnectInternal(LeftOpen)
  <2>1. outbox' = LeftOpen /\ UNCHANGED <<link, inbox, rooms>>
    BY <1>1, <1>5 DEF Connect, serverVars
  <2> QED
    BY <1>1, <1>3, <2>1
<1> QED
  BY <1>4, <1>5

\* Watching again is not about edits.
LEMMA RewatchEdits ==
    ASSUME Types, Links, Attempts, Distinct, Asks, Edits, Rewatch
    PROVE  Edits'
<1>0. PageTypes /\ NetTypes
  BY DEF Types
<1>1. UNCHANGED <<attempt, upset, refused, strays>>
  BY <1>0, Rewatched
<1>a. "drop" \notin upset' => refused' \subseteq strays'
  BY <1>1, Orderlies
<1> SUFFICES ASSUME "drop" \notin upset', NEW s \in Socket, NEW f \in File,
                    f \notin strays'
             PROVE  Edited(attempt, link'[s], outbox'[s], inbox'[s], rooms'[s], s, f)
  BY <1>1, <1>a DEF Edits
<1>2. /\ sock # 0 => Connected
      /\ Edited(attempt, link[s], outbox[s], inbox[s], rooms[s], s, f)
      /\ InStage(attempt, "open", s, f) => s = sock
  BY <1>1, Orderlies
<1> DEFINE leave == Message("leave", Project)  join == Message("join", Project)
<1>3. /\ leave \in ToServer /\ leave \notin LeaveOf(f) /\ leave \notin UpdateOf(f)
      /\ join \in ToServer /\ join \notin LeaveOf(f) /\ join \notin UpdateOf(f)
  BY ProjectRoom, Messages, Kinds
<1>4. /\ ReleasedProject \in Queues /\ ReleasedProject[s] \in Seq(ToServer)
      /\ sock \in 0 .. MaxSocket /\ outbox[s] \in Seq(ToServer)
  BY <1>0, Releases, Numbers DEF Queues, NetTypes
<1>5. ReleasedProject[s] = outbox[s] \/ ReleasedProject[s] = Append(outbox[s], leave)
  BY Releases
<1> HIDE DEF leave, join
<1>6. Edited(attempt, link[s], ReleasedProject[s], inbox[s], rooms[s], s, f)
  <2>1. Edited(attempt, link[s], Append(outbox[s], leave), inbox[s], rooms[s], s, f)
    BY <1>2, <1>3, <1>4, EditedSends
  <2> QED
    BY <1>2, <1>5, <2>1
<1>7. Edited(attempt, link[s], Append(ReleasedProject[s], join), inbox[s], rooms[s], s, f)
  BY <1>3, <1>4, <1>6, EditedSends
<1>8. CASE Connected
  <2>1. /\ outbox' = Emit(ReleasedProject, sock, join) \/ outbox' = ReleasedProject
        /\ UNCHANGED <<link, inbox, handling, rooms>>
    BY <1>0, <1>8, Rewatched DEF join
  <2> DEFINE sent == Emit(ReleasedProject, sock, join)
  <2>2. sent[s] = IF s = sock /\ link[s] # "closed" THEN Append(ReleasedProject[s], join)
                  ELSE ReleasedProject[s]
    BY <1>3, <1>4, Emitted
  <2>3. outbox'[s] = sent[s] \/ outbox'[s] = ReleasedProject[s]
    BY <2>1
  <2> HIDE DEF sent
  <2>4. outbox'[s] = Append(ReleasedProject[s], join) \/ outbox'[s] = ReleasedProject[s]
    BY <2>2, <2>3
  <2> QED
    BY <1>1, <1>6, <1>7, <2>1, <2>4
<1>9. CASE ~Connected /\ connecting # 0
  <2>1. outbox' = ReleasedProject /\ UNCHANGED <<link, inbox, handling, rooms>>
    BY <1>0, <1>9, Rewatched
  <2> QED
    BY <1>1, <1>6, <2>1
<1>10. CASE ~Connected /\ connecting = 0
  <2>1. ConnectInternal(ReleasedProject)
    BY <1>0, <1>10, Rewatched
  <2>2. sock = 0 /\ ~InStage(attempt, "open", s, f)
    BY <1>2, <1>10, Numbers
  <2> QED
    BY <1>1, <1>6, <2>1, <2>2, AnewEdited
<1> QED
  BY <1>8, <1>9, <1>10

\* The connection that is made has nothing open.
LEMMA ConnectOkEdits ==
    ASSUME Types, Links, Attempts, Distinct, Asks, Edits, ConnectOk
    PROVE  Edits'
<1>1. UNCHANGED <<inbox, handling, rooms, upset, refused, strays>>
  BY ConnectedNow
<1>a. "drop" \notin upset' => refused' \subseteq strays'
  BY <1>1, Orderlies
<1> SUFFICES ASSUME "drop" \notin upset', NEW s \in Socket, NEW f \in File,
                    f \notin strays'
             PROVE  Edited(attempt', link'[s], outbox'[s], inbox'[s], rooms'[s], s, f)
  BY <1>a DEF Edits
<1>2. /\ Edited(attempt, link[s], outbox[s], inbox[s], rooms[s], s, f)
      /\ InStage(attempt, "open", s, f) => link[s] = "up"
  BY <1>1, Orderlies
<1>3. InStage(attempt', "open", s, f) => InStage(attempt, "open", s, f)
  <2>1. \A a \in Attempt :
           /\ a \in WaitingAttempts => attempt'[a].stage = "joining"
           /\ a \notin WaitingAttempts => attempt'[a] = attempt[a]
    BY ConnectedNow
  <2> QED
    BY <2>1 DEF InStage
<1>4. CASE s # connecting
  <2>1. outbox'[s] = outbox[s] /\ link'[s] = link[s]
    BY <1>4, ConnectedNow
  <2> QED
    BY <1>1, <1>2, <1>3, <2>1, EditedStays
<1>5. CASE s = connecting
  <2>1. link[s] = "opening"
    BY <1>5, ConnectedNow
  <2>2. inbox[s] = <<>> /\ rooms[s] = {} /\ ~InStage(attempt', "open", s, f)
    BY <1>2, <1>3, <2>1 DEF Links, Idle
  <2>3. PICK q \in InOrder(WaitingAttempts) : outbox'[s] = Retains \o Joins(q)
    BY <1>5, ConnectedNow
  <2>4. /\ Retains \in Seq(ToServer) /\ Joins(q) \in Seq(ToServer)
        /\ ~Has(Retains, UpdateOf(f)) /\ ~Has(Joins(q), UpdateOf(f))
    BY RetainsHave, JoinsOf, JoinsHave
  <2>5. ~Has(outbox'[s], UpdateOf(f))
    BY <2>3, <2>4, JoinedHas
  <2>6. Before(outbox'[s], UpdateOf(f), LeaveOf(f))
    BY <2>5 DEF Has, Before
  <2>7. ~Has(inbox[s], SyncOf(f))
    BY <2>2, Nothing
  <2> QED
    BY <1>1, <2>2, <2>5, <2>6, <2>7 DEF Edited
<1> QED
  BY <1>4, <1>5

\* The connection that fails had nothing open.
LEMMA ConnectFailsEdits ==
    ASSUME Types, Links, Attempts, Distinct, Watches, Asks, Edits, ConnectFails
    PROVE  Edits'
<1>1. /\ UNCHANGED <<outbox, inbox, handling, rooms, refused, strays>>
      /\ upset \subseteq upset'
  BY ConnectFailsBasic
<1>a. "drop" \notin upset' => refused' \subseteq strays'
  BY <1>1, Orderlies
<1> SUFFICES ASSUME "drop" \notin upset', NEW s \in Socket, NEW f \in File,
                    f \notin strays'
             PROVE  Edited(attempt', link'[s], outbox'[s], inbox'[s], rooms'[s], s, f)
  BY <1>a DEF Edits
<1>2. Edited(attempt, link[s], outbox[s], inbox[s], rooms[s], s, f)
  BY <1>1, Orderlies
<1>3. InStage(attempt', "open", s, f) => InStage(attempt, "open", s, f)
  <2>1. \A a \in Attempt :
           /\ attempt'[a].file = attempt[a].file /\ attempt'[a].sock = attempt[a].sock
           /\ attempt'[a].stage = "open" => attempt[a].stage = "open"
    BY ConnectFailsBasic
  <2> QED
    BY <2>1 DEF InStage
<1>4. link[s] = "up" => link'[s] = "up"
  <2>1. connecting # 0 /\ link'[s] = IF s = connecting THEN "closed" ELSE link[s]
    BY ConnectFailsBasic
  <2> QED
    BY <2>1 DEF Links
<1> QED
  BY <1>1, <1>2, <1>3, <1>4, EditedStays

\* After a lost connection nothing is claimed of edits.
LEMMA LoseEdits ==
    ASSUME Types, Links, Attempts, Distinct, Watches, Asks, Edits, Lose
    PROVE  Edits'
<1>1. "drop" \in upset'
  BY LoseBasic
<1> QED
  BY <1>1 DEF Edits

\* A connection that is up again was lost before.
LEMMA ReconnectEdits ==
    ASSUME Types, Links, Attempts, Distinct, Watches, Asks, Edits, Reconnect
    PROVE  Edits'
<1>1. UNCHANGED <<upset, strays>> /\ sock # 0 /\ link[sock] = "down"
  BY DEF Reconnect, history
<1>2. "drop" \in upset'
  BY <1>1, Orderlies DEF Connected
<1> QED
  BY <1>2 DEF Edits

\* The connection that is closed has nothing open any more.
LEMMA UnmountEdits ==
    ASSUME Types, Links, Attempts, Distinct, Watches, Asks, Edits, Unmount
    PROVE  Edits'
<1>1. attempt' = Cancelled /\ UNCHANGED <<upset, refused, strays>>
  BY UnmountBasic DEF history
<1>a. "drop" \notin upset' => refused' \subseteq strays'
  BY <1>1, Orderlies
<1> SUFFICES ASSUME "drop" \notin upset', NEW s \in Socket, NEW f \in File,
                    f \notin strays'
             PROVE  Edited(attempt', link'[s], outbox'[s], inbox'[s], rooms'[s], s, f)
  BY <1>a DEF Edits
<1>2. /\ Edited(attempt, link[s], outbox[s], inbox[s], rooms[s], s, f)
      /\ ~InStage(attempt', "open", s, f)
  BY <1>1, Orderlies, LeavingStages
<1>3. Edited(attempt', link[s], outbox[s], inbox[s], rooms[s], s, f)
  BY <1>2, EditedClosed
<1>4. CASE ConnectInternal(outbox)
  BY <1>2, <1>3, <1>4, AnewEdited
<1>5. CASE ~ConnectInternal(outbox)
  <2>1. UNCHANGED <<link, outbox, inbox, rooms>>
    BY <1>5, UnmountBasic
  <2> QED
    BY <1>3, <2>1
<1> QED
  BY <1>4, <1>5

\* An edit is typed into a document the server has joined.
LEMMA EditEdits ==
    ASSUME Types, Links, Attempts, Distinct, Watches, Asks, Edits, Edit
    PROVE  Edits'
<1>1. UNCHANGED <<attempt, link, inbox, rooms, upset, refused, strays>>
  BY EditBasic DEF docVars, serverVars
<1>a. "drop" \notin upset' => refused' \subseteq strays'
  BY <1>1, Orderlies
<1> SUFFICES ASSUME "drop" \notin upset', NEW s \in Socket, NEW f \in File,
                    f \notin strays'
             PROVE  Edited(attempt', link'[s], outbox'[s], inbox'[s], rooms'[s], s, f)
  BY <1>a DEF Edits
<1>2. Edited(attempt, link[s], outbox[s], inbox[s], rooms[s], s, f)
  BY <1>1, Orderlies
<1> DEFINE g == attempt[selects].file  m == Message("update", g)
<1>3. /\ selects \in Attempt /\ attempt[selects].stage = "open" /\ g \in File
      /\ m \in ToServer
      /\ outbox'[s] = IF s = attempt[selects].sock /\ link[s] # "closed"
                      THEN Append(outbox[s], m) ELSE outbox[s]
  BY EditBasic
<1>4. m \notin LeaveOf(f) /\ (m \in UpdateOf(f) => g = f)
  BY <1>3, ProjectRoom, Kinds
<1>5. CASE s = attempt[selects].sock
  <2>1. m \in UpdateOf(f) => InStage(attempt, "open", s, f)
    BY <1>3, <1>4, <1>5 DEF InStage
  <2> HIDE DEF m
  <2>2. Edited(attempt, link[s], Append(outbox[s], m), inbox[s], rooms[s], s, f)
    BY <1>2, <1>3, <1>4, <2>1, Sequences, EditedSends
  <2> QED
    BY <1>1, <1>2, <1>3, <2>2
<1>6. CASE s # attempt[selects].sock
  BY <1>1, <1>2, <1>3, <1>6
<1> QED
  BY <1>5, <1>6

\* A timeout closes no document.
LEMMA TimeoutEdits ==
    ASSUME Types, Links, Attempts, Distinct, Watches, Asks, Edits,
           NEW a \in Attempt, Timeout(a)
    PROVE  Edits'
<1>1. /\ UNCHANGED <<link, outbox, inbox, rooms, refused, upset>>
      /\ strays \subseteq strays'
  BY TimeoutBasic DEF serverVars
<1>a. "drop" \notin upset' => refused' \subseteq strays'
  BY <1>1, Orderlies
<1> SUFFICES ASSUME "drop" \notin upset', NEW s \in Socket, NEW f \in File,
                    f \notin strays'
             PROVE  Edited(attempt', link'[s], outbox'[s], inbox'[s], rooms'[s], s, f)
  BY <1>a DEF Edits
<1>2. Edited(attempt, link[s], outbox[s], inbox[s], rooms[s], s, f)
  BY <1>1, Orderlies
<1>3. InStage(attempt', "open", s, f) => InStage(attempt, "open", s, f)
  <2>1. \A b \in Attempt :
           /\ attempt'[b].file = attempt[b].file /\ attempt'[b].sock = attempt[b].sock
           /\ attempt'[b].stage = "open" => attempt[b].stage = "open"
    BY TimeoutBasic
  <2> QED
    BY <2>1 DEF InStage
<1> QED
  BY <1>1, <1>2, <1>3, EditedStays

\* An update that the server takes is for a room it has the connection in.
LEMMA UpdateInRoom ==
    ASSUME Types, Links, Asks, Edits, "drop" \notin upset', upset \subseteq upset',
           strays \subseteq strays', NEW s \in Socket,
           outbox[s] # <<>>, Head(outbox[s]).kind = "update",
           Head(outbox[s]).room \notin strays'
    PROVE  Head(outbox[s]).room \in rooms[s]
<1> DEFINE m == Head(outbox[s])  g == m.room
<1>1. outbox[s] \in Seq(ToServer)
  BY DEF Types, NetTypes, Queues
<1>2. m \in ToServer
  BY <1>1
<1>3. g \in File /\ m = Message("update", g)
  BY <1>2 DEF ToServer, Message
<1>4. m \in UpdateOf(g)
  BY <1>3 DEF UpdateOf
<1>5. Has(outbox[s], UpdateOf(g))
  BY <1>1, <1>4, TailHas
<1> QED
  BY <1>3, <1>5, Orderlies DEF Edited

\* The server refuses no edit, and a leave it takes follows them all.
LEMMA TakeEdits ==
    ASSUME Types, Links, Attempts, Distinct, Watches, Asks, Edits,
           NEW s \in Socket, Take(s)
    PROVE  Edits'
<1> DEFINE o == outbox[s]  m == Head(outbox[s])
<1>1. /\ UNCHANGED <<attempt, link, upset, strays>> /\ o # <<>> /\ o \in Seq(ToServer)
      /\ m \in ToServer /\ outbox'[s] = Tail(o)
  BY TakeBasic DEF docVars
<1>a. "drop" \notin upset' => refused' \subseteq strays'
  <2>1. ASSUME "drop" \notin upset'
        PROVE  /\ refused \subseteq strays'
               /\ m.kind = "update" => m.room \in rooms[s] \cup strays'
    BY <1>1, <2>1, Orderlies, UpdateInRoom
  <2>2. \/ refused' = refused
        \/ /\ m.kind = "update" /\ m.room \notin rooms[s]
           /\ refused' = refused \cup {m.room}
    BY TakeBasic
  <2> QED
    BY <2>1, <2>2
<1> SUFFICES ASSUME "drop" \notin upset', NEW t \in Socket, NEW f \in File,
                    f \notin strays'
             PROVE  Edited(attempt', link'[t], outbox'[t], inbox'[t], rooms'[t], t, f)
  BY <1>a DEF Edits
<1>2. /\ Edited(attempt, link[t], outbox[t], inbox[t], rooms[t], t, f)
      /\ Asked(attempt, outbox[t], inbox[t], handling[t][f], rooms[t], t, f)
  BY <1>1, Orderlies
<1>3. CASE t # s
  <2>1. UNCHANGED <<outbox[t], inbox[t], rooms[t]>>
    BY <1>3, TakeBasic
  <2> QED
    BY <1>1, <1>2, <2>1
<1>4. CASE t = s
  <2>1. m = Message(m.kind, m.room) /\ m.room \in Room
    BY <1>1 DEF ToServer, Message
  <2>2. CASE m.kind = "leave" /\ m.room = f
    <3>1. rooms'[s] = rooms[s] \ {f} /\ inbox' = inbox
      BY <2>2, TakeBasic
    <3>2. m = Message("leave", f)
      BY <2>1, <2>2
    <3>3. Edited(attempt, link[s], Tail(o), inbox[s], rooms[s] \ {f}, s, f)
      BY <1>1, <1>2, <1>4, <3>2, EditedLeaveTaken
    <3> QED
      BY <1>1, <1>4, <3>1, <3>3
  <2>3. CASE ~(m.kind = "leave" /\ m.room = f)
    <3>1. m \notin LeaveOf(f)
      BY <2>1, <2>3 DEF LeaveOf, Message
    <3> DEFINE outside == Message("outside", m.room)
    <3>2. /\ f \in rooms[s] => f \in rooms'[s]
          /\ inbox'[s] \in {inbox[s], Append(inbox[s], outside)}
      <4>1. CASE m.kind = "leave"
        BY <2>3, <4>1, TakeBasic
      <4>2. CASE m.kind = "join"
        BY <4>2, TakeBasic
      <4>3. CASE m.kind = "update"
        BY <4>3, TakeBasic
      <4> QED
        BY <1>1, <4>1, <4>2, <4>3 DEF ToServer
    <3>3. Edited(attempt, link[s], Tail(o), inbox[s], rooms'[s], s, f)
      BY <1>1, <1>2, <1>4, <3>1, <3>2, EditedTaken
    <3>4. inbox[s] \in Seq(ToClient) /\ outside \in ToClient /\ outside \notin SyncOf(f)
      BY <2>1, Sequences, Messages, Kinds
    <3> HIDE DEF outside
    <3>5. Edited(attempt, link[s], Tail(o), Append(inbox[s], outside), rooms'[s], s, f)
      BY <3>3, <3>4, EditedTold
    <3> QED
      BY <1>1, <1>4, <3>2, <3>3, <3>5
  <2> QED
    BY <2>2, <2>3
<1> QED
  BY <1>3, <1>4

\* Who is synced is in the room.
LEMMA JoinDoneEdits ==
    ASSUME Types, Links, Attempts, Distinct, Watches, Asks, Edits,
           NEW s \in Socket, NEW r \in Room, JoinDone(s, r)
    PROVE  Edits'
<1>1. UNCHANGED <<attempt, link, outbox, upset, refused, strays>>
  BY JoinDoneBasic DEF docVars, history
<1>a. "drop" \notin upset' => refused' \subseteq strays'
  BY <1>1, Orderlies
<1> SUFFICES ASSUME "drop" \notin upset', NEW t \in Socket, NEW f \in File,
                    f \notin strays'
             PROVE  Edited(attempt', link'[t], outbox'[t], inbox'[t], rooms'[t], t, f)
  BY <1>a DEF Edits
<1>2. Edited(attempt, link[t], outbox[t], inbox[t], rooms[t], t, f)
  BY <1>1, Orderlies
<1>3. CASE t # s
  <2>1. UNCHANGED <<inbox[t], rooms[t]>>
    BY <1>3, JoinDoneBasic
  <2> QED
    BY <1>1, <1>2, <2>1
<1>4. CASE t = s
  <2> DEFINE m == Message("sync", r)
  <2>1. inbox[s] \in Seq(ToClient) /\ m \in ToClient /\ (m \in SyncOf(f) => r = f)
    BY Sequences, Messages, Kinds
  <2>2. /\ rooms'[s] = rooms[s] \cup {r}
        /\ inbox'[s] = IF r = Project THEN inbox[s] ELSE Append(inbox[s], m)
    BY JoinDoneBasic
  <2>3. /\ f \in rooms[s] => f \in rooms'[s]
        /\ f \in rooms[s] \/ m \in SyncOf(f) => f \in rooms'[s]
    BY <2>1, <2>2
  <2> HIDE DEF m
  <2>4. Edited(attempt, link[s], outbox[s], Append(inbox[s], m), rooms'[s], s, f)
    BY <1>2, <1>4, <2>1, <2>3, EditedTold
  <2>5. Edited(attempt, link[s], outbox[s], inbox[s], rooms'[s], s, f)
    BY <1>2, <1>4, <2>3, EditedStays
  <2> QED
    BY <1>1, <1>4, <2>2, <2>4, <2>5
<1> QED
  BY <1>3, <1>4

\* A refused join changes no room.
LEMMA JoinRefusedEdits ==
    ASSUME Types, Links, Attempts, Distinct, Watches, Asks, Edits,
           NEW s \in Socket, NEW r \in Room, JoinRefused(s, r)
    PROVE  Edits'
<1>1. /\ UNCHANGED <<attempt, link, outbox, rooms, refused, strays>>
      /\ upset \subseteq upset'
  BY JoinRefusedBasic DEF docVars
<1>a. "drop" \notin upset' => refused' \subseteq strays'
  BY <1>1, Orderlies
<1> SUFFICES ASSUME "drop" \notin upset', NEW t \in Socket, NEW f \in File,
                    f \notin strays'
             PROVE  Edited(attempt', link'[t], outbox'[t], inbox'[t], rooms'[t], t, f)
  BY <1>a DEF Edits
<1>2. Edited(attempt, link[t], outbox[t], inbox[t], rooms[t], t, f)
  BY <1>1, Orderlies
<1>3. CASE t # s
  <2>1. UNCHANGED <<inbox[t]>>
    BY <1>3, JoinRefusedBasic
  <2> QED
    BY <1>1, <1>2, <2>1
<1>4. CASE t = s
  <2> DEFINE m == Message("refused", r)
  <2>1. inbox[s] \in Seq(ToClient) /\ m \in ToClient /\ m \notin SyncOf(f)
    BY Sequences, Messages, Kinds
  <2>2. inbox'[s] = Append(inbox[s], m)
    BY JoinRefusedBasic
  <2> HIDE DEF m
  <2>4. Edited(attempt, link[s], outbox[s], Append(inbox[s], m), rooms[s], s, f)
    BY <1>2, <1>4, <2>1, EditedTold
  <2> QED
    BY <1>1, <1>4, <2>2, <2>4
<1> QED
  BY <1>3, <1>4

\* A sync opens the document while the connection is in its room.
LEMMA HearSyncEdits ==
    ASSUME Types, Links, Attempts, Distinct, Watches,
           NEW s \in Socket, Hear(s), HearSync(s, Head(inbox[s])),
           NEW f \in File, f \notin strays,
           Asked(attempt, outbox[s], inbox[s], handling[s][f], rooms[s], s, f),
           Edited(attempt, "up", outbox[s], inbox[s], rooms[s], s, f)
    PROVE  Edited(attempt', "up", outbox'[s], Tail(inbox[s]), rooms[s], s, f)
<1> DEFINE m == Head(inbox[s])  g == m.room
<1>1. /\ inbox[s] # <<>> /\ inbox[s] \in Seq(ToClient) /\ m \in ToClient
      /\ outbox[s] \in Seq(ToServer) /\ f \in Room
  BY HearBasic, Sequences
<1>2. PICK n \in Nat :
         /\ outbox'[s] = outbox[s] \o [i \in 1 .. n |-> Message("leave", g)]
         /\ n = 0 <=> ~ \E a \in Attempt :
                 /\ attempt[a].stage = "joining" /\ attempt[a].sock = s
                 /\ attempt[a].file = g /\ attempt[a].cancelled
  BY <1>1, HeardSync DEF Types
<1>3. /\ m = Message("sync", g) /\ g \in Room
      /\ \A a \in Attempt :
            /\ attempt'[a].file = attempt[a].file /\ attempt'[a].sock = attempt[a].sock
            /\ attempt'[a].cancelled = attempt[a].cancelled
            /\ attempt'[a].stage =
                 IF /\ attempt[a].stage = "joining" /\ attempt[a].sock = s
                    /\ attempt[a].file = g
                 THEN IF attempt[a].cancelled THEN "done" ELSE "open"
                 ELSE attempt[a].stage
  BY <1>1, HeardSync DEF Types
<1>4. CASE g = f
  <2>1. ASSUME InStage(attempt', "open", s, f), n # 0
        PROVE  FALSE
    <3>1. PICK a \in Attempt : attempt'[a].stage = "open" /\ attempt[a].file = f
      BY <1>3, <2>1 DEF InStage
    <3>2. PICK b \in Attempt : /\ attempt[b].stage = "joining" /\ attempt[b].sock = s
                               /\ attempt[b].file = f /\ attempt[b].cancelled
      BY <1>2, <1>4, <2>1
    <3>3. attempt[a].stage \in {"open", "joining"}
      BY <1>3, <3>1
    <3>4. a = b
      BY <3>1, <3>2, <3>3 DEF Distinct, Live
    <3> QED
      BY <1>3, <1>4, <3>1, <3>2, <3>4
  <2>2. m = Message("sync", f)
    BY <1>3, <1>4
  <2>3. Edited(attempt', "up", outbox[s] \o [i \in 1 .. n |-> Message("leave", f)],
               Tail(inbox[s]), rooms[s], s, f)
    BY <1>1, <2>1, <2>2, EditedSynced
  <2> QED
    BY <1>2, <1>4, <2>3
<1>5. CASE g # f
  <2>1. InStage(attempt', "open", s, f) => InStage(attempt, "open", s, f)
    BY <1>3, <1>5 DEF InStage
  <2>2. /\ Message("leave", g) \in ToServer /\ Message("leave", g) \notin LeaveOf(f)
        /\ Message("leave", g) \notin UpdateOf(f)
    BY <1>1, <1>3, <1>5, Kinds, Messages
  <2>3. Edited(attempt', "up", outbox[s], Tail(inbox[s]), rooms[s], s, f)
    BY <1>1, <2>1, EditedHears
  <2> DEFINE p == [i \in 1 .. n |-> Message("leave", g)]
  <2>4. /\ p \in Seq(ToServer) /\ ~Has(p, UpdateOf(f)) /\ ~Has(p, LeaveOf(f))
        /\ Before(p, UpdateOf(f), LeaveOf(f))
    BY <2>2, Repeats
  <2> HIDE DEF p
  <2>5. Edited(attempt', "up", outbox[s] \o p, Tail(inbox[s]), rooms[s], s, f)
    BY <1>1, <2>3, <2>4, EditedSendsAll
  <2> QED
    BY <1>2, <2>5 DEF p
<1> QED
  BY <1>4, <1>5

\* Whatever is heard, what is open is joined.
LEMMA HearEdits ==
    ASSUME Types, Links, Attempts, Distinct, Watches, Asks, Edits,
           NEW s \in Socket, Hear(s)
    PROVE  Edits'
<1>1. /\ strays \subseteq strays' /\ UNCHANGED <<link, handling, rooms, refused, upset>>
      /\ Head(inbox[s]) \in ToClient /\ link[s] = "up"
      /\ inbox[s] # <<>> /\ inbox[s] \in Seq(ToClient) /\ inbox'[s] = Tail(inbox[s])
  BY HearBasic DEF serverVars
<1>a. "drop" \notin upset' => refused' \subseteq strays'
  BY <1>1, Orderlies
<1> SUFFICES ASSUME "drop" \notin upset', NEW t \in Socket, NEW f \in File,
                    f \notin strays'
             PROVE  Edited(attempt', link'[t], outbox'[t], inbox'[t], rooms'[t], t, f)
  BY <1>a DEF Edits
<1>2. /\ Edited(attempt, link[t], outbox[t], inbox[t], rooms[t], t, f)
      /\ Asked(attempt, outbox[t], inbox[t], handling[t][f], rooms[t], t, f)
      /\ f \notin strays
  BY <1>1, Orderlies
<1>3. HearSync(s, Head(inbox[s])) \/ HearError(s, Head(inbox[s]))
  BY HearBasic
<1>4. CASE HearError(s, Head(inbox[s]))
  <2>1. /\ outbox' = outbox
        /\ \A a \in Attempt :
              /\ attempt'[a].file = attempt[a].file /\ attempt'[a].sock = attempt[a].sock
              /\ attempt'[a].stage = "open" => attempt[a].stage = "open"
    BY <1>1, <1>4, HeardError DEF Types
  <2>2. InStage(attempt', "open", t, f) => InStage(attempt, "open", t, f)
    BY <2>1 DEF InStage
  <2>3. CASE t = s
    <3>1. Edited(attempt', link[s], outbox[s], Tail(inbox[s]), rooms[s], s, f)
      BY <1>1, <1>2, <2>2, <2>3, EditedHears
    <3> QED
      BY <1>1, <2>1, <2>3, <3>1
  <2>4. CASE t # s
    <3>1. inbox'[t] = inbox[t]
      BY <2>4, HearBasic
    <3> QED
      BY <1>1, <1>2, <2>1, <2>2, <3>1, EditedStays
  <2> QED
    BY <2>3, <2>4
<1>5. CASE HearSync(s, Head(inbox[s]))
  <2>1. CASE t = s
    <3>1. Edited(attempt', "up", outbox'[s], Tail(inbox[s]), rooms[s], s, f)
      BY <1>1, <1>2, <1>5, <2>1, HearSyncEdits
    <3> QED
      BY <1>1, <2>1, <3>1
  <2>2. CASE t # s
    <3>1. inbox'[t] = inbox[t]
      BY <2>2, HearBasic
    <3>2. outbox'[t] = outbox[t]
      BY <1>1, <1>5, <2>2, HeardSync DEF Types
    <3>3. \A a \in Attempt :
             /\ attempt'[a].file = attempt[a].file /\ attempt'[a].sock = attempt[a].sock
             /\ attempt'[a].stage = attempt[a].stage \/ attempt[a].sock = s
      BY <1>1, <1>5, HeardSync DEF Types
    <3>4. InStage(attempt', "open", t, f) => InStage(attempt, "open", t, f)
      BY <2>2, <3>3 DEF InStage
    <3> QED
      BY <1>1, <1>2, <3>1, <3>2, <3>4, EditedStays
  <2> QED
    BY <2>1, <2>2
<1> QED
  BY <1>3, <1>4, <1>5

-------------------------------------------------------------------------------
(* Who watches the project                                                 *)

\* A step that leaves the watchers alone has to keep the last word.
LEMMA WatchedStays ==
    ASSUME Watched, UNCHANGED <<watch, watches, count, sock>>,
           UNCHANGED link, unjoined \subseteq unjoined',
           ASSUME Watching, watches \notin unjoined', sock # 0,
                  Kept(outbox[sock], handling[sock][Project], rooms[sock])
           PROVE  Kept(outbox'[sock], handling'[sock][Project], rooms'[sock])
    PROVE  Watched'
<1>1. Watching' <=> Watching
  BY DEF Watching
<1>2. /\ count' \in {0, 1} /\ (count' = 1 => Watching')
      /\ Watching' /\ sock' # 0 /\ link'[sock'] = "down" => watches' \in unjoined'
  BY <1>1 DEF Watched
<1>3. ASSUME Watching', watches' \notin unjoined'
      PROVE  /\ sock' # 0
             /\ Kept(outbox'[sock'], handling'[sock'][Project], rooms'[sock'])
  BY <1>1, <1>3 DEF Watched
<1> QED
  BY <1>2, <1>3 DEF Watched

\* The socket of the client is one of those that were made.
LEMMA OwnSocket ==
    ASSUME Types, sock # 0
    PROVE  sock \in Socket
<1>1. sock \in 0 .. MaxSocket
  BY Numbers DEF Types, NetTypes
<1> QED
  BY <1>1, Numbers

\* Whoever watches while a connection is made anew was struck already: only the
\* loss of a connection leaves the client with one that is not up.
LEMMA AnewWatched ==
    ASSUME Types, Links, Watched, NEW q, ConnectInternal(q), ~Connected,
           UNCHANGED <<watch, watches, unjoined>>
    PROVE  Watched'
<1>1. sock' = 0 /\ count' = 0
  BY DEF ConnectInternal, Types, NetTypes
<1>2. Watching' <=> Watching
  BY DEF Watching
<1>3. Watching => watches \in unjoined
  BY DEF Watched, Links, Connected
<1> QED
  BY <1>1, <1>2, <1>3 DEF Watched

\* The messages about documents do not leave the project.
LEMMA ProjectStays ==
    ASSUME NEW f \in File
    PROVE  /\ Message("leave", f) \in ToServer /\ Message("leave", f) \notin LeaveOf(Project)
           /\ Message("join", f) \in ToServer /\ Message("join", f) \notin LeaveOf(Project)
           /\ Message("update", f) \in ToServer /\ Message("update", f) \notin LeaveOf(Project)
BY ProjectRoom, Messages, Kinds

\* The cleanup of a document does not leave the project.
LEMMA LeavingKept ==
    ASSUME Types, Attempts, NEW s \in Socket, NEW h, NEW r,
           Kept(outbox[s], h, r)
    PROVE  Kept(LeftOpen[s], h, r)
<1>1. CASE LeftOpen[s] = outbox[s]
  BY <1>1
<1>2. CASE LeftOpen[s] # outbox[s]
  <2> DEFINE g == attempt[selects].file
  <2>1. /\ selects # 0 /\ attempt[selects].stage = "open"
        /\ LeftOpen[s] = Append(outbox[s], Message("leave", g))
    BY <1>2, Leaves
  <2>2. g \in File
    BY <2>1, Numbers DEF Types, PageTypes, Attempts
  <2>3. Message("leave", g) \in ToServer /\ Message("leave", g) \notin LeaveOf(Project)
    BY <2>2, ProjectStays
  <2>4. outbox[s] \in Seq(ToServer)
    BY DEF Types, NetTypes, Queues
  <2> QED
    BY <2>1, <2>3, <2>4, KeptSends
<1> QED
  BY <1>1, <1>2

\* Selecting a file does not leave the project.
LEMMA SelectWatched ==
    ASSUME Types, Links, Attempts, Watched, NEW g \in File, Select(g)
    PROVE  Watched'
<1>0. PageTypes /\ NetTypes
  BY DEF Types
<1>1. UNCHANGED <<watch, watches, unjoined>>
  BY <1>0, Selected
<1>2. Connect(IF Connected THEN Emit(LeftOpen, sock, Message("join", g)) ELSE LeftOpen)
  BY DEF Select
<1>3. CASE Connected
  <2> DEFINE m == Message("join", g)
  <2>1. /\ outbox' = Emit(LeftOpen, sock, m)
        /\ UNCHANGED <<count, sock, link, handling, rooms>>
    BY <1>2, <1>3 DEF Connect, serverVars
  <2>2. LeftOpen \in Queues /\ sock \in 0 .. MaxSocket
    BY <1>0, Leaves, Numbers DEF NetTypes
  <2>3. sock \in Socket
    BY <1>3, <2>2, Numbers DEF Connected
  <2>4. m \in ToServer /\ m \notin LeaveOf(Project) /\ LeftOpen[sock] \in Seq(ToServer)
    BY <2>2, <2>3, ProjectStays DEF Queues
  <2> HIDE DEF m
  <2>5. outbox'[sock] = Append(LeftOpen[sock], m)
    BY <1>3, <2>1, <2>2, <2>3, <2>4, Emitted DEF Connected
  <2>6. ASSUME Kept(outbox[sock], handling[sock][Project], rooms[sock])
        PROVE  Kept(outbox'[sock], handling'[sock][Project], rooms'[sock])
    <3>1. Kept(LeftOpen[sock], handling[sock][Project], rooms[sock])
      BY <2>3, <2>6, LeavingKept
    <3> QED
      BY <2>1, <2>4, <2>5, <3>1, KeptSends
  <2> QED
    BY <1>1, <2>1, <2>6, WatchedStays
<1>4. CASE ~Connected
  <2>1. CASE connecting # 0
    <3>1. sock = 0 /\ UNCHANGED <<count, sock, link>>
      BY <1>2, <1>4, <2>1 DEF Connect, Links
    <3> QED
      BY <1>1, <3>1, WatchedStays
  <2>2. CASE connecting = 0
    BY <1>1, <1>2, <1>4, <2>2, AnewWatched DEF Connect
  <2> QED
    BY <2>1, <2>2
<1> QED
  BY <1>3, <1>4

\* Deselecting does not leave the project.
LEMMA DeselectWatched ==
    ASSUME Types, Links, Attempts, Watched, Deselect
    PROVE  Watched'
<1>1. Connect(LeftOpen) /\ UNCHANGED <<watch, watches, unjoined>>
  BY DEF Deselect, history
<1>2. CASE Connected \/ connecting # 0
  <2>1. outbox' = LeftOpen /\ UNCHANGED <<count, sock, link, handling, rooms>>
    BY <1>1, <1>2 DEF Connect, serverVars
  <2>2. ASSUME sock # 0, Kept(outbox[sock], handling[sock][Project], rooms[sock])
        PROVE  Kept(outbox'[sock], handling'[sock][Project], rooms'[sock])
    BY <2>1, <2>2, OwnSocket, LeavingKept
  <2> QED
    BY <1>1, <2>1, <2>2, WatchedStays
<1>3. CASE ~(Connected \/ connecting # 0)
  BY <1>1, <1>3, AnewWatched DEF Connect
<1> QED
  BY <1>2, <1>3

\* The join of the new watcher follows the leave of the old one.
LEMMA RewatchWatched ==
    ASSUME Types, Links, Attempts, Watched, Rewatch
    PROVE  Watched'
<1>0. PageTypes /\ NetTypes
  BY DEF Types
<1>1. /\ watches + 1 \in Watch /\ watches' = watches + 1
      /\ watch'[watches + 1].stage = IF Connected THEN "active" ELSE "connecting"
  BY <1>0, Rewatched
<1>2. Watching' <=> Connected
  BY <1>1, Numbers DEF Watching
<1>4. References = 0
  BY DEF References, Watched
<1>5. CASE Connected
  <2> DEFINE m == Message("join", Project)
  <2>1. /\ outbox' = Emit(ReleasedProject, sock, m) /\ count' = 1
        /\ UNCHANGED <<sock, link, handling, rooms>>
    BY <1>0, <1>4, <1>5, Rewatched
  <2>2. /\ sock # 0 /\ sock \in Socket /\ sock \in 0 .. MaxSocket
        /\ link[sock] = "up"
    BY <1>5, OwnSocket, Numbers DEF Connected
  <2>3. m \in ToServer /\ ReleasedProject \in Queues
    BY Releases, ProjectRoom, Messages
  <2>4. outbox'[sock] = Append(ReleasedProject[sock], m)
    BY <1>5, <2>1, <2>2, <2>3, Emitted DEF Connected
  <2>5. Kept(outbox'[sock], handling'[sock][Project], rooms'[sock])
    BY <2>2, <2>3, <2>4, KeptJoins DEF Queues
  <2> QED
    BY <1>2, <1>5, <2>1, <2>2, <2>5 DEF Watched
<1>6. CASE ~Connected
  <2>1. count' = 0
    BY <1>0, <1>4, <1>6, Rewatched DEF ConnectInternal, NetTypes
  <2> QED
    BY <1>2, <1>6, <2>1 DEF Watched
<1> QED
  BY <1>5, <1>6

\* The watcher that waited joins; the cancelled do not leave it.
LEMMA ConnectOkWatched ==
    ASSUME Types, Links, Attempts, Watches, Watched, ConnectOk
    PROVE  Watched'
<1> DEFINE live == {w \in WaitingWatches : ~watch[w].cancelled}
<1>1. /\ connecting \in Socket /\ sock = 0 /\ sock' = connecting
      /\ UNCHANGED <<watches, handling, rooms, unjoined>>
      /\ count' = Cardinality(live) /\ link'[connecting] = "up"
  BY ConnectedNow
<1>2. \A w \in Watch :
        /\ watch'[w].cancelled = watch[w].cancelled
        /\ w \notin WaitingWatches => watch'[w] = watch[w]
        /\ w \in WaitingWatches =>
             /\ watch'[w].sock = connecting
             /\ watch'[w].stage = IF watch[w].cancelled THEN "done" ELSE "active"
  BY ConnectedNow
<1>3. watches \in 0 .. MaxWatch /\ connecting # 0
  BY <1>1, Numbers DEF Types, PageTypes
<1>4. live \subseteq {watches}
  <2>1. \A w \in live : w \in Watch /\ watch[w].stage = "connecting" /\ ~watch[w].cancelled
    BY Waiting
  <2>2. \A w \in live : ~(w < watches) /\ ~(w > watches) /\ w \in Nat
    BY <2>1, Numbers DEF Watches
  <2> QED
    BY <1>3, <2>2
<1>5. Watching => watches \in unjoined
  BY <1>1 DEF Watched
<1>6. CASE live = {}
  <2>1. count' = 0
    BY <1>1, <1>6, FS_EmptySet
  <2>2. Watching' => Watching
    BY <1>1, <1>2, <1>3, <1>6, Numbers DEF Watching
  <2> QED
    BY <1>1, <1>3, <1>5, <2>1, <2>2 DEF Watched
<1>7. CASE live # {}
  <2>1. live = {watches} /\ watches \in WaitingWatches /\ ~watch[watches].cancelled
    BY <1>4, <1>7
  <2>2. count' = 1
    BY <1>1, <2>1, FS_Singleton
  <2>3. watches \in Watch /\ watch'[watches].stage = "active"
    BY <1>2, <2>1, Waiting
  <2>4. Watching'
    BY <1>1, <2>3, Numbers DEF Watching
  <2>5. PICK q \in InOrder(WaitingAttempts) : outbox'[connecting] = Retains \o Joins(q)
    BY ConnectedNow
  <2>6. Joins(q) \in Seq(ToServer) /\ ~Has(Joins(q), LeaveOf(Project))
    <3>1. Joins(q) \in Seq(ToServer)
      BY JoinsOf
    <3>2. \A i \in DOMAIN Joins(q) : Joins(q)[i] \notin LeaveOf(Project)
      BY JoinsOf, Waiting, ProjectStays
    <3> QED
      BY <3>1, <3>2 DEF Has
  <2>7. Retains = Append(<<>>, Message("join", Project))
    BY <1>7, <2>1 DEF Retains
  <2>8. Kept(Retains, handling[connecting][Project], rooms[connecting])
    <3>1. <<>> \in Seq(ToServer)
      OBVIOUS
    <3>2. Kept(Append(<<>>, Message("join", Project)), handling[connecting][Project],
               rooms[connecting])
      BY <3>1, KeptJoins
    <3> QED
      BY <2>7, <3>2
  <2>9. Kept(outbox'[connecting], handling[connecting][Project], rooms[connecting])
    BY <2>5, <2>6, <2>8, RetainsType, KeptSendsAll
  <2> QED
    BY <1>1, <1>3, <2>2, <2>4, <2>9 DEF Watched
<1> QED
  BY <1>6, <1>7

\* A connection that fails had no watcher that was not struck.
LEMMA ConnectFailsWatched ==
    ASSUME Types, Links, Attempts, Distinct, Watches, Watched, ConnectFails
    PROVE  Watched'
<1>1. /\ sock = 0 /\ UNCHANGED <<watches, sock, count, unjoined>>
      /\ \A w \in Watch : watch'[w].stage = "active" => watch[w].stage = "active"
  BY ConnectFailsBasic
<1>2. count = 0
  BY <1>1 DEF Types, NetTypes
<1>3. Watching' => Watching
  <2>1. watches > 0 => watches \in Watch
    BY Numbers DEF Types, PageTypes
  <2> QED
    BY <1>1, <2>1 DEF Watching
<1>4. Watching => watches \in unjoined
  BY <1>1 DEF Watched
<1> QED
  BY <1>1, <1>2, <1>3, <1>4 DEF Watched

\* A connection that is lost strikes the watcher.
LEMMA LoseWatched ==
    ASSUME Types, Links, Attempts, Distinct, Watches, Watched, Lose
    PROVE  Watched'
<1>1. UNCHANGED <<watch, watches, count>> /\ watches \in unjoined'
  BY LoseBasic
<1> QED
  BY <1>1 DEF Watched, Watching

\* The join that is refused strikes the watcher, unless the connection is in the
\* room or another join is on its way.
LEMMA JoinRefusedWatched ==
    ASSUME Types, Links, Attempts, Distinct, Watches, Watched,
           NEW s \in Socket, NEW r \in Room, JoinRefused(s, r)
    PROVE  Watched'
<1>1. /\ UNCHANGED <<watch, watches, count, sock, link, outbox, rooms>>
      /\ unjoined \subseteq unjoined'
  BY JoinRefusedBasic DEF watchVars, clientVars
<1>2. ASSUME watches \notin unjoined', sock # 0,
             Kept(outbox[sock], handling[sock][Project], rooms[sock])
      PROVE  Kept(outbox[sock], handling'[sock][Project], rooms[sock])
  <2>1. sock \in Socket
    BY <1>2, OwnSocket
  <2>2. CASE s = sock /\ r = Project
    <3>1. /\ handling[s][r] \in Nat
          /\ handling[s][r] > 0 /\ handling'[s][r] = handling[s][r] - 1
      BY JoinRefusedBasic DEF Types, NetTypes
    <3>2. CASE handling[s][r] = 1 /\ r \notin rooms[s]
      <4>1. Has(outbox[s], JoinOf(Project))
        BY <1>2, <2>2, <3>2, JoinRefusedBasic
      <4>2. /\ Has(outbox[s], JoinOf(Project)) /\ ~Has(outbox[s], LeaveOf(Project))
            => Ends(outbox[s], JoinOf(Project), LeaveOf(Project))
        BY DEF Has, Ends
      <4> QED
        BY <1>2, <2>2, <4>1, <4>2 DEF Kept
    <3>3. CASE ~(handling[s][r] = 1 /\ r \notin rooms[s])
      BY <1>2, <2>2, <3>1, <3>3 DEF Kept
    <3> QED
      BY <3>2, <3>3
  <2>3. CASE ~(s = sock /\ r = Project)
    <3>1. handling'[sock][Project] = handling[sock][Project]
      BY <2>1, <2>3, ProjectRoom, JoinRefusedBasic
    <3> QED
      BY <1>2, <3>1
  <2> QED
    BY <2>2, <2>3
<1> QED
  BY <1>1, <1>2, WatchedStays

\* A connection that is up again finds the watcher struck.
LEMMA ReconnectWatched ==
    ASSUME Types, Links, Attempts, Distinct, Watches, Watched, Reconnect
    PROVE  Watched'
<1>1. /\ UNCHANGED <<watch, watches, count, sock, unjoined>>
      /\ sock # 0 /\ link[sock] = "down"
  BY DEF Reconnect, watchVars, clientVars, history
<1>2. Watching' <=> Watching
  BY <1>1 DEF Watching
<1> QED
  BY <1>1, <1>2 DEF Watched

\* A leave of the project that the server takes precedes a join.
LEMMA TakeWatched ==
    ASSUME Types, Links, Attempts, Distinct, Watches, Watched,
           NEW s \in Socket, Take(s)
    PROVE  Watched'
<1> DEFINE o == outbox[s]  m == Head(outbox[s])
<1>1. /\ UNCHANGED <<watch, watches, count, sock, link, unjoined>> /\ link[s] = "up"
      /\ o # <<>> /\ o \in Seq(ToServer) /\ m \in ToServer /\ outbox'[s] = Tail(o)
  BY TakeBasic DEF watchVars, clientVars
<1>2. s = sock
  BY <1>1 DEF Links
<1>3. handling[s][Project] \in Nat /\ handling'[s][Project] \in Nat
  <2>1. Types'
    BY TakeBasic
  <2> QED
    BY <2>1, ProjectRoom DEF Types, NetTypes
<1>4. /\ Project \in rooms[s] => Project \in rooms'[s] \/ m \in LeaveOf(Project)
      /\ m \in JoinOf(Project) => handling'[s][Project] > 0
      /\ handling[s][Project] > 0 => handling'[s][Project] > 0
  <2>1. /\ m = Message(m.kind, m.room) /\ m.room \in Room
        /\ m \in JoinOf(Project) => m.kind = "join" /\ m.room = Project
    BY <1>1 DEF ToServer, Message, JoinOf
  <2>2. CASE m.kind = "join"
    <3>1. /\ handling'[s][Project] = IF m.room = Project THEN handling[s][Project] + 1
                                     ELSE handling[s][Project]
          /\ rooms' = rooms
      BY <2>2, ProjectRoom, TakeBasic
    <3> QED
      BY <1>3, <2>1, <3>1
  <2>3. CASE m.kind = "leave"
    <3>1. rooms'[s] = rooms[s] \ {m.room} /\ handling' = handling
      BY <2>3, TakeBasic
    <3>2. m.room = Project => m \in LeaveOf(Project)
      BY <2>1, <2>3 DEF LeaveOf
    <3> QED
      BY <2>1, <2>3, <3>1, <3>2
  <2>4. CASE m.kind = "update"
    <3>1. rooms' = rooms /\ handling' = handling
      BY <2>4, TakeBasic
    <3> QED
      BY <2>1, <2>4, <3>1
  <2> QED
    BY <1>1, <2>2, <2>3, <2>4 DEF ToServer
<1>5. ASSUME Kept(o, handling[s][Project], rooms[s])
      PROVE  Kept(Tail(o), handling'[s][Project], rooms'[s])
  BY <1>1, <1>4, <1>5, KeptTaken
<1> QED
  BY <1>1, <1>2, <1>5, WatchedStays

\* The join that is done enters the room.
LEMMA JoinDoneWatched ==
    ASSUME Types, Links, Attempts, Distinct, Watches, Watched,
           NEW s \in Socket, NEW r \in Room, JoinDone(s, r)
    PROVE  Watched'
<1>1. UNCHANGED <<watch, watches, count, sock, link, unjoined, outbox>>
  BY JoinDoneBasic DEF watchVars, clientVars, history
<1>2. ASSUME sock # 0,
             Kept(outbox[sock], handling[sock][Project], rooms[sock])
      PROVE  Kept(outbox[sock], handling'[sock][Project], rooms'[sock])
  <2>1. sock \in Socket
    BY <1>2, OwnSocket
  <2>2. CASE s = sock
    <3>1. /\ rooms'[sock] = rooms[sock] \cup {r}
          /\ Project # r => handling'[sock][Project] = handling[sock][Project]
      BY <2>2, JoinDoneBasic, ProjectRoom
    <3>2. Project \in rooms[sock] \/ handling[sock][Project] > 0
             => Project \in rooms'[sock] \/ handling'[sock][Project] > 0
      BY <3>1
    <3> QED
      BY <1>2, <3>2 DEF Kept
  <2>3. CASE s # sock
    <3>1. rooms'[sock] = rooms[sock] /\ handling'[sock] = handling[sock]
      BY <2>1, <2>3, JoinDoneBasic
    <3> QED
      BY <1>2, <3>1
  <2> QED
    BY <2>2, <2>3
<1> QED
  BY <1>1, <1>2, WatchedStays

\* What is heard is not about the project.
LEMMA HearWatched ==
    ASSUME Types, Links, Attempts, Distinct, Watches, Watched,
           NEW s \in Socket, Hear(s)
    PROVE  Watched'
<1>1. /\ UNCHANGED <<watch, watches, count, sock, link, unjoined, handling, rooms>>
      /\ link[s] = "up" /\ Head(inbox[s]) \in ToClient
      /\ HearSync(s, Head(inbox[s])) \/ HearError(s, Head(inbox[s]))
  BY HearBasic DEF watchVars, clientVars, serverVars
<1>2. s = sock
  BY <1>1 DEF Links
<1>3. ASSUME Kept(outbox[s], handling[s][Project], rooms[s])
      PROVE  Kept(outbox'[s], handling[s][Project], rooms[s])
  <2>1. CASE HearError(s, Head(inbox[s]))
    <3>1. outbox' = outbox
      BY <1>1, <2>1, HeardError DEF Types
    <3> QED
      BY <1>3, <3>1
  <2>2. CASE HearSync(s, Head(inbox[s]))
    <3> DEFINE g == Head(inbox[s]).room
    <3>1. g \in Room
      BY <1>1, <2>2, HeardSync DEF Types
    <3>2. PICK n \in Nat :
             /\ outbox'[s] = outbox[s] \o [i \in 1 .. n |-> Message("leave", g)]
             /\ n = 0 <=> ~ \E a \in Attempt :
                     /\ attempt[a].stage = "joining" /\ attempt[a].sock = s
                     /\ attempt[a].file = g /\ attempt[a].cancelled
      BY <1>1, <2>2, HeardSync DEF Types
    <3> DEFINE m == Message("leave", g)  p == [i \in 1 .. n |-> m]
    <3>3. n > 0 => g \in File
      BY <3>2 DEF Attempts
    <3>4. m \in ToServer /\ (n > 0 => m \notin LeaveOf(Project))
      BY <3>1, <3>3, Messages, ProjectStays
    <3> HIDE DEF m
    <3>5. p \in Seq(ToServer) /\ ~Has(p, LeaveOf(Project))
      BY <3>4, Repeats
    <3>6. outbox[s] \in Seq(ToServer)
      BY DEF Types, NetTypes, Queues
    <3>7. outbox'[s] = outbox[s] \o p
      BY <3>2 DEF m
    <3> HIDE DEF p
    <3> QED
      BY <1>3, <3>5, <3>6, <3>7, KeptSendsAll
  <2> QED
    BY <1>1, <2>1, <2>2
<1> QED
  BY <1>1, <1>2, <1>3, WatchedStays

\* A timeout of an attempt is not about the project.
LEMMA TimeoutWatched ==
    ASSUME Types, Links, Attempts, Distinct, Watches, Watched,
           NEW a \in Attempt, Timeout(a)
    PROVE  Watched'
<1>1. UNCHANGED <<watch, watches, count, sock, link, unjoined, outbox, handling,
                  rooms>>
  BY TimeoutBasic DEF watchVars, clientVars, serverVars
<1> QED
  BY <1>1, WatchedStays

\* An edit does not leave the project.
LEMMA EditWatched ==
    ASSUME Types, Links, Attempts, Distinct, Watches, Watched, Edit
    PROVE  Watched'
<1>1. UNCHANGED <<watch, watches, count, sock, link, unjoined, handling, rooms>>
  BY EditBasic DEF watchVars, clientVars, serverVars
<1>2. ASSUME sock # 0,
             Kept(outbox[sock], handling[sock][Project], rooms[sock])
      PROVE  Kept(outbox'[sock], handling[sock][Project], rooms[sock])
  <2> DEFINE g == attempt[selects].file  m == Message("update", g)
  <2>1. sock \in Socket
    BY <1>2, OwnSocket
  <2>2. outbox[sock] \in Seq(ToServer)
    BY <2>1 DEF Types, NetTypes, Queues
  <2>3. g \in File
    BY EditBasic
  <2>4. m \in ToServer /\ m \notin LeaveOf(Project)
    BY <2>3, ProjectStays
  <2>5. outbox'[sock] = IF sock = attempt[selects].sock /\ link[sock] # "closed"
                        THEN Append(outbox[sock], m) ELSE outbox[sock]
    BY <2>1, EditBasic
  <2> HIDE DEF m
  <2>6. Kept(Append(outbox[sock], m), handling[sock][Project], rooms[sock])
    BY <1>2, <2>2, <2>4, KeptSends
  <2> QED
    BY <1>2, <2>5, <2>6
<1> QED
  BY <1>1, <1>2, WatchedStays

\* After the workspace is closed nobody watches.
LEMMA UnmountWatched ==
    ASSUME Types, Links, Attempts, Distinct, Watches, Watched, Unmount
    PROVE  Watched'
<1>1. watch' = Unwatched /\ count' = 0 /\ watches' = watches
  BY UnmountBasic
<1>2. watches \in 0 .. MaxWatch
  BY DEF Types, PageTypes
<1>3. ~Watching'
  <2>1. CASE watches = 0
    BY <1>1, <2>1 DEF Watching
  <2>2. CASE watches # 0
    <3>1. watches \in Watch
      BY <1>2, <2>2, Numbers
    <3>2. Unwatched[watches].stage # "active"
      BY <3>1, Viewers DEF Types
    <3> QED
      BY <1>1, <3>2 DEF Watching
  <2> QED
    BY <2>1, <2>2
<1> QED
  BY <1>1, <1>3 DEF Watched

-------------------------------------------------------------------------------
(* The invariant, and what it says                                         *)

\* The invariant holds before anything was selected.
LEMMA Begins == ASSUME Init PROVE CInv
<1>1. /\ \A a \in Attempt : attempt[a] = [file |-> NoFile, sock |-> 0, stage |-> "none",
                                          cancelled |-> FALSE]
      /\ \A w \in Watch : watch[w] = [sock |-> 0, cancelled |-> FALSE, stage |-> "none"]
      /\ \A s \in Socket : /\ link[s] = "none" /\ outbox[s] = <<>> /\ inbox[s] = <<>>
                           /\ rooms[s] = {} /\ \A r \in Room : handling[s][r] = 0
      /\ selects = 0 /\ watches = 0 /\ sock = 0 /\ sockets = 0 /\ connecting = 0
      /\ count = 0 /\ refused = {}
  BY DEF Init
<1>2. Types
  <2>1. PageTypes
    <3>1. 0 \in 0 .. MaxSocket /\ 0 \in 0 .. MaxSelect /\ 0 \in 0 .. MaxWatch
      BY Numbers
    <3>2. attempt \in [Attempt -> Try]
      BY <3>1 DEF Init, Try, Stage
    <3>3. watch \in [Watch -> Viewer]
      BY <3>1 DEF Init, Viewer
    <3> QED
      BY <3>1, <3>2, <3>3 DEF Init, PageTypes
  <2>2. outbox \in Queues /\ inbox \in [Socket -> Seq(ToClient)]
    BY DEF Init, Queues
  <2>3. /\ handling \in [Socket -> [Room -> Nat]] /\ rooms \in [Socket -> SUBSET Room]
        /\ link \in [Socket -> {"none", "opening", "up", "down", "closed"}]
    BY DEF Init
  <2>4. NetTypes
    BY <2>2, <2>3, Numbers DEF Init, NetTypes
  <2> QED
    BY <2>1, <2>4 DEF Types
<1>3. Links
  <2>1. \A s \in Socket : Idle(s)
    BY <1>1, Nothing DEF Idle
  <2> QED
    BY <1>1, <2>1, Numbers DEF Links
<1>4. Attempts /\ Distinct
  <2>1. \A a \in Attempt : attempt[a].stage = "none" /\ ~(a < selects)
    BY <1>1, Numbers
  <2> QED
    BY <2>1 DEF Attempts, Distinct, Live
<1>5. Watches
  BY <1>1, Numbers DEF Watches
<1>6. \A s \in Socket, f \in File : ~InStage(attempt, "open", s, f)
  BY <1>1 DEF InStage
<1>7. Asks
  BY <1>1, AskedWiped, ProjectRoom DEF Asks
<1>8. Edits
  BY <1>1, <1>6, EditedWiped DEF Edits
<1>9. Watched
  BY <1>1 DEF Watched, Watching
<1> QED
  BY <1>2, <1>3, <1>4, <1>5, <1>7, <1>8, <1>9 DEF CInv

\* The invariant is about the variables only.
LEMMA Stutters == ASSUME CInv, UNCHANGED vars PROVE CInv'
<1> USE DEF vars, docVars, watchVars, clientVars, serverVars, history
<1>1. Types'
  BY DEF CInv, Types, PageTypes, NetTypes
<1>2. Links'
  BY DEF CInv, Links, Idle
<1>3. Attempts' /\ Distinct' /\ Watches'
  BY DEF CInv, Attempts, Distinct, Live, Watches
<1>4. Asks'
  BY DEF CInv, Asks
<1>5. Edits'
  BY DEF CInv, Edits
<1>6. Watched'
  BY DEF CInv, Watched, Watching
<1> QED
  BY <1>1, <1>2, <1>3, <1>4, <1>5, <1>6 DEF CInv

\* Every action of the client, of the network and of the server keeps it.
LEMMA Steps == ASSUME CInv, [Next]_vars PROVE CInv'
<1>0. Types /\ Links /\ Attempts /\ Distinct /\ Asks /\ Edits /\ Watches /\ Watched
  BY DEF CInv
<1> SUFFICES /\ Types' /\ Links' /\ Attempts' /\ Distinct' /\ Asks' /\ Edits'
             /\ Watches' /\ Watched'
  BY DEF CInv
<1>1. CASE \E f \in File : Select(f)
  <2>1. PICK f \in File : Select(f)
    BY <1>1
  <2>2. UNCHANGED <<watch, watches>>
    BY <1>0, <2>1, Selected DEF Types
  <2>3. Watches'
    BY <1>0, <2>2 DEF Watches
  <2> QED
    BY <1>0, <2>1, <2>3, SelectBasic, SelectAsks, SelectEdits, SelectWatched
<1>2. CASE Deselect
  <2>1. UNCHANGED <<watch, watches>>
    BY <1>2 DEF Deselect
  <2>2. Watches'
    BY <1>0, <2>1 DEF Watches
  <2> QED
    BY <1>0, <1>2, <2>2, DeselectBasic, DeselectAsks, DeselectEdits,
       DeselectWatched
<1>3. CASE Rewatch
  BY <1>0, <1>3, RewatchBasic, RewatchAsks, RewatchEdits, RewatchWatched
<1>4. CASE Edit
  BY <1>0, <1>4, EditBasic, EditAsks, EditEdits, EditWatched
<1>5. CASE Unmount
  BY <1>0, <1>5, UnmountBasic, UnmountAsks, UnmountEdits, UnmountWatched
<1>6. CASE ConnectOk
  BY <1>0, <1>6, ConnectOkBasic, ConnectOkAsks, ConnectOkEdits, ConnectOkWatched
<1>7. CASE ConnectFails
  BY <1>0, <1>7, ConnectFailsBasic, ConnectFailsAsks, ConnectFailsEdits,
     ConnectFailsWatched
<1>8. CASE Lose
  BY <1>0, <1>8, LoseBasic, LoseAsks, LoseEdits, LoseWatched
<1>9. CASE Reconnect
  BY <1>0, <1>9, ReconnectBasic, ReconnectAsks, ReconnectEdits, ReconnectWatched
<1>10. ASSUME NEW s \in Socket, Take(s)
       PROVE  /\ Types' /\ Links' /\ Attempts' /\ Distinct' /\ Asks' /\ Edits'
              /\ Watches' /\ Watched'
  BY <1>0, <1>10, TakeBasic, TakeAsks, TakeEdits, TakeWatched
<1>11. ASSUME NEW s \in Socket, Hear(s)
       PROVE  /\ Types' /\ Links' /\ Attempts' /\ Distinct' /\ Asks' /\ Edits'
              /\ Watches' /\ Watched'
  BY <1>0, <1>11, HearBasic, HearAsks, HearEdits, HearWatched
<1>12. ASSUME NEW s \in Socket, NEW r \in Room, JoinDone(s, r)
       PROVE  /\ Types' /\ Links' /\ Attempts' /\ Distinct' /\ Asks' /\ Edits'
              /\ Watches' /\ Watched'
  BY <1>0, <1>12, JoinDoneBasic, JoinDoneAsks, JoinDoneEdits, JoinDoneWatched
<1>13. ASSUME NEW s \in Socket, NEW r \in Room, JoinRefused(s, r)
       PROVE  /\ Types' /\ Links' /\ Attempts' /\ Distinct' /\ Asks' /\ Edits'
              /\ Watches' /\ Watched'
  BY <1>0, <1>13, JoinRefusedBasic, JoinRefusedAsks, JoinRefusedEdits,
     JoinRefusedWatched
<1>14. ASSUME NEW a \in Attempt, Timeout(a)
       PROVE  /\ Types' /\ Links' /\ Attempts' /\ Distinct' /\ Asks' /\ Edits'
              /\ Watches' /\ Watched'
  BY <1>0, <1>14, TimeoutBasic, TimeoutAsks, TimeoutEdits, TimeoutWatched
<1>15. CASE UNCHANGED vars
  BY <1>15, Stutters DEF CInv
<1> QED
  BY <1>1, <1>2, <1>3, <1>4, <1>5, <1>6, <1>7, <1>8, <1>9, <1>10, <1>11, <1>12,
     <1>13,
     <1>14, <1>15 DEF Next

\* The invariant holds in every reachable state.
LEMMA ClientInvariant == Spec => []CInv
<1>1. Init => CInv
  BY Begins
<1>2. CInv /\ [Next]_vars => CInv'
  BY Steps
<1> QED
  BY <1>1, <1>2, PTL DEF Spec

\* The hook, its client and the server's side keep their types: one socket at a
\* time, references only while there is a socket (useCollabDoc, CollabClient).
THEOREM ClientTypes == Spec => []TypeOK
<1>1. CInv => TypeOK
  BY Typed DEF CInv
<1> QED
  BY <1>1, ClientInvariant, PTL

\* An edit of an open document reaches the server in its room (useCollabDoc,
\* handleDocUpdate), unless a connection was lost, or the file is one of strays:
\* an attempt of it settled before the answer to its own join, too late or by
\* another's error, or was made while another that was given up still waited.
THEOREM ClientEdits == Spec => []NoEditRefused
<1>1. CInv => NoEditRefused
  BY DEF CInv, Edits, NoEditRefused
<1> QED
  BY <1>1, ClientInvariant, PTL

\* Once all is settled the server has the connection in no document but the open
\* one: a file given up while its join was on the way is left again.  Excepted are
\* the files of strays: one that was selected again while an attempt of it that
\* was given up still waited, or whose answer came too late or was taken from it by
\* another's error, may stay joined for nobody.
THEOREM ClientLeaves == Spec => []NothingLeftBehind
<1>1. ASSUME CInv PROVE NothingLeftBehind
  <2> SUFFICES ASSUME Settled, NEW f \in rooms[sock] \ ({Project} \cup strays)
               PROVE  \E a \in Attempt : attempt[a].file = f /\ attempt[a].stage = "open"
    BY DEF NothingLeftBehind
  <2>1. /\ sock \in Socket /\ outbox[sock] = <<>> /\ inbox[sock] = <<>>
    <3>1. sock # 0 /\ sock \in 0 .. MaxSocket
      BY <1>1, Numbers DEF CInv, Types, NetTypes, Settled
    <3> QED
      BY <3>1, Numbers DEF Settled
  <2>2. f \in File
    BY <1>1, <2>1 DEF CInv, Types, NetTypes, Room
  <2>3. Asked(attempt, outbox[sock], inbox[sock], handling[sock][f], rooms[sock], sock, f)
    BY <1>1, <2>1, <2>2 DEF CInv, Asks
  <2>4. ~Has(inbox[sock], SyncOf(f)) /\ ~Has(outbox[sock], LeaveOf(f))
    BY <2>1, Nothing
  <2> QED
    BY <2>3, <2>4 DEF Asked, Accounted, InStage
<1> QED
  BY <1>1, ClientInvariant, PTL

\* Once all is settled who watches is in the project's room: no leave of an
\* earlier watcher (releaseProject) overtakes the join of a later one.  Excepted
\* is a watcher who watched when the connection was lost, whom nobody joins
\* again, and one whose join the server refused.
THEOREM ClientWatches == Spec => []WatcherIsMember
<1>1. ASSUME CInv PROVE WatcherIsMember
  <2> SUFFICES ASSUME Settled, Watching, watches \notin unjoined
               PROVE  Project \in rooms[sock]
    BY DEF WatcherIsMember
  <2>1. Kept(outbox[sock], handling[sock][Project], rooms[sock])
    BY <1>1 DEF CInv, Watched
  <2>2. outbox[sock] = <<>> /\ handling[sock][Project] = 0
    BY ProjectRoom DEF Settled
  <2>3. ~Ends(outbox[sock], JoinOf(Project), LeaveOf(Project))
    BY <2>2 DEF Ends
  <2> QED
    BY <2>1, <2>2, <2>3 DEF Kept
<1> QED
  BY <1>1, ClientInvariant, PTL

================================================================================
