------------------------------ MODULE Session ------------------------------
(***************************************************************************)
(* Browsers editing the replicated document: the WebSocket server of every *)
(* node (internal/server/websocket.go) and the page of every client        *)
(* (web/client.js), over module Document.                                  *)
(*                                                                         *)
(* A connection has a readPump on the server, which reads inbox, and a     *)
(* queue outbox, which stands for sendCh, writePump and the wire.  A page  *)
(* has a text A (base) of revision rev, at most one submitted changeset X  *)
(* (pending) and what its user has typed since (typed).                    *)
(***************************************************************************)
EXTENDS Document, FiniteSets

CONSTANTS
    None,          \* no leader known, no connection
    Cap,           \* capacity of outbox (sendCh has 256)
    MaxConn        \* bound: connections

ASSUME SessionAssumption ==
    /\ None \notin Node /\ None \notin Nat
    /\ Cap \in Nat \ {0}
    /\ MaxConn \in Nat

VARIABLES
    leaderID,   \* node -> the leader it knows, itself if it leads
    proposals,  \* node -> entries given to Apply() and not committed yet
    clients,    \* node -> client -> the connection registered for it
    conn,       \* the connections, in the order of their making
    page,       \* client -> the state of client.js
    wide,       \* the submissions with characters beyond ASCII
    \* history: clients whose message was dropped or overtaken, or who were
    \* reloaded while they waited; clients that have met a situation of AtRisk
    missed, exposed

serverVars == <<leaderID, proposals, clients>>
systemVars == <<docVars, serverVars, conn, page, wide, missed>>
vars == <<systemVars, exposed>>

-----------------------------------------------------------------------------
(* Messages and connections *)

\* The steps of handleConnect, a readPump that waits for the next message, and
\* the two steps of its deferred clean-up.
Connecting == {"registered", "caughtUp", "hasText", "hasRev"}
Stages == {"new", "serving", "removed", "closed"} \cup Connecting

Message ==
         [type : {"CONNECT_ACK"}, text : Seq(Revision), rev : Nat, catchUp : Seq(Revision)]
    \cup [type : {"ACK"}, rev : Nat]
    \cup [type : {"BROADCAST"}, edit : Revision, rev : Nat]
    \cup [type : {"REDIRECT"}, to : Node]

\* up: both ends take the connection for open.  event: the page's onclose is
\* still to come.
Connection ==
    [client : Client, node : Node, known : Nat, stage : Stages, up : BOOLEAN,
     event : BOOLEAN, catchUp : Seq(Revision), text : Seq(Revision), rev : Nat,
     inbox : Seq(RaftLogEntry), outbox : Seq(Message)]

\* send: a full queue drops the message.  Nobody reads one that is down.
HasRoom(k) == Len(conn[k].outbox) < Cap

Sent(k, msg) == IF conn[k].up /\ HasRoom(k) THEN Append(conn[k].outbox, msg)
                                            ELSE conn[k].outbox

Dropped(k) == IF conn[k].up /\ ~HasRoom(k) THEN {conn[k].client} ELSE {}

-----------------------------------------------------------------------------
(* Pages *)

\* typed: "screen" when the editor shows what Y does not have yet, "Y" when
\* handleBroadcast has put it there.  running: the submission timer is set and
\* the editor enabled.  timers, addr: handleRedirect's reconnections to come, and
\* where the address field sends them.
Page ==
    [ws : Nat, ready : BOOLEAN, running : BOOLEAN, base : Seq(Revision), rev : Nat,
     pending : BOOLEAN, waiting : BOOLEAN, sub : Nat, typed : {"no", "screen", "Y"},
     timers : Nat, addr : Node \cup {None}]

\* A page that has just been loaded; the submission number is in localStorage.
NewPage(sub) ==
    [ws |-> 0, ready |-> FALSE, running |-> FALSE, base |-> <<>>, rev |-> 0,
     pending |-> FALSE, waiting |-> FALSE, sub |-> sub, typed |-> "no",
     timers |-> 0, addr |-> None]

\* The page has the server's text of the revision it names.
InStep(c) ==
    /\ page[c].rev <= HeadRev(Final)
    /\ page[c].base = SubSeq(Final.revisions, 1, page[c].rev)

\* A with the edits folded in, one after the other.  They fit if they were made
\* for the text that the page has; any of them may fit another text or not.
NextRevisions(c, edits) ==
    InStep(c) /\ \A i \in DOMAIN edits :
        page[c].rev + i <= HeadRev(Final) /\ edits[i] = Final.revisions[page[c].rev + i]

\* Some of the edits, in their order.
Parts(edits) ==
    {[i \in DOMAIN f |-> edits[f[i]]] :
        f \in {f \in UNION {[1..m -> DOMAIN edits] : m \in 0..Len(edits)} :
                 \A i, j \in DOMAIN f : i < j => f[i] < f[j]}}

Folded(c, edits) ==
    {page[c].base \o part :
        part \in IF NextRevisions(c, edits) THEN {edits} ELSE Parts(edits)}

Open(c) == page[c].ws # 0 /\ conn[page[c].ws].up

Init ==
    /\ DocInit
    /\ leaderID \in {[n \in Node |-> l] : l \in Node}
    /\ proposals = [n \in Node |-> <<>>]
    /\ clients = [n \in Node |-> [c \in Client |-> 0]]
    /\ conn = <<>>
    /\ page = [c \in Client |-> NewPage(0)]
    /\ wide = {} /\ missed = {} /\ exposed = {}

-----------------------------------------------------------------------------
(* The page: connections *)

\* connectToServer and onWsOpen: CONNECT is on its way.
OpenConnection(c, n, p) ==
    /\ Len(conn) < MaxConn
    /\ conn' = Append(conn, [client |-> c, node |-> n, known |-> page[c].rev,
                             stage |-> "new", up |-> TRUE, event |-> FALSE,
                             catchUp |-> <<>>, text |-> <<>>, rev |-> 0,
                             inbox |-> <<>>, outbox |-> <<>>])
    /\ page' = [page EXCEPT ![c] = [p EXCEPT !.ws = Len(conn) + 1]]
    /\ UNCHANGED <<docVars, serverVars, wide, missed>>

\* The button is enabled when onWsClose has run; it takes the address that the
\* user has typed, and so do the timers that are still to fire.
Connect(c, n) ==
    /\ page[c].ws = 0
    /\ OpenConnection(c, n, [page[c] EXCEPT !.addr = IF page[c].timers = 0 THEN None ELSE n])

\* A timer of handleRedirect, whether or not the old socket has closed.
Reconnect(c) ==
    /\ page[c].timers > 0
    /\ OpenConnection(c, page[c].addr,
                      [page[c] EXCEPT !.timers = @ - 1,
                                      !.addr = IF page[c].timers = 1 THEN None ELSE @])

\* A connection that goes down: what is under way to the page is lost, what is
\* under way to the server may still be read.
Down(k) == [k EXCEPT !.up = FALSE, !.event = TRUE, !.outbox = <<>>]

Drop(k) ==
    /\ Fault
    /\ conn[k].up
    /\ conn' = [conn EXCEPT ![k] = Down(@)]
    /\ UNCHANGED <<committedVars, serverVars, page, wide, missed>>

\* The event may be that of an older socket than ws.
OnWsClose(k) ==
    /\ conn[k].event
    /\ conn' = [conn EXCEPT ![k].event = FALSE]
    /\ page' = [page EXCEPT ![conn[k].client].ws = 0, ![conn[k].client].running = FALSE]
    /\ UNCHANGED <<docVars, serverVars, wide, missed>>

\* The user loads the page again.
Reload(c) ==
    /\ Fault
    /\ page' = [page EXCEPT ![c] = NewPage(page[c].sub)]
    /\ conn' = [k \in DOMAIN conn |->
                  IF conn[k].client = c THEN [Down(conn[k]) EXCEPT !.event = FALSE]
                                        ELSE conn[k]]
    /\ missed' = IF page[c].waiting THEN missed \cup {c} ELSE missed
    /\ UNCHANGED <<committedVars, serverVars, wide>>

-----------------------------------------------------------------------------
(* The page: typing and submitting *)

\* Entries of client c that node n has not applied yet.
UnderWay(c, n) ==
    {e \in (UNION {{conn[k].inbox[i] : i \in DOMAIN conn[k].inbox} : k \in DOMAIN conn})
           \cup (UNION {{proposals[m][i] : i \in DOMAIN proposals[m]} : m \in Node})
           \cup {log[i] : i \in (lastApplied[n] + 1)..Len(log)} : e.client = c}

\* Answers for client c that node n owes it or has sent it.
AnswerDue(c, n) ==
    \/ \E i \in DOMAIN callbacks[n] : callbacks[n][i].client = c
    \/ \E k \in DOMAIN conn : /\ conn[k].client = c /\ conn[k].node = n
                              /\ \E i \in DOMAIN conn[k].outbox : conn[k].outbox[i].type = "ACK"

InHand(c, n) == UnderWay(c, n) # {} \/ AnswerDue(c, n)

Type(c) ==
    /\ page[c].running /\ page[c].typed = "no" /\ page[c].sub < MaxSub[c]
    /\ page' = [page EXCEPT ![c].typed = "screen"]
    /\ UNCHANGED <<serverVars, conn, missed>>

\* The user types ASCII, or something else, which is rare.
TypeAscii(c) == Type(c) /\ UNCHANGED <<docVars, wide>>

TypeWide(c) ==
    /\ Fault
    /\ Type(c)
    /\ wide' = wide \cup {[client |-> c, sub |-> page[c].sub + 1]}
    /\ UNCHANGED committedVars

\* Mutant: the revision that the submission is to become.
NextRev(c) == page[c].rev + 1

BaseRev(c) == page[c].rev

\* sendSubmit, with the base revision of this moment.
SendSubmit(c, sub) ==
    \E fits \in IF InStep(c) THEN {TRUE} ELSE BOOLEAN :
        conn' = [conn EXCEPT ![page[c].ws].inbox =
                   Append(@, [client |-> c, sub |-> sub, base |-> BaseRev(c), fits |-> fits])]

\* submitTick with something to submit: Y becomes X.
Submit(c) ==
    /\ page[c].running /\ Open(c)
    /\ ~page[c].waiting /\ page[c].typed # "no"
    /\ page' = [page EXCEPT ![c].pending = TRUE, ![c].waiting = TRUE,
                            ![c].sub = @ + 1, ![c].typed = "no"]
    /\ NewSubmission(c)
    /\ SendSubmit(c, page[c].sub + 1)
    /\ UNCHANGED <<serverVars, wide, missed>>

\* submitTick two seconds after the last attempt.  That the first is still
\* under way by then counts as a fault.
\* Mutant: the second attempt is a new submission.
NextSub(c) == page[c].sub + 1

ResentSub(c) == page[c].sub

\* submitTick does something else than to look for typed text.
\* Mutant: nothing is sent twice.
NeverAgain(c) == FALSE

HasPendingX(c) == page[c].running /\ Open(c) /\ page[c].waiting

Resubmit(c) ==
    /\ HasPendingX(c)
    /\ IF InHand(c, conn[page[c].ws].node) THEN Fault ELSE UNCHANGED faults
    /\ SendSubmit(c, ResentSub(c))
    /\ UNCHANGED <<committedVars, serverVars, page, wide, missed>>

-----------------------------------------------------------------------------
(* The page: messages *)

\* X and Y are rebased over what the page has missed, or replaced by identities
\* if the result does not fit: Y is rebased with the wrong X (client.js:402), so
\* that depends on the changesets.  An X made for the empty text does not fit the
\* text that it made itself.  What is on the screen only is overwritten.
HandleConnectAck(c, msg) ==
    LET p     == page[c]
        moved == IF p.rev = 0 THEN msg.text # p.base ELSE msg.catchUp # <<>>
        own   == p.rev = 0 /\ p.pending /\ msg.text = <<[client |-> c, sub |-> p.sub]>>
        kept  == [p EXCEPT !.typed = IF @ = "Y" THEN "Y" ELSE "no"]
        reset == [p EXCEPT !.typed = "no", !.pending = FALSE]
    IN  \E base \in IF p.rev = 0 THEN {msg.text} ELSE Folded(c, msg.catchUp) :
        \E q \in (IF p.ready /\ ~own THEN {kept} ELSE {})
                 \cup (IF ~p.ready \/ moved \/ ~InStep(c) THEN {reset} ELSE {}) :
           page' = [page EXCEPT ![c] = [q EXCEPT !.base = base, !.rev = msg.rev,
                                                 !.ready = TRUE, !.running = TRUE]]

\* Whatever X is by now is taken for what the server has committed.  Before the
\* first CONNECT_ACK the handler fails on A = null.
HandleAck(c, msg) ==
    LET p == page[c]
    IN  page' = [page EXCEPT ![c] =
                   IF ~p.ready THEN p
                   ELSE [p EXCEPT !.base = IF p.pending
                                             THEN Append(@, [client |-> c, sub |-> p.sub])
                                             ELSE @,
                                  !.pending = FALSE, !.waiting = FALSE, !.rev = msg.rev]]

\* Y is brought up to date with the screen first.
HandleBroadcast(c, msg) ==
    LET p == page[c]
    IN  \E base \in Folded(c, <<msg.edit>>) :
           page' = [page EXCEPT ![c] =
                      IF ~p.ready THEN p
                      ELSE [p EXCEPT !.base = base,
                                     !.rev = IF base = p.base THEN @ ELSE msg.rev,
                                     !.typed = IF @ = "no" THEN "no" ELSE "Y"]]

\* The page closes its socket and will connect to the leader.
HandleRedirect(c, k, msg) ==
    /\ page' = [page EXCEPT ![c].timers = @ + 1, ![c].addr = msg.to]
    /\ conn' = [j \in DOMAIN conn |->
                  LET d == IF j = k THEN [conn[j] EXCEPT !.outbox = Tail(@)] ELSE conn[j]
                  IN  IF j = page[c].ws /\ d.up THEN Down(d) ELSE d]

\* onWsMessage
Receive(k) ==
    LET c   == conn[k].client
        msg == Head(conn[k].outbox)
    IN  /\ conn[k].up /\ conn[k].outbox # <<>>
        /\ IF msg.type = "REDIRECT" THEN HandleRedirect(c, k, msg)
           ELSE /\ conn' = [conn EXCEPT ![k].outbox = Tail(@)]
                /\ \/ msg.type = "CONNECT_ACK" /\ HandleConnectAck(c, msg)
                   \/ msg.type = "ACK" /\ HandleAck(c, msg)
                   \/ msg.type = "BROADCAST" /\ HandleBroadcast(c, msg)
        /\ UNCHANGED <<docVars, serverVars, wide, missed>>

-----------------------------------------------------------------------------
(* The server: handleConnect *)

\* The client is registered before anything is read; an older connection of the
\* same client loses its place.
Register(k) ==
    /\ conn[k].stage = "new"
    /\ conn' = [conn EXCEPT ![k].stage = "registered"]
    /\ clients' = [clients EXCEPT ![conn[k].node][conn[k].client] = k]
    /\ UNCHANGED <<docVars, leaderID, proposals, page, wide, missed>>

\* Leader check: a follower that knows the leader sends the client there.
RedirectConnect(k) ==
    LET n == conn[k].node
    IN  /\ conn[k].stage = "registered"
        /\ leaderID[n] \notin {n, None}
        /\ conn' = [conn EXCEPT ![k].stage = "serving", ![k].known = 0,
                                ![k].outbox = Sent(k, [type |-> "REDIRECT", to |-> leaderID[n]])]
        /\ missed' = missed \cup Dropped(k)
        /\ UNCHANGED <<docVars, serverVars, page, wide>>

\* RevisionsSince(last_known_rev), nothing if that is not below the head.
\* Mutant: one revision too few.
RevisionsAfter(n, known) == SubSeq(doc[n].revisions, known + 2, HeadRev(doc[n]))

RevisionsSince(n, known) == SubSeq(doc[n].revisions, known + 1, HeadRev(doc[n]))

\* Leader check passed, or no leader known.
ReadRevisions(k) ==
    LET n == conn[k].node
    IN  /\ conn[k].stage = "registered"
        /\ leaderID[n] \in {n, None}
        /\ conn' = [conn EXCEPT ![k].stage = "caughtUp",
                                ![k].catchUp = RevisionsSince(n, conn[k].known)]
        /\ UNCHANGED <<docVars, serverVars, page, wide, missed>>

\* HeadText and HeadRev lock the state machine one after the other.
ReadText(k) ==
    /\ conn[k].stage = "caughtUp"
    /\ conn' = [conn EXCEPT ![k].stage = "hasText", ![k].text = doc[conn[k].node].revisions]
    /\ UNCHANGED <<docVars, serverVars, page, wide, missed>>

ReadRev(k) ==
    /\ conn[k].stage = "hasText"
    /\ conn' = [conn EXCEPT ![k].stage = "hasRev", ![k].rev = HeadRev(doc[conn[k].node])]
    /\ UNCHANGED <<docVars, serverVars, page, wide, missed>>

SendConnectAck(k) ==
    /\ conn[k].stage = "hasRev"
    /\ conn' = [conn EXCEPT ![k] =
                  [conn[k] EXCEPT !.stage = "serving", !.known = 0,
                     !.catchUp = <<>>, !.text = <<>>, !.rev = 0,
                     !.outbox = Sent(k, [type |-> "CONNECT_ACK", text |-> conn[k].text,
                                         rev |-> conn[k].rev, catchUp |-> conn[k].catchUp])]]
    /\ missed' = missed \cup Dropped(k)
    /\ UNCHANGED <<docVars, serverVars, page, wide>>

-----------------------------------------------------------------------------
(* The server: handleSubmit and the end of a connection *)

\* Where the page goes after a REDIRECT; it takes an empty address for the one
\* it has.
\* Mutant: the empty address is used.
LeaderAddr(n) == leaderID[n]

WsAddr(n) == IF leaderID[n] = None THEN n ELSE leaderID[n]

\* A follower answers with the leader's address, or with an empty one.
RedirectSubmit(k) ==
    /\ leaderID[conn[k].node] # conn[k].node
    /\ conn' = [conn EXCEPT ![k].inbox = Tail(@),
                            ![k].outbox = Sent(k, [type |-> "REDIRECT",
                                                   to   |-> WsAddr(conn[k].node)])]
    /\ missed' = missed \cup Dropped(k)
    /\ UNCHANGED proposals

\* Validate counts bytes: the page is sent an ERROR, which it only logs.
RefuseSubmit(k) ==
    /\ leaderID[conn[k].node] = conn[k].node
    /\ EditOf(Head(conn[k].inbox)) \in wide
    /\ conn' = [conn EXCEPT ![k].inbox = Tail(@)]
    /\ UNCHANGED <<proposals, missed>>

\* The entry goes to Raft.  The handler waits for it five seconds at most, and
\* nothing depends on what it is told.
Propose(k) ==
    /\ leaderID[conn[k].node] = conn[k].node
    /\ EditOf(Head(conn[k].inbox)) \notin wide
    /\ conn' = [conn EXCEPT ![k].inbox = Tail(@)]
    /\ proposals' = [proposals EXCEPT ![conn[k].node] = Append(@, Head(conn[k].inbox))]
    /\ UNCHANGED missed

HandleSubmit(k) ==
    /\ conn[k].stage = "serving" /\ conn[k].inbox # <<>>
    /\ RedirectSubmit(k) \/ RefuseSubmit(k) \/ Propose(k)
    /\ UNCHANGED <<docVars, leaderID, clients, page, wide>>

\* readPump's read fails.  removeClient goes by the client's name, whichever
\* connection is registered under it.
\* Mutant: sendCh is closed first.
CloseFirst(k) ==
    /\ conn[k].stage = "serving" /\ ~conn[k].up
    /\ conn' = [conn EXCEPT ![k].stage = "closed", ![k].inbox = <<>>]
    /\ UNCHANGED <<docVars, serverVars, page, wide, missed>>

RemoveClient(k) ==
    /\ conn[k].stage = "serving" /\ ~conn[k].up
    /\ conn' = [conn EXCEPT ![k].stage = "removed", ![k].inbox = <<>>]
    /\ clients' = [clients EXCEPT ![conn[k].node][conn[k].client] = 0]
    /\ UNCHANGED <<docVars, leaderID, proposals, page, wide, missed>>

\* Then sendCh is closed; a connection without CONNECT has none.
CloseChannel(k) ==
    /\ conn[k].stage = "removed" \/ (conn[k].stage = "new" /\ ~conn[k].up)
    /\ conn' = [conn EXCEPT ![k].stage = "closed", ![k].known = 0,
                            ![k].inbox = <<>>]
    /\ UNCHANGED <<docVars, serverVars, page, wide, missed>>

-----------------------------------------------------------------------------
(* The server: onCommit *)

\* What onCommit has for a client: the author is answered, the others are told
\* of a new revision.
\* Mutant: a duplicate is broadcast as well.
NewsAlways(c, r) ==
    IF c = r.client THEN <<[type |-> "ACK", rev |-> r.rev]>>
    ELSE <<[type |-> "BROADCAST", edit |-> r.edit, rev |-> r.rev]>>

News(c, r) ==
    IF c = r.client THEN <<[type |-> "ACK", rev |-> r.rev]>>
    ELSE IF ~r.dup THEN <<[type |-> "BROADCAST", edit |-> r.edit, rev |-> r.rev]>>
    ELSE <<>>

\* The connections of node n that are registered and have news.
Told(n, r) ==
    {k \in DOMAIN conn : \E c \in Client : clients[n][c] = k /\ News(c, r) # <<>>}

\* The i-th goroutine runs: the ones before it, if any, are overtaken.
OnCommit(n, i) ==
    LET r == callbacks[n][i]
    IN  /\ RunCallback(n, i)
        /\ conn' = [k \in DOMAIN conn |->
                      IF k \in Told(n, r)
                        THEN [conn[k] EXCEPT !.outbox = Sent(k, News(conn[k].client, r)[1])]
                        ELSE conn[k]]
        /\ missed' = missed \cup (UNION {Dropped(k) : k \in Told(n, r)})
                       \cup {c \in Client : i > 1 /\ clients[n][c] # 0}
        /\ UNCHANGED <<serverVars, page, wide>>

-----------------------------------------------------------------------------
(* Raft and the nodes *)

\* Entries of one node commit in their order; any may be lost with a leadership.
CommitProposal(n) ==
    /\ proposals[n] # <<>>
    /\ Commit(Head(proposals[n]))
    /\ proposals' = [proposals EXCEPT ![n] = Tail(@)]
    /\ UNCHANGED <<leaderID, clients, conn, page, wide, missed>>

LoseProposal(n) ==
    /\ Fault
    /\ \E i \in DOMAIN proposals[n] :
          proposals' = [proposals EXCEPT
                          ![n] = SubSeq(@, 1, i - 1) \o SubSeq(@, i + 1, Len(@))]
    /\ UNCHANGED <<committedVars, leaderID, clients, conn, page, wide, missed>>

\* A node wins an election, hears from a leader, or gives up the one it had.
\* There may be an older leader that does not know, which counts as a fault.
ChangeLeader(n, l) ==
    /\ l # leaderID[n]
    /\ leaderID' = [leaderID EXCEPT ![n] = l]
    /\ \/ l = None /\ Fault
       \/ l = n /\ IF \E m \in Node : leaderID[m] = m THEN Fault ELSE UNCHANGED faults
       \/ l \in Node \ {n} /\ leaderID[l] = l /\ UNCHANGED faults
    /\ UNCHANGED <<committedVars, proposals, clients, conn, page, wide, missed>>

ApplyCommitted(n) ==
    /\ ApplyEntry(n) \/ SkipEntry(n)
    /\ UNCHANGED <<serverVars, conn, page, wide, missed>>

\* The process ends with its connections, and starts again.
Restart(n) ==
    /\ RestartDocument(n)
    /\ leaderID' = [leaderID EXCEPT ![n] = None]
    /\ clients' = [clients EXCEPT ![n] = [c \in Client |-> 0]]
    /\ conn' = [k \in DOMAIN conn |->
                  IF conn[k].node # n THEN conn[k]
                  ELSE LET d == IF conn[k].up THEN Down(conn[k]) ELSE conn[k]
                       IN  [d EXCEPT !.stage = "closed", !.known = 0, !.inbox = <<>>,
                                     !.catchUp = <<>>, !.text = <<>>, !.rev = 0]]
    /\ UNCHANGED <<proposals, page, wide, missed>>

-----------------------------------------------------------------------------
(* Situations that the program does not handle; the README has an example of *)
(* each.  A client that has met one is no longer held to agree.              *)

Registered(k) == conn[k].stage \in Connecting \cup {"serving"}

\* k is in handleConnect, or CONNECT_ACK is on its way; then from what revision
\* the page will go on.
AckOf(k) == {m \in {conn[k].outbox[i] : i \in DOMAIN conn[k].outbox} : m.type = "CONNECT_ACK"}

Joins(k, rev) ==
    \/ conn[k].stage \in Connecting /\ rev = HeadRev(doc[conn[k].node])
    \/ \E m \in AckOf(k) : rev = m.rev

\* A commit is reported while handleConnect reads (websocket.go:320).
CommitWhileConnecting(k) == conn[k].stage \in Connecting /\ callbacks[conn[k].node] # <<>>

\* The page's unconfirmed text meets revisions that it has missed, or was never
\* put into Y (client.js:402, 417).
UnconfirmedWork(k) ==
    LET p == page[conn[k].client]
    IN  \/ (p.waiting \/ p.typed # "no") /\ \E r \in 0..MaxLog : Joins(k, r) /\ r # p.rev
        \/ p.typed = "screen" /\ \E r \in 0..MaxLog : Joins(k, r)

\* The node is behind the page, or will report the page's own submission to it as
\* news (client.js:397, 448).
NodeBehind(k) ==
    LET c == conn[k].client
    IN  /\ conn[k].stage \in Connecting
        /\ \/ conn[k].known > HeadRev(doc[conn[k].node])
           \/ ~page[c].waiting /\ UnderWay(c, conn[k].node) # {}

\* Another connection of the client is still there (websocket.go:236,
\* client.js:347).
TwoConnections(j, k) ==
    /\ j # k /\ conn[j].client = conn[k].client
    /\ \/ conn[j].node = conn[k].node /\ Registered(j) /\ Registered(k)
       \/ conn[j].up /\ conn[k].up
       \/ conn[j].event /\ conn[k].up

\* An answer to an earlier submission is still to come when the page waits for
\* the next (client.js:448).
OldAnswer(c, n) ==
    /\ page[c].waiting /\ clients[n][c] # 0
    /\ \/ \E e \in UnderWay(c, n) : e.sub < page[c].sub
       \/ doc[n].lastSubmission[c] < page[c].sub /\ AnswerDue(c, n)

AtRisk(c) ==
    \/ c \in missed
    \/ \E k \in DOMAIN conn : /\ conn[k].client = c
                              /\ \/ CommitWhileConnecting(k)
                                 \/ UnconfirmedWork(k)
                                 \/ NodeBehind(k)
                                 \/ \E j \in DOMAIN conn : TwoConnections(j, k)
    \/ \E n \in Node : OldAnswer(c, n) \/ (skipped[n] /\ clients[n][c] # 0)

-----------------------------------------------------------------------------
Step ==
    \/ \E c \in Client : TypeAscii(c) \/ TypeWide(c) \/ Submit(c) \/ Resubmit(c) \/ Reload(c)
    \/ \E c \in Client : Reconnect(c) \/ \E n \in Node : Connect(c, n)
    \/ \E k \in DOMAIN conn : Drop(k) \/ OnWsClose(k) \/ Receive(k)
    \/ \E k \in DOMAIN conn :
          \/ Register(k) \/ RedirectConnect(k) \/ ReadRevisions(k) \/ ReadText(k)
          \/ ReadRev(k) \/ SendConnectAck(k)
          \/ HandleSubmit(k) \/ RemoveClient(k) \/ CloseChannel(k)
    \/ \E n \in Node : \E i \in DOMAIN callbacks[n] : OnCommit(n, i)
    \/ \E n \in Node : CommitProposal(n) \/ LoseProposal(n) \/ ApplyCommitted(n) \/ Restart(n)
    \/ \E n \in Node, l \in Node \cup {None} : ChangeLeader(n, l)

\* The history variable is brought up to date after every step.
Watch == exposed' = exposed \cup {c \in Client : AtRisk(c)'}

Next == Step /\ Watch

Spec == Init /\ [][Next]_vars

\* What goes on for client c: its timer, its events, its readPumps.
Serve(c) ==
    \/ Resubmit(c)
    \/ \E k \in DOMAIN conn :
          /\ conn[k].client = c
          /\ \/ Register(k) \/ RedirectConnect(k) \/ ReadRevisions(k) \/ ReadText(k)
             \/ ReadRev(k) \/ SendConnectAck(k) \/ HandleSubmit(k)
             \/ Receive(k) \/ OnWsClose(k)

\* What goes on in node n: Raft, the apply loop, the goroutines of onCommit.
Run(n) ==
    \/ CommitProposal(n) \/ ApplyCommitted(n)
    \/ \E i \in DOMAIN callbacks[n] : OnCommit(n, i)

Fairness ==
    /\ \A c \in Client : WF_systemVars(Serve(c))
    /\ \A n \in Node : WF_systemVars(Run(n))

FairSpec == Spec /\ Fairness

-----------------------------------------------------------------------------
(* Properties *)

TypeOK ==
    /\ DocTypeOK
    /\ leaderID \in [Node -> Node \cup {None}]
    /\ proposals \in [Node -> Seq(RaftLogEntry)]
    /\ clients \in [Node -> [Client -> Nat]]
    /\ conn \in Seq(Connection)
    /\ page \in [Client -> Page]
    /\ wide \subseteq Revision
    /\ missed \subseteq Client /\ exposed \subseteq Client

\* "A = latest server-acknowledged state" (client.js:8): the text that a page
\* takes for the server's text of its revision is that text.
PagesInStep == \A c \in Client \ exposed : page[c].ready => InStep(c)

\* Page and node are connected and nothing is under way from one to the other.
Quiet(c, k) ==
    /\ page[c].ws = k /\ page[c].running /\ conn[k].up
    /\ conn[k].stage = "serving" /\ conn[k].outbox = <<>>
    /\ callbacks[conn[k].node] = <<>>

HasNodesText(c, k) == page[c].base = doc[conn[k].node].revisions

\* Nobody is left behind: when nothing is under way between a node and a page
\* that is connected to it, the page has the node's text.
QuietPagesAgree ==
    \A c \in Client \ exposed : \A k \in DOMAIN conn : Quiet(c, k) => HasNodesText(c, k)

\* No text is lost: what a page has submitted is committed, or the page still
\* has it and waits.
NothingLost ==
    \A c \in Client \ exposed : \A s \in 1..page[c].sub :
        \/ \E i \in DOMAIN Final.revisions :
              Final.revisions[i] = [client |-> c, sub |-> s]
        \/ s = page[c].sub /\ page[c].waiting /\ page[c].pending

\* To the state machines, all this is a stream of entries with the number of a
\* submission that its client has made and a base revision that some node has
\* reached (fsm.go:90, 118), through resends, redirects, reconnections to nodes that
\* are behind and restarts.
ImplementsDocument == DocSpec

\* Every submission is answered in the end, through lost proposals and answers,
\* unless the page's connection ends or the server refuses the changeset.
SubmissionsAnswered ==
    \A c \in Client :
        page[c].waiting ~> \/ ~page[c].waiting
                           \/ c \in exposed
                           \/ page[c].ws = 0
                           \/ [client |-> c, sub |-> page[c].sub] \in wide

\* "X = submitted to server, awaiting ACK" (client.js:9) and A what it has
\* confirmed: what a page shows as A, X and Y has no submission twice.
ShownOnce ==
    \A c \in Client : page[c].pending =>
        \A i \in DOMAIN page[c].base :
            page[c].base[i] # [client |-> c, sub |-> page[c].sub]

\* onCommit sends to whatever is registered, and a send on a closed channel
\* would end the process (websocket.go:141, 237): none is registered.
RegisteredIsOpen ==
    \A n \in Node, c \in Client : clients[n][c] # 0 => conn[clients[n][c]].stage # "closed"
=============================================================================
