--------------------------- MODULE SessionProofs ---------------------------
(***************************************************************************)
(* Module Session for every set of nodes and clients and every bound:      *)
(* types, the registry of connections, and that to the state machines all  *)
(* the pages and servers do is a stream of submissions.                    *)
(***************************************************************************)
EXTENDS Session, DocumentProofs

-----------------------------------------------------------------------------
(* The inductive invariant *)

\* What is on its way names a revision that some node has reached, and a
\* submission that its client has made.
OkEntry ==
    {e \in RaftLogEntry : e.base <= reached /\ e.sub \in 1..submitted[e.client]}

OkResult == {r \in ApplyResult : r.rev <= reached}

OkMessage == {m \in Message : m.type # "REDIRECT" => m.rev <= reached}

OkConnection ==
    {k \in Connection : /\ k.rev <= reached
                        /\ k.inbox \in Seq(OkEntry) /\ k.outbox \in Seq(OkMessage)}

\* A page that will reconnect has an address, and one that waits has submitted
\* something.
OkPage(c) ==
    {p \in Page : /\ p.rev <= reached /\ p.sub <= submitted[c]
                  /\ p.waiting => p.sub > 0
                  /\ p.timers > 0 => p.addr # None}

ServerInv ==
    /\ leaderID \in [Node -> Node \cup {None}]
    /\ proposals \in [Node -> Seq(OkEntry)]
    /\ clients \in [Node -> [Client -> Nat]]
    /\ wide \subseteq Revision /\ missed \subseteq Client

ReportInv ==
    /\ \A n \in Node : callbacks[n] \in Seq(OkResult)
    /\ \A n \in Node : HeadRev(doc[n]) <= reached

PageInv == page \in [Client -> Page] /\ \A c \in Client : page[c] \in OkPage(c)

WireInv == conn \in Seq(OkConnection)

\* A registered connection is the client's, on this node, and is being served.
RegistryInv ==
    \A n \in Node, c \in Client : clients[n][c] # 0 =>
        /\ clients[n][c] \in DOMAIN conn
        /\ conn[clients[n][c]].node = n /\ conn[clients[n][c]].client = c
        /\ Registered(clients[n][c])

\* All but the documents, which are the subject of DocumentProofs, and exposed.
SystemInv == ServerInv /\ ReportInv /\ PageInv /\ WireInv /\ RegistryInv

SessionInv == DocInv /\ SystemInv /\ exposed \subseteq Client

-----------------------------------------------------------------------------
(* Sequences *)

LEMMA SeqMonotone ==
    ASSUME NEW S, NEW T, S \subseteq T
    PROVE  Seq(S) \subseteq Seq(T)
  OBVIOUS

LEMMA SeqAppend ==
    ASSUME NEW S, NEW s \in Seq(S), NEW e \in S
    PROVE  Append(s, e) \in Seq(S)
  OBVIOUS

LEMMA SeqTail ==
    ASSUME NEW S, NEW s \in Seq(S), s # <<>>
    PROVE  Tail(s) \in Seq(S) /\ Head(s) \in S
  OBVIOUS

LEMMA SeqUpdate ==
    ASSUME NEW S, NEW s \in Seq(S), NEW k \in DOMAIN s, NEW e \in S
    PROVE  [s EXCEPT ![k] = e] \in Seq(S)
  OBVIOUS

LEMMA SeqMapped ==
    ASSUME NEW S, NEW s \in Seq(S), NEW t, DOMAIN t = DOMAIN s,
           t = [k \in DOMAIN s |-> t[k]], \A k \in DOMAIN s : t[k] \in S
    PROVE  t \in Seq(S) /\ Len(t) = Len(s)
  OBVIOUS

LEMMA SeqCut ==
    ASSUME NEW S, NEW s \in Seq(S), NEW i \in Nat, NEW j \in Nat, i > 0, j <= Len(s)
    PROVE  SubSeq(s, i, j) \in Seq(S)
  OBVIOUS

LEMMA SeqWithout ==
    ASSUME NEW S, NEW s \in Seq(S), NEW i \in DOMAIN s
    PROVE  SubSeq(s, 1, i - 1) \o SubSeq(s, i + 1, Len(s)) \in Seq(S)
<1>1. Len(s) \in Nat /\ i \in 1..Len(s)
  OBVIOUS
<1>2. SubSeq(s, 1, i - 1) \in Seq(S)
  BY <1>1, SeqCut
<1>3. SubSeq(s, i + 1, Len(s)) \in Seq(S)
  BY <1>1, SeqCut
<1> QED BY <1>2, <1>3

\* Some of the edits, in their order, are edits.
LEMMA PartsType ==
    ASSUME NEW S, NEW s \in Seq(S), NEW part \in Parts(s)
    PROVE  part \in Seq(S)
<1>1. PICK m \in 0..Len(s) : \E f \in [1..m -> DOMAIN s] :
                                 part = [i \in DOMAIN f |-> s[f[i]]]
  BY DEF Parts
<1> PICK f \in [1..m -> DOMAIN s] : part = [i \in DOMAIN f |-> s[f[i]]]
  BY <1>1
<1>2. m \in Nat /\ DOMAIN f = 1..m
  OBVIOUS
<1>3. \A i \in 1..m : s[f[i]] \in S
  OBVIOUS
<1> QED BY <1>1, <1>2, <1>3

-----------------------------------------------------------------------------
(* Connections *)

LEMMA ConnectionFields ==
    ASSUME NEW d \in OkConnection
    PROVE  /\ d.client \in Client /\ d.node \in Node /\ d.known \in Nat
           /\ d.stage \in Stages /\ d.up \in BOOLEAN /\ d.event \in BOOLEAN
           /\ d.catchUp \in Seq(Revision) /\ d.text \in Seq(Revision)
           /\ d.rev \in Nat /\ d.rev <= reached
           /\ d.inbox \in Seq(OkEntry) /\ d.outbox \in Seq(OkMessage)
  BY DEF OkConnection, Connection

LEMMA ConnectionMade ==
    ASSUME NEW client \in Client, NEW node \in Node, NEW known \in Nat,
           NEW stage \in Stages, NEW up \in BOOLEAN, NEW event \in BOOLEAN,
           NEW catchUp \in Seq(Revision), NEW text \in Seq(Revision),
           NEW rev \in Nat, rev <= reached,
           NEW inbox \in Seq(OkEntry), NEW outbox \in Seq(OkMessage)
    PROVE  [client |-> client, node |-> node, known |-> known, stage |-> stage,
            up |-> up, event |-> event, catchUp |-> catchUp, text |-> text, rev |-> rev,
            inbox |-> inbox, outbox |-> outbox] \in OkConnection
<1>1. inbox \in Seq(RaftLogEntry)
  BY SeqMonotone DEF OkEntry
<1>2. outbox \in Seq(Message)
  BY SeqMonotone DEF OkMessage
<1> QED BY <1>1, <1>2 DEF OkConnection, Connection

\* A handler that moves a connection to another stage.
LEMMA Staged ==
    ASSUME NEW d \in OkConnection, NEW s \in Stages
    PROVE  [d EXCEPT !.stage = s] \in OkConnection
  BY DEF OkConnection, Connection

LEMMA Noticed ==
    ASSUME NEW d \in OkConnection
    PROVE  [d EXCEPT !.event = FALSE] \in OkConnection
  BY DEF OkConnection, Connection

LEMMA Taken ==
    ASSUME NEW d \in OkConnection, NEW q \in Seq(OkEntry)
    PROVE  [d EXCEPT !.inbox = q] \in OkConnection
<1>1. q \in Seq(RaftLogEntry)
  BY SeqMonotone DEF OkEntry
<1> QED BY <1>1 DEF OkConnection, Connection

LEMMA Delivered ==
    ASSUME NEW d \in OkConnection, NEW q \in Seq(OkMessage)
    PROVE  [d EXCEPT !.outbox = q] \in OkConnection
<1>1. q \in Seq(Message)
  BY SeqMonotone DEF OkMessage
<1> QED BY <1>1 DEF OkConnection, Connection

LEMMA DownType ==
    ASSUME NEW d \in OkConnection
    PROVE  Down(d) \in OkConnection
<1>1. <<>> \in Seq(OkMessage) /\ <<>> \in Seq(Message)
  OBVIOUS
<1> QED BY <1>1 DEF OkConnection, Connection, Down

LEMMA SentType ==
    ASSUME WireInv, NEW k \in DOMAIN conn, NEW m \in OkMessage
    PROVE  Sent(k, m) \in Seq(OkMessage)
<1>1. conn[k].outbox \in Seq(OkMessage)
  BY ConnectionFields DEF WireInv
<1> QED BY <1>1, SeqAppend DEF Sent

LEMMA DroppedType ==
    ASSUME WireInv, NEW k \in DOMAIN conn
    PROVE  Dropped(k) \subseteq Client
  BY ConnectionFields DEF WireInv, Dropped

\* Most steps make no revision and no submission.
LEMMA SameBounds ==
    ASSUME UNCHANGED <<reached, submitted>>
    PROVE  /\ OkEntry' = OkEntry /\ OkResult' = OkResult /\ OkMessage' = OkMessage
           /\ OkConnection' = OkConnection
           /\ \A c : OkPage(c)' = OkPage(c)
<1>1. OkEntry' = OkEntry /\ OkResult' = OkResult /\ OkMessage' = OkMessage
  BY DEF OkEntry, OkResult, OkMessage
<1>2. OkConnection' = OkConnection
  BY <1>1 DEF OkConnection
<1>3. \A c : OkPage(c)' = OkPage(c)
  BY DEF OkPage
<1> QED BY <1>1, <1>2, <1>3

LEMMA SameDocuments ==
    ASSUME ReportInv, UNCHANGED <<reached, submitted, doc, callbacks>>
    PROVE  ReportInv'
  BY SameBounds DEF ReportInv, HeadRev

\* The registry stays right if connections keep their ends and, if registered,
\* their place.
LEMMA RegistryKept ==
    ASSUME RegistryInv, UNCHANGED clients, DOMAIN conn \subseteq DOMAIN conn',
           \A k \in DOMAIN conn : /\ conn'[k].node = conn[k].node
                                  /\ conn'[k].client = conn[k].client
                                  /\ Registered(k) => Registered(k)'
    PROVE  RegistryInv'
  BY DEF RegistryInv

Serving == Connecting \cup {"serving"}

\* One connection changes.
LEMMA OneConnection ==
    ASSUME WireInv, RegistryInv, UNCHANGED <<reached, submitted, clients>>,
           NEW k \in DOMAIN conn, NEW d \in OkConnection,
           conn' = [conn EXCEPT ![k] = d],
           d.node = conn[k].node, d.client = conn[k].client,
           conn[k].stage \in Serving => d.stage \in Serving
    PROVE  WireInv' /\ RegistryInv'
<1>1. conn' \in Seq(OkConnection) /\ DOMAIN conn' = DOMAIN conn
  BY SeqUpdate DEF WireInv
<1>2. \A j \in DOMAIN conn : /\ conn'[j].node = conn[j].node
                             /\ conn'[j].client = conn[j].client
                             /\ Registered(j) => Registered(j)'
  BY DEF Registered, Serving
<1> QED BY <1>1, <1>2, SameBounds, RegistryKept DEF WireInv

LEMMA SameConnections ==
    ASSUME WireInv, RegistryInv, UNCHANGED <<reached, submitted, clients, conn>>
    PROVE  WireInv' /\ RegistryInv'
<1>1. RegistryInv'
  BY RegistryKept DEF Registered
<1> QED BY <1>1, SameBounds DEF WireInv

LEMMA MessageFields ==
    ASSUME NEW m \in OkMessage
    PROVE  /\ m.type # "REDIRECT" => m.rev \in Nat /\ m.rev <= reached
           /\ m.type = "REDIRECT" => m.to \in Node
           /\ m.type = "CONNECT_ACK" => m.text \in Seq(Revision) /\ m.catchUp \in Seq(Revision)
           /\ m.type = "BROADCAST" => m.edit \in Revision
  BY DEF OkMessage, Message

\* A new revision or a new submission allows more.
Wider ==
    /\ reached \in Nat /\ reached' \in Nat /\ reached <= reached'
    /\ submitted \in [Client -> Nat] /\ submitted' \in [Client -> Nat]
    /\ \A c \in Client : submitted[c] <= submitted'[c]

LEMMA WiderBounds ==
    ASSUME Wider
    PROVE  /\ OkEntry \subseteq OkEntry' /\ OkResult \subseteq OkResult'
           /\ OkConnection \subseteq OkConnection'
           /\ \A c \in Client : OkPage(c) \subseteq OkPage(c)'
<1>1. OkEntry \subseteq OkEntry'
  <2> SUFFICES ASSUME NEW e \in OkEntry PROVE e \in OkEntry'
    OBVIOUS
  <2>1. /\ e \in RaftLogEntry /\ e.base \in Nat /\ e.base <= reached
        /\ e.client \in Client /\ e.sub \in 1..submitted[e.client]
    BY DEF OkEntry, RaftLogEntry
  <2>2. e.base <= reached' /\ e.sub \in 1..submitted'[e.client]
    BY <2>1 DEF Wider
  <2> QED BY <2>1, <2>2 DEF OkEntry
<1>2. OkResult \subseteq OkResult'
  BY DEF OkResult, ApplyResult, Wider
<1>3. OkMessage \subseteq OkMessage'
  BY MessageFields DEF OkMessage, Wider
<1>4. OkConnection \subseteq OkConnection'
  <2> SUFFICES ASSUME NEW d \in OkConnection PROVE d \in OkConnection'
    OBVIOUS
  <2>1. d \in Connection /\ d.rev \in Nat /\ d.rev <= reached'
    BY DEF OkConnection, Connection, Wider
  <2>2. d.inbox \in Seq(OkEntry') /\ d.outbox \in Seq(OkMessage')
    BY <1>1, <1>3, SeqMonotone DEF OkConnection
  <2> QED BY <2>1, <2>2 DEF OkConnection
<1>5. \A c \in Client : OkPage(c) \subseteq OkPage(c)'
  BY DEF OkPage, Page, Wider
<1> QED BY <1>1, <1>2, <1>4, <1>5

LEMMA WiderConnections ==
    ASSUME Wider, WireInv, RegistryInv, UNCHANGED <<clients, conn>>
    PROVE  WireInv' /\ RegistryInv'
<1>1. RegistryInv'
  BY RegistryKept DEF Registered
<1> QED BY <1>1, WiderBounds, SeqMonotone DEF WireInv

LEMMA WiderServers ==
    ASSUME Wider, ServerInv, UNCHANGED <<leaderID, proposals, clients, wide>>,
           missed' \subseteq Client
    PROVE  ServerInv'
<1>1. Seq(OkEntry) \subseteq Seq(OkEntry')
  BY WiderBounds, SeqMonotone
<1>2. proposals \in [Node -> Seq(OkEntry')]
  BY <1>1 DEF ServerInv
<1> QED BY <1>2 DEF ServerInv

LEMMA WiderPages ==
    ASSUME Wider, PageInv, UNCHANGED page
    PROVE  PageInv'
  BY WiderBounds DEF PageInv

-----------------------------------------------------------------------------
(* Pages *)

LEMMA PageFields ==
    ASSUME PageInv, NEW c \in Client
    PROVE  /\ page[c] \in Page
           /\ page[c].ws \in Nat /\ page[c].ready \in BOOLEAN
           /\ page[c].running \in BOOLEAN /\ page[c].base \in Seq(Revision)
           /\ page[c].rev \in Nat /\ page[c].pending \in BOOLEAN
           /\ page[c].waiting \in BOOLEAN /\ page[c].sub \in Nat
           /\ page[c].typed \in {"no", "screen", "Y"} /\ page[c].timers \in Nat
           /\ page[c].addr \in Node \cup {None}
           /\ page[c].rev <= reached /\ page[c].sub <= submitted[c]
           /\ page[c].waiting => page[c].sub > 0
           /\ page[c].timers > 0 => page[c].addr # None
  BY DEF PageInv, OkPage, Page

LEMMA OnePage ==
    ASSUME PageInv, UNCHANGED <<reached, submitted>>, NEW c \in Client, NEW p \in OkPage(c),
           page' = [page EXCEPT ![c] = p]
    PROVE  PageInv'
<1>1. p \in Page
  BY DEF OkPage
<1> QED BY <1>1, SameBounds DEF PageInv

LEMMA SamePages ==
    ASSUME PageInv, UNCHANGED <<reached, submitted, page>>
    PROVE  PageInv'
  BY SameBounds DEF PageInv

LEMMA SameServers ==
    ASSUME ServerInv, UNCHANGED <<reached, submitted, leaderID, proposals, clients, wide>>,
           missed' \subseteq Client
    PROVE  ServerInv'
  BY SameBounds DEF ServerInv

LEMMA NewPageType ==
    ASSUME DocInv, NEW c \in Client, NEW sub \in Nat, sub <= submitted[c]
    PROVE  NewPage(sub) \in OkPage(c)
<1>1. reached \in Nat /\ <<>> \in Seq(Revision)
  BY DEF DocInv, DocTypeOK
<1>2. NewPage(sub) \in Page
  BY <1>1 DEF NewPage, Page
<1>3. /\ NewPage(sub).rev = 0 /\ NewPage(sub).sub = sub /\ NewPage(sub).typed = "no"
      /\ NewPage(sub).waiting = FALSE /\ NewPage(sub).timers = 0
  BY DEF NewPage
<1> QED BY <1>1, <1>2, <1>3 DEF OkPage

-----------------------------------------------------------------------------
(* Steps of the page *)

\* A new socket to a node, registered nowhere yet.
LEMMA OpenConnectionInv ==
    ASSUME DocInv, SystemInv, NEW c \in Client, NEW n \in Node, NEW p \in OkPage(c),
           OpenConnection(c, n, p)
    PROVE  SystemInv'
<1> DEFINE d == [client |-> c, node |-> n, known |-> page[c].rev,
                 stage |-> "new", up |-> TRUE, event |-> FALSE,
                 catchUp |-> <<>>, text |-> <<>>, rev |-> 0,
                 inbox |-> <<>>, outbox |-> <<>>]
<1>1. UNCHANGED <<docVars, serverVars, wide, missed>> /\ conn' = Append(conn, d)
  BY DEF OpenConnection
<1>2. reached \in Nat /\ page[c].rev \in Nat
  BY PageFields DEF SystemInv, DocInv, DocTypeOK
<1>3. d \in OkConnection
  <2>1. /\ <<>> \in Seq(Revision) /\ <<>> \in Seq(OkEntry) /\ <<>> \in Seq(OkMessage)
        /\ "new" \in Stages
    BY DEF Stages
  <2>2. 0 \in Nat /\ 0 <= reached
    BY <1>2
  <2> QED BY <1>2, <2>1, <2>2, ConnectionMade
<1>4. WireInv'
  BY <1>1, <1>3, SeqAppend, SameBounds DEF SystemInv, WireInv, docVars
<1>5. RegistryInv'
  <2> HIDE DEF d
  <2>1. /\ DOMAIN conn \subseteq DOMAIN conn'
        /\ \A k \in DOMAIN conn : conn'[k] = conn[k]
    BY <1>1 DEF SystemInv, WireInv
  <2> QED BY <1>1, <2>1, RegistryKept DEF SystemInv, serverVars, Registered
<1>6. PageInv'
  <2>1. Len(conn) + 1 \in Nat
    BY DEF SystemInv, WireInv
  <2>2. [p EXCEPT !.ws = Len(conn) + 1] \in OkPage(c)
    BY <2>1 DEF OkPage, Page
  <2> QED BY <1>1, <2>2, OnePage DEF OpenConnection, SystemInv, docVars
<1>7. ServerInv' /\ ReportInv'
  BY <1>1, SameServers, SameDocuments DEF SystemInv, ServerInv, docVars, serverVars
<1> QED BY <1>4, <1>5, <1>6, <1>7 DEF SystemInv

LEMMA ConnectInv ==
    ASSUME DocInv, SystemInv, NEW c \in Client, NEW n \in Node, Connect(c, n)
    PROVE  SystemInv' /\ UNCHANGED docVars
<1> DEFINE p == [page[c] EXCEPT !.addr = IF page[c].timers = 0 THEN None ELSE n]
<1>1. n # None
  BY SessionAssumption
<1>2. p \in OkPage(c)
  <2>1. PICK a : a = IF page[c].timers = 0 THEN None ELSE n
    OBVIOUS
  <2>2. a \in Node \cup {None} /\ page[c].timers \in Nat /\ (page[c].timers > 0 => a # None)
    BY <1>1, <2>1, PageFields DEF SystemInv
  <2>3. [page[c] EXCEPT !.addr = a] \in OkPage(c)
    BY <2>2 DEF SystemInv, PageInv, OkPage, Page
  <2> QED BY <2>1, <2>3
<1> QED BY <1>2, OpenConnectionInv DEF Connect, OpenConnection

LEMMA ReconnectInv ==
    ASSUME DocInv, SystemInv, NEW c \in Client, Reconnect(c)
    PROVE  SystemInv' /\ UNCHANGED docVars
<1> DEFINE p == [page[c] EXCEPT !.timers = @ - 1,
                                !.addr = IF page[c].timers = 1 THEN None ELSE @]
<1>1. page[c].timers \in Nat /\ page[c].timers > 0 /\ page[c].addr \in Node
  BY PageFields DEF SystemInv, Reconnect
<1>2. p \in OkPage(c)
  <2>1. page[c].timers - 1 \in Nat /\ (page[c].timers - 1 > 0 => page[c].timers # 1)
    BY <1>1
  <2> QED BY <1>1, <2>1 DEF SystemInv, PageInv, OkPage, Page
<1> QED BY <1>1, <1>2, OpenConnectionInv DEF Reconnect, OpenConnection

LEMMA DropInv ==
    ASSUME DocInv, SystemInv, NEW k \in DOMAIN conn, Drop(k)
    PROVE  SystemInv' /\ Fault /\ UNCHANGED committedVars
<1>1. conn[k] \in OkConnection
  BY DEF SystemInv, WireInv
<1>2. Down(conn[k]) \in OkConnection /\ Down(conn[k]).stage = conn[k].stage
      /\ Down(conn[k]).node = conn[k].node /\ Down(conn[k]).client = conn[k].client
  BY <1>1, DownType DEF Down, OkConnection, Connection
<1>3. WireInv' /\ RegistryInv'
  BY <1>2, OneConnection DEF Drop, SystemInv, committedVars, serverVars
<1>4. ServerInv' /\ ReportInv' /\ PageInv'
  BY SameServers, SameDocuments, SamePages
     DEF Drop, SystemInv, ServerInv, committedVars, serverVars
<1> QED BY <1>3, <1>4 DEF SystemInv, Drop

LEMMA OnWsCloseInv ==
    ASSUME DocInv, SystemInv, NEW k \in DOMAIN conn, OnWsClose(k)
    PROVE  SystemInv' /\ UNCHANGED docVars
<1>1. conn[k] \in OkConnection
  BY DEF SystemInv, WireInv
<1>2. WireInv' /\ RegistryInv'
  <2> DEFINE d == [conn[k] EXCEPT !.event = FALSE]
  <2>1. /\ d \in OkConnection /\ d.stage = conn[k].stage
        /\ d.node = conn[k].node /\ d.client = conn[k].client
    BY <1>1, Noticed DEF OkConnection, Connection
  <2>2. conn' = [conn EXCEPT ![k] = d]
    BY DEF OnWsClose
  <2> HIDE DEF d
  <2> QED BY <2>1, <2>2, OneConnection DEF OnWsClose, SystemInv, docVars, serverVars
<1>3. PageInv'
  <2> DEFINE c == conn[k].client
             p == [page[c] EXCEPT !.ws = 0, !.running = FALSE]
  <2>1. c \in Client
    BY <1>1, ConnectionFields
  <2>2. p \in OkPage(c)
    <3> HIDE DEF c
    <3> QED BY <2>1 DEF SystemInv, PageInv, OkPage, Page
  <2>3. page' = [page EXCEPT ![c] = p]
    BY <2>1 DEF OnWsClose, SystemInv, PageInv
  <2> HIDE DEF c, p
  <2> QED BY <2>1, <2>2, <2>3, OnePage DEF OnWsClose, SystemInv, docVars
<1>4. ServerInv' /\ ReportInv'
  BY SameServers, SameDocuments DEF OnWsClose, SystemInv, ServerInv, docVars, serverVars
<1> QED BY <1>2, <1>3, <1>4 DEF SystemInv, OnWsClose

LEMMA ReloadInv ==
    ASSUME DocInv, SystemInv, NEW c \in Client, Reload(c)
    PROVE  SystemInv' /\ Fault /\ UNCHANGED committedVars
<1>1. WireInv' /\ RegistryInv'
  <2>1. \A k \in DOMAIN conn :
           /\ conn'[k] \in OkConnection
           /\ conn'[k].stage = conn[k].stage
           /\ conn'[k].node = conn[k].node /\ conn'[k].client = conn[k].client
    <3> SUFFICES ASSUME NEW k \in DOMAIN conn
                 PROVE  /\ conn'[k] \in OkConnection
                        /\ conn'[k].stage = conn[k].stage
                        /\ conn'[k].node = conn[k].node /\ conn'[k].client = conn[k].client
      OBVIOUS
    <3>1. conn[k] \in OkConnection
      BY DEF SystemInv, WireInv
    <3>2. \/ conn'[k] = conn[k]
          \/ conn'[k] = [Down(conn[k]) EXCEPT !.event = FALSE]
      BY DEF Reload
    <3>3. [Down(conn[k]) EXCEPT !.event = FALSE] \in OkConnection
      BY <3>1, DownType, Noticed
    <3>4. /\ Down(conn[k]).stage = conn[k].stage
          /\ Down(conn[k]).node = conn[k].node /\ Down(conn[k]).client = conn[k].client
      BY <3>1 DEF Down, OkConnection, Connection
    <3>5. PICK d : d = Down(conn[k])
      OBVIOUS
    <3>6. /\ [d EXCEPT !.event = FALSE].stage = d.stage
          /\ [d EXCEPT !.event = FALSE].node = d.node
          /\ [d EXCEPT !.event = FALSE].client = d.client
      BY <3>1, <3>5, DownType DEF OkConnection, Connection
    <3> QED BY <3>1, <3>2, <3>3, <3>4, <3>5, <3>6
  <2>2. DOMAIN conn' = DOMAIN conn /\ conn' = [k \in DOMAIN conn |-> conn'[k]]
    BY DEF Reload
  <2>3. conn' \in Seq(OkConnection)
    BY <2>1, <2>2, SeqMapped DEF SystemInv, WireInv
  <2>4. RegistryInv'
    BY <2>1, <2>2, RegistryKept DEF SystemInv, Reload, serverVars, Registered
  <2> QED BY <2>3, <2>4, SameBounds DEF WireInv, Reload, committedVars
<1>2. PageInv'
  <2>1. NewPage(page[c].sub) \in OkPage(c)
    BY PageFields, NewPageType DEF SystemInv
  <2> QED BY <2>1, OnePage DEF Reload, SystemInv, committedVars
<1>3. ServerInv' /\ ReportInv'
  BY SameServers, SameDocuments DEF Reload, SystemInv, ServerInv, committedVars, serverVars
<1> QED BY <1>1, <1>2, <1>3 DEF SystemInv, Reload

LEMMA TypeInv ==
    ASSUME DocInv, SystemInv, NEW c \in Client, Type(c), UNCHANGED committedVars,
           wide' \subseteq Revision
    PROVE  SystemInv'
<1>1. WireInv' /\ RegistryInv'
  BY SameConnections DEF Type, SystemInv, committedVars, serverVars
<1>2. PageInv'
  <2> DEFINE p == [page[c] EXCEPT !.typed = "screen"]
  <2>1. p \in OkPage(c)
    BY DEF SystemInv, PageInv, OkPage, Page, Type
  <2>2. page' = [page EXCEPT ![c] = p]
    BY DEF Type
  <2> HIDE DEF p
  <2> QED BY <2>1, <2>2, OnePage DEF SystemInv, committedVars
<1>3. ServerInv' /\ ReportInv'
  BY SameBounds, SameDocuments DEF Type, SystemInv, ServerInv, committedVars, serverVars
<1> QED BY <1>1, <1>2, <1>3 DEF SystemInv

LEMMA TypeAsciiInv ==
    ASSUME DocInv, SystemInv, NEW c \in Client, TypeAscii(c)
    PROVE  SystemInv' /\ UNCHANGED docVars
  BY TypeInv DEF TypeAscii, docVars, committedVars, SystemInv, ServerInv

LEMMA TypeWideInv ==
    ASSUME DocInv, SystemInv, NEW c \in Client, TypeWide(c)
    PROVE  SystemInv' /\ Fault /\ UNCHANGED committedVars
<1>1. [client |-> c, sub |-> page[c].sub + 1] \in Revision
  BY PageFields DEF SystemInv, Revision
<1> QED BY <1>1, TypeInv DEF TypeWide, SystemInv, ServerInv

LEMMA SendSubmitInv ==
    ASSUME DocInv, SystemInv, NEW c \in Client, NEW sub, sub \in 1..submitted'[c],
           SendSubmit(c, sub), Wider, UNCHANGED <<reached, clients>>
    PROVE  WireInv' /\ RegistryInv'
<1>1. CASE page[c].ws \notin DOMAIN conn
  <2>1. UNCHANGED conn
    BY <1>1 DEF SendSubmit, SystemInv, WireInv
  <2> QED BY <2>1, WiderConnections DEF SystemInv
<1>2. ASSUME NEW k \in DOMAIN conn, k = page[c].ws PROVE WireInv' /\ RegistryInv'
  <2>1. PICK fits \in BOOLEAN :
           conn' = [conn EXCEPT ![k].inbox =
                      Append(@, [client |-> c, sub |-> sub, base |-> page[c].rev,
                                 fits |-> fits])]
    BY <1>2 DEF SendSubmit, BaseRev
  <2>2. PICK e : e = [client |-> c, sub |-> sub, base |-> page[c].rev, fits |-> fits]
    OBVIOUS
  <2>3. /\ page[c].rev \in Nat /\ page[c].rev <= reached' /\ submitted'[c] \in Nat
    BY PageFields DEF SystemInv, Wider
  <2>4. e \in OkEntry'
    BY <2>2, <2>3 DEF OkEntry, RaftLogEntry
  <2>5. conn \in Seq(OkConnection') /\ conn[k] \in OkConnection'
    BY WiderBounds, SeqMonotone DEF SystemInv, WireInv
  <2>6. Append(conn[k].inbox, e) \in Seq(OkEntry')
    <3>1. conn[k].inbox \in Seq(OkEntry')
      BY <2>5 DEF OkConnection
    <3> QED BY <2>4, <3>1, SeqAppend
  <2>7. Append(conn[k].inbox, e) \in Seq(RaftLogEntry)
    <3>1. OkEntry' \subseteq RaftLogEntry
      BY DEF OkEntry
    <3> QED BY <2>6, <3>1, SeqMonotone
  <2>8. PICK q : q = Append(conn[k].inbox, e)
    OBVIOUS
  <2>9. PICK d : d = [conn[k] EXCEPT !.inbox = q]
    OBVIOUS
  <2>10. /\ d \in OkConnection'
         /\ d.node = conn[k].node /\ d.client = conn[k].client /\ d.stage = conn[k].stage
    BY <2>5, <2>6, <2>7, <2>8, <2>9 DEF OkConnection, Connection
  <2>11. conn' = [conn EXCEPT ![k] = d]
    BY <2>1, <2>2, <2>8, <2>9
  <2>12. conn' \in Seq(OkConnection') /\ DOMAIN conn' = DOMAIN conn
    BY <2>5, <2>10, <2>11, SeqUpdate
  <2>13. \A j \in DOMAIN conn : /\ conn'[j].node = conn[j].node
                                /\ conn'[j].client = conn[j].client
                                /\ Registered(j) => Registered(j)'
    BY <2>10, <2>11 DEF Registered
  <2> QED BY <2>12, <2>13, RegistryKept DEF WireInv, SystemInv
<1> QED BY <1>1, <1>2

LEMMA SubmitInv ==
    ASSUME DocInv, SystemInv, NEW c \in Client, Submit(c)
    PROVE  SystemInv' /\ NewSubmission(c)
<1>1. /\ NewSubmission(c) /\ UNCHANGED <<reached, doc, callbacks, serverVars, wide, missed>>
      /\ submitted' = [submitted EXCEPT ![c] = @ + 1]
  BY DEF Submit, NewSubmission
<1>2. submitted \in [Client -> Nat] /\ reached \in Nat
  BY DEF DocInv, DocTypeOK
<1>3. Wider /\ submitted'[c] = submitted[c] + 1
  BY <1>1, <1>2 DEF Wider
<1>4. page[c].sub \in Nat /\ page[c].sub <= submitted[c] /\ submitted[c] \in Nat
  BY <1>2, PageFields DEF SystemInv
<1>5. WireInv' /\ RegistryInv'
  <2>1. page[c].sub + 1 \in 1..submitted'[c]
    BY <1>3, <1>4
  <2> QED BY <1>1, <1>3, <2>1, SendSubmitInv DEF Submit, serverVars
<1>6. PageInv'
  <2>1. PICK s : s = page[c].sub + 1
    OBVIOUS
  <2>2. s \in Nat /\ s <= submitted'[c] /\ s > 0
    BY <1>3, <1>4, <2>1
  <2>3. PICK p : p = [page[c] EXCEPT !.pending = TRUE, !.waiting = TRUE, !.sub = s,
                                     !.typed = "no"]
    OBVIOUS
  <2>4. p \in Page /\ p \in OkPage(c)'
    BY <1>1, <2>2, <2>3 DEF SystemInv, PageInv, OkPage, Page
  <2>5. page' = [page EXCEPT ![c] = p]
    BY <2>1, <2>3 DEF Submit
  <2> QED BY <1>3, <2>4, <2>5, WiderBounds DEF SystemInv, PageInv
<1>7. ServerInv'
  BY <1>1, <1>3, WiderServers DEF SystemInv, ServerInv, serverVars
<1>8. ReportInv'
  BY <1>1 DEF SystemInv, ReportInv, OkResult, HeadRev
<1> QED BY <1>1, <1>5, <1>6, <1>7, <1>8 DEF SystemInv

LEMMA ResubmitInv ==
    ASSUME DocInv, SystemInv, NEW c \in Client, Resubmit(c)
    PROVE  SystemInv' /\ UNCHANGED committedVars /\ (Fault \/ UNCHANGED faults)
<1>1. UNCHANGED <<committedVars, serverVars, page, wide, missed>>
  BY DEF Resubmit
<1>2. Wider /\ page[c].sub \in 1..submitted'[c]
  <2>1. submitted \in [Client -> Nat] /\ reached \in Nat
    BY DEF DocInv, DocTypeOK
  <2>2. UNCHANGED <<reached, submitted>>
    BY <1>1 DEF committedVars
  <2>3. Wider
    BY <2>1, <2>2 DEF Wider
  <2>4. page[c].sub \in Nat /\ page[c].sub > 0 /\ page[c].sub <= submitted[c]
    BY PageFields DEF Resubmit, HasPendingX, SystemInv
  <2> QED BY <2>1, <2>2, <2>3, <2>4
<1>3. WireInv' /\ RegistryInv'
  BY <1>1, <1>2, SendSubmitInv DEF Resubmit, ResentSub, committedVars, serverVars
<1>4. ServerInv' /\ ReportInv' /\ PageInv'
  BY <1>1, SameServers, SameDocuments, SamePages
     DEF SystemInv, ServerInv, committedVars, serverVars
<1> QED BY <1>1, <1>3, <1>4 DEF SystemInv, Resubmit

-----------------------------------------------------------------------------
(* Messages that the page receives *)

LEMMA FoldedType ==
    ASSUME PageInv, NEW c \in Client, NEW edits \in Seq(Revision),
           NEW base \in Folded(c, edits)
    PROVE  base \in Seq(Revision)
<1>1. PICK part : base = page[c].base \o part /\ (part = edits \/ part \in Parts(edits))
  BY DEF Folded
<1>2. part \in Seq(Revision)
  BY <1>1, PartsType
<1> QED BY <1>1, <1>2, PageFields

LEMMA HandleConnectAckInv ==
    ASSUME PageInv, UNCHANGED <<reached, submitted>>, NEW c \in Client, NEW msg \in OkMessage,
           msg.type = "CONNECT_ACK", HandleConnectAck(c, msg)
    PROVE  PageInv'
<1> DEFINE kept  == [page[c] EXCEPT !.typed = IF @ = "Y" THEN "Y" ELSE "no"]
           reset == [page[c] EXCEPT !.typed = "no", !.pending = FALSE]
<1>1. kept \in OkPage(c) /\ reset \in OkPage(c)
  BY DEF PageInv, OkPage, Page
<1>2. PICK base \in (IF page[c].rev = 0 THEN {msg.text} ELSE Folded(c, msg.catchUp)),
           q \in {kept, reset} :
         page' = [page EXCEPT ![c] = [q EXCEPT !.base = base, !.rev = msg.rev,
                                               !.ready = TRUE, !.running = TRUE]]
  BY DEF HandleConnectAck
<1>3. base \in Seq(Revision) /\ msg.rev \in Nat /\ msg.rev <= reached
  BY MessageFields, FoldedType
<1> HIDE DEF kept, reset
<1>4. q \in OkPage(c)
  BY <1>1
<1>5. [q EXCEPT !.base = base, !.rev = msg.rev, !.ready = TRUE, !.running = TRUE] \in OkPage(c)
  BY <1>3, <1>4 DEF OkPage, Page
<1> QED BY <1>2, <1>5, OnePage

LEMMA HandleAckInv ==
    ASSUME PageInv, UNCHANGED <<reached, submitted>>, NEW c \in Client, NEW msg \in OkMessage,
           msg.type = "ACK", HandleAck(c, msg)
    PROVE  PageInv'
<1>1. PICK b : b = IF page[c].pending
                      THEN Append(page[c].base, [client |-> c, sub |-> page[c].sub])
                      ELSE page[c].base
  OBVIOUS
<1>2. [client |-> c, sub |-> page[c].sub] \in Revision
  BY PageFields DEF Revision
<1>3. b \in Seq(Revision) /\ msg.rev \in Nat /\ msg.rev <= reached
  BY <1>1, <1>2, PageFields, MessageFields, SeqAppend
<1> DEFINE p == [page[c] EXCEPT !.base = b, !.pending = FALSE, !.waiting = FALSE,
                                !.rev = msg.rev]
<1>4. page[c] \in OkPage(c) /\ p \in OkPage(c)
  BY <1>3 DEF PageInv, OkPage, Page
<1>5. page' = [page EXCEPT ![c] = page[c]] \/ page' = [page EXCEPT ![c] = p]
  BY <1>1 DEF HandleAck
<1> HIDE DEF p
<1> QED BY <1>4, <1>5, OnePage

LEMMA HandleBroadcastInv ==
    ASSUME PageInv, UNCHANGED <<reached, submitted>>, NEW c \in Client, NEW msg \in OkMessage,
           msg.type = "BROADCAST", HandleBroadcast(c, msg)
    PROVE  PageInv'
<1>1. PICK base \in Folded(c, <<msg.edit>>) :
        page' = [page EXCEPT ![c] =
                   IF ~page[c].ready THEN page[c]
                   ELSE [page[c] EXCEPT !.base = base,
                                        !.rev = IF base = page[c].base THEN @ ELSE msg.rev,
                                        !.typed = IF @ = "no" THEN "no" ELSE "Y"]]
  BY DEF HandleBroadcast
<1>2. <<msg.edit>> \in Seq(Revision) /\ msg.rev \in Nat /\ msg.rev <= reached
  BY MessageFields
<1>3. base \in Seq(Revision)
  BY <1>2, FoldedType
<1>4. PICK r, y : /\ r = IF base = page[c].base THEN page[c].rev ELSE msg.rev
                  /\ y = IF page[c].typed = "no" THEN "no" ELSE "Y"
  OBVIOUS
<1>5. /\ r \in Nat /\ r <= reached /\ y \in {"no", "screen", "Y"}
      /\ y # "no" => page[c].typed # "no"
  BY <1>2, <1>4, PageFields
<1> DEFINE p == [page[c] EXCEPT !.base = base, !.rev = r, !.typed = y]
<1>6. page[c] \in OkPage(c) /\ p \in OkPage(c)
  BY <1>3, <1>5 DEF PageInv, OkPage, Page
<1>7. page' = [page EXCEPT ![c] = page[c]] \/ page' = [page EXCEPT ![c] = p]
  BY <1>1, <1>4
<1> HIDE DEF p
<1> QED BY <1>6, <1>7, OnePage

LEMMA HandleRedirectInv ==
    ASSUME DocInv, SystemInv, UNCHANGED <<reached, submitted, clients>>,
           NEW k \in DOMAIN conn, conn[k].outbox # <<>>,
           NEW c \in Client, NEW msg \in OkMessage, msg.type = "REDIRECT",
           HandleRedirect(c, k, msg)
    PROVE  PageInv' /\ WireInv' /\ RegistryInv'
<1>1. PageInv'
  <2> DEFINE p == [page[c] EXCEPT !.timers = @ + 1, !.addr = msg.to]
  <2>1. msg.to \in Node /\ msg.to # None /\ page[c].timers + 1 \in Nat
    BY MessageFields, PageFields, SessionAssumption DEF SystemInv
  <2>2. p \in OkPage(c)
    BY <2>1 DEF SystemInv, PageInv, OkPage, Page
  <2>3. page' = [page EXCEPT ![c] = p]
    BY DEF HandleRedirect, SystemInv, PageInv
  <2> HIDE DEF p
  <2> QED BY <2>2, <2>3, OnePage DEF SystemInv
<1>2. \A j \in DOMAIN conn :
         /\ conn'[j] \in OkConnection /\ conn'[j].stage = conn[j].stage
         /\ conn'[j].node = conn[j].node /\ conn'[j].client = conn[j].client
  <2> SUFFICES ASSUME NEW j \in DOMAIN conn
               PROVE  /\ conn'[j] \in OkConnection /\ conn'[j].stage = conn[j].stage
                      /\ conn'[j].node = conn[j].node /\ conn'[j].client = conn[j].client
    OBVIOUS
  <2>1. conn[j] \in OkConnection /\ conn[k] \in OkConnection
    BY DEF SystemInv, WireInv
  <2>2. PICK d : d = IF j = k THEN [conn[j] EXCEPT !.outbox = Tail(@)] ELSE conn[j]
    OBVIOUS
  <2>3. Tail(conn[k].outbox) \in Seq(OkMessage)
    BY <2>1, ConnectionFields, SeqTail
  <2>4. /\ d \in OkConnection /\ d.stage = conn[j].stage
        /\ d.node = conn[j].node /\ d.client = conn[j].client
    <3>1. CASE j # k
      BY <2>1, <2>2, <3>1
    <3>2. CASE j = k
      <4>1. d = [conn[j] EXCEPT !.outbox = Tail(conn[j].outbox)]
        BY <2>2, <3>2
      <4>2. d.stage = conn[j].stage /\ d.node = conn[j].node /\ d.client = conn[j].client
        BY <2>1, <4>1 DEF OkConnection, Connection
      <4> QED BY <2>1, <2>3, <3>2, <4>1, <4>2, Delivered
    <3> QED BY <3>1, <3>2
  <2>5. /\ Down(d) \in OkConnection /\ Down(d).stage = d.stage
        /\ Down(d).node = d.node /\ Down(d).client = d.client
    BY <2>4, DownType DEF Down, OkConnection, Connection
  <2>6. conn'[j] = d \/ conn'[j] = Down(d)
    BY <2>2 DEF HandleRedirect
  <2> QED BY <2>4, <2>5, <2>6
<1>3. DOMAIN conn' = DOMAIN conn /\ conn' = [j \in DOMAIN conn |-> conn'[j]]
  BY DEF HandleRedirect
<1>4. conn' \in Seq(OkConnection)
  BY <1>2, <1>3, SeqMapped DEF SystemInv, WireInv
<1>5. RegistryInv'
  BY <1>2, <1>3, RegistryKept DEF SystemInv, Registered
<1> QED BY <1>1, <1>4, <1>5, SameBounds DEF WireInv

LEMMA ReceiveInv ==
    ASSUME DocInv, SystemInv, NEW k \in DOMAIN conn, Receive(k)
    PROVE  SystemInv' /\ UNCHANGED docVars
<1>1. UNCHANGED <<docVars, serverVars, wide, missed>>
  BY DEF Receive
<1>2. conn[k] \in OkConnection
  BY DEF SystemInv, WireInv
<1>3. PICK c, msg : c = conn[k].client /\ msg = Head(conn[k].outbox)
  OBVIOUS
<1>4. /\ c \in Client /\ conn[k].outbox # <<>> /\ msg \in OkMessage
      /\ Tail(conn[k].outbox) \in Seq(OkMessage)
  BY <1>2, <1>3, ConnectionFields, SeqTail DEF Receive
<1>5. CASE msg.type = "REDIRECT"
  <2>1. HandleRedirect(c, k, msg)
    BY <1>3, <1>5 DEF Receive
  <2> QED BY <1>1, <1>4, <1>5, <2>1, HandleRedirectInv, SameServers, SameDocuments
          DEF SystemInv, ServerInv, docVars, serverVars
<1>6. CASE msg.type # "REDIRECT"
  <2>1. PICK d : d = [conn[k] EXCEPT !.outbox = Tail(conn[k].outbox)]
    OBVIOUS
  <2>2. conn' = [conn EXCEPT ![k] = d]
    BY <1>3, <1>6, <2>1 DEF Receive
  <2>3. d \in OkConnection
    BY <1>2, <1>4, <2>1, Delivered
  <2>4. d.stage = conn[k].stage /\ d.node = conn[k].node /\ d.client = conn[k].client
    BY <1>2, <2>1 DEF OkConnection, Connection
  <2>5. WireInv' /\ RegistryInv'
    BY <1>1, <2>2, <2>3, <2>4, OneConnection DEF SystemInv, docVars, serverVars
  <2>6. \/ msg.type = "CONNECT_ACK" /\ HandleConnectAck(c, msg)
        \/ msg.type = "ACK" /\ HandleAck(c, msg)
        \/ msg.type = "BROADCAST" /\ HandleBroadcast(c, msg)
    BY <1>3, <1>6 DEF Receive
  <2>7. PageInv'
    BY <1>1, <1>4, <2>6, HandleConnectAckInv, HandleAckInv, HandleBroadcastInv
       DEF SystemInv, docVars
  <2> QED BY <1>1, <2>5, <2>7, SameServers, SameDocuments
          DEF SystemInv, ServerInv, docVars, serverVars
<1> QED BY <1>5, <1>6

-----------------------------------------------------------------------------
(* Steps of the server *)

LEMMA RegisterInv ==
    ASSUME DocInv, SystemInv, NEW k \in DOMAIN conn, Register(k)
    PROVE  SystemInv' /\ UNCHANGED docVars
<1>1. UNCHANGED <<docVars, leaderID, proposals, page, wide, missed>>
  BY DEF Register
<1>2. PICK n, c : n = conn[k].node /\ c = conn[k].client
  OBVIOUS
<1>3. conn \in Seq(OkConnection) /\ conn[k] \in OkConnection /\ k \in Nat
  BY DEF SystemInv, WireInv
<1>4. n \in Node /\ c \in Client
  BY <1>2, <1>3, ConnectionFields
<1>5. PICK d : d = [conn[k] EXCEPT !.stage = "registered"]
  OBVIOUS
<1>6. d \in OkConnection
  BY <1>3, <1>5, Staged DEF Stages, Connecting
<1>7. d.stage = "registered" /\ d.node = n /\ d.client = c
  BY <1>2, <1>3, <1>5 DEF OkConnection, Connection
<1>8. conn' = [conn EXCEPT ![k] = d] /\ clients' = [clients EXCEPT ![n][c] = k]
  BY <1>2, <1>5 DEF Register
<1>9. WireInv'
  BY <1>1, <1>3, <1>6, <1>8, SeqUpdate, SameBounds DEF WireInv, docVars
<1>10. clients' \in [Node -> [Client -> Nat]]
  BY <1>3, <1>4, <1>8 DEF SystemInv, ServerInv
<1>11. RegistryInv'
  <2> SUFFICES ASSUME NEW m \in Node, NEW b \in Client, clients'[m][b] # 0
               PROVE  /\ clients'[m][b] \in DOMAIN conn'
                      /\ conn'[clients'[m][b]].node = m /\ conn'[clients'[m][b]].client = b
                      /\ conn'[clients'[m][b]].stage \in Serving
    BY DEF RegistryInv, Registered, Serving
  <2>1. DOMAIN conn' = DOMAIN conn /\ conn'[k] = d
    BY <1>3, <1>8
  <2>2. CASE clients'[m][b] = k /\ m = n /\ b = c
    BY <1>7, <2>1, <2>2 DEF Serving, Connecting
  <2>3. CASE ~(m = n /\ b = c)
    <3>1. clients'[m][b] = clients[m][b]
      BY <1>4, <1>8, <2>3 DEF SystemInv, ServerInv
    <3>2. /\ clients[m][b] \in DOMAIN conn
          /\ conn[clients[m][b]].node = m /\ conn[clients[m][b]].client = b
          /\ Registered(clients[m][b])
      BY <3>1 DEF SystemInv, RegistryInv
    <3>3. clients[m][b] # k
      BY <1>2, <2>3, <3>2
    <3>4. conn'[clients[m][b]] = conn[clients[m][b]]
      BY <1>8, <3>2, <3>3
    <3> QED BY <2>1, <3>1, <3>2, <3>4 DEF Registered, Serving
  <2>4. m = n /\ b = c => clients'[m][b] = k
    BY <1>4, <1>8 DEF SystemInv, ServerInv
  <2> QED BY <2>2, <2>3, <2>4
<1>12. ServerInv' /\ ReportInv' /\ PageInv'
  BY <1>1, <1>10, SameBounds, SameDocuments, SamePages DEF SystemInv, ServerInv, docVars
<1> QED BY <1>1, <1>9, <1>11, <1>12 DEF SystemInv

\* What most handlers of a connection do: one connection moves on, nothing else
\* changes but missed.
LEMMA HandlerInv ==
    ASSUME SystemInv, NEW k \in DOMAIN conn, NEW d \in OkConnection,
           conn' = [conn EXCEPT ![k] = d],
           d.node = conn[k].node, d.client = conn[k].client,
           conn[k].stage \in Serving => d.stage \in Serving,
           UNCHANGED <<docVars, serverVars, page, wide>>, missed' \subseteq Client
    PROVE  SystemInv' /\ UNCHANGED docVars
<1>1. WireInv' /\ RegistryInv'
  BY OneConnection DEF SystemInv, docVars, serverVars
<1> QED BY <1>1, SameServers, SameDocuments, SamePages DEF SystemInv, docVars, serverVars

LEMMA RedirectConnectInv ==
    ASSUME DocInv, SystemInv, NEW k \in DOMAIN conn, RedirectConnect(k)
    PROVE  SystemInv' /\ UNCHANGED docVars
<1>1. conn[k] \in OkConnection
  BY DEF SystemInv, WireInv
<1>2. PICK n, msg, q : /\ n = conn[k].node /\ msg = [type |-> "REDIRECT", to |-> leaderID[n]]
                       /\ q = Sent(k, msg)
  OBVIOUS
<1>3. leaderID[n] \in Node
  BY <1>1, <1>2, ConnectionFields DEF RedirectConnect, SystemInv, ServerInv
<1>4. msg \in OkMessage
  BY <1>2, <1>3 DEF OkMessage, Message
<1>5. q \in Seq(OkMessage)
  BY <1>2, <1>4, SentType DEF SystemInv
<1>6. PICK d : d = [conn[k] EXCEPT !.stage = "serving", !.known = 0, !.outbox = q]
  OBVIOUS
<1>7. q \in Seq(Message)
  BY <1>5, SeqMonotone DEF OkMessage
<1>8. /\ d \in OkConnection /\ d.node = conn[k].node /\ d.client = conn[k].client
      /\ d.stage = "serving"
  BY <1>1, <1>5, <1>6, <1>7 DEF OkConnection, Connection, Stages
<1>9. conn' = [conn EXCEPT ![k] = d]
  BY <1>2, <1>6 DEF RedirectConnect
<1> QED BY <1>8, <1>9, HandlerInv, DroppedType
        DEF RedirectConnect, Serving, SystemInv, ServerInv

LEMMA DocumentFields ==
    ASSUME DocInv, NEW n \in Node
    PROVE  doc[n].revisions \in Seq(Revision) /\ HeadRev(doc[n]) \in Nat
  BY DEF DocInv, DocTypeOK, DocumentState, HeadRev

LEMMA ReadRevisionsInv ==
    ASSUME DocInv, SystemInv, NEW k \in DOMAIN conn, ReadRevisions(k)
    PROVE  SystemInv' /\ UNCHANGED docVars
<1>1. conn[k] \in OkConnection
  BY DEF SystemInv, WireInv
<1>2. PICK q : q = RevisionsSince(conn[k].node, conn[k].known)
  OBVIOUS
<1>3. q \in Seq(Revision)
  <2>1. conn[k].known + 1 \in Nat /\ conn[k].known + 1 > 0 /\ conn[k].node \in Node
    BY <1>1, ConnectionFields
  <2> QED BY <1>2, <2>1, DocumentFields, SeqCut DEF RevisionsSince, HeadRev
<1>4. PICK d : d = [conn[k] EXCEPT !.stage = "caughtUp", !.catchUp = q]
  OBVIOUS
<1>5. /\ d \in OkConnection /\ d.node = conn[k].node /\ d.client = conn[k].client
      /\ d.stage = "caughtUp"
  BY <1>1, <1>3, <1>4 DEF OkConnection, Connection, Stages, Connecting
<1>6. conn' = [conn EXCEPT ![k] = d]
  BY <1>2, <1>4 DEF ReadRevisions
<1> QED BY <1>5, <1>6, HandlerInv DEF ReadRevisions, Serving, Connecting, SystemInv, ServerInv

LEMMA ReadTextInv ==
    ASSUME DocInv, SystemInv, NEW k \in DOMAIN conn, ReadText(k)
    PROVE  SystemInv' /\ UNCHANGED docVars
<1>1. conn[k] \in OkConnection
  BY DEF SystemInv, WireInv
<1>2. PICK q : q = doc[conn[k].node].revisions
  OBVIOUS
<1>3. q \in Seq(Revision)
  BY <1>1, <1>2, ConnectionFields, DocumentFields
<1>4. PICK d : d = [conn[k] EXCEPT !.stage = "hasText", !.text = q]
  OBVIOUS
<1>5. /\ d \in OkConnection /\ d.node = conn[k].node /\ d.client = conn[k].client
      /\ d.stage = "hasText"
  BY <1>1, <1>3, <1>4 DEF OkConnection, Connection, Stages, Connecting
<1>6. conn' = [conn EXCEPT ![k] = d]
  BY <1>2, <1>4 DEF ReadText
<1> QED BY <1>5, <1>6, HandlerInv DEF ReadText, Serving, Connecting, SystemInv, ServerInv

\* No node's document is beyond the greatest revision reached.
LEMMA HeadBounded ==
    ASSUME DocInv, SystemInv, NEW n \in Node
    PROVE  HeadRev(doc[n]) \in Nat /\ HeadRev(doc[n]) <= reached
  BY DocumentFields DEF SystemInv, ReportInv

LEMMA ReadRevInv ==
    ASSUME DocInv, SystemInv, NEW k \in DOMAIN conn, ReadRev(k)
    PROVE  SystemInv' /\ UNCHANGED docVars
<1>1. conn[k] \in OkConnection
  BY DEF SystemInv, WireInv
<1>2. PICK r : r = HeadRev(doc[conn[k].node])
  OBVIOUS
<1>3. r \in Nat /\ r <= reached
  BY <1>1, <1>2, ConnectionFields, HeadBounded
<1>4. PICK d : d = [conn[k] EXCEPT !.stage = "hasRev", !.rev = r]
  OBVIOUS
<1>5. /\ d \in OkConnection /\ d.node = conn[k].node /\ d.client = conn[k].client
      /\ d.stage = "hasRev"
  BY <1>1, <1>3, <1>4 DEF OkConnection, Connection, Stages, Connecting
<1>6. conn' = [conn EXCEPT ![k] = d]
  BY <1>2, <1>4 DEF ReadRev
<1> QED BY <1>5, <1>6, HandlerInv DEF ReadRev, Serving, Connecting, SystemInv, ServerInv

LEMMA SendConnectAckInv ==
    ASSUME DocInv, SystemInv, NEW k \in DOMAIN conn, SendConnectAck(k)
    PROVE  SystemInv' /\ UNCHANGED docVars
<1>1. conn[k] \in OkConnection /\ reached \in Nat
  BY DEF SystemInv, WireInv, DocInv, DocTypeOK
<1>2. PICK msg, q : /\ msg = [type |-> "CONNECT_ACK", text |-> conn[k].text,
                              rev |-> conn[k].rev, catchUp |-> conn[k].catchUp]
                    /\ q = Sent(k, msg)
  OBVIOUS
<1>3. msg \in OkMessage
  <2>1. /\ conn[k].text \in Seq(Revision) /\ conn[k].catchUp \in Seq(Revision)
        /\ conn[k].rev \in Nat /\ conn[k].rev <= reached
    BY <1>1, ConnectionFields
  <2> QED BY <1>2, <2>1 DEF OkMessage, Message
<1>4. q \in Seq(OkMessage)
  BY <1>2, <1>3, SentType DEF SystemInv
<1>5. q \in Seq(Message) /\ <<>> \in Seq(Revision) /\ 0 <= reached
  BY <1>1, <1>4, SeqMonotone DEF OkMessage
<1>6. PICK d : d = [conn[k] EXCEPT !.stage = "serving", !.known = 0, !.catchUp = <<>>,
                                   !.text = <<>>, !.rev = 0, !.outbox = q]
  OBVIOUS
<1>7. /\ d \in OkConnection /\ d.node = conn[k].node /\ d.client = conn[k].client
      /\ d.stage = "serving"
  BY <1>1, <1>4, <1>5, <1>6 DEF OkConnection, Connection, Stages
<1>8. conn' = [conn EXCEPT ![k] = d]
  BY <1>2, <1>6 DEF SendConnectAck
<1> QED BY <1>7, <1>8, HandlerInv, DroppedType
        DEF SendConnectAck, Serving, SystemInv, ServerInv

LEMMA HandleSubmitInv ==
    ASSUME DocInv, SystemInv, NEW k \in DOMAIN conn, HandleSubmit(k)
    PROVE  SystemInv' /\ UNCHANGED docVars
<1>1. /\ UNCHANGED <<docVars, leaderID, clients, page, wide>>
      /\ conn[k].stage = "serving" /\ conn[k].inbox # <<>>
  BY DEF HandleSubmit
<1>2. conn[k] \in OkConnection
  BY DEF SystemInv, WireInv
<1>3. /\ Tail(conn[k].inbox) \in Seq(OkEntry) /\ Head(conn[k].inbox) \in OkEntry
      /\ conn[k].node \in Node /\ conn[k].outbox \in Seq(OkMessage)
  BY <1>1, <1>2, ConnectionFields, SeqTail
<1>4. ASSUME NEW q \in Seq(OkMessage),
             conn' = [conn EXCEPT ![k] = [conn[k] EXCEPT !.inbox = Tail(conn[k].inbox),
                                                         !.outbox = q]]
      PROVE  WireInv' /\ RegistryInv'
  <2>1. PICK e : e = [conn[k] EXCEPT !.inbox = Tail(conn[k].inbox)]
    OBVIOUS
  <2>2. /\ e \in OkConnection /\ e.stage = conn[k].stage
        /\ e.node = conn[k].node /\ e.client = conn[k].client
    <3>1. e \in OkConnection
      BY <1>2, <1>3, <2>1, Taken
    <3> QED BY <1>2, <2>1, <3>1 DEF OkConnection, Connection
  <2>3. PICK d : d = [e EXCEPT !.outbox = q]
    OBVIOUS
  <2>4. /\ d \in OkConnection /\ d.stage = e.stage
        /\ d.node = e.node /\ d.client = e.client
    <3>1. d \in OkConnection
      BY <2>2, <2>3, Delivered
    <3> QED BY <2>2, <2>3, <3>1 DEF OkConnection, Connection
  <2>5. conn' = [conn EXCEPT ![k] = d]
    BY <1>4, <2>1, <2>3
  <2> QED BY <1>1, <2>2, <2>4, <2>5, OneConnection DEF SystemInv, docVars
<1>5. ASSUME conn' = [conn EXCEPT ![k].inbox = Tail(@)]
      PROVE  WireInv' /\ RegistryInv'
  <2>1. PICK d : d = [conn[k] EXCEPT !.inbox = Tail(conn[k].inbox)]
    OBVIOUS
  <2>2. /\ d \in OkConnection /\ d.stage = conn[k].stage
        /\ d.node = conn[k].node /\ d.client = conn[k].client
    <3>1. d \in OkConnection
      BY <1>2, <1>3, <2>1, Taken
    <3> QED BY <1>2, <2>1, <3>1 DEF OkConnection, Connection
  <2>3. conn' = [conn EXCEPT ![k] = d]
    BY <1>5, <2>1
  <2> QED BY <1>1, <2>2, <2>3, OneConnection DEF SystemInv, docVars
<1>6. ReportInv' /\ PageInv'
  BY <1>1, SameDocuments, SamePages DEF SystemInv, docVars
<1>7. CASE RedirectSubmit(k)
  <2>1. PICK msg : msg = [type |-> "REDIRECT", to |-> WsAddr(conn[k].node)]
    OBVIOUS
  <2>2. WsAddr(conn[k].node) \in Node
    BY <1>3 DEF WsAddr, SystemInv, ServerInv
  <2>3. msg \in OkMessage
    BY <2>1, <2>2 DEF OkMessage, Message
  <2>4. Sent(k, msg) \in Seq(OkMessage)
    BY <2>3, SentType DEF SystemInv
  <2>5. conn' = [conn EXCEPT ![k] = [conn[k] EXCEPT !.inbox = Tail(conn[k].inbox),
                                                    !.outbox = Sent(k, msg)]]
    BY <1>7, <2>1 DEF RedirectSubmit, SystemInv, WireInv
  <2>6. missed' \subseteq Client
    BY <1>7, DroppedType DEF RedirectSubmit, SystemInv, ServerInv
  <2>7. ServerInv'
    BY <1>1, <1>7, <2>6, SameServers DEF RedirectSubmit, SystemInv, docVars
  <2> QED BY <1>1, <1>4, <1>6, <2>4, <2>5, <2>7 DEF SystemInv
<1>8. CASE RefuseSubmit(k)
  <2>1. ServerInv'
    BY <1>1, <1>8, SameServers DEF RefuseSubmit, SystemInv, ServerInv, docVars
  <2> QED BY <1>1, <1>5, <1>6, <1>8, <2>1 DEF RefuseSubmit, SystemInv
<1>9. CASE Propose(k)
  <2>1. PICK n, q : n = conn[k].node /\ q = Append(proposals[n], Head(conn[k].inbox))
    OBVIOUS
  <2>2. q \in Seq(OkEntry)
    BY <1>3, <2>1, SeqAppend DEF SystemInv, ServerInv
  <2>3. proposals' = [proposals EXCEPT ![n] = q]
    BY <1>9, <2>1 DEF Propose
  <2>4. proposals' \in [Node -> Seq(OkEntry)]
    BY <2>2, <2>3 DEF SystemInv, ServerInv
  <2>5. ServerInv'
    BY <1>1, <1>9, <2>4, SameBounds DEF Propose, SystemInv, ServerInv, docVars
  <2> QED BY <1>1, <1>5, <1>6, <1>9, <2>5 DEF Propose, SystemInv
<1> QED BY <1>7, <1>8, <1>9 DEF HandleSubmit

LEMMA RemoveClientInv ==
    ASSUME DocInv, SystemInv, NEW k \in DOMAIN conn, RemoveClient(k)
    PROVE  SystemInv' /\ UNCHANGED docVars
<1>1. UNCHANGED <<docVars, leaderID, proposals, page, wide, missed>>
  BY DEF RemoveClient
<1>2. PICK n, c : n = conn[k].node /\ c = conn[k].client
  OBVIOUS
<1>3. conn \in Seq(OkConnection) /\ conn[k] \in OkConnection
  BY DEF SystemInv, WireInv
<1>4. n \in Node /\ c \in Client
  BY <1>2, <1>3, ConnectionFields
<1>5. PICK d : d = [conn[k] EXCEPT !.stage = "removed", !.inbox = <<>>]
  OBVIOUS
<1>6. d \in OkConnection
  <2>1. <<>> \in Seq(OkEntry) /\ <<>> \in Seq(RaftLogEntry)
    OBVIOUS
  <2> QED BY <1>3, <1>5, <2>1 DEF OkConnection, Connection, Stages
<1>7. conn' = [conn EXCEPT ![k] = d] /\ clients' = [clients EXCEPT ![n][c] = 0]
  BY <1>2, <1>5 DEF RemoveClient, SystemInv, WireInv
<1>8. WireInv'
  BY <1>1, <1>3, <1>6, <1>7, SeqUpdate, SameBounds DEF WireInv, docVars
<1>9. clients' \in [Node -> [Client -> Nat]]
  BY <1>4, <1>7 DEF SystemInv, ServerInv
<1>10. RegistryInv'
  <2> SUFFICES ASSUME NEW m \in Node, NEW b \in Client, clients'[m][b] # 0
               PROVE  /\ clients'[m][b] \in DOMAIN conn'
                      /\ conn'[clients'[m][b]].node = m /\ conn'[clients'[m][b]].client = b
                      /\ conn'[clients'[m][b]].stage \in Serving
    BY DEF RegistryInv, Registered, Serving
  <2>1. ~(m = n /\ b = c) /\ clients'[m][b] = clients[m][b]
    BY <1>4, <1>7 DEF SystemInv, ServerInv
  <2>2. /\ clients[m][b] \in DOMAIN conn
        /\ conn[clients[m][b]].node = m /\ conn[clients[m][b]].client = b
        /\ Registered(clients[m][b])
    BY <2>1 DEF SystemInv, RegistryInv
  <2>3. clients[m][b] # k
    BY <1>2, <2>1, <2>2
  <2>4. DOMAIN conn' = DOMAIN conn /\ conn'[clients[m][b]] = conn[clients[m][b]]
    BY <1>7, <2>2, <2>3
  <2> QED BY <2>1, <2>2, <2>4 DEF Registered, Serving
<1>11. ServerInv' /\ ReportInv' /\ PageInv'
  BY <1>1, <1>9, SameBounds, SameDocuments, SamePages DEF SystemInv, ServerInv, docVars
<1> QED BY <1>1, <1>8, <1>10, <1>11 DEF SystemInv

LEMMA CloseChannelInv ==
    ASSUME DocInv, SystemInv, NEW k \in DOMAIN conn, CloseChannel(k)
    PROVE  SystemInv' /\ UNCHANGED docVars
<1>1. conn[k] \in OkConnection
  BY DEF SystemInv, WireInv
<1>2. PICK d : d = [conn[k] EXCEPT !.stage = "closed", !.known = 0, !.inbox = <<>>]
  OBVIOUS
<1>3. <<>> \in Seq(OkEntry) /\ <<>> \in Seq(RaftLogEntry)
  OBVIOUS
<1>4. d \in OkConnection /\ d.node = conn[k].node /\ d.client = conn[k].client
  BY <1>1, <1>2, <1>3 DEF OkConnection, Connection, Stages
<1>5. conn' = [conn EXCEPT ![k] = d]
  BY <1>2 DEF CloseChannel, SystemInv, WireInv
<1>6. conn[k].stage \notin Serving
  BY DEF CloseChannel, Serving, Connecting
<1> QED BY <1>4, <1>5, <1>6, HandlerInv DEF CloseChannel, SystemInv, ServerInv

LEMMA OnCommitInv ==
    ASSUME DocInv, SystemInv, NEW n \in Node, NEW i \in DOMAIN callbacks[n], OnCommit(n, i)
    PROVE  SystemInv' /\ RunCallback(n, i)
<1>1. /\ RunCallback(n, i) /\ UNCHANGED <<serverVars, page, wide>>
      /\ UNCHANGED <<reached, submitted, doc>>
  BY DEF OnCommit, RunCallback
<1>2. PICK r : r = callbacks[n][i]
  OBVIOUS
<1>3. callbacks[n] \in Seq(OkResult) /\ r \in OkResult
  BY <1>2 DEF SystemInv, ReportInv
<1>4. ReportInv'
  <2>1. SubSeq(callbacks[n], 1, i - 1) \o SubSeq(callbacks[n], i + 1, Len(callbacks[n]))
          \in Seq(OkResult)
    BY <1>3, SeqWithout
  <2>2. \A m \in Node : callbacks'[m] \in Seq(OkResult)
    BY <1>1, <2>1 DEF RunCallback, SystemInv, ReportInv, DocInv, DocTypeOK
  <2> QED BY <1>1, <2>2, SameBounds DEF SystemInv, ReportInv, HeadRev
<1>5. \A k \in DOMAIN conn :
         /\ conn'[k] \in OkConnection /\ conn'[k].stage = conn[k].stage
         /\ conn'[k].node = conn[k].node /\ conn'[k].client = conn[k].client
  <2> SUFFICES ASSUME NEW k \in DOMAIN conn
               PROVE  /\ conn'[k] \in OkConnection /\ conn'[k].stage = conn[k].stage
                      /\ conn'[k].node = conn[k].node /\ conn'[k].client = conn[k].client
    OBVIOUS
  <2>1. conn[k] \in OkConnection
    BY DEF SystemInv, WireInv
  <2>2. CASE k \notin Told(n, r)
    BY <1>2, <2>1, <2>2 DEF OnCommit
  <2>3. CASE k \in Told(n, r)
    <3>1. PICK b, q : b = conn[k].client /\ q = Sent(k, News(b, r)[1])
      OBVIOUS
    <3>2. PICK c \in Client : clients[n][c] = k /\ News(c, r) # <<>>
      BY <2>3 DEF Told
    <3>3. c = b
      BY <3>1, <3>2, <2>1 DEF SystemInv, RegistryInv, WireInv
    <3>4. News(b, r)[1] \in OkMessage
      <4>1. /\ r.rev \in Nat /\ r.rev <= reached /\ r.edit \in Revision
        BY <1>3 DEF OkResult, ApplyResult
      <4>2. \/ News(b, r) = <<[type |-> "ACK", rev |-> r.rev]>>
            \/ News(b, r) = <<[type |-> "BROADCAST", edit |-> r.edit, rev |-> r.rev]>>
        BY <3>2, <3>3 DEF News
      <4>3. /\ [type |-> "ACK", rev |-> r.rev] \in OkMessage
            /\ [type |-> "BROADCAST", edit |-> r.edit, rev |-> r.rev] \in OkMessage
        BY <4>1 DEF OkMessage, Message
      <4> QED BY <4>2, <4>3
    <3>5. q \in Seq(OkMessage)
      BY <3>1, <3>4, SentType DEF SystemInv
    <3>6. PICK d : d = [conn[k] EXCEPT !.outbox = q]
      OBVIOUS
    <3>7. d \in OkConnection
      BY <2>1, <3>5, <3>6, Delivered
    <3>8. d.stage = conn[k].stage /\ d.node = conn[k].node /\ d.client = conn[k].client
      BY <2>1, <3>6 DEF OkConnection, Connection
    <3>9. conn'[k] = d
      BY <1>2, <2>3, <3>1, <3>6 DEF OnCommit
    <3> QED BY <3>7, <3>8, <3>9
  <2> QED BY <2>2, <2>3
<1>6. DOMAIN conn' = DOMAIN conn /\ conn' = [k \in DOMAIN conn |-> conn'[k]]
  BY DEF OnCommit
<1>7. conn' \in Seq(OkConnection)
  BY <1>5, <1>6, SeqMapped DEF SystemInv, WireInv
<1>8. RegistryInv'
  BY <1>1, <1>5, <1>6, RegistryKept DEF SystemInv, Registered, serverVars
<1>9. missed' \subseteq Client
  <2>1. \A k \in Told(n, r) : Dropped(k) \subseteq Client
    BY DroppedType DEF SystemInv, Told
  <2>2. \A c \in missed' : \/ c \in missed \/ c \in Client
                           \/ \E k \in Told(n, r) : c \in Dropped(k)
    BY <1>2 DEF OnCommit
  <2> QED BY <2>1, <2>2 DEF SystemInv, ServerInv
<1>10. ServerInv' /\ PageInv'
  BY <1>1, <1>9, SameServers, SamePages DEF SystemInv, serverVars
<1> QED BY <1>1, <1>4, <1>7, <1>8, <1>10, SameBounds DEF SystemInv, WireInv

-----------------------------------------------------------------------------
(* Steps of Raft and of the nodes *)

LEMMA CommitProposalInv ==
    ASSUME DocInv, SystemInv, NEW n \in Node, CommitProposal(n)
    PROVE  SystemInv' /\ DocNext
<1>1. PICK e : e = Head(proposals[n])
  OBVIOUS
<1>2. e \in OkEntry /\ Tail(proposals[n]) \in Seq(OkEntry)
  BY <1>1, SeqTail DEF CommitProposal, SystemInv, ServerInv
<1>3. Commit(e)
  BY <1>1 DEF CommitProposal
<1>4. DocNext
  <2>1. /\ e \in RaftLogEntry /\ e.base \in Nat /\ e.base <= reached /\ e.client \in Client
        /\ e.fits \in BOOLEAN /\ e.sub \in 1..submitted[e.client]
    BY <1>2 DEF OkEntry, RaftLogEntry
  <2>2. e.base \in 0..reached
    BY <2>1 DEF DocInv, DocTypeOK
  <2>3. e = [client |-> e.client, sub |-> e.sub, base |-> e.base, fits |-> e.fits]
    BY <2>1 DEF RaftLogEntry
  <2>4. Commit([client |-> e.client, sub |-> e.sub, base |-> e.base, fits |-> e.fits])
    BY <1>3, <2>3
  <2> QED BY <2>1, <2>2, <2>4 DEF DocNext
<1>5. UNCHANGED <<reached, submitted, doc, callbacks, leaderID, clients, conn, page, wide, missed>>
  BY <1>3 DEF Commit, CommitProposal
<1>6. ReportInv' /\ PageInv' /\ WireInv' /\ RegistryInv'
  BY <1>5, SameDocuments, SamePages, SameConnections DEF SystemInv
<1>7. ServerInv'
  <2>1. proposals' = [proposals EXCEPT ![n] = Tail(proposals[n])]
    BY DEF CommitProposal
  <2>2. proposals' \in [Node -> Seq(OkEntry)]
    BY <1>2, <2>1 DEF SystemInv, ServerInv
  <2> QED BY <1>5, <2>2, SameBounds DEF SystemInv, ServerInv
<1> QED BY <1>4, <1>6, <1>7 DEF SystemInv

LEMMA LoseProposalInv ==
    ASSUME DocInv, SystemInv, NEW n \in Node, LoseProposal(n)
    PROVE  SystemInv' /\ Fault /\ UNCHANGED committedVars
<1>1. UNCHANGED <<committedVars, leaderID, clients, conn, page, wide, missed>>
  BY DEF LoseProposal
<1>2. PICK i \in DOMAIN proposals[n] :
         proposals' = [proposals EXCEPT
                         ![n] = SubSeq(@, 1, i - 1) \o SubSeq(@, i + 1, Len(@))]
  BY DEF LoseProposal
<1>3. SubSeq(proposals[n], 1, i - 1) \o SubSeq(proposals[n], i + 1, Len(proposals[n]))
        \in Seq(OkEntry)
  BY SeqWithout DEF SystemInv, ServerInv
<1>4. proposals' \in [Node -> Seq(OkEntry)]
  BY <1>2, <1>3 DEF SystemInv, ServerInv
<1>5. ServerInv'
  BY <1>1, <1>4, SameBounds DEF SystemInv, ServerInv, committedVars
<1>6. ReportInv' /\ PageInv' /\ WireInv' /\ RegistryInv'
  BY <1>1, SameDocuments, SamePages, SameConnections DEF SystemInv, committedVars
<1> QED BY <1>1, <1>5, <1>6 DEF SystemInv, LoseProposal

LEMMA ChangeLeaderInv ==
    ASSUME DocInv, SystemInv, NEW n \in Node, NEW l \in Node \cup {None}, ChangeLeader(n, l)
    PROVE  SystemInv' /\ UNCHANGED committedVars /\ (Fault \/ UNCHANGED faults)
<1>1. UNCHANGED <<committedVars, proposals, clients, conn, page, wide, missed>>
  BY DEF ChangeLeader
<1>2. leaderID' \in [Node -> Node \cup {None}]
  BY DEF ChangeLeader, SystemInv, ServerInv
<1>3. ServerInv'
  BY <1>1, <1>2, SameBounds DEF SystemInv, ServerInv, committedVars
<1>4. ReportInv' /\ PageInv' /\ WireInv' /\ RegistryInv'
  BY <1>1, SameDocuments, SamePages, SameConnections DEF SystemInv, committedVars
<1>5. Fault \/ UNCHANGED faults
  BY DEF ChangeLeader
<1> QED BY <1>1, <1>3, <1>4, <1>5 DEF SystemInv

\* fsm.Apply reports the revision that the document has then.
LEMMA ApplyReport ==
    ASSUME NEW d \in DocumentState, NEW e \in RaftLogEntry, NEW fits \in BOOLEAN
    PROVE  \A i \in DOMAIN ResultOf(d, e, fits) :
              ResultOf(d, e, fits)[i].rev = HeadRev(AfterEntry(d, e, fits))
<1>1. d.revisions \in Seq(Revision) /\ EditOf(e) \in Revision
  BY DEF DocumentState, EditOf, RaftLogEntry, Revision
<1>2. CASE IsDuplicate(d, e)
  BY <1>2 DEF ResultOf, AfterEntry
<1>3. CASE ~IsDuplicate(d, e) /\ fits
  <2>1. AfterEntry(d, e, fits).revisions = Append(d.revisions, EditOf(e))
    BY <1>3 DEF AfterEntry
  <2>2. HeadRev(AfterEntry(d, e, fits)) = HeadRev(d) + 1
    BY <1>1, <2>1 DEF HeadRev
  <2>3. PICK h : h = HeadRev(d) + 1
    OBVIOUS
  <2>4. ResultOf(d, e, fits) = <<[client |-> e.client, rev |-> h, edit |-> EditOf(e),
                                  dup |-> FALSE]>>
    BY <1>3, <2>3 DEF ResultOf
  <2>5. \A i \in DOMAIN ResultOf(d, e, fits) : ResultOf(d, e, fits)[i].rev = h
    BY <2>4
  <2> QED BY <2>2, <2>3, <2>5
<1>4. CASE ~IsDuplicate(d, e) /\ ~fits
  BY <1>4 DEF ResultOf
<1> QED BY <1>2, <1>3, <1>4

LEMMA ApplyCommittedInv ==
    ASSUME DocInv, SystemInv, NEW n \in Node, ApplyCommitted(n)
    PROVE  SystemInv' /\ (ApplyEntry(n) \/ SkipEntry(n))
<1>1. UNCHANGED <<submitted, serverVars, conn, page, wide, missed>>
  BY DEF ApplyCommitted, ApplyEntry, SkipEntry
<1>2. /\ doc[n] \in DocumentState /\ lastApplied \in [Node -> Nat] /\ Len(log) \in Nat
      /\ log \in Seq(RaftLogEntry) /\ doc \in [Node -> DocumentState]
      /\ callbacks \in [Node -> Seq(ApplyResult)] /\ skipped \in [Node -> BOOLEAN]
      /\ reached \in Nat /\ submitted \in [Client -> Nat]
  BY DEF DocInv, DocTypeOK
<1>3. CASE ApplyEntry(n)
  <2>1. PICK e : e = log[lastApplied[n] + 1]
    OBVIOUS
  <2>2. e \in RaftLogEntry /\ e.fits \in BOOLEAN
    <3>1. lastApplied[n] + 1 \in 1..Len(log)
      BY <1>2, <1>3 DEF ApplyEntry
    <3>2. e \in RaftLogEntry
      BY <1>2, <2>1, <3>1
    <3> QED BY <3>2 DEF RaftLogEntry
  <2>3. PICK fits \in BOOLEAN :
           /\ doc' = [doc EXCEPT ![n] = AfterEntry(doc[n], e, fits)]
           /\ callbacks' = [callbacks EXCEPT ![n] = callbacks[n] \o ResultOf(doc[n], e, fits)]
    BY <1>3, <2>1, <2>2 DEF ApplyEntry
  <2>4. PICK d, res : d = AfterEntry(doc[n], e, fits) /\ res = ResultOf(doc[n], e, fits)
    OBVIOUS
  <2>5. d \in DocumentState /\ res \in Seq(ApplyResult)
    BY <1>2, <2>2, <2>4, AfterEntryType, ResultOfType
  <2>6. HeadRev(d) \in Nat
    BY <2>5 DEF HeadRev, DocumentState
  <2>7. /\ reached' \in Nat /\ reached <= reached' /\ HeadRev(d) <= reached'
    <3>1. reached' = IF HeadRev(doc'[n]) > reached THEN HeadRev(doc'[n]) ELSE reached
      BY <1>3 DEF ApplyEntry
    <3>2. doc'[n] = d
      BY <1>2, <2>3, <2>4
    <3> QED BY <1>2, <2>6, <3>1, <3>2
  <2>8. Wider
    BY <1>1, <1>2, <2>7 DEF Wider
  <2>9. res \in Seq(OkResult')
    <3>1. \A i \in DOMAIN res : res[i].rev = HeadRev(d)
      BY <1>2, <2>2, <2>4, ApplyReport
    <3>2. \A i \in DOMAIN res : res[i] \in ApplyResult
      BY <2>5
    <3>3. \A i \in DOMAIN res : res[i] \in OkResult'
      BY <2>7, <3>1, <3>2 DEF OkResult
    <3> QED BY <2>5, <3>3
  <2>10. \A m \in Node : callbacks'[m] \in Seq(OkResult')
    <3>1. \A m \in Node : callbacks[m] \in Seq(OkResult')
      BY <2>8, WiderBounds, SeqMonotone DEF SystemInv, ReportInv
    <3>2. callbacks[n] \o res \in Seq(OkResult')
      BY <2>9, <3>1
    <3> QED BY <1>2, <2>3, <2>4, <3>1, <3>2
  <2>11. \A m \in Node : HeadRev(doc'[m]) <= reached'
    <3> SUFFICES ASSUME NEW m \in Node PROVE HeadRev(doc'[m]) <= reached'
      OBVIOUS
    <3>1. CASE m = n
      BY <1>2, <2>3, <2>4, <2>7, <3>1
    <3>2. CASE m # n
      <4>1. doc'[m] = doc[m]
        BY <1>2, <2>3, <3>2
      <4>2. HeadRev(doc[m]) \in Nat /\ HeadRev(doc[m]) <= reached
        BY HeadBounded
      <4> QED BY <1>2, <2>7, <4>1, <4>2
    <3> QED BY <3>1, <3>2
  <2>12. ReportInv'
    BY <2>10, <2>11 DEF ReportInv, HeadRev
  <2>13. ServerInv' /\ PageInv' /\ WireInv' /\ RegistryInv'
    BY <1>1, <2>8, WiderServers, WiderPages, WiderConnections
       DEF SystemInv, ServerInv, serverVars
  <2> QED BY <1>3, <2>12, <2>13 DEF SystemInv
<1>4. CASE SkipEntry(n)
  <2>1. UNCHANGED <<doc, callbacks, reached>>
    BY <1>4 DEF SkipEntry
  <2>2. ServerInv' /\ PageInv' /\ WireInv' /\ RegistryInv' /\ ReportInv'
    BY <1>1, <2>1, SameServers, SamePages, SameConnections, SameDocuments
       DEF SystemInv, ServerInv, serverVars
  <2> QED BY <1>4, <2>2 DEF SystemInv
<1> QED BY <1>3, <1>4 DEF ApplyCommitted

LEMMA RestartInv ==
    ASSUME DocInv, SystemInv, NEW n \in Node, Restart(n)
    PROVE  SystemInv' /\ RestartDocument(n)
<1>1. /\ RestartDocument(n) /\ UNCHANGED <<reached, submitted, proposals, page, wide, missed>>
      /\ leaderID' = [leaderID EXCEPT ![n] = None]
      /\ clients' = [clients EXCEPT ![n] = [c \in Client |-> 0]]
  BY DEF Restart, RestartDocument
<1>2. ServerInv'
  <2>1. [c \in Client |-> 0] \in [Client -> Nat]
    OBVIOUS
  <2>2. leaderID' \in [Node -> Node \cup {None}] /\ clients' \in [Node -> [Client -> Nat]]
    BY <1>1, <2>1 DEF SystemInv, ServerInv
  <2> QED BY <1>1, <2>2, SameBounds DEF SystemInv, ServerInv
<1>3. PageInv'
  BY <1>1, SamePages DEF SystemInv
<1>4. ReportInv'
  <2>1. <<>> \in Seq(OkResult) /\ HeadRev(EmptyDocument) = 0
    BY DEF EmptyDocument, HeadRev
  <2>2. /\ \A m \in Node : callbacks'[m] \in Seq(OkResult)
        /\ \A m \in Node : HeadRev(doc'[m]) <= reached'
    BY <1>1, <2>1 DEF RestartDocument, FreshDocument, SystemInv, ReportInv, DocInv, DocTypeOK
  <2> QED BY <1>1, <2>2, SameBounds DEF ReportInv, HeadRev
<1>5. \A k \in DOMAIN conn :
         /\ conn'[k] \in OkConnection
         /\ conn[k].node # n => conn'[k] = conn[k]
  <2>0. \A k \in DOMAIN conn : conn[k].node # n => conn'[k] = conn[k]
    BY DEF Restart
  <2> SUFFICES ASSUME NEW k \in DOMAIN conn, conn[k].node = n
               PROVE  conn'[k] \in OkConnection
    BY <2>0 DEF SystemInv, WireInv
  <2>1. conn[k] \in OkConnection /\ reached \in Nat
    BY DEF SystemInv, WireInv, DocInv, DocTypeOK
  <2>2. PICK d : d = IF conn[k].up THEN Down(conn[k]) ELSE conn[k]
    OBVIOUS
  <2>3. d \in OkConnection
    BY <2>1, <2>2, DownType
  <2>4. /\ <<>> \in Seq(OkEntry) /\ <<>> \in Seq(RaftLogEntry)
        /\ <<>> \in Seq(Revision) /\ 0 <= reached
    BY <2>1
  <2>5. [d EXCEPT !.stage = "closed", !.known = 0, !.inbox = <<>>,
                  !.catchUp = <<>>, !.text = <<>>, !.rev = 0] \in OkConnection
    BY <2>3, <2>4 DEF OkConnection, Connection, Stages
  <2>6. conn'[k] = [d EXCEPT !.stage = "closed", !.known = 0, !.inbox = <<>>,
                             !.catchUp = <<>>, !.text = <<>>, !.rev = 0]
    BY <2>2 DEF Restart
  <2> QED BY <2>5, <2>6
<1>6. DOMAIN conn' = DOMAIN conn /\ conn' = [k \in DOMAIN conn |-> conn'[k]]
  BY DEF Restart
<1>7. conn' \in Seq(OkConnection)
  BY <1>5, <1>6, SeqMapped DEF SystemInv, WireInv
<1>8. RegistryInv'
  <2> SUFFICES ASSUME NEW m \in Node, NEW b \in Client, clients'[m][b] # 0
               PROVE  /\ clients'[m][b] \in DOMAIN conn'
                      /\ conn'[clients'[m][b]].node = m /\ conn'[clients'[m][b]].client = b
                      /\ conn'[clients'[m][b]].stage \in Serving
    BY DEF RegistryInv, Registered, Serving
  <2>1. m # n /\ clients'[m][b] = clients[m][b]
    BY <1>1 DEF SystemInv, ServerInv
  <2>2. /\ clients[m][b] \in DOMAIN conn
        /\ conn[clients[m][b]].node = m /\ conn[clients[m][b]].client = b
        /\ Registered(clients[m][b])
    BY <2>1 DEF SystemInv, RegistryInv
  <2>3. conn'[clients[m][b]] = conn[clients[m][b]]
    BY <1>5, <2>1, <2>2
  <2> QED BY <1>6, <2>1, <2>2, <2>3 DEF Registered, Serving
<1> QED BY <1>1, <1>2, <1>3, <1>4, <1>7, <1>8, SameBounds DEF SystemInv, WireInv

-----------------------------------------------------------------------------
(* The invariant *)

LEMMA InitSessionInv == Init => SessionInv
<1> SUFFICES ASSUME Init PROVE SessionInv
  OBVIOUS
<1>1. DocInv /\ \A c \in Client : submitted[c] = 0
  BY InitDocInv DEF Init, DocInit
<1>2. ServerInv
  <2>1. <<>> \in Seq(OkEntry) /\ [c \in Client |-> 0] \in [Client -> Nat]
    OBVIOUS
  <2> QED BY <2>1 DEF Init, ServerInv
<1>3. ReportInv
  <2>1. <<>> \in Seq(OkResult) /\ HeadRev(EmptyDocument) = 0
    BY DEF EmptyDocument, HeadRev
  <2> QED BY <2>1 DEF Init, DocInit, ReportInv
<1>4. PageInv
  <2>1. \A c \in Client : NewPage(0) \in OkPage(c)
    BY <1>1, NewPageType
  <2>2. \A c \in Client : NewPage(0) \in Page
    BY <2>1 DEF OkPage
  <2> QED BY <2>1, <2>2 DEF Init, PageInv
<1>5. WireInv /\ RegistryInv
  BY DEF Init, WireInv, RegistryInv
<1> QED BY <1>1, <1>2, <1>3, <1>4, <1>5 DEF SessionInv, SystemInv, Init

\* Every step keeps the system's invariant, and is a step of the documents.
LEMMA SessionStep ==
    ASSUME DocInv, SystemInv, Step
    PROVE  SystemInv' /\ [DocNext]_docVars
<1> DEFINE Doc == [DocNext]_docVars
<1>1. UNCHANGED docVars => Doc
  OBVIOUS
<1>2. UNCHANGED committedVars /\ (Fault \/ UNCHANGED faults) => Doc
  BY DEF DocNext, committedVars, docVars
<1>3. ASSUME NEW c \in Client, \/ TypeAscii(c) \/ TypeWide(c) \/ Submit(c) \/ Resubmit(c)
                               \/ Reload(c) \/ Reconnect(c) \/ \E n \in Node : Connect(c, n)
      PROVE  SystemInv' /\ Doc
  <2>1. NewSubmission(c) => Doc
    BY DEF DocNext
  <2> HIDE DEF Doc
  <2> QED BY <1>1, <1>2, <1>3, <2>1, TypeAsciiInv, TypeWideInv, SubmitInv, ResubmitInv, ReloadInv,
             ReconnectInv, ConnectInv
<1>4. ASSUME NEW k \in DOMAIN conn, \/ Drop(k) \/ OnWsClose(k) \/ Receive(k)
                                    \/ Register(k) \/ RedirectConnect(k) \/ ReadRevisions(k)
                                    \/ ReadText(k) \/ ReadRev(k) \/ SendConnectAck(k)
                                    \/ HandleSubmit(k) \/ RemoveClient(k) \/ CloseChannel(k)
      PROVE  SystemInv' /\ Doc
  <2> HIDE DEF Doc
  <2> QED BY <1>1, <1>2, <1>4, DropInv, OnWsCloseInv, ReceiveInv, RegisterInv,
             RedirectConnectInv, ReadRevisionsInv, ReadTextInv, ReadRevInv,
             SendConnectAckInv, HandleSubmitInv, RemoveClientInv, CloseChannelInv
<1>5. ASSUME NEW n \in Node, NEW i \in DOMAIN callbacks[n], OnCommit(n, i)
      PROVE  SystemInv' /\ Doc
  BY <1>5, OnCommitInv DEF DocNext
<1>6. ASSUME NEW n \in Node, \/ CommitProposal(n) \/ LoseProposal(n) \/ ApplyCommitted(n)
                             \/ Restart(n) \/ \E l \in Node \cup {None} : ChangeLeader(n, l)
      PROVE  SystemInv' /\ Doc
  <2>1. \/ ApplyEntry(n) \/ SkipEntry(n) \/ RestartDocument(n) \/ DocNext => Doc
    BY DEF DocNext
  <2> HIDE DEF Doc
  <2> QED BY <1>2, <1>6, <2>1, CommitProposalInv, LoseProposalInv, ApplyCommittedInv,
             RestartInv, ChangeLeaderInv
<1> HIDE DEF Doc
<1>7. SystemInv' /\ Doc
  BY <1>3, <1>4, <1>5, <1>6 DEF Step
<1> QED BY <1>7 DEF Doc

LEMMA NextSessionInv ==
    SessionInv /\ [Next]_vars => SessionInv' /\ [DocNext]_docVars
<1> SUFFICES ASSUME SessionInv, [Next]_vars PROVE SessionInv' /\ [DocNext]_docVars
  OBVIOUS
<1>1. CASE Next
  <2>1. SystemInv' /\ [DocNext]_docVars
    BY <1>1, SessionStep DEF SessionInv, Next
  <2>2. DocInv'
    BY <2>1, NextDocInv DEF SessionInv
  <2>3. exposed' \subseteq Client
    BY <1>1 DEF Next, Watch, SessionInv
  <2> QED BY <2>1, <2>2, <2>3 DEF SessionInv
<1>2. CASE UNCHANGED vars
  <2>1. UNCHANGED docVars /\ UNCHANGED <<serverVars, conn, page, wide, missed, exposed>>
    BY <1>2 DEF vars, systemVars
  <2>2. DocInv'
    BY <2>1, NextDocInv DEF SessionInv
  <2>3. SystemInv'
    BY <2>1, SameServers, SameDocuments, SamePages, SameConnections
       DEF SessionInv, SystemInv, ServerInv, docVars, serverVars
  <2> QED BY <2>1, <2>2, <2>3 DEF SessionInv
<1> QED BY <1>1, <1>2

-----------------------------------------------------------------------------
(* The results *)

\* Whatever is on its way names a revision that some node has reached and a
\* submission that was made, and every registered connection is its client's and open.
THEOREM SessionInvariant == Spec => []SessionInv
  BY InitSessionInv, NextSessionInv, PTL DEF Spec

\* Every variable of the pages, the connections and the servers has its type;
\* in particular a page never reconnects to nowhere (client.js:545-550).
THEOREM SessionTypes == Spec => []TypeOK
<1>1. SessionInv => TypeOK
  <2> SUFFICES ASSUME SessionInv PROVE TypeOK
    OBVIOUS
  <2>1. OkEntry \subseteq RaftLogEntry /\ OkConnection \subseteq Connection
    BY DEF OkEntry, OkConnection
  <2>2. Seq(OkEntry) \subseteq Seq(RaftLogEntry) /\ Seq(OkConnection) \subseteq Seq(Connection)
    BY <2>1, SeqMonotone
  <2>3. proposals \in [Node -> Seq(RaftLogEntry)]
    BY <2>2 DEF SessionInv, SystemInv, ServerInv
  <2> QED BY <2>2, <2>3 DEF TypeOK, SessionInv, SystemInv, ServerInv, PageInv, WireInv, DocInv
<1> QED BY <1>1, SessionInvariant, PTL

\* onCommit never sends on a channel that a readPump has closed
\* (websocket.go:141, 237), although removeClient goes by the client's name and
\* removes whichever connection is registered under it.
THEOREM RegisteredAlwaysOpen == Spec => []RegisteredIsOpen
<1>1. SessionInv => RegisteredIsOpen
  BY DEF SessionInv, SystemInv, RegistryInv, RegisteredIsOpen, Registered, Connecting
<1> QED BY <1>1, SessionInvariant, PTL

\* To the state machines, all that pages and servers do is a stream of
\* submissions that their clients have made, with base revisions that some node
\* has reached (fsm.go:90, 118).
THEOREM SessionImplementsDocument == Spec => ImplementsDocument
<1>1. Init => DocInit
  BY DEF Init
<1> QED BY <1>1, SessionInvariant, NextSessionInv, PTL DEF Spec, ImplementsDocument, DocSpec

\* What is proved of the state machines holds for them in the whole system.
THEOREM SessionReplicasAgree == Spec => [](ReplicasAgree /\ AppliedOnce)
  BY SessionImplementsDocument, ReplicasAlwaysAgree, SubmissionsAppliedOnce, PTL
     DEF ImplementsDocument

\* What pages submit is made for a revision that the document has when the
\* changeset is applied (fsm.go:118), unless a node has failed to read an entry:
\* resends, reconnections and restarts do not carry a base beyond the head.
THEOREM SessionBasesExist == Spec => []BasesExist
  BY SessionImplementsDocument, BasesAlwaysExist, PTL
     DEF ImplementsDocument
=============================================================================
