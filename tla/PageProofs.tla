----------------------------- MODULE PageProofs -----------------------------
(***************************************************************************)
(* The pages of module Session, for every set of nodes and clients and     *)
(* every bound, through restarts, dropped connections, redirects, reloads  *)
(* and lost proposals: as long as a client has met none of the situations  *)
(* of AtRisk, its page has the server's text, lags behind its node only by *)
(* what is under way to it, and loses nothing that it has submitted.       *)
(*                                                                         *)
(* The argument: the documents of the history grow into one text (Text).   *)
(* From the page to its node there is a line: the messages in outbox, each *)
(* of which takes the page from one revision of the text to the next that  *)
(* it knows of (Link); then the results that onCommit has still to report, *)
(* each of which becomes the next message or none (Report); and the last   *)
(* of them ends at the head of the node's document.  Every step takes from *)
(* the one end of the line, adds to the other, or moves an element within  *)
(* it.  A step that would break a line is one that AtRisk has a name for.  *)
(***************************************************************************)
EXTENDS SessionProofs

\* The text that all committed entries amount to.
Text == Final.revisions

\* s is the beginning of t.
Begins(s, t) == Len(s) <= Len(t) /\ \A i \in DOMAIN s : s[i] = t[i]

\* Edit s of client c is among the first r of text t.
Among(c, s, t, r) == \E i \in DOMAIN t : i <= r /\ t[i] = [client |-> c, sub |-> s]

\* The documents of the history grow into one text, which has no submission
\* twice; what a document lacks of it comes from the entries that follow.
HistoryInv ==
    /\ Len(log) <= MaxLog /\ Len(Text) <= Len(log)
    /\ \A i \in DOMAIN documents : Begins(documents[i].revisions, Text)
    /\ GuardedDocument(Final)
    /\ \A i \in DOMAIN documents : \A c \in Client :
          documents[i].lastSubmission[c] > 0 =>
             Among(c, documents[i].lastSubmission[c], documents[i].revisions,
                   HeadRev(documents[i]))
    /\ \A i \in DOMAIN documents, j \in DOMAIN Text :
          j > HeadRev(documents[i]) => \E l \in i..Len(log) : Text[j] = EditOf(log[l])

\* No entry has a submission number that its page has not reached.
Made(e) == e.sub \in 1..page[e.client].sub

MadeInv ==
    /\ \A k \in DOMAIN conn : \A i \in DOMAIN conn[k].inbox : Made(conn[k].inbox[i])
    /\ \A n \in Node : \A i \in DOMAIN proposals[n] : Made(proposals[n][i])
    /\ \A i \in DOMAIN log : Made(log[i])

\* A page's socket is a connection of that page, and the server ends only what is
\* down.
SocketInv ==
    /\ \A c \in Client : /\ page[c].ws # 0 => /\ page[c].ws \in DOMAIN conn
                                              /\ conn[page[c].ws].client = c
                         /\ page[c].running => page[c].ready
    /\ \A k \in DOMAIN conn : conn[k].up => /\ ~conn[k].event
                                            /\ conn[k].stage \notin {"removed", "closed"}

\* Page p of client c over text t: what it takes for the server's text is that,
\* and it knows of all its submissions but the one that it waits for.
PageOf(c, p, t) ==
    /\ p.rev <= Len(t) /\ p.base = SubSeq(t, 1, p.rev)
    /\ ~p.ready => p.rev = 0
    /\ p.waiting = p.pending /\ (p.waiting => p.ready)
    /\ p.pending => ~Among(c, p.sub, t, p.rev)
    /\ \A s \in 1..p.sub : s < p.sub \/ ~p.waiting =>
          Among(c, s, t, IF p.ready THEN p.rev ELSE Len(t))

\* Message m takes page p from revision a to revision m.rev of text t.  An ACK
\* for a resent submission leaves it where it is.
Link(c, p, t, a, m) ==
    \/ /\ m.type = "BROADCAST" /\ m.rev = a + 1 /\ m.rev <= Len(t)
       /\ t[m.rev] = m.edit /\ m.edit.client # c
    \/ /\ m.type = "ACK" /\ m.rev = a + 1 /\ m.rev <= Len(t) /\ t[m.rev].client = c
    \/ /\ m.type = "ACK" /\ m.rev = a /\ (p.pending => Among(c, p.sub, t, a))
    \/ /\ m.type = "CONNECT_ACK" /\ a <= m.rev /\ m.rev <= Len(t)
       /\ m.text = SubSeq(t, 1, m.rev) /\ m.catchUp = SubSeq(t, a + 1, m.rev)
       /\ ~p.ready => \A j \in DOMAIN t : t[j].client = c => j <= m.rev

\* A result of which onCommit is still to tell the page.
Report(c, p, t, a, r) ==
    \/ ~r.dup /\ r.rev = a + 1 /\ r.rev <= Len(t) /\ t[r.rev] = r.edit /\ r.edit.client = r.client
    \/ r.dup /\ r.rev = a /\ (r.client = c /\ p.pending => Among(c, p.sub, t, a))

\* The revision before the i-th of what follows revision a, and after all of it.
Before(a, s, i) == IF i = 1 THEN a ELSE s[i - 1].rev
After(a, s) == IF s = <<>> THEN a ELSE s[Len(s)].rev

\* At a REDIRECT the page closes the connection.
NoRedirect(q, i) == \A j \in DOMAIN q : j <= i => q[j].type # "REDIRECT"

\* The messages in queue q, and the results in cb up to those of document d, are
\* a continuation of what page p has.
Queue(c, p, t, q) ==
    \A i \in DOMAIN q : NoRedirect(q, i) => Link(c, p, t, Before(p.rev, q, i), q[i])

Due(c, p, t, a, cb, d) ==
    /\ \A i \in DOMAIN cb : Report(c, p, t, Before(a, cb, i), cb[i])
    /\ After(a, cb) = HeadRev(d)

\* While connection k is set up, it holds what it read from a document that has
\* not moved on.
Reading(p, k, d) ==
    /\ k.outbox = <<>> /\ k.known = p.rev
    /\ k.stage \in {"caughtUp", "hasText", "hasRev"} =>
          k.catchUp = SubSeq(d.revisions, k.known + 1, HeadRev(d))
    /\ k.stage \in {"hasText", "hasRev"} => k.text = d.revisions
    /\ k.stage = "hasRev" => k.rev = HeadRev(d)

\* A page that has no text yet gets it first.
Greeted(p, q) == p.ready \/ (q # <<>> /\ q[1].type \in {"CONNECT_ACK", "REDIRECT"})

Streaming(c, p, t, k, cb, d) ==
    /\ Greeted(p, k.outbox)
    /\ Queue(c, p, t, k.outbox)
    /\ NoRedirect(k.outbox, Len(k.outbox)) => Due(c, p, t, After(p.rev, k.outbox), cb, d)

Line(c, p, t, k, cb, d) ==
    /\ k.stage \in {"new"} \cup Connecting => Reading(p, k, d)
    /\ k.stage = "serving" => Streaming(c, p, t, k, cb, d)

\* A client's connections: the one that is registered is found under its name, and
\* the one that is up is its page's and leads it to the head of the node's document.
LineInv(c) ==
    \A k \in DOMAIN conn : conn[k].client = c =>
        /\ Registered(k) => clients[conn[k].node][c] = k
        /\ conn[k].up => /\ page[c].ws = k
                         /\ Line(c, page[c], Text, conn[k], callbacks[conn[k].node],
                                 doc[conn[k].node])

\* A client that is not exposed.
Calm(c) == ~AtRisk(c) /\ PageOf(c, page[c], Text) /\ LineInv(c)

PagesInv == HistoryInv /\ MadeInv /\ SocketInv

CalmInv == \A c \in Client \ exposed : Calm(c)

-----------------------------------------------------------------------------
(* Queues and results *)

\* A message that goes on from the end of the queue.
LEMMA QueueSent ==
    ASSUME NEW c, NEW p, NEW t, NEW S, NEW q \in Seq(S), NEW m, Queue(c, p, t, q),
           m.type # "REDIRECT" /\ NoRedirect(q, Len(q)) => Link(c, p, t, After(p.rev, q), m)
    PROVE  /\ Queue(c, p, t, Append(q, m))
           /\ After(p.rev, Append(q, m)) = m.rev
           /\ NoRedirect(Append(q, m), Len(Append(q, m))) =>
                 m.type # "REDIRECT" /\ NoRedirect(q, Len(q))
<1> DEFINE r == Append(q, m)
<1>1. /\ DOMAIN r = 1..(Len(q) + 1) /\ DOMAIN q = 1..Len(q) /\ Len(q) \in Nat
      /\ \A i \in DOMAIN q : r[i] = q[i]
      /\ r[Len(q) + 1] = m
  OBVIOUS
<1> HIDE DEF r
<1>2. ASSUME NEW i \in DOMAIN q, NoRedirect(r, i)
      PROVE  Link(c, p, t, Before(p.rev, r, i), r[i])
  <2>1. NoRedirect(q, i)
    BY <1>1, <1>2 DEF NoRedirect
  <2>2. Before(p.rev, r, i) = Before(p.rev, q, i)
    BY <1>1 DEF Before
  <2> QED BY <1>1, <2>1, <2>2 DEF Queue
<1>3. ASSUME NoRedirect(r, Len(q) + 1)
      PROVE  Link(c, p, t, Before(p.rev, r, Len(q) + 1), r[Len(q) + 1])
  <2>1. NoRedirect(q, Len(q)) /\ m.type # "REDIRECT"
    BY <1>1, <1>3 DEF NoRedirect
  <2>2. Before(p.rev, r, Len(q) + 1) = After(p.rev, q)
    BY <1>1 DEF Before, After
  <2> QED BY <1>1, <2>1, <2>2
<1>4. \A i \in DOMAIN r : i \in DOMAIN q \/ i = Len(q) + 1
  BY <1>1
<1>5. Queue(c, p, t, r)
  BY <1>2, <1>3, <1>4 DEF Queue
<1>6. Len(r) = Len(q) + 1 /\ r # <<>>
  BY DEF r
<1>7. After(p.rev, r) = m.rev
  BY <1>1, <1>6 DEF After
<1>8. NoRedirect(r, Len(r)) => m.type # "REDIRECT" /\ NoRedirect(q, Len(q))
  BY <1>1, <1>6 DEF NoRedirect
<1> QED BY <1>5, <1>7, <1>8 DEF r

\* What a page that changes in no way that matters to the messages makes of them.
LEMMA LinkKept ==
    ASSUME NEW c, NEW p, NEW u, NEW t, NEW a, NEW m, Link(c, p, t, a, m),
           u.sub = p.sub, u.pending => p.pending, p.ready => u.ready
    PROVE  Link(c, u, t, a, m)
  BY DEF Link

\* A result, for a page that no longer waits.
LEMMA ReportKept ==
    ASSUME NEW c, NEW p, NEW u, NEW t, NEW a, NEW r, Report(c, p, t, a, r),
           u.sub = p.sub, u.pending => p.pending
    PROVE  Report(c, u, t, a, r)
  BY DEF Report

\* The page has taken the first message.
LEMMA QueueTaken ==
    ASSUME NEW c, NEW p, NEW u, NEW t, NEW S, NEW q \in Seq(S), q # <<>>,
           Queue(c, p, t, q), Head(q).type # "REDIRECT",
           u.rev = Head(q).rev, u.sub = p.sub, u.pending => p.pending, p.ready => u.ready
    PROVE  /\ Queue(c, u, t, Tail(q))
           /\ NoRedirect(Tail(q), Len(Tail(q))) => NoRedirect(q, Len(q))
           /\ After(u.rev, Tail(q)) = After(p.rev, q)
<1> DEFINE r == Tail(q)
<1>1. /\ DOMAIN r = 1..(Len(q) - 1) /\ DOMAIN q = 1..Len(q) /\ Len(q) \in Nat \ {0}
      /\ \A i \in DOMAIN r : r[i] = q[i + 1]
      /\ Len(r) = Len(q) - 1 /\ Head(q) = q[1] /\ r \in Seq(S)
  OBVIOUS
<1> HIDE DEF r
<1>2. ASSUME NEW i \in DOMAIN r, NoRedirect(r, i)
      PROVE  NoRedirect(q, i + 1)
  <2> SUFFICES ASSUME NEW j \in DOMAIN q, j <= i + 1 PROVE q[j].type # "REDIRECT"
    BY DEF NoRedirect
  <2>1. CASE j = 1
    BY <1>1, <2>1
  <2>2. CASE j # 1
    <3>1. j - 1 \in DOMAIN r /\ j - 1 <= i /\ r[j - 1] = q[j]
      BY <1>1, <2>2
    <3> QED BY <1>2, <3>1 DEF NoRedirect
  <2> QED BY <2>1, <2>2
<1>3. ASSUME NEW i \in DOMAIN r, NoRedirect(r, i)
      PROVE  Link(c, u, t, Before(u.rev, r, i), r[i])
  <2>1. Link(c, p, t, Before(p.rev, q, i + 1), q[i + 1])
    BY <1>1, <1>2, <1>3 DEF Queue
  <2>2. Before(u.rev, r, i) = Before(p.rev, q, i + 1)
    <3>1. CASE i = 1
      BY <1>1, <3>1 DEF Before
    <3>2. CASE i # 1
      <4>1. i - 1 \in DOMAIN r /\ r[i - 1] = q[i] /\ i + 1 # 1 /\ (i + 1) - 1 = i
        BY <1>1, <3>2
      <4> QED BY <3>2, <4>1 DEF Before
    <3> QED BY <3>1, <3>2
  <2> QED BY <1>1, <2>1, <2>2, LinkKept
<1>4. Queue(c, u, t, r)
  BY <1>3 DEF Queue
<1>5. NoRedirect(r, Len(r)) => NoRedirect(q, Len(q))
  <2>1. CASE r = <<>>
    <3>1. Len(q) = 1 /\ DOMAIN q = {1}
      BY <1>1, <2>1
    <3> QED BY <1>1, <3>1 DEF NoRedirect
  <2>2. CASE r # <<>>
    <3>1. Len(r) \in DOMAIN r /\ Len(r) + 1 = Len(q)
      BY <1>1, <2>2
    <3> QED BY <1>2, <3>1
  <2> QED BY <2>1, <2>2
<1>6. After(u.rev, r) = After(p.rev, q)
  <2>1. CASE r = <<>>
    <3>1. Len(q) = 1
      BY <1>1, <2>1
    <3> QED BY <1>1, <2>1, <3>1 DEF After
  <2>2. CASE r # <<>>
    <3>1. Len(r) \in DOMAIN r /\ Len(r) + 1 = Len(q)
      BY <1>1, <2>2
    <3> QED BY <1>1, <2>2, <3>1 DEF After
  <2> QED BY <2>1, <2>2
<1> QED BY <1>4, <1>5, <1>6 DEF r

\* The first result is on its way to the page.
LEMMA DueTaken ==
    ASSUME NEW c, NEW p, NEW t, NEW a, NEW S, NEW cb \in Seq(S), NEW d, cb # <<>>,
           Due(c, p, t, a, cb, d)
    PROVE  /\ Report(c, p, t, a, Head(cb))
           /\ Due(c, p, t, Head(cb).rev, Tail(cb), d)
<1> DEFINE r == Tail(cb)
           b == Head(cb).rev
<1>1. /\ DOMAIN r = 1..(Len(cb) - 1) /\ DOMAIN cb = 1..Len(cb) /\ Len(cb) \in Nat \ {0}
      /\ \A i \in DOMAIN r : r[i] = cb[i + 1]
      /\ Len(r) = Len(cb) - 1 /\ Head(cb) = cb[1] /\ r \in Seq(S)
  OBVIOUS
<1> HIDE DEF r
<1>2. Report(c, p, t, a, Head(cb))
  <2>1. 1 \in DOMAIN cb
    BY <1>1
  <2> QED BY <1>1, <2>1 DEF Due, Before
<1>3. ASSUME NEW i \in DOMAIN r
      PROVE  Report(c, p, t, Before(b, r, i), r[i])
  <2>1. Report(c, p, t, Before(a, cb, i + 1), cb[i + 1])
    BY <1>1 DEF Due
  <2>2. Before(b, r, i) = Before(a, cb, i + 1)
    <3>1. CASE i = 1
      BY <1>1, <3>1 DEF Before
    <3>2. CASE i # 1
      <4>1. i - 1 \in DOMAIN r /\ r[i - 1] = cb[i] /\ i + 1 # 1 /\ (i + 1) - 1 = i
        BY <1>1, <3>2
      <4> QED BY <3>2, <4>1 DEF Before
    <3> QED BY <3>1, <3>2
  <2> QED BY <1>1, <2>1, <2>2
<1>4. After(b, r) = After(a, cb)
  <2>1. CASE r = <<>>
    <3>1. Len(cb) = 1
      BY <1>1, <2>1
    <3> QED BY <1>1, <2>1, <3>1 DEF After
  <2>2. CASE r # <<>>
    <3>1. Len(r) \in DOMAIN r /\ Len(r) + 1 = Len(cb)
      BY <1>1, <2>2
    <3> QED BY <1>1, <2>2, <3>1 DEF After
  <2> QED BY <2>1, <2>2
<1>5. Due(c, p, t, b, r, d)
  BY <1>3, <1>4 DEF Due
<1> QED BY <1>2, <1>5 DEF r

\* The node has applied an entry.
LEMMA DueAdded ==
    ASSUME NEW c, NEW p, NEW t, NEW a, NEW S, NEW cb \in Seq(S), NEW d, NEW e, NEW r,
           Due(c, p, t, a, cb, d), Report(c, p, t, HeadRev(d), r), r.rev = HeadRev(e)
    PROVE  Due(c, p, t, a, cb \o <<r>>, e)
<1> DEFINE s == cb \o <<r>>
<1>1. /\ DOMAIN s = 1..(Len(cb) + 1) /\ DOMAIN cb = 1..Len(cb) /\ Len(cb) \in Nat
      /\ \A i \in DOMAIN cb : s[i] = cb[i]
      /\ s[Len(cb) + 1] = r /\ Len(s) = Len(cb) + 1 /\ s # <<>>
  OBVIOUS
<1> HIDE DEF s
<1>2. ASSUME NEW i \in DOMAIN cb
      PROVE  Report(c, p, t, Before(a, s, i), s[i])
  <2>1. Before(a, s, i) = Before(a, cb, i)
    BY <1>1 DEF Before
  <2> QED BY <1>1, <2>1 DEF Due
<1>3. Before(a, s, Len(cb) + 1) = HeadRev(d)
  BY <1>1 DEF Before, After, Due
<1>4. After(a, s) = HeadRev(e)
  BY <1>1 DEF After
<1>5. \A i \in DOMAIN s : i \in DOMAIN cb \/ i = Len(cb) + 1
  BY <1>1
<1>6. Due(c, p, t, a, s, e)
  BY <1>1, <1>2, <1>3, <1>4, <1>5 DEF Due
<1> QED BY <1>6 DEF s

-----------------------------------------------------------------------------
(* Longer texts, and pages that change *)

\* A cut of the beginning is a cut of the whole.
LEMMA CutLonger ==
    ASSUME NEW t \in Seq(Revision), NEW w \in Seq(Revision), Begins(t, w),
           NEW a \in Nat \ {0}, NEW b \in Nat, b <= Len(t)
    PROVE  SubSeq(t, a, b) = SubSeq(w, a, b)
<1>1. b <= Len(w) /\ \A i \in a..b : t[i] = w[i]
  BY DEF Begins
<1> QED BY <1>1

\* A queue of messages is a sequence of revisions up to a REDIRECT.
LEMMA QueueFields ==
    ASSUME NEW a \in Nat, NEW q \in Seq(Message), NEW i \in DOMAIN q, NoRedirect(q, i)
    PROVE  Before(a, q, i) \in Nat /\ q[i].rev \in Nat
<1>1. \A m \in Message : m.type # "REDIRECT" => m.rev \in Nat
  BY DEF Message
<1>2. q[i] \in Message /\ q[i].type # "REDIRECT"
  BY DEF NoRedirect
<1>3. CASE i # 1
  <2>1. i - 1 \in DOMAIN q /\ i - 1 <= i
    BY <1>3
  <2>2. q[i - 1] \in Message /\ q[i - 1].type # "REDIRECT"
    BY <2>1 DEF NoRedirect
  <2> QED BY <1>1, <1>2, <1>3, <2>2 DEF Before
<1> QED BY <1>1, <1>2, <1>3 DEF Before

\* The revision at the end of a queue without REDIRECT.
LEMMA AfterFields ==
    ASSUME NEW a \in Nat, NEW q \in Seq(Message), NoRedirect(q, Len(q))
    PROVE  After(a, q) \in Nat
<1>1. CASE q # <<>>
  <2>1. Len(q) \in DOMAIN q
    BY <1>1
  <2> QED BY <2>1, QueueFields DEF After
<1> QED BY <1>1 DEF After

\* Client c has nothing in w beyond t.
NothingNew(c, t, w) == \A j \in DOMAIN w : w[j].client = c => j <= Len(t)

\* What is among the edits of a text stays there.
LEMMA AmongLonger ==
    ASSUME NEW c, NEW s, NEW t \in Seq(Revision), NEW w \in Seq(Revision), Begins(t, w),
           NEW r \in Nat, Among(c, s, t, r)
    PROVE  Among(c, s, w, r)
<1>1. DOMAIN t \subseteq DOMAIN w
  BY DEF Begins
<1> QED BY <1>1 DEF Among, Begins

\* A message says the same of a longer text.
LEMMA LinkLonger ==
    ASSUME NEW c, NEW p, NEW t \in Seq(Revision), NEW w \in Seq(Revision), Begins(t, w),
           ~p.ready => NothingNew(c, t, w),
           NEW a \in Nat, NEW m, m.rev \in Nat, Link(c, p, t, a, m)
    PROVE  Link(c, p, w, a, m)
<1>1. Len(t) <= Len(w) /\ Len(t) \in Nat /\ Len(w) \in Nat
      /\ DOMAIN t = 1..Len(t) /\ \A i \in 1..Len(t) : t[i] = w[i]
  BY DEF Begins
<1>2. CASE m.type = "BROADCAST"
  BY <1>1, <1>2 DEF Link
<1>3. CASE m.type = "ACK" /\ m.rev = a + 1 /\ m.rev <= Len(t) /\ t[m.rev].client = c
  BY <1>1, <1>3 DEF Link
<1>4. CASE m.type = "ACK" /\ m.rev = a /\ (p.pending => Among(c, p.sub, t, a))
  BY <1>4, AmongLonger DEF Link
<1>5. CASE m.type = "CONNECT_ACK"
  <2>1. /\ a <= m.rev /\ m.rev <= Len(t)
        /\ m.text = SubSeq(t, 1, m.rev) /\ m.catchUp = SubSeq(t, a + 1, m.rev)
        /\ ~p.ready => \A j \in DOMAIN t : t[j].client = c => j <= m.rev
    BY <1>5 DEF Link
  <2>2. m.rev <= Len(w)
    BY <1>1, <2>1
  <2>3. m.text = SubSeq(w, 1, m.rev) /\ m.catchUp = SubSeq(w, a + 1, m.rev)
    <3>1. 1 \in Nat \ {0} /\ a + 1 \in Nat \ {0}
      OBVIOUS
    <3>2. SubSeq(t, 1, m.rev) = SubSeq(w, 1, m.rev)
      BY <2>1, <3>1, CutLonger
    <3>3. SubSeq(t, a + 1, m.rev) = SubSeq(w, a + 1, m.rev)
      BY <2>1, <3>1, CutLonger
    <3> QED BY <2>1, <3>2, <3>3
  <2>4. ~p.ready => \A j \in DOMAIN w : w[j].client = c => j <= m.rev
    <3> SUFFICES ASSUME ~p.ready, NEW j \in DOMAIN w, w[j].client = c PROVE j <= m.rev
      OBVIOUS
    <3>1. j \in 1..Len(t)
      BY <1>1 DEF NothingNew
    <3> QED BY <1>1, <2>1, <3>1
  <2> QED BY <1>5, <2>1, <2>2, <2>3, <2>4 DEF Link
<1> QED BY <1>2, <1>3, <1>4, <1>5 DEF Link

\* So does a result.
LEMMA ReportLonger ==
    ASSUME NEW c, NEW p, NEW t \in Seq(Revision), NEW w \in Seq(Revision), Begins(t, w),
           NEW a \in Nat, NEW r, r.rev \in Nat, Report(c, p, t, a, r)
    PROVE  Report(c, p, w, a, r)
<1>1. Len(t) <= Len(w) /\ Len(t) \in Nat /\ Len(w) \in Nat
      /\ DOMAIN t = 1..Len(t) /\ \A i \in 1..Len(t) : t[i] = w[i]
  BY DEF Begins
<1>2. CASE r.dup
  BY <1>2, AmongLonger DEF Report
<1>3. CASE ~r.dup
  BY <1>1, <1>3 DEF Report
<1> QED BY <1>2, <1>3

\* So do the results that are due.
LEMMA DueLonger ==
    ASSUME NEW c, NEW p, NEW t \in Seq(Revision), NEW w \in Seq(Revision), Begins(t, w),
           NEW a \in Nat, NEW cb \in Seq(ApplyResult), NEW d, Due(c, p, t, a, cb, d)
    PROVE  Due(c, p, w, a, cb, d)
<1>1. ASSUME NEW i \in DOMAIN cb
      PROVE  Report(c, p, w, Before(a, cb, i), cb[i])
  <2>1. Report(c, p, t, Before(a, cb, i), cb[i])
    BY DEF Due
  <2>2. \A j \in DOMAIN cb : cb[j].rev \in Nat
    <3>1. \A r \in ApplyResult : r.rev \in Nat
      BY DEF ApplyResult
    <3>2. \A j \in DOMAIN cb : cb[j] \in ApplyResult
      OBVIOUS
    <3> QED BY <3>1, <3>2
  <2>3. Before(a, cb, i) \in Nat
    <3>1. i # 1 => i - 1 \in DOMAIN cb
      OBVIOUS
    <3> QED BY <2>2, <3>1 DEF Before
  <2> QED BY <2>1, <2>2, <2>3, ReportLonger
<1> QED BY <1>1 DEF Due

\* So does the line.
LEMMA LineLonger ==
    ASSUME NEW c, NEW p, NEW t \in Seq(Revision), NEW w \in Seq(Revision), Begins(t, w),
           ~p.ready => NothingNew(c, t, w), p.rev \in Nat,
           NEW k, k.outbox \in Seq(Message), NEW cb \in Seq(ApplyResult), NEW d,
           Line(c, p, t, k, cb, d)
    PROVE  Line(c, p, w, k, cb, d)
<1> SUFFICES ASSUME k.stage = "serving" PROVE Streaming(c, p, w, k, cb, d)
  BY DEF Line, Connecting
<1>1. Streaming(c, p, t, k, cb, d)
  BY DEF Line
<1> DEFINE q == k.outbox
<1>2. Queue(c, p, w, q)
  <2> SUFFICES ASSUME NEW i \in DOMAIN q, NoRedirect(q, i)
               PROVE  Link(c, p, w, Before(p.rev, q, i), q[i])
    BY DEF Queue
  <2>1. Link(c, p, t, Before(p.rev, q, i), q[i])
    BY <1>1 DEF Streaming, Queue
  <2> QED BY <2>1, QueueFields, LinkLonger
<1>3. NoRedirect(q, Len(q)) => Due(c, p, w, After(p.rev, q), cb, d)
  BY <1>1, AfterFields, DueLonger DEF Streaming
<1> QED BY <1>1, <1>2, <1>3 DEF Streaming

\* The same line, under a page that still has to be told the same.
SameLine(k, l) ==
    /\ l.stage = k.stage /\ l.known = k.known /\ l.catchUp = k.catchUp /\ l.text = k.text
    /\ l.rev = k.rev /\ l.outbox = k.outbox

\* The line of a page that keeps its revision and does not begin to wait.
LEMMA LineKept ==
    ASSUME NEW c, NEW p, NEW u, NEW t, NEW k, NEW l, NEW cb, NEW d,
           u.rev = p.rev, u.sub = p.sub, u.pending => p.pending, p.ready => u.ready,
           SameLine(k, l),
           Line(c, p, t, k, cb, d)
    PROVE  Line(c, u, t, l, cb, d)
<1> USE DEF SameLine
<1>1. k.stage = "serving" => Streaming(c, u, t, l, cb, d)
  <2> SUFFICES ASSUME k.stage = "serving" PROVE Streaming(c, u, t, l, cb, d)
    OBVIOUS
  <2>1. Streaming(c, p, t, k, cb, d)
    BY DEF Line
  <2>2. Queue(c, u, t, l.outbox)
    BY <2>1, LinkKept DEF Streaming, Queue
  <2>3. ASSUME NEW a, Due(c, p, t, a, cb, d) PROVE Due(c, u, t, a, cb, d)
    BY <2>3, ReportKept DEF Due
  <2>4. Greeted(u, l.outbox)
    BY <2>1 DEF Streaming, Greeted
  <2> QED BY <2>1, <2>2, <2>3, <2>4 DEF Streaming
<1>2. k.stage \in {"new"} \cup Connecting => Reading(u, l, d)
  BY DEF Line, Reading
<1> QED BY <1>1, <1>2 DEF Line

\* The page submits, and nothing on its way answers an earlier submission.
LEMMA LineSubmitted ==
    ASSUME NEW c, NEW p, NEW u, NEW t, NEW k, NEW l, NEW cb, NEW d,
           u.rev = p.rev, p.ready, u.ready, SameLine(k, l),
           k.stage = "serving" => /\ \A i \in DOMAIN k.outbox : k.outbox[i].type # "ACK"
                                  /\ \A i \in DOMAIN cb : cb[i].client # c,
           Line(c, p, t, k, cb, d)
    PROVE  Line(c, u, t, l, cb, d)
<1> USE DEF SameLine
<1>1. k.stage = "serving" => Streaming(c, u, t, l, cb, d)
  <2> SUFFICES ASSUME k.stage = "serving" PROVE Streaming(c, u, t, l, cb, d)
    OBVIOUS
  <2>1. Streaming(c, p, t, k, cb, d)
    BY DEF Line
  <2>2. Queue(c, u, t, l.outbox)
    BY <2>1 DEF Streaming, Queue, Link
  <2>3. ASSUME NEW a, Due(c, p, t, a, cb, d) PROVE Due(c, u, t, a, cb, d)
    BY <2>3 DEF Due, Report
  <2> QED BY <2>1, <2>2, <2>3 DEF Streaming, Greeted
<1>2. k.stage \in {"new"} \cup Connecting => Reading(u, l, d)
  BY DEF Line, Reading
<1> QED BY <1>1, <1>2 DEF Line

\* A page over a longer text.
LEMMA PageLonger ==
    ASSUME NEW c, NEW p, NEW t \in Seq(Revision), NEW w \in Seq(Revision), Begins(t, w),
           p.rev \in Nat, p.sub \in Nat, PageOf(c, p, t)
    PROVE  PageOf(c, p, w)
<1>1. Len(t) <= Len(w) /\ Len(t) \in Nat /\ Len(w) \in Nat
      /\ DOMAIN t = 1..Len(t) /\ DOMAIN w = 1..Len(w) /\ \A i \in 1..Len(t) : t[i] = w[i]
  BY DEF Begins
<1>2. p.rev <= Len(w) /\ p.base = SubSeq(w, 1, p.rev)
  <2>1. p.rev <= Len(t) /\ p.base = SubSeq(t, 1, p.rev)
    BY DEF PageOf
  <2>2. 1 \in Nat \ {0}
    OBVIOUS
  <2>3. SubSeq(t, 1, p.rev) = SubSeq(w, 1, p.rev)
    BY <2>1, <2>2, CutLonger
  <2> QED BY <1>1, <2>1, <2>3
<1>3. p.pending => ~Among(c, p.sub, w, p.rev)
  BY <1>1 DEF PageOf, Among
<1>4. ASSUME NEW s \in 1..p.sub, s < p.sub \/ ~p.waiting
      PROVE  Among(c, s, w, IF p.ready THEN p.rev ELSE Len(w))
  <2>1. Among(c, s, t, IF p.ready THEN p.rev ELSE Len(t))
    BY <1>4 DEF PageOf
  <2>2. CASE p.ready
    BY <2>1, <2>2, AmongLonger
  <2>3. CASE ~p.ready
    BY <1>1, <2>1, <2>3 DEF Among
  <2> QED BY <2>2, <2>3
<1> QED BY <1>2, <1>3, <1>4 DEF PageOf

SamePage(p, u) ==
    /\ u.base = p.base /\ u.rev = p.rev /\ u.ready = p.ready /\ u.pending = p.pending
    /\ u.waiting = p.waiting /\ u.sub = p.sub

\* A page that keeps what PageOf looks at.
LEMMA PageKept ==
    ASSUME NEW c, NEW p, NEW u, NEW t, PageOf(c, p, t), SamePage(p, u)
    PROVE  PageOf(c, u, t)
  BY DEF PageOf, SamePage

-----------------------------------------------------------------------------
(* The history *)

\* Begins is transitive.
LEMMA BeginsLonger ==
    ASSUME NEW s \in Seq(Revision), NEW t \in Seq(Revision), NEW w \in Seq(Revision),
           Begins(s, t), Begins(t, w)
    PROVE  Begins(s, w)
<1>1. Len(s) <= Len(t) /\ Len(t) <= Len(w) /\ DOMAIN s \subseteq DOMAIN t
  BY DEF Begins
<1> QED BY <1>1 DEF Begins

\* The final document has the type of a document, and so has each on the way.
LEMMA HistoryFields ==
    ASSUME DocInv
    PROVE  /\ Len(log) \in Nat /\ DOMAIN log = 1..Len(log)
           /\ DOMAIN documents = 1..(Len(log) + 1) /\ Len(documents) = Len(log) + 1
           /\ \A i \in DOMAIN documents : documents[i] \in DocumentState
           /\ Final \in DocumentState /\ Text \in Seq(Revision) /\ HeadRev(Final) = Len(Text)
           /\ documents[1] = EmptyDocument
<1>1. /\ Len(log) \in Nat /\ DOMAIN log = 1..Len(log)
      /\ Len(documents) = Len(log) + 1 /\ documents[1] = EmptyDocument
      /\ documents \in Seq(DocumentState)
  BY DEF DocInv, DocTypeOK, HistoryOK
<1>2. /\ DOMAIN documents = 1..(Len(log) + 1)
      /\ \A i \in DOMAIN documents : documents[i] \in DocumentState
  BY <1>1
<1>3. Final \in DocumentState
  BY <1>1, <1>2 DEF Final
<1>4. Text \in Seq(Revision) /\ HeadRev(Final) = Len(Text)
  BY <1>3 DEF Text, DocumentState, HeadRev
<1> QED BY <1>1, <1>2, <1>3, <1>4

\* The empty history.
LEMMA InitHistory == Init => HistoryInv
<1> SUFFICES ASSUME Init PROVE HistoryInv
  OBVIOUS
<1>1. log = <<>> /\ documents = <<EmptyDocument>>
  BY DEF Init, DocInit
<1>2. Len(log) = 0 /\ DOMAIN documents = {1} /\ documents[1] = EmptyDocument
  BY <1>1
<1>3. Final = EmptyDocument
  BY <1>2 DEF Final
<1>4. EmptyDocument.revisions = <<>> /\ \A c \in Client : EmptyDocument.lastSubmission[c] = 0
  BY DEF EmptyDocument
<1>5. Begins(<<>>, <<>>)
  BY DEF Begins
<1>6. DOMAIN Text = {} /\ Len(Text) = 0
  BY <1>3, <1>4 DEF Text
<1> QED BY <1>2, <1>3, <1>4, <1>5, <1>6, EmptyDocumentType, BoundAssumption DEF HistoryInv, Text

\* Raft commits an entry: it makes a new revision, or none.
LEMMA CommitText ==
    ASSUME DocInv, NEW e \in RaftLogEntry, Commit(e)
    PROVE  /\ DOMAIN documents' = 1..(Len(log) + 2) /\ Len(log') = Len(log) + 1
           /\ \A i \in DOMAIN documents : documents'[i] = documents[i]
           /\ documents'[Len(log) + 2] = Final'
           /\ \A i \in DOMAIN log : log'[i] = log[i]
           /\ log'[Len(log) + 1] = e
           /\ Final' = AfterEntry(Final, e, e.fits)
           /\ \/ Final' = Final
              \/ /\ Text' = Append(Text, EditOf(e)) /\ ~IsDuplicate(Final, e)
                 /\ Final'.lastSubmission = [Final.lastSubmission EXCEPT ![e.client] = e.sub]
<1> DEFINE new == AfterEntry(Final, e, e.fits)
<1>1. log' = Append(log, e) /\ documents' = Append(documents, new)
  BY DEF Commit
<1>2. /\ Len(log) \in Nat /\ Len(documents) = Len(log) + 1
      /\ log \in Seq(RaftLogEntry) /\ documents \in Seq(DocumentState)
  BY HistoryFields DEF DocInv, DocTypeOK
<1> HIDE DEF new
<1>3. /\ DOMAIN documents' = 1..(Len(log) + 2) /\ Len(log') = Len(log) + 1
      /\ \A i \in DOMAIN documents : documents'[i] = documents[i]
      /\ documents'[Len(log) + 2] = new
      /\ \A i \in DOMAIN log : log'[i] = log[i]
      /\ log'[Len(log) + 1] = e
  BY <1>1, <1>2
<1>4. Final' = new
  BY <1>2, <1>3 DEF Final
<1>5. \/ new = Final
      \/ /\ new.revisions = Append(Final.revisions, EditOf(e)) /\ ~IsDuplicate(Final, e)
         /\ new.lastSubmission = [Final.lastSubmission EXCEPT ![e.client] = e.sub]
  BY DEF new, AfterEntry
<1> QED BY <1>3, <1>4, <1>5 DEF Text, new

\* The text grows.
LEMMA CommitLonger ==
    ASSUME DocInv, NEW e \in RaftLogEntry, Commit(e)
    PROVE  Begins(Text, Text') /\ Text' \in Seq(Revision)
<1>1. Text \in Seq(Revision) /\ EditOf(e) \in Revision
  BY HistoryFields DEF EditOf, RaftLogEntry, Revision
<1>2. CASE Final' = Final
  BY <1>1, <1>2 DEF Begins, Text
<1>3. CASE Text' = Append(Text, EditOf(e))
  BY <1>1, <1>3 DEF Begins
<1> QED BY <1>2, <1>3, CommitText

\* A commit adds at most one revision, which its entry made.
LEMMA CommitHistory ==
    ASSUME DocInv, HistoryInv, NEW e \in RaftLogEntry, Commit(e)
    PROVE  HistoryInv'
<1> USE HistoryFields
<1>1. /\ DOMAIN documents' = 1..(Len(log) + 2) /\ Len(log') = Len(log) + 1
      /\ \A i \in DOMAIN documents : documents'[i] = documents[i]
      /\ documents'[Len(log) + 2] = Final'
      /\ \A i \in DOMAIN log : log'[i] = log[i]
      /\ log'[Len(log) + 1] = e
      /\ Final' = AfterEntry(Final, e, e.fits)
  BY CommitText
<1>2. e.client \in Client /\ e.sub \in Nat /\ e.fits \in BOOLEAN
  BY DEF RaftLogEntry
<1>3. Final' \in DocumentState /\ GuardedDocument(Final')
  BY <1>1, <1>2, AfterEntryType, AfterEntryGuarded DEF HistoryInv
<1>4. Begins(Text, Text') /\ Text' \in Seq(Revision)
  BY CommitLonger
<1>5. \A i \in DOMAIN documents' : i \in DOMAIN documents \/ i = Len(log) + 2
  BY <1>1
<1>6. Len(log') <= MaxLog /\ Len(Text') <= Len(log')
  <2>1. Len(Text) <= Len(log) /\ Text \in Seq(Revision) /\ Len(log) < MaxLog
    BY DEF HistoryInv, Commit
  <2>2. Text' = Text \/ Text' = Append(Text, EditOf(e))
    BY CommitText DEF Text
  <2>3. Len(Append(Text, EditOf(e))) = Len(Text) + 1
    BY <2>1
  <2> QED BY <1>1, <2>1, <2>2, <2>3, BoundAssumption
<1>7. \A i \in DOMAIN documents' : Begins(documents'[i].revisions, Text')
  <2>1. ASSUME NEW i \in DOMAIN documents PROVE Begins(documents'[i].revisions, Text')
    <3>1. Begins(documents[i].revisions, Text) /\ documents[i].revisions \in Seq(Revision)
      BY DEF HistoryInv, DocumentState
    <3>2. Text \in Seq(Revision)
      OBVIOUS
    <3> QED BY <1>1, <1>4, <3>1, <3>2, BeginsLonger
  <2>2. Begins(Text', Text')
    BY <1>4 DEF Begins
  <2> QED BY <1>1, <1>5, <2>1, <2>2 DEF Text
<1>8. ASSUME NEW i \in DOMAIN documents', NEW c \in Client, documents'[i].lastSubmission[c] > 0
      PROVE  Among(c, documents'[i].lastSubmission[c], documents'[i].revisions,
                   HeadRev(documents'[i]))
  <2>1. CASE i \in DOMAIN documents
    BY <1>1, <1>8, <2>1 DEF HistoryInv
  <2>2. CASE i = Len(log) + 2
    <3>1. documents'[i] = Final'
      BY <1>1, <2>2
    <3>2. CASE Final' = Final
      <4>1. Len(log) + 1 \in DOMAIN documents /\ Final = documents[Len(log) + 1]
        BY DEF Final
      <4> QED BY <1>8, <3>1, <3>2, <4>1 DEF HistoryInv
    <3>3. CASE /\ Text' = Append(Text, EditOf(e))
               /\ Final'.lastSubmission = [Final.lastSubmission EXCEPT ![e.client] = e.sub]
      <4>1. Final.lastSubmission \in [Client -> Nat] /\ Text \in Seq(Revision)
        BY DEF DocumentState
      <4>2. CASE c = e.client
        <5>1. Final'.lastSubmission[c] = e.sub
          BY <3>3, <4>1, <4>2
        <5>2. /\ Len(Text') \in DOMAIN Text' /\ Text'[Len(Text')] = EditOf(e)
              /\ HeadRev(Final') = Len(Text')
          BY <3>3, <4>1 DEF HeadRev, Text
        <5>3. EditOf(e) = [client |-> c, sub |-> e.sub]
          BY <4>2 DEF EditOf
        <5>4. Len(Text') <= Len(Text')
          BY <1>4
        <5> QED BY <3>1, <5>1, <5>2, <5>3, <5>4 DEF Among, Text
      <4>3. CASE c # e.client
        <5>1. Final'.lastSubmission[c] = Final.lastSubmission[c]
          BY <3>3, <4>1, <4>3
        <5>2. Len(log) + 1 \in DOMAIN documents /\ Final = documents[Len(log) + 1]
          BY DEF Final
        <5>3. Among(c, Final.lastSubmission[c], Text, HeadRev(Final))
          BY <1>8, <3>1, <5>1, <5>2 DEF HistoryInv, Text
        <5>4. /\ DOMAIN Text \subseteq DOMAIN Text' /\ \A j \in DOMAIN Text : Text'[j] = Text[j]
              /\ \A j \in DOMAIN Text' : j <= Len(Text') /\ HeadRev(Final') = Len(Text')
          BY <1>4, <4>1 DEF Begins, HeadRev, Text
        <5> QED BY <3>1, <5>1, <5>3, <5>4 DEF Among, Text
      <4> QED BY <4>2, <4>3
    <3> QED BY <3>2, <3>3, CommitText
  <2> QED BY <1>5, <2>1, <2>2
<1>9. ASSUME NEW i \in DOMAIN documents', NEW j \in DOMAIN Text', j > HeadRev(documents'[i])
      PROVE  \E l \in i..Len(log') : Text'[j] = EditOf(log'[l])
  <2>1. i \in DOMAIN documents
    <3> SUFFICES ASSUME i = Len(log) + 2 PROVE FALSE
      BY <1>5
    <3>1. HeadRev(documents'[i]) = Len(Text')
      BY <1>1 DEF HeadRev, Text
    <3> QED BY <1>4, <1>9, <3>1
  <2>2. CASE j \in DOMAIN Text
    <3>1. PICK l \in i..Len(log) : Text[j] = EditOf(log[l])
      BY <1>1, <1>9, <2>1, <2>2 DEF HistoryInv
    <3>2. l \in DOMAIN log /\ l \in i..Len(log') /\ log'[l] = log[l]
      BY <1>1, <2>1, <3>1
    <3>3. Text'[j] = Text[j]
      BY <1>4, <2>2 DEF Begins
    <3> QED BY <3>1, <3>2, <3>3
  <2>3. CASE j \notin DOMAIN Text
    <3>1. Text' = Append(Text, EditOf(e))
      BY <2>3, CommitText DEF Text
    <3>2. Text'[j] = EditOf(e)
      BY <2>3, <3>1
    <3>3. Len(log') \in i..Len(log') /\ log'[Len(log')] = e
      BY <1>1, <2>1
    <3> QED BY <3>2, <3>3
  <2> QED BY <2>2, <2>3
<1> QED BY <1>3, <1>6, <1>7, <1>8, <1>9 DEF HistoryInv

\* Nothing is committed.
LEMMA SameHistory ==
    ASSUME UNCHANGED <<log, documents>>
    PROVE  /\ Final' = Final /\ Text' = Text
           /\ HistoryInv => HistoryInv'
<1>1. Final' = Final
  BY DEF Final
<1>2. Text' = Text
  BY <1>1 DEF Text
<1> QED BY <1>1, <1>2 DEF HistoryInv

\* Only a commit changes the history.
LEMMA HistoryStep ==
    ASSUME DocInv, HistoryInv, [DocNext]_docVars
    PROVE  HistoryInv'
<1>1. ASSUME NEW c \in Client, NEW b \in 0..reached, NEW f \in BOOLEAN,
             NEW s \in 1..submitted[c],
             Commit([client |-> c, sub |-> s, base |-> b, fits |-> f])
      PROVE  HistoryInv'
  <2>1. [client |-> c, sub |-> s, base |-> b, fits |-> f] \in RaftLogEntry
    BY DEF DocInv, DocTypeOK, RaftLogEntry
  <2> QED BY <1>1, <2>1, CommitHistory
<1>2. CASE UNCHANGED <<log, documents>>
  BY <1>2, SameHistory
<1> QED BY <1>1, <1>2 DEF DocNext, NewSubmission, ApplyEntry, SkipEntry, RestartDocument, RunCallback,
                          committedVars, docVars

\* A node that has missed nothing has a beginning of the text, with the last
\* submission of every client, and lacks only what it still has to apply.
LEMMA NodeText ==
    ASSUME DocInv, HistoryInv, NEW n \in Node, ~skipped[n]
    PROVE  /\ doc[n].revisions \in Seq(Revision) /\ doc[n].lastSubmission \in [Client -> Nat]
           /\ HeadRev(doc[n]) \in Nat /\ HeadRev(doc[n]) <= Len(Text)
           /\ HeadRev(doc[n]) = Len(doc[n].revisions)
           /\ Begins(doc[n].revisions, Text)
           /\ \A c \in Client : doc[n].lastSubmission[c] > 0 =>
                 Among(c, doc[n].lastSubmission[c], Text, HeadRev(doc[n]))
           /\ \A j \in DOMAIN Text : j > HeadRev(doc[n]) =>
                 \E l \in (lastApplied[n] + 1)..Len(log) : Text[j] = EditOf(log[l])
<1> DEFINE i == lastApplied[n] + 1
<1>1. doc[n] = documents[i] /\ i \in DOMAIN documents
  BY HistoryFields DEF DocInv, DocTypeOK, PassedInLog, ReplicasAgree
<1>2. doc[n].revisions \in Seq(Revision) /\ doc[n].lastSubmission \in [Client -> Nat]
  BY <1>1, HistoryFields DEF DocumentState
<1>3. Begins(doc[n].revisions, Text)
  BY <1>1 DEF HistoryInv
<1>4. /\ HeadRev(doc[n]) \in Nat /\ HeadRev(doc[n]) <= Len(Text)
      /\ HeadRev(doc[n]) = Len(doc[n].revisions)
  BY <1>2, <1>3 DEF HeadRev, Begins
<1>5. ASSUME NEW c \in Client, doc[n].lastSubmission[c] > 0
      PROVE  Among(c, doc[n].lastSubmission[c], Text, HeadRev(doc[n]))
  <2>1. Among(c, doc[n].lastSubmission[c], doc[n].revisions, HeadRev(doc[n]))
    BY <1>1, <1>5 DEF HistoryInv
  <2> QED BY <1>2, <1>3, <1>4, <2>1, HistoryFields, AmongLonger
<1>6. \A j \in DOMAIN Text : j > HeadRev(doc[n]) =>
         \E l \in i..Len(log) : Text[j] = EditOf(log[l])
  BY <1>1 DEF HistoryInv
<1> QED BY <1>2, <1>3, <1>4, <1>5, <1>6

-----------------------------------------------------------------------------
(* What the steps of pages and servers have in common *)

\* A step keeps what is said of the clients that it does not expose.
Keeps ==
    \A c \in Client : Calm(c) /\ ~AtRisk(c)' => PageOf(c, page[c], Text)' /\ LineInv(c)'

\* What most steps do to client c: its connections do no more than go down.
LEMMA Undisturbed ==
    ASSUME NEW c \in Client, Calm(c), UNCHANGED <<log, documents, doc, callbacks>>,
           SamePage(page[c], page'[c]),
           \A k \in DOMAIN conn' : conn'[k].client = c =>
              /\ k \in DOMAIN conn /\ conn[k].client = c /\ conn'[k].node = conn[k].node
              /\ Registered(k)' => /\ Registered(k)
                                   /\ clients'[conn[k].node][c] = clients[conn[k].node][c]
              /\ conn'[k].up => /\ conn[k].up /\ page'[c].ws = page[c].ws
                                /\ SameLine(conn[k], conn'[k])
    PROVE  PageOf(c, page[c], Text)' /\ LineInv(c)'
<1>1. Text' = Text
  BY SameHistory
<1>2. PageOf(c, page'[c], Text')
  BY <1>1, PageKept DEF Calm
<1>3. LineInv(c)'
  <2> SUFFICES ASSUME NEW k \in DOMAIN conn', conn'[k].client = c
               PROVE  /\ Registered(k)' => clients'[conn'[k].node][c] = k
                      /\ conn'[k].up =>
                            /\ page'[c].ws = k
                            /\ Line(c, page'[c], Text', conn'[k], callbacks'[conn'[k].node],
                                    doc'[conn'[k].node])
    BY DEF LineInv
  <2>1. /\ k \in DOMAIN conn /\ conn[k].client = c /\ conn'[k].node = conn[k].node
        /\ Registered(k)' => /\ Registered(k)
                             /\ clients'[conn[k].node][c] = clients[conn[k].node][c]
        /\ conn'[k].up => /\ conn[k].up /\ page'[c].ws = page[c].ws
                          /\ SameLine(conn[k], conn'[k])
    OBVIOUS
  <2>2. /\ Registered(k) => clients[conn[k].node][c] = k
        /\ conn[k].up => /\ page[c].ws = k
                         /\ Line(c, page[c], Text, conn[k], callbacks[conn[k].node],
                                 doc[conn[k].node])
    BY <2>1 DEF Calm, LineInv
  <2>3. ASSUME conn'[k].up
        PROVE  Line(c, page'[c], Text', conn'[k], callbacks'[conn'[k].node],
                    doc'[conn'[k].node])
    <3>1. Line(c, page'[c], Text, conn'[k], callbacks[conn[k].node], doc[conn[k].node])
      BY <2>1, <2>2, <2>3, LineKept DEF SamePage
    <3> QED BY <1>1, <2>1, <3>1
  <2> QED BY <2>1, <2>2, <2>3
<1> QED BY <1>2, <1>3

\* Entries that are where they were, or are gone.
LEMMA StillMade ==
    ASSUME SystemInv, DocInv, MadeInv, UNCHANGED <<log, proposals>>,
           \A c \in Client : page'[c].sub \in Nat /\ page'[c].sub >= page[c].sub,
           \A k \in DOMAIN conn' : \/ k \in DOMAIN conn /\ conn'[k].inbox = conn[k].inbox
                                   \/ conn'[k].inbox = <<>>
    PROVE  MadeInv'
<1>1. ASSUME NEW e \in RaftLogEntry, Made(e) PROVE Made(e)'
  <2>1. e.client \in Client /\ e.sub \in Nat
    BY DEF RaftLogEntry
  <2>2. page[e.client].sub \in Nat
    BY <2>1, PageFields DEF SystemInv
  <2> QED BY <1>1, <2>1, <2>2 DEF Made
<1>2. \A k \in DOMAIN conn : conn[k].inbox \in Seq(RaftLogEntry)
  <2>1. \A k \in DOMAIN conn : conn[k] \in OkConnection
    BY DEF SystemInv, WireInv
  <2> QED BY <2>1 DEF OkConnection, Connection
<1>3. \A n \in Node : proposals[n] \in Seq(RaftLogEntry)
  BY SeqMonotone DEF SystemInv, ServerInv, OkEntry
<1>4. log \in Seq(RaftLogEntry)
  BY DEF DocInv, DocTypeOK
<1>5. ASSUME NEW k \in DOMAIN conn', NEW i \in DOMAIN conn'[k].inbox
      PROVE  Made(conn[k].inbox[i])'
  <2>1. k \in DOMAIN conn /\ conn'[k].inbox = conn[k].inbox
    OBVIOUS
  <2>2. conn[k].inbox[i] \in RaftLogEntry /\ Made(conn[k].inbox[i])
    BY <1>2, <2>1 DEF MadeInv
  <2>3. PICK e \in RaftLogEntry : e = conn[k].inbox[i] /\ e = conn'[k].inbox[i]
    BY <2>1, <2>2
  <2>4. Made(e)'
    BY <1>1, <2>2, <2>3
  <2> QED BY <2>3, <2>4 DEF Made
<1>6. \A n \in Node : \A i \in DOMAIN proposals[n] : Made(proposals[n][i])'
  BY <1>1, <1>3 DEF MadeInv, Made
<1>7. \A i \in DOMAIN log : Made(log[i])'
  BY <1>1, <1>4 DEF MadeInv, Made
<1> QED BY <1>5, <1>6, <1>7 DEF MadeInv, Made

\* What is in the text was made by its client, and so was what a node knows of.
LEMMA TextMade ==
    ASSUME DocInv, HistoryInv, MadeInv, NEW j \in DOMAIN Text
    PROVE  Text[j].sub \in 1..page[Text[j].client].sub
<1>1. 1 \in DOMAIN documents /\ HeadRev(documents[1]) = 0 /\ j > 0
  BY HistoryFields DEF EmptyDocument, HeadRev
<1>2. PICK l \in 1..Len(log) : Text[j] = EditOf(log[l])
  BY <1>1 DEF HistoryInv
<1>3. l \in DOMAIN log
  BY HistoryFields
<1> QED BY <1>2, <1>3 DEF MadeInv, Made, EditOf

\* A node that has missed nothing knows of no submission that is not made.
LEMMA LastMade ==
    ASSUME DocInv, SystemInv, HistoryInv, MadeInv, NEW n \in Node, ~skipped[n], NEW c \in Client
    PROVE  doc[n].lastSubmission[c] \in Nat /\ doc[n].lastSubmission[c] <= page[c].sub
<1>1. doc[n].lastSubmission[c] \in Nat /\ page[c].sub \in Nat
  BY NodeText, PageFields DEF SystemInv
<1>2. CASE doc[n].lastSubmission[c] > 0
  <2>1. PICK j \in DOMAIN Text : Text[j] = [client |-> c, sub |-> doc[n].lastSubmission[c]]
    BY <1>2, NodeText DEF Among
  <2> QED BY <1>1, <2>1, TextMade
<1> QED BY <1>1, <1>2

\* A registered connection of a calm client is the one of that name, and its node
\* has missed nothing.
LEMMA RegisteredCalm ==
    ASSUME SystemInv, NEW c \in Client, Calm(c), NEW k \in DOMAIN conn, conn[k].client = c,
           Registered(k)
    PROVE  /\ conn[k].node \in Node /\ clients[conn[k].node][c] = k /\ k # 0
           /\ ~skipped[conn[k].node]
<1>1. k # 0 /\ conn[k].node \in Node
  BY ConnectionFields DEF SystemInv, WireInv
<1>2. clients[conn[k].node][c] = k
  BY DEF Calm, LineInv
<1> QED BY <1>1, <1>2 DEF Calm, AtRisk

\* What is said of the connection that is up.
LEMMA LineOf ==
    ASSUME NEW c \in Client, Calm(c), NEW k \in DOMAIN conn, conn[k].client = c, conn[k].up
    PROVE  /\ page[c].ws = k
           /\ Line(c, page[c], Text, conn[k], callbacks[conn[k].node], doc[conn[k].node])
  BY DEF Calm, LineInv

-----------------------------------------------------------------------------
(* Steps of the page *)

\* Typing changes nothing but typed.
LEMMA TypeCalm ==
    ASSUME SessionInv, PagesInv, NEW a \in Client, Type(a), UNCHANGED committedVars
    PROVE  MadeInv' /\ SocketInv' /\ Keeps
<1>1. /\ page' = [page EXCEPT ![a].typed = "screen"]
      /\ UNCHANGED <<conn, clients, proposals, log, documents, doc, callbacks>>
  BY DEF Type, serverVars, committedVars
<1>2. page \in [Client -> Page] /\ \A c \in Client : page[c].sub \in Nat
  BY PageFields DEF SessionInv, SystemInv, PageInv
<1>3. ASSUME NEW c \in Client
      PROVE  /\ SamePage(page[c], page'[c]) /\ page'[c].ws = page[c].ws
             /\ page'[c].running = page[c].running
  BY <1>1, <1>2 DEF Page, SamePage
<1>4. MadeInv'
  BY <1>1, <1>2, <1>3, StillMade DEF SessionInv, PagesInv, SamePage
<1>5. SocketInv'
  BY <1>1, <1>3 DEF PagesInv, SocketInv, SamePage
<1>6. ASSUME NEW c \in Client, Calm(c) PROVE PageOf(c, page[c], Text)' /\ LineInv(c)'
  BY <1>1, <1>3, <1>6, Undisturbed DEF Registered, SameLine
<1> QED BY <1>4, <1>5, <1>6 DEF Keeps

\* sendSubmit puts an entry of this page into the inbox of its connection.
LEMMA SendSubmitCalm ==
    ASSUME SessionInv, SocketInv, NEW a \in Client, page[a].ws # 0, NEW sub \in Nat,
           SendSubmit(a, sub)
    PROVE  /\ DOMAIN conn' = DOMAIN conn
           /\ \E e \in RaftLogEntry :
                 /\ e.client = a /\ e.sub = sub
                 /\ conn'[page[a].ws].inbox = Append(conn[page[a].ws].inbox, e)
           /\ \A k \in DOMAIN conn :
                 /\ k # page[a].ws => conn'[k] = conn[k]
                 /\ conn'[k].client = conn[k].client /\ conn'[k].node = conn[k].node
                 /\ conn'[k].up = conn[k].up /\ conn'[k].event = conn[k].event
                 /\ SameLine(conn[k], conn'[k])
<1>1. page[a].ws \in DOMAIN conn /\ conn \in Seq(OkConnection)
  BY DEF SocketInv, SessionInv, SystemInv, WireInv
<1>2. PICK fits \in BOOLEAN :
         conn' = [conn EXCEPT ![page[a].ws].inbox =
                    Append(@, [client |-> a, sub |-> sub, base |-> BaseRev(a), fits |-> fits])]
  BY DEF SendSubmit
<1> DEFINE e == [client |-> a, sub |-> sub, base |-> BaseRev(a), fits |-> fits]
           s == page[a].ws
<1>3. e \in RaftLogEntry /\ e.client = a /\ e.sub = sub
  BY PageFields DEF RaftLogEntry, BaseRev, SessionInv, SystemInv
<1>4. conn' = [conn EXCEPT ![s] = [conn[s] EXCEPT !.inbox = Append(conn[s].inbox, e)]]
  BY <1>2
<1>5. conn[s] \in Connection
  BY <1>1 DEF OkConnection
<1> HIDE DEF e, s
<1>6. DOMAIN conn' = DOMAIN conn
  BY <1>4
<1>7. ASSUME NEW k \in DOMAIN conn, k # s PROVE conn'[k] = conn[k]
  BY <1>4, <1>7
<1>8. conn'[s] = [conn[s] EXCEPT !.inbox = Append(conn[s].inbox, e)]
  BY <1>1, <1>4 DEF s
<1>9. /\ conn'[s].inbox = Append(conn[s].inbox, e)
      /\ conn'[s].client = conn[s].client /\ conn'[s].node = conn[s].node
      /\ conn'[s].up = conn[s].up /\ conn'[s].event = conn[s].event
      /\ SameLine(conn[s], conn'[s])
  BY <1>5, <1>8 DEF Connection, SameLine
<1>10. \A k \in DOMAIN conn : SameLine(conn[k], conn[k])
  BY DEF SameLine
<1> QED BY <1>3, <1>6, <1>7, <1>9, <1>10 DEF s

\* What a page submits has its latest number.
LEMMA SendSubmitMade ==
    ASSUME SessionInv, PagesInv, NEW a \in Client, page[a].ws # 0, NEW sub \in Nat,
           SendSubmit(a, sub), UNCHANGED <<log, proposals>>,
           \A c \in Client : page'[c].sub \in Nat /\ page'[c].sub >= page[c].sub,
           page'[a].sub = sub, sub > 0
    PROVE  MadeInv'
<1>1. PICK e \in RaftLogEntry :
         /\ e.client = a /\ e.sub = sub
         /\ conn'[page[a].ws].inbox = Append(conn[page[a].ws].inbox, e)
  BY SendSubmitCalm DEF PagesInv
<1>2. /\ DOMAIN conn' = DOMAIN conn
      /\ \A k \in DOMAIN conn : k # page[a].ws => conn'[k] = conn[k]
  BY SendSubmitCalm DEF PagesInv
<1>3. ASSUME NEW x \in RaftLogEntry, Made(x) PROVE x.sub \in 1..page'[x.client].sub
  <2>1. x.client \in Client /\ x.sub \in Nat
    BY DEF RaftLogEntry
  <2>2. page[x.client].sub \in Nat
    BY <2>1, PageFields DEF SessionInv, SystemInv
  <2> QED BY <1>3, <2>1, <2>2 DEF Made
<1>4. \A k \in DOMAIN conn : conn[k].inbox \in Seq(RaftLogEntry)
  <2>1. \A k \in DOMAIN conn : conn[k] \in OkConnection
    BY DEF SessionInv, SystemInv, WireInv
  <2> QED BY <2>1 DEF OkConnection, Connection
<1>5. ASSUME NEW k \in DOMAIN conn', NEW i \in DOMAIN conn'[k].inbox
      PROVE  conn'[k].inbox[i].sub \in 1..page'[conn'[k].inbox[i].client].sub
  <2> DEFINE q == conn[k].inbox
  <2>1. q \in Seq(RaftLogEntry) /\ \A j \in DOMAIN q : Made(q[j]) /\ q[j] \in RaftLogEntry
    BY <1>2, <1>4 DEF PagesInv, MadeInv
  <2>2. CASE conn'[k].inbox = q
    BY <1>3, <2>1, <2>2
  <2>3. CASE conn'[k].inbox = Append(q, e)
    <3> HIDE DEF q
    <3>1. (i \in DOMAIN q /\ conn'[k].inbox[i] = q[i]) \/ conn'[k].inbox[i] = e
      BY <2>1, <2>3
    <3>2. e.sub \in 1..page'[e.client].sub
      BY <1>1
    <3> QED BY <1>3, <2>1, <3>1, <3>2
  <2> QED BY <1>1, <1>2, <2>2, <2>3
<1>6. \A n \in Node : \A i \in DOMAIN proposals[n] :
         proposals[n][i].sub \in 1..page'[proposals[n][i].client].sub
  <2>1. \A n \in Node : proposals[n] \in Seq(RaftLogEntry)
    BY SeqMonotone DEF SessionInv, SystemInv, ServerInv, OkEntry
  <2> QED BY <1>3, <2>1 DEF PagesInv, MadeInv
<1>7. \A i \in DOMAIN log : log[i].sub \in 1..page'[log[i].client].sub
  <2>1. log \in Seq(RaftLogEntry)
    BY DEF SessionInv, DocInv, DocTypeOK
  <2> QED BY <1>3, <2>1 DEF PagesInv, MadeInv
<1> QED BY <1>5, <1>6, <1>7 DEF MadeInv, Made

\* A second attempt is the same submission.
LEMMA ResubmitCalm ==
    ASSUME SessionInv, PagesInv, NEW a \in Client, Resubmit(a)
    PROVE  MadeInv' /\ SocketInv' /\ Keeps
<1>1. /\ page[a].ws # 0 /\ SendSubmit(a, page[a].sub) /\ page[a].waiting
      /\ UNCHANGED <<page, clients, proposals, log, documents, doc, callbacks>>
  BY DEF Resubmit, HasPendingX, Open, ResentSub, committedVars, serverVars
<1>2. \A c \in Client : page[c].sub \in Nat
  BY PageFields DEF SessionInv, SystemInv
<1>3. /\ DOMAIN conn' = DOMAIN conn
      /\ \A k \in DOMAIN conn :
            /\ conn'[k].client = conn[k].client /\ conn'[k].node = conn[k].node
            /\ conn'[k].up = conn[k].up /\ conn'[k].event = conn[k].event
            /\ SameLine(conn[k], conn'[k])
  BY <1>1, <1>2, SendSubmitCalm DEF PagesInv
<1>4. MadeInv'
  <2>1. page[a].sub > 0
    BY <1>1, PageFields DEF SessionInv, SystemInv
  <2> QED BY <1>1, <1>2, <2>1, SendSubmitMade
<1>5. SocketInv'
  BY <1>1, <1>3 DEF PagesInv, SocketInv, SameLine
<1>6. ASSUME NEW c \in Client, Calm(c) PROVE PageOf(c, page[c], Text)' /\ LineInv(c)'
  <2>1. SamePage(page[c], page'[c])
    BY <1>1 DEF SamePage
  <2>2. \A k \in DOMAIN conn : Registered(k)' => Registered(k)
    BY <1>3 DEF Registered, SameLine
  <2> QED BY <1>1, <1>3, <1>6, <2>1, <2>2, Undisturbed
<1> QED BY <1>4, <1>5, <1>6 DEF Keeps

\* A submission is new to everyone, and nothing on its way answers another.
LEMMA SubmitCalm ==
    ASSUME SessionInv, PagesInv, NEW a \in Client, Submit(a)
    PROVE  MadeInv' /\ SocketInv' /\ Keeps
<1> DEFINE p == page[a]
           u == [page[a] EXCEPT !.pending = TRUE, !.waiting = TRUE,
                                !.sub = page[a].sub + 1, !.typed = "no"]
<1>1. /\ p.running /\ p.ws # 0 /\ ~p.waiting /\ SendSubmit(a, p.sub + 1)
      /\ UNCHANGED <<clients, proposals, log, documents, doc, callbacks, skipped>>
  BY DEF Submit, NewSubmission, Open, serverVars
<1>2. page \in [Client -> Page] /\ \A c \in Client : page[c].sub \in Nat
  BY PageFields DEF SessionInv, SystemInv, PageInv
<1>3. page' = [page EXCEPT ![a] = u]
  BY <1>2 DEF Submit
<1>4. /\ u.pending = TRUE /\ u.waiting = TRUE /\ u.sub = p.sub + 1
      /\ u.ws = p.ws /\ u.ready = p.ready /\ u.running = p.running /\ u.base = p.base
      /\ u.rev = p.rev
  BY <1>2 DEF Page
<1> HIDE DEF u
<1>5. page'[a] = u /\ \A c \in Client : c # a => page'[c] = page[c]
  BY <1>2, <1>3
<1>6. /\ DOMAIN conn' = DOMAIN conn
      /\ \A k \in DOMAIN conn :
            /\ k # p.ws => conn'[k] = conn[k]
            /\ conn'[k].client = conn[k].client /\ conn'[k].node = conn[k].node
            /\ conn'[k].up = conn[k].up /\ conn'[k].event = conn[k].event
            /\ SameLine(conn[k], conn'[k])
  <2>1. p.sub + 1 \in Nat
    BY <1>2
  <2> QED BY <1>1, <2>1, SendSubmitCalm DEF PagesInv
<1>7. MadeInv'
  <2>1. p.sub + 1 \in Nat /\ page'[a].sub = p.sub + 1 /\ p.sub + 1 > 0
    BY <1>2, <1>4, <1>5
  <2>2. \A c \in Client : page'[c].sub \in Nat /\ page'[c].sub >= page[c].sub
    BY <1>2, <1>5, <2>1
  <2> QED BY <1>1, <2>1, <2>2, SendSubmitMade
<1>8. SocketInv'
  BY <1>4, <1>5, <1>6 DEF PagesInv, SocketInv, SameLine
<1>9. \A k \in DOMAIN conn : Registered(k)' => Registered(k)
  BY <1>6 DEF Registered, SameLine
<1>10. ASSUME NEW c \in Client, c # a, Calm(c) PROVE PageOf(c, page[c], Text)' /\ LineInv(c)'
  <2>1. SamePage(page[c], page'[c])
    BY <1>5, <1>10 DEF SamePage
  <2> QED BY <1>1, <1>5, <1>6, <1>9, <1>10, <2>1, Undisturbed
<1>11. ASSUME Calm(a), ~AtRisk(a)' PROVE PageOf(a, page[a], Text)' /\ LineInv(a)'
  <2>1. Text' = Text /\ p.ready
    BY <1>1, SameHistory DEF PagesInv, SocketInv
  <2>2. PageOf(a, u, Text)
    <3>1. /\ p.rev <= Len(Text) /\ p.base = SubSeq(Text, 1, p.rev)
          /\ \A s \in 1..p.sub : Among(a, s, Text, p.rev)
      BY <1>1, <1>11, <2>1 DEF Calm, PageOf
    <3>2. ~Among(a, p.sub + 1, Text, p.rev)
      <4> SUFFICES ASSUME NEW i \in DOMAIN Text, Text[i] = [client |-> a, sub |-> p.sub + 1]
                   PROVE  FALSE
        BY DEF Among
      <4>1. Text[i].sub \in 1..page[Text[i].client].sub
        BY TextMade DEF SessionInv, PagesInv
      <4>2. p.sub + 1 \in 1..p.sub
        BY <4>1
      <4> QED BY <1>2, <4>2
    <3>3. \A s \in 1..u.sub : s < u.sub => s \in 1..p.sub
      BY <1>2, <1>4
    <3> QED BY <1>4, <2>1, <3>1, <3>2, <3>3 DEF PageOf
  <2>3. ASSUME NEW k \in DOMAIN conn, conn[k].client = a, conn[k].up
        PROVE  /\ u.ws = k
               /\ Line(a, u, Text, conn'[k], callbacks[conn[k].node], doc[conn[k].node])
    <3> PICK n \in Node : n = conn[k].node
      BY ConnectionFields DEF SessionInv, SystemInv, WireInv
    <3>1. p.ws = k /\ Line(a, p, Text, conn[k], callbacks[n], doc[n])
      BY <1>11, <2>3, LineOf
    <3>2. ASSUME conn[k].stage = "serving"
          PROVE  /\ \A i \in DOMAIN conn[k].outbox : conn[k].outbox[i].type # "ACK"
                 /\ \A i \in DOMAIN callbacks[n] : callbacks[n][i].client # a
      <4>1. n \in Node /\ clients[n][a] # 0 /\ ~skipped[n]
        BY <1>11, <2>3, <3>2, RegisteredCalm DEF SessionInv, Registered
      <4>2. doc[n].lastSubmission[a] < u.sub
        BY <1>2, <1>4, <4>1, LastMade DEF SessionInv, PagesInv
      <4>3. ~OldAnswer(a, n)'
        BY <1>11, <4>1 DEF AtRisk
      <4>4. ~AnswerDue(a, n)'
        BY <1>1, <1>4, <1>5, <4>1, <4>2, <4>3 DEF OldAnswer
      <4>5. \A i \in DOMAIN callbacks[n] : callbacks[n][i].client # a
        BY <1>1, <4>4 DEF AnswerDue
      <4>6. \A i \in DOMAIN conn'[k].outbox : conn'[k].outbox[i].type # "ACK"
        BY <1>6, <2>3, <4>4 DEF AnswerDue
      <4> QED BY <1>6, <4>5, <4>6 DEF SameLine
    <3>3. SameLine(conn[k], conn'[k]) /\ u.rev = p.rev /\ u.ready
      BY <1>4, <1>6, <2>1
    <3>4. Line(a, u, Text, conn'[k], callbacks[n], doc[n])
      BY <2>1, <3>1, <3>2, <3>3, LineSubmitted
    <3> QED BY <1>4, <3>1, <3>4
  <2>4. LineInv(a)'
    BY <1>1, <1>5, <1>6, <1>9, <1>11, <2>1, <2>3 DEF LineInv, Calm
  <2> QED BY <1>5, <2>1, <2>2, <2>4
<1> QED BY <1>7, <1>8, <1>10, <1>11 DEF Keeps

\* One connection changes, and pages keep their submission numbers.
LEMMA OneMade ==
    ASSUME SessionInv, MadeInv, UNCHANGED <<log, proposals>>,
           \A c \in Client : page'[c].sub = page[c].sub,
           NEW k \in DOMAIN conn, NEW d, conn' = [conn EXCEPT ![k] = d],
           d.inbox = conn[k].inbox \/ d.inbox = <<>>
    PROVE  MadeInv'
<1>1. \A c \in Client : page'[c].sub \in Nat /\ page'[c].sub >= page[c].sub
  BY PageFields DEF SessionInv, SystemInv
<1>2. /\ DOMAIN conn' = DOMAIN conn /\ conn'[k] = d
      /\ \A j \in DOMAIN conn : j # k => conn'[j] = conn[j]
  OBVIOUS
<1> QED BY <1>1, <1>2, StillMade DEF SessionInv

\* One connection changes, and no page gets another socket.
LEMMA OneSocket ==
    ASSUME SocketInv, NEW k \in DOMAIN conn, NEW d, conn' = [conn EXCEPT ![k] = d],
           d.client = conn[k].client, d.up => ~d.event /\ d.stage \notin {"removed", "closed"},
           \A c \in Client : /\ page'[c].ws \in {page[c].ws, 0}
                             /\ page'[c].running => page'[c].ready
    PROVE  SocketInv'
<1>1. /\ DOMAIN conn' = DOMAIN conn /\ conn'[k] = d
      /\ \A j \in DOMAIN conn : j # k => conn'[j] = conn[j]
  OBVIOUS
<1> QED BY <1>1 DEF SocketInv

\* The clients of the other connections do not notice.
LEMMA OthersCalm ==
    ASSUME NEW k \in DOMAIN conn, NEW d, conn' = [conn EXCEPT ![k] = d],
           d.client = conn[k].client, NEW c \in Client, c # conn[k].client, Calm(c),
           UNCHANGED <<log, documents, doc, callbacks>>, page'[c] = page[c],
           \A n \in Node : clients'[n][c] = clients[n][c], SessionInv
    PROVE  PageOf(c, page[c], Text)' /\ LineInv(c)'
<1>1. DOMAIN conn' = DOMAIN conn /\ \A j \in DOMAIN conn : conn[j].client = c => conn'[j] = conn[j]
  OBVIOUS
<1>2. \A j \in DOMAIN conn' : conn'[j].client = c => conn[j].client = c
  OBVIOUS
<1>3. \A j \in DOMAIN conn : conn[j].node \in Node
  BY ConnectionFields DEF SessionInv, SystemInv, WireInv
<1>4. SamePage(page[c], page'[c]) /\ \A j : SameLine(conn[j], conn[j])
  BY DEF SamePage, SameLine
<1>5. \A j \in DOMAIN conn' : conn'[j].client = c =>
         /\ j \in DOMAIN conn /\ conn[j].client = c /\ conn'[j] = conn[j]
         /\ Registered(j)' = Registered(j)
         /\ clients'[conn[j].node][c] = clients[conn[j].node][c]
  BY <1>1, <1>2, <1>3 DEF Registered
<1> QED BY <1>4, <1>5, Undisturbed

\* A page that is loaded again while it waits for nothing.
LEMMA ReloadCalm ==
    ASSUME SessionInv, PagesInv, NEW a \in Client, Reload(a)
    PROVE  MadeInv' /\ SocketInv' /\ Keeps
<1>1. /\ page' = [page EXCEPT ![a] = NewPage(page[a].sub)]
      /\ UNCHANGED <<clients, proposals, log, documents, doc, callbacks>>
      /\ page[a].waiting => a \in missed'
  BY DEF Reload, committedVars, serverVars
<1>2. page \in [Client -> Page] /\ \A c \in Client : page[c].sub \in Nat
  BY PageFields DEF SessionInv, SystemInv, PageInv
<1>3. page'[a] = NewPage(page[a].sub) /\ \A c \in Client : c # a => page'[c] = page[c]
  BY <1>1, <1>2
<1>4. ASSUME NEW k \in DOMAIN conn
      PROVE  /\ conn[k].client # a => conn'[k] = conn[k]
             /\ conn[k].client = a => conn'[k].up = FALSE /\ conn'[k].event = FALSE
             /\ conn'[k].client = conn[k].client /\ conn'[k].node = conn[k].node
             /\ conn'[k].stage = conn[k].stage /\ conn'[k].inbox = conn[k].inbox
  <2>1. conn[k] \in Connection
    BY DEF SessionInv, SystemInv, WireInv, OkConnection
  <2>2. conn'[k] = IF conn[k].client = a THEN [Down(conn[k]) EXCEPT !.event = FALSE] ELSE conn[k]
    BY DEF Reload
  <2> QED BY <2>1, <2>2 DEF Down, Connection
<1>5. DOMAIN conn' = DOMAIN conn
  BY DEF Reload
<1>6. MadeInv'
  <2>1. page'[a].sub = page[a].sub
    BY <1>3 DEF NewPage
  <2>2. \A c \in Client : page'[c].sub \in Nat /\ page'[c].sub >= page[c].sub
    BY <1>2, <1>3, <2>1
  <2> QED BY <1>1, <1>4, <1>5, <2>2, StillMade DEF SessionInv, PagesInv
<1>7. SocketInv'
  <2>1. page'[a].ws = 0 /\ ~page'[a].running
    BY <1>3 DEF NewPage
  <2>2. \A k \in DOMAIN conn : conn'[k].up => /\ ~conn'[k].event
                                                 /\ conn'[k].stage \notin {"removed", "closed"}
    BY <1>4 DEF PagesInv, SocketInv
  <2>3. ASSUME NEW c \in Client
        PROVE  /\ page'[c].ws # 0 => /\ page'[c].ws \in DOMAIN conn'
                                     /\ conn'[page'[c].ws].client = c
               /\ page'[c].running => page'[c].ready
    <3>1. CASE c = a
      BY <2>1, <3>1
    <3>2. CASE c # a
      <4>1. page'[c] = page[c] /\ (page[c].running => page[c].ready)
            /\ (page[c].ws # 0 => page[c].ws \in DOMAIN conn /\ conn[page[c].ws].client = c)
        BY <1>3, <3>2 DEF PagesInv, SocketInv
      <4> QED BY <1>4, <1>5, <4>1
    <3> QED BY <3>1, <3>2
  <2> QED BY <1>5, <2>2, <2>3 DEF SocketInv
<1>8. \A k \in DOMAIN conn : Registered(k)' = Registered(k)
  BY <1>4 DEF Registered
<1>9. ASSUME NEW c \in Client, c # a, Calm(c) PROVE PageOf(c, page[c], Text)' /\ LineInv(c)'
  <2>1. SamePage(page[c], page'[c]) /\ page'[c].ws = page[c].ws
    BY <1>3, <1>9 DEF SamePage
  <2>2. \A k \in DOMAIN conn : SameLine(conn[k], conn[k])
    BY DEF SameLine
  <2> QED BY <1>1, <1>4, <1>5, <1>8, <1>9, <2>1, <2>2, Undisturbed
<1>10. ASSUME Calm(a), ~AtRisk(a)' PROVE PageOf(a, page[a], Text)' /\ LineInv(a)'
  <2>1. Text' = Text /\ ~page[a].waiting /\ Text \in Seq(Revision)
    BY <1>1, <1>10, SameHistory, HistoryFields DEF AtRisk, SessionInv
  <2>2. PageOf(a, NewPage(page[a].sub), Text)
    <3>1. ASSUME NEW s \in 1..page[a].sub PROVE Among(a, s, Text, Len(Text))
      <4>1. Among(a, s, Text, IF page[a].ready THEN page[a].rev ELSE Len(Text))
        BY <1>10, <2>1 DEF Calm, PageOf
      <4> QED BY <2>1, <4>1 DEF Among
    <3>2. 0 <= Len(Text) /\ <<>> = SubSeq(Text, 1, 0)
      BY <2>1
    <3> QED BY <3>1, <3>2 DEF PageOf, NewPage
  <2>3. ASSUME NEW k \in DOMAIN conn, conn[k].client = a
        PROVE  ~conn'[k].up /\ (Registered(k)' => clients'[conn'[k].node][a] = k)
    <3>1. conn'[k].up = FALSE /\ conn'[k].node = conn[k].node /\ Registered(k)' = Registered(k)
      BY <1>4, <1>8, <2>3
    <3>2. Registered(k) => clients[conn[k].node][a] = k
      BY <1>10, <2>3 DEF LineInv, Calm
    <3> QED BY <1>1, <3>1, <3>2
  <2>4. \A k \in DOMAIN conn' : conn'[k].client = a => k \in DOMAIN conn /\ conn[k].client = a
    BY <1>4, <1>5
  <2>5. LineInv(a)'
    BY <2>3, <2>4 DEF LineInv
  <2> QED BY <1>3, <2>1, <2>2, <2>5
<1> QED BY <1>6, <1>7, <1>9, <1>10 DEF Keeps

\* A new connection names the revision that the page has.
LEMMA OpenConnectionCalm ==
    ASSUME SessionInv, PagesInv, NEW a \in Client, NEW n \in Node, NEW p \in Page,
           OpenConnection(a, n, p), SamePage(page[a], p), p.running = page[a].running
    PROVE  MadeInv' /\ SocketInv' /\ Keeps
<1> PICK new : new = Len(conn) + 1
  OBVIOUS
<1> DEFINE d == [client |-> a, node |-> n, known |-> page[a].rev,
                 stage |-> "new", up |-> TRUE, event |-> FALSE,
                 catchUp |-> <<>>, text |-> <<>>, rev |-> 0,
                 inbox |-> <<>>, outbox |-> <<>>]
           u == [p EXCEPT !.ws = Len(conn) + 1]
<1>1. /\ conn' = Append(conn, d) /\ page' = [page EXCEPT ![a] = u]
      /\ UNCHANGED <<clients, proposals, log, documents, doc, callbacks>>
  BY DEF OpenConnection, docVars, serverVars
<1>2. /\ page \in [Client -> Page] /\ \A c \in Client : page[c].sub \in Nat
      /\ conn \in Seq(OkConnection)
  BY PageFields DEF SessionInv, SystemInv, PageInv, WireInv
<1>3. /\ d.client = a /\ d.node = n /\ d.known = page[a].rev /\ d.stage = "new" /\ d.up
      /\ ~d.event /\ d.inbox = <<>> /\ d.outbox = <<>>
  OBVIOUS
<1>4. SamePage(page[a], u) /\ u.ws = new /\ u.running = page[a].running
  BY DEF SamePage, Page
<1> HIDE DEF d, u
<1>5. page'[a] = u /\ \A c \in Client : c # a => page'[c] = page[c]
  BY <1>1, <1>2
<1>6. /\ DOMAIN conn' = DOMAIN conn \cup {new} /\ conn'[new] = d /\ new \notin DOMAIN conn
      /\ \A k \in DOMAIN conn : conn'[k] = conn[k]
      /\ DOMAIN conn = 1..Len(conn) /\ Len(conn) \in Nat /\ new # 0
  BY <1>1, <1>2
<1>7. MadeInv'
  <2>1. \A c \in Client : page'[c].sub \in Nat /\ page'[c].sub >= page[c].sub
    BY <1>2, <1>4, <1>5 DEF SamePage
  <2> QED BY <1>1, <1>3, <1>6, <2>1, StillMade DEF SessionInv, PagesInv
<1>8. SocketInv'
  BY <1>3, <1>4, <1>5, <1>6 DEF PagesInv, SocketInv, SamePage
<1>9. /\ \A k \in DOMAIN conn : Registered(k)' = Registered(k)
      /\ ~Registered(new)'
  BY <1>3, <1>6 DEF Registered, Connecting
<1>10. ASSUME NEW c \in Client, c # a, Calm(c) PROVE PageOf(c, page[c], Text)' /\ LineInv(c)'
  <2>1. SamePage(page[c], page'[c]) /\ page'[c].ws = page[c].ws
    BY <1>5, <1>10 DEF SamePage
  <2>2. \A k \in DOMAIN conn : SameLine(conn[k], conn[k])
    BY DEF SameLine
  <2> QED BY <1>1, <1>3, <1>6, <1>9, <1>10, <2>1, <2>2, Undisturbed
<1>11. ASSUME Calm(a), ~AtRisk(a)' PROVE PageOf(a, page[a], Text)' /\ LineInv(a)'
  <2>1. Text' = Text
    BY <1>1, SameHistory
  <2>2. PageOf(a, page'[a], Text')
    BY <1>4, <1>5, <1>11, <2>1, PageKept DEF Calm
  <2>3. ASSUME NEW k \in DOMAIN conn, conn[k].client = a PROVE ~conn[k].up
    <3>1. ~TwoConnections(k, new)'
      BY <1>3, <1>6, <1>11 DEF AtRisk
    <3> QED BY <1>3, <1>6, <2>3, <3>1 DEF TwoConnections
  <2>4. Line(a, u, Text', d, callbacks'[n], doc'[n])
    BY <1>3, <1>4 DEF Line, Reading, SamePage
  <2>5. ASSUME NEW k \in DOMAIN conn', conn'[k].client = a
        PROVE  /\ Registered(k)' => clients'[conn'[k].node][a] = k
               /\ conn'[k].up =>
                     /\ page'[a].ws = k
                     /\ Line(a, page'[a], Text', conn'[k], callbacks'[conn'[k].node],
                             doc'[conn'[k].node])
    <3>1. CASE k = new
      BY <1>3, <1>4, <1>5, <1>6, <1>9, <2>4, <3>1
    <3>2. CASE k \in DOMAIN conn
      BY <1>1, <1>6, <1>9, <1>11, <2>3, <2>5, <3>2 DEF Calm, LineInv
    <3> QED BY <1>6, <3>1, <3>2
  <2> QED BY <2>2, <2>5 DEF LineInv
<1> QED BY <1>7, <1>8, <1>10, <1>11 DEF Keeps

\* The Connect button.
LEMMA ConnectCalm ==
    ASSUME SessionInv, PagesInv, NEW a \in Client, NEW n \in Node, Connect(a, n)
    PROVE  MadeInv' /\ SocketInv' /\ Keeps
<1>1. PICK x : x = IF page[a].timers = 0 THEN None ELSE n
  OBVIOUS
<1> DEFINE p == [page[a] EXCEPT !.addr = x]
<1>2. page[a] \in Page /\ x \in Node \cup {None}
  BY <1>1 DEF SessionInv, SystemInv, PageInv
<1>3. p \in Page /\ SamePage(page[a], p) /\ p.running = page[a].running
  BY <1>2 DEF Page, SamePage
<1>4. OpenConnection(a, n, p)
  BY <1>1 DEF Connect
<1> QED BY <1>3, <1>4, OpenConnectionCalm

\* A timer of handleRedirect.
LEMMA ReconnectCalm ==
    ASSUME SessionInv, PagesInv, NEW a \in Client, Reconnect(a)
    PROVE  MadeInv' /\ SocketInv' /\ Keeps
<1>1. /\ page[a] \in Page /\ page[a].timers \in Nat /\ page[a].timers > 0
      /\ page[a].addr \in Node
  BY PageFields DEF Reconnect, SessionInv, SystemInv
<1>2. PICK x \in Node \cup {None} : x = IF page[a].timers = 1 THEN None ELSE page[a].addr
  BY <1>1
<1> DEFINE p == [page[a] EXCEPT !.timers = page[a].timers - 1, !.addr = x]
<1>3. p \in Page /\ SamePage(page[a], p) /\ p.running = page[a].running
  <2>1. page[a].timers - 1 \in Nat
    BY <1>1
  <2> QED BY <1>1, <1>2, <2>1 DEF Page, SamePage
<1>4. OpenConnection(a, page[a].addr, p)
  BY <1>1, <1>2 DEF Reconnect, Page
<1> QED BY <1>1, <1>3, <1>4, OpenConnectionCalm

\* The network drops a connection.
LEMMA DropCalm ==
    ASSUME SessionInv, PagesInv, NEW k \in DOMAIN conn, Drop(k)
    PROVE  MadeInv' /\ SocketInv' /\ Keeps
<1> DEFINE d == Down(conn[k])
<1>1. /\ conn' = [conn EXCEPT ![k] = d]
      /\ UNCHANGED <<page, clients, proposals, log, documents, doc, callbacks>>
  BY DEF Drop, committedVars, serverVars
<1>2. conn[k] \in Connection
  BY DEF SessionInv, SystemInv, WireInv, OkConnection
<1>3. /\ ~d.up /\ d.client = conn[k].client /\ d.node = conn[k].node
      /\ d.stage = conn[k].stage /\ d.inbox = conn[k].inbox
  BY <1>2 DEF Down, Connection
<1> HIDE DEF d
<1>4. MadeInv'
  BY <1>1, <1>3, OneMade DEF PagesInv
<1>5. SocketInv'
  <2>1. \A c \in Client : page[c].running => page[c].ready
    BY DEF PagesInv, SocketInv
  <2> QED BY <1>1, <1>3, <2>1, OneSocket DEF PagesInv
<1>6. ASSUME NEW c \in Client, Calm(c) PROVE PageOf(c, page[c], Text)' /\ LineInv(c)'
  <2>1. /\ DOMAIN conn' = DOMAIN conn /\ conn'[k] = d
        /\ \A j \in DOMAIN conn : j # k => conn'[j] = conn[j]
    BY <1>1
  <2>2. \A j \in DOMAIN conn : Registered(j)' = Registered(j)
    BY <1>3, <2>1 DEF Registered
  <2>3. SamePage(page[c], page'[c]) /\ \A j \in DOMAIN conn : SameLine(conn[j], conn[j])
    BY <1>1 DEF SamePage, SameLine
  <2> QED BY <1>1, <1>3, <1>6, <2>1, <2>2, <2>3, Undisturbed
<1> QED BY <1>4, <1>5, <1>6 DEF Keeps

\* onWsClose of the page's last connection.
LEMMA OnWsCloseCalm ==
    ASSUME SessionInv, PagesInv, NEW k \in DOMAIN conn, OnWsClose(k)
    PROVE  MadeInv' /\ SocketInv' /\ Keeps
<1> PICK a \in Client : a = conn[k].client
  BY ConnectionFields DEF SessionInv, SystemInv, WireInv
<1> DEFINE d == [conn[k] EXCEPT !.event = FALSE]
           u == [page[a] EXCEPT !.ws = 0, !.running = FALSE]
<1>1. /\ conn[k].event /\ conn' = [conn EXCEPT ![k] = d]
      /\ UNCHANGED <<clients, proposals, log, documents, doc, callbacks>>
  BY DEF OnWsClose, docVars, serverVars
<1>2. page \in [Client -> Page] /\ conn[k] \in Connection
  BY DEF SessionInv, SystemInv, WireInv, OkConnection, PageInv
<1>3. page' = [page EXCEPT ![a] = u]
  BY <1>2 DEF OnWsClose
<1>4. /\ ~d.event /\ d.client = a /\ d.node = conn[k].node /\ d.up = conn[k].up
      /\ d.stage = conn[k].stage /\ d.inbox = conn[k].inbox /\ SameLine(conn[k], d)
  BY <1>2 DEF Connection, SameLine
<1>5. SamePage(page[a], u) /\ u.ws = 0 /\ ~u.running
  BY <1>2 DEF Page, SamePage
<1> HIDE DEF d, u
<1>6. page'[a] = u /\ \A c \in Client : c # a => page'[c] = page[c]
  BY <1>2, <1>3
<1>7. MadeInv'
  <2>1. \A c \in Client : page'[c].sub = page[c].sub
    BY <1>5, <1>6 DEF SamePage
  <2> QED BY <1>1, <1>4, <2>1, OneMade DEF PagesInv
<1>8. SocketInv'
  <2>1. \A c \in Client : /\ page'[c].ws \in {page[c].ws, 0}
                          /\ page'[c].running => page'[c].ready
    BY <1>5, <1>6 DEF PagesInv, SocketInv
  <2>2. d.up => d.stage \notin {"removed", "closed"}
    BY <1>4 DEF PagesInv, SocketInv
  <2> QED BY <1>1, <1>4, <2>1, <2>2, OneSocket DEF PagesInv
<1>9. ASSUME NEW c \in Client, c # a, Calm(c) PROVE PageOf(c, page[c], Text)' /\ LineInv(c)'
  BY <1>1, <1>4, <1>6, <1>9, OthersCalm
<1>10. ASSUME Calm(a) PROVE PageOf(a, page[a], Text)' /\ LineInv(a)'
  <2>1. ASSUME NEW j \in DOMAIN conn, conn[j].client = a PROVE ~conn[j].up
    <3>1. CASE j = k
      BY <1>1, <3>1 DEF PagesInv, SocketInv
    <3>2. CASE j # k
      <4>1. ~TwoConnections(k, j)
        BY <1>10, <2>1 DEF Calm, AtRisk
      <4> QED BY <1>1, <2>1, <3>2, <4>1 DEF TwoConnections
    <3> QED BY <3>1, <3>2
  <2>2. /\ DOMAIN conn' = DOMAIN conn /\ conn'[k] = d
        /\ \A j \in DOMAIN conn : j # k => conn'[j] = conn[j]
    BY <1>1
  <2>3. \A j \in DOMAIN conn : Registered(j)' = Registered(j)
    BY <1>4, <2>2 DEF Registered
  <2>4. \A j \in DOMAIN conn : SameLine(conn[j], conn[j])
    BY DEF SameLine
  <2> QED BY <1>1, <1>4, <1>5, <1>6, <1>10, <2>1, <2>2, <2>3, <2>4, Undisturbed
<1> QED BY <1>7, <1>8, <1>9, <1>10 DEF Keeps

-----------------------------------------------------------------------------
(* Steps of the page: messages *)

\* The line after its first message has been taken.
LEMMA LineTaken ==
    ASSUME NEW c, NEW p, NEW u, NEW t, NEW S, NEW k, NEW l, NEW cb, NEW d,
           k.outbox \in Seq(S), k.outbox # <<>>, Head(k.outbox).type # "REDIRECT",
           k.stage = "serving", l.stage = "serving", l.outbox = Tail(k.outbox),
           u.rev = Head(k.outbox).rev, u.sub = p.sub, u.pending => p.pending, u.ready,
           Line(c, p, t, k, cb, d)
    PROVE  Line(c, u, t, l, cb, d)
<1>1. Streaming(c, p, t, k, cb, d)
  BY DEF Line
<1> DEFINE q == k.outbox
<1>2. /\ Queue(c, u, t, Tail(q))
      /\ NoRedirect(Tail(q), Len(Tail(q))) => NoRedirect(q, Len(q))
      /\ After(u.rev, Tail(q)) = After(p.rev, q)
  <2>1. Queue(c, p, t, q) /\ q \in Seq(S) /\ q # <<>> /\ Head(q).type # "REDIRECT"
    BY <1>1 DEF Streaming
  <2>2. p.ready => u.ready
    OBVIOUS
  <2> HIDE DEF q
  <2>3. u.rev = Head(q).rev
    BY DEF q
  <2> QED BY <2>1, <2>2, <2>3, QueueTaken
<1>3. ASSUME NEW a, Due(c, p, t, a, cb, d) PROVE Due(c, u, t, a, cb, d)
  BY <1>3, ReportKept DEF Due
<1>4. Streaming(c, u, t, l, cb, d)
  BY <1>1, <1>2, <1>3 DEF Streaming, Greeted
<1> QED BY <1>4 DEF Line, Connecting

\* The elements of a cut.
LEMMA CutFields ==
    ASSUME NEW t \in Seq(Revision), NEW a \in Nat, NEW b \in Nat, a <= b, b <= Len(t),
           NEW s, s = SubSeq(t, a + 1, b)
    PROVE  \A i \in DOMAIN s : s[i] = t[a + i] /\ a + i <= Len(t)
<1>1. Len(s) = b - a /\ DOMAIN s = 1..(b - a)
  OBVIOUS
<1>2. \A i \in 1..(b - a) : s[i] = t[a + i] /\ a + i <= Len(t)
  OBVIOUS
<1> QED BY <1>1, <1>2

\* Two cuts that meet.
LEMMA CutJoined ==
    ASSUME NEW t \in Seq(Revision), NEW a \in Nat, NEW b \in Nat, a <= b, b <= Len(t)
    PROVE  SubSeq(t, 1, a) \o SubSeq(t, a + 1, b) = SubSeq(t, 1, b)
<1> DEFINE x == SubSeq(t, 1, a)
           y == SubSeq(t, a + 1, b)
           z == SubSeq(t, 1, b)
<1>1. /\ x \in Seq(Revision) /\ Len(x) = a /\ \A i \in 1..a : x[i] = t[i]
      /\ y \in Seq(Revision) /\ Len(y) = b - a /\ \A i \in 1..(b - a) : y[i] = t[a + i]
      /\ z \in Seq(Revision) /\ Len(z) = b /\ \A i \in 1..b : z[i] = t[i]
  OBVIOUS
<1> HIDE DEF x, y, z
<1>2. x \o y \in Seq(Revision) /\ Len(x \o y) = b
  <2>1. x \o y \in Seq(Revision) /\ Len(x \o y) = Len(x) + Len(y)
    <3>1. x \in Seq(Revision) /\ y \in Seq(Revision)
      BY <1>1
    <3> QED BY <3>1
  <2>2. a + (b - a) = b
    OBVIOUS
  <2> QED BY <1>1, <2>1, <2>2
<1>3. ASSUME NEW i \in 1..b PROVE (x \o y)[i] = z[i]
  <2>0. i <= a \/ i > a
    OBVIOUS
  <2>1. CASE i <= a
    <3>1. i \in 1..a
      BY <2>1
    <3>2. (x \o y)[i] = x[i]
      BY <1>1, <3>1
    <3> QED BY <1>1, <3>1, <3>2
  <2>2. CASE i > a
    <3>1. i - a \in 1..(b - a) /\ a + (i - a) = i
      BY <2>2
    <3>2. (x \o y)[i] = y[i - a]
      BY <1>1, <2>2, <3>1
    <3> QED BY <1>1, <3>1, <3>2
  <2> QED BY <2>0, <2>1, <2>2
<1>4. x \o y = z
  BY <1>1, <1>2, <1>3
<1> QED BY <1>4 DEF x, y, z

\* A cut of one edit.
LEMMA CutOne ==
    ASSUME NEW t \in Seq(Revision), NEW r \in 1..Len(t)
    PROVE  SubSeq(t, r, r) = <<t[r]>>
<1> DEFINE x == SubSeq(t, r, r)
           y == <<t[r]>>
<1>1. x \in Seq(Revision) /\ Len(x) = 1 /\ x[1] = t[r]
  OBVIOUS
<1>2. y \in Seq(Revision) /\ Len(y) = 1 /\ y[1] = t[r]
  OBVIOUS
<1> HIDE DEF x, y
<1>3. x = y
  BY <1>1, <1>2
<1> QED BY <1>3 DEF x, y

\* The next edit at the end of a page's text.
LEMMA NextEdit ==
    ASSUME NEW t \in Seq(Revision), NEW r \in Nat, r + 1 <= Len(t)
    PROVE  /\ SubSeq(t, 1, r) \o <<t[r + 1]>> = SubSeq(t, 1, r + 1)
           /\ Append(SubSeq(t, 1, r), t[r + 1]) = SubSeq(t, 1, r + 1)
  OBVIOUS

\* A BROADCAST brings the next edit, of another client.
LEMMA PageBroadcast ==
    ASSUME NEW c, NEW p, NEW u, NEW t \in Seq(Revision), NEW m, p.rev \in Nat, p.sub \in Nat,
           PageOf(c, p, t), p.ready, m.type = "BROADCAST", Link(c, p, t, p.rev, m),
           u.base = p.base \o <<m.edit>>, u.rev = m.rev, u.ready, u.pending = p.pending,
           u.waiting = p.waiting, u.sub = p.sub
    PROVE  PageOf(c, u, t)
<1>1. m.rev = p.rev + 1 /\ m.rev <= Len(t) /\ t[m.rev] = m.edit /\ m.edit.client # c
  BY DEF Link
<1>2. u.base = SubSeq(t, 1, u.rev)
  <2>1. p.base = SubSeq(t, 1, p.rev) /\ t[p.rev + 1] = m.edit /\ p.rev + 1 <= Len(t)
    BY <1>1 DEF PageOf
  <2>2. SubSeq(t, 1, p.rev) \o <<t[p.rev + 1]>> = SubSeq(t, 1, p.rev + 1)
    BY <2>1, NextEdit
  <2> QED BY <1>1, <2>1, <2>2
<1>3. \A s, i : i \in DOMAIN t /\ i <= u.rev /\ t[i] = [client |-> c, sub |-> s] => i <= p.rev
  BY <1>1
<1>4. u.pending => ~Among(c, u.sub, t, u.rev)
  BY <1>3 DEF PageOf, Among
<1>5. \A s \in 1..u.sub : s < u.sub \/ ~u.waiting => Among(c, s, t, u.rev)
  <2>1. \A i \in DOMAIN t : i <= p.rev => i <= u.rev
    BY <1>1
  <2> QED BY <2>1 DEF PageOf, Among
<1> QED BY <1>1, <1>2, <1>4, <1>5 DEF PageOf

\* An ACK for a new revision confirms what the page waits for; one for a resent
\* submission finds the page waiting for nothing.
LEMMA PageAck ==
    ASSUME NEW c, NEW p, NEW u, NEW t \in Seq(Revision), NEW m, p.rev \in Nat, p.sub \in Nat,
           p.pending \in BOOLEAN, PageOf(c, p, t), p.ready,
           m.type = "ACK", Link(c, p, t, p.rev, m),
           \A i, j \in DOMAIN t : t[i] = t[j] => i = j,
           \A j \in DOMAIN t : t[j].client = c => t[j].sub \in 1..p.sub,
           u.base = IF p.pending THEN Append(p.base, [client |-> c, sub |-> p.sub]) ELSE p.base,
           u.rev = m.rev, u.ready, u.pending = FALSE, u.waiting = FALSE, u.sub = p.sub
    PROVE  PageOf(c, u, t)
<1>1. CASE m.rev = p.rev + 1 /\ m.rev <= Len(t) /\ t[m.rev].client = c
  <2>1. m.rev \in DOMAIN t /\ t[m.rev].sub \in 1..p.sub /\ t[m.rev] \in Revision
    BY <1>1
  <2>2. ~Among(c, t[m.rev].sub, t, p.rev)
    <3> SUFFICES ASSUME NEW i \in DOMAIN t, i <= p.rev,
                        t[i] = [client |-> c, sub |-> t[m.rev].sub]
                 PROVE  FALSE
      BY DEF Among
    <3>1. t[i] = t[m.rev]
      BY <1>1, <2>1 DEF Revision
    <3>2. i = m.rev
      BY <2>1, <3>1
    <3> QED BY <1>1, <3>2
  <2>3. t[m.rev].sub = p.sub /\ p.pending
    BY <2>1, <2>2 DEF PageOf
  <2>4. t[m.rev] = [client |-> c, sub |-> p.sub]
    BY <1>1, <2>1, <2>3 DEF Revision
  <2>5. u.base = SubSeq(t, 1, u.rev)
    BY <1>1, <2>3, <2>4, NextEdit DEF PageOf
  <2>6. \A s \in 1..u.sub : Among(c, s, t, u.rev)
    <3>1. \A i \in DOMAIN t : i <= p.rev => i <= u.rev
      BY <1>1
    <3>2. \A s \in 1..u.sub : s < p.sub \/ s = p.sub
      OBVIOUS
    <3>3. Among(c, p.sub, t, u.rev)
      BY <1>1, <2>1, <2>4 DEF Among
    <3> QED BY <3>1, <3>2, <3>3 DEF PageOf, Among
  <2> QED BY <1>1, <2>5, <2>6 DEF PageOf
<1>2. CASE m.rev = p.rev /\ (p.pending => Among(c, p.sub, t, p.rev))
  <2>1. ~p.pending /\ ~p.waiting
    BY <1>2 DEF PageOf
  <2> QED BY <1>2, <2>1 DEF PageOf
<1> QED BY <1>1, <1>2 DEF Link

\* CONNECT_ACK brings what the page lacks.
LEMMA PageConnected ==
    ASSUME NEW c, NEW p, NEW u, NEW t \in Seq(Revision), NEW m, p.rev \in Nat, p.sub \in Nat,
           m.rev \in Nat, PageOf(c, p, t), m.type = "CONNECT_ACK", Link(c, p, t, p.rev, m),
           p.waiting => m.rev = p.rev,
           u.base = SubSeq(t, 1, m.rev), u.rev = m.rev, u.ready, u.pending = p.pending,
           u.waiting = p.waiting, u.sub = p.sub
    PROVE  PageOf(c, u, t)
<1>1. /\ p.rev <= m.rev /\ m.rev <= Len(t)
      /\ ~p.ready => \A j \in DOMAIN t : t[j].client = c => j <= m.rev
  BY DEF Link
<1>2. u.pending => ~Among(c, u.sub, t, u.rev)
  BY DEF PageOf
<1>3. ASSUME NEW s \in 1..u.sub, s < u.sub \/ ~u.waiting PROVE Among(c, s, t, u.rev)
  <2>1. PICK i \in DOMAIN t : /\ i <= (IF p.ready THEN p.rev ELSE Len(t))
                              /\ t[i] = [client |-> c, sub |-> s]
    BY <1>3 DEF PageOf, Among
  <2>2. i <= m.rev
    BY <1>1, <2>1
  <2> QED BY <2>1, <2>2 DEF Among
<1> QED BY <1>1, <1>2, <1>3 DEF PageOf

\* Folding in the edits that follow the page's text gives a longer beginning of
\* the text.
LEMMA FoldedNext ==
    ASSUME NEW c \in Client, SessionInv, PageOf(c, page[c], Text), NEW r \in Nat,
           page[c].rev <= r, r <= Len(Text), NEW edits,
           edits = SubSeq(Text, page[c].rev + 1, r), NEW base \in Folded(c, edits)
    PROVE  base = page[c].base \o edits /\ base = SubSeq(Text, 1, r)
<1>1. /\ Text \in Seq(Revision) /\ page[c].rev \in Nat /\ HeadRev(Final) = Len(Text)
      /\ page[c].rev <= Len(Text) /\ page[c].base = SubSeq(Text, 1, page[c].rev)
  BY HistoryFields, PageFields DEF SessionInv, SystemInv, PageOf
<1>2. InStep(c)
  BY <1>1 DEF InStep, Text
<1>3. \A i \in DOMAIN edits : edits[i] = Text[page[c].rev + i] /\ page[c].rev + i <= Len(Text)
  <2>1. PICK x \in Nat : x = page[c].rev
    BY <1>1
  <2>2. x <= r /\ edits = SubSeq(Text, x + 1, r)
    BY <2>1
  <2>3. \A i \in DOMAIN edits : edits[i] = Text[x + i] /\ x + i <= Len(Text)
    BY <1>1, <2>2, CutFields
  <2> QED BY <2>1, <2>3
<1>4. NextRevisions(c, edits)
  BY <1>1, <1>2, <1>3 DEF NextRevisions, Text
<1>5. base = page[c].base \o edits
  BY <1>4 DEF Folded
<1>6. SubSeq(Text, 1, page[c].rev) \o SubSeq(Text, page[c].rev + 1, r) = SubSeq(Text, 1, r)
  BY <1>1, CutJoined
<1> QED BY <1>1, <1>5, <1>6

\* The first message for a calm client continues its page.
LEMMA HeadLink ==
    ASSUME SessionInv, PagesInv, NEW k \in DOMAIN conn, NEW a \in Client, conn[k].client = a,
           Calm(a), conn[k].up, conn[k].outbox # <<>>, Head(conn[k].outbox).type # "REDIRECT"
    PROVE  /\ conn[k].stage = "serving" /\ page[a].ws = k
           /\ Link(a, page[a], Text, page[a].rev, Head(conn[k].outbox))
           /\ page[a].ready \/ Head(conn[k].outbox).type = "CONNECT_ACK"
<1> DEFINE q == conn[k].outbox
<1>1. q \in Seq(OkMessage) /\ conn[k].stage \in Stages
  BY ConnectionFields DEF SessionInv, SystemInv, WireInv
<1>2. /\ page[a].ws = k
      /\ Line(a, page[a], Text, conn[k], callbacks[conn[k].node], doc[conn[k].node])
  BY LineOf
<1>3. conn[k].stage = "serving"
  <2>1. conn[k].stage \notin {"removed", "closed"}
    BY DEF PagesInv, SocketInv
  <2>2. conn[k].stage \notin {"new"} \cup Connecting
    BY <1>2 DEF Line, Reading
  <2> QED BY <1>1, <2>1, <2>2 DEF Stages
<1>4. Greeted(page[a], q) /\ Queue(a, page[a], Text, q)
  BY <1>2, <1>3 DEF Line, Streaming
<1> HIDE DEF q
<1>5. 1 \in DOMAIN q /\ Head(q) = q[1] /\ q # <<>>
  BY <1>1 DEF q
<1>6. NoRedirect(q, 1) /\ q[1].type # "REDIRECT"
  <2>1. \A j \in DOMAIN q : j <= 1 => j = 1
    BY <1>1
  <2> QED BY <1>5, <2>1 DEF NoRedirect, q
<1>7. Link(a, page[a], Text, page[a].rev, q[1])
  BY <1>4, <1>5, <1>6 DEF Queue, Before
<1> QED BY <1>2, <1>3, <1>4, <1>5, <1>6, <1>7 DEF Greeted, q

\* A message other than REDIRECT is taken, and the page becomes u.
LEMMA TakenCalm ==
    ASSUME SessionInv, PagesInv, NEW k \in DOMAIN conn, NEW a \in Client, conn[k].client = a,
           conn[k].up, conn[k].outbox # <<>>, Head(conn[k].outbox).type # "REDIRECT",
           conn' = [conn EXCEPT ![k].outbox = Tail(@)],
           UNCHANGED <<clients, proposals, log, documents, doc, callbacks>>,
           NEW u, page' = [page EXCEPT ![a] = u],
           u.ws = page[a].ws, u.sub = page[a].sub, u.running => u.ready,
           Calm(a) => /\ PageOf(a, u, Text) /\ u.rev = Head(conn[k].outbox).rev
                      /\ u.pending => page[a].pending
                      /\ u.ready
    PROVE  MadeInv' /\ SocketInv' /\ Keeps
<1> DEFINE d == [conn[k] EXCEPT !.outbox = Tail(conn[k].outbox)]
<1>1. conn' = [conn EXCEPT ![k] = d]
  OBVIOUS
<1>2. conn[k] \in Connection /\ page \in [Client -> Page] /\ conn[k].outbox \in Seq(OkMessage)
  BY ConnectionFields DEF SessionInv, SystemInv, WireInv, OkConnection, PageInv
<1>3. /\ d.client = a /\ d.node = conn[k].node /\ d.up = conn[k].up
      /\ d.event = conn[k].event /\ d.stage = conn[k].stage /\ d.inbox = conn[k].inbox
      /\ d.outbox = Tail(conn[k].outbox)
  BY <1>2 DEF Connection
<1> HIDE DEF d
<1>4. page'[a] = u /\ \A c \in Client : c # a => page'[c] = page[c]
  BY <1>2
<1>5. MadeInv'
  <2>1. \A c \in Client : page'[c].sub = page[c].sub
    BY <1>4
  <2> QED BY <1>1, <1>3, <2>1, OneMade DEF PagesInv
<1>6. SocketInv'
  <2>1. \A c \in Client : /\ page'[c].ws \in {page[c].ws, 0}
                          /\ page'[c].running => page'[c].ready
    BY <1>4 DEF PagesInv, SocketInv
  <2>2. d.up => ~d.event /\ d.stage \notin {"removed", "closed"}
    BY <1>3 DEF PagesInv, SocketInv
  <2>3. d.client = conn[k].client /\ SocketInv
    BY <1>3 DEF PagesInv
  <2> QED BY <1>1, <2>1, <2>2, <2>3, OneSocket
<1>7. ASSUME NEW c \in Client, c # a, Calm(c) PROVE PageOf(c, page[c], Text)' /\ LineInv(c)'
  <2>1. /\ d.client = conn[k].client /\ c # conn[k].client /\ page'[c] = page[c]
        /\ \A n \in Node : clients'[n][c] = clients[n][c]
    BY <1>3, <1>4, <1>7
  <2> QED BY <1>1, <1>7, <2>1, OthersCalm
<1>8. ASSUME Calm(a) PROVE PageOf(a, page[a], Text)' /\ LineInv(a)'
  <2>1. Text' = Text /\ conn[k].stage = "serving" /\ page[a].ws = k
    BY <1>8, SameHistory, HeadLink
  <2>2. /\ DOMAIN conn' = DOMAIN conn /\ conn'[k] = d
        /\ \A j \in DOMAIN conn : j # k => conn'[j] = conn[j]
    BY <1>1
  <2>3. \A j \in DOMAIN conn : Registered(j)' = Registered(j)
    BY <1>3, <2>2 DEF Registered
  <2>4. Line(a, u, Text, d, callbacks[conn[k].node], doc[conn[k].node])
    <3>1. Line(a, page[a], Text, conn[k], callbacks[conn[k].node], doc[conn[k].node])
      BY <1>8, LineOf
    <3>2. /\ d.stage = "serving" /\ d.outbox = Tail(conn[k].outbox) /\ conn[k].stage = "serving"
          /\ u.rev = Head(conn[k].outbox).rev /\ (u.pending => page[a].pending) /\ u.ready
      BY <1>3, <1>8, <2>1
    <3> QED BY <1>2, <3>1, <3>2, LineTaken
  <2>5. ASSUME NEW j \in DOMAIN conn, conn[j].client = a, conn[j].up PROVE j = k
    BY <1>8, <2>1, <2>5, LineOf
  <2>6. LineInv(a)'
    <3> SUFFICES ASSUME NEW j \in DOMAIN conn', conn'[j].client = a
                 PROVE  /\ Registered(j)' => clients'[conn'[j].node][a] = j
                        /\ conn'[j].up =>
                              /\ page'[a].ws = j
                              /\ Line(a, page'[a], Text', conn'[j], callbacks'[conn'[j].node],
                                      doc'[conn'[j].node])
      BY DEF LineInv
    <3>1. j \in DOMAIN conn /\ conn[j].client = a /\ conn'[j].node = conn[j].node
      BY <1>3, <2>2
    <3>2. Registered(j)' => clients'[conn'[j].node][a] = j
      BY <1>8, <2>3, <3>1 DEF Calm, LineInv
    <3>3. conn'[j].up => j = k
      BY <2>2, <2>5, <3>1
    <3> QED BY <1>3, <1>4, <2>1, <2>2, <2>4, <3>2, <3>3
  <2> QED BY <1>4, <1>8, <2>1, <2>6
<1> QED BY <1>5, <1>6, <1>7, <1>8 DEF Keeps

\* What holds before every message.
TakesMessage(k, a, type) ==
    /\ conn[k].client = a /\ conn[k].up /\ conn[k].outbox # <<>>
    /\ Head(conn[k].outbox).type = type /\ type # "REDIRECT"
    /\ conn' = [conn EXCEPT ![k].outbox = Tail(@)]
    /\ UNCHANGED <<clients, proposals, log, documents, doc, callbacks>>

\* handleAck
LEMMA AckCalm ==
    ASSUME SessionInv, PagesInv, NEW k \in DOMAIN conn, NEW a \in Client,
           TakesMessage(k, a, "ACK"), HandleAck(a, Head(conn[k].outbox))
    PROVE  MadeInv' /\ SocketInv' /\ Keeps
<1> DEFINE p == page[a]
           m == Head(conn[k].outbox)
           v == [p EXCEPT !.base = IF p.pending THEN Append(p.base, [client |-> a, sub |-> p.sub])
                                                ELSE p.base,
                          !.pending = FALSE, !.waiting = FALSE, !.rev = m.rev]
           u == IF ~p.ready THEN p ELSE v
<1>1. page' = [page EXCEPT ![a] = u]
  BY DEF HandleAck
<1>2. /\ p \in Page /\ p.rev \in Nat /\ p.sub \in Nat /\ p.pending \in BOOLEAN
      /\ p.running => p.ready
  BY PageFields DEF SessionInv, SystemInv, PagesInv, SocketInv
<1>3. /\ v.base = IF p.pending THEN Append(p.base, [client |-> a, sub |-> p.sub]) ELSE p.base
      /\ v.pending = FALSE /\ v.waiting = FALSE /\ v.rev = m.rev /\ v.sub = p.sub
      /\ v.ws = p.ws /\ v.ready = p.ready /\ v.running = p.running
  BY <1>2 DEF Page
<1> HIDE DEF v
<1>4. u.ws = p.ws /\ u.sub = p.sub /\ (u.running => u.ready)
  BY <1>2, <1>3
<1>5. ASSUME Calm(a)
      PROVE  PageOf(a, u, Text) /\ u.rev = m.rev /\ (u.pending => p.pending) /\ u.ready
  <2>1. p.ready /\ Link(a, p, Text, p.rev, m) /\ m.type = "ACK"
    BY <1>5, HeadLink DEF TakesMessage
  <2>2. u = v /\ u.ready
    BY <1>3, <2>1
  <2>3. /\ Text \in Seq(Revision) /\ \A i, j \in DOMAIN Text : Text[i] = Text[j] => i = j
        /\ \A j \in DOMAIN Text : Text[j].client = a => Text[j].sub \in 1..p.sub
    <3>1. Text \in Seq(Revision)
      BY HistoryFields DEF SessionInv
    <3>2. \A i, j \in DOMAIN Text : Text[i] = Text[j] => i = j
      BY DEF PagesInv, HistoryInv, GuardedDocument, Text
    <3> QED BY <3>1, <3>2, TextMade DEF SessionInv, PagesInv
  <2>4. PageOf(a, p, Text)
    BY <1>5 DEF Calm
  <2> HIDE DEF u, p, m
  <2>5. PageOf(a, v, Text)
    BY <1>2, <1>3, <2>1, <2>3, <2>4, PageAck
  <2> QED BY <1>3, <2>2, <2>5
<1> HIDE DEF u
<1> QED BY <1>1, <1>4, <1>5, TakenCalm DEF TakesMessage

\* handleBroadcast
LEMMA BroadcastCalm ==
    ASSUME SessionInv, PagesInv, NEW k \in DOMAIN conn, NEW a \in Client,
           TakesMessage(k, a, "BROADCAST"), HandleBroadcast(a, Head(conn[k].outbox))
    PROVE  MadeInv' /\ SocketInv' /\ Keeps
<1> DEFINE p == page[a]
           m == Head(conn[k].outbox)
<1>1. PICK base \in Folded(a, <<m.edit>>) :
         page' = [page EXCEPT ![a] =
                    IF ~p.ready THEN p
                    ELSE [p EXCEPT !.base = base,
                                   !.rev = IF base = p.base THEN @ ELSE m.rev,
                                   !.typed = IF @ = "no" THEN "no" ELSE "Y"]]
  BY DEF HandleBroadcast
<1>2. PICK v : v = [p EXCEPT !.base = base,
                             !.rev = IF base = p.base THEN p.rev ELSE m.rev,
                             !.typed = IF p.typed = "no" THEN "no" ELSE "Y"]
  OBVIOUS
<1>3. PICK u : u = IF ~p.ready THEN p ELSE v
  OBVIOUS
<1>4. /\ p \in Page /\ p.rev \in Nat /\ p.sub \in Nat /\ p.base \in Seq(Revision)
      /\ p.running => p.ready
  BY PageFields DEF SessionInv, SystemInv, PagesInv, SocketInv
<1>5. page' = [page EXCEPT ![a] = u]
  BY <1>1, <1>2, <1>3, <1>4
<1>6. /\ v.base = base /\ v.rev = (IF base = p.base THEN p.rev ELSE m.rev) /\ v.sub = p.sub
      /\ v.pending = p.pending /\ v.waiting = p.waiting
      /\ v.ws = p.ws /\ v.ready = p.ready /\ v.running = p.running
  BY <1>2, <1>4 DEF Page
<1>7. u.ws = p.ws /\ u.sub = p.sub /\ (u.running => u.ready)
  BY <1>3, <1>4, <1>6
<1>8. ASSUME Calm(a)
      PROVE  PageOf(a, u, Text) /\ u.rev = m.rev /\ (u.pending => p.pending) /\ u.ready
  <2>1. p.ready /\ Link(a, p, Text, p.rev, m) /\ m.type = "BROADCAST"
    BY <1>8, HeadLink DEF TakesMessage
  <2>2. u = v /\ u.ready
    BY <1>3, <1>6, <2>1
  <2>3. PageOf(a, p, Text) /\ Text \in Seq(Revision)
    BY <1>8, HistoryFields DEF Calm, SessionInv
  <2>4. m.rev = p.rev + 1 /\ m.rev <= Len(Text) /\ Text[m.rev] = m.edit
    BY <2>1 DEF Link
  <2>5. base = p.base \o <<m.edit>>
    <3>1. <<m.edit>> = SubSeq(Text, p.rev + 1, p.rev + 1)
      <4>1. p.rev + 1 \in 1..Len(Text)
        BY <1>4, <2>3, <2>4
      <4> QED BY <2>3, <2>4, <4>1, CutOne
    <3>2. p.rev + 1 \in Nat /\ p.rev <= p.rev + 1 /\ p.rev + 1 <= Len(Text)
      BY <1>4, <2>4
    <3> QED BY <2>3, <3>1, <3>2, FoldedNext
  <2>6. base # p.base
    <3>1. Len(p.base \o <<m.edit>>) = Len(p.base) + 1
      BY <1>4
    <3> QED BY <1>4, <2>5, <3>1
  <2> HIDE DEF p, m
  <2>7. PageOf(a, v, Text)
    BY <1>4, <1>6, <2>1, <2>3, <2>5, <2>6, PageBroadcast
  <2> QED BY <1>6, <2>2, <2>6, <2>7
<1> QED BY <1>5, <1>7, <1>8, TakenCalm DEF TakesMessage

\* handleConnectAck
LEMMA ConnectAckCalm ==
    ASSUME SessionInv, PagesInv, NEW k \in DOMAIN conn, NEW a \in Client,
           TakesMessage(k, a, "CONNECT_ACK"), HandleConnectAck(a, Head(conn[k].outbox))
    PROVE  MadeInv' /\ SocketInv' /\ Keeps
<1> DEFINE p     == page[a]
           m     == Head(conn[k].outbox)
           moved == IF p.rev = 0 THEN m.text # p.base ELSE m.catchUp # <<>>
           own   == p.rev = 0 /\ p.pending /\ m.text = <<[client |-> a, sub |-> p.sub]>>
           kept  == [p EXCEPT !.typed = IF p.typed = "Y" THEN "Y" ELSE "no"]
           reset == [p EXCEPT !.typed = "no", !.pending = FALSE]
<1>1. p \in Page /\ page \in [Client -> Page]
  BY DEF SessionInv, SystemInv, PageInv
<1>2. kept = [p EXCEPT !.typed = IF @ = "Y" THEN "Y" ELSE "no"]
  BY <1>1 DEF Page
<1>3. \E base \in (IF p.rev = 0 THEN {m.text} ELSE Folded(a, m.catchUp)) :
      \E q \in (IF p.ready /\ ~own THEN {kept} ELSE {})
               \cup (IF ~p.ready \/ moved \/ ~InStep(a) THEN {reset} ELSE {}) :
         page' = [page EXCEPT ![a] = [q EXCEPT !.base = base, !.rev = m.rev,
                                               !.ready = TRUE, !.running = TRUE]]
  BY <1>2 DEF HandleConnectAck
<1>4. PICK base \in (IF p.rev = 0 THEN {m.text} ELSE Folded(a, m.catchUp)),
           q \in (IF p.ready /\ ~own THEN {kept} ELSE {})
                 \cup (IF ~p.ready \/ moved \/ ~InStep(a) THEN {reset} ELSE {}) :
         page' = [page EXCEPT ![a] = [q EXCEPT !.base = base, !.rev = m.rev,
                                               !.ready = TRUE, !.running = TRUE]]
  BY <1>3
<1>5. PICK u : u = [q EXCEPT !.base = base, !.rev = m.rev, !.ready = TRUE, !.running = TRUE]
  OBVIOUS
<1>6. page' = [page EXCEPT ![a] = u]
  BY <1>4, <1>5
<1>7. /\ kept \in Page /\ kept.ws = p.ws /\ kept.sub = p.sub /\ kept.waiting = p.waiting
      /\ kept.pending = p.pending
      /\ reset \in Page /\ reset.ws = p.ws /\ reset.sub = p.sub /\ reset.waiting = p.waiting
      /\ reset.pending = FALSE
  BY <1>1 DEF Page
<1>8. /\ q = kept \/ q = reset
      /\ q = reset => reset = kept \/ ~p.ready \/ moved \/ ~InStep(a)
  OBVIOUS
<1> HIDE DEF kept, reset
<1>9. /\ q \in Page /\ q.ws = p.ws /\ q.sub = p.sub /\ q.waiting = p.waiting
      /\ q.pending = p.pending \/ q.pending = FALSE
  BY <1>7, <1>8
<1>10. /\ u.base = base /\ u.rev = m.rev /\ u.ready = TRUE /\ u.running = TRUE
       /\ u.ws = p.ws /\ u.sub = p.sub /\ u.waiting = p.waiting /\ u.pending = q.pending
  BY <1>5, <1>9 DEF Page
<1>11. ASSUME Calm(a)
       PROVE  PageOf(a, u, Text) /\ u.rev = m.rev /\ (u.pending => p.pending) /\ u.ready
  <2>1. Link(a, p, Text, p.rev, m) /\ m.type = "CONNECT_ACK"
    BY <1>11, HeadLink DEF TakesMessage
  <2>2. /\ p.rev <= m.rev /\ m.rev <= Len(Text)
        /\ m.text = SubSeq(Text, 1, m.rev) /\ m.catchUp = SubSeq(Text, p.rev + 1, m.rev)
    BY <2>1 DEF Link
  <2>3. /\ m \in OkMessage /\ m.rev \in Nat
        /\ \E i \in DOMAIN conn[k].outbox : m = conn[k].outbox[i]
    <3>1. conn[k].outbox \in Seq(OkMessage) /\ conn[k].outbox # <<>>
      BY ConnectionFields DEF SessionInv, SystemInv, WireInv, TakesMessage
    <3>2. m \in OkMessage /\ 1 \in DOMAIN conn[k].outbox /\ m = conn[k].outbox[1]
      BY <3>1
    <3> HIDE DEF m
    <3>3. m.rev \in Nat
      BY <2>1, <3>2, MessageFields DEF OkMessage, Message
    <3> QED BY <3>2, <3>3
  <2>4. /\ PageOf(a, p, Text) /\ Text \in Seq(Revision)
        /\ p.rev \in Nat /\ p.sub \in Nat /\ p.waiting \in BOOLEAN /\ p.pending \in BOOLEAN
    BY <1>11, HistoryFields, PageFields DEF Calm, SessionInv, SystemInv
  <2>5. p.waiting => m.rev = p.rev
    <3>1. m \in AckOf(k)
      BY <2>1, <2>3 DEF AckOf
    <3>2. Joins(k, m.rev)
      BY <3>1 DEF Joins
    <3>3. m.rev \in 0..MaxLog
      <4>1. Len(Text) \in Nat /\ Len(Text) <= Len(log) /\ Len(log) \in Nat /\ Len(log) <= MaxLog
        BY HistoryFields DEF PagesInv, HistoryInv, SessionInv
      <4> QED BY <2>2, <2>3, <4>1, BoundAssumption
    <3>4. ~UnconfirmedWork(k)
      BY <1>11 DEF Calm, AtRisk, TakesMessage
    <3> QED BY <3>2, <3>3, <3>4 DEF UnconfirmedWork, TakesMessage
  <2>6. base = SubSeq(Text, 1, m.rev)
    <3>1. CASE p.rev = 0
      BY <2>2, <3>1
    <3>2. CASE p.rev # 0
      <4>1. base \in Folded(a, m.catchUp)
        BY <3>2
      <4> HIDE DEF m
      <4> QED BY <2>2, <2>3, <2>4, <4>1, FoldedNext
    <3> QED BY <3>1, <3>2
  <2>7. q.pending = p.pending
    <3>1. CASE ~p.waiting
      BY <1>9, <2>4, <3>1 DEF PageOf
    <3>2. CASE p.waiting
      <4>1. p.ready /\ InStep(a)
        BY <2>4, <3>2, HistoryFields DEF PageOf, InStep, Text, SessionInv
      <4>2. ~moved
        <5>1. m.rev = p.rev /\ p.base = SubSeq(Text, 1, p.rev)
          BY <2>4, <2>5, <3>2 DEF PageOf
        <5>2. SubSeq(Text, p.rev + 1, p.rev) = <<>>
          BY <2>4
        <5> QED BY <2>2, <5>1, <5>2
      <4> QED BY <1>7, <1>8, <4>1, <4>2
    <3> QED BY <2>4, <3>1, <3>2
  <2> HIDE DEF p, m, moved, own
  <2>8. PageOf(a, u, Text)
    BY <1>10, <2>1, <2>3, <2>4, <2>5, <2>6, <2>7, PageConnected
  <2> QED BY <1>10, <2>7, <2>8
<1> HIDE DEF moved, own
<1> QED BY <1>6, <1>10, <1>11, TakenCalm DEF TakesMessage

\* At a REDIRECT the page closes its socket.
LEMMA RedirectCalm ==
    ASSUME SessionInv, PagesInv, NEW k \in DOMAIN conn, NEW a \in Client, conn[k].client = a,
           conn[k].up, NEW msg, HandleRedirect(a, k, msg),
           UNCHANGED <<clients, proposals, log, documents, doc, callbacks>>
    PROVE  MadeInv' /\ SocketInv' /\ Keeps
<1> DEFINE u == [page[a] EXCEPT !.timers = page[a].timers + 1, !.addr = msg.to]
<1>1. page \in [Client -> Page] /\ \A c \in Client : page[c].sub \in Nat
  BY PageFields DEF SessionInv, SystemInv, PageInv
<1>2. page' = [page EXCEPT ![a] = u]
  BY <1>1 DEF HandleRedirect
<1>3. SamePage(page[a], u) /\ u.ws = page[a].ws /\ u.running = page[a].running
  BY <1>1 DEF Page, SamePage
<1> HIDE DEF u
<1>4. \A c \in Client : /\ SamePage(page[c], page'[c]) /\ page'[c].ws = page[c].ws
                        /\ page'[c].running = page[c].running
  BY <1>1, <1>2, <1>3 DEF SamePage
<1>5. DOMAIN conn' = DOMAIN conn
  BY DEF HandleRedirect
<1>6. ASSUME NEW j \in DOMAIN conn
      PROVE  /\ conn'[j].client = conn[j].client /\ conn'[j].node = conn[j].node
             /\ conn'[j].stage = conn[j].stage /\ conn'[j].inbox = conn[j].inbox
             /\ conn'[j].up => conn[j].up /\ conn'[j].event = conn[j].event /\ j # page[a].ws
             /\ j # k /\ conn'[j].up => conn'[j] = conn[j]
  <2>1. conn[j] \in Connection
    BY DEF SessionInv, SystemInv, WireInv, OkConnection
  <2>2. PICK d : d = IF j = k THEN [conn[j] EXCEPT !.outbox = Tail(@)] ELSE conn[j]
    OBVIOUS
  <2>3. conn'[j] = IF j = page[a].ws /\ d.up THEN Down(d) ELSE d
    BY <2>2 DEF HandleRedirect
  <2>4. /\ d.client = conn[j].client /\ d.node = conn[j].node /\ d.stage = conn[j].stage
        /\ d.inbox = conn[j].inbox /\ d.up = conn[j].up /\ d.event = conn[j].event
        /\ DOMAIN d = DOMAIN conn[j] /\ (j # k => d = conn[j])
    BY <2>1, <2>2 DEF Connection
  <2>5. CASE j = page[a].ws /\ d.up
    BY <2>1, <2>3, <2>4, <2>5 DEF Down, Connection
  <2>6. CASE ~(j = page[a].ws /\ d.up)
    BY <2>3, <2>4, <2>6
  <2> QED BY <2>5, <2>6
<1>7. MadeInv'
  BY <1>1, <1>4, <1>5, <1>6, StillMade DEF SessionInv, PagesInv, SamePage
<1>8. SocketInv'
  BY <1>4, <1>5, <1>6 DEF PagesInv, SocketInv, SamePage
<1>9. ASSUME NEW c \in Client, Calm(c) PROVE PageOf(c, page[c], Text)' /\ LineInv(c)'
  <2>1. \A j \in DOMAIN conn : Registered(j)' = Registered(j)
    BY <1>6 DEF Registered
  <2>2. ASSUME NEW j \in DOMAIN conn, conn[j].client = c, conn'[j].up
        PROVE  SameLine(conn[j], conn'[j])
    <3>1. j # k
      <4> SUFFICES ASSUME j = k PROVE FALSE
        OBVIOUS
      <4>1. c = a /\ page[a].ws = k
        BY <1>9, <2>2, LineOf
      <4> QED BY <1>6, <2>2, <4>1
    <3> QED BY <1>6, <2>2, <3>1 DEF SameLine
  <2> QED BY <1>4, <1>5, <1>6, <1>9, <2>1, <2>2, Undisturbed
<1> QED BY <1>7, <1>8, <1>9 DEF Keeps

\* onWsMessage
LEMMA ReceiveCalm ==
    ASSUME SessionInv, PagesInv, NEW k \in DOMAIN conn, Receive(k)
    PROVE  MadeInv' /\ SocketInv' /\ Keeps
<1> PICK a \in Client : a = conn[k].client
  BY ConnectionFields DEF SessionInv, SystemInv, WireInv
<1> DEFINE m == Head(conn[k].outbox)
<1>1. /\ conn[k].up /\ conn[k].outbox # <<>>
      /\ UNCHANGED <<clients, proposals, log, documents, doc, callbacks>>
      /\ IF m.type = "REDIRECT" THEN HandleRedirect(a, k, m)
         ELSE /\ conn' = [conn EXCEPT ![k].outbox = Tail(@)]
              /\ \/ m.type = "CONNECT_ACK" /\ HandleConnectAck(a, m)
                 \/ m.type = "ACK" /\ HandleAck(a, m)
                 \/ m.type = "BROADCAST" /\ HandleBroadcast(a, m)
  BY DEF Receive, docVars, serverVars
<1>2. CASE m.type = "REDIRECT"
  BY <1>1, <1>2, RedirectCalm
<1>3. CASE m.type = "CONNECT_ACK"
  BY <1>1, <1>3, ConnectAckCalm DEF TakesMessage
<1>4. CASE m.type = "ACK"
  BY <1>1, <1>4, AckCalm DEF TakesMessage
<1>5. CASE m.type = "BROADCAST"
  BY <1>1, <1>5, BroadcastCalm DEF TakesMessage
<1> QED BY <1>1, <1>2, <1>3, <1>4, <1>5

-----------------------------------------------------------------------------
(* Steps of the server *)

\* The line with one more message at its end.
LEMMA LineSent ==
    ASSUME NEW c, NEW p, NEW t, NEW S, NEW k, NEW l, NEW cb, NEW rest, NEW d, NEW m,
           k.outbox \in Seq(S), k.stage = "serving", l.stage = "serving",
           l.outbox = Append(k.outbox, m), Line(c, p, t, k, cb, d),
           m.type # "REDIRECT" /\ NoRedirect(k.outbox, Len(k.outbox)) =>
              Link(c, p, t, After(p.rev, k.outbox), m) /\ Due(c, p, t, m.rev, rest, d)
    PROVE  Line(c, p, t, l, rest, d)
<1> DEFINE q == k.outbox
           r == Append(q, m)
<1>1. Greeted(p, q) /\ Queue(c, p, t, q)
  BY DEF Line, Streaming
<1>2. /\ Queue(c, p, t, r) /\ After(p.rev, r) = m.rev
      /\ NoRedirect(r, Len(r)) => m.type # "REDIRECT" /\ NoRedirect(q, Len(q))
  BY <1>1, QueueSent
<1>3. Greeted(p, r)
  <2>1. \A x \in Seq(S) : Append(x, m) # <<>> /\ (x # <<>> => Append(x, m)[1] = x[1])
    OBVIOUS
  <2>2. r # <<>> /\ (q # <<>> => r[1] = q[1])
    BY <2>1
  <2> QED BY <1>1, <2>2 DEF Greeted
<1>4. Streaming(c, p, t, l, rest, d)
  <2> HIDE DEF r
  <2>1. l.outbox = r
    BY DEF r
  <2> QED BY <1>2, <1>3, <2>1 DEF Streaming
<1> QED BY <1>4 DEF Line, Connecting

\* A step of one readPump: connection k of client a becomes d.
Handled(k, a, d) ==
    /\ conn[k].client = a /\ conn' = [conn EXCEPT ![k] = d]
    /\ d.client = a /\ d.node = conn[k].node /\ d.up = conn[k].up /\ d.event = conn[k].event
    /\ d.up => d.stage \notin {"removed", "closed"}
    /\ UNCHANGED <<page, log, documents, doc, callbacks>>
    /\ \A n \in Node : \A c \in Client : c # a => clients'[n][c] = clients[n][c]
    /\ Calm(a) /\ ~AtRisk(a)' =>
          /\ \A j \in DOMAIN conn : j # k /\ conn[j].client = a /\ Registered(j) =>
                clients'[conn[j].node][a] = clients[conn[j].node][a]
          /\ d.stage \in Serving => clients'[d.node][a] = k
          /\ d.up => Line(a, page[a], Text, d, callbacks[d.node], doc[d.node])

\* Pages keep their line through it.
LEMMA HandlerCalm ==
    ASSUME SessionInv, PagesInv, NEW k \in DOMAIN conn, NEW a \in Client, NEW d,
           Handled(k, a, d)
    PROVE  SocketInv' /\ Keeps
<1> USE DEF Handled
<1>1. SocketInv'
  <2>1. \A c \in Client : /\ page'[c].ws \in {page[c].ws, 0}
                          /\ page'[c].running => page'[c].ready
    BY DEF PagesInv, SocketInv
  <2>2. d.up => ~d.event /\ d.stage \notin {"removed", "closed"}
    BY DEF PagesInv, SocketInv
  <2>3. SocketInv
    BY DEF PagesInv
  <2> QED BY <2>1, <2>2, <2>3, OneSocket
<1>2. ASSUME NEW c \in Client, c # a, Calm(c) PROVE PageOf(c, page[c], Text)' /\ LineInv(c)'
  <2>1. page'[c] = page[c] /\ d.client = conn[k].client /\ c # conn[k].client
    BY <1>2
  <2> QED BY <1>2, <2>1, OthersCalm
<1>3. ASSUME Calm(a), ~AtRisk(a)' PROVE PageOf(a, page[a], Text)' /\ LineInv(a)'
  <2>1. Text' = Text
    BY SameHistory
  <2>2. PageOf(a, page'[a], Text')
    BY <1>3, <2>1 DEF Calm
  <2>3. /\ DOMAIN conn' = DOMAIN conn /\ conn'[k] = d
        /\ \A j \in DOMAIN conn : j # k => conn'[j] = conn[j]
    OBVIOUS
  <2>4. ASSUME NEW j \in DOMAIN conn, conn[j].client = a, j # k
        PROVE  /\ Registered(j)' => clients'[conn'[j].node][a] = j
               /\ conn'[j].up =>
                     /\ page'[a].ws = j
                     /\ Line(a, page'[a], Text', conn'[j], callbacks'[conn'[j].node],
                             doc'[conn'[j].node])
    <3>1. conn'[j] = conn[j] /\ Registered(j)' = Registered(j)
      BY <2>3, <2>4 DEF Registered
    <3>2. Registered(j) => clients'[conn[j].node][a] = j
      BY <1>3, <2>4 DEF Calm, LineInv
    <3> QED BY <1>3, <2>1, <2>4, <3>1, <3>2 DEF Calm, LineInv
  <2>5. /\ Registered(k)' => clients'[conn'[k].node][a] = k
        /\ conn'[k].up =>
              /\ page'[a].ws = k
              /\ Line(a, page'[a], Text', conn'[k], callbacks'[conn'[k].node],
                      doc'[conn'[k].node])
    <3>1. Registered(k)' => clients'[d.node][a] = k
      BY <1>3, <2>3 DEF Registered, Serving
    <3>2. d.up => page[a].ws = k
      BY <1>3 DEF Calm, LineInv
    <3> QED BY <1>3, <2>1, <2>3, <3>1, <3>2
  <2> QED BY <2>2, <2>3, <2>4, <2>5 DEF LineInv
<1> QED BY <1>1, <1>2, <1>3 DEF Keeps

\* An older connection of the same client at the node would be a risk.
LEMMA RegisterCalm ==
    ASSUME SessionInv, PagesInv, NEW k \in DOMAIN conn, Register(k)
    PROVE  MadeInv' /\ SocketInv' /\ Keeps
<1> PICK a \in Client, n \in Node : a = conn[k].client /\ n = conn[k].node
  BY ConnectionFields DEF SessionInv, SystemInv, WireInv
<1> DEFINE d == [conn[k] EXCEPT !.stage = "registered"]
<1>1. /\ conn[k].stage = "new" /\ conn' = [conn EXCEPT ![k] = d]
      /\ clients' = [clients EXCEPT ![n][a] = k]
      /\ UNCHANGED <<page, proposals, log, documents, doc, callbacks>>
  BY DEF Register, docVars
<1>2. conn[k] \in Connection /\ clients \in [Node -> [Client -> Nat]]
  BY DEF SessionInv, SystemInv, WireInv, OkConnection, ServerInv
<1>3. /\ d.client = a /\ d.node = n /\ d.up = conn[k].up /\ d.event = conn[k].event
      /\ d.stage = "registered" /\ d.inbox = conn[k].inbox
      /\ d.outbox = conn[k].outbox /\ d.known = conn[k].known
  BY <1>2 DEF Connection
<1> HIDE DEF d
<1>4. /\ clients'[n][a] = k
      /\ \A m \in Node, c \in Client : m # n \/ c # a => clients'[m][c] = clients[m][c]
  BY <1>1, <1>2
<1>5. /\ DOMAIN conn' = DOMAIN conn /\ conn'[k] = d
      /\ \A j \in DOMAIN conn : j # k => conn'[j] = conn[j]
  BY <1>1
<1>6. ASSUME Calm(a), ~AtRisk(a)'
      PROVE  /\ \A j \in DOMAIN conn : j # k /\ conn[j].client = a /\ Registered(j) =>
                   clients'[conn[j].node][a] = clients[conn[j].node][a]
             /\ d.up => Line(a, page[a], Text, d, callbacks[d.node], doc[d.node])
  <2>1. ASSUME NEW j \in DOMAIN conn, j # k, conn[j].client = a, Registered(j)
        PROVE  conn[j].node # n /\ conn[j].node \in Node
    <3>1. ~TwoConnections(j, k)'
      BY <1>3, <1>5, <1>6 DEF AtRisk
    <3>2. Registered(j)' /\ Registered(k)' /\ conn'[j].client = a /\ conn'[j].node = conn[j].node
      BY <1>3, <1>5, <2>1 DEF Registered, Connecting
    <3>3. conn[j].node # n
      BY <1>3, <1>5, <2>1, <3>1, <3>2 DEF TwoConnections
    <3> QED BY <3>3, ConnectionFields DEF SessionInv, SystemInv, WireInv
  <2>2. ASSUME d.up PROVE Line(a, page[a], Text, d, callbacks[d.node], doc[d.node])
    <3>1. Reading(page[a], conn[k], doc[n])
      BY <1>1, <1>3, <1>6, <2>2, LineOf DEF Line
    <3> QED BY <1>3, <3>1 DEF Line, Reading
  <2> QED BY <1>4, <2>1, <2>2
<1>7. SocketInv' /\ Keeps
  <2>1. /\ conn[k].client = a /\ d.node = conn[k].node
        /\ d.up => d.stage \notin {"removed", "closed"}
        /\ \A m \in Node : \A c \in Client : c # a => clients'[m][c] = clients[m][c]
        /\ conn' = [conn EXCEPT ![k] = d] /\ d.client = a
        /\ d.up = conn[k].up /\ d.event = conn[k].event
        /\ UNCHANGED <<page, log, documents, doc, callbacks>>
    BY <1>1, <1>3, <1>4
  <2>2. Calm(a) /\ ~AtRisk(a)' =>
           /\ \A j \in DOMAIN conn : j # k /\ conn[j].client = a /\ Registered(j) =>
                 clients'[conn[j].node][a] = clients[conn[j].node][a]
           /\ d.stage \in Serving => clients'[d.node][a] = k
           /\ d.up => Line(a, page[a], Text, d, callbacks[d.node], doc[d.node])
    BY <1>3, <1>4, <1>6
  <2>3. Handled(k, a, d)
    BY <2>1, <2>2 DEF Handled
  <2> QED BY <2>3, HandlerCalm
<1>8. MadeInv'
  BY <1>1, <1>3, OneMade DEF PagesInv
<1> QED BY <1>7, <1>8

\* The fields of a connection that the steps of its readPump use.
LEMMA Handler ==
    ASSUME SessionInv, NEW k \in DOMAIN conn
    PROVE  /\ conn[k].client \in Client /\ conn[k].node \in Node /\ conn[k] \in Connection
           /\ conn[k].outbox \in Seq(Message) /\ conn[k].inbox \in Seq(RaftLogEntry)
           /\ conn[k].known \in Nat
  BY ConnectionFields DEF SessionInv, SystemInv, WireInv, OkConnection, Connection

\* A step of a readPump that stays registered.
Advanced(k, a, d) ==
    /\ conn[k].client = a /\ conn' = [conn EXCEPT ![k] = d]
    /\ d.client = a /\ d.node = conn[k].node /\ d.up = conn[k].up /\ d.event = conn[k].event
    /\ conn[k].stage \in Serving /\ d.stage \in Serving
    /\ UNCHANGED <<page, log, documents, doc, callbacks, clients>>
    /\ conn[k].up /\ Calm(a) /\ ~AtRisk(a)' =>
          Line(a, page[a], Text, d, callbacks[d.node], doc[d.node])

\* Its place in the registry is still its own.
LEMMA AdvancedCalm ==
    ASSUME SessionInv, PagesInv, NEW k \in DOMAIN conn, NEW a \in Client, NEW d,
           Advanced(k, a, d)
    PROVE  SocketInv' /\ Keeps
<1>1. d.stage \notin {"removed", "closed"}
  BY DEF Advanced, Serving, Connecting
<1>2. Calm(a) => clients[conn[k].node][a] = k
  BY RegisteredCalm DEF SessionInv, Registered, Serving, Advanced
<1>3. Handled(k, a, d)
  BY <1>1, <1>2 DEF Handled, Advanced
<1> QED BY <1>3, HandlerCalm

\* A message that was not dropped.
LEMMA SentCalm ==
    ASSUME SessionInv, NEW k \in DOMAIN conn, NEW a \in Client, conn[k].client = a, conn[k].up,
           ~AtRisk(a)', missed' = missed \cup Dropped(k), NEW m
    PROVE  Sent(k, m) = Append(conn[k].outbox, m)
  BY DEF AtRisk, Dropped, Sent

\* Nothing is said of what follows a REDIRECT.
LEMMA LineRedirected ==
    ASSUME NEW c, NEW p, NEW t, NEW l, NEW cb, NEW d, NEW m, l.stage = "serving",
           l.outbox = Append(<<>>, m), m.type = "REDIRECT"
    PROVE  Line(c, p, t, l, cb, d)
<1>1. l.outbox # <<>> /\ DOMAIN l.outbox = {1} /\ Len(l.outbox) = 1 /\ l.outbox[1] = m
  OBVIOUS
<1>2. ~NoRedirect(l.outbox, 1)
  BY <1>1 DEF NoRedirect
<1> QED BY <1>1, <1>2 DEF Line, Connecting, Streaming, Greeted, Queue

\* The leader check of handleConnect.
LEMMA RedirectConnectCalm ==
    ASSUME SessionInv, PagesInv, NEW k \in DOMAIN conn, RedirectConnect(k)
    PROVE  MadeInv' /\ SocketInv' /\ Keeps
<1> PICK a \in Client, n \in Node : a = conn[k].client /\ n = conn[k].node
  BY Handler
<1> PICK m : m = [type |-> "REDIRECT", to |-> leaderID[n]]
  OBVIOUS
<1>1. m.type = "REDIRECT"
  OBVIOUS
<1> DEFINE d == [conn[k] EXCEPT !.stage = "serving", !.known = 0, !.outbox = Sent(k, m)]
<1>2. /\ conn[k].stage = "registered" /\ conn' = [conn EXCEPT ![k] = d]
      /\ missed' = missed \cup Dropped(k)
      /\ UNCHANGED <<page, proposals, log, documents, doc, callbacks, clients>>
  BY DEF RedirectConnect, docVars, serverVars
<1>3. /\ d.client = a /\ d.node = n /\ d.up = conn[k].up /\ d.event = conn[k].event
      /\ d.stage = "serving" /\ d.inbox = conn[k].inbox /\ d.outbox = Sent(k, m)
  BY Handler DEF Connection
<1> HIDE DEF d
<1>4. ASSUME conn[k].up, Calm(a), ~AtRisk(a)'
      PROVE  Line(a, page[a], Text, d, callbacks[n], doc[n])
  <2>1. conn[k].outbox = <<>>
    BY <1>2, <1>4, LineOf DEF Line, Reading, Connecting
  <2>2. d.outbox = Append(<<>>, m)
    BY <1>2, <1>3, <1>4, <2>1, SentCalm
  <2> QED BY <1>1, <1>3, <2>2, LineRedirected
<1>5. Advanced(k, a, d)
  BY <1>2, <1>3, <1>4 DEF Advanced, Serving, Connecting
<1>6. MadeInv'
  BY <1>2, <1>3, OneMade DEF PagesInv
<1> QED BY <1>5, <1>6, AdvancedCalm

\* handleConnect reads what the node has.
LEMMA ReadCalm ==
    ASSUME SessionInv, PagesInv, NEW k \in DOMAIN conn,
           ReadRevisions(k) \/ ReadText(k) \/ ReadRev(k)
    PROVE  MadeInv' /\ SocketInv' /\ Keeps
<1> PICK a \in Client, n \in Node : a = conn[k].client /\ n = conn[k].node
  BY Handler
<1>1. /\ conn[k].stage \in Connecting /\ conn'[k].stage \in Connecting
      /\ conn' = [conn EXCEPT ![k] = conn'[k]]
      /\ conn'[k].client = a /\ conn'[k].node = n /\ conn'[k].up = conn[k].up
      /\ conn'[k].event = conn[k].event /\ conn'[k].inbox = conn[k].inbox
      /\ UNCHANGED <<page, proposals, log, documents, doc, callbacks, clients>>
      /\ Reading(page[a], conn[k], doc[n]) => Reading(page[a], conn'[k], doc[n])
  <2>1. conn[k] \in Connection /\ conn \in Seq(Connection)
    BY Handler DEF SessionInv, SystemInv, WireInv, OkConnection
  <2>2. CASE ReadRevisions(k)
    BY <2>1, <2>2 DEF ReadRevisions, docVars, serverVars, Connecting, Reading, Connection,
                      RevisionsSince
  <2>3. CASE ReadText(k)
    BY <2>1, <2>3 DEF ReadText, docVars, serverVars, Connecting, Reading, Connection
  <2>4. CASE ReadRev(k)
    BY <2>1, <2>4 DEF ReadRev, docVars, serverVars, Connecting, Reading, Connection
  <2> QED BY <2>2, <2>3, <2>4
<1> PICK d : d = conn'[k]
  OBVIOUS
<1>2. ASSUME conn[k].up, Calm(a) PROVE Line(a, page[a], Text, d, callbacks[n], doc[n])
  <2>1. Reading(page[a], conn[k], doc[n])
    BY <1>1, <1>2, LineOf DEF Line
  <2> QED BY <1>1, <2>1 DEF Line, Connecting
<1>3. Advanced(k, a, d)
  BY <1>1, <1>2 DEF Advanced, Serving
<1>4. MadeInv'
  BY <1>1, OneMade DEF PagesInv
<1> QED BY <1>3, <1>4, AdvancedCalm

\* What handleConnect has read takes the page to the head of the node.
LEMMA ConnectLink ==
    ASSUME SessionInv, PagesInv, NEW k \in DOMAIN conn, NEW a \in Client, NEW n \in Node,
           conn[k].client = a, conn[k].node = n, conn[k].stage = "hasRev", conn[k].up, Calm(a),
           NEW m, m.type = "CONNECT_ACK", m.rev = conn[k].rev, m.text = conn[k].text,
           m.catchUp = conn[k].catchUp
    PROVE  /\ conn[k].outbox = <<>> /\ callbacks[n] = <<>> /\ m.rev = HeadRev(doc[n])
           /\ Link(a, page[a], Text, page[a].rev, m)
<1> DEFINE p == page[a]
           h == HeadRev(doc[n])
           v == doc[n].revisions
<1>1. Registered(k) /\ conn[k].stage \in Connecting
  BY DEF Registered, Connecting
<1>2. /\ conn[k].outbox = <<>> /\ conn[k].known = p.rev
      /\ m.catchUp = SubSeq(v, p.rev + 1, h) /\ m.text = v /\ m.rev = h
  BY LineOf DEF Line, Reading, Connecting
<1>3. ~CommitWhileConnecting(k) /\ ~NodeBehind(k)
  BY DEF Calm, AtRisk
<1>4. callbacks[n] = <<>>
  BY <1>1, <1>3 DEF CommitWhileConnecting
<1>5. /\ ~(p.rev > h)
      /\ ~p.waiting => UnderWay(a, n) = {}
  BY <1>1, <1>2, <1>3 DEF NodeBehind
<1>6. ~skipped[n] /\ DocInv /\ HistoryInv
  BY <1>1, RegisteredCalm DEF SessionInv, PagesInv
<1>7. /\ v \in Seq(Revision) /\ h \in Nat /\ h <= Len(Text) /\ h = Len(v) /\ Begins(v, Text)
      /\ \A j \in DOMAIN Text : j > h =>
            \E l \in (lastApplied[n] + 1)..Len(log) : Text[j] = EditOf(log[l])
  BY <1>6, NodeText
<1>8. p.rev \in Nat /\ Text \in Seq(Revision)
  BY <1>6, PageFields, HistoryFields DEF SessionInv, SystemInv
<1>9. h <= Len(v) /\ \A x \in Nat \ {0} : SubSeq(v, x, h) = SubSeq(Text, x, h)
  <2>1. h <= Len(v)
    BY <1>7
  <2> HIDE DEF h, v
  <2> QED BY <1>7, <1>8, <2>1, CutLonger, Zenon
<1>10. m.catchUp = SubSeq(Text, p.rev + 1, h) /\ m.text = SubSeq(Text, 1, h)
  <2>1. p.rev + 1 \in Nat \ {0} /\ 1 \in Nat \ {0}
    BY <1>8
  <2>2. SubSeq(v, p.rev + 1, h) = SubSeq(Text, p.rev + 1, h) /\ SubSeq(v, 1, h) = SubSeq(Text, 1, h)
    BY <1>9, <2>1, Zenon
  <2>3. \A s \in Seq(Revision) : SubSeq(s, 1, Len(s)) = s
    OBVIOUS
  <2>4. SubSeq(v, 1, h) = v
    BY <1>7, <2>3
  <2> QED BY <1>2, <2>2, <2>4
<1>11. ASSUME ~p.ready, NEW j \in DOMAIN Text, Text[j].client = a PROVE j <= h
  <2> SUFFICES ASSUME j > h PROVE FALSE
    BY <1>7, <1>8
  <2>1. PICK l \in (lastApplied[n] + 1)..Len(log) : Text[j] = EditOf(log[l])
    BY <1>7
  <2>2. UnderWay(a, n) = {}
    BY <1>5, <1>11 DEF Calm, PageOf
  <2>3. log[l].client = a
    BY <1>11, <2>1 DEF EditOf
  <2> QED BY <2>1, <2>2, <2>3 DEF UnderWay
<1> QED
  <2>1. p.rev <= h
    BY <1>5, <1>7, <1>8
  <2>2. Link(a, p, Text, p.rev, m)
    BY <1>2, <1>7, <1>10, <1>11, <2>1 DEF Link
  <2> QED BY <1>2, <1>4, <2>2

\* The line begins with CONNECT_ACK.
LEMMA LineGreeted ==
    ASSUME NEW c, NEW p, NEW t, NEW l, NEW d, NEW m, l.stage = "serving",
           l.outbox = Append(<<>>, m), m.type = "CONNECT_ACK", m.rev = HeadRev(d),
           Link(c, p, t, p.rev, m)
    PROVE  Line(c, p, t, l, <<>>, d)
<1>1. l.outbox # <<>> /\ DOMAIN l.outbox = {1} /\ Len(l.outbox) = 1 /\ l.outbox[1] = m
  OBVIOUS
<1>2. Queue(c, p, t, l.outbox)
  BY <1>1 DEF Queue, Before
<1>3. After(p.rev, l.outbox) = HeadRev(d)
  BY <1>1 DEF After
<1>4. Due(c, p, t, After(p.rev, l.outbox), <<>>, d)
  BY <1>3 DEF Due, After
<1> QED BY <1>1, <1>2, <1>4 DEF Line, Connecting, Streaming, Greeted

\* The end of handleConnect.
LEMMA SendConnectAckCalm ==
    ASSUME SessionInv, PagesInv, NEW k \in DOMAIN conn, SendConnectAck(k)
    PROVE  MadeInv' /\ SocketInv' /\ Keeps
<1> PICK a \in Client, n \in Node : a = conn[k].client /\ n = conn[k].node
  BY Handler
<1> PICK m : m = [type |-> "CONNECT_ACK", text |-> conn[k].text, rev |-> conn[k].rev,
                  catchUp |-> conn[k].catchUp]
  OBVIOUS
<1>1. /\ m.type = "CONNECT_ACK" /\ m.rev = conn[k].rev /\ m.text = conn[k].text
      /\ m.catchUp = conn[k].catchUp
  OBVIOUS
<1> DEFINE d == [conn[k] EXCEPT !.stage = "serving", !.known = 0, !.catchUp = <<>>,
                                !.text = <<>>, !.rev = 0, !.outbox = Sent(k, m)]
<1>2. /\ conn[k].stage = "hasRev" /\ conn' = [conn EXCEPT ![k] = d]
      /\ missed' = missed \cup Dropped(k)
      /\ UNCHANGED <<page, proposals, log, documents, doc, callbacks, clients>>
  BY DEF SendConnectAck, docVars, serverVars
<1>3. /\ d.client = a /\ d.node = n /\ d.up = conn[k].up /\ d.event = conn[k].event
      /\ d.stage = "serving" /\ d.inbox = conn[k].inbox /\ d.outbox = Sent(k, m)
  BY Handler DEF Connection
<1> HIDE DEF d
<1>4. ASSUME conn[k].up, Calm(a), ~AtRisk(a)'
      PROVE  Line(a, page[a], Text, d, callbacks[n], doc[n])
  <2>1. /\ conn[k].outbox = <<>> /\ callbacks[n] = <<>> /\ m.rev = HeadRev(doc[n])
        /\ Link(a, page[a], Text, page[a].rev, m)
    BY <1>1, <1>2, <1>4, ConnectLink
  <2>2. d.outbox = Append(<<>>, m)
    BY <1>2, <1>3, <1>4, <2>1, SentCalm
  <2>3. Line(a, page[a], Text, d, <<>>, doc[n])
    BY <1>1, <1>3, <2>1, <2>2, LineGreeted
  <2> QED BY <2>1, <2>3
<1>5. Advanced(k, a, d)
  BY <1>2, <1>3, <1>4 DEF Advanced, Serving, Connecting
<1>6. MadeInv'
  BY <1>2, <1>3, OneMade DEF PagesInv
<1> QED BY <1>5, <1>6, AdvancedCalm

\* readPump takes an entry, and may propose it.
LEMMA TakenMade ==
    ASSUME SessionInv, PagesInv, NEW k \in DOMAIN conn, NEW d, conn' = [conn EXCEPT ![k] = d],
           conn[k].inbox # <<>>, d.inbox = Tail(conn[k].inbox), UNCHANGED <<log, page>>,
           NEW n \in Node,
           \/ proposals' = proposals
           \/ proposals' = [proposals EXCEPT ![n] = Append(proposals[n], Head(conn[k].inbox))]
    PROVE  MadeInv'
<1> PICK q \in Seq(RaftLogEntry) : q = conn[k].inbox
  BY Handler
<1>1. /\ q # <<>> /\ Head(q) = q[1] /\ 1 \in DOMAIN q
      /\ \A i \in DOMAIN Tail(q) : i + 1 \in DOMAIN q /\ Tail(q)[i] = q[i + 1]
  OBVIOUS
<1>2. \A e : Made(e)' = Made(e)
  BY DEF Made
<1>3. \A i \in DOMAIN q : Made(q[i])
  BY DEF PagesInv, MadeInv
<1>4. \A j \in DOMAIN conn' : \A i \in DOMAIN conn'[j].inbox : Made(conn'[j].inbox[i])
  <2>1. \A i \in DOMAIN Tail(q) : Made(Tail(q)[i])
    BY <1>1, <1>3
  <2>2. /\ DOMAIN conn' = DOMAIN conn /\ conn'[k] = d
        /\ \A j \in DOMAIN conn : j # k => conn'[j] = conn[j]
    OBVIOUS
  <2>3. conn'[k].inbox = Tail(q)
    BY <2>2
  <2>4. \A j \in DOMAIN conn : \A i \in DOMAIN conn[j].inbox : Made(conn[j].inbox[i])
    BY DEF PagesInv, MadeInv
  <2> QED BY <2>1, <2>2, <2>3, <2>4
<1>5. \A m \in Node : \A i \in DOMAIN proposals'[m] : Made(proposals'[m][i])
  <2>1. \A m \in Node : \A i \in DOMAIN proposals[m] : Made(proposals[m][i])
    BY DEF PagesInv, MadeInv
  <2>2. CASE proposals' = proposals
    BY <2>1, <2>2
  <2>3. CASE proposals' = [proposals EXCEPT ![n] = Append(proposals[n], Head(q))]
    <3>1. proposals \in [Node -> Seq(OkEntry)]
      BY DEF SessionInv, SystemInv, ServerInv
    <3> PICK r \in Seq(OkEntry) : r = proposals[n]
      BY <3>1
    <3> PICK e : e = Head(q)
      OBVIOUS
    <3>2. \A i \in DOMAIN Append(r, e) : \/ i \in DOMAIN r /\ Append(r, e)[i] = r[i]
                                        \/ Append(r, e)[i] = e
      OBVIOUS
    <3>3. Made(e)
      BY <1>1, <1>3
    <3>4. \A i \in DOMAIN Append(r, e) : Made(Append(r, e)[i])
      BY <2>1, <3>2, <3>3
    <3>5. proposals'[n] = Append(r, e) /\ \A m \in Node : m # n => proposals'[m] = proposals[m]
      BY <2>3, <3>1
    <3> QED BY <2>1, <3>4, <3>5
  <2> QED BY <2>2, <2>3
<1>6. \A i \in DOMAIN log' : Made(log'[i])
  BY DEF PagesInv, MadeInv
<1> QED BY <1>2, <1>4, <1>5, <1>6 DEF MadeInv

\* A submission to a follower.
LEMMA RedirectSubmitCalm ==
    ASSUME SessionInv, PagesInv, NEW k \in DOMAIN conn, HandleSubmit(k), RedirectSubmit(k)
    PROVE  MadeInv' /\ SocketInv' /\ Keeps
<1> PICK a \in Client, n \in Node : a = conn[k].client /\ n = conn[k].node
  BY Handler
<1>0. PICK m : m = [type |-> "REDIRECT", to |-> WsAddr(n)]
  OBVIOUS
<1>1. m.type = "REDIRECT"
  BY <1>0
<1> DEFINE d == [conn[k] EXCEPT !.inbox = Tail(conn[k].inbox), !.outbox = Sent(k, m)]
<1>2. /\ conn[k].stage = "serving" /\ conn[k].inbox # <<>>
      /\ UNCHANGED <<page, log, documents, doc, callbacks, clients>>
  BY DEF HandleSubmit, docVars
<1>3. /\ conn' = [conn EXCEPT ![k] = d] /\ UNCHANGED proposals
      /\ missed' = missed \cup Dropped(k)
  BY <1>0 DEF RedirectSubmit
<1>4. /\ d.client = a /\ d.node = n /\ d.up = conn[k].up /\ d.event = conn[k].event
      /\ d.stage = "serving" /\ d.inbox = Tail(conn[k].inbox) /\ d.outbox = Sent(k, m)
  BY <1>2, Handler DEF Connection
<1> HIDE DEF d
<1>5. ASSUME conn[k].up, Calm(a), ~AtRisk(a)'
      PROVE  Line(a, page[a], Text, d, callbacks[n], doc[n])
  <2>1. d.outbox = Append(conn[k].outbox, m) /\ conn[k].outbox \in Seq(Message)
    BY <1>3, <1>4, <1>5, SentCalm, Handler
  <2>2. Line(a, page[a], Text, conn[k], callbacks[n], doc[n])
    BY <1>5, LineOf
  <2>3. m.type # "REDIRECT" /\ NoRedirect(conn[k].outbox, Len(conn[k].outbox)) =>
           /\ Link(a, page[a], Text, After(page[a].rev, conn[k].outbox), m)
           /\ Due(a, page[a], Text, m.rev, callbacks[n], doc[n])
    BY <1>1
  <2> QED BY <1>2, <1>4, <2>1, <2>2, <2>3, LineSent
<1>6. Advanced(k, a, d)
  BY <1>2, <1>3, <1>4, <1>5 DEF Advanced, Serving
<1>7. MadeInv'
  BY <1>2, <1>3, <1>4, TakenMade
<1> QED BY <1>6, <1>7, AdvancedCalm

\* A submission to the leader.
LEMMA TakeSubmitCalm ==
    ASSUME SessionInv, PagesInv, NEW k \in DOMAIN conn, HandleSubmit(k),
           RefuseSubmit(k) \/ Propose(k)
    PROVE  MadeInv' /\ SocketInv' /\ Keeps
<1> PICK a \in Client, n \in Node : a = conn[k].client /\ n = conn[k].node
  BY Handler
<1> DEFINE d == [conn[k] EXCEPT !.inbox = Tail(conn[k].inbox)]
<1>1. /\ conn[k].stage = "serving" /\ conn[k].inbox # <<>>
      /\ UNCHANGED <<page, log, documents, doc, callbacks, clients>>
  BY DEF HandleSubmit, docVars
<1>2. /\ conn' = [conn EXCEPT ![k] = d]
      /\ \/ proposals' = proposals
         \/ proposals' = [proposals EXCEPT ![n] = Append(proposals[n], Head(conn[k].inbox))]
  BY DEF RefuseSubmit, Propose
<1>3. /\ d.client = a /\ d.node = n /\ d.up = conn[k].up /\ d.event = conn[k].event
      /\ d.stage = "serving" /\ d.inbox = Tail(conn[k].inbox) /\ SameLine(conn[k], d)
  BY <1>1, Handler DEF Connection, SameLine
<1> HIDE DEF d
<1>4. ASSUME conn[k].up, Calm(a), ~AtRisk(a)'
      PROVE  Line(a, page[a], Text, d, callbacks[n], doc[n])
  <2>1. Line(a, page[a], Text, conn[k], callbacks[n], doc[n])
    BY <1>4, LineOf
  <2> QED BY <1>3, <2>1, LineKept
<1>5. Advanced(k, a, d)
  BY <1>1, <1>2, <1>3, <1>4 DEF Advanced, Serving
<1>6. MadeInv'
  BY <1>1, <1>2, <1>3, TakenMade
<1> QED BY <1>5, <1>6, AdvancedCalm

\* handleSubmit
LEMMA HandleSubmitCalm ==
    ASSUME SessionInv, PagesInv, NEW k \in DOMAIN conn, HandleSubmit(k)
    PROVE  MadeInv' /\ SocketInv' /\ Keeps
  BY RedirectSubmitCalm, TakeSubmitCalm DEF HandleSubmit

\* The connection is down, and no other of the client is registered here.
LEMMA RemoveClientCalm ==
    ASSUME SessionInv, PagesInv, NEW k \in DOMAIN conn, RemoveClient(k)
    PROVE  MadeInv' /\ SocketInv' /\ Keeps
<1> PICK a \in Client, n \in Node : a = conn[k].client /\ n = conn[k].node
  BY Handler
<1> DEFINE d == [conn[k] EXCEPT !.stage = "removed", !.inbox = <<>>]
<1>1. /\ conn[k].stage = "serving" /\ ~conn[k].up /\ conn' = [conn EXCEPT ![k] = d]
      /\ clients' = [clients EXCEPT ![n][a] = 0]
      /\ UNCHANGED <<page, proposals, log, documents, doc, callbacks>>
  BY DEF RemoveClient, docVars
<1>2. /\ d.client = a /\ d.node = n /\ d.up = conn[k].up /\ d.event = conn[k].event
      /\ d.stage = "removed" /\ d.inbox = <<>>
  BY Handler DEF Connection
<1> HIDE DEF d
<1>3. \A m \in Node, c \in Client : m # n \/ c # a => clients'[m][c] = clients[m][c]
  BY <1>1 DEF SessionInv, SystemInv, ServerInv
<1>4. ASSUME Calm(a), NEW j \in DOMAIN conn, j # k, conn[j].client = a, Registered(j)
      PROVE  clients'[conn[j].node][a] = clients[conn[j].node][a]
  <2>1. ~TwoConnections(j, k)
    BY <1>4 DEF Calm, AtRisk
  <2>2. conn[j].node # n
    BY <1>1, <1>4, <2>1 DEF TwoConnections, Registered
  <2> QED BY <1>3, <2>2, Handler
<1>5. d.stage \notin Serving /\ ~d.up
  BY <1>1, <1>2 DEF Serving, Connecting
<1>6. Handled(k, a, d)
  BY <1>1, <1>2, <1>3, <1>4, <1>5 DEF Handled
<1>7. MadeInv'
  BY <1>1, <1>2, OneMade DEF PagesInv
<1> QED BY <1>6, <1>7, HandlerCalm

\* The connection is down or was never registered.
LEMMA CloseChannelCalm ==
    ASSUME SessionInv, PagesInv, NEW k \in DOMAIN conn, CloseChannel(k)
    PROVE  MadeInv' /\ SocketInv' /\ Keeps
<1> PICK a \in Client, n \in Node : a = conn[k].client /\ n = conn[k].node
  BY Handler
<1> DEFINE d == [conn[k] EXCEPT !.stage = "closed", !.known = 0, !.inbox = <<>>]
<1>1. /\ ~conn[k].up /\ conn' = [conn EXCEPT ![k] = d]
      /\ UNCHANGED <<page, proposals, log, documents, doc, callbacks, clients>>
  BY DEF CloseChannel, docVars, serverVars, PagesInv, SocketInv
<1>2. /\ d.client = a /\ d.node = n /\ d.up = conn[k].up /\ d.event = conn[k].event
      /\ d.stage = "closed" /\ d.inbox = <<>>
  BY Handler DEF Connection
<1> HIDE DEF d
<1>3. d.stage \notin Serving /\ ~d.up
  BY <1>1, <1>2 DEF Serving, Connecting
<1>4. Handled(k, a, d)
  BY <1>1, <1>2, <1>3 DEF Handled
<1>5. MadeInv'
  BY <1>1, <1>2, OneMade DEF PagesInv
<1> QED BY <1>4, <1>5, HandlerCalm

-----------------------------------------------------------------------------
(* onCommit *)

\* What onCommit sends is the next message of the line.
LEMMA NewsLink ==
    ASSUME NEW c, NEW p, NEW t, NEW a, NEW r, NEW m, Report(c, p, t, a, r),
           News(c, r) = <<m>>
    PROVE  m.type # "REDIRECT" /\ m.rev = r.rev /\ Link(c, p, t, a, m)
<1>1. CASE c = r.client
  <2>1. m = [type |-> "ACK", rev |-> r.rev]
    BY <1>1 DEF News
  <2>2. m.type = "ACK" /\ m.rev = r.rev
    BY <2>1
  <2> QED BY <1>1, <2>2 DEF Report, Link
<1>2. CASE c # r.client
  <2>1. ~r.dup /\ m = [type |-> "BROADCAST", edit |-> r.edit, rev |-> r.rev]
    BY <1>2 DEF News
  <2>2. m.type = "BROADCAST" /\ m.rev = r.rev /\ m.edit = r.edit
    BY <2>1
  <2> QED BY <1>2, <2>1, <2>2 DEF Report, Link
<1> QED BY <1>1, <1>2

\* What the page is not told of is a duplicate, which made no revision.
LEMMA NewsEmpty ==
    ASSUME NEW c, NEW p, NEW t, NEW a, NEW r, Report(c, p, t, a, r), News(c, r) = <<>>
    PROVE  r.rev = a
  BY DEF News, Report

\* The oldest goroutine tells the page of its result, if that concerns it.
LEMMA LineReported ==
    ASSUME NEW c, NEW p, NEW t, NEW S, NEW T, NEW k, NEW l, NEW cb \in Seq(T), NEW d,
           k.outbox \in Seq(S), k.stage = "serving", cb # <<>>, Line(c, p, t, k, cb, d),
           \/ News(c, Head(cb)) = <<>> /\ l = k
           \/ \E m : /\ News(c, Head(cb)) = <<m>>
                     /\ l.stage = "serving" /\ l.outbox = Append(k.outbox, m)
    PROVE  Line(c, p, t, l, Tail(cb), d)
<1> DEFINE b == After(p.rev, k.outbox)
           r == Head(cb)
<1>1. Streaming(c, p, t, k, cb, d)
  BY DEF Line
<1>2. NoRedirect(k.outbox, Len(k.outbox)) =>
         Report(c, p, t, b, r) /\ Due(c, p, t, r.rev, Tail(cb), d)
  BY <1>1, DueTaken DEF Streaming
<1>3. CASE News(c, r) = <<>> /\ l = k
  <2>1. NoRedirect(k.outbox, Len(k.outbox)) => Due(c, p, t, b, Tail(cb), d)
    BY <1>2, <1>3, NewsEmpty
  <2> QED BY <1>1, <1>3, <2>1 DEF Line, Connecting, Streaming
<1>4. CASE \E m : News(c, r) = <<m>> /\ l.stage = "serving" /\ l.outbox = Append(k.outbox, m)
  <2> PICK m : News(c, r) = <<m>> /\ l.stage = "serving" /\ l.outbox = Append(k.outbox, m)
    BY <1>4
  <2> HIDE DEF b, r
  <2>1. m.type # "REDIRECT" /\ NoRedirect(k.outbox, Len(k.outbox)) =>
           Link(c, p, t, b, m) /\ Due(c, p, t, m.rev, Tail(cb), d)
    <3>1. NoRedirect(k.outbox, Len(k.outbox)) => m.rev = r.rev /\ Link(c, p, t, b, m)
      BY <1>2, NewsLink
    <3> QED BY <1>2, <3>1
  <2> QED BY <2>1, LineSent DEF b
<1> QED BY <1>3, <1>4

\* What onCommit does to one connection.
LEMMA ToldConnection ==
    ASSUME SessionInv, NEW n \in Node, NEW i \in DOMAIN callbacks[n], OnCommit(n, i),
           NEW k \in DOMAIN conn, NEW c \in Client, conn[k].client = c
    PROVE  /\ conn'[k].client = c /\ conn'[k].node = conn[k].node
           /\ conn'[k].up = conn[k].up /\ conn'[k].event = conn[k].event
           /\ conn'[k].stage = conn[k].stage /\ conn'[k].inbox = conn[k].inbox
           /\ ~Registered(k) \/ conn[k].node # n => conn'[k] = conn[k]
           /\ News(c, callbacks[n][i]) = <<>> => conn'[k] = conn[k]
           /\ \A m : News(c, callbacks[n][i]) = <<m>> /\ clients[n][c] = k =>
                 /\ conn'[k].outbox = Sent(k, m)
                 /\ Dropped(k) \subseteq missed'
<1> DEFINE r == callbacks[n][i]
<1>1. /\ conn' = [j \in DOMAIN conn |->
                    IF j \in Told(n, r)
                      THEN [conn[j] EXCEPT !.outbox = Sent(j, News(conn[j].client, r)[1])]
                      ELSE conn[j]]
      /\ UNION {Dropped(j) : j \in Told(n, r)} \subseteq missed'
  BY DEF OnCommit
<1>2. conn[k] \in Connection /\ RegistryInv
  BY Handler DEF SessionInv, SystemInv
<1>3. k \in Told(n, r) =>
         Registered(k) /\ conn[k].node = n /\ clients[n][c] = k /\ News(c, r) # <<>>
  <2> HAVE k \in Told(n, r)
  <2>1. PICK b \in Client : clients[n][b] = k /\ News(b, r) # <<>>
    BY DEF Told
  <2>2. k # 0
    BY DEF SessionInv, SystemInv, WireInv
  <2>3. Registered(k) /\ conn[k].node = n /\ conn[k].client = b
    BY <1>2, <2>1, <2>2 DEF RegistryInv
  <2> QED BY <2>1, <2>3
<1> HIDE DEF r
<1>4. k \notin Told(n, r) => conn'[k] = conn[k]
  BY <1>1
<1>5. k \in Told(n, r) => conn'[k] = [conn[k] EXCEPT !.outbox = Sent(k, News(c, r)[1])]
  BY <1>1
<1>6. ASSUME NEW m, News(c, r) = <<m>>, clients[n][c] = k
      PROVE  conn'[k].outbox = Sent(k, m) /\ Dropped(k) \subseteq missed'
  <2>1. News(c, r) # <<>> /\ News(c, r)[1] = m
    BY <1>6
  <2>2. k \in Told(n, r)
    BY <1>6, <2>1 DEF Told
  <2>3. conn'[k].outbox = Sent(k, m)
    BY <1>2, <1>5, <2>1, <2>2 DEF Connection
  <2> QED BY <1>1, <2>2, <2>3
<1>7. /\ conn'[k].client = c /\ conn'[k].node = conn[k].node
      /\ conn'[k].up = conn[k].up /\ conn'[k].event = conn[k].event
      /\ conn'[k].stage = conn[k].stage /\ conn'[k].inbox = conn[k].inbox
  BY <1>2, <1>4, <1>5 DEF Connection
<1> QED BY <1>3, <1>4, <1>6, <1>7 DEF r

\* A queue without its first element.
LEMMA FirstTaken ==
    ASSUME NEW T, NEW s \in Seq(T), s # <<>>
    PROVE  s[1] = Head(s) /\ SubSeq(s, 1, 1 - 1) \o SubSeq(s, 1 + 1, Len(s)) = Tail(s)
  OBVIOUS

\* A goroutine that overtakes another would be a risk; the oldest continues the line.
LEMMA OnCommitLine ==
    ASSUME SessionInv, PagesInv, NEW n \in Node, NEW i \in DOMAIN callbacks[n], OnCommit(n, i),
           NEW c \in Client, Calm(c), ~AtRisk(c)', NEW k \in DOMAIN conn, conn[k].client = c,
           conn[k].up
    PROVE  Line(c, page[c], Text, conn'[k], callbacks'[conn[k].node], doc[conn[k].node])
<1> DEFINE m == conn[k].node
           p == page[c]
           cb == callbacks[n]
<1>1. Line(c, p, Text, conn[k], callbacks[m], doc[m])
  BY LineOf
<1>2. /\ callbacks' = [callbacks EXCEPT ![n] = SubSeq(cb, 1, i - 1) \o SubSeq(cb, i + 1, Len(cb))]
      /\ {b \in Client : i > 1 /\ clients[n][b] # 0} \subseteq missed'
  BY DEF OnCommit, RunCallback
<1>3. callbacks \in [Node -> Seq(ApplyResult)] /\ m \in Node
  BY Handler DEF SessionInv, DocInv, DocTypeOK
<1>4. cb \in Seq(ApplyResult) /\ cb # <<>> /\ i \in Nat /\ i > 0
  BY <1>3
<1>5. conn'[k].stage = conn[k].stage
  BY ToldConnection
<1>6. CASE m # n
  <2>1. conn'[k] = conn[k] /\ callbacks'[m] = callbacks[m]
    BY <1>2, <1>3, <1>6, ToldConnection
  <2> QED BY <1>1, <2>1
<1>7. CASE m = n /\ ~Registered(k)
  <2>1. conn'[k] = conn[k]
    BY <1>7, ToldConnection
  <2>2. conn[k].stage # "serving"
    BY <1>7 DEF Registered
  <2> QED BY <1>1, <2>1, <2>2 DEF Line
<1>8. CASE m = n /\ Registered(k)
  <2>1. ~CommitWhileConnecting(k)
    BY DEF Calm, AtRisk
  <2>2. conn[k].stage = "serving"
    BY <1>4, <1>8, <2>1 DEF CommitWhileConnecting, Registered
  <2>3. clients[n][c] = k /\ k # 0
    BY <1>8, RegisteredCalm DEF SessionInv
  <2>4. c \notin missed'
    BY DEF AtRisk
  <2>5. i = 1
    BY <1>2, <1>4, <2>3, <2>4
  <2>6. cb[i] = Head(cb) /\ callbacks'[n] = Tail(cb)
    BY <1>2, <1>3, <1>4, <2>5, FirstTaken
  <2>7. \/ News(c, Head(cb)) = <<>> /\ conn'[k] = conn[k]
        \/ \E x : /\ News(c, Head(cb)) = <<x>>
                  /\ conn'[k].stage = "serving" /\ conn'[k].outbox = Append(conn[k].outbox, x)
    <3>1. News(c, Head(cb)) = <<>> \/ \E x : News(c, Head(cb)) = <<x>>
      BY DEF News
    <3>2. CASE News(c, Head(cb)) = <<>>
      BY <2>6, <3>2, ToldConnection
    <3>3. ASSUME NEW x, News(c, Head(cb)) = <<x>> PROVE conn'[k].outbox = Append(conn[k].outbox, x)
      <4>1. conn'[k].outbox = Sent(k, x) /\ Dropped(k) \subseteq missed'
        BY <2>3, <2>6, <3>3, ToldConnection
      <4> QED BY <2>4, <4>1 DEF Dropped, Sent
    <3> QED BY <1>5, <2>2, <3>1, <3>2, <3>3
  <2>8. conn[k].outbox \in Seq(Message)
    BY Handler
  <2>9. Line(c, p, Text, conn[k], cb, doc[n])
    BY <1>1, <1>8
  <2> HIDE DEF cb, p
  <2>10. Line(c, p, Text, conn'[k], Tail(cb), doc[n])
    BY <1>4, <2>2, <2>7, <2>8, <2>9, LineReported
  <2> QED BY <1>8, <2>6, <2>10 DEF cb, p
<1> QED BY <1>6, <1>7, <1>8

\* onCommit
LEMMA OnCommitCalm ==
    ASSUME SessionInv, PagesInv, NEW n \in Node, NEW i \in DOMAIN callbacks[n], OnCommit(n, i)
    PROVE  MadeInv' /\ SocketInv' /\ Keeps
<1>1. /\ DOMAIN conn' = DOMAIN conn
      /\ UNCHANGED <<page, clients, proposals, log, documents, doc>>
  BY DEF OnCommit, RunCallback, serverVars
<1>2. \A k \in DOMAIN conn :
         /\ conn'[k].client = conn[k].client /\ conn'[k].node = conn[k].node
         /\ conn'[k].up = conn[k].up /\ conn'[k].event = conn[k].event
         /\ conn'[k].stage = conn[k].stage /\ conn'[k].inbox = conn[k].inbox
  BY Handler, ToldConnection
<1>3. MadeInv'
  BY <1>1, <1>2 DEF PagesInv, MadeInv, Made
<1>4. SocketInv'
  BY <1>1, <1>2 DEF PagesInv, SocketInv
<1>5. Keeps
  <2> SUFFICES ASSUME NEW c \in Client, Calm(c), ~AtRisk(c)'
               PROVE  PageOf(c, page[c], Text)' /\ LineInv(c)'
    BY DEF Keeps
  <2>1. Text' = Text
    BY <1>1, SameHistory
  <2>2. PageOf(c, page'[c], Text')
    BY <1>1, <2>1 DEF Calm
  <2>3. ASSUME NEW k \in DOMAIN conn, conn[k].client = c
        PROVE  /\ Registered(k)' => clients'[conn'[k].node][c] = k
               /\ conn'[k].up =>
                     /\ page'[c].ws = k
                     /\ Line(c, page'[c], Text', conn'[k], callbacks'[conn'[k].node],
                             doc'[conn'[k].node])
    <3>1. Registered(k)' = Registered(k)
      BY <1>1, <1>2 DEF Registered
    <3>2. Registered(k) => clients[conn[k].node][c] = k
      BY <2>3 DEF Calm, LineInv
    <3>3. conn[k].up => page[c].ws = k /\ Line(c, page[c], Text, conn'[k],
                                               callbacks'[conn[k].node], doc[conn[k].node])
      BY <2>3, OnCommitLine, LineOf
    <3> QED BY <1>1, <1>2, <2>1, <3>1, <3>2, <3>3
  <2> QED BY <1>1, <1>2, <2>2, <2>3 DEF LineInv
<1> QED BY <1>3, <1>4, <1>5

-----------------------------------------------------------------------------
(* Raft and the nodes *)

\* Only the leader's name, a proposal or a node's position in the log changes.
LEMMA NothingForPages ==
    ASSUME SessionInv, PagesInv, UNCHANGED <<page, conn, clients, log, documents, doc, callbacks>>
    PROVE  SocketInv' /\ Keeps
<1>1. SocketInv'
  BY DEF PagesInv, SocketInv
<1>2. ASSUME NEW c \in Client, Calm(c) PROVE PageOf(c, page[c], Text)' /\ LineInv(c)'
  <2>1. SamePage(page[c], page'[c])
    BY DEF SamePage
  <2>2. \A k \in DOMAIN conn : SameLine(conn[k], conn'[k]) /\ Registered(k)' = Registered(k)
    BY DEF SameLine, Registered
  <2> QED BY <1>2, <2>1, <2>2, Undisturbed
<1> QED BY <1>1, <1>2 DEF Keeps

\* The proposals of node n become q, which has no others.
Fewer(n, q) ==
    /\ proposals' = [proposals EXCEPT ![n] = q]
    /\ \A i \in DOMAIN q : \E j \in DOMAIN proposals[n] : q[i] = proposals[n][j]

\* Proposals that are gone were made as well.
LEMMA FewerMade ==
    ASSUME SessionInv, PagesInv, UNCHANGED page, UNCHANGED conn, NEW n \in Node, NEW q,
           Fewer(n, q), \A i \in DOMAIN log' : Made(log'[i])
    PROVE  MadeInv'
<1>1. proposals'[n] = q /\ \A m \in Node : m # n => proposals'[m] = proposals[m]
  BY DEF Fewer, SessionInv, SystemInv, ServerInv
<1>2. MadeInv
  BY DEF PagesInv
<1>3. \A e : Made(e)' = Made(e)
  BY DEF Made
<1>4. \A m \in Node : \A i \in DOMAIN proposals'[m] : Made(proposals'[m][i])
  BY <1>1, <1>2 DEF Fewer, MadeInv
<1> QED BY <1>2, <1>3, <1>4 DEF MadeInv

\* A proposal is lost.
LEMMA LoseProposalCalm ==
    ASSUME SessionInv, PagesInv, NEW n \in Node, LoseProposal(n)
    PROVE  MadeInv' /\ SocketInv' /\ Keeps
<1>1. UNCHANGED <<page, conn, clients, log, documents, doc, callbacks>>
  BY DEF LoseProposal, committedVars
<1> PICK s \in Seq(OkEntry) : s = proposals[n]
  BY DEF SessionInv, SystemInv, ServerInv
<1>2. PICK i \in DOMAIN s :
         proposals' = [proposals EXCEPT ![n] = SubSeq(s, 1, i - 1) \o SubSeq(s, i + 1, Len(s))]
  BY DEF LoseProposal
<1>3. PICK q : q = SubSeq(s, 1, i - 1) \o SubSeq(s, i + 1, Len(s))
  OBVIOUS
<1>4. \A j \in DOMAIN q : \E l \in DOMAIN s : q[j] = s[l]
  <2>1. PICK T : T = {s[l] : l \in DOMAIN s}
    OBVIOUS
  <2>2. s \in Seq(T)
    BY <2>1
  <2>3. q \in Seq(T)
    BY <1>3, <2>2, SeqWithout
  <2>4. \A j \in DOMAIN q : q[j] \in T
    BY <2>3
  <2> QED BY <2>1, <2>4
<1>5. \A j \in DOMAIN log' : Made(log'[j])
  BY <1>1 DEF PagesInv, MadeInv
<1>6. Fewer(n, q)
  BY <1>2, <1>3, <1>4 DEF Fewer
<1>7. MadeInv'
  BY <1>1, <1>5, <1>6, FewerMade
<1> QED BY <1>1, <1>7, NothingForPages

\* Who leads is nothing to the pages.
LEMMA ChangeLeaderCalm ==
    ASSUME SessionInv, PagesInv, NEW n \in Node, NEW l \in Node \cup {None}, ChangeLeader(n, l)
    PROVE  MadeInv' /\ SocketInv' /\ Keeps
<1>1. UNCHANGED <<page, conn, clients, proposals, log, documents, doc, callbacks>>
  BY DEF ChangeLeader, committedVars
<1>2. MadeInv'
  BY <1>1 DEF PagesInv, MadeInv, Made
<1> QED BY <1>1, <1>2, NothingForPages

\* A node that has missed an entry puts the pages it serves at risk, but changes no line.
LEMMA SkipEntryCalm ==
    ASSUME SessionInv, PagesInv, NEW n \in Node, SkipEntry(n),
           UNCHANGED <<serverVars, conn, page>>
    PROVE  MadeInv' /\ SocketInv' /\ Keeps
<1>1. UNCHANGED <<page, conn, clients, proposals, log, documents, doc, callbacks>>
  BY DEF SkipEntry, serverVars
<1>2. MadeInv'
  BY <1>1 DEF PagesInv, MadeInv, Made
<1> QED BY <1>1, <1>2, NothingForPages

\* A page without a text has all its submissions in the text, so that what is
\* committed now is not its own.
LEMMA CommitNothingNew ==
    ASSUME SessionInv, PagesInv, NEW e \in RaftLogEntry, Made(e), Commit(e), NEW c \in Client,
           PageOf(c, page[c], Text), ~page[c].ready
    PROVE  NothingNew(c, Text, Text')
<1>1. DocInv /\ GuardedDocument(Final)
  BY DEF SessionInv, PagesInv, HistoryInv
<1>2. Text \in Seq(Revision)
  BY <1>1, HistoryFields
<1>3. CASE Final' = Final
  <2>1. Text' = Text
    BY <1>3 DEF Text
  <2> QED BY <1>2, <2>1 DEF NothingNew
<1>4. CASE Text' = Append(Text, EditOf(e)) /\ ~IsDuplicate(Final, e)
  <2>1. e.client # c
    <3> SUFFICES ASSUME e.client = c PROVE FALSE
      OBVIOUS
    <3>1. Among(c, e.sub, Text, Len(Text))
      BY DEF Made, PageOf
    <3>2. PICK i \in DOMAIN Text : Text[i] = [client |-> c, sub |-> e.sub]
      BY <3>1 DEF Among
    <3>3. Text[i].sub <= Final.lastSubmission[Text[i].client]
      BY <1>1 DEF GuardedDocument, Text
    <3> QED BY <1>4, <3>2, <3>3 DEF IsDuplicate
  <2>2. \A x : \A t \in Seq(Revision) : \A j \in DOMAIN Append(t, x) :
           Append(t, x)[j] = x \/ j <= Len(t)
    OBVIOUS
  <2>3. EditOf(e).client = e.client
    BY DEF EditOf
  <2> QED BY <1>2, <1>4, <2>1, <2>2, <2>3 DEF NothingNew
<1> QED BY <1>1, <1>3, <1>4, CommitText

\* The text grows.
LEMMA CommitProposalCalm ==
    ASSUME SessionInv, PagesInv, NEW n \in Node, CommitProposal(n)
    PROVE  MadeInv' /\ SocketInv' /\ Keeps
<1>1. PICK q \in Seq(OkEntry) : q = proposals[n]
  BY DEF SessionInv, SystemInv, ServerInv
<1>2. /\ q # <<>> /\ Commit(Head(q)) /\ proposals' = [proposals EXCEPT ![n] = Tail(q)]
      /\ UNCHANGED <<page, conn, clients>>
  BY <1>1 DEF CommitProposal
<1>3. /\ Head(q) = q[1] /\ 1 \in DOMAIN q /\ Head(q) \in OkEntry
      /\ \A i \in DOMAIN Tail(q) : i + 1 \in DOMAIN q /\ Tail(q)[i] = q[i + 1]
  BY <1>2
<1>4. PICK e \in RaftLogEntry : e = Head(q)
  BY <1>3 DEF OkEntry
<1>5. Made(e)
  BY <1>1, <1>3, <1>4 DEF PagesInv, MadeInv
<1>6. Commit(e)
  BY <1>2, <1>4
<1>7. MadeInv'
  <2>1. \A i \in DOMAIN log : Made(log[i])
    BY DEF PagesInv, MadeInv
  <2>2. log \in Seq(RaftLogEntry) /\ log' = Append(log, e)
    BY <1>6 DEF SessionInv, DocInv, DocTypeOK, Commit
  <2>3. PICK s \in Seq(RaftLogEntry) : s = log
    BY <2>2
  <2>4. \A i \in DOMAIN Append(s, e) : \/ i \in DOMAIN s /\ Append(s, e)[i] = s[i]
                                      \/ Append(s, e)[i] = e
    OBVIOUS
  <2>5. \A i \in DOMAIN log' : Made(log'[i])
    BY <1>5, <2>1, <2>2, <2>3, <2>4
  <2>6. Fewer(n, Tail(q))
    BY <1>1, <1>2, <1>3 DEF Fewer
  <2> QED BY <1>2, <2>5, <2>6, FewerMade
<1>8. SocketInv'
  BY <1>2 DEF PagesInv, SocketInv
<1>9. UNCHANGED <<doc, callbacks>>
  BY <1>6 DEF Commit
<1>10. DocInv /\ Text \in Seq(Revision) /\ Text' \in Seq(Revision) /\ Begins(Text, Text')
  BY <1>6, HistoryFields, CommitLonger DEF SessionInv
<1>11. ASSUME NEW c \in Client, Calm(c) PROVE PageOf(c, page[c], Text)' /\ LineInv(c)'
  <2>1. PageOf(c, page[c], Text) /\ page[c].rev \in Nat /\ page[c].sub \in Nat
    BY <1>11, PageFields DEF Calm, SessionInv, SystemInv
  <2>2. PageOf(c, page'[c], Text')
    BY <1>2, <1>10, <2>1, PageLonger
  <2>3. ~page[c].ready => NothingNew(c, Text, Text')
    BY <1>5, <1>6, <2>1, CommitNothingNew
  <2>4. ASSUME NEW k \in DOMAIN conn, conn[k].client = c, conn[k].up
        PROVE  Line(c, page[c], Text', conn[k], callbacks[conn[k].node], doc[conn[k].node])
    <3>1. /\ conn[k].outbox \in Seq(Message)
          /\ callbacks[conn[k].node] \in Seq(ApplyResult)
      BY Handler DEF SessionInv, DocInv, DocTypeOK
    <3>2. Line(c, page[c], Text, conn[k], callbacks[conn[k].node], doc[conn[k].node])
      BY <1>11, <2>4, LineOf
    <3> QED BY <1>10, <2>1, <2>3, <3>1, <3>2, LineLonger
  <2>5. \A k \in DOMAIN conn : Registered(k)' = Registered(k)
    BY <1>2 DEF Registered
  <2>6. LineInv(c)'
    BY <1>2, <1>9, <1>11, <2>4, <2>5 DEF LineInv, Calm
  <2> QED BY <2>2, <2>6
<1> QED BY <1>7, <1>8, <1>11 DEF Keeps

\* A node's connections end with it.
LEMMA RestartCalm ==
    ASSUME SessionInv, PagesInv, NEW n \in Node, Restart(n)
    PROVE  MadeInv' /\ SocketInv' /\ Keeps
<1>1. /\ UNCHANGED <<page, proposals, log, documents>> /\ DOMAIN conn' = DOMAIN conn
      /\ \A m \in Node : m # n => /\ clients'[m] = clients[m] /\ callbacks'[m] = callbacks[m]
                                  /\ doc'[m] = doc[m]
  BY DEF Restart, RestartDocument, SessionInv, SystemInv, ServerInv, DocInv, DocTypeOK
<1>2. ASSUME NEW k \in DOMAIN conn
      PROVE  /\ conn'[k].client = conn[k].client /\ conn'[k].node = conn[k].node
             /\ conn[k].node # n => conn'[k] = conn[k]
             /\ conn[k].node = n => /\ conn'[k].stage = "closed" /\ ~conn'[k].up
                                    /\ conn'[k].inbox = <<>>
  <2>1. conn[k] \in Connection
    BY Handler
  <2>2. CASE conn[k].node # n
    BY <2>2 DEF Restart
  <2>3. CASE conn[k].node = n
    <3>1. PICK d : /\ d = IF conn[k].up THEN Down(conn[k]) ELSE conn[k]
                   /\ conn'[k] = [d EXCEPT !.stage = "closed", !.known = 0, !.inbox = <<>>,
                                           !.catchUp = <<>>, !.text = <<>>, !.rev = 0]
      BY <2>3 DEF Restart
    <3>2. d \in Connection /\ d.client = conn[k].client /\ d.node = conn[k].node /\ ~d.up
      <4>1. CASE conn[k].up
        <5>1. d = [conn[k] EXCEPT !.up = FALSE, !.event = TRUE, !.outbox = <<>>]
          BY <3>1, <4>1 DEF Down
        <5>2. d \in Connection
          BY <3>1, <4>1, DownType DEF SessionInv, SystemInv, WireInv, OkConnection
        <5> QED BY <2>1, <5>1, <5>2 DEF Connection
      <4>2. CASE ~conn[k].up
        BY <2>1, <3>1, <4>2
      <4> QED BY <4>1, <4>2
    <3> QED BY <2>3, <3>1, <3>2 DEF Connection
  <2> QED BY <2>2, <2>3
<1>3. MadeInv'
  <2>1. \A k \in DOMAIN conn' : conn'[k].inbox = conn[k].inbox \/ conn'[k].inbox = <<>>
    BY <1>1, <1>2
  <2>2. \A c \in Client : page'[c].sub \in Nat /\ page'[c].sub >= page[c].sub
    BY <1>1, PageFields DEF SessionInv, SystemInv
  <2> QED BY <1>1, <2>1, <2>2, StillMade DEF SessionInv, PagesInv
<1>4. SocketInv'
  BY <1>1, <1>2 DEF PagesInv, SocketInv
<1>5. ASSUME NEW c \in Client, Calm(c) PROVE PageOf(c, page[c], Text)' /\ LineInv(c)'
  <2>1. Text' = Text
    BY <1>1, SameHistory
  <2>2. PageOf(c, page'[c], Text')
    BY <1>1, <1>5, <2>1 DEF Calm
  <2>3. ASSUME NEW k \in DOMAIN conn, conn[k].client = c
        PROVE  /\ Registered(k)' => clients'[conn'[k].node][c] = k
               /\ conn'[k].up =>
                     /\ page'[c].ws = k
                     /\ Line(c, page'[c], Text', conn'[k], callbacks'[conn'[k].node],
                             doc'[conn'[k].node])
    <3>1. CASE conn[k].node = n
      BY <1>2, <3>1 DEF Registered, Connecting
    <3>2. CASE conn[k].node # n
      <4>1. conn'[k] = conn[k] /\ Registered(k)' = Registered(k) /\ conn[k].node \in Node
        BY <1>2, <3>2, Handler DEF Registered
      <4>2. /\ Registered(k) => clients[conn[k].node][c] = k
            /\ conn[k].up =>
                  /\ page[c].ws = k
                  /\ Line(c, page[c], Text, conn[k], callbacks[conn[k].node], doc[conn[k].node])
        BY <1>5, <2>3 DEF Calm, LineInv
      <4> QED BY <1>1, <2>1, <3>2, <4>1, <4>2
    <3> QED BY <3>1, <3>2
  <2> QED BY <1>1, <1>2, <2>2, <2>3 DEF LineInv
<1> QED BY <1>3, <1>4, <1>5 DEF Keeps

\* What fsm.Apply has done on a node that has missed nothing: the next revision
\* of the text, or none.
LEMMA NextApplied ==
    ASSUME SessionInv, PagesInv, NEW n \in Node, ApplyEntry(n), ~skipped[n],
           NEW e, e = log[lastApplied[n] + 1]
    PROVE  /\ lastApplied[n] + 1 \in (lastApplied[n] + 1)..Len(log)
           /\ e \in RaftLogEntry /\ Made(e)
           /\ doc'[n] = AfterEntry(doc[n], e, e.fits)
           /\ callbacks'[n] = callbacks[n] \o ResultOf(doc[n], e, e.fits)
           /\ \A m \in Node : m # n => doc'[m] = doc[m] /\ callbacks'[m] = callbacks[m]
           /\ Begins(AfterEntry(doc[n], e, e.fits).revisions, Text)
<1> DEFINE i == lastApplied[n] + 1
<1>1. /\ lastApplied[n] \in Nat /\ log \in Seq(RaftLogEntry) /\ skipped[n] \in BOOLEAN
      /\ doc \in [Node -> DocumentState] /\ callbacks \in [Node -> Seq(ApplyResult)]
  BY DEF SessionInv, DocInv, DocTypeOK
<1>2. lastApplied[n] < Len(log)
  BY DEF ApplyEntry
<1>3. i \in DOMAIN log /\ i \in 1..Len(log) /\ i \in (lastApplied[n] + 1)..Len(log)
  BY <1>1, <1>2
<1>4. e \in RaftLogEntry /\ Made(e)
  BY <1>1, <1>3 DEF PagesInv, MadeInv
<1>5. /\ doc' = [doc EXCEPT ![n] = AfterEntry(doc[n], e, e.fits)]
      /\ callbacks' = [callbacks EXCEPT ![n] = callbacks[n] \o ResultOf(doc[n], e, e.fits)]
  BY DEF ApplyEntry
<1>6. documents[i + 1] = AfterEntry(doc[n], e, e.fits)
  <2>1. doc[n] = documents[i]
    BY DEF SessionInv, DocInv, ReplicasAgree
  <2> QED BY <1>3, <2>1 DEF SessionInv, DocInv, HistoryOK
<1>7. i + 1 \in DOMAIN documents
  BY <1>3, HistoryFields DEF SessionInv
<1>8. Begins(documents[i + 1].revisions, Text)
  BY <1>7 DEF PagesInv, HistoryInv
<1> QED BY <1>1, <1>3, <1>4, <1>5, <1>6, <1>8

\* A page that is told of a duplicate of its own while it waits has its latest
\* submission in the text: an answer to an older one would be a risk.
LEMMA OwnDuplicate ==
    ASSUME SessionInv, PagesInv, NEW n \in Node, ApplyEntry(n), ~skipped[n],
           NEW c \in Client, Calm(c), clients[n][c] # 0, page[c].pending,
           NEW e, e = log[lastApplied[n] + 1], e.client = c, IsDuplicate(doc[n], e)
    PROVE  Among(c, page[c].sub, Text, HeadRev(doc[n]))
<1>1. /\ lastApplied[n] + 1 \in (lastApplied[n] + 1)..Len(log)
      /\ e \in RaftLogEntry /\ Made(e)
  BY NextApplied
<1>2. e \in UnderWay(c, n)
  BY <1>1 DEF UnderWay
<1>3. ~OldAnswer(c, n) /\ page[c].waiting
  BY DEF Calm, AtRisk, PageOf
<1>4. ~(e.sub < page[c].sub)
  BY <1>2, <1>3 DEF OldAnswer
<1>5. page[c].sub \in Nat /\ e.sub \in Nat /\ e.sub > 0 /\ e.sub <= page[c].sub
  BY <1>1, PageFields DEF SessionInv, SystemInv, Made
<1>6. /\ doc[n].lastSubmission[c] \in Nat /\ doc[n].lastSubmission[c] <= page[c].sub
      /\ e.sub <= doc[n].lastSubmission[c]
  BY LastMade DEF SessionInv, PagesInv, IsDuplicate
<1>7. doc[n].lastSubmission[c] = page[c].sub /\ doc[n].lastSubmission[c] > 0
  BY <1>4, <1>5, <1>6
<1>8. Among(c, doc[n].lastSubmission[c], Text, HeadRev(doc[n]))
  BY <1>7, NodeText DEF SessionInv, PagesInv
<1> QED BY <1>7, <1>8

\* Apply either changes nothing or queues the result that comes next for every page.
LEMMA AppliedReport ==
    ASSUME SessionInv, PagesInv, NEW n \in Node, ApplyEntry(n), ~skipped[n],
           NEW c \in Client, Calm(c), clients[n][c] # 0
    PROVE  \/ doc'[n] = doc[n] /\ callbacks'[n] = callbacks[n]
           \/ \E r : /\ callbacks'[n] = callbacks[n] \o <<r>> /\ r.rev = HeadRev(doc'[n])
                     /\ Report(c, page[c], Text, HeadRev(doc[n]), r)
<1>1. PICK e : e = log[lastApplied[n] + 1]
  OBVIOUS
<1> DEFINE d == doc[n]
           D == AfterEntry(d, e, e.fits)
           R == ResultOf(d, e, e.fits)
<1>2. /\ e \in RaftLogEntry /\ doc'[n] = D /\ callbacks'[n] = callbacks[n] \o R
      /\ Begins(D.revisions, Text)
  BY <1>1, NextApplied
<1>3. /\ callbacks[n] \in Seq(ApplyResult) /\ d.revisions \in Seq(Revision)
      /\ HeadRev(d) \in Nat /\ HeadRev(d) = Len(d.revisions)
  BY NodeText DEF SessionInv, DocInv, DocTypeOK, PagesInv
<1> HIDE DEF d
<1>4. CASE IsDuplicate(d, e)
  <2>1. PICK r : r = [client |-> e.client, rev |-> HeadRev(d), edit |-> EditOf(e), dup |-> TRUE]
    OBVIOUS
  <2>2. r.client = e.client /\ r.rev = HeadRev(d) /\ r.dup
    BY <2>1
  <2>3. D = d /\ R = <<r>>
    BY <1>4, <2>1 DEF AfterEntry, ResultOf
  <2>4. r.client = c /\ page[c].pending => Among(c, page[c].sub, Text, HeadRev(d))
    BY <1>1, <1>4, <2>2, OwnDuplicate DEF d
  <2>5. Report(c, page[c], Text, HeadRev(d), r)
    BY <2>2, <2>4 DEF Report
  <2> QED BY <1>2, <2>2, <2>3, <2>5 DEF d
<1>5. CASE ~IsDuplicate(d, e) /\ e.fits
  <2>1. PICK r : r = [client |-> e.client, rev |-> HeadRev(d) + 1, edit |-> EditOf(e),
                      dup |-> FALSE]
    OBVIOUS
  <2>2. r.client = e.client /\ r.rev = HeadRev(d) + 1 /\ ~r.dup /\ r.edit = EditOf(e)
        /\ r.edit.client = r.client
    BY <2>1 DEF EditOf
  <2>3. R = <<r>> /\ D.revisions = Append(d.revisions, EditOf(e))
    BY <1>5, <2>1 DEF AfterEntry, ResultOf
  <2>4. \A s \in Seq(Revision) : \A x : /\ Len(Append(s, x)) = Len(s) + 1
                                        /\ Append(s, x)[Len(s) + 1] = x
                                        /\ Len(s) + 1 \in DOMAIN Append(s, x)
    OBVIOUS
  <2>5. /\ HeadRev(D) = HeadRev(d) + 1 /\ Len(D.revisions) = HeadRev(d) + 1
        /\ D.revisions[HeadRev(d) + 1] = EditOf(e) /\ HeadRev(d) + 1 \in DOMAIN D.revisions
    BY <1>3, <2>3, <2>4 DEF HeadRev
  <2>6. HeadRev(d) + 1 <= Len(Text) /\ Text[HeadRev(d) + 1] = EditOf(e)
    BY <1>2, <2>5 DEF Begins
  <2>7. Report(c, page[c], Text, HeadRev(d), r)
    BY <2>2, <2>6 DEF Report
  <2> QED BY <1>2, <2>2, <2>3, <2>5, <2>7 DEF d
<1>6. CASE ~IsDuplicate(d, e) /\ ~e.fits
  <2>1. D = d /\ R = <<>>
    BY <1>6 DEF AfterEntry, ResultOf
  <2>2. \A s \in Seq(ApplyResult) : s \o <<>> = s
    OBVIOUS
  <2> QED BY <1>2, <1>3, <2>1, <2>2 DEF d
<1> QED BY <1>4, <1>5, <1>6

\* The line grows by that result; in handleConnect it would be a risk.
LEMMA ApplyLine ==
    ASSUME SessionInv, PagesInv, NEW n \in Node, ApplyEntry(n), UNCHANGED <<conn, page, clients>>,
           NEW c \in Client, Calm(c), ~AtRisk(c)', NEW k \in DOMAIN conn, conn[k].client = c,
           conn[k].up
    PROVE  Line(c, page[c], Text, conn[k], callbacks'[conn[k].node], doc'[conn[k].node])
<1> DEFINE m == conn[k].node
           p == page[c]
           cb == callbacks[n]
<1>1. Line(c, p, Text, conn[k], callbacks[m], doc[m]) /\ m \in Node
  BY LineOf, Handler
<1>2. CASE m # n
  <2>1. callbacks'[m] = callbacks[m] /\ doc'[m] = doc[m]
    BY <1>1, <1>2 DEF ApplyEntry, SessionInv, DocInv, DocTypeOK
  <2> QED BY <1>1, <2>1
<1>3. CASE m = n /\ ~Registered(k)
  <2>1. conn[k].stage \notin Connecting \cup {"serving"}
    BY <1>3 DEF Registered
  <2> QED BY <1>1, <2>1 DEF Line, Reading, Connecting
<1>4. CASE m = n /\ Registered(k)
  <2>1. clients[n][c] # 0 /\ ~skipped[n]
    BY <1>4, RegisteredCalm DEF SessionInv
  <2>2. callbacks[n] \in Seq(ApplyResult)
    BY DEF SessionInv, DocInv, DocTypeOK
  <2>3. CASE doc'[n] = doc[n] /\ callbacks'[n] = callbacks[n]
    BY <1>1, <1>4, <2>3
  <2>4. ASSUME NEW r, callbacks'[n] = callbacks[n] \o <<r>>, r.rev = HeadRev(doc'[n]),
               Report(c, page[c], Text, HeadRev(doc[n]), r)
        PROVE  Line(c, p, Text, conn[k], callbacks'[m], doc'[m])
    <3>1. callbacks'[n] # <<>>
      BY <2>2, <2>4
    <3>2. ~CommitWhileConnecting(k)'
      BY DEF AtRisk
    <3>3. conn[k].stage = "serving"
      BY <1>4, <3>1, <3>2 DEF CommitWhileConnecting, Registered
    <3>4. Streaming(c, p, Text, conn[k], cb, doc[n])
      BY <1>1, <1>4, <3>3 DEF Line
    <3>5. ASSUME NEW a, Due(c, p, Text, a, cb, doc[n])
          PROVE  Due(c, p, Text, a, callbacks'[n], doc'[n])
      BY <2>2, <2>4, <3>5, DueAdded
    <3>6. Streaming(c, p, Text, conn[k], callbacks'[n], doc'[n])
      BY <3>4, <3>5 DEF Streaming
    <3> QED BY <1>4, <3>3, <3>6 DEF Line, Connecting
  <2> QED BY <1>4, <2>1, <2>3, <2>4, AppliedReport
<1> QED BY <1>2, <1>3, <1>4

\* applyCommitted
LEMMA ApplyEntryCalm ==
    ASSUME SessionInv, PagesInv, NEW n \in Node, ApplyEntry(n),
           UNCHANGED <<serverVars, conn, page>>
    PROVE  MadeInv' /\ SocketInv' /\ Keeps
<1>1. UNCHANGED <<page, conn, clients, proposals, log, documents>>
  BY DEF ApplyEntry, serverVars
<1>2. MadeInv'
  BY <1>1 DEF PagesInv, MadeInv, Made
<1>3. SocketInv'
  BY <1>1 DEF PagesInv, SocketInv
<1>4. Keeps
  <2> SUFFICES ASSUME NEW c \in Client, Calm(c), ~AtRisk(c)'
               PROVE  PageOf(c, page[c], Text)' /\ LineInv(c)'
    BY DEF Keeps
  <2>1. Text' = Text
    BY <1>1, SameHistory
  <2>2. PageOf(c, page'[c], Text')
    BY <1>1, <2>1 DEF Calm
  <2>3. \A k \in DOMAIN conn : Registered(k)' = Registered(k)
    BY <1>1 DEF Registered
  <2>4. \A k \in DOMAIN conn : conn[k].client = c /\ conn[k].up =>
           Line(c, page[c], Text, conn[k], callbacks'[conn[k].node], doc'[conn[k].node])
    BY <1>1, ApplyLine
  <2>5. LineInv(c)'
    BY <1>1, <2>1, <2>3, <2>4 DEF LineInv, Calm
  <2> QED BY <2>2, <2>5
<1> QED BY <1>2, <1>3, <1>4

\* applyCommitted, whether or not it can read the entry.
LEMMA ApplyCommittedCalm ==
    ASSUME SessionInv, PagesInv, NEW n \in Node, ApplyCommitted(n)
    PROVE  MadeInv' /\ SocketInv' /\ Keeps
  BY ApplyEntryCalm, SkipEntryCalm DEF ApplyCommitted

-----------------------------------------------------------------------------
(* All steps *)

\* New pages, no connections.
LEMMA InitPages == Init => PagesInv /\ CalmInv
<1> SUFFICES ASSUME Init PROVE PagesInv /\ CalmInv
  OBVIOUS
<1>1. HistoryInv
  BY InitHistory
<1>2. conn = <<>> /\ page = [c \in Client |-> NewPage(0)] /\ log = <<>>
      /\ documents = <<EmptyDocument>> /\ missed = {}
      /\ proposals = [n \in Node |-> <<>>]
      /\ clients = [n \in Node |-> [c \in Client |-> 0]] /\ skipped = [n \in Node |-> FALSE]
  BY DEF Init, DocInit
<1>3. DOMAIN conn = {} /\ DOMAIN log = {} /\ \A n \in Node : DOMAIN proposals[n] = {}
  BY <1>2
<1>4. MadeInv
  BY <1>3 DEF MadeInv
<1>5. \A c \in Client : /\ page[c].ws = 0 /\ ~page[c].running /\ ~page[c].ready
                        /\ page[c].base = <<>> /\ page[c].rev = 0 /\ page[c].sub = 0
                        /\ page[c].pending = FALSE /\ page[c].waiting = FALSE
  BY <1>2 DEF NewPage
<1>6. SocketInv
  BY <1>3, <1>5 DEF SocketInv
<1>7. ASSUME NEW c \in Client PROVE Calm(c)
  <2>1. ~AtRisk(c)
    BY <1>2, <1>3, <1>5 DEF AtRisk, OldAnswer
  <2>2. Text = <<>>
    BY <1>2 DEF Text, Final, EmptyDocument
  <2>3. PageOf(c, page[c], Text)
    <3>1. Len(<<>>) = 0 /\ SubSeq(<<>>, 1, 0) = <<>> /\ 1..0 = {}
      OBVIOUS
    <3>2. PICK p : p = page[c]
      OBVIOUS
    <3>3. /\ p.rev = 0 /\ p.base = <<>> /\ p.sub = 0 /\ p.pending = FALSE /\ p.waiting = FALSE
      BY <1>5, <3>2
    <3>4. p.rev <= Len(<<>>) /\ p.base = SubSeq(<<>>, 1, p.rev) /\ 1..p.sub = {}
      BY <3>1, <3>3
    <3>5. PageOf(c, p, <<>>)
      BY <3>3, <3>4 DEF PageOf
    <3> QED BY <2>2, <3>2, <3>5
  <2> QED BY <1>3, <2>1, <2>3 DEF Calm, LineInv
<1> QED BY <1>1, <1>4, <1>6, <1>7 DEF PagesInv, CalmInv

\* Every step, by the lemma of its action.
LEMMA PagesStep ==
    ASSUME SessionInv, PagesInv, Step
    PROVE  MadeInv' /\ SocketInv' /\ Keeps
<1>1. ASSUME NEW c \in Client, TypeAscii(c) \/ TypeWide(c) \/ Submit(c) \/ Resubmit(c) \/ Reload(c)
      PROVE  MadeInv' /\ SocketInv' /\ Keeps
  <2>1. CASE TypeAscii(c) \/ TypeWide(c)
    <3>1. Type(c) /\ UNCHANGED committedVars
      BY <2>1 DEF TypeAscii, TypeWide, docVars, committedVars
    <3> QED BY <3>1, TypeCalm
  <2> QED BY <1>1, <2>1, SubmitCalm, ResubmitCalm, ReloadCalm
<1>2. ASSUME NEW c \in Client, Reconnect(c) \/ \E n \in Node : Connect(c, n)
      PROVE  MadeInv' /\ SocketInv' /\ Keeps
  BY <1>2, ReconnectCalm, ConnectCalm
<1>3. ASSUME NEW k \in DOMAIN conn, Drop(k) \/ OnWsClose(k) \/ Receive(k)
      PROVE  MadeInv' /\ SocketInv' /\ Keeps
  BY <1>3, DropCalm, OnWsCloseCalm, ReceiveCalm
<1>4. ASSUME NEW k \in DOMAIN conn,
             \/ Register(k) \/ RedirectConnect(k) \/ ReadRevisions(k) \/ ReadText(k)
             \/ ReadRev(k) \/ SendConnectAck(k)
             \/ HandleSubmit(k) \/ RemoveClient(k) \/ CloseChannel(k)
      PROVE  MadeInv' /\ SocketInv' /\ Keeps
  BY <1>4, RegisterCalm, RedirectConnectCalm, ReadCalm, SendConnectAckCalm, HandleSubmitCalm,
     RemoveClientCalm, CloseChannelCalm
<1>5. ASSUME NEW n \in Node, NEW i \in DOMAIN callbacks[n], OnCommit(n, i)
      PROVE  MadeInv' /\ SocketInv' /\ Keeps
  BY <1>5, OnCommitCalm
<1>6. ASSUME NEW n \in Node,
             CommitProposal(n) \/ LoseProposal(n) \/ ApplyCommitted(n) \/ Restart(n)
      PROVE  MadeInv' /\ SocketInv' /\ Keeps
  BY <1>6, CommitProposalCalm, LoseProposalCalm, ApplyCommittedCalm, RestartCalm
<1>7. ASSUME NEW n \in Node, NEW l \in Node \cup {None}, ChangeLeader(n, l)
      PROVE  MadeInv' /\ SocketInv' /\ Keeps
  BY <1>7, ChangeLeaderCalm
<1> QED BY <1>1, <1>2, <1>3, <1>4, <1>5, <1>6, <1>7 DEF Step

\* A stuttering step.
LEMMA SameRisk ==
    ASSUME UNCHANGED vars, NEW c \in Client, Calm(c)
    PROVE  Calm(c)'
<1> USE DEF vars, systemVars, docVars, serverVars
<1>1. /\ DOMAIN conn' = DOMAIN conn /\ Text' = Text
      /\ \A k : Registered(k)' = Registered(k)
  BY DEF Registered, Text, Final
<1>2. PageOf(c, page[c], Text)' /\ LineInv(c)'
  BY <1>1 DEF Calm, LineInv
<1>3. AtRisk(c)' = AtRisk(c)
  BY DEF AtRisk, CommitWhileConnecting, UnconfirmedWork, NodeBehind, TwoConnections, OldAnswer,
         Joins, AckOf, UnderWay, AnswerDue, Registered, HeadRev
<1> QED BY <1>2, <1>3 DEF Calm

\* The invariant is inductive together with SessionInv.
LEMMA NextPagesInv ==
    SessionInv /\ PagesInv /\ CalmInv /\ [Next]_vars => PagesInv' /\ CalmInv'
<1> SUFFICES ASSUME SessionInv, PagesInv, CalmInv, [Next]_vars PROVE PagesInv' /\ CalmInv'
  OBVIOUS
<1>1. CASE Next
  <2>1. MadeInv' /\ SocketInv' /\ Keeps
    BY <1>1, PagesStep DEF Next
  <2>2. HistoryInv'
    BY NextSessionInv, HistoryStep DEF SessionInv, PagesInv
  <2>3. ASSUME NEW c \in Client, c \notin exposed' PROVE Calm(c)'
    <3>1. c \notin exposed /\ ~AtRisk(c)'
      BY <1>1, <2>3 DEF Next, Watch
    <3>2. Calm(c)
      BY <3>1 DEF CalmInv
    <3>3. PageOf(c, page[c], Text)' /\ LineInv(c)'
      BY <2>1, <3>1, <3>2 DEF Keeps
    <3> QED BY <3>1, <3>3 DEF Calm
  <2> QED BY <2>1, <2>2, <2>3 DEF PagesInv, CalmInv
<1>2. CASE UNCHANGED vars
  <2>1. exposed' = exposed
    BY <1>2 DEF vars
  <2>2. \A c \in Client : Calm(c) => Calm(c)'
    BY <1>2, SameRisk
  <2>3. PagesInv'
    <3> USE DEF vars, systemVars, docVars, serverVars
    <3> QED BY <1>2, SameHistory DEF PagesInv, MadeInv, Made, SocketInv
  <2> QED BY <2>1, <2>2, <2>3 DEF CalmInv
<1> QED BY <1>1, <1>2

-----------------------------------------------------------------------------
(* The pages *)

\* The page invariant: the history grows into one text, entries are made in the
\* order of the pages' submissions, and the connection of every client that is
\* not exposed is a line from what its page has to what its node has.
THEOREM PagesInvariant == Spec => [](PagesInv /\ CalmInv)
  BY SessionInvariant, InitPages, NextPagesInv, PTL DEF Spec

\* What a page takes for the server's text of its revision is that text.
THEOREM PagesAlwaysInStep == Spec => []PagesInStep
<1>1. SessionInv /\ PagesInv /\ CalmInv => PagesInStep
  <2> SUFFICES ASSUME SessionInv, CalmInv, NEW c \in Client \ exposed PROVE InStep(c)
    BY DEF PagesInStep
  <2>1. PageOf(c, page[c], Text) /\ HeadRev(Final) = Len(Text)
    BY HistoryFields DEF CalmInv, Calm, SessionInv
  <2> QED BY <2>1 DEF PageOf, InStep, Text
<1> QED BY <1>1, SessionInvariant, PagesInvariant, PTL

\* A page that is connected to a node with nothing under way between them has
\* the node's text.
THEOREM QuietPagesAlwaysAgree == Spec => []QuietPagesAgree
<1>1. SessionInv /\ PagesInv /\ CalmInv => QuietPagesAgree
  <2> SUFFICES ASSUME SessionInv, PagesInv, CalmInv,
                      NEW c \in Client, c \notin exposed, NEW k \in DOMAIN conn,
                      page[c].ws = k, page[c].running, conn[k].up,
                      conn[k].stage = "serving", conn[k].outbox = <<>>,
                      callbacks[conn[k].node] = <<>>
               PROVE  page[c].base = doc[conn[k].node].revisions
    BY DEF QuietPagesAgree, Quiet, HasNodesText
  <2> PICK n \in Node : n = conn[k].node
    BY Handler
  <2>1. Calm(c) /\ k # 0
    BY DEF CalmInv, SessionInv, SystemInv, WireInv
  <2>2. conn[k].client = c
    BY <2>1 DEF PagesInv, SocketInv
  <2>3. Streaming(c, page[c], Text, conn[k], <<>>, doc[n])
    BY <2>1, <2>2, LineOf DEF Line
  <2>4. Due(c, page[c], Text, page[c].rev, <<>>, doc[n])
    BY <2>3 DEF Streaming, NoRedirect, After
  <2>5. page[c].rev = HeadRev(doc[n])
    BY <2>4 DEF Due, After
  <2>6. page[c].base = SubSeq(Text, 1, page[c].rev)
    BY <2>1 DEF Calm, PageOf
  <2>7. ~skipped[n]
    BY <2>1, <2>2, RegisteredCalm DEF SessionInv, Registered
  <2>8. /\ doc[n].revisions \in Seq(Revision) /\ HeadRev(doc[n]) = Len(doc[n].revisions)
        /\ HeadRev(doc[n]) \in Nat /\ Begins(doc[n].revisions, Text) /\ Text \in Seq(Revision)
    BY <2>7, NodeText, HistoryFields DEF SessionInv, PagesInv
  <2>9. \A s \in Seq(Revision), t \in Seq(Revision) :
           Begins(s, t) => SubSeq(t, 1, Len(s)) = s
    BY DEF Begins
  <2> QED BY <2>5, <2>6, <2>8, <2>9
<1> QED BY <1>1, SessionInvariant, PagesInvariant, PTL

\* What a page has submitted is committed, or the page still has it and waits.
THEOREM NothingEverLost == Spec => []NothingLost
<1>1. SessionInv /\ PagesInv /\ CalmInv => NothingLost
  <2> SUFFICES ASSUME SessionInv, CalmInv, NEW c \in Client, c \notin exposed,
                      NEW s \in 1..page[c].sub,
                      ~(s = page[c].sub /\ page[c].waiting /\ page[c].pending)
               PROVE  \E i \in DOMAIN Final.revisions :
                         Final.revisions[i] = [client |-> c, sub |-> s]
    BY DEF NothingLost
  <2>1. PageOf(c, page[c], Text)
    BY DEF CalmInv, Calm
  <2>2. s < page[c].sub \/ ~page[c].waiting
    BY <2>1, PageFields DEF PageOf, SessionInv, SystemInv
  <2>3. \E r : Among(c, s, Text, r)
    BY <2>1, <2>2 DEF PageOf
  <2> QED BY <2>3 DEF Among, Text
<1> QED BY <1>1, SessionInvariant, PagesInvariant, PTL
=============================================================================
