---------------------------- MODULE CommitProofs ----------------------------
(***************************************************************************)
(* What is committed is never lost, for every bound and with nodes that    *)
(* crash, as long as both races of Raft are closed and the stable stores   *)
(* fail no write: for clusters of every size if the log stores never       *)
(* refuse a write, and for clusters of up to three nodes if they do.       *)
(*                                                                         *)
(* Next to the leaders' logs of LogProofs the argument needs to know       *)
(* who once held what: acks is the set of all <<t, v, i>> such that node v *)
(* held, while in term t, the entry that the leader of t put at index i.   *)
(* An entry that a majority acknowledged in its own term is chosen; one    *)
(* that a majority in later terms never acknowledged is blocked, for good. *)
(* The heart of the invariant (SafeInv) is that a leader's log holds every *)
(* entry of earlier terms that is not blocked.                             *)
(*                                                                         *)
(* The bound on the size of a cluster with failing stores is the code's.   *)
(* advanceCommitIndex does not look at the role, so a node that no longer  *)
(* leads may commit an entry of the present leader on the strength of a    *)
(* matchIndex of its own leadership.  Two nodes, it and the leader, hold   *)
(* such an entry for sure, and among three nodes two are a majority.  The  *)
(* entry has to follow entries of an earlier term that the deposed leader  *)
(* sent to a majority without its own no-op behind them, which happens     *)
(* only if the store refused the no-op: if no store fails, what a majority *)
(* reported ends in an entry of the deposed leader's own term, and that    *)
(* node commits nothing of a later one (DeposedCommitsNothing).            *)
(***************************************************************************)
EXTENDS LogProofs

Ack(acks, t, v, i) == <<t, v, i>> \in acks

Chosen(acks, t, i) == \E Q \in Quorums : \A v \in Q : Ack(acks, t, v, i)

Blocked(acks, t, i) ==
    \E Q \in Quorums : \A v \in Q : currentTerm[v] > t /\ ~Ack(acks, t, v, i)

\* Acknowledged is what a node holds of its own term.
AckGrows(acks, new) ==
    \A t \in Nat, v \in Server, i \in Nat :
        Ack(new, t, v, i) <=> \/ Ack(acks, t, v, i)
                              \/ t = currentTerm'[v] /\ Holds(log'[v], i, t)

LedOrdered(led) == \A t \in Nat : Ordered(led[t], t)

\* The leaders' logs, and what is known of them from LogProofs.
WellLed(led) ==
    /\ LogPerTerm(led) /\ TypeOK /\ ElectionInv /\ TermsLed /\ OrderInv
    /\ MatchInv(led) /\ LedOrdered(led)

\* An acknowledged entry was the leader's; a node that no longer holds it has
\* left its term, and the entry is blocked.
AckInv(led, acks) ==
    /\ \A v \in Server, i \in Nat :
          Holds(log[v], i, currentTerm[v]) => Ack(acks, currentTerm[v], v, i)
    /\ \A t \in Nat, v \in Server, i \in Nat : Ack(acks, t, v, i) =>
          /\ t <= currentTerm[v] /\ Holds(led[t], i, t)
          /\ Holds(log[v], i, t) \/ (t < currentTerm[v] /\ Blocked(acks, t, i))
    /\ \A t \in Nat, n \in Server, i \in Nat :
          <<t, n>> \in leaders /\ Holds(led[t], i, t) => Ack(acks, t, n, i)

SafeInv(led, acks) ==
    \A u \in Nat, n \in Server, t \in Nat, i \in Nat :
        <<u, n>> \in leaders /\ t < u => Holds(led[u], i, t) \/ Blocked(acks, t, i)

\* The loops in which a node's log is the one it asked for votes with.
Elected == {"candidate", "starting"}

\* Whoever votes for a node finds its own acknowledged entries in that node's log.
VoteSafe(acks) ==
    /\ \A t \in Nat, v \in Server, n \in Server :
          <<t, v, n>> \in ballots => t <= currentTerm[n]
    /\ \A m \in net : m.type = "RequestVote" =>
          /\ m.term <= currentTerm[m.from]
          /\ m.term = currentTerm[m.from] /\ loop[m.from] \in Elected =>
                /\ m.lastLogIndex = Len(log[m.from])
                /\ m.lastLogTerm = LastTerm(log[m.from])
    /\ \A n \in Server, v \in Server, t \in Nat, i \in Nat :
          /\ loop[n] \in Elected /\ <<currentTerm[n], v, n>> \in ballots
          /\ t < currentTerm[n] /\ Ack(acks, t, v, i)
          => Holds(log[n], i, t) \/ Blocked(acks, t, i)

\* Unless disks fail, the last entry that a peer reported is the leader's own.
OwnEntry(led, t, k) == ~DiskFaults /\ k > 0 => Holds(led[t], k, t)

\* Node p holds the first k entries of the leader of t, if it is still in t, and
\* acknowledged those of them that are of term t.
PeerHolds(led, acks, p, t, k) ==
    /\ k <= Len(led[t])
    /\ \A i \in 1..k : led[t][i].term = t => Ack(acks, t, p, i)
    /\ k > 0 => currentTerm[p] >= t
    /\ k > 0 /\ currentTerm[p] = t => AgreeUpTo(log[p], led[t], k)

\* What a node has recorded of its peers in the term in which it led last, and
\* what is on its way to it.
PeerInv(led, acks) ==
    /\ \A n \in Server :
          /\ state[n] = "Leader" => peersTerm[n] = currentTerm[n]
          /\ peersTerm[n] > 0 => <<peersTerm[n], n>> \in leaders
          /\ \A p \in Server :
                /\ PeerHolds(led, acks, p, peersTerm[n], matchIndex[n][p])
                /\ OwnEntry(led, peersTerm[n], matchIndex[n][p])
    /\ \A m \in net : m.type = "Appended" /\ m.success =>
          /\ PeerHolds(led, acks, m.from, m.call, m.last)
          /\ OwnEntry(led, m.call, m.last)

\* runLeader appends its no-op before it has an answer, so that what it sends
\* ends with an entry of its own, unless the store refused the no-op.
SentInv ==
    /\ \A n \in Server : loop[n] = "starting" =>
          \A p \in Server : nextIndex[n][p] = Len(log[n]) + 1
    /\ ~DiskFaults =>
          /\ \A n \in Server : state[n] = "Leader" /\ loop[n] = "leader" =>
                Holds(log[n], Len(log[n]), currentTerm[n])
          /\ \A m \in net : m.type = "AppendEntries" /\ m.entries # <<>> =>
                m.entries[Len(m.entries)].term = m.term

\* A node that led its term and leads no more (it crashed) has no calls left.
CallsInv ==
    \A n \in Server : <<currentTerm[n], n>> \in leaders /\ state[n] # "Leader" =>
        \A m \in net : ~IsCallOf(n, m)

\* The first c entries of l are those of a leader, up to a chosen entry of its
\* term, and that term is T or an earlier one.
CommittedBy(led, acks, l, c, T) ==
    /\ c <= Len(l)
    /\ c > 0 => \E t \in Nat, i \in Nat : /\ t <= T /\ Chosen(acks, t, i) /\ c <= i
                                          /\ AgreeUpTo(l, led[t], c)

CommInv(led, acks) ==
    /\ \E T \in Nat : CommittedBy(led, acks, committed, Len(committed), T)
    /\ \A n \in Server :
          /\ commitIndex[n] <= Len(committed)
          /\ CommittedBy(led, acks, log[n], commitIndex[n], currentTerm[n])
    /\ \A m \in net : m.type = "AppendEntries" =>
          /\ m.leaderCommit <= Len(committed)
          /\ m.leaderCommit <= m.prevLogIndex + Len(m.entries)
          /\ CommittedBy(led, acks, led[m.term], m.leaderCommit, m.term)

-----------------------------------------------------------------------------
(* Logs *)

LEMMA HoldsPrefix ==
    ASSUME NEW k \in Seq(Entry), NEW l \in Seq(Entry), IsPrefixOf(k, l),
           NEW i \in Nat, NEW t, Holds(k, i, t)
    PROVE  Holds(l, i, t)
  BY DEF IsPrefixOf, Holds

LEMMA HoldsAgree ==
    ASSUME NEW k \in Seq(Entry), NEW l \in Seq(Entry), NEW c \in Nat, AgreeUpTo(k, l, c),
           NEW i \in Nat, i <= c, NEW t, Holds(k, i, t)
    PROVE  Holds(l, i, t)
  BY DEF AgreeUpTo, Holds

LEMMA AgreeLess ==
    ASSUME NEW k \in Seq(Entry), NEW l \in Seq(Entry), NEW c \in Nat, NEW d \in Nat,
           d <= c, AgreeUpTo(k, l, c)
    PROVE  AgreeUpTo(k, l, d)
  BY DEF AgreeUpTo

LEMMA AgreeSymmetric ==
    ASSUME NEW k, NEW l, NEW c, AgreeUpTo(k, l, c)
    PROVE  AgreeUpTo(l, k, c)
  BY DEF AgreeUpTo

LEMMA AgreeTransitive ==
    ASSUME NEW j, NEW k, NEW l, NEW c, AgreeUpTo(j, k, c), AgreeUpTo(k, l, c)
    PROVE  AgreeUpTo(j, l, c)
  BY DEF AgreeUpTo

LEMMA AgreePrefix ==
    ASSUME NEW j \in Seq(Entry), NEW k \in Seq(Entry), NEW l \in Seq(Entry),
           NEW c \in Nat, AgreeUpTo(j, k, c), IsPrefixOf(k, l)
    PROVE  AgreeUpTo(j, l, c)
<1>1. DOMAIN k = 1..Len(k) /\ Len(k) \in Nat /\ Len(l) \in Nat
  OBVIOUS
<1> QED BY <1>1 DEF AgreeUpTo, IsPrefixOf

\* Up to an entry of term t a log is that of the leader of t.
LEMMA HeldIsLed ==
    ASSUME NEW led, LogPerTerm(led), NEW l \in Seq(Entry), FollowsLeaders(led, l),
           NEW i \in Nat, NEW t, Holds(l, i, t)
    PROVE  AgreeUpTo(l, led[t], i) /\ Holds(led[t], i, t)
<1>1. i \in 1..Len(l) /\ l[i].term = t
  BY DEF Holds
<1>2. AgreeUpTo(l, led[t], i)
  BY <1>1 DEF FollowsLeaders
<1>3. t \in Nat
  BY <1>1, EntryTerms
<1>4. led[t] \in Seq(Entry)
  BY <1>3, LedLog
<1> QED BY <1>1, <1>2, <1>4 DEF AgreeUpTo, Holds

\* Terms in order at neighbours are in order at any distance.
LEMMA OrderedTerms ==
    ASSUME NEW l \in Seq(Entry), NEW t, Ordered(l, t),
           NEW i \in 1..Len(l), NEW j \in 1..Len(l), i <= j
    PROVE  l[i].term <= l[j].term
<1> DEFINE S == {k \in i..Len(l) : ~(l[i].term <= l[k].term)}
<1>1. \A k \in 1..Len(l) : l[k].term \in Nat
  BY EntryTerms
<1>2. SUFFICES ASSUME S # {} PROVE FALSE
  OBVIOUS
<1>3. S \in SUBSET Nat
  OBVIOUS
<1>4. PICK k \in S : \A x \in S : k <= x
  <2> HIDE DEF S
  <2> QED BY <1>2, <1>3, MinExists
<1>5. k \in i..Len(l) /\ ~(l[i].term <= l[k].term)
  BY <1>4
<1>6. k # i
  BY <1>1, <1>5
<1>7. /\ k - 1 \in i..Len(l) /\ k > 1 /\ k \in DOMAIN l
      /\ k - 1 \in 1..Len(l) /\ k \in 1..Len(l)
  BY <1>5, <1>6
<1>8. l[i].term <= l[k - 1].term
  <2>1. k - 1 \notin S
    <3>1. k \in Nat /\ ~(k <= k - 1)
      BY <1>5
    <3> HIDE DEF S
    <3> QED BY <1>4, <3>1
  <2> QED BY <1>7, <2>1
<1>9. l[k - 1].term <= l[k].term
  BY <1>7 DEF Ordered
<1> QED BY <1>1, <1>5, <1>7, <1>8, <1>9

\* A leader's log exists only if its term had a leader.
LEMMA LedHasLeader ==
    ASSUME NEW led, WellLed(led), NEW t \in Nat, NEW i, Holds(led[t], i, t)
    PROVE  \E n \in Server : <<t, n>> \in leaders
<1>1. led[t] # <<>>
  BY DEF Holds
<1> QED BY <1>1 DEF WellLed, MatchInv, LedLogs

LEMMA WellLedLog ==
    ASSUME NEW led, WellLed(led), NEW t \in Nat
    PROVE  /\ led[t] \in Seq(Entry) /\ FollowsLeaders(led, led[t])
           /\ Ordered(led[t], t)
  BY LedLog DEF WellLed, MatchInv, LedLogs, LedOrdered

LEMMA WellLedNode ==
    ASSUME NEW led, WellLed(led), NEW n \in Server
    PROVE  /\ log[n] \in Seq(Entry) /\ FollowsLeaders(led, log[n])
           /\ Ordered(log[n], currentTerm[n]) /\ currentTerm[n] \in Nat
           /\ state[n] = "Leader" => log[n] = led[currentTerm[n]]
  BY DEF WellLed, TypeOK, OrderInv, MatchInv, LedLogs

-----------------------------------------------------------------------------
(* Chosen and blocked entries *)

LEMMA ChosenNotBlocked ==
    ASSUME NEW acks, NEW t, NEW i, Chosen(acks, t, i)
    PROVE  ~Blocked(acks, t, i)
<1> SUFFICES ASSUME Blocked(acks, t, i) PROVE FALSE
  OBVIOUS
<1>1. PICK P \in Quorums : \A v \in P : Ack(acks, t, v, i)
  BY DEF Chosen
<1>2. PICK Q \in Quorums : \A v \in Q : ~Ack(acks, t, v, i)
  BY DEF Blocked
<1>3. PICK v : v \in P /\ v \in Q
  BY QuorumsIntersect
<1> QED BY <1>1, <1>2, <1>3

LEMMA QuorumMembers ==
    ASSUME NEW Q \in Quorums
    PROVE  Q \subseteq Server /\ \E v \in Server : v \in Q
  BY QuorumsIntersect DEF Quorums

LEMMA ChosenGrows ==
    ASSUME NEW acks, NEW new, AckGrows(acks, new), NEW t \in Nat, NEW i \in Nat,
           Chosen(acks, t, i)
    PROVE  Chosen(new, t, i)
  BY QuorumMembers DEF Chosen, AckGrows

LEMMA BlockedStable ==
    ASSUME TypeOK, TypeOK', \A p \in Server : currentTerm'[p] >= currentTerm[p],
           NEW acks, NEW new, AckGrows(acks, new), NEW t \in Nat, NEW i \in Nat,
           Blocked(acks, t, i)
    PROVE  Blocked(new, t, i)'
<1>1. PICK Q \in Quorums : \A v \in Q : currentTerm[v] > t /\ ~Ack(acks, t, v, i)
  BY DEF Blocked
<1>2. \A v \in Q : currentTerm'[v] > t /\ ~Ack(new, t, v, i)
  <2> TAKE v \in Q
  <2>1. v \in Server
    BY QuorumMembers
  <2>2. currentTerm[v] \in Nat /\ currentTerm'[v] \in Nat /\ currentTerm'[v] > t
    BY <1>1, <2>1 DEF TypeOK
  <2> QED BY <1>1, <2>1, <2>2 DEF AckGrows
<1> QED BY <1>2 DEF Blocked, Ack, Quorums, Quorum

\* An entry that is chosen is in the log of its leader and of every later one,
\* and these logs agree up to there.
LEMMA ChosenIsLed ==
    ASSUME NEW led, WellLed(led), NEW acks, AckInv(led, acks), SafeInv(led, acks),
           NEW t \in Nat, NEW i \in Nat, Chosen(acks, t, i)
    PROVE  /\ Holds(led[t], i, t)
           /\ \A u \in Nat, n \in Server : <<u, n>> \in leaders /\ t <= u =>
                 Holds(led[u], i, t) /\ AgreeUpTo(led[t], led[u], i)
           /\ \E Q \in Quorums : \A v \in Q :
                 v \in Server /\ t <= currentTerm[v] /\ Holds(log[v], i, t)
<1>1. PICK Q \in Quorums : \A v \in Q : Ack(acks, t, v, i)
  BY DEF Chosen
<1>2. ~Blocked(acks, t, i)
  BY ChosenNotBlocked
<1>3. \A v \in Q : v \in Server /\ t <= currentTerm[v] /\ Holds(log[v], i, t)
  BY <1>1, <1>2, QuorumMembers DEF AckInv
<1>4. Holds(led[t], i, t)
  BY <1>1, QuorumMembers DEF AckInv
<1>5. ASSUME NEW u \in Nat, NEW n \in Server, <<u, n>> \in leaders, t <= u
      PROVE  Holds(led[u], i, t) /\ AgreeUpTo(led[t], led[u], i)
  <2>1. Holds(led[u], i, t)
    BY <1>2, <1>4, <1>5 DEF SafeInv
  <2>2. LogPerTerm(led) /\ led[u] \in Seq(Entry) /\ FollowsLeaders(led, led[u])
    BY WellLedLog DEF WellLed
  <2> QED BY <2>1, <2>2, HeldIsLed, AgreeSymmetric
<1> QED BY <1>3, <1>4, <1>5

\* What is committed by term T is in the log of every leader from T on.
LEMMA CommittedIsLed ==
    ASSUME NEW led, WellLed(led), NEW acks, AckInv(led, acks), SafeInv(led, acks),
           NEW l \in Seq(Entry), NEW c \in Nat, NEW T \in Nat,
           CommittedBy(led, acks, l, c, T),
           NEW u \in Nat, NEW n \in Server, <<u, n>> \in leaders, T <= u
    PROVE  AgreeUpTo(l, led[u], c)
<1>1. led[u] \in Seq(Entry) /\ c <= Len(l)
  BY WellLedLog DEF CommittedBy
<1>2. CASE c = 0
  BY <1>1, <1>2 DEF AgreeUpTo
<1>3. CASE c > 0
  <2>1. PICK t \in Nat, i \in Nat : /\ t <= T /\ Chosen(acks, t, i) /\ c <= i
                                    /\ AgreeUpTo(l, led[t], c)
    BY <1>3 DEF CommittedBy
  <2>2. AgreeUpTo(led[t], led[u], i)
    BY <2>1, ChosenIsLed
  <2>3. led[t] \in Seq(Entry)
    BY WellLedLog
  <2>4. AgreeUpTo(led[t], led[u], c)
    BY <1>1, <2>1, <2>2, <2>3, AgreeLess
  <2> QED BY <2>1, <2>4, AgreeTransitive
<1> QED BY <1>2, <1>3

\* Two committed logs agree as far as both go.
LEMMA CommittedAgree ==
    ASSUME NEW led, WellLed(led), NEW acks, AckInv(led, acks), SafeInv(led, acks),
           NEW k \in Seq(Entry), NEW c \in Nat, NEW T \in Nat,
           CommittedBy(led, acks, k, c, T),
           NEW l \in Seq(Entry), NEW d \in Nat, NEW U \in Nat,
           CommittedBy(led, acks, l, d, U), c <= d
    PROVE  AgreeUpTo(k, l, c)
<1>1. c <= Len(k) /\ d <= Len(l)
  BY DEF CommittedBy
<1>2. CASE c = 0
  BY <1>1, <1>2 DEF AgreeUpTo
<1>3. CASE c > 0
  <2>1. PICK t \in Nat, i \in Nat : /\ Chosen(acks, t, i) /\ c <= i
                                    /\ AgreeUpTo(k, led[t], c)
    BY <1>3 DEF CommittedBy
  <2>2. PICK u \in Nat, j \in Nat : /\ Chosen(acks, u, j) /\ d <= j
                                    /\ AgreeUpTo(l, led[u], d)
    BY <1>3 DEF CommittedBy
  <2>3. led[t] \in Seq(Entry) /\ led[u] \in Seq(Entry)
    BY WellLedLog
  <2>4. AgreeUpTo(l, led[u], c)
    BY <2>2, <2>3, AgreeLess
  <2>5. AgreeUpTo(led[t], led[u], c)
    <3>1. CASE t <= u
      <4>1. \E n \in Server : <<u, n>> \in leaders
        BY <2>2, ChosenIsLed, LedHasLeader
      <4>2. AgreeUpTo(led[t], led[u], i)
        BY <2>1, <3>1, <4>1, ChosenIsLed
      <4> QED BY <2>1, <2>3, <4>2, AgreeLess
    <3>2. CASE u <= t
      <4>1. \E n \in Server : <<t, n>> \in leaders
        BY <2>1, ChosenIsLed, LedHasLeader
      <4>2. AgreeUpTo(led[u], led[t], j)
        BY <2>2, <3>2, <4>1, ChosenIsLed
      <4>3. AgreeUpTo(led[u], led[t], c)
        BY <2>2, <2>3, <4>2, AgreeLess
      <4> QED BY <4>3, AgreeSymmetric
    <3> QED BY <3>1, <3>2
  <2> QED BY <2>1, <2>4, <2>5, AgreeSymmetric, AgreeTransitive
<1> QED BY <1>2, <1>3

-----------------------------------------------------------------------------
(* What a step leaves of a log *)

\* A follower that takes entries is in the term of their leader.
LEMMA TakesTerm ==
    ASSUME TypeOK, ElectionInv, NEW m \in net, Takes(m.to, m)
    PROVE  /\ m.to \in Server /\ m.from \in Server /\ m.term \in Nat
           /\ currentTerm'[m.to] = m.term /\ currentTerm[m.to] <= m.term
           /\ <<m.term, m.from>> \in leaders
           /\ state'[m.to] = "Follower" /\ loop'[m.to] = "follower"
<1>1. m.to \in Server /\ m.from \in Server /\ m.term \in Nat
  BY MessageFields
<1> QED BY <1>1 DEF Takes, FollowLeader, TypeOK, ElectionInv, RecordInv

\* It keeps everything in which it agrees with that leader.
LEMMA TakeKeeps ==
    ASSUME NEW led, WellLed(led), NEW m \in net, Takes(m.to, m),
           NEW c \in Nat, AgreeUpTo(log[m.to], led[m.term], c)
    PROVE  AgreeUpTo(log'[m.to], log[m.to], c)
<1>1. /\ TypeOK /\ TermsLed /\ LogPerTerm(led) /\ MatchInv(led)
      /\ m.type = "AppendEntries" /\ PassesCheck(m.to, m)
      /\ m.to \in Server /\ m.term \in Nat
  BY TakesTerm DEF WellLed, Takes
<1>2. PICK k : CutWithin(led, m, k)
  BY <1>1, CheckedCut
<1>3. PICK l : l = log[m.to]
  OBVIOUS
<1>4. led[m.term] \in Seq(Entry) /\ IsPrefixOf(k, led[m.term])
  BY <1>1, <1>2, LedLog DEF CutWithin
<1>5. \A x \in Seq(Entry), i \in Nat : IsPrefixOf(k, x) /\ AgreeUpTo(l, x, i) =>
         /\ AgreeUpTo(Truncated(l, m.prevLogIndex, m.entries), l, i)
         /\ AgreeUpTo(Merged(l, m.prevLogIndex, m.entries), l, i)
  BY <1>1, <1>2, <1>3, TakeFollows
<1>6. /\ AgreeUpTo(Truncated(l, m.prevLogIndex, m.entries), l, c)
      /\ AgreeUpTo(Merged(l, m.prevLogIndex, m.entries), l, c)
  BY <1>3, <1>4, <1>5
<1>7. \/ log'[m.to] = Merged(l, m.prevLogIndex, m.entries)
      \/ log'[m.to] = Truncated(l, m.prevLogIndex, m.entries)
  BY <1>1, <1>3 DEF Takes, TypeOK
<1> QED BY <1>3, <1>6, <1>7

LEMMA LogKept ==
    ASSUME NEW led, WellLed(led), [Next]_vars,
           NEW v \in Server, NEW c \in Nat, c <= Len(log[v]),
           \A m \in net : m.to = v /\ Takes(v, m) => AgreeUpTo(log[v], led[m.term], c)
    PROVE  AgreeUpTo(log'[v], log[v], c)
<1>1. TypeOK /\ log[v] \in Seq(Entry)
  BY WellLedNode DEF WellLed
<1>2. CASE log'[v] = log[v]
  BY <1>1, <1>2 DEF AgreeUpTo
<1>3. ASSUME NEW n \in Server, Appends(n), log'[v] # log[v]
      PROVE  AgreeUpTo(log'[v], log[v], c)
  <2>1. v \in DOMAIN log /\ \E e : log' = [log EXCEPT ![n] = Append(log[n], e)]
    BY <1>1, <1>3 DEF Appends, Appended, TypeOK
  <2>2. \E e : log'[v] = Append(log[v], e)
    BY <1>3, <2>1
  <2> QED BY <1>1, <2>2 DEF AgreeUpTo
<1>4. ASSUME NEW m \in net, Takes(m.to, m), log'[v] # log[v]
      PROVE  AgreeUpTo(log'[v], log[v], c)
  <2>1. m.to = v
    BY <1>1, <1>4 DEF Takes, TypeOK
  <2> QED BY <1>4, <2>1, TakeKeeps
<1> QED BY <1>1, <1>2, <1>3, <1>4, StepLogs

\* The log of a node that runs for election, or has just won, stays as it is.
LEMMA ElectedKeepsLog ==
    ASSUME Races = {}, TypeOK, ElectionInv, TermsLed, ElectionInv', [Next]_vars,
           NEW n \in Server, loop'[n] \in Elected
    PROVE  /\ log'[n] = log[n]
           /\ currentTerm'[n] = currentTerm[n] => loop[n] \in Elected
<1>1. /\ state[n] = "Candidate" <=> loop[n] = "candidate"
      /\ state'[n] = "Candidate" <=> loop'[n] = "candidate"
  BY DEF ElectionInv, RoleInv
<1>2. state[n] \in States /\ currentTerm[n] \in Nat
  BY DEF TypeOK
<1>3. NodeStep(n)
  BY StepRoles
<1>4. currentTerm'[n] = currentTerm[n] => loop[n] \in Elected
  <2>1. CASE KeepsRole(n)
    BY <1>1, <1>2, <2>1 DEF KeepsRole, Elected, LoopOf, States
  <2>2. CASE StepsDown(n)
    BY <1>1, <2>2 DEF StepsDown, Elected
  <2>3. CASE Follows(n)
    BY <2>3 DEF Follows, Elected
  <2>4. CASE Runs(n) \/ Wins(n)
    BY <1>2, <2>4 DEF Runs, Wins, Elected
  <2> QED BY <1>3, <2>1, <2>2, <2>3, <2>4 DEF NodeStep
<1>5. ASSUME NEW m \in net, Takes(m.to, m) PROVE log'[n] = log[n]
  <2>1. m.to # n
    BY <1>5, TakesTerm DEF Elected
  <2> QED BY <1>5, <2>1 DEF Takes, TypeOK
<1>6. ASSUME NEW q \in Server, Appends(q) PROVE log'[n] = log[n]
  <2>1. CASE q = n
    <3>1. /\ loop[n] \in {"starting", "leader"} /\ state[n] = "Leader"
          /\ state'[n] = "Leader" /\ currentTerm'[n] = currentTerm[n]
      BY <1>6, <2>1 DEF Appends, TermsLed
    <3> QED BY <1>1, <1>6, <2>1, <3>1 DEF Appends, Elected
  <2>2. CASE q # n
    BY <1>6, <2>2 DEF Appends, TypeOK
  <2> QED BY <2>1, <2>2
<1> QED BY <1>4, <1>5, <1>6, StepLogs

-----------------------------------------------------------------------------
(* Steps.  The leaders' logs grow as in LogProofs, and every node             *)
(* acknowledges what it holds of its term.                                    *)

GhostStep(led, new, acks, acked) ==
    /\ Races = {} /\ [Next]_vars
    /\ WellLed(led) /\ LogPerTerm(new) /\ WellLed(new)' /\ LedGrows(led, new)
    /\ AckGrows(acks, acked)

LEMMA StepFacts ==
    ASSUME NEW led, NEW new, NEW acks, NEW acked, GhostStep(led, new, acks, acked)
    PROVE  /\ Races = {} /\ [Next]_vars /\ AckGrows(acks, acked)
           /\ WellLed(led) /\ LogPerTerm(led) /\ LogPerTerm(new)
           /\ TypeOK /\ TypeOK' /\ ElectionInv /\ ElectionInv' /\ TermsLed /\ TermsLed'
           /\ \A p \in Server : /\ currentTerm[p] \in Nat /\ currentTerm'[p] \in Nat
                                /\ currentTerm'[p] >= currentTerm[p]
           /\ \A t \in Nat : /\ led[t] \in Seq(Entry) /\ new[t] \in Seq(Entry)
                             /\ IsPrefixOf(led[t], new[t])
<1>1. /\ Races = {} /\ [Next]_vars /\ AckGrows(acks, acked)
      /\ WellLed(led) /\ LogPerTerm(led) /\ LogPerTerm(new) /\ LedGrows(led, new)
      /\ TypeOK /\ TypeOK' /\ ElectionInv /\ ElectionInv' /\ TermsLed /\ TermsLed'
  BY DEF GhostStep, WellLed
<1>2. \A p \in Server : /\ currentTerm[p] \in Nat /\ currentTerm'[p] \in Nat
                        /\ currentTerm'[p] >= currentTerm[p]
  BY <1>1, TermsKept DEF ElectionInv
<1>3. \A t \in Nat : /\ led[t] \in Seq(Entry) /\ new[t] \in Seq(Entry)
                     /\ IsPrefixOf(led[t], new[t])
  BY <1>1, LedLog DEF LedGrows
<1> QED BY <1>1, <1>2, <1>3

\* What the leaders' logs and a node's log say in the next state.
LEMMA NextLog ==
    ASSUME NEW led, NEW new, NEW acks, NEW acked, GhostStep(led, new, acks, acked),
           NEW n \in Server
    PROVE  /\ log'[n] \in Seq(Entry) /\ FollowsLeaders(new, log'[n])
           /\ state'[n] = "Leader" => log'[n] = new[currentTerm'[n]]
<1>1. TypeOK' /\ LedLogs(new)'
  BY DEF GhostStep, WellLed, MatchInv
<1>2. \A i \in 1..Len(log'[n]) : AgreeUpTo(log'[n], new[log'[n][i].term], i)
  BY <1>1 DEF LedLogs, FollowsLeaders, AgreeUpTo
<1> QED BY <1>1, <1>2 DEF TypeOK, LedLogs, FollowsLeaders

LEMMA NextBlocked ==
    ASSUME NEW led, NEW new, NEW acks, NEW acked, GhostStep(led, new, acks, acked),
           NEW t \in Nat, NEW i \in Nat, Blocked(acks, t, i)
    PROVE  Blocked(acked, t, i)'
  BY StepFacts, BlockedStable

\* A leader's log that grew is that of a node that leads now.
LEMMA NextLed ==
    ASSUME NEW led, NEW new, NEW acks, NEW acked, GhostStep(led, new, acks, acked),
           NEW t \in Nat, new[t] # led[t]
    PROVE  \E n \in Server : /\ state'[n] = "Leader" /\ currentTerm'[n] = t
                             /\ log'[n] = new[t] /\ <<t, n>> \in leaders'
<1>1. PICK n \in Server : state'[n] = "Leader" /\ currentTerm'[n] = t
  BY DEF GhostStep, LedGrows
<1>2. <<t, n>> \in leaders'
  BY <1>1, StepFacts DEF ElectionInv, RecordInv
<1> QED BY <1>1, <1>2, NextLog

\* A node that is recorded as a leader in this step leads now.
LEMMA NextLeader ==
    ASSUME NEW led, NEW new, NEW acks, NEW acked, GhostStep(led, new, acks, acked),
           NEW t, NEW n, <<t, n>> \in leaders', <<t, n>> \notin leaders
    PROVE  /\ n \in Server /\ state'[n] = "Leader" /\ currentTerm'[n] = t
           /\ loop'[n] = "starting"
<1>1. PICK p \in Server : Wins(p)
  BY StepFacts, StepRoles
<1>2. <<t, n>> = <<currentTerm'[p], p>>
  BY <1>1 DEF Wins
<1> QED BY <1>1, <1>2 DEF Wins

LEMMA NextElectionSafe ==
    ASSUME NEW led, NEW new, NEW acks, NEW acked, GhostStep(led, new, acks, acked),
           NEW t, NEW n, NEW p, <<t, n>> \in leaders', <<t, p>> \in leaders'
    PROVE  n = p
<1>1. (LeadersSupported => ElectionSafety)'
  BY OneLeaderPerTerm, PTL
<1>2. ElectionSafety'
  BY <1>1, StepFacts DEF ElectionInv, VoteInv
<1> QED BY <1>2 DEF ElectionSafety

\* An entry that a node held in or before its term it still holds, unless a later
\* leader removed it: then it is blocked.
LEMMA EntryKept ==
    ASSUME NEW led, NEW new, NEW acks, NEW acked, GhostStep(led, new, acks, acked),
           SafeInv(led, acks), NEW v \in Server, NEW t \in Nat, NEW i \in Nat,
           Holds(log[v], i, t), t <= currentTerm[v]
    PROVE  Holds(log'[v], i, t) \/ (t < currentTerm'[v] /\ Blocked(acks, t, i))
<1>1. /\ WellLed(led) /\ LogPerTerm(led) /\ TypeOK /\ ElectionInv /\ [Next]_vars
      /\ log[v] \in Seq(Entry) /\ FollowsLeaders(led, log[v]) /\ log'[v] \in Seq(Entry)
      /\ currentTerm[v] \in Nat
  BY StepFacts, WellLedNode, NextLog
<1>2. AgreeUpTo(log[v], led[t], i) /\ i <= Len(log[v])
  BY <1>1, HeldIsLed DEF Holds
<1>3. CASE \E m \in net : m.to = v /\ Takes(v, m) /\ ~Holds(led[m.term], i, t)
  <2>1. PICK m \in net : m.to = v /\ Takes(v, m) /\ ~Holds(led[m.term], i, t)
    BY <1>3
  <2>2. /\ m.term \in Nat /\ currentTerm'[v] = m.term /\ currentTerm[v] <= m.term
        /\ m.from \in Server /\ <<m.term, m.from>> \in leaders
    BY <1>1, <2>1, TakesTerm
  <2>3. t # m.term
    BY <1>1, <2>1, HeldIsLed
  <2>4. t < m.term
    BY <1>1, <2>2, <2>3
  <2> QED BY <2>1, <2>2, <2>4 DEF SafeInv
<1>4. CASE \A m \in net : m.to = v /\ Takes(v, m) => Holds(led[m.term], i, t)
  <2>1. ASSUME NEW m \in net, m.to = v, Takes(v, m)
        PROVE  AgreeUpTo(log[v], led[m.term], i)
    <3>1. m.term \in Nat
      BY <1>1, <2>1, TakesTerm
    <3>2. led[m.term] \in Seq(Entry) /\ FollowsLeaders(led, led[m.term])
      BY <1>1, <3>1, WellLedLog
    <3>3. AgreeUpTo(led[m.term], led[t], i)
      BY <1>1, <1>4, <2>1, <3>2, HeldIsLed
    <3> QED BY <1>2, <3>3, AgreeSymmetric, AgreeTransitive
  <2>2. AgreeUpTo(log'[v], log[v], i)
    BY <1>1, <1>2, <2>1, LogKept
  <2>3. Holds(log'[v], i, t)
    BY <1>1, <2>2 DEF Holds, AgreeUpTo
  <2> QED BY <2>3
<1> QED BY <1>3, <1>4

LEMMA AckNext ==
    ASSUME NEW led, NEW new, NEW acks, NEW acked, GhostStep(led, new, acks, acked),
           AckInv(led, acks), SafeInv(led, acks)
    PROVE  AckInv(new, acked)'
<1>1. ASSUME NEW v \in Server, NEW i \in Nat, Holds(log'[v], i, currentTerm'[v])
      PROVE  Ack(acked, currentTerm'[v], v, i)
  BY <1>1, StepFacts DEF AckGrows
<1>2. ASSUME NEW t \in Nat, NEW v \in Server, NEW i \in Nat, Ack(acked, t, v, i)
      PROVE  /\ t <= currentTerm'[v] /\ Holds(new[t], i, t)
             /\ Holds(log'[v], i, t) \/ (t < currentTerm'[v] /\ Blocked(acked, t, i)')
  <2>1. CASE Ack(acks, t, v, i)
    <3>1. /\ t <= currentTerm[v] /\ Holds(led[t], i, t)
          /\ Holds(log[v], i, t) \/ (t < currentTerm[v] /\ Blocked(acks, t, i))
      BY <2>1 DEF AckInv
    <3>2. /\ currentTerm[v] \in Nat /\ currentTerm'[v] \in Nat
          /\ currentTerm'[v] >= currentTerm[v]
          /\ led[t] \in Seq(Entry) /\ new[t] \in Seq(Entry) /\ IsPrefixOf(led[t], new[t])
      BY StepFacts
    <3>3. t <= currentTerm'[v] /\ (t < currentTerm[v] => t < currentTerm'[v])
      BY <3>1, <3>2
    <3>4. Holds(new[t], i, t)
      BY <3>1, <3>2, HoldsPrefix
    <3>5. Holds(log'[v], i, t) \/ (t < currentTerm'[v] /\ Blocked(acks, t, i))
      BY <3>1, <3>3, EntryKept
    <3> QED BY <3>3, <3>4, <3>5, NextBlocked
  <2>2. CASE t = currentTerm'[v] /\ Holds(log'[v], i, t)
    <3>1. LogPerTerm(new) /\ log'[v] \in Seq(Entry) /\ FollowsLeaders(new, log'[v])
      BY StepFacts, NextLog
    <3>2. Holds(new[t], i, t)
      BY <2>2, <3>1, HeldIsLed
    <3>3. t <= currentTerm'[v]
      BY <2>2
    <3> QED BY <2>2, <3>2, <3>3, Zenon
  <2> QED BY <1>2, <2>1, <2>2, StepFacts DEF AckGrows
<1>3. ASSUME NEW t \in Nat, NEW n \in Server, NEW i \in Nat,
             <<t, n>> \in leaders', Holds(new[t], i, t)
      PROVE  Ack(acked, t, n, i)
  <2>1. CASE <<t, n>> \in leaders /\ new[t] = led[t]
    <3>1. Ack(acks, t, n, i)
      BY <1>3, <2>1 DEF AckInv
    <3> QED BY <3>1, StepFacts DEF AckGrows
  <2>2. CASE state'[n] = "Leader" /\ currentTerm'[n] = t
    <3>1. log'[n] = new[t]
      BY <2>2, NextLog
    <3> QED BY <1>1, <1>3, <2>2, <3>1
  <2>3. CASE <<t, n>> \notin leaders
    BY <1>3, <2>2, <2>3, NextLeader
  <2>4. CASE new[t] # led[t]
    <3>1. PICK q \in Server : /\ state'[q] = "Leader" /\ currentTerm'[q] = t
                              /\ <<t, q>> \in leaders'
      BY <2>4, NextLed
    <3>2. q = n
      BY <1>3, <3>1, NextElectionSafe
    <3> QED BY <2>2, <3>1, <3>2
  <2> QED BY <2>1, <2>3, <2>4
<1>4. \A v \in Server, i \in Nat :
         (Holds(log[v], i, currentTerm[v]))' <=> Holds(log'[v], i, currentTerm'[v])
  BY DEF Holds
<1>5. \A t \in Nat, v \in Server, i \in Nat :
         (Holds(log[v], i, t))' <=> Holds(log'[v], i, t)
  BY DEF Holds
<1> QED BY <1>1, <1>2, <1>3, <1>4, <1>5 DEF AckInv, Holds, Ack

-----------------------------------------------------------------------------
(* Votes *)

\* What a step does to ballots and to requests for votes.
VotesKept ==
    /\ ballots' = ballots
    /\ \A m \in net' : m.type = "RequestVote" => m \in net

LEMMA StepVotes ==
    ASSUME TypeOK, [Next]_vars
    PROVE  \/ VotesKept
           \/ \E n \in Server : StartElection(n)
           \/ \E m \in net : HandleRequestVote(m.to, m)
<1>1. CASE UNCHANGED vars
  BY <1>1 DEF vars, VotesKept
<1>2. ASSUME NEW n \in Server, \/ LeaveElection(n) \/ AppendNoOp(n)
                               \/ (\E v \in Value : HandleApplyRequest(n, v))
                               \/ RefuseApplyRequest(n) \/ Restart(n)
                               \/ (\E p \in Server : ReplicateOnce(n, p))
      PROVE  VotesKept
  BY <1>2 DEF LeaveElection, AppendNoOp, HandleApplyRequest, RefuseApplyRequest,
              Restart, ReplicateOnce, DropVotes, VotesKept
<1>3. \A m \in net : Orphan(m).type = "RequestVote" => Orphan(m) \in net
  BY OrphanType DEF TypeOK
<1>4. ASSUME NEW n \in Server, NEW disk \in OnDisk(n), Crash(n, disk)
      PROVE  VotesKept
  <2>1. \A x \in net' : \E m \in net : x = m \/ x = Orphan(m)
    BY <1>4 DEF Crash
  <2> QED BY <1>3, <1>4, <2>1 DEF Crash, VotesKept
<1>5. ASSUME NEW m \in net, HandleVote(m.to, m) PROVE VotesKept
  <2>1. net' \subseteq net
    BY <1>5 DEF HandleVote, DropVotes
  <2> QED BY <1>5, <2>1 DEF HandleVote, VotesKept
<1>6. ASSUME NEW m \in net, HandleAppendEntries(m.to, m) PROVE VotesKept
  <2> DEFINE n == m.to
  <2>1. ballots' = ballots
    BY <1>6 DEF HandleAppendEntries
  <2>2. \A t, ok, ct, ci : AppendResponse(n, m, t, ok, ct, ci).type = "Appended"
    BY DEF AppendResponse
  <2>3. CASE RejectStaleLeader(n, m)
    <3>1. \A x \in net' : x \in net \/ x = AppendResponse(n, m, currentTerm[n], FALSE, 0, 0)
      BY <2>3 DEF RejectStaleLeader, DropVotes
    <3> QED BY <2>1, <2>2, <3>1 DEF VotesKept
  <2>4. ASSUME NEW t, NEW ok, NEW ct, NEW ci,
               Reply(n, m, AppendResponse(n, m, t, ok, ct, ci))
        PROVE  VotesKept
    <3>1. \A x \in net' : x \in net \/ x = AppendResponse(n, m, t, ok, ct, ci)
      BY <2>4 DEF Reply, DropVotes
    <3> QED BY <2>1, <2>2, <3>1 DEF VotesKept
  <2> QED
    BY <1>6, <2>3, <2>4 DEF HandleAppendEntries, RejectShortLog, RejectConflict,
                            StoreEntries, StoreFails
<1>7. ASSUME NEW m \in net, HandleAppendEntriesResponse(m.to, m) PROVE VotesKept
  BY <1>7 DEF HandleAppendEntriesResponse, VotesKept
<1>8. ASSUME NEW m \in net, CallFails(m) PROVE VotesKept
  <2>1. \A x \in net' : x \in net \/ x = Orphan(m)
    BY <1>8 DEF CallFails
  <2> QED BY <1>3, <1>8, <2>1 DEF CallFails, VotesKept
<1> QED BY <1>1, <1>2, <1>4, <1>5, <1>6, <1>7, <1>8 DEF Next

\* isLogUpToDate does what it is for: an entry that the voter holds is in the log
\* of the candidate it votes for, unless it is blocked.
LEMMA UpToDate ==
    ASSUME NEW led, WellLed(led), NEW acks, SafeInv(led, acks),
           NEW k \in Seq(Entry), FollowsLeaders(led, k),
           NEW l \in Seq(Entry), FollowsLeaders(led, l), NEW T, Ordered(l, T),
           IsLogUpToDate(LastTerm(k), Len(k), LastTerm(l), Len(l)),
           NEW t \in Nat, NEW i \in Nat, Holds(l, i, t)
    PROVE  Holds(k, i, t) \/ Blocked(acks, t, i)
<1>1. LogPerTerm(led) /\ i \in 1..Len(l) /\ l[i].term = t /\ Len(l) \in 1..Len(l)
  BY DEF WellLed, Holds
<1>2. LastTerm(l) = l[Len(l)].term /\ l # <<>>
  BY <1>1 DEF LastTerm
<1>3. t <= LastTerm(l) /\ LastTerm(l) \in Nat
  BY <1>1, <1>2, OrderedTerms, LastTermType
<1>4. LastTerm(k) \in Nat /\ LastTerm(k) >= LastTerm(l)
  BY <1>3, LastTermType DEF IsLogUpToDate
<1>5. CASE k = <<>>
  <2>1. LastTerm(k) = 0 /\ Len(k) = 0
    BY <1>5 DEF LastTerm
  <2>2. LastTerm(l) = 0 /\ ~(Len(k) >= Len(l))
    BY <1>1, <1>3, <1>4, <2>1
  <2> QED BY <2>1, <2>2 DEF IsLogUpToDate
<1>6. CASE k # <<>>
  <2>1. Len(k) \in 1..Len(k) /\ LastTerm(k) = k[Len(k)].term
    BY <1>6 DEF LastTerm
  <2> DEFINE u == LastTerm(k)
  <2>2. AgreeUpTo(k, led[u], Len(k)) /\ Holds(led[u], Len(k), u)
    BY <1>1, <2>1, HeldIsLed DEF Holds
  <2>3. led[u] \in Seq(Entry) /\ Ordered(led[u], u)
    BY <1>4, WellLedLog
  <2>4. CASE LastTerm(l) = u
    <3>0. Holds(l, Len(l), u) /\ Len(l) \in Nat
      BY <1>1, <1>2, <2>4 DEF Holds
    <3>1. AgreeUpTo(l, led[u], Len(l))
      <4> HIDE DEF u
      <4> QED BY <1>1, <3>0, HeldIsLed
    <3>2. Len(k) >= Len(l)
      BY <1>3, <1>4, <2>4 DEF IsLogUpToDate
    <3> QED BY <1>1, <2>2, <3>1, <3>2 DEF Holds, AgreeUpTo
  <2>5. CASE LastTerm(l) < u
    <3>1. t < u /\ u \in Nat
      BY <1>3, <1>4, <2>5
    <3>2. \E n \in Server : <<u, n>> \in leaders
      BY <2>2, <3>1, LedHasLeader
    <3>3. CASE Holds(led[u], i, t)
      <4>1. i <= Len(k)
        <5> SUFFICES ASSUME i > Len(k) PROVE FALSE
          BY <2>1
        <5>1. i \in 1..Len(led[u]) /\ Len(k) \in 1..Len(led[u]) /\ Len(k) <= i
          BY <2>1, <2>2, <3>3 DEF Holds
        <5>2. led[u][Len(k)].term <= led[u][i].term
          BY <2>3, <5>1, OrderedTerms
        <5> QED BY <2>2, <3>1, <3>3, <5>2 DEF Holds
      <4> QED BY <2>2, <3>3, <4>1 DEF Holds, AgreeUpTo
    <3>4. CASE ~Holds(led[u], i, t)
      BY <3>1, <3>2, <3>4 DEF SafeInv
    <3> QED BY <3>3, <3>4
  <2> QED BY <1>3, <1>4, <2>4, <2>5
<1> QED BY <1>5, <1>6

\* A vote that is given in this step.
LEMMA VoteCast ==
    ASSUME NEW led, NEW new, NEW acks, NEW acked, GhostStep(led, new, acks, acked),
           AckInv(led, acks), SafeInv(led, acks), VoteSafe(acks),
           NEW n \in Server, NEW v \in Server, NEW t \in Nat, NEW i \in Nat,
           loop'[n] \in Elected, <<currentTerm'[n], v, n>> \in ballots',
           <<currentTerm'[n], v, n>> \notin ballots, Ack(acks, t, v, i)
    PROVE  Holds(log[n], i, t) \/ Blocked(acks, t, i)
<1>1. /\ Races = {} /\ [Next]_vars /\ WellLed(led) /\ TypeOK /\ ElectionInv /\ ElectionInv'
      /\ TermsLed /\ log[n] \in Seq(Entry) /\ FollowsLeaders(led, log[n])
      /\ log[v] \in Seq(Entry) /\ FollowsLeaders(led, log[v])
      /\ Ordered(log[v], currentTerm[v])
      /\ currentTerm[n] \in Nat /\ currentTerm'[n] \in Nat
      /\ currentTerm'[n] >= currentTerm[n]
  BY StepFacts, WellLedNode
<1>2. Holds(log[v], i, t) \/ Blocked(acks, t, i)
  BY DEF AckInv
<1>3. ASSUME NEW q \in Server, StartElection(q) PROVE v = n
  BY <1>3 DEF StartElection
<1>4. ASSUME NEW m \in net, HandleRequestVote(m.to, m), Holds(log[v], i, t)
      PROVE  Holds(log[n], i, t) \/ Blocked(acks, t, i)
  <2>1. /\ m.type = "RequestVote" /\ m.from = n /\ m.to = v /\ m.term = currentTerm'[n]
        /\ IsLogUpToDate(m.lastLogTerm, m.lastLogIndex, LastTerm(log[v]), Len(log[v]))
    BY <1>4 DEF HandleRequestVote, Grants
  <2>2. currentTerm'[n] = currentTerm[n]
    BY <1>1, <2>1 DEF VoteSafe
  <2>3. loop[n] \in Elected
    BY <1>1, <2>2, ElectedKeepsLog
  <2>4. m.lastLogIndex = Len(log[n]) /\ m.lastLogTerm = LastTerm(log[n])
    BY <2>1, <2>2, <2>3 DEF VoteSafe
  <2> QED BY <1>1, <1>4, <2>1, <2>4, UpToDate
<1> QED BY <1>1, <1>2, <1>3, <1>4, StepVotes DEF VotesKept

LEMMA VoteNext ==
    ASSUME NEW led, NEW new, NEW acks, NEW acked, GhostStep(led, new, acks, acked),
           AckInv(led, acks), SafeInv(led, acks), VoteSafe(acks)
    PROVE  VoteSafe(acked)'
<1>1. /\ Races = {} /\ [Next]_vars /\ TypeOK /\ ElectionInv /\ ElectionInv' /\ TermsLed
      /\ \A p \in Server : /\ currentTerm[p] \in Nat /\ currentTerm'[p] \in Nat
                           /\ currentTerm'[p] >= currentTerm[p]
  BY StepFacts
<1>2. ASSUME NEW n \in Server, StartElection(n)
      PROVE  /\ currentTerm'[n] = currentTerm[n] + 1
             /\ ballots' = ballots \cup {<<currentTerm'[n], n, n>>}
             /\ \A m \in net' : m.type = "RequestVote" =>
                   \/ m \in net
                   \/ /\ m.from = n /\ m.term = currentTerm'[n]
                      /\ m.lastLogIndex = Len(log[n]) /\ m.lastLogTerm = LastTerm(log[n])
  <2> DEFINE R(p) == [type |-> "RequestVote", from |-> n, to |-> p, term |-> currentTerm[n] + 1,
                      lastLogIndex |-> Len(log[n]), lastLogTerm |-> LastTerm(log[n])]
  <2>1. currentTerm'[n] = currentTerm[n] + 1
    BY <1>1, <1>2 DEF StartElection, TypeOK
  <2>2. ballots' = ballots \cup {<<currentTerm'[n], n, n>>}
    BY <1>2, <2>1 DEF StartElection
  <2>3. \A m \in net' : m \in net \/ \E p \in Server : m = R(p)
    BY <1>2 DEF StartElection, DropVotes
  <2>4. \A p : /\ R(p).from = n /\ R(p).term = currentTerm[n] + 1
               /\ R(p).lastLogIndex = Len(log[n]) /\ R(p).lastLogTerm = LastTerm(log[n])
    OBVIOUS
  <2> HIDE DEF R
  <2> QED BY <2>1, <2>2, <2>3, <2>4
<1>3. ASSUME NEW m \in net, HandleRequestVote(m.to, m)
      PROVE  /\ m.type = "RequestVote"
             /\ \/ ballots' = ballots
                \/ ballots' = ballots \cup {<<m.term, m.to, m.from>>}
             /\ \A x \in net' : x.type = "RequestVote" => x \in net
  BY <1>3 DEF HandleRequestVote, DropVotes
<1>4. ASSUME NEW t \in Nat, NEW v \in Server, NEW n \in Server, <<t, v, n>> \in ballots'
      PROVE  t <= currentTerm'[n]
  <2>1. CASE <<t, v, n>> \in ballots
    BY <1>1, <2>1 DEF VoteSafe
  <2>2. CASE <<t, v, n>> \notin ballots
    <3>1. ASSUME NEW q \in Server, StartElection(q) PROVE t = currentTerm'[n]
      BY <1>2, <1>4, <2>2, <3>1
    <3>2. ASSUME NEW m \in net, HandleRequestVote(m.to, m)
          PROVE  t <= currentTerm[n]
      BY <1>3, <1>4, <2>2, <3>2 DEF VoteSafe
    <3> QED BY <1>1, <1>4, <2>2, <3>1, <3>2, StepVotes DEF VotesKept
  <2> QED BY <2>1, <2>2
<1>5. ASSUME NEW m \in net', m.type = "RequestVote"
      PROVE  /\ m.term <= currentTerm'[m.from]
             /\ m.term = currentTerm'[m.from] /\ loop'[m.from] \in Elected =>
                   /\ m.lastLogIndex = Len(log'[m.from])
                   /\ m.lastLogTerm = LastTerm(log'[m.from])
  <2>1. CASE m \in net
    <3>1. m.from \in Server /\ m.term \in Nat
      BY <1>1, <2>1, MessageFields
    <3>2. /\ m.term <= currentTerm[m.from]
          /\ m.term = currentTerm[m.from] /\ loop[m.from] \in Elected =>
                /\ m.lastLogIndex = Len(log[m.from])
                /\ m.lastLogTerm = LastTerm(log[m.from])
      BY <1>5, <2>1 DEF VoteSafe
    <3>3. m.term <= currentTerm'[m.from]
      BY <1>1, <3>1, <3>2
    <3>4. m.term = currentTerm'[m.from] =>
             m.term = currentTerm[m.from] /\ currentTerm'[m.from] = currentTerm[m.from]
      BY <1>1, <3>1, <3>2
    <3> QED BY <1>1, <3>1, <3>2, <3>3, <3>4, ElectedKeepsLog
  <2>2. CASE m \notin net
    <3>1. PICK n \in Server : StartElection(n)
      BY <1>1, <1>3, <1>5, <2>2, StepVotes DEF VotesKept
    <3>2. /\ m.from = n /\ m.term = currentTerm'[n]
          /\ m.lastLogIndex = Len(log[n]) /\ m.lastLogTerm = LastTerm(log[n])
      BY <1>2, <1>5, <2>2, <3>1
    <3>3. log' = log
      BY <3>1 DEF StartElection
    <3> QED BY <1>1, <3>2, <3>3
  <2> QED BY <2>1, <2>2
<1>6. ASSUME NEW n \in Server, NEW v \in Server, NEW t \in Nat, NEW i \in Nat,
             loop'[n] \in Elected, <<currentTerm'[n], v, n>> \in ballots',
             t < currentTerm'[n], Ack(acked, t, v, i)
      PROVE  Holds(log'[n], i, t) \/ Blocked(acked, t, i)'
  <2>1. log'[n] = log[n] /\ (currentTerm'[n] = currentTerm[n] => loop[n] \in Elected)
    BY <1>1, <1>6, ElectedKeepsLog
  <2>2. currentTerm'[n] <= currentTerm'[v]
    BY <1>1, <1>6 DEF ElectionInv, VoteInv, BallotTerms
  <2>3. Ack(acks, t, v, i)
    BY <1>1, <1>6, <2>2, StepFacts DEF AckGrows
  <2>4. Holds(log[n], i, t) \/ Blocked(acks, t, i)
    <3>1. CASE <<currentTerm'[n], v, n>> \in ballots
      <4>1. currentTerm'[n] = currentTerm[n]
        BY <1>1, <3>1 DEF VoteSafe
      <4> QED BY <1>6, <2>1, <2>3, <3>1, <4>1 DEF VoteSafe
    <3>2. CASE <<currentTerm'[n], v, n>> \notin ballots
      BY <1>6, <2>3, <3>2, VoteCast
    <3> QED BY <3>1, <3>2
  <2> QED BY <2>1, <2>4, NextBlocked
<1> QED BY <1>4, <1>5, <1>6 DEF VoteSafe, Holds, Ack, LastTerm

-----------------------------------------------------------------------------
(* Leaders *)

\* A new leader has the votes of a majority: what none of them acknowledged is
\* blocked, and the rest its log holds.
LEMMA SafeNext ==
    ASSUME NEW led, NEW new, NEW acks, NEW acked, GhostStep(led, new, acks, acked),
           SafeInv(led, acks), AckInv(new, acked)', VoteSafe(acked)'
    PROVE  SafeInv(new, acked)'
<1> SUFFICES ASSUME NEW u \in Nat, NEW n \in Server, NEW t \in Nat, NEW i \in Nat,
                    <<u, n>> \in leaders', t < u
             PROVE  Holds(new[u], i, t) \/ Blocked(acked, t, i)'
  BY DEF SafeInv, Holds
<1>1. CASE <<u, n>> \in leaders
  <2>1. Holds(led[u], i, t) \/ Blocked(acks, t, i)
    BY <1>1 DEF SafeInv
  <2>2. Holds(led[u], i, t) => Holds(new[u], i, t)
    BY StepFacts, HoldsPrefix
  <2> QED BY <2>1, <2>2, NextBlocked
<1>2. CASE <<u, n>> \notin leaders
  <2>1. state'[n] = "Leader" /\ currentTerm'[n] = u /\ loop'[n] \in Elected
    BY <1>2, NextLeader DEF Elected
  <2>2. log'[n] = new[u]
    BY <2>1, NextLog
  <2>3. ElectionInv' /\ TypeOK'
    BY StepFacts
  <2>4. PICK Q \in Quorums : \A v \in Q : <<u, v, n>> \in ballots'
    <3>1. PICK l : l = <<u, n>>
      OBVIOUS
    <3>2. \E Q \in Quorums : \A v \in Q : <<l[1], v, l[2]>> \in ballots'
      BY <2>3, <3>1 DEF ElectionInv, VoteInv, LeadersSupported, Supports, Quorums, Quorum
    <3> QED BY <3>1, <3>2
  <2>5. \A v \in Q : v \in Server /\ currentTerm'[v] > t
    <3> TAKE v \in Q
    <3>1. v \in Server /\ <<u, v, n>> \in ballots'
      BY <2>4, QuorumMembers
    <3>2. u <= currentTerm'[v] /\ currentTerm'[v] \in Nat
      BY <2>3, <3>1 DEF ElectionInv, VoteInv, BallotTerms, TypeOK
    <3> QED BY <3>1, <3>2
  <2>6. CASE \A v \in Q : ~Ack(acked, t, v, i)
    BY <2>5, <2>6 DEF Blocked, Ack, Quorums, Quorum
  <2>7. ASSUME NEW v \in Q, Ack(acked, t, v, i)
        PROVE  Holds(new[u], i, t) \/ Blocked(acked, t, i)'
    <3>1. (Holds(log[n], i, t) \/ Blocked(acked, t, i))'
      BY <2>1, <2>4, <2>5, <2>7 DEF VoteSafe, Ack
    <3> QED BY <2>2, <3>1 DEF Holds
  <2> QED BY <2>6, <2>7
<1> QED BY <1>1, <1>2

-----------------------------------------------------------------------------
(* What a step does to r.peers and to the answers under way *)

PeersReset(n) ==
    /\ peersTerm'[n] = currentTerm'[n] /\ <<currentTerm'[n], n>> \in leaders'
    /\ \A p \in Server : matchIndex'[n][p] = 0

PeersLost(n) ==
    /\ peersTerm'[n] = 0 /\ state'[n] # "Leader"
    /\ \A p \in Server : matchIndex'[n][p] = 0

PeersKept(n) == peersTerm'[n] = peersTerm[n] /\ matchIndex'[n] = matchIndex[n]

\* A replicator processes an answer to a call of this leadership.
PeerAnswers(n) ==
    \E m \in net :
        /\ m.type = "Appended" /\ m.to = n /\ m.success /\ m.call = peersTerm[n]
        /\ peersTerm'[n] = peersTerm[n]
        /\ \A p \in Server :
              matchIndex'[n][p] = IF p = m.from THEN m.last ELSE matchIndex[n][p]

LeadsOn(n) ==
    state'[n] = "Leader" => state[n] = "Leader" /\ currentTerm'[n] = currentTerm[n]

PeersStep(n) ==
    \/ PeersReset(n) \/ PeersLost(n)
    \/ LeadsOn(n) /\ (PeersKept(n) \/ PeerAnswers(n))

LEMMA PeersBecomeLeader ==
    ASSUME TypeOK, NEW q \in Server, NEW t, BecomeLeader(q, t),
           currentTerm' = [currentTerm EXCEPT ![q] = t]
    PROVE  \A n \in Server : PeersStep(n)
<1> TAKE n \in Server
<1>1. CASE n = q
  <2>1. peersTerm'[n] = t /\ currentTerm'[n] = t /\ <<t, n>> \in leaders'
    BY <1>1 DEF BecomeLeader, TypeOK
  <2>2. \A p \in Server : matchIndex'[n][p] = 0
    BY <1>1 DEF BecomeLeader, TypeOK
  <2> QED BY <2>1, <2>2 DEF PeersStep, PeersReset
<1>2. CASE n # q
  BY <1>2 DEF BecomeLeader, TypeOK, PeersStep, LeadsOn, PeersKept
<1> QED BY <1>1, <1>2

LEMMA StepPeers ==
    ASSUME TypeOK, [Next]_vars
    PROVE  \A n \in Server : PeersStep(n)
<1>0. CASE UNCHANGED <<state, currentTerm, peersTerm, matchIndex>>
  BY <1>0 DEF PeersStep, LeadsOn, PeersKept
<1>1. CASE UNCHANGED vars
  BY <1>0, <1>1 DEF vars
<1>2. ASSUME NEW q \in Server, \/ LeaveElection(q) \/ AppendNoOp(q)
                               \/ (\E v \in Value : HandleApplyRequest(q, v))
                               \/ RefuseApplyRequest(q) \/ Restart(q)
                               \/ (\E p \in Server : ReplicateOnce(q, p))
      PROVE  UNCHANGED <<state, currentTerm, peersTerm, matchIndex>>
  BY <1>2 DEF LeaveElection, AppendNoOp, HandleApplyRequest, RefuseApplyRequest,
              Restart, ReplicateOnce, persistentVars, peerVars
<1>3. ASSUME NEW q \in Server, StartElection(q)
      PROVE  \A n \in Server : PeersStep(n)
  <2>1. CASE Quorum = 1
    <3>1. /\ BecomeLeader(q, currentTerm[q] + 1)
          /\ currentTerm' = [currentTerm EXCEPT ![q] = currentTerm[q] + 1]
      BY <1>3, <2>1 DEF StartElection
    <3> QED BY <3>1, PeersBecomeLeader
  <2>2. CASE Quorum # 1
    <3>1. /\ state' = [state EXCEPT ![q] = "Candidate"]
          /\ currentTerm' = [currentTerm EXCEPT ![q] = currentTerm[q] + 1]
          /\ UNCHANGED <<peersTerm, matchIndex>>
      BY <1>3, <2>2 DEF StartElection, peerVars
    <3> QED BY <3>1 DEF TypeOK, PeersStep, LeadsOn, PeersKept
  <2> QED BY <2>1, <2>2
<1>4. ASSUME NEW q \in Server, NEW disk \in OnDisk(q), Crash(q, disk), NEW n \in Server
      PROVE  PeersStep(n)
  <2>1. CASE n = q
    <3>1. peersTerm'[n] = 0 /\ state'[n] = "Follower"
      BY <1>4, <2>1 DEF Crash, TypeOK
    <3>2. \A p \in Server : matchIndex'[n][p] = 0
      BY <1>4, <2>1 DEF Crash, TypeOK
    <3> QED BY <3>1, <3>2 DEF PeersStep, PeersLost
  <2>2. CASE n # q
    BY <1>4, <2>2 DEF Crash, TypeOK, PeersStep, LeadsOn, PeersKept
  <2> QED BY <2>1, <2>2
<1>5. ASSUME NEW m \in net, HandleRequestVote(m.to, m), NEW n \in Server
      PROVE  PeersStep(n)
  <2>1. m.to \in Server /\ UNCHANGED <<peersTerm, matchIndex>>
    BY <1>5, MessageFields DEF HandleRequestVote, peerVars
  <2>2. LeadsOn(n)
    <3>1. CASE n = m.to /\ m.term > currentTerm[n]
      BY <1>5, <2>1, <3>1 DEF HandleRequestVote, TypeOK, LeadsOn
    <3>2. CASE ~(n = m.to /\ m.term > currentTerm[n])
      BY <1>5, <2>1, <3>2 DEF HandleRequestVote, TypeOK, LeadsOn
    <3> QED BY <3>1, <3>2
  <2> QED BY <2>1, <2>2 DEF PeersStep, PeersKept
<1>6. ASSUME NEW m \in net, HandleVote(m.to, m)
      PROVE  \A n \in Server : PeersStep(n)
  <2> DEFINE q == m.to
  <2>1. q \in Server /\ m.term \in Nat /\ currentTerm[q] \in Nat
    BY MessageFields DEF TypeOK
  <2>2. CASE m.term > currentTerm[q]
    <3>1. /\ state' = [state EXCEPT ![q] = "Follower"]
          /\ currentTerm' = [currentTerm EXCEPT ![q] = m.term]
          /\ UNCHANGED <<peersTerm, matchIndex>>
      BY <1>6, <2>1, <2>2 DEF HandleVote, peerVars
    <3> QED BY <2>1, <3>1 DEF TypeOK, PeersStep, LeadsOn, PeersKept
  <2>3. CASE m.term <= currentTerm[q] /\ Cardinality(votes[q] \cup {m.from}) >= Quorum
    <3>1. BecomeLeader(q, currentTerm[q]) /\ currentTerm' = currentTerm
      BY <1>6, <2>1, <2>3 DEF HandleVote
    <3>2. currentTerm' = [currentTerm EXCEPT ![q] = currentTerm[q]]
      BY <2>1, <3>1 DEF TypeOK
    <3> QED BY <2>1, <3>1, <3>2, PeersBecomeLeader
  <2>4. CASE m.term <= currentTerm[q] /\ ~(Cardinality(votes[q] \cup {m.from}) >= Quorum)
    <3>1. UNCHANGED <<state, currentTerm, peersTerm, matchIndex>>
      BY <1>6, <2>1, <2>4 DEF HandleVote, peerVars
    <3> QED BY <1>0, <3>1
  <2> QED BY <2>1, <2>2, <2>3, <2>4
<1>7. ASSUME NEW m \in net, HandleAppendEntries(m.to, m)
      PROVE  \A n \in Server : PeersStep(n)
  <2>1. m.to \in Server /\ UNCHANGED <<peersTerm, matchIndex>>
    BY <1>7, MessageFields DEF HandleAppendEntries, peerVars
  <2>2. CASE RejectStaleLeader(m.to, m)
    BY <1>0, <2>1, <2>2 DEF RejectStaleLeader, persistentVars
  <2>3. CASE FollowLeader(m.to, m)
    BY <2>1, <2>3 DEF FollowLeader, TypeOK, PeersStep, LeadsOn, PeersKept
  <2> QED BY <1>7, <2>2, <2>3 DEF HandleAppendEntries
<1>8. ASSUME NEW m \in net, HandleAppendEntriesResponse(m.to, m)
      PROVE  \A n \in Server : PeersStep(n)
  <2> DEFINE q == m.to
  <2>1. /\ q \in Server /\ m.from \in Server /\ m.type = "Appended"
        /\ m.term \in Nat /\ currentTerm[q] \in Nat /\ peersTerm' = peersTerm
    BY <1>8, MessageFields DEF TypeOK, HandleAppendEntriesResponse
  <2>2. CASE m.term > currentTerm[q]
    <3>1. /\ state' = [state EXCEPT ![q] = "Follower"] /\ matchIndex' = matchIndex
          /\ currentTerm' = [currentTerm EXCEPT ![q] = m.term]
      BY <1>8, <2>1, <2>2 DEF HandleAppendEntriesResponse
    <3> QED BY <2>1, <3>1 DEF TypeOK, PeersStep, LeadsOn, PeersKept
  <2>3. CASE /\ m.term <= currentTerm[q] /\ m.success
             /\ m.call = peersTerm[q] /\ m.last > 0
    <3>1. /\ UNCHANGED <<state, currentTerm>>
          /\ matchIndex' = [matchIndex EXCEPT ![q][m.from] = m.last]
      BY <1>8, <2>1, <2>3 DEF HandleAppendEntriesResponse
    <3>2. ASSUME NEW n \in Server, n # q PROVE PeersStep(n)
      BY <2>1, <3>1, <3>2 DEF TypeOK, PeersStep, LeadsOn, PeersKept
    <3>3. \A p \in Server : matchIndex'[q][p] =
                               IF p = m.from THEN m.last ELSE matchIndex[q][p]
      BY <2>1, <3>1 DEF TypeOK
    <3>4. PeerAnswers(q)
      BY <2>1, <2>3, <3>3 DEF PeerAnswers
    <3> QED BY <3>1, <3>2, <3>4 DEF PeersStep, LeadsOn
  <2>4. CASE /\ m.term <= currentTerm[q]
             /\ ~(m.success /\ m.call = peersTerm[q] /\ m.last > 0)
    <3>1. UNCHANGED <<state, currentTerm, matchIndex>>
      BY <1>8, <2>1, <2>4 DEF HandleAppendEntriesResponse
    <3> QED BY <1>0, <2>1, <3>1
  <2> QED BY <2>1, <2>2, <2>3, <2>4
<1>9. ASSUME NEW m \in net, CallFails(m)
      PROVE  UNCHANGED <<state, currentTerm, peersTerm, matchIndex>>
  BY <1>9 DEF CallFails, persistentVars, peerVars
<1> QED
  BY <1>0, <1>1, <1>2, <1>3, <1>4, <1>5, <1>6, <1>7, <1>8, <1>9 DEF Next

-----------------------------------------------------------------------------
(* What leaders send *)

\* A node that has just won the election starts every peer after its own log,
\* and hears nothing before it has appended its no-op.
LEMMA StepStarts ==
    ASSUME Races = {}, TypeOK, [Next]_vars, NEW n \in Server, loop'[n] = "starting"
    PROVE  \/ loop[n] = "starting" /\ nextIndex'[n] = nextIndex[n]
           \/ log' = log /\ \A p \in Server : nextIndex'[n][p] = Len(log[n]) + 1
<1>0. \A q \in Server : LoopOf(state[q]) # "starting"
  BY LoopOfType DEF TypeOK
<1>1. CASE UNCHANGED vars
  BY <1>1 DEF vars
<1>2. ASSUME NEW q \in Server, \/ LeaveElection(q) \/ AppendNoOp(q)
                               \/ (\E v \in Value : HandleApplyRequest(q, v))
                               \/ RefuseApplyRequest(q) \/ Restart(q)
                               \/ (\E p \in Server : ReplicateOnce(q, p))
      PROVE  loop[n] = "starting" /\ nextIndex'[n] = nextIndex[n]
  BY <1>0, <1>2 DEF LeaveElection, AppendNoOp, HandleApplyRequest, RefuseApplyRequest,
                    Restart, ReplicateOnce, peerVars, TypeOK
<1>3. ASSUME NEW q \in Server, NEW t, BecomeLeader(q, t), log' = log
      PROVE  \/ loop[n] = "starting" /\ nextIndex'[n] = nextIndex[n]
             \/ log' = log /\ \A p \in Server : nextIndex'[n][p] = Len(log[n]) + 1
  <2>1. CASE n = q
    <3>1. nextIndex'[n] = [p \in Server |-> Len(log[n]) + 1]
      BY <1>3, <2>1 DEF BecomeLeader, TypeOK
    <3> QED BY <1>3, <3>1
  <2>2. CASE n # q
    BY <1>3, <2>2 DEF BecomeLeader, TypeOK
  <2> QED BY <2>1, <2>2
<1>4. ASSUME NEW q \in Server, StartElection(q)
      PROVE  \/ loop[n] = "starting" /\ nextIndex'[n] = nextIndex[n]
             \/ log' = log /\ \A p \in Server : nextIndex'[n][p] = Len(log[n]) + 1
  <2>1. CASE Quorum = 1
    BY <1>3, <1>4, <2>1 DEF StartElection
  <2>2. CASE Quorum # 1
    BY <1>4, <2>2 DEF StartElection, peerVars, TypeOK
  <2> QED BY <2>1, <2>2
<1>5. ASSUME NEW q \in Server, NEW disk \in OnDisk(q), Crash(q, disk)
      PROVE  loop[n] = "starting" /\ nextIndex'[n] = nextIndex[n]
  BY <1>5 DEF Crash, TypeOK
<1>6. ASSUME NEW m \in net, HandleRequestVote(m.to, m)
      PROVE  loop[n] = "starting" /\ nextIndex'[n] = nextIndex[n]
  <2>1. m.to \in Server /\ nextIndex' = nextIndex
    BY <1>6, MessageFields DEF HandleRequestVote, peerVars
  <2>2. LoopOf("Follower") # "starting"
    BY DEF LoopOf
  <2> QED BY <1>0, <1>6, <2>1, <2>2 DEF HandleRequestVote, TypeOK
<1>7. ASSUME NEW m \in net, HandleVote(m.to, m)
      PROVE  \/ loop[n] = "starting" /\ nextIndex'[n] = nextIndex[n]
             \/ log' = log /\ \A p \in Server : nextIndex'[n][p] = Len(log[n]) + 1
  <2>1. m.to \in Server /\ log' = log
    BY <1>7, MessageFields DEF HandleVote
  <2>2. CASE BecomeLeader(m.to, currentTerm[m.to])
    BY <1>3, <2>1, <2>2
  <2>3. CASE ~BecomeLeader(m.to, currentTerm[m.to])
    <3>1. nextIndex' = nextIndex
      BY <1>7, <2>3 DEF HandleVote, peerVars
    <3>2. \/ loop' = [loop EXCEPT ![m.to] = "follower"]
          \/ loop' = [loop EXCEPT ![m.to] = LoopOf(state[m.to])]
      BY <1>7, <2>3 DEF HandleVote
    <3> QED BY <1>0, <2>1, <3>1, <3>2 DEF TypeOK
  <2> QED BY <2>2, <2>3
<1>8. ASSUME NEW m \in net, HandleAppendEntries(m.to, m)
      PROVE  loop[n] = "starting" /\ nextIndex'[n] = nextIndex[n]
  <2>1. m.to \in Server /\ nextIndex' = nextIndex
    BY <1>8, MessageFields DEF HandleAppendEntries, peerVars
  <2>2. \/ loop' = [loop EXCEPT ![m.to] = "follower"]
        \/ loop' = [loop EXCEPT ![m.to] = LoopOf(state[m.to])]
    BY <1>8 DEF HandleAppendEntries, RejectStaleLeader, FollowLeader
  <2> QED BY <1>0, <2>1, <2>2 DEF TypeOK
<1>9. ASSUME NEW m \in net, HandleAppendEntriesResponse(m.to, m)
      PROVE  loop[n] = "starting" /\ nextIndex'[n] = nextIndex[n]
  <2>1. m.to \in Server /\ loop' = loop /\ loop[m.to] # "starting"
    BY <1>9, MessageFields DEF HandleAppendEntriesResponse
  <2>2. nextIndex'[n] = nextIndex[n]
    BY <1>9, <2>1 DEF HandleAppendEntriesResponse, TypeOK
  <2> QED BY <2>1, <2>2
<1>10. ASSUME NEW m \in net, CallFails(m)
       PROVE  loop[n] = "starting" /\ nextIndex'[n] = nextIndex[n]
  BY <1>10 DEF CallFails, peerVars
<1> QED
  BY <1>1, <1>2, <1>4, <1>5, <1>6, <1>7, <1>8, <1>9, <1>10 DEF Next

LEMMA StepLeads ==
    ASSUME TypeOK, ElectionInv, [Next]_vars, NEW n \in Server,
           state'[n] = "Leader", loop'[n] = "leader"
    PROVE  /\ state[n] = "Leader" /\ currentTerm'[n] = currentTerm[n]
           /\ loop[n] = "leader" \/ AppendNoOp(n)
<1>1. KeepsRole(n)
  BY StepRoles DEF NodeStep, StepsDown, Follows, Runs, Wins
<1>2. state[n] = "Leader" /\ currentTerm'[n] = currentTerm[n]
  BY <1>1 DEF KeepsRole
<1>3. loop[n] \in {"starting", "leader"}
  BY <1>2 DEF ElectionInv, RoleInv
<1>4. ASSUME loop[n] = "starting" PROVE AppendNoOp(n)
  <2>1. CASE UNCHANGED vars
    BY <1>4, <2>1 DEF vars
  <2>2. ASSUME NEW q \in Server, AppendNoOp(q) PROVE q = n
    BY <1>4, <2>2 DEF AppendNoOp, TypeOK
  <2>3. ASSUME NEW q \in Server, \/ LeaveElection(q) \/ StartElection(q)
                                 \/ (\E v \in Value : HandleApplyRequest(q, v))
                                 \/ RefuseApplyRequest(q) \/ Restart(q)
                                 \/ (\E p \in Server : ReplicateOnce(q, p))
                                 \/ (\E disk \in OnDisk(q) : Crash(q, disk))
        PROVE  FALSE
    <3>1. n \in DOMAIN loop
      BY DEF TypeOK
    <3>2. CASE StartElection(q)
      BY <1>4, <3>1, <3>2 DEF StartElection, BecomeLeader
    <3>3. CASE \E disk \in OnDisk(q) : Crash(q, disk)
      <4>1. loop' = [loop EXCEPT ![q] = "down"] /\ state' = [state EXCEPT ![q] = "Follower"]
        BY <3>3 DEF Crash
      <4> QED BY <1>2, <1>4, <3>1, <4>1 DEF TypeOK
    <3>4. CASE ~StartElection(q) /\ ~\E disk \in OnDisk(q) : Crash(q, disk)
      BY <1>4, <2>3, <3>1, <3>4
         DEF LeaveElection, HandleApplyRequest, RefuseApplyRequest, Restart, ReplicateOnce
    <3> QED BY <3>2, <3>3, <3>4
  <2>4. ASSUME NEW m \in net, \/ HandleRequestVote(m.to, m) \/ HandleVote(m.to, m)
                              \/ HandleAppendEntries(m.to, m)
        PROVE  FALSE
    <3>1. m.to \in Server
      BY MessageFields
    <3>2. loop[m.to] # "starting"
      BY <2>4 DEF HandleRequestVote, HandleVote, HandleAppendEntries, Selecting
    <3>3. n # m.to
      BY <1>4, <3>2
    <3>4. \E e : loop' = [loop EXCEPT ![m.to] = e]
      <4>1. CASE HandleRequestVote(m.to, m)
        BY <4>1 DEF HandleRequestVote
      <4>2. CASE HandleVote(m.to, m)
        BY <4>2 DEF HandleVote, BecomeLeader
      <4>3. CASE HandleAppendEntries(m.to, m)
        BY <4>3 DEF HandleAppendEntries, RejectStaleLeader, FollowLeader
      <4> QED BY <2>4, <4>1, <4>2, <4>3
    <3>5. loop'[n] = loop[n]
      BY <3>1, <3>3, <3>4 DEF TypeOK
    <3> QED BY <1>4, <3>5
  <2>5. ASSUME NEW m \in net, HandleAppendEntriesResponse(m.to, m) \/ CallFails(m)
        PROVE  FALSE
    BY <1>4, <2>5 DEF HandleAppendEntriesResponse, CallFails
  <2> QED BY <2>1, <2>2, <2>3, <2>4, <2>5 DEF Next
<1> QED BY <1>2, <1>3, <1>4

LEMMA SentNext ==
    ASSUME Races = {}, TypeOK, TypeOK', ElectionInv, ElectionInv', TermsLed,
           [Next]_vars, SentInv
    PROVE  SentInv'
<1>1. ASSUME NEW n \in Server, loop'[n] = "starting", NEW p \in Server
      PROVE  nextIndex'[n][p] = Len(log'[n]) + 1
  <2>1. log'[n] = log[n]
    BY <1>1, ElectedKeepsLog DEF Elected
  <2>2. CASE loop[n] = "starting" /\ nextIndex'[n] = nextIndex[n]
    BY <2>1, <2>2 DEF SentInv
  <2>3. CASE \A r \in Server : nextIndex'[n][r] = Len(log[n]) + 1
    BY <2>1, <2>3
  <2> QED BY <1>1, <2>2, <2>3, StepStarts
<1>2. ASSUME ~DiskFaults, NEW n \in Server, state'[n] = "Leader", loop'[n] = "leader"
      PROVE  Holds(log'[n], Len(log'[n]), currentTerm'[n])
  <2>1. /\ state[n] = "Leader" /\ currentTerm'[n] = currentTerm[n]
        /\ loop[n] = "leader" \/ AppendNoOp(n)
    BY <1>2, StepLeads
  <2>2. log[n] \in Seq(Entry)
    BY DEF TypeOK
  <2>3. ASSUME NEW v, log' = [log EXCEPT ![n] = Appended(n, v)]
        PROVE  Holds(log'[n], Len(log'[n]), currentTerm'[n])
    <3>1. log'[n] = Append(log[n], [term |-> currentTerm[n], value |-> v])
      BY <2>3 DEF Appended, TypeOK
    <3>2. Len(log'[n]) \in 1..Len(log'[n]) /\ log'[n][Len(log'[n])].term = currentTerm[n]
      BY <2>2, <3>1
    <3> QED BY <2>1, <3>2 DEF Holds
  <2>4. CASE AppendNoOp(n)
    BY <1>2, <2>3, <2>4 DEF AppendNoOp
  <2>5. CASE loop[n] = "leader"
    <3>1. Holds(log[n], Len(log[n]), currentTerm[n])
      BY <1>2, <2>1, <2>5 DEF SentInv
    <3>2. CASE log'[n] = log[n]
      BY <2>1, <3>1, <3>2
    <3>3. ASSUME NEW q \in Server, Appends(q), log'[n] # log[n]
          PROVE  Holds(log'[n], Len(log'[n]), currentTerm'[n])
      <4>1. q = n
        BY <3>3 DEF Appends, TypeOK
      <4> QED BY <2>3, <3>3, <4>1 DEF Appends
    <3>4. ASSUME NEW m \in net, Takes(m.to, m), log'[n] # log[n]
          PROVE  FALSE
      <4>1. m.to = n
        BY <3>4 DEF Takes, TypeOK
      <4> QED BY <1>2, <3>4, <4>1, TakesTerm
    <3> QED BY <3>2, <3>3, <3>4, StepLogs
  <2> QED BY <2>1, <2>4, <2>5
<1>3. ASSUME ~DiskFaults, NEW x \in net', x.type = "AppendEntries", x.entries # <<>>
      PROVE  x.entries[Len(x.entries)].term = x.term
  <2>1. CASE RequestsKept
    <3>1. PICK y \in net : SameRequest(x, y)
      BY <1>3, <2>1 DEF RequestsKept
    <3> QED BY <1>3, <3>1 DEF SameRequest, SentInv
  <2>2. CASE x \in net
    BY <1>3, <2>2 DEF SentInv
  <2>3. ASSUME NEW n \in Server, NEW p \in Server, ReplicateOnce(n, p), x \notin net
        PROVE  x.entries[Len(x.entries)].term = x.term
    <3>1. PICK prev : prev = nextIndex[n][p] - 1
      OBVIOUS
    <3>2. /\ x.entries = SubSeq(log[n], prev + 1, Len(log[n])) /\ x.term = currentTerm[n]
          /\ loop[n] \in {"starting", "leader"} /\ state[n] = "Leader"
      BY <2>3, <3>1 DEF ReplicateOnce
    <3>3. log[n] \in Seq(Entry) /\ nextIndex[n][p] \in Nat \ {0}
      BY DEF TypeOK
    <3>4. Len(log[n]) \in Nat /\ prev \in Nat
      BY <3>1, <3>3
    <3>5. prev < Len(log[n])
      <4> SUFFICES ASSUME ~(prev < Len(log[n])) PROVE FALSE
        OBVIOUS
      <4>1. x.entries = <<>>
        BY <3>2, <3>3, <3>4
      <4> QED BY <1>3, <4>1
    <3>6. loop[n] = "leader"
      <4> SUFFICES ASSUME loop[n] = "starting" PROVE FALSE
        BY <3>2
      <4>1. nextIndex[n][p] = Len(log[n]) + 1
        BY DEF SentInv
      <4> QED BY <3>1, <3>4, <3>5, <4>1
    <3>7. Holds(log[n], Len(log[n]), currentTerm[n])
      BY <1>3, <3>2, <3>6 DEF SentInv
    <3>8. /\ Len(x.entries) = Len(log[n]) - prev
          /\ \A i \in 1..(Len(log[n]) - prev) : x.entries[i] = log[n][prev + i]
      <4>1. PICK l : l = log[n]
        OBVIOUS
      <4>2. l \in Seq(Entry) /\ prev \in Nat /\ prev <= Len(l)
        BY <3>3, <3>4, <3>5, <4>1
      <4>3. x.entries = SubSeq(l, prev + 1, Len(l))
        BY <3>2, <4>1
      <4>4. /\ Len(x.entries) = Len(l) - prev
            /\ \A i \in 1..(Len(l) - prev) : x.entries[i] = l[prev + i]
        BY <4>2, <4>3, CutEntries
      <4> QED BY <4>1, <4>4
    <3>9. x.entries[Len(log[n]) - prev] = log[n][Len(log[n])]
      <4>1. Len(log[n]) - prev \in 1..(Len(log[n]) - prev)
        BY <3>4, <3>5
      <4>2. prev + (Len(log[n]) - prev) = Len(log[n])
        BY <3>4
      <4> QED BY <3>8, <4>1, <4>2
    <3> QED BY <3>2, <3>7, <3>8, <3>9 DEF Holds
  <2> QED BY <2>1, <2>2, <2>3, StepRequests
<1> QED BY <1>1, <1>2, <1>3 DEF SentInv, Holds

\* Only a follower that stores entries reports success.
Stores(m) ==
    /\ HandleAppendEntries(m.to, m)
    /\ FollowLeader(m.to, m) /\ StoreEntries(m.to, m)

LastSent(m) == IF m.entries = <<>> THEN 0 ELSE m.prevLogIndex + Len(m.entries)

LEMMA StepAnswers ==
    ASSUME TypeOK, [Next]_vars, NEW x \in net', x.type = "Appended", x.success
    PROVE  \/ x \in net
           \/ \E m \in net : /\ Stores(m) /\ x.from = m.to /\ x.call = m.term
                             /\ x.last = LastSent(m)
<1>0. CASE x \in net
  BY <1>0
<1>1. CASE UNCHANGED vars
  BY <1>1 DEF vars
<1>2. ASSUME NEW n \in Server, \/ LeaveElection(n) \/ AppendNoOp(n)
                               \/ (\E v \in Value : HandleApplyRequest(n, v))
                               \/ RefuseApplyRequest(n) \/ Restart(n)
                               \/ (\E p \in Server : ReplicateOnce(n, p))
      PROVE  x \in net
  BY <1>2 DEF LeaveElection, AppendNoOp, HandleApplyRequest, RefuseApplyRequest,
              Restart, ReplicateOnce, DropVotes
<1>3. ASSUME NEW n \in Server, StartElection(n) PROVE x \in net
  BY <1>3 DEF StartElection, DropVotes
<1>4. \A m \in net : x = Orphan(m) => x \in net
  <2> TAKE m \in net
  <2>1. Orphan(m).type = m.type /\ (m.type # "AppendEntries" => Orphan(m) = m)
    BY OrphanType DEF TypeOK
  <2> QED BY <2>1
<1>5. ASSUME NEW n \in Server, NEW disk \in OnDisk(n), Crash(n, disk)
      PROVE  x \in net
  BY <1>4, <1>5 DEF Crash
<1>6. ASSUME NEW m \in net, HandleRequestVote(m.to, m) PROVE x \in net
  BY <1>6 DEF HandleRequestVote, DropVotes
<1>7. ASSUME NEW m \in net, HandleVote(m.to, m) PROVE x \in net
  <2>1. net' \subseteq net
    BY <1>7 DEF HandleVote, DropVotes
  <2> QED BY <2>1
<1>8. ASSUME NEW m \in net, HandleAppendEntries(m.to, m), x \notin net
      PROVE  /\ Stores(m) /\ x.from = m.to /\ x.call = m.term /\ x.last = LastSent(m)
  <2>1. \A t, ok, ct, ci :
           /\ AppendResponse(m.to, m, t, ok, ct, ci).success = ok
           /\ AppendResponse(m.to, m, t, ok, ct, ci).from = m.to
           /\ AppendResponse(m.to, m, t, ok, ct, ci).call = m.term
           /\ AppendResponse(m.to, m, t, ok, ct, ci).last = LastSent(m)
    BY DEF AppendResponse, LastSent
  <2>2. ASSUME NEW t, NEW ct, NEW ci,
               Reply(m.to, m, AppendResponse(m.to, m, t, FALSE, ct, ci))
        PROVE  FALSE
    <3>1. x = AppendResponse(m.to, m, t, FALSE, ct, ci)
      BY <1>8, <2>2 DEF Reply, DropVotes
    <3> QED BY <2>1, <3>1
  <2>3. ~RejectStaleLeader(m.to, m)
    <3> SUFFICES ASSUME RejectStaleLeader(m.to, m) PROVE FALSE
      OBVIOUS
    <3>1. x = AppendResponse(m.to, m, currentTerm[m.to], FALSE, 0, 0)
      BY <1>8 DEF RejectStaleLeader, DropVotes
    <3> QED BY <2>1, <3>1
  <2>4. ~(RejectShortLog(m.to, m) \/ RejectConflict(m.to, m) \/ StoreFails(m.to, m))
    BY <2>2 DEF RejectShortLog, RejectConflict, StoreFails
  <2>5. FollowLeader(m.to, m) /\ StoreEntries(m.to, m)
    BY <1>8, <2>3, <2>4 DEF HandleAppendEntries
  <2>6. x = AppendResponse(m.to, m, m.term, TRUE, 0, 0)
    BY <1>8, <2>5 DEF StoreEntries, Reply, DropVotes
  <2>7. /\ AppendResponse(m.to, m, m.term, TRUE, 0, 0).from = m.to
        /\ AppendResponse(m.to, m, m.term, TRUE, 0, 0).call = m.term
        /\ AppendResponse(m.to, m, m.term, TRUE, 0, 0).last = LastSent(m)
    BY DEF AppendResponse, LastSent
  <2>8. x.from = m.to /\ x.call = m.term /\ x.last = LastSent(m)
    BY <2>6, <2>7
  <2> QED BY <1>8, <2>5, <2>8 DEF Stores
<1>9. ASSUME NEW m \in net, HandleAppendEntriesResponse(m.to, m) PROVE x \in net
  BY <1>9 DEF HandleAppendEntriesResponse
<1>10. ASSUME NEW m \in net, CallFails(m) PROVE x \in net
  BY <1>4, <1>10 DEF CallFails
<1> QED
  BY <1>0, <1>1, <1>2, <1>3, <1>5, <1>6, <1>7, <1>8, <1>9, <1>10 DEF Next

\* Only a leader makes calls; an answer takes the place of a call.
LEMMA StepCalls ==
    ASSUME TypeOK, [Next]_vars, NEW n \in Server, NEW x \in net', IsCallOf(n, x)
    PROVE  (\E y \in net : IsCallOf(n, y)) \/ state'[n] = "Leader"
<1>0. CASE x \in net
  BY <1>0
<1>1. CASE UNCHANGED vars
  BY <1>1 DEF vars
<1>2. ASSUME NEW q \in Server, \/ LeaveElection(q) \/ AppendNoOp(q)
                               \/ (\E v \in Value : HandleApplyRequest(q, v))
                               \/ RefuseApplyRequest(q) \/ Restart(q)
      PROVE  x \in net
  BY <1>2 DEF LeaveElection, AppendNoOp, HandleApplyRequest, RefuseApplyRequest,
              Restart, DropVotes
<1>3. ASSUME NEW q \in Server, StartElection(q) PROVE x \in net
  BY <1>3 DEF StartElection, DropVotes, IsCallOf
<1>4. ASSUME NEW q \in Server, NEW p \in Server, ReplicateOnce(q, p), x \notin net
      PROVE  state'[n] = "Leader"
  BY <1>4 DEF ReplicateOnce, IsCallOf
<1>5. \A m \in net : x = Orphan(m) => x \in net
  BY OrphanCalls DEF TypeOK
<1>6. ASSUME NEW q \in Server, NEW disk \in OnDisk(q), Crash(q, disk)
      PROVE  x \in net
  BY <1>5, <1>6 DEF Crash
<1>7. ASSUME NEW m \in net, HandleRequestVote(m.to, m) PROVE x \in net
  BY <1>7 DEF HandleRequestVote, DropVotes, IsCallOf
<1>8. ASSUME NEW m \in net, HandleVote(m.to, m) PROVE x \in net
  <2>1. net' \subseteq net
    BY <1>8 DEF HandleVote, DropVotes
  <2> QED BY <2>1
<1>9. ASSUME NEW m \in net, HandleAppendEntries(m.to, m), x \notin net
      PROVE  IsCallOf(n, m)
  <2>0. m.type = "AppendEntries"
    BY <1>9 DEF HandleAppendEntries
  <2>1. ASSUME NEW t, NEW ok, NEW ct, NEW ci, m.live,
               x = AppendResponse(m.to, m, t, ok, ct, ci)
        PROVE  IsCallOf(n, m)
    <3>1. x.type = "Appended" /\ x.to = m.from
      BY <2>1 DEF AppendResponse
    <3> QED BY <2>0, <2>1, <3>1 DEF IsCallOf
  <2>2. CASE RejectStaleLeader(m.to, m)
    BY <1>9, <2>1, <2>2 DEF RejectStaleLeader, DropVotes
  <2>3. ASSUME NEW t, NEW ok, NEW ct, NEW ci,
               Reply(m.to, m, AppendResponse(m.to, m, t, ok, ct, ci))
        PROVE  IsCallOf(n, m)
    BY <1>9, <2>1, <2>3 DEF Reply, DropVotes
  <2> QED
    BY <1>9, <2>2, <2>3 DEF HandleAppendEntries, RejectShortLog, RejectConflict,
                            StoreEntries, StoreFails
<1>10. ASSUME NEW m \in net, HandleAppendEntriesResponse(m.to, m) PROVE x \in net
  BY <1>10 DEF HandleAppendEntriesResponse
<1>11. ASSUME NEW m \in net, CallFails(m) PROVE x \in net
  BY <1>5, <1>11 DEF CallFails
<1> QED
  BY <1>0, <1>1, <1>2, <1>3, <1>4, <1>6, <1>7, <1>8, <1>9, <1>10, <1>11 DEF Next

\* A leader that leads no more has left its term, follows, or has crashed.
LEMMA LeaderQuits ==
    ASSUME TypeOK, [Next]_vars, NEW n \in Server,
           state[n] = "Leader", state'[n] # "Leader"
    PROVE  \/ currentTerm'[n] > currentTerm[n]
           \/ Follows(n)
           \/ \A x \in net' : ~IsCallOf(n, x)
<1>1. CASE UNCHANGED vars
  BY <1>1 DEF vars
<1>2. ASSUME NEW q \in Server, \/ LeaveElection(q) \/ AppendNoOp(q)
                               \/ (\E v \in Value : HandleApplyRequest(q, v))
                               \/ RefuseApplyRequest(q) \/ Restart(q)
                               \/ (\E p \in Server : ReplicateOnce(q, p))
      PROVE  FALSE
  BY <1>2 DEF LeaveElection, AppendNoOp, HandleApplyRequest, RefuseApplyRequest,
              Restart, ReplicateOnce
<1>3. ASSUME NEW q \in Server, StartElection(q) PROVE currentTerm'[n] > currentTerm[n]
  <2>1. Runs(q) \/ Wins(q)
    BY <1>3, RoleStartElection
  <2>2. q = n
    BY <1>3, RoleStartElection DEF OthersKeepRole, KeepsRole
  <2> QED BY <1>3, <2>2 DEF StartElection, TypeOK
<1>4. ASSUME NEW q \in Server, NEW disk \in OnDisk(q), Crash(q, disk), NEW x \in net',
             IsCallOf(n, x)
      PROVE  FALSE
  <2>1. q = n
    BY <1>4 DEF Crash, TypeOK
  <2>2. PICK m \in net : m.to # n /\ x = IF m.from = n THEN Orphan(m) ELSE m
    BY <1>4, <2>1 DEF Crash
  <2>3. m \in Message /\ Orphan(m).to = m.to /\ Orphan(m).type = m.type
    BY OrphanType DEF TypeOK
  <2>4. x.to # n
    BY <2>2, <2>3
  <2>5. x.type = "AppendEntries" /\ x.from = n /\ x.live
    BY <1>4, <2>4 DEF IsCallOf
  <2>6. m.from = n /\ x = Orphan(m)
    BY <2>2, <2>5
  <2>7. m \in AppendEntriesReq
    BY <2>3, <2>5, <2>6, MessageFields
  <2> QED BY <2>5, <2>6, <2>7 DEF Orphan, AppendEntriesReq
<1>5. ASSUME NEW m \in net, HandleRequestVote(m.to, m)
      PROVE  currentTerm'[n] > currentTerm[n]
  <2>1. m.to \in Server /\ m.term \in Nat /\ currentTerm[n] \in Nat
    BY MessageFields DEF TypeOK
  <2> QED BY <1>5, <2>1 DEF HandleRequestVote, TypeOK
<1>6. ASSUME NEW m \in net, HandleVote(m.to, m)
      PROVE  currentTerm'[n] > currentTerm[n]
  <2>1. m.to \in Server /\ m.term \in Nat /\ currentTerm[n] \in Nat
    BY MessageFields DEF TypeOK
  <2>2. m.to = n
    BY <1>6, <2>1, RoleHandleVote DEF OthersKeepRole, KeepsRole
  <2>3. CASE m.term > currentTerm[n]
    BY <1>6, <2>1, <2>2, <2>3 DEF HandleVote, TypeOK
  <2>4. CASE m.term <= currentTerm[n] /\ Cardinality(votes[n] \cup {m.from}) >= Quorum
    <3>1. BecomeLeader(n, currentTerm[n])
      BY <1>6, <2>1, <2>2, <2>4 DEF HandleVote
    <3> QED BY <3>1 DEF BecomeLeader, TypeOK
  <2>5. CASE m.term <= currentTerm[n] /\ ~(Cardinality(votes[n] \cup {m.from}) >= Quorum)
    BY <1>6, <2>1, <2>2, <2>5 DEF HandleVote
  <2> QED BY <2>1, <2>3, <2>4, <2>5
<1>7. ASSUME NEW m \in net, HandleAppendEntries(m.to, m) PROVE Follows(n)
  <2>1. m.to \in Server
    BY MessageFields
  <2> QED BY <1>7, <2>1, RoleHandleAppendEntries DEF OthersKeepRole, KeepsRole
<1>8. ASSUME NEW m \in net, HandleAppendEntriesResponse(m.to, m)
      PROVE  currentTerm'[n] > currentTerm[n]
  <2>1. m.to \in Server /\ m.term \in Nat /\ currentTerm[n] \in Nat
    BY MessageFields DEF TypeOK
  <2> QED BY <1>8, <2>1 DEF HandleAppendEntriesResponse, TypeOK
<1>9. ASSUME NEW m \in net, CallFails(m) PROVE FALSE
  BY <1>9 DEF CallFails
<1> QED
  BY <1>1, <1>2, <1>3, <1>4, <1>5, <1>6, <1>7, <1>8, <1>9 DEF Next

LEMMA CallsNext ==
    ASSUME NEW led, NEW new, NEW acks, NEW acked, GhostStep(led, new, acks, acked),
           CallsInv
    PROVE  CallsInv'
<1>1. /\ [Next]_vars /\ TypeOK /\ TypeOK' /\ ElectionInv /\ TermsLed
      /\ \A p \in Server : /\ currentTerm[p] \in Nat /\ currentTerm'[p] \in Nat
                           /\ currentTerm'[p] >= currentTerm[p]
  BY StepFacts
<1> SUFFICES ASSUME NEW n \in Server, <<currentTerm'[n], n>> \in leaders',
                    state'[n] # "Leader", NEW x \in net', IsCallOf(n, x)
             PROVE  FALSE
  BY DEF CallsInv, IsCallOf
<1>2. <<currentTerm'[n], n>> \in leaders
  BY NextLeader
<1>3. currentTerm'[n] = currentTerm[n]
  <2>1. PICK l : l = <<currentTerm'[n], n>>
    OBVIOUS
  <2>2. l \in leaders /\ l[1] = currentTerm'[n] /\ l[2] = n
    BY <1>2, <2>1
  <2> QED BY <1>1, <2>2 DEF TermsLed
<1>4. CASE state[n] = "Leader"
  <2>1. Follows(n)
    BY <1>1, <1>3, <1>4, LeaderQuits
  <2>2. PICK m \in net : /\ m.type = "AppendEntries" /\ m.to = n
                         /\ currentTerm'[n] = m.term
    BY <2>1 DEF Follows
  <2>3. <<m.term, m.from>> \in leaders /\ m.from # n
    BY <1>1, <2>2 DEF ElectionInv, RecordInv
  <2>4. ElectionSafety
    BY <1>1, OneLeaderPerTerm DEF ElectionInv, VoteInv
  <2> QED BY <1>2, <2>2, <2>3, <2>4 DEF ElectionSafety
<1>5. CASE state[n] # "Leader"
  BY <1>1, <1>2, <1>3, <1>5, StepCalls DEF CallsInv
<1> QED BY <1>4, <1>5

-----------------------------------------------------------------------------
(* Followers that store entries *)

\* The index of the last entry that a request would have the follower hold.
UpTo(m) == m.prevLogIndex + Len(m.entries)

LEMMA StoredLog ==
    ASSUME NEW led, WellLed(led), NEW m \in net, Stores(m)
    PROVE  /\ Takes(m.to, m) /\ UpTo(m) \in Nat /\ LastSent(m) \in {0, UpTo(m)}
           /\ AgreeUpTo(log'[m.to], led[m.term], UpTo(m))
<1>1. /\ TypeOK /\ ElectionInv /\ TermsLed /\ LogPerTerm(led) /\ MatchInv(led)
      /\ m.type = "AppendEntries" /\ FollowLeader(m.to, m) /\ StoreEntries(m.to, m)
      /\ PassesCheck(m.to, m) /\ leaders' = leaders
  BY DEF WellLed, Stores, HandleAppendEntries, StoreEntries
<1>2. Takes(m.to, m)
  <2>1. RequestsKept
    BY <1>1, ReplyKept DEF StoreEntries
  <2> QED BY <1>1, <2>1 DEF Takes, StoreEntries
<1>3. /\ m.to \in Server /\ m.term \in Nat /\ m.prevLogIndex \in Nat
      /\ m.entries \in Seq(Entry)
  BY <1>1, MessageFields DEF AppendEntriesReq
<1>4. PICK k : CutWithin(led, m, k)
  BY <1>1, CheckedCut
<1>5. /\ k \in Seq(Entry) /\ IsPrefixOf(k, led[m.term]) /\ m.prevLogIndex <= Len(k)
      /\ m.entries = SubSeq(k, m.prevLogIndex + 1, Len(k))
  BY <1>4 DEF CutWithin
<1>6. Len(m.entries) = Len(k) - m.prevLogIndex
  BY <1>3, <1>5, CutEntries
<1>7. UpTo(m) = Len(k) /\ Len(k) \in Nat
  BY <1>3, <1>5, <1>6 DEF UpTo
<1>8. PICK l : l = log[m.to]
  OBVIOUS
<1>9. /\ Merged(l, m.prevLogIndex, m.entries) \in Seq(Entry)
      /\ AgreeUpTo(Merged(l, m.prevLogIndex, m.entries), k, Len(k))
  BY <1>1, <1>4, <1>8, TakeFollows
<1>10. log'[m.to] = Merged(l, m.prevLogIndex, m.entries)
  BY <1>1, <1>3, <1>8 DEF StoreEntries, TypeOK
<1>11. led[m.term] \in Seq(Entry)
  BY <1>1, <1>3, LedLog
<1>12. AgreeUpTo(log'[m.to], led[m.term], Len(k))
  BY <1>5, <1>7, <1>9, <1>10, <1>11, AgreePrefix
<1> QED BY <1>2, <1>7, <1>12 DEF LastSent, UpTo

\* What a follower reports is what it holds.
LEMMA StoreHolds ==
    ASSUME NEW led, NEW new, NEW acks, NEW acked, GhostStep(led, new, acks, acked),
           NEW m \in net, Stores(m), NEW p, p = m.to, NEW t, t = m.term,
           NEW k, k = LastSent(m)
    PROVE  PeerHolds(new, acked, p, t, k)'
<1>1. /\ TypeOK /\ ElectionInv /\ WellLed(led) /\ AckGrows(acks, acked)
  BY StepFacts
<1>2. /\ Takes(m.to, m) /\ UpTo(m) \in Nat /\ k \in {0, UpTo(m)}
      /\ AgreeUpTo(log'[p], led[t], UpTo(m))
  BY <1>1, StoredLog
<1>3. p \in Server /\ t \in Nat /\ currentTerm'[p] = t /\ k \in Nat
  <2>1. m.to \in Server /\ m.term \in Nat /\ currentTerm'[m.to] = m.term
    BY <1>1, <1>2, TakesTerm
  <2>2. k \in Nat
    BY <1>2
  <2> QED BY <2>1, <2>2
<1>4. /\ log'[p] \in Seq(Entry) /\ led[t] \in Seq(Entry) /\ new[t] \in Seq(Entry)
      /\ IsPrefixOf(led[t], new[t])
  BY <1>3, StepFacts, NextLog
<1>5. AgreeUpTo(log'[p], new[t], k)
  <2>1. AgreeUpTo(log'[p], new[t], UpTo(m))
    BY <1>2, <1>4, AgreePrefix
  <2>2. k <= UpTo(m)
    BY <1>2
  <2> QED BY <1>2, <1>3, <1>4, <2>1, <2>2, AgreeLess
<1>6. \A i \in 1..k : new[t][i].term = t => Ack(acked, t, p, i)
  <2> SUFFICES ASSUME NEW i \in 1..k, new[t][i].term = t PROVE Ack(acked, t, p, i)
    OBVIOUS
  <2>1. i \in Nat /\ Holds(log'[p], i, t)
    BY <1>3, <1>4, <1>5 DEF AgreeUpTo, Holds
  <2> QED BY <1>1, <1>3, <2>1 DEF AckGrows
<1> QED BY <1>3, <1>5, <1>6 DEF PeerHolds, AgreeUpTo, Ack

\* The last entry of a request is the leader's own.
LEMMA StoredOwn ==
    ASSUME NEW led, WellLed(led), SentInv, NEW m \in net, Stores(m)
    PROVE  OwnEntry(led, m.term, LastSent(m))
<1> SUFFICES ASSUME ~DiskFaults, LastSent(m) > 0
             PROVE  Holds(led[m.term], LastSent(m), m.term)
  BY DEF OwnEntry
<1>1. /\ TypeOK /\ TermsLed /\ LogPerTerm(led) /\ MatchInv(led)
      /\ m.type = "AppendEntries" /\ PassesCheck(m.to, m)
  BY DEF WellLed, Stores, HandleAppendEntries, StoreEntries
<1>2. /\ m.term \in Nat /\ m.prevLogIndex \in Nat /\ m.entries \in Seq(Entry)
  BY <1>1, MessageFields DEF AppendEntriesReq
<1>3. m.entries # <<>> /\ LastSent(m) = m.prevLogIndex + Len(m.entries)
  BY DEF LastSent
<1>4. PICK k : CutWithin(led, m, k)
  BY <1>1, CheckedCut
<1>5. /\ k \in Seq(Entry) /\ IsPrefixOf(k, led[m.term]) /\ m.prevLogIndex <= Len(k)
      /\ m.entries = SubSeq(k, m.prevLogIndex + 1, Len(k))
  BY <1>4 DEF CutWithin
<1>6. /\ Len(m.entries) = Len(k) - m.prevLogIndex
      /\ \A i \in 1..(Len(k) - m.prevLogIndex) : m.entries[i] = k[m.prevLogIndex + i]
  BY <1>2, <1>5, CutEntries
<1>7. Len(k) \in Nat /\ Len(m.entries) \in Nat /\ Len(m.entries) # 0
  <2>1. Len(k) \in Nat
    BY <1>5
  <2>2. Len(m.entries) \in Nat /\ Len(m.entries) # 0
    BY <1>2, <1>3
  <2> QED BY <2>1, <2>2
<1>8. LastSent(m) = Len(k) /\ Len(k) \in 1..Len(k)
  BY <1>2, <1>3, <1>6, <1>7
<1>9. m.entries[Len(m.entries)] = k[Len(k)]
  <2>1. Len(m.entries) \in 1..(Len(k) - m.prevLogIndex)
    BY <1>2, <1>6, <1>7
  <2>2. m.prevLogIndex + Len(m.entries) = Len(k)
    BY <1>2, <1>6, <1>7
  <2> QED BY <1>6, <2>1, <2>2
<1>10. k[Len(k)].term = m.term
  BY <1>1, <1>3, <1>9 DEF SentInv
<1>11. led[m.term] \in Seq(Entry)
  BY <1>1, <1>2, LedLog
<1>12. Holds(k, Len(k), m.term)
  BY <1>8, <1>10 DEF Holds
<1> QED BY <1>5, <1>7, <1>8, <1>11, <1>12, HoldsPrefix

LEMMA OwnKept ==
    ASSUME NEW led, NEW new, NEW acks, NEW acked, GhostStep(led, new, acks, acked),
           NEW t \in Nat, NEW k \in Nat, OwnEntry(led, t, k)
    PROVE  OwnEntry(new, t, k)
  BY StepFacts, HoldsPrefix DEF OwnEntry

\* ... and keeps while it is in the leader's term.
LEMMA PeerKept ==
    ASSUME NEW led, NEW new, NEW acks, NEW acked, GhostStep(led, new, acks, acked),
           NEW p \in Server, NEW t \in Nat, NEW k \in Nat, PeerHolds(led, acks, p, t, k)
    PROVE  PeerHolds(new, acked, p, t, k)'
<1>1. /\ TypeOK /\ ElectionInv /\ WellLed(led) /\ AckGrows(acks, acked) /\ [Next]_vars
      /\ currentTerm[p] \in Nat /\ currentTerm'[p] \in Nat
      /\ currentTerm'[p] >= currentTerm[p]
      /\ log[p] \in Seq(Entry) /\ log'[p] \in Seq(Entry)
      /\ led[t] \in Seq(Entry) /\ new[t] \in Seq(Entry) /\ IsPrefixOf(led[t], new[t])
  BY StepFacts, NextLog, WellLedNode
<1>2. k <= Len(new[t]) /\ \A i \in 1..k : new[t][i] = led[t][i]
  BY <1>1 DEF PeerHolds, IsPrefixOf
<1>3. \A i \in 1..k : new[t][i].term = t => Ack(acked, t, p, i)
  <2> SUFFICES ASSUME NEW i \in 1..k, new[t][i].term = t PROVE Ack(acked, t, p, i)
    OBVIOUS
  <2>1. Ack(acks, t, p, i) /\ i \in Nat
    BY <1>2 DEF PeerHolds
  <2> QED BY <1>1, <2>1 DEF AckGrows
<1>4. k > 0 => currentTerm'[p] >= t
  BY <1>1 DEF PeerHolds
<1>5. ASSUME k > 0, currentTerm'[p] = t PROVE AgreeUpTo(log'[p], new[t], k)
  <2>1. currentTerm[p] = t /\ AgreeUpTo(log[p], led[t], k)
    BY <1>1, <1>5 DEF PeerHolds
  <2>2. ASSUME NEW m \in net, m.to = p, Takes(p, m) PROVE AgreeUpTo(log[p], led[m.term], k)
    BY <1>1, <1>5, <2>1, <2>2, TakesTerm
  <2>3. AgreeUpTo(log'[p], log[p], k)
    <3>1. k <= Len(log[p])
      BY <2>1 DEF AgreeUpTo
    <3> QED BY <1>1, <2>2, <3>1, LogKept
  <2>4. AgreeUpTo(log'[p], led[t], k)
    BY <2>1, <2>3, AgreeTransitive
  <2> QED BY <1>1, <2>4, AgreePrefix
<1> QED BY <1>2, <1>3, <1>4, <1>5 DEF PeerHolds, AgreeUpTo, Ack

LEMMA PeerNext ==
    ASSUME NEW led, NEW new, NEW acks, NEW acked, GhostStep(led, new, acks, acked),
           PeerInv(led, acks), SentInv
    PROVE  PeerInv(new, acked)'
<1>1. /\ TypeOK /\ TypeOK' /\ [Next]_vars /\ WellLed(led)
      /\ \A p \in Server : currentTerm[p] \in Nat /\ currentTerm'[p] \in Nat
  BY StepFacts
<1>2. ASSUME NEW m \in net, m.type = "Appended", m.success
      PROVE  /\ PeerHolds(new, acked, m.from, m.call, m.last)'
             /\ OwnEntry(new, m.call, m.last)
  <2>1. m.from \in Server /\ m.call \in Nat /\ m.last \in Nat
    BY <1>1, <1>2, MessageFields DEF AppendEntriesResp
  <2>2. PeerHolds(led, acks, m.from, m.call, m.last) /\ OwnEntry(led, m.call, m.last)
    BY <1>2 DEF PeerInv
  <2> QED BY <2>1, <2>2, PeerKept, OwnKept
<1>3. ASSUME NEW m \in net', m.type = "Appended", m.success
      PROVE  /\ PeerHolds(new, acked, m.from, m.call, m.last)'
             /\ OwnEntry(new, m.call, m.last)
  <2>1. CASE m \in net
    BY <1>2, <1>3, <2>1
  <2>2. ASSUME NEW r \in net, Stores(r), m.from = r.to, m.call = r.term,
               m.last = LastSent(r)
        PROVE  /\ PeerHolds(new, acked, m.from, m.call, m.last)'
               /\ OwnEntry(new, m.call, m.last)
    <3>1. PeerHolds(new, acked, m.from, m.call, m.last)'
      BY <2>2, StoreHolds
    <3>2. OwnEntry(led, r.term, LastSent(r))
      BY <1>1, <2>2, StoredOwn
    <3>3. r.term \in Nat /\ LastSent(r) \in Nat
      <4>1. UpTo(r) \in Nat /\ LastSent(r) \in {0, UpTo(r)}
        BY <1>1, <2>2, StoredLog
      <4>2. r.term \in Nat
        BY <1>1, MessageFields
      <4> QED BY <4>1, <4>2
    <3> QED BY <2>2, <3>1, <3>2, <3>3, OwnKept
  <2> QED BY <1>1, <1>3, <2>1, <2>2, StepAnswers
<1>4. leaders \subseteq leaders'
  BY <1>1, StepRoles DEF Wins
<1>5. ASSUME NEW n \in Server
      PROVE  /\ state'[n] = "Leader" => peersTerm'[n] = currentTerm'[n]
             /\ peersTerm'[n] > 0 => <<peersTerm'[n], n>> \in leaders'
             /\ \A p \in Server : \A t, k : t = peersTerm'[n] /\ k = matchIndex'[n][p] =>
                   PeerHolds(new, acked, p, t, k)' /\ OwnEntry(new, t, k)
  <2>1. CASE PeersReset(n) \/ PeersLost(n)
    <3>1. /\ peersTerm'[n] \in Nat /\ \A p \in Server : matchIndex'[n][p] = 0
          /\ state'[n] = "Leader" => peersTerm'[n] = currentTerm'[n]
          /\ peersTerm'[n] > 0 => <<peersTerm'[n], n>> \in leaders'
      BY <1>1, <2>1 DEF PeersReset, PeersLost
    <3>2. ASSUME NEW p \in Server, NEW t \in Nat
          PROVE  PeerHolds(new, acked, p, t, 0)' /\ OwnEntry(new, t, 0)
      <4>1. new[t] \in Seq(Entry)
        BY StepFacts
      <4> QED BY <4>1 DEF PeerHolds, OwnEntry
    <3> QED BY <3>1, <3>2
  <2>2. CASE LeadsOn(n) /\ (PeersKept(n) \/ PeerAnswers(n))
    <3>1. /\ peersTerm'[n] = peersTerm[n]
          /\ state'[n] = "Leader" => peersTerm'[n] = currentTerm'[n]
          /\ peersTerm'[n] > 0 => <<peersTerm'[n], n>> \in leaders'
      BY <1>4, <2>2 DEF LeadsOn, PeerInv, PeersKept, PeerAnswers
    <3>2. ASSUME NEW p \in Server, NEW t, t = peersTerm[n], NEW k, k = matchIndex[n][p]
          PROVE  PeerHolds(new, acked, p, t, k)' /\ OwnEntry(new, t, k)
      <4>1. t \in Nat /\ k \in Nat
        BY <1>1, <3>2 DEF TypeOK
      <4>2. PeerHolds(led, acks, p, t, k) /\ OwnEntry(led, t, k)
        BY <3>2 DEF PeerInv
      <4> QED BY <4>1, <4>2, PeerKept, OwnKept
    <3>3. CASE PeersKept(n)
      BY <3>1, <3>2, <3>3 DEF PeersKept
    <3>4. CASE PeerAnswers(n)
      <4>1. PICK m \in net :
               /\ m.type = "Appended" /\ m.success /\ m.call = peersTerm[n]
               /\ \A p \in Server :
                    matchIndex'[n][p] = IF p = m.from THEN m.last ELSE matchIndex[n][p]
        BY <3>4 DEF PeerAnswers
      <4>2. /\ PeerHolds(new, acked, m.from, m.call, m.last)'
            /\ OwnEntry(new, m.call, m.last)
        BY <1>2, <4>1
      <4>3. ASSUME NEW p \in Server, NEW t, NEW k, t = peersTerm'[n], k = matchIndex'[n][p]
            PROVE  PeerHolds(new, acked, p, t, k)' /\ OwnEntry(new, t, k)
        <5>1. CASE p = m.from
          <6>1. t = m.call /\ k = m.last
            BY <3>1, <4>1, <4>3, <5>1
          <6> QED BY <4>2, <5>1, <6>1
        <5>2. CASE p # m.from
          BY <3>1, <3>2, <4>1, <4>3, <5>2
        <5> QED BY <5>1, <5>2
      <4> QED BY <3>1, <4>3
    <3> QED BY <2>2, <3>3, <3>4
  <2> QED BY <1>1, <2>1, <2>2, StepPeers DEF PeersStep
<1> QED BY <1>3, <1>5 DEF PeerInv, PeerHolds, OwnEntry, Holds, AgreeUpTo, Ack

-----------------------------------------------------------------------------
(* Commits *)

\* What a step does to commit indexes: nothing, a crash forgets one, a follower
\* learns from a request, or an answer lets a node advance its own.
CommitKept == UNCHANGED <<commitIndex, committed>>

Forgets(n) ==
    /\ commitIndex' = [commitIndex EXCEPT ![n] = 0]
    /\ UNCHANGED <<committed, log>>

Learns(m) ==
    /\ Stores(m)
    /\ m.leaderCommit > commitIndex[m.to]
    /\ \E c : /\ c = IF m.leaderCommit < Len(log'[m.to]) THEN m.leaderCommit
                                                         ELSE Len(log'[m.to])
              /\ commitIndex' = [commitIndex EXCEPT ![m.to] = c]
              /\ Remember(log'[m.to], c)

Advances(n, c) ==
    /\ \E m \in net : IsCallOf(n, m)
    /\ UNCHANGED <<log, currentTerm, state, leaders>>
    /\ c = MajorityMatch(n) /\ c > commitIndex[n] /\ c \in DOMAIN log[n]
    /\ log[n][c].term = currentTerm[n]
    /\ commitIndex' = [commitIndex EXCEPT ![n] = c]
    /\ Remember(log[n], c)

LEMMA StepCommits ==
    ASSUME TypeOK, [Next]_vars
    PROVE  \/ CommitKept
           \/ \E n \in Server : Forgets(n)
           \/ \E m \in net : Learns(m)
           \/ \E n \in Server : \E c \in Nat : Advances(n, c)
<1>1. CASE UNCHANGED vars
  BY <1>1 DEF vars, CommitKept
<1>2. ASSUME NEW n \in Server, \/ StartElection(n) \/ LeaveElection(n) \/ AppendNoOp(n)
                               \/ (\E v \in Value : HandleApplyRequest(n, v))
                               \/ RefuseApplyRequest(n) \/ Restart(n)
                               \/ (\E p \in Server : ReplicateOnce(n, p))
      PROVE  CommitKept
  BY <1>2 DEF StartElection, LeaveElection, AppendNoOp, HandleApplyRequest,
              RefuseApplyRequest, Restart, ReplicateOnce, CommitKept
<1>3. ASSUME NEW n \in Server, NEW disk \in OnDisk(n), Crash(n, disk)
      PROVE  Forgets(n)
  BY <1>3 DEF Crash, Forgets
<1>4. ASSUME NEW m \in net, HandleRequestVote(m.to, m) \/ HandleVote(m.to, m) \/ CallFails(m)
      PROVE  CommitKept
  BY <1>4 DEF HandleRequestVote, HandleVote, CallFails, CommitKept
<1>5. ASSUME NEW m \in net, HandleAppendEntries(m.to, m)
      PROVE  CommitKept \/ Learns(m)
  <2>1. CASE RejectStaleLeader(m.to, m)
    BY <2>1 DEF RejectStaleLeader, CommitKept
  <2>2. CASE FollowLeader(m.to, m) /\ StoreEntries(m.to, m)
    <3>1. m.to \in Server
      BY MessageFields
    <3>2. log'[m.to] = Merged(log[m.to], m.prevLogIndex, m.entries)
      BY <2>2, <3>1 DEF StoreEntries, TypeOK
    <3>3. Stores(m)
      BY <1>5, <2>2 DEF Stores
    <3> QED BY <2>2, <3>2, <3>3 DEF StoreEntries, Learns, CommitKept
  <2>3. CASE RejectShortLog(m.to, m) \/ RejectConflict(m.to, m) \/ StoreFails(m.to, m)
    BY <2>3 DEF RejectShortLog, RejectConflict, StoreFails, CommitKept
  <2> QED BY <1>5, <2>1, <2>2, <2>3 DEF HandleAppendEntries
<1>6. ASSUME NEW m \in net, HandleAppendEntriesResponse(m.to, m)
      PROVE  CommitKept \/ \E n \in Server : \E c \in Nat : Advances(n, c)
  <2>1. m.to \in Server /\ IsCallOf(m.to, m) /\ UNCHANGED <<log, leaders>>
    BY <1>6, MessageFields DEF HandleAppendEntriesResponse, IsCallOf
  <2>2. CASE AdvanceCommitIndex(m.to) /\ UNCHANGED <<currentTerm, state>>
    <3>1. PICK c : c = MajorityMatch(m.to)
      OBVIOUS
    <3>2. CASE /\ c > commitIndex[m.to] /\ c \in DOMAIN log[m.to]
               /\ log[m.to][c].term = currentTerm[m.to]
      <4>1. c \in Nat
        BY <2>1, <3>2 DEF TypeOK
      <4>2. commitIndex' = [commitIndex EXCEPT ![m.to] = c] /\ Remember(log[m.to], c)
        BY <2>2, <3>1, <3>2 DEF AdvanceCommitIndex
      <4>3. Advances(m.to, c)
        BY <2>1, <2>2, <3>1, <3>2, <4>2 DEF Advances
      <4> QED BY <2>1, <4>1, <4>3
    <3>3. CASE ~ /\ c > commitIndex[m.to] /\ c \in DOMAIN log[m.to]
                 /\ log[m.to][c].term = currentTerm[m.to]
      BY <2>2, <3>1, <3>3 DEF AdvanceCommitIndex, CommitKept
    <3> QED BY <3>2, <3>3
  <2>3. CASE UNCHANGED <<commitIndex, committed>>
    BY <2>3 DEF CommitKept
  <2> QED BY <1>6, <2>2, <2>3 DEF HandleAppendEntriesResponse
<1> QED BY <1>1, <1>2, <1>3, <1>4, <1>5, <1>6 DEF Next

\* Of all that the nodes reached, a majority reached the index that is taken.
LEMMA MajorityReached ==
    ASSUME TypeOK, TypeOK', NEW n \in Server
    PROVE  /\ MajorityMatch(n) \in Nat
           /\ {p \in Server : Match(n, p) >= MajorityMatch(n)} \in Quorums
<1> DEFINE Reach(k) == {p \in Server : Match(n, p) >= k}
           Above(k) == {p \in Server : Match(n, p) > k}
           All == {Match(n, p) : p \in Server}
           S == {k \in All : ~(Cardinality(Above(k)) >= Quorum)}
<1>1. \A p \in Server : Match(n, p) \in Nat
  BY DEF TypeOK, Match
<1>2. IsFiniteSet(Server) /\ Cardinality(Server) \in Nat /\ Quorum \in Nat /\ Quorum >= 1
  BY ServerAssumption, FS_CardinalityType DEF Quorum
<1>3. \A k : Cardinality(Above(k)) \in Nat /\ Cardinality(Reach(k)) \in Nat
  <2> TAKE k
  <2>1. Above(k) \subseteq Server /\ Reach(k) \subseteq Server
    OBVIOUS
  <2> QED BY <1>2, <2>1, FS_Subset, FS_CardinalityType
<1>4. All \in SUBSET Nat
  BY <1>1
<1>5. \E k \in All : Above(k) = {}
  <2> DEFINE C == {Cardinality(Above(k)) : k \in All}
  <2>1. C \in SUBSET Nat /\ C # {}
    BY <1>3
  <2>2. PICK c \in C : \A d \in C : c <= d
    <3> HIDE DEF C
    <3> QED BY <2>1, MinExists
  <2>3. PICK k \in All : c = Cardinality(Above(k))
    BY <2>2
  <2>4. SUFFICES ASSUME NEW p \in Above(k) PROVE FALSE
    BY <2>3
  <2>5. PICK j : j = Match(n, p)
    OBVIOUS
  <2>6. j \in All /\ j \in Nat /\ k \in Nat /\ j > k
    BY <1>1, <1>4, <2>5
  <2>7. Above(j) \subseteq Above(k) /\ p \notin Above(j)
    BY <1>1, <2>5, <2>6
  <2>8. IsFiniteSet(Above(k))
    BY <1>2, FS_Subset
  <2>9. Cardinality(Above(j)) < Cardinality(Above(k))
    <3> HIDE DEF Above
    <3>1. Above(j) # Above(k)
      BY <2>4, <2>7
    <3>2. /\ Cardinality(Above(j)) <= Cardinality(Above(k))
          /\ Cardinality(Above(j)) # Cardinality(Above(k))
      BY <2>7, <2>8, <3>1, FS_Subset
    <3>3. Cardinality(Above(j)) \in Nat /\ Cardinality(Above(k)) \in Nat
      BY <1>3 DEF Above
    <3> QED BY <3>2, <3>3
  <2>10. Cardinality(Above(j)) \in C
    BY <2>6
  <2>11. c <= Cardinality(Above(j)) /\ c \in Nat
    <3> HIDE DEF C, Above, All
    <3> QED BY <2>1, <2>2, <2>10
  <2>12. Cardinality(Above(j)) \in Nat
    BY <1>3
  <2> HIDE DEF Above, All, C
  <2> QED BY <2>3, <2>9, <2>11, <2>12
<1>6. S # {}
  <2>1. PICK k \in All : Above(k) = {}
    BY <1>5
  <2>2. Cardinality(Above(k)) = 0
    <3> HIDE DEF Above
    <3> QED BY <2>1, FS_EmptySet
  <2>3. ~(Cardinality(Above(k)) >= Quorum)
    <3> HIDE DEF Above
    <3> QED BY <1>2, <2>2
  <2> QED BY <2>1, <2>3, Zenon
<1>7. PICK k \in S : \A j \in S : k <= j
  <2>1. S \in SUBSET Nat
    BY <1>4
  <2> HIDE DEF S
  <2> QED BY <1>6, <2>1, MinExists
<1>8. k \in All /\ k \in Nat /\ Cardinality(Above(k)) < Quorum
  <2>1. k \in All /\ ~(Cardinality(Above(k)) >= Quorum)
    BY <1>7, Zenon
  <2>2. Cardinality(Above(k)) \in Nat
    BY <1>3
  <2>3. k \in Nat
    BY <1>4, <2>1
  <2> HIDE DEF Above, All
  <2> QED BY <1>2, <2>1, <2>2, <2>3
<1>9. Cardinality(Reach(k)) >= Quorum
  <2>1. CASE Reach(k) = Server
    <3>1. Cardinality(Server) # 0
      BY <1>2, ServerAssumption, FS_EmptySet
    <3>2. Cardinality(Server) >= Quorum
      BY <1>2, <3>1 DEF Quorum
    <3> HIDE DEF Reach
    <3> QED BY <2>1, <3>2
  <2>2. CASE Reach(k) # Server
    <3> DEFINE L == {j \in All : j < k}
    <3>1. L # {} /\ L \in SUBSET (0..k)
      BY <1>1, <1>8, <2>2
    <3>2. PICK j \in L : \A i \in L : i <= j
      <4> HIDE DEF L
      <4> QED BY <1>8, <3>1, MaxExists
    <3>3. j \in All /\ j \in Nat /\ j < k
      BY <1>4, <3>2
    <3>4. j \notin S
      <4> HIDE DEF S
      <4> QED BY <1>7, <1>8, <3>3
    <3>5. Cardinality(Above(j)) >= Quorum
      BY <3>3, <3>4
    <3>6. Above(j) \subseteq Reach(k)
      <4> SUFFICES ASSUME NEW p \in Server, Match(n, p) > j, ~(Match(n, p) >= k)
                   PROVE  FALSE
        OBVIOUS
      <4>1. Match(n, p) \in L /\ Match(n, p) \in Nat
        BY <1>1, <1>8
      <4> QED BY <3>2, <3>3, <4>1
    <3>7. IsFiniteSet(Reach(k))
      BY <1>2, FS_Subset
    <3>8. Cardinality(Above(j)) <= Cardinality(Reach(k))
      <4> HIDE DEF Above, Reach
      <4> QED BY <3>6, <3>7, FS_Subset
    <3> HIDE DEF Above, Reach
    <3> QED BY <1>2, <1>3, <3>5, <3>8
  <2> QED BY <2>1, <2>2
<1>10. /\ MajorityMatch(n) \in All
       /\ Cardinality(Reach(MajorityMatch(n))) >= Quorum
  BY <1>8, <1>9 DEF MajorityMatch
<1>11. Reach(MajorityMatch(n)) \subseteq Server
  OBVIOUS
<1>12. MajorityMatch(n) \in Nat
  <2> HIDE DEF All
  <2> QED BY <1>4, <1>10
<1> QED BY <1>10, <1>11, <1>12 DEF Quorums


\* Of three nodes two are a majority.
LEMMA PairIsQuorum ==
    ASSUME Cardinality(Server) <= 3, NEW n \in Server, NEW p \in Server, n # p
    PROVE  {n, p} \in Quorums
<1>1. PICK S : S = {n}
  OBVIOUS
<1>2. Cardinality({n, p}) = 2
  <2>1. IsFiniteSet(S) /\ Cardinality(S) = 1 /\ p \notin S /\ S \cup {p} = {n, p}
    BY <1>1, FS_Singleton
  <2>2. Cardinality(S \cup {p}) = Cardinality(S) + 1
    BY <2>1, FS_AddElement
  <2> QED BY <2>1, <2>2
<1>3. Cardinality(Server) \in Nat
  BY ServerAssumption, FS_CardinalityType
<1>4. Quorum <= 2 /\ Quorum \in Nat
  BY <1>3 DEF Quorum
<1> QED BY <1>2, <1>4 DEF Quorums

\* A step in which a node advances its commit index makes no acknowledgements.
LEMMA AdvanceAcks ==
    ASSUME NEW led, NEW new, NEW acks, NEW acked, GhostStep(led, new, acks, acked),
           AckInv(led, acks), NEW n, NEW c, Advances(n, c), NEW t \in Nat, NEW i \in Nat
    PROVE  /\ \A v \in Server : Ack(acked, t, v, i) => Ack(acks, t, v, i)
           /\ Chosen(acked, t, i) => Chosen(acks, t, i)
<1>1. AckGrows(acks, acked) /\ log' = log /\ currentTerm' = currentTerm
  BY StepFacts DEF Advances
<1>2. ASSUME NEW v \in Server, Ack(acked, t, v, i) PROVE Ack(acks, t, v, i)
  <2>1. Ack(acks, t, v, i) \/ (t = currentTerm[v] /\ Holds(log[v], i, t))
    BY <1>1, <1>2 DEF AckGrows
  <2> QED BY <2>1 DEF AckInv
<1> QED BY <1>2, QuorumMembers DEF Chosen

\* What a leader commits is chosen: a majority reported it, and it is of the
\* leader's term.
LEMMA LeaderChooses ==
    ASSUME NEW led, NEW new, NEW acks, NEW acked, GhostStep(led, new, acks, acked),
           PeerInv(new, acked)', NEW n \in Server, state'[n] = "Leader",
           NEW t, t = currentTerm'[n], NEW c \in Nat, Holds(log'[n], c, t),
           Ack(acked, t, n, c),
           NEW Q \in Quorums, Q = {p \in Server : Match(n, p) >= c}
    PROVE  Chosen(acked, t, c)
<1>1. TypeOK' /\ log'[n] = new[t]
  BY StepFacts, NextLog
<1>2. ASSUME NEW p \in Server, p # n, matchIndex'[n][p] >= c
      PROVE  Ack(acked, t, p, c)
  <2>1. \A i \in 1..matchIndex'[n][p] : new[t][i].term = t => Ack(acked, t, p, i)
    BY <1>2 DEF PeerInv, PeerHolds, Ack
  <2>2. matchIndex'[n][p] \in Nat
    BY <1>1 DEF TypeOK
  <2>3. c \in 1..matchIndex'[n][p] /\ new[t][c].term = t
    BY <1>1, <1>2, <2>2 DEF Holds
  <2> QED BY <2>1, <2>3
<1>3. \A p \in Q : Ack(acked, t, p, c)
  BY <1>2 DEF Match
<1> QED BY <1>3 DEF Chosen

\* If no-ops are never refused, a node that leads no more and has an answer to
\* process has chosen an entry of its own leadership at c or later: what is
\* there at c is not of its present term.
LEMMA DeposedCommitsNothing ==
    ASSUME NEW led, NEW new, NEW acks, NEW acked, GhostStep(led, new, acks, acked),
           AckInv(led, acks), SafeInv(led, acks), AckInv(new, acked)',
           PeerInv(new, acked)', ~DiskFaults,
           NEW n \in Server, NEW c \in Nat, Advances(n, c),
           NEW t \in Nat, t = currentTerm[n], <<t, n>> \notin leaders,
           NEW Q \in Quorums, Q = {p \in Server : Match(n, p) >= c},
           NEW q \in Q, q # n
    PROVE  FALSE
<1>1. /\ TypeOK /\ TypeOK' /\ WellLed(led) /\ LogPerTerm(led)
      /\ log[n] \in Seq(Entry) /\ FollowsLeaders(led, log[n])
      /\ UNCHANGED <<log, leaders, currentTerm>> /\ Q \subseteq Server
  BY StepFacts, WellLedNode, QuorumMembers DEF Advances
<1>2. PICK u : u = peersTerm'[n]
  OBVIOUS
<1>3. u \in Nat /\ \A p \in Server : matchIndex'[n][p] \in Nat
  BY <1>1, <1>2 DEF TypeOK
<1>4. Holds(log[n], c, t) /\ c >= 1
  BY <1>1 DEF Advances, Holds
<1>5. \A p \in Q : p # n => matchIndex'[n][p] >= c
  BY DEF Match
<1>6. \A p \in Server :
         /\ matchIndex'[n][p] <= Len(new[u])
         /\ \A i \in 1..matchIndex'[n][p] : new[u][i].term = u => Ack(acked, u, p, i)
         /\ matchIndex'[n][p] > 0 => Holds(new[u], matchIndex'[n][p], u)
  BY <1>2 DEF PeerInv, PeerHolds, OwnEntry, Holds, Ack
<1>7. PICK k \in Nat : /\ \E p \in Q : p # n /\ k = matchIndex'[n][p]
                       /\ \A p \in Q : p # n => k <= matchIndex'[n][p]
  <2> DEFINE S == {matchIndex'[n][p] : p \in {x \in Q : x # n}}
  <2>1. S \in SUBSET Nat /\ S # {}
    BY <1>1, <1>3
  <2>2. PICK k \in S : \A j \in S : k <= j
    <3> HIDE DEF S
    <3> QED BY <2>1, MinExists
  <2>3. k \in Nat /\ (\E p \in Q : p # n /\ k = matchIndex'[n][p])
    BY <2>1, <2>2
  <2>4. \A p \in Q : p # n => matchIndex'[n][p] \in S
    OBVIOUS
  <2> HIDE DEF S
  <2> QED BY <2>2, <2>3, <2>4
<1>8. k >= c /\ k \in 1..k /\ Holds(new[u], k, u)
  BY <1>1, <1>3, <1>4, <1>5, <1>6, <1>7
<1>9. <<u, n>> \in leaders'
  <2>1. u > 0 => <<u, n>> \in leaders'
    BY <1>2 DEF PeerInv
  <2>2. u # 0
    <3>1. PICK p \in Server : <<u, p>> \in leaders'
      <4>1. LedLogs(new)' /\ new[u] # <<>>
        BY <1>8 DEF GhostStep, WellLed, MatchInv, Holds
      <4> QED BY <1>3, <4>1 DEF LedLogs
    <3>2. PICK l : l = <<u, p>>
      OBVIOUS
    <3>3. l \in leaders' /\ l[1] = u
      BY <3>1, <3>2
    <3>4. TermsLed'
      BY StepFacts
    <3> QED BY <1>3, <3>3, <3>4 DEF TermsLed
  <2> QED BY <1>3, <2>1, <2>2
<1>10. u < t
  <2>1. PICK l : l = <<u, n>>
    OBVIOUS
  <2>2. l \in leaders /\ l[1] = u /\ l[2] = n
    BY <1>1, <1>9, <2>1
  <2>3. u <= currentTerm[n]
    BY <1>1, <2>2 DEF WellLed, TermsLed
  <2>4. u # t
    BY <1>1, <1>9
  <2> QED BY <1>3, <2>3, <2>4
<1>11. Chosen(acks, u, k)
  <2>1. ASSUME NEW p \in Q PROVE Ack(acked, u, p, k)
    <3>1. CASE p = n
      BY <1>3, <1>8, <1>9, <3>1 DEF AckInv, Holds, Ack
    <3>2. CASE p # n
      <4>1. k \in 1..matchIndex'[n][p] /\ new[u][k].term = u
        BY <1>1, <1>3, <1>7, <1>8, <3>2 DEF Holds
      <4> QED BY <1>1, <1>6, <4>1
    <3> QED BY <3>1, <3>2
  <2>2. Chosen(acked, u, k)
    BY <2>1 DEF Chosen
  <2> QED BY <1>3, <2>2, AdvanceAcks
<1>12. Holds(led[t], c, t)
  BY <1>1, <1>4, HeldIsLed
<1>13. AgreeUpTo(led[u], led[t], k) /\ Holds(led[u], k, u)
  <2>1. \E p \in Server : <<t, p>> \in leaders
    BY <1>1, <1>12, LedHasLeader
  <2> QED BY <1>1, <1>3, <1>10, <1>11, <2>1, ChosenIsLed
<1>14. led[u] \in Seq(Entry) /\ Ordered(led[u], u) /\ led[t] \in Seq(Entry)
  BY <1>1, <1>3, WellLedLog
<1>15. c \in 1..k /\ c \in DOMAIN led[u] /\ led[u][c] = led[t][c]
  BY <1>4, <1>8, <1>13, <1>14 DEF AgreeUpTo, Holds
<1>16. led[u][c].term <= u
  BY <1>15, <1>14 DEF Ordered
<1> QED BY <1>3, <1>10, <1>12, <1>15, <1>16 DEF Holds

\* What a node commits on its own account is chosen.
LEMMA AdvanceChosen ==
    ASSUME NEW led, NEW new, NEW acks, NEW acked, GhostStep(led, new, acks, acked),
           AckInv(led, acks), SafeInv(led, acks),
           AckInv(new, acked)', PeerInv(new, acked)', CallsInv,
           Cardinality(Server) <= 3 \/ ~DiskFaults,
           NEW n \in Server, NEW c \in Nat, Advances(n, c),
           NEW t, t = currentTerm'[n]
    PROVE  Holds(log'[n], c, t) /\ Chosen(acked, t, c)
<1>1. /\ TypeOK /\ TypeOK' /\ LogPerTerm(new) /\ t \in Nat /\ currentTerm'[n] = t
      /\ currentTerm[n] = t
      /\ log'[n] \in Seq(Entry) /\ FollowsLeaders(new, log'[n]) /\ new[t] \in Seq(Entry)
      /\ UNCHANGED <<log, state, leaders, currentTerm>>
  BY StepFacts, NextLog DEF Advances
<1>2. Holds(log'[n], c, t)
  BY <1>1 DEF Advances, Holds
<1>3. Ack(acked, t, n, c)
  BY <1>1, <1>2 DEF AckInv, Holds, Ack
<1>4. PICK Q \in Quorums : Q = {p \in Server : Match(n, p) >= c}
  BY <1>1, MajorityReached DEF Advances
<1>5. CASE state'[n] = "Leader"
  BY <1>1, <1>2, <1>3, <1>4, <1>5, LeaderChooses
<1>6. CASE \A q \in Q : q = n
  BY <1>2, <1>3, <1>6 DEF Chosen
<1>7. CASE state'[n] # "Leader" /\ \E q \in Q : q # n
  <2>1. <<t, n>> \notin leaders
    BY <1>1, <1>7 DEF CallsInv, Advances
  <2>2. CASE ~DiskFaults
    BY <1>1, <1>4, <1>7, <2>1, <2>2, DeposedCommitsNothing
  <2>3. CASE Cardinality(Server) <= 3
    <3>1. Holds(new[t], c, t)
      BY <1>1, <1>2, HeldIsLed
    <3>2. PICK p \in Server : <<t, p>> \in leaders'
      <4>1. LedLogs(new)' /\ new[t] # <<>>
        BY <3>1 DEF GhostStep, WellLed, MatchInv, Holds
      <4> QED BY <1>1, <4>1 DEF LedLogs
    <3>3. Ack(acked, t, p, c)
      BY <1>1, <3>1, <3>2 DEF AckInv, Holds, Ack
    <3>4. {n, p} \in Quorums
      BY <1>1, <2>1, <2>3, <3>2, PairIsQuorum
    <3> QED BY <1>2, <1>3, <3>3, <3>4 DEF Chosen
  <2> QED BY <2>2, <2>3
<1> QED BY <1>5, <1>6, <1>7

-----------------------------------------------------------------------------
(* Committed entries stay *)

LEMMA CommittedGrows ==
    ASSUME NEW led, NEW new, NEW acks, NEW acked, GhostStep(led, new, acks, acked),
           NEW l \in Seq(Entry), NEW c \in Nat, NEW T \in Nat, NEW U \in Nat, T <= U,
           CommittedBy(led, acks, l, c, T)
    PROVE  CommittedBy(new, acked, l, c, U)
<1>1. CASE c = 0
  BY <1>1 DEF CommittedBy
<1>2. CASE c > 0
  <2>1. PICK t \in Nat, i \in Nat : /\ t <= T /\ Chosen(acks, t, i) /\ c <= i
                                    /\ AgreeUpTo(l, led[t], c)
    BY <1>2 DEF CommittedBy
  <2>2. Chosen(acked, t, i)
    BY <2>1, ChosenGrows, StepFacts
  <2>3. AgreeUpTo(l, new[t], c)
    BY <2>1, StepFacts, AgreePrefix
  <2>4. t <= U
    BY <2>1
  <2> QED BY <2>1, <2>2, <2>3, <2>4 DEF CommittedBy
<1> QED BY <1>1, <1>2

LEMMA CommittedSame ==
    ASSUME NEW led, NEW acks, NEW k, NEW l, NEW c, NEW T,
           CommittedBy(led, acks, k, c, T), AgreeUpTo(l, k, c)
    PROVE  CommittedBy(led, acks, l, c, T)
  BY AgreeTransitive DEF CommittedBy, AgreeUpTo

LEMMA CommittedLess ==
    ASSUME NEW led, LogPerTerm(led), NEW acks, NEW l \in Seq(Entry),
           NEW c \in Nat, NEW d \in Nat, d <= c, NEW T,
           CommittedBy(led, acks, l, c, T)
    PROVE  CommittedBy(led, acks, l, d, T)
<1>1. CASE d = 0
  BY <1>1 DEF CommittedBy
<1>2. CASE d > 0
  <2>1. PICK t \in Nat, i \in Nat : /\ t <= T /\ Chosen(acks, t, i) /\ c <= i
                                    /\ AgreeUpTo(l, led[t], c)
    BY <1>2 DEF CommittedBy
  <2>2. AgreeUpTo(l, led[t], d)
    BY <2>1, LedLog, AgreeLess
  <2>3. d <= Len(l) /\ d <= i
    BY <2>1 DEF CommittedBy
  <2> QED BY <2>1, <2>2, <2>3 DEF CommittedBy
<1> QED BY <1>1, <1>2

\* No step removes what a node takes for committed.
LEMMA KnownKept ==
    ASSUME NEW led, NEW new, NEW acks, NEW acked, GhostStep(led, new, acks, acked),
           AckInv(led, acks), SafeInv(led, acks), CommInv(led, acks), NEW n \in Server
    PROVE  /\ AgreeUpTo(log'[n], log[n], commitIndex[n])
           /\ CommittedBy(new, acked, log'[n], commitIndex[n], currentTerm'[n])
<1>1. /\ TypeOK /\ ElectionInv /\ WellLed(led) /\ [Next]_vars
      /\ currentTerm[n] \in Nat /\ currentTerm'[n] \in Nat
      /\ currentTerm'[n] >= currentTerm[n]
      /\ log[n] \in Seq(Entry) /\ log'[n] \in Seq(Entry)
  BY StepFacts, NextLog, WellLedNode
<1>2. /\ commitIndex[n] \in Nat
      /\ CommittedBy(led, acks, log[n], commitIndex[n], currentTerm[n])
  BY <1>1 DEF TypeOK, CommInv
<1>3. ASSUME NEW m \in net, m.to = n, Takes(n, m)
      PROVE  AgreeUpTo(log[n], led[m.term], commitIndex[n])
  <2>1. /\ m.term \in Nat /\ m.from \in Server /\ <<m.term, m.from>> \in leaders
        /\ currentTerm[n] <= m.term
    BY <1>1, <1>3, TakesTerm
  <2> QED BY <1>1, <1>2, <2>1, CommittedIsLed
<1>4. AgreeUpTo(log'[n], log[n], commitIndex[n])
  <2>1. commitIndex[n] <= Len(log[n])
    BY <1>2 DEF CommittedBy
  <2> QED BY <1>1, <1>2, <1>3, <2>1, LogKept
<1>5. CommittedBy(new, acked, log[n], commitIndex[n], currentTerm'[n])
  BY <1>1, <1>2, CommittedGrows
<1> QED BY <1>4, <1>5, CommittedSame


\* Whatever a request says is committed its sender knew to be, and the request
\* itself reaches as far.
LEMMA RequestsSound ==
    ASSUME NEW led, NEW new, NEW acks, NEW acked, GhostStep(led, new, acks, acked),
           CommInv(led, acks), NEW x \in net', x.type = "AppendEntries"
    PROVE  /\ x.term \in Nat /\ x.leaderCommit \in Nat
           /\ x.leaderCommit <= Len(committed)
           /\ x.leaderCommit <= x.prevLogIndex + Len(x.entries)
           /\ CommittedBy(new, acked, new[x.term], x.leaderCommit, x.term)
<1>1. /\ TypeOK /\ TypeOK' /\ WellLed(led) /\ [Next]_vars
  BY StepFacts
<1>2. x.term \in Nat /\ x.leaderCommit \in Nat
  <2>1. net' \subseteq Message
    BY <1>1 DEF TypeOK
  <2>2. x \in AppendEntriesReq
    BY <2>1 DEF Message, RequestVoteReq, RequestVoteResp, AppendEntriesReq,
                AppendEntriesResp
  <2> QED BY <2>2 DEF AppendEntriesReq
<1>3. /\ x.leaderCommit <= Len(committed)
      /\ x.leaderCommit <= x.prevLogIndex + Len(x.entries)
      /\ CommittedBy(led, acks, led[x.term], x.leaderCommit, x.term)
  <2>1. CASE RequestsKept
    <3>1. PICK y \in net : SameRequest(x, y)
      BY <2>1 DEF RequestsKept
    <3>2. /\ y.type = "AppendEntries" /\ y.leaderCommit = x.leaderCommit
          /\ y.prevLogIndex = x.prevLogIndex /\ y.entries = x.entries /\ y.term = x.term
      BY <3>1 DEF SameRequest
    <3> QED BY <3>2 DEF CommInv
  <2>2. ASSUME NEW n \in Server, NEW p \in Server, ReplicateOnce(n, p)
        PROVE  /\ x.leaderCommit <= Len(committed)
               /\ x.leaderCommit <= x.prevLogIndex + Len(x.entries)
               /\ CommittedBy(led, acks, led[x.term], x.leaderCommit, x.term)
    <3>1. CASE x \in net
      BY <3>1 DEF CommInv
    <3>2. CASE x \notin net
      <4>1. /\ state[n] = "Leader" /\ x.term = currentTerm[n]
            /\ x.leaderCommit = commitIndex[n] /\ x.prevLogIndex = nextIndex[n][p] - 1
            /\ x.entries = SubSeq(log[n], (nextIndex[n][p] - 1) + 1, Len(log[n]))
        BY <2>2, <3>2 DEF ReplicateOnce
      <4>2. log[n] \in Seq(Entry) /\ log[n] = led[x.term]
        BY <1>1, <4>1, WellLedNode
      <4>3. /\ commitIndex[n] <= Len(committed)
            /\ CommittedBy(led, acks, log[n], commitIndex[n], currentTerm[n])
        BY DEF CommInv
      <4>4. PICK prev \in Nat : prev = nextIndex[n][p] - 1
        <5>1. nextIndex[n][p] \in Nat \ {0}
          BY <1>1 DEF TypeOK
        <5>2. nextIndex[n][p] - 1 \in Nat
          BY <5>1
        <5> QED BY <5>2
      <4>5. commitIndex[n] \in Nat /\ commitIndex[n] <= Len(log[n]) /\ Len(log[n]) \in Nat
        <5>1. commitIndex[n] \in Nat
          BY <1>1 DEF TypeOK
        <5>2. commitIndex[n] <= Len(log[n])
          BY <4>3 DEF CommittedBy
        <5>3. Len(log[n]) \in Nat
          BY <4>2
        <5> QED BY <5>1, <5>2, <5>3
      <4>6. commitIndex[n] <= prev + Len(x.entries)
        <5>0. x.entries = SubSeq(log[n], prev + 1, Len(log[n]))
          BY <4>1, <4>4
        <5>1. CASE prev <= Len(log[n])
          <6>1. Len(x.entries) = Len(log[n]) - prev
            BY <4>2, <5>0, <5>1, CutEntries
          <6> QED BY <4>4, <4>5, <6>1
        <5>2. CASE prev > Len(log[n])
          <6>1. Len(x.entries) = 0
            BY <4>2, <4>5, <5>0, <5>2
          <6> QED BY <4>4, <4>5, <5>2, <6>1
        <5> QED BY <4>4, <4>5, <5>1, <5>2
      <4> QED BY <4>1, <4>2, <4>3, <4>4, <4>6
    <3> QED BY <3>1, <3>2
  <2> QED BY <1>1, <2>1, <2>2, StepRequests
<1>4. PICK T \in Nat : T = x.term
  BY <1>2
<1>5. PICK c \in Nat : c = x.leaderCommit
  BY <1>2
<1>6. CommittedBy(led, acks, led[T], c, T) /\ c <= Len(led[T])
  BY <1>3, <1>4, <1>5 DEF CommittedBy
<1>7. led[T] \in Seq(Entry) /\ new[T] \in Seq(Entry) /\ IsPrefixOf(led[T], new[T])
  BY StepFacts
<1>8. CommittedBy(new, acked, led[T], c, T)
  BY <1>6, <1>7, CommittedGrows
<1>9. AgreeUpTo(new[T], led[T], c)
  BY <1>6, <1>7 DEF AgreeUpTo, IsPrefixOf
<1>10. CommittedBy(new, acked, new[T], c, T)
  BY <1>8, <1>9, CommittedSame
<1> QED BY <1>2, <1>3, <1>4, <1>5, <1>10

\* Node n finds out that its log is committed up to c.
Moves(led, acks, n, c) ==
    /\ c > commitIndex[n]
    /\ commitIndex' = [commitIndex EXCEPT ![n] = c]
    /\ Remember(log'[n], c)
    /\ CommittedBy(led, acks, log'[n], c, currentTerm'[n])

LEMMA LearnsCommitted ==
    ASSUME NEW led, NEW new, NEW acks, NEW acked, GhostStep(led, new, acks, acked),
           CommInv(led, acks), NEW m \in net, Learns(m)
    PROVE  \E c \in Nat : Moves(led, acks, m.to, c)
<1>1. /\ TypeOK /\ ElectionInv /\ WellLed(led) /\ Stores(m)
  BY StepFacts DEF Learns
<1>2. /\ Takes(m.to, m) /\ UpTo(m) \in Nat
      /\ AgreeUpTo(log'[m.to], led[m.term], UpTo(m))
  BY <1>1, StoredLog
<1>3. m.to \in Server /\ m.term \in Nat /\ currentTerm'[m.to] = m.term
  BY <1>1, <1>2, TakesTerm
<1>4. m.type = "AppendEntries"
  BY <1>2 DEF Takes
<1>5. PICK c \in Nat : c = m.leaderCommit
  BY <1>1, <1>4, MessageFields DEF AppendEntriesReq
<1>6. c <= UpTo(m) /\ CommittedBy(led, acks, led[m.term], c, m.term)
  BY <1>4, <1>5 DEF CommInv, UpTo
<1>7. log'[m.to] \in Seq(Entry) /\ led[m.term] \in Seq(Entry)
  BY <1>3, StepFacts, NextLog
<1>8. AgreeUpTo(log'[m.to], led[m.term], c)
  BY <1>2, <1>6, <1>7, AgreeLess
<1>9. CommittedBy(led, acks, log'[m.to], c, m.term)
  BY <1>6, <1>8, CommittedSame
<1>11. c <= Len(log'[m.to]) /\ Len(log'[m.to]) \in Nat
  BY <1>7, <1>9 DEF CommittedBy
<1>12. PICK d : /\ d = IF c < Len(log'[m.to]) THEN c ELSE Len(log'[m.to])
                /\ commitIndex' = [commitIndex EXCEPT ![m.to] = d]
                /\ Remember(log'[m.to], d)
  BY <1>5 DEF Learns
<1>13. d = c
  BY <1>11, <1>12
<1> QED BY <1>3, <1>5, <1>9, <1>12, <1>13 DEF Learns, Moves

LEMMA AdvancesCommitted ==
    ASSUME NEW led, NEW new, NEW acks, NEW acked, GhostStep(led, new, acks, acked),
           AckInv(led, acks), SafeInv(led, acks),
           AckInv(new, acked)', PeerInv(new, acked)', CallsInv,
           Cardinality(Server) <= 3 \/ ~DiskFaults,
           NEW n \in Server, NEW c \in Nat, Advances(n, c)
    PROVE  Moves(led, acks, n, c)
<1>1. PICK t : t = currentTerm'[n]
  OBVIOUS
<1>2. Holds(log'[n], c, t) /\ Chosen(acked, t, c)
  BY <1>1, AdvanceChosen
<1>3. /\ WellLed(led) /\ LogPerTerm(led) /\ log[n] \in Seq(Entry)
      /\ FollowsLeaders(led, log[n]) /\ t \in Nat /\ log' = log
  BY <1>1, StepFacts, WellLedNode DEF Advances
<1>4. AgreeUpTo(log[n], led[t], c)
  BY <1>2, <1>3, HeldIsLed
<1>5. c <= Len(log'[n]) /\ t <= t /\ c <= c
  BY <1>2, <1>3 DEF Holds
<1>6. Chosen(acks, t, c)
  BY <1>2, <1>3, AdvanceAcks
<1>7. CommittedBy(led, acks, log'[n], c, t)
  BY <1>3, <1>4, <1>5, <1>6 DEF CommittedBy
<1> QED BY <1>1, <1>7 DEF Advances, Moves

LEMMA StepMoves ==
    ASSUME NEW led, NEW new, NEW acks, NEW acked, GhostStep(led, new, acks, acked),
           AckInv(led, acks), SafeInv(led, acks), CommInv(led, acks), CallsInv,
           AckInv(new, acked)', PeerInv(new, acked)',
           Cardinality(Server) <= 3 \/ ~DiskFaults
    PROVE  \/ CommitKept
           \/ \E n \in Server : Forgets(n)
           \/ \E n \in Server : \E c \in Nat : Moves(led, acks, n, c)
<1>1. TypeOK /\ [Next]_vars
  BY StepFacts
<1>2. ASSUME NEW m \in net, Learns(m)
      PROVE  \E n \in Server : \E c \in Nat : Moves(led, acks, n, c)
  <2>1. m.to \in Server
    BY <1>1, MessageFields
  <2> QED BY <1>2, <2>1, LearnsCommitted
<1>3. ASSUME NEW n \in Server, NEW c \in Nat, Advances(n, c)
      PROVE  Moves(led, acks, n, c)
  BY <1>3, AdvancesCommitted
<1> QED BY <1>1, <1>2, <1>3, StepCommits

\* A node whose commit index moves to c.
LEMMA CommitMoves ==
    ASSUME NEW led, NEW new, NEW acks, NEW acked, GhostStep(led, new, acks, acked),
           CommInv(led, acks),
           NEW n \in Server, NEW c \in Nat, Moves(led, acks, n, c)
    PROVE  /\ Len(committed') >= Len(committed) /\ c <= Len(committed')
           /\ CommittedBy(new, acked, log'[n], c, currentTerm'[n])
           /\ \E T \in Nat : CommittedBy(new, acked, committed', Len(committed'), T)
<1>1. /\ committed \in Seq(Entry) /\ Len(committed) \in Nat
      /\ log'[n] \in Seq(Entry) /\ currentTerm'[n] \in Nat
  <2>1. committed \in Seq(Entry)
    BY StepFacts DEF TypeOK
  <2> QED BY <2>1, StepFacts, NextLog
<1>0. CommittedBy(new, acked, log'[n], c, currentTerm'[n]) /\ Remember(log'[n], c)
  BY <1>1, CommittedGrows DEF Moves
<1>2. CASE c > Len(committed)
  <2>1. committed' = SubSeq(log'[n], 1, c) /\ c <= Len(log'[n]) /\ 1 <= c
    BY <1>0, <1>1, <1>2 DEF Remember, CommittedBy
  <2>2. committed' \in Seq(Entry) /\ Len(committed') = c
        /\ \A i \in 1..c : committed'[i] = log'[n][i]
    BY <1>1, <2>1, SubSeqProperties
  <2>3. AgreeUpTo(committed', log'[n], c)
    BY <2>1, <2>2 DEF AgreeUpTo
  <2>4. CommittedBy(new, acked, committed', Len(committed'), currentTerm'[n])
    BY <1>0, <2>2, <2>3, CommittedSame
  <2> QED BY <1>0, <1>1, <1>2, <2>2, <2>4
<1>3. CASE ~(c > Len(committed))
  <2>1. committed' = committed
    BY <1>0, <1>3 DEF Remember
  <2>2. PICK T \in Nat : CommittedBy(led, acks, committed, Len(committed), T)
    BY DEF CommInv
  <2>3. CommittedBy(new, acked, committed, Len(committed), T)
    BY <1>1, <2>2, CommittedGrows
  <2> QED BY <1>0, <1>1, <1>3, <2>1, <2>3
<1> QED BY <1>2, <1>3

LEMMA CommNext ==
    ASSUME NEW led, NEW new, NEW acks, NEW acked, GhostStep(led, new, acks, acked),
           AckInv(led, acks), SafeInv(led, acks), CommInv(led, acks), CallsInv,
           AckInv(new, acked)', PeerInv(new, acked)',
           Cardinality(Server) <= 3 \/ ~DiskFaults
    PROVE  CommInv(new, acked)'
<1>1. /\ TypeOK /\ TypeOK' /\ [Next]_vars /\ committed \in Seq(Entry)
      /\ \A n \in Server : commitIndex[n] \in Nat /\ log'[n] \in Seq(Entry)
      /\ Len(committed) \in Nat /\ Len(committed') \in Nat
  <2>1. TypeOK /\ TypeOK' /\ [Next]_vars
    BY StepFacts
  <2>2. committed \in Seq(Entry) /\ committed' \in Seq(Entry)
    BY <2>1 DEF TypeOK
  <2>3. \A n \in Server : commitIndex[n] \in Nat /\ log'[n] \in Seq(Entry)
    BY <2>1 DEF TypeOK
  <2> QED BY <2>1, <2>2, <2>3
<1>2. \A n \in Server :
         /\ commitIndex[n] <= Len(committed)
         /\ CommittedBy(new, acked, log'[n], commitIndex[n], currentTerm'[n])
  BY KnownKept DEF CommInv
<1>3. \E T \in Nat : CommittedBy(new, acked, committed, Len(committed), T)
  <2>1. PICK T \in Nat : CommittedBy(led, acks, committed, Len(committed), T)
    BY DEF CommInv
  <2> QED BY <1>1, <2>1, CommittedGrows
<1> DEFINE Goal ==
       /\ Len(committed') >= Len(committed)
       /\ \E T \in Nat : CommittedBy(new, acked, committed', Len(committed'), T)
       /\ \A n \in Server :
             /\ commitIndex'[n] <= Len(committed')
             /\ CommittedBy(new, acked, log'[n], commitIndex'[n], currentTerm'[n])
<1>4. ASSUME NEW n \in Server, NEW c \in Nat, Moves(led, acks, n, c)
      PROVE  Goal
  <2>1. /\ Len(committed') >= Len(committed) /\ c <= Len(committed')
        /\ CommittedBy(new, acked, log'[n], c, currentTerm'[n])
        /\ \E T \in Nat : CommittedBy(new, acked, committed', Len(committed'), T)
    BY <1>4, CommitMoves
  <2>2. ASSUME NEW p \in Server
        PROVE  /\ commitIndex'[p] <= Len(committed')
               /\ CommittedBy(new, acked, log'[p], commitIndex'[p], currentTerm'[p])
    <3>1. commitIndex'[p] = IF p = n THEN c ELSE commitIndex[p]
      BY <1>1, <1>4 DEF TypeOK, Moves
    <3> QED BY <1>1, <1>2, <2>1, <3>1
  <2> QED BY <2>1, <2>2
<1>5. Goal
  <2>1. CASE CommitKept
    BY <1>1, <1>2, <1>3, <2>1 DEF CommitKept
  <2>2. ASSUME NEW n \in Server, Forgets(n) PROVE Goal
    <3>1. ASSUME NEW p \in Server
          PROVE  /\ commitIndex'[p] <= Len(committed')
                 /\ CommittedBy(new, acked, log'[p], commitIndex'[p], currentTerm'[p])
      <4>1. commitIndex'[p] = IF p = n THEN 0 ELSE commitIndex[p]
        BY <1>1, <2>2 DEF TypeOK, Forgets
      <4>2. CommittedBy(new, acked, log'[p], 0, currentTerm'[p])
        BY <1>1 DEF CommittedBy
      <4> QED BY <1>1, <1>2, <2>2, <4>1, <4>2 DEF Forgets
    <3> QED BY <1>1, <1>3, <2>2, <3>1 DEF Forgets
  <2> HIDE DEF Goal
  <2> QED BY <1>4, <2>1, <2>2, StepMoves
<1>6. ASSUME NEW x \in net', x.type = "AppendEntries"
      PROVE  /\ x.leaderCommit <= Len(committed')
             /\ x.leaderCommit <= x.prevLogIndex + Len(x.entries)
             /\ CommittedBy(new, acked, new[x.term], x.leaderCommit, x.term)
  <2>1. /\ x.leaderCommit \in Nat /\ x.leaderCommit <= Len(committed)
        /\ x.leaderCommit <= x.prevLogIndex + Len(x.entries)
        /\ CommittedBy(new, acked, new[x.term], x.leaderCommit, x.term)
    BY <1>6, RequestsSound
  <2> QED BY <1>1, <1>5, <2>1
<1> QED BY <1>5, <1>6 DEF CommInv, CommittedBy, Chosen, Ack, AgreeUpTo, Quorums, Quorum


-----------------------------------------------------------------------------
(* The invariant *)

DurableBy(led, acks) ==
    /\ WellLed(led) /\ AckInv(led, acks) /\ SafeInv(led, acks) /\ VoteSafe(acks)
    /\ PeerInv(led, acks) /\ SentInv /\ CallsInv /\ CommInv(led, acks)

DurableInv == \E led, acks : DurableBy(led, acks)

LEMMA DurableInit == Init => DurableInv
<1> SUFFICES ASSUME Init PROVE DurableInv
  OBVIOUS
<1>1. PICK led : led = [t \in Nat |-> <<>>]
  OBVIOUS
<1>2. LogPerTerm(led) /\ \A t \in Nat : led[t] = <<>>
  BY <1>1 DEF LogPerTerm
<1>3. /\ \A n \in Server : log[n] = <<>> /\ state[n] = "Follower" /\ commitIndex[n] = 0
      /\ net = {} /\ leaders = {} /\ ballots = {} /\ committed = <<>>
  BY DEF Init
<1>4. FollowsLeaders(led, <<>>) /\ \A t \in Nat : Ordered(<<>>, t)
  BY DEF FollowsLeaders, Ordered
<1>5. LedLogs(led) /\ LedRequests(led)
  BY <1>2, <1>3, <1>4 DEF LedLogs, LedRequests
<1>6. WellLed(led)
  BY <1>2, <1>4, <1>5, TypeInit, ElectionInit, OrderInit, MatchInit
     DEF WellLed, MatchInv, LedOrdered
<1>7. \A i, t : ~Holds(<<>>, i, t)
  BY DEF Holds
<1>8. AckInv(led, {})
  BY <1>2, <1>3, <1>7 DEF AckInv, Ack
<1>9. SafeInv(led, {}) /\ VoteSafe({}) /\ SentInv /\ CallsInv
  BY <1>3 DEF SafeInv, VoteSafe, SentInv, CallsInv, Init
<1>12. PeerInv(led, {})
  <2>1. \A n \in Server : peersTerm[n] = 0 /\ \A p \in Server : matchIndex[n][p] = 0
    BY DEF Init
  <2>2. \A p \in Server : PeerHolds(led, {}, p, 0, 0) /\ OwnEntry(led, 0, 0)
    BY <1>2 DEF PeerHolds, OwnEntry
  <2> QED BY <1>3, <2>1, <2>2 DEF PeerInv
<1>10. \A T : CommittedBy(led, {}, <<>>, 0, T) /\ Len(<<>>) = 0
  BY DEF CommittedBy
<1>11. CommInv(led, {})
  BY <1>3, <1>10 DEF CommInv
<1> QED BY <1>6, <1>8, <1>9, <1>11, <1>12 DEF DurableInv, DurableBy

\* The histories can be continued over every step.
LEMMA GhostExists ==
    ASSUME Races = {}, ~StateFaults, [Next]_vars, NEW led, WellLed(led), NEW acks
    PROVE  \E new, acked : GhostStep(led, new, acks, acked)
<1>1. /\ LogPerTerm(led) /\ TypeOK /\ ElectionInv /\ TermsLed /\ OrderInv
      /\ MatchInv(led) /\ LedOrdered(led)
  BY DEF WellLed
<1>2. TypeOK'
  BY <1>1, TypeNext
<1>3. ElectionInv'
  BY <1>1, <1>2, ElectionNext
<1>4. TermsLed' /\ OrderInv'
  BY <1>1, <1>2, <1>3, TermsLedNext, OrderNext DEF ElectionInv
<1>5. PICK new : LogPerTerm(new) /\ MatchInv(new)' /\ LedGrows(led, new)
  BY <1>1, <1>2, <1>3, MatchNext
<1>6. LedOrdered(new)
  <2> SUFFICES ASSUME NEW t \in Nat PROVE Ordered(new[t], t)
    BY DEF LedOrdered
  <2>1. CASE new[t] = led[t]
    BY <1>1, <2>1 DEF LedOrdered
  <2>2. CASE new[t] # led[t]
    <3>1. PICK n \in Server : state'[n] = "Leader" /\ currentTerm'[n] = t
      BY <1>5, <2>2 DEF LedGrows
    <3>2. log'[n] = new[t]
      BY <1>5, <3>1 DEF MatchInv, LedLogs
    <3>3. Ordered(log'[n], t)
      BY <1>4, <3>1 DEF OrderInv, Ordered
    <3> QED BY <3>2, <3>3
  <2> QED BY <2>1, <2>2
<1>7. WellLed(new)'
  BY <1>2, <1>3, <1>4, <1>5, <1>6 DEF WellLed, LogPerTerm, LedOrdered, Ordered
<1>8. PICK acked : acked =
         {x \in Nat \X Server \X Nat :
            x \in acks \/ (x[1] = currentTerm'[x[2]] /\ Holds(log'[x[2]], x[3], x[1]))}
  OBVIOUS
<1>9. AckGrows(acks, acked)
  <2> SUFFICES ASSUME NEW t \in Nat, NEW v \in Server, NEW i \in Nat
               PROVE  <<t, v, i>> \in acked <=>
                         \/ <<t, v, i>> \in acks
                         \/ t = currentTerm'[v] /\ Holds(log'[v], i, t)
    BY DEF AckGrows, Ack
  <2>1. PICK x : x = <<t, v, i>>
    OBVIOUS
  <2>2. x \in Nat \X Server \X Nat /\ x[1] = t /\ x[2] = v /\ x[3] = i
    BY <2>1
  <2> QED BY <1>8, <2>1, <2>2
<1> QED BY <1>1, <1>5, <1>7, <1>9 DEF GhostStep

LEMMA DurableStep ==
    ASSUME NEW led, NEW new, NEW acks, NEW acked, GhostStep(led, new, acks, acked),
           DurableBy(led, acks), Cardinality(Server) <= 3 \/ ~DiskFaults
    PROVE  DurableBy(new, acked)'
<1>1. /\ AckInv(led, acks) /\ SafeInv(led, acks) /\ VoteSafe(acks)
      /\ PeerInv(led, acks) /\ SentInv /\ CallsInv /\ CommInv(led, acks)
  BY DEF DurableBy
<1>2. AckInv(new, acked)'
  BY <1>1, AckNext
<1>3. VoteSafe(acked)'
  BY <1>1, VoteNext
<1>4. SafeInv(new, acked)'
  BY <1>1, <1>2, <1>3, SafeNext
<1>5. PeerInv(new, acked)' /\ CallsInv'
  BY <1>1, PeerNext, CallsNext
<1>6. CommInv(new, acked)'
  BY <1>1, <1>2, <1>5, CommNext
<1>7. SentInv'
  BY <1>1, SentNext, StepFacts
<1> QED BY <1>2, <1>3, <1>4, <1>5, <1>6, <1>7 DEF DurableBy, GhostStep

LEMMA DurableNext ==
    ASSUME Races = {}, ~StateFaults, Cardinality(Server) <= 3 \/ ~DiskFaults,
           DurableInv, [Next]_vars
    PROVE  DurableInv'
<1>1. PICK led, acks : DurableBy(led, acks)
  BY DEF DurableInv
<1>2. PICK new, acked : GhostStep(led, new, acks, acked)
  BY <1>1, GhostExists DEF DurableBy
<1>3. DurableBy(new, acked)'
  BY <1>1, <1>2, DurableStep
<1> QED BY <1>3 DEF DurableInv

\* In a cluster in which both races are closed and the stable stores fail no write,
\* of up to three nodes or with log stores that never refuse one, there are at
\* all times leaders' logs and
\* acknowledgements that explain what the nodes hold, what leaders believe of
\* their peers and what is committed.
THEOREM DurabilityInvariant ==
    ASSUME Races = {}, ~StateFaults, Cardinality(Server) <= 3 \/ ~DiskFaults
    PROVE  Spec => []DurableInv
<1>1. DurableInv /\ [Next]_vars => DurableInv'
  BY DurableNext
<1> QED BY <1>1, DurableInit, PTL DEF Spec

-----------------------------------------------------------------------------
(* What the invariant says *)

LEMMA DurableOnQuorum == DurableInv => CommittedOnQuorum
<1> SUFFICES ASSUME DurableInv PROVE CommittedOnQuorum
  OBVIOUS
<1>1. PICK led, acks : DurableBy(led, acks)
  BY DEF DurableInv
<1>2. /\ WellLed(led) /\ LogPerTerm(led) /\ AckInv(led, acks) /\ SafeInv(led, acks)
      /\ committed \in Seq(Entry)
  BY <1>1 DEF DurableBy, WellLed, TypeOK
<1>3. PICK T \in Nat : CommittedBy(led, acks, committed, Len(committed), T)
  BY <1>1 DEF DurableBy, CommInv
<1>4. CASE Len(committed) = 0
  <2>1. IsFiniteSet(Server) /\ Cardinality(Server) \in Nat /\ Cardinality(Server) # 0
    BY ServerAssumption, FS_CardinalityType, FS_EmptySet
  <2>2. Server \in Quorums
    BY <2>1 DEF Quorums, Quorum
  <2>3. \A v \in Server : IsPrefixOf(committed, log[v])
    BY <1>2, <1>4, WellLedNode DEF IsPrefixOf
  <2> QED BY <2>2, <2>3 DEF CommittedOnQuorum
<1>5. CASE Len(committed) > 0
  <2>1. PICK t \in Nat, i \in Nat : /\ Chosen(acks, t, i) /\ Len(committed) <= i
                                    /\ AgreeUpTo(committed, led[t], Len(committed))
    BY <1>3, <1>5 DEF CommittedBy
  <2>2. PICK Q \in Quorums : \A v \in Q : v \in Server /\ Holds(log[v], i, t)
    BY <1>2, <2>1, ChosenIsLed
  <2>3. ASSUME NEW v \in Q PROVE IsPrefixOf(committed, log[v])
    <3>1. log[v] \in Seq(Entry) /\ FollowsLeaders(led, log[v]) /\ led[t] \in Seq(Entry)
      BY <1>2, <2>2, WellLedNode, LedLog
    <3>2. AgreeUpTo(log[v], led[t], i)
      BY <1>2, <2>2, <3>1, HeldIsLed
    <3>3. AgreeUpTo(log[v], led[t], Len(committed))
      BY <1>2, <2>1, <3>1, <3>2, AgreeLess
    <3>4. AgreeUpTo(committed, log[v], Len(committed))
      BY <2>1, <3>3, AgreeSymmetric, AgreeTransitive
    <3> QED BY <1>2, <3>1, <3>4, PrefixIsAgree
  <2> QED BY <2>3 DEF CommittedOnQuorum
<1> QED BY <1>2, <1>4, <1>5

LEMMA DurableCompletes == DurableInv => LeaderCompleteness
<1> SUFFICES ASSUME DurableInv, NEW n \in Server, state[n] = "Leader",
                    \A p \in Server : currentTerm[p] <= currentTerm[n]
             PROVE  IsPrefixOf(committed, log[n])
  BY DEF LeaderCompleteness
<1>1. PICK led, acks : DurableBy(led, acks)
  BY DEF DurableInv
<1>2. /\ WellLed(led) /\ TypeOK /\ AckInv(led, acks) /\ SafeInv(led, acks)
      /\ committed \in Seq(Entry) /\ <<currentTerm[n], n>> \in leaders
  BY <1>1 DEF DurableBy, WellLed, TypeOK, ElectionInv, RecordInv
<1>3. /\ log[n] \in Seq(Entry) /\ currentTerm[n] \in Nat /\ log[n] = led[currentTerm[n]]
  BY <1>2, WellLedNode
<1>4. PICK T \in Nat : CommittedBy(led, acks, committed, Len(committed), T)
  BY <1>1 DEF DurableBy, CommInv
<1>5. CASE Len(committed) = 0
  BY <1>2, <1>3, <1>5 DEF IsPrefixOf
<1>6. CASE Len(committed) > 0
  <2>1. PICK t \in Nat, i \in Nat : /\ Chosen(acks, t, i) /\ Len(committed) <= i
                                    /\ AgreeUpTo(committed, led[t], Len(committed))
    BY <1>4, <1>6 DEF CommittedBy
  <2>2. PICK Q \in Quorums : \A v \in Q : v \in Server /\ t <= currentTerm[v]
    BY <1>2, <2>1, ChosenIsLed
  <2>3. PICK v \in Server : v \in Q
    BY QuorumMembers
  <2>4. t <= currentTerm[n]
    <3>1. currentTerm[v] \in Nat /\ t <= currentTerm[v] /\ currentTerm[v] <= currentTerm[n]
      BY <1>2, <2>2, <2>3 DEF TypeOK
    <3> QED BY <1>3, <3>1
  <2>5. AgreeUpTo(led[t], log[n], i)
    BY <1>2, <1>3, <2>1, <2>4, ChosenIsLed
  <2>6. led[t] \in Seq(Entry) /\ log[n] \in Seq(Entry) /\ Len(committed) \in Nat
    BY <1>2, <1>3, WellLedLog
  <2>7. AgreeUpTo(led[t], log[n], Len(committed))
    BY <2>1, <2>5, <2>6, AgreeLess
  <2>8. AgreeUpTo(committed, log[n], Len(committed))
    BY <2>1, <2>7, AgreeTransitive
  <2> QED BY <1>2, <1>3, <2>8, PrefixIsAgree
<1> QED BY <1>2, <1>5, <1>6

\* The first c entries of two logs that agree so far.
LEMMA AgreeIsSubSeq ==
    ASSUME NEW k \in Seq(Entry), NEW l \in Seq(Entry), NEW c \in Nat, AgreeUpTo(k, l, c)
    PROVE  /\ SubSeq(k, 1, c) = SubSeq(l, 1, c)
           /\ SubSeq(k, 1, c) \in Seq(Entry) /\ Len(SubSeq(k, 1, c)) = c
           /\ \A i \in 1..c : SubSeq(k, 1, c)[i] = k[i]
<1>1. CASE c = 0
  BY <1>1
<1>2. CASE c > 0
  <2>1. /\ SubSeq(k, 1, c) \in Seq(Entry) /\ SubSeq(l, 1, c) \in Seq(Entry)
        /\ Len(SubSeq(k, 1, c)) = c /\ Len(SubSeq(l, 1, c)) = c
        /\ \A i \in 1..c : SubSeq(k, 1, c)[i] = k[i] /\ SubSeq(l, 1, c)[i] = l[i]
    BY <1>2, SubSeqProperties DEF AgreeUpTo
  <2>2. \A i \in 1..c : SubSeq(k, 1, c)[i] = SubSeq(l, 1, c)[i]
    BY <2>1 DEF AgreeUpTo
  <2> QED BY <2>1, <2>2
<1> QED BY <1>1, <1>2

LEMMA DurableIsSafe == DurableInv => StateMachineSafety
<1> SUFFICES ASSUME DurableInv, NEW n \in Server
             PROVE  commitIndex[n] <= Len(log[n]) /\ IsPrefixOf(Known(n), committed)
  BY DEF StateMachineSafety
<1>1. PICK led, acks : DurableBy(led, acks)
  BY DEF DurableInv
<1>2. /\ WellLed(led) /\ AckInv(led, acks) /\ SafeInv(led, acks)
      /\ committed \in Seq(Entry) /\ commitIndex[n] \in Nat
      /\ log[n] \in Seq(Entry) /\ currentTerm[n] \in Nat
  BY <1>1 DEF DurableBy, WellLed, TypeOK
<1>3. PICK T \in Nat : CommittedBy(led, acks, committed, Len(committed), T)
  BY <1>1 DEF DurableBy, CommInv
<1>4. /\ commitIndex[n] <= Len(committed)
      /\ CommittedBy(led, acks, log[n], commitIndex[n], currentTerm[n])
  BY <1>1 DEF DurableBy, CommInv
<1>5. AgreeUpTo(log[n], committed, commitIndex[n])
  BY <1>2, <1>3, <1>4, CommittedAgree
<1>6. /\ Known(n) \in Seq(Entry) /\ Len(Known(n)) = commitIndex[n]
      /\ \A i \in 1..commitIndex[n] : Known(n)[i] = log[n][i]
  BY <1>2, <1>5, AgreeIsSubSeq DEF Known
<1> QED BY <1>2, <1>4, <1>5, <1>6 DEF AgreeUpTo, IsPrefixOf

LEMMA DurableMatches == DurableInv => MatchIndexSound
<1> SUFFICES ASSUME DurableInv, NEW n \in Server, NEW p \in Server,
                    state[n] = "Leader", currentTerm[p] <= currentTerm[n]
             PROVE  /\ matchIndex[n][p] <= Len(log[p])
                    /\ \A i \in 1..matchIndex[n][p] : log[p][i] = log[n][i]
  BY DEF MatchIndexSound
<1>1. PICK led, acks : DurableBy(led, acks)
  BY DEF DurableInv
<1>2. /\ WellLed(led) /\ TypeOK /\ PeerInv(led, acks)
  BY <1>1 DEF DurableBy, WellLed
<1>3. /\ log[n] \in Seq(Entry) /\ log[p] \in Seq(Entry) /\ log[n] = led[currentTerm[n]]
      /\ currentTerm[n] \in Nat /\ currentTerm[p] \in Nat
  BY <1>2, WellLedNode
<1>4. PICK k \in Nat : k = matchIndex[n][p]
  BY <1>2 DEF TypeOK
<1>5. PeerHolds(led, acks, p, currentTerm[n], k) /\ peersTerm[n] = currentTerm[n]
  BY <1>2, <1>4 DEF PeerInv
<1>6. CASE k = 0
  BY <1>3, <1>4, <1>6
<1>7. CASE k > 0
  BY <1>3, <1>4, <1>5, <1>7 DEF PeerHolds, AgreeUpTo
<1> QED BY <1>6, <1>7


-----------------------------------------------------------------------------
(* The abstract replicated log *)

\* No step but a crash takes anything from what a node knows; it may add to it.
LEMMA KnownStep ==
    ASSUME NEW led, NEW new, NEW acks, NEW acked, GhostStep(led, new, acks, acked),
           DurableBy(led, acks), NEW n \in Server
    PROVE  /\ SubSeq(log'[n], 1, commitIndex[n]) = Known(n)
           /\ Known(n) \in Seq(Entry) /\ Len(Known(n)) = commitIndex[n]
<1>1. log[n] \in Seq(Entry) /\ log'[n] \in Seq(Entry) /\ commitIndex[n] \in Nat
  BY StepFacts, NextLog DEF TypeOK
<1>2. AgreeUpTo(log'[n], log[n], commitIndex[n])
  BY KnownKept DEF DurableBy
<1>3. AgreeUpTo(log[n], log'[n], commitIndex[n])
  BY <1>2, AgreeSymmetric
<1> QED BY <1>1, <1>3, AgreeIsSubSeq DEF Known

LEMMA AbstractMove ==
    ASSUME NEW led, NEW new, NEW acks, NEW acked, GhostStep(led, new, acks, acked),
           DurableBy(led, acks), NEW n \in Server, NEW c \in Nat, Moves(led, acks, n, c)
    PROVE  Abstract!Commit(n) \/ Abstract!Learn(n)
<1>1. /\ TypeOK /\ WellLed(led) /\ AckInv(led, acks) /\ SafeInv(led, acks)
      /\ committed \in Seq(Entry) /\ log'[n] \in Seq(Entry) /\ currentTerm'[n] \in Nat
      /\ commitIndex[n] \in Nat /\ Len(committed) \in Nat
  <2>1. TypeOK /\ WellLed(led) /\ log'[n] \in Seq(Entry) /\ currentTerm'[n] \in Nat
    BY StepFacts, NextLog
  <2>2. committed \in Seq(Entry) /\ commitIndex[n] \in Nat
    BY <2>1 DEF TypeOK
  <2> QED BY <2>1, <2>2 DEF DurableBy
<1>2. PICK T \in Nat : CommittedBy(led, acks, committed, Len(committed), T)
  BY DEF DurableBy, CommInv
<1>3. /\ CommittedBy(led, acks, log'[n], c, currentTerm'[n]) /\ c <= Len(log'[n])
      /\ c > commitIndex[n] /\ Remember(log'[n], c)
  BY DEF Moves, CommittedBy
<1>4. \A p \in Server : commitIndex'[p] = IF p = n THEN c ELSE commitIndex[p]
  BY <1>1 DEF Moves, TypeOK
<1>5. PICK k \in Seq(Entry) : k = SubSeq(log'[n], 1, c)
  <2>1. AgreeUpTo(log'[n], log'[n], c)
    BY <1>3 DEF AgreeUpTo
  <2> QED BY <1>1, <2>1, AgreeIsSubSeq
<1>6. Len(k) = c /\ \A i \in 1..c : k[i] = log'[n][i]
  BY <1>1, <1>3, <1>5, SubSeqProperties
<1>7. [p \in Server |-> Known(p)]' = [[p \in Server |-> Known(p)] EXCEPT ![n] = k]
  <2>1. \A p \in Server : Known(p)' = IF p = n THEN k ELSE Known(p)
    <3> SUFFICES ASSUME NEW p \in Server
                 PROVE  SubSeq(log'[p], 1, commitIndex'[p]) = IF p = n THEN k ELSE Known(p)
      BY DEF Known
    <3> QED BY <1>4, <1>5, KnownStep
  <2> QED BY <2>1
<1>8. CASE c > Len(committed)
  <2>1. committed' = k
    BY <1>3, <1>5, <1>8 DEF Remember
  <2>2. AgreeUpTo(committed, log'[n], Len(committed))
    BY <1>1, <1>2, <1>3, <1>8, CommittedAgree
  <2>3. AgreeUpTo(committed, k, Len(committed))
    BY <1>1, <1>6, <1>8, <2>2 DEF AgreeUpTo
  <2>4. SubSeq(committed, 1, Len(committed)) = SubSeq(k, 1, Len(committed))
    BY <1>1, <2>3, AgreeIsSubSeq
  <2>5. SubSeq(committed, 1, Len(committed)) = committed
    <3>1. /\ SubSeq(committed, 1, Len(committed)) \in Seq(Entry)
          /\ Len(SubSeq(committed, 1, Len(committed))) = Len(committed)
          /\ \A i \in 1..Len(committed) :
                SubSeq(committed, 1, Len(committed))[i] = committed[i]
      BY <1>1, <2>3, AgreeIsSubSeq
    <3> QED BY <1>1, <3>1
  <2> QED BY <1>6, <1>7, <1>8, <2>1, <2>4, <2>5 DEF Abstract!Commit
<1>9. CASE ~(c > Len(committed))
  <2>1. committed' = committed
    BY <1>3, <1>9 DEF Remember
  <2>2. c <= Len(committed)
    BY <1>1, <1>9
  <2>3. AgreeUpTo(log'[n], committed, c)
    BY <1>1, <1>2, <1>3, <2>2, CommittedAgree
  <2>4. k = SubSeq(committed, 1, c)
    BY <1>1, <1>5, <2>3, AgreeIsSubSeq
  <2>5. Len(Known(n)) = commitIndex[n]
    BY KnownStep
  <2>6. c \in (Len(Known(n)) + 1)..Len(committed)
    BY <1>1, <1>3, <2>2, <2>5
  <2>7. [p \in Server |-> Known(p)][n] = Known(n)
    OBVIOUS
  <2> QED BY <1>7, <2>1, <2>4, <2>6, <2>7 DEF Abstract!Learn
<1> QED BY <1>8, <1>9

LEMMA AbstractStep ==
    ASSUME Races = {}, ~StateFaults, Cardinality(Server) <= 3 \/ ~DiskFaults,
           DurableInv, [Next]_vars
    PROVE  Abstract!Next
           \/ UNCHANGED <<committed, [n \in Server |-> Known(n)]>>
<1>1. PICK led, acks : DurableBy(led, acks)
  BY DEF DurableInv
<1>2. PICK new, acked : GhostStep(led, new, acks, acked)
  BY <1>1, GhostExists DEF DurableBy
<1>3. DurableBy(new, acked)'
  BY <1>1, <1>2, DurableStep
<1>4. /\ AckInv(led, acks) /\ SafeInv(led, acks) /\ CommInv(led, acks) /\ CallsInv
      /\ AckInv(new, acked)' /\ PeerInv(new, acked)'
  BY <1>1, <1>3 DEF DurableBy
<1>5. CASE CommitKept
  <2>1. \A n \in Server : Known(n)' = Known(n)
    <3> SUFFICES ASSUME NEW n \in Server
                 PROVE  SubSeq(log'[n], 1, commitIndex'[n]) = Known(n)
      BY DEF Known
    <3> QED BY <1>1, <1>2, <1>5, KnownStep DEF CommitKept
  <2>2. [n \in Server |-> Known(n)]' = [n \in Server |-> Known(n)]
    BY <2>1
  <2> QED BY <1>5, <2>2 DEF CommitKept
<1>6. ASSUME NEW n \in Server, Forgets(n) PROVE Abstract!Forget(n)
  <2>1. TypeOK
    BY <1>2, StepFacts
  <2>2. \A p \in Server : commitIndex'[p] = IF p = n THEN 0 ELSE commitIndex[p]
    BY <1>6, <2>1 DEF Forgets, TypeOK
  <2>3. log'[n] \in Seq(Entry)
    BY <1>2, NextLog
  <2>4. SubSeq(log'[n], 1, 0) = <<>>
    BY <2>3
  <2>5. \A p \in Server : Known(p)' = IF p = n THEN <<>> ELSE Known(p)
    <3> SUFFICES ASSUME NEW p \in Server
                 PROVE  SubSeq(log'[p], 1, commitIndex'[p]) = IF p = n THEN <<>> ELSE Known(p)
      BY DEF Known
    <3> QED BY <1>1, <1>2, <2>2, <2>4, KnownStep
  <2>6. [p \in Server |-> Known(p)]' = [[p \in Server |-> Known(p)] EXCEPT ![n] = <<>>]
    BY <2>5
  <2> QED BY <1>6, <2>6 DEF Abstract!Forget, Forgets
<1>7. ASSUME NEW n \in Server, NEW c \in Nat, Moves(led, acks, n, c)
      PROVE  Abstract!Commit(n) \/ Abstract!Learn(n)
  BY <1>1, <1>2, <1>7, AbstractMove
<1> QED BY <1>2, <1>4, <1>5, <1>6, <1>7, StepMoves DEF Abstract!Next

-----------------------------------------------------------------------------
(* Theorems *)

\* A majority of the disks holds everything that was ever committed
\* (replication.go:363-416), although advanceCommitIndex does not look at the
\* role, followers delete conflicting suffixes (replication.go:309-333), stores
\* fail half-way and nodes crash between any two writes.
THEOREM CommittedIsDurable ==
    ASSUME Races = {}, ~StateFaults, Cardinality(Server) <= 3 \/ ~DiskFaults
    PROVE  Spec => []CommittedOnQuorum
  BY DurabilityInvariant, DurableOnQuorum, PTL

\* The leader of the highest term holds every entry that was ever committed,
\* which the vote's comparison of last entries is for (election.go:151-152).
THEOREM LeadersAreComplete ==
    ASSUME Races = {}, ~StateFaults, Cardinality(Server) <= 3 \/ ~DiskFaults
    PROVE  Spec => []LeaderCompleteness
  BY DurabilityInvariant, DurableCompletes, PTL

\* No two nodes ever take different entries for committed at one index, and no
\* node loses what it took for committed.
THEOREM CommittedIsAgreed ==
    ASSUME Races = {}, ~StateFaults, Cardinality(Server) <= 3 \/ ~DiskFaults
    PROVE  Spec => []StateMachineSafety
  BY DurabilityInvariant, DurableIsSafe, PTL

\* matchIndex never overstates what a follower holds, although answers of
\* earlier leaderships and abandoned requests arrive late.
THEOREM MatchIndexesSound ==
    ASSUME Races = {}, ~StateFaults, Cardinality(Server) <= 3 \/ ~DiskFaults
    PROVE  Spec => []MatchIndexSound
  BY DurabilityInvariant, DurableMatches, PTL

\* The nodes implement the abstract replicated log: every step commits more at
\* one node, lets one node learn, lets one forget by crashing, or changes nothing
\* that a state machine can see.
THEOREM RaftImplementsLog ==
    ASSUME Races = {}, ~StateFaults, Cardinality(Server) <= 3 \/ ~DiskFaults
    PROVE  Spec => ImplementsReplicatedLog
<1>1. Init => Abstract!Init
  <2> SUFFICES ASSUME Init PROVE Abstract!Init
    OBVIOUS
  <2>1. \A n \in Server : Known(n) = <<>>
    BY DEF Init, Known
  <2> QED BY <2>1 DEF Init, Abstract!Init
<1>2. DurableInv /\ [Next]_vars
        => [Abstract!Next]_<<committed, [n \in Server |-> Known(n)]>>
  BY AbstractStep
<1> QED
  BY <1>1, <1>2, DurabilityInvariant, PTL DEF Spec, ImplementsReplicatedLog, Abstract!Spec


=============================================================================
