--------------------------- MODULE ElectionProofs ---------------------------
(***************************************************************************)
(* Raft never has two leaders in one term, for every cluster and every     *)
(* bound, as long as no replicator outlives its leadership and no write to *)
(* a stable store fails.  The inductive invariant is ElectionInv: VoteInv  *)
(* speaks of terms, votes, ballots and leaders only, and there are five    *)
(* ways in which a step changes those, one lemma each; RoleInv and         *)
(* RecordInv tie them to what the goroutines do and to the calls in        *)
(* flight; StoreInv says that the disk holds what the node acts on.        *)
(***************************************************************************)
EXTENDS RaftProofs

-----------------------------------------------------------------------------
(* Majorities *)

\* Two majorities share a node: what quorum() of election.go is for.
LEMMA QuorumsIntersect ==
    ASSUME NEW P \in Quorums, NEW Q \in Quorums
    PROVE  \E v \in Server : v \in P /\ v \in Q
<1>1. P \subseteq Server /\ Q \subseteq Server /\ IsFiniteSet(Server)
  BY ServerAssumption DEF Quorums
<1>2. Cardinality(Server) \in Nat /\ Cardinality(P) \in Nat /\ Cardinality(Q) \in Nat
  BY <1>1, FS_Subset, FS_CardinalityType
<1>3. Cardinality(P) >= Quorum /\ Cardinality(Q) >= Quorum
  BY DEF Quorums
<1>4. Cardinality(P) + Cardinality(Q) > Cardinality(Server)
  BY <1>2, <1>3 DEF Quorum
<1>5. P \cap Q # {}
  BY <1>1, <1>4, FS_MajoritiesIntersect
<1> QED BY <1>1, <1>5

\* A majority for each of two leaders of one term makes them one.
LEMMA OneLeaderPerTerm ==
    ASSUME LeadersSupported
    PROVE  ElectionSafety
<1> SUFFICES ASSUME NEW l1 \in leaders, NEW l2 \in leaders, l1[1] = l2[1]
             PROVE  l1[2] = l2[2]
  BY DEF ElectionSafety
<1>1. PICK P \in Quorums : \A v \in P : Supports(v, l1)
  BY DEF LeadersSupported
<1>2. PICK Q \in Quorums : \A v \in Q : Supports(v, l2)
  BY DEF LeadersSupported
<1>3. PICK v : v \in P /\ v \in Q
  BY QuorumsIntersect
<1>4. Supports(v, l1) /\ Supports(v, l2)
  BY <1>1, <1>2, <1>3
<1>5. <<l1[1], v, l1[2]>> \in ballots
  BY <1>4 DEF Supports
<1>6. \A b \in ballots : b[1] = l2[1] /\ b[2] = v => b[3] = l2[2]
  BY <1>4 DEF Supports
<1> QED BY <1>5, <1>6

-----------------------------------------------------------------------------
(* The five ways in which a step changes terms, votes, ballots and leaders  *)

LEMMA VotesUnchanged ==
    ASSUME VoteInv, UNCHANGED <<currentTerm, votedFor, ballots, leaders>>
    PROVE  VoteInv'
  BY DEF VoteInv, BallotTerms, UndecidedInv, LeadersSupported, Supports

\* A node that moves to a later term, whatever vote it records there, disturbs
\* nothing: no ballot of its own has that term.
LEMMA NewTerm ==
    ASSUME TypeOK, VoteInv, NEW n \in Server, NEW t \in Nat, t > currentTerm[n],
           NEW w \in Server \cup {None},
           currentTerm' = [currentTerm EXCEPT ![n] = t],
           votedFor' = [votedFor EXCEPT ![n] = w],
           ballots' = ballots \/ ballots' = ballots \cup {<<t, n, w>>},
           leaders \subseteq leaders'
    PROVE  /\ BallotTerms' /\ UndecidedInv'
           /\ \A l \in leaders, v \in Server : Supports(v, l) => Supports(v, l)'
<1>1. \A b \in ballots : b \in Nat \X Server \X Server
  BY DEF TypeOK
<1>2. \A b \in ballots : b[2] = n => b[1] # t
  <2> TAKE b \in ballots
  <2>1. b[1] \in Nat /\ b[1] <= currentTerm[b[2]]
    BY <1>1 DEF VoteInv, BallotTerms
  <2>2. currentTerm[n] \in Nat
    BY DEF TypeOK
  <2> QED BY <2>1, <2>2
<1>3. \A b \in ballots' : b \in ballots \/ b = <<t, n, w>>
  OBVIOUS
<1>4. \A v \in Server : v # n => currentTerm'[v] = currentTerm[v]
                                 /\ votedFor'[v] = votedFor[v]
  BY DEF TypeOK
<1>5. currentTerm'[n] = t /\ votedFor'[n] = w
  BY DEF TypeOK
<1>6. BallotTerms'
  <2> SUFFICES ASSUME NEW b \in ballots' PROVE b[1] <= currentTerm'[b[2]]
    BY DEF BallotTerms
  <2>1. CASE b = <<t, n, w>>
    BY <2>1, <1>5
  <2>2. CASE b \in ballots
    <3>1. b[1] <= currentTerm[b[2]] /\ b[1] \in Nat /\ b[2] \in Server
      BY <1>1, <2>2 DEF VoteInv, BallotTerms
    <3>2. currentTerm[n] \in Nat
      BY DEF TypeOK
    <3> QED BY <3>1, <3>2, <1>4, <1>5
  <2> QED BY <1>3, <2>1, <2>2
<1>7. UndecidedInv'
  <2> SUFFICES ASSUME NEW b \in ballots', \A l \in leaders' : l[1] # b[1]
               PROVE  /\ b[1] = currentTerm'[b[2]] => votedFor'[b[2]] = b[3]
                      /\ \A c \in ballots' : c[1] = b[1] /\ c[2] = b[2] => c[3] = b[3]
    BY DEF UndecidedInv
  <2>1. CASE b = <<t, n, w>>
    BY <2>1, <1>2, <1>3, <1>5
  <2>2. CASE b \in ballots
    <3>1. /\ b[1] = currentTerm[b[2]] => votedFor[b[2]] = b[3]
          /\ \A c \in ballots : c[1] = b[1] /\ c[2] = b[2] => c[3] = b[3]
      BY <2>2 DEF VoteInv, UndecidedInv
    <3>2. b[2] \in Server
      BY <1>1, <2>2
    <3> QED BY <1>2, <1>3, <1>4, <1>5, <2>2, <3>1, <3>2
  <2> QED BY <1>3, <2>1, <2>2
<1>8. ASSUME NEW l \in leaders, NEW v \in Server, Supports(v, l)
      PROVE  Supports(v, l)'
  <2>1. /\ <<l[1], v, l[2]>> \in ballots
        /\ \A b \in ballots : b[1] = l[1] /\ b[2] = v => b[3] = l[2]
        /\ currentTerm[v] = l[1] => votedFor[v] = l[2]
    BY <1>8 DEF Supports
  <2>2. v = n => l[1] # t
    BY <1>2, <2>1
  <2>3. \A b \in ballots' : b[1] = l[1] /\ b[2] = v => b[3] = l[2]
    BY <1>3, <2>1, <2>2
  <2>4. currentTerm'[v] = l[1] => votedFor'[v] = l[2]
    BY <1>4, <1>5, <2>1, <2>2
  <2>5. <<l[1], v, l[2]>> \in ballots'
    BY <2>1
  <2> QED BY <2>3, <2>4, <2>5 DEF Supports
<1> QED BY <1>6, <1>7, <1>8

LEMMA SupportKept ==
    ASSUME LeadersSupported,
           \A l \in leaders, v \in Server : Supports(v, l) => Supports(v, l)'
    PROVE  \A l \in leaders : \E Q \in Quorums : \A v \in Q : Supports(v, l)'
<1> TAKE l \in leaders
<1>1. PICK Q \in Quorums : \A v \in Q : Supports(v, l)
  BY DEF LeadersSupported
<1>2. Q \subseteq Server
  BY DEF Quorums
<1> QED BY <1>1, <1>2

LEMMA NewTermVotes ==
    ASSUME TypeOK, VoteInv, NEW n \in Server, NEW t \in Nat, t > currentTerm[n],
           NEW w \in Server \cup {None},
           currentTerm' = [currentTerm EXCEPT ![n] = t],
           votedFor' = [votedFor EXCEPT ![n] = w],
           ballots' = ballots \/ ballots' = ballots \cup {<<t, n, w>>},
           leaders' = leaders
    PROVE  VoteInv'
<1>1. /\ BallotTerms' /\ UndecidedInv'
      /\ \A l \in leaders, v \in Server : Supports(v, l) => Supports(v, l)'
  BY NewTerm
<1>2. \A l \in leaders : \E Q \in Quorums : \A v \in Q : Supports(v, l)'
  BY <1>1, SupportKept DEF VoteInv
<1>3. LeadersSupported'
  BY <1>2 DEF LeadersSupported
<1> QED BY <1>1, <1>3 DEF VoteInv

\* A vote of the current term that is free, or already this candidate's, may be
\* cast: rule 2 of handleRequestVote.
LEMMA CastVote ==
    ASSUME TypeOK, VoteInv, NEW n \in Server, NEW c \in Server,
           votedFor[n] \in {None, c},
           currentTerm' = currentTerm,
           votedFor' = [votedFor EXCEPT ![n] = c],
           ballots' = ballots \cup {<<currentTerm[n], n, c>>},
           leaders' = leaders
    PROVE  VoteInv'
<1> DEFINE t == currentTerm[n]
<1>1. \A b \in ballots : b \in Nat \X Server \X Server
  BY DEF TypeOK
<1>2. \A v \in Server : v # n => votedFor'[v] = votedFor[v]
  BY DEF TypeOK
<1>3. votedFor'[n] = c /\ t \in Nat /\ c # None
  BY NoneAssumption DEF TypeOK
<1>4. \A b \in ballots' : b \in ballots \/ b = <<t, n, c>>
  OBVIOUS
<1>5. BallotTerms'
  BY <1>3, <1>4 DEF VoteInv, BallotTerms
<1>6. UndecidedInv'
  <2> SUFFICES ASSUME NEW b \in ballots', \A l \in leaders : l[1] # b[1]
               PROVE  /\ b[1] = currentTerm[b[2]] => votedFor'[b[2]] = b[3]
                      /\ \A d \in ballots' : d[1] = b[1] /\ d[2] = b[2] => d[3] = b[3]
    BY DEF UndecidedInv
  <2>1. ASSUME NEW d \in ballots, d[1] = b[1], d[2] = n, b[1] = t
        PROVE  d[3] = c
    <3>1. votedFor[n] = d[3]
      BY <2>1 DEF VoteInv, UndecidedInv
    <3>2. d[3] \in Server
      BY <1>1, <2>1
    <3> QED BY <3>1, <3>2, NoneAssumption
  <2>2. CASE b = <<t, n, c>>
    BY <1>3, <1>4, <2>1, <2>2
  <2>3. CASE b \in ballots
    <3>1. /\ b[1] = currentTerm[b[2]] => votedFor[b[2]] = b[3]
          /\ \A d \in ballots : d[1] = b[1] /\ d[2] = b[2] => d[3] = b[3]
      BY <2>3 DEF VoteInv, UndecidedInv
    <3>2. b[2] \in Server
      BY <1>1, <2>3
    <3>3. b[2] = n /\ b[1] = t => b[3] = c
      BY <2>1, <2>3
    <3>4. b[1] = currentTerm[b[2]] => votedFor'[b[2]] = b[3]
      BY <1>2, <1>3, <3>1, <3>2, <3>3
    <3>5. \A d \in ballots' : d[1] = b[1] /\ d[2] = b[2] => d[3] = b[3]
      BY <1>4, <3>1, <3>3
    <3> QED BY <3>4, <3>5
  <2> QED BY <1>4, <2>2, <2>3
<1>7. ASSUME NEW l \in leaders, NEW v \in Server, Supports(v, l)
      PROVE  Supports(v, l)'
  <2>1. /\ <<l[1], v, l[2]>> \in ballots
        /\ \A b \in ballots : b[1] = l[1] /\ b[2] = v => b[3] = l[2]
        /\ currentTerm[v] = l[1] => votedFor[v] = l[2]
    BY <1>7 DEF Supports
  <2>2. l[2] \in Server
    BY DEF TypeOK
  <2>3. v = n /\ l[1] = t => l[2] = c
    BY <2>1, <2>2, NoneAssumption
  <2>4. \A b \in ballots' : b[1] = l[1] /\ b[2] = v => b[3] = l[2]
    BY <1>4, <2>1, <2>3
  <2>5. currentTerm'[v] = l[1] => votedFor'[v] = l[2]
    BY <1>2, <1>3, <2>1, <2>3
  <2>6. <<l[1], v, l[2]>> \in ballots'
    BY <2>1
  <2> QED BY <2>4, <2>5, <2>6 DEF Supports
<1>8. \A l \in leaders : \E Q \in Quorums : \A v \in Q : Supports(v, l)'
  BY <1>7, SupportKept DEF VoteInv
<1>9. LeadersSupported'
  BY <1>8 DEF LeadersSupported
<1> QED BY <1>5, <1>6, <1>9 DEF VoteInv

\* stepDown in a term that has a leader forgets the vote of a candidate for
\* itself, and only that: the node is no supporter of the leader.
LEMMA ForgetVote ==
    ASSUME TypeOK, VoteInv, NEW n \in Server, NEW p \in Server,
           <<currentTerm[n], p>> \in leaders, p # n, votedFor[n] = n,
           currentTerm' = currentTerm,
           votedFor' = [votedFor EXCEPT ![n] = None],
           ballots' = ballots, leaders' = leaders
    PROVE  VoteInv'
<1>1. \A v \in Server : v # n => votedFor'[v] = votedFor[v]
  BY DEF TypeOK
<1>2. BallotTerms'
  BY DEF VoteInv, BallotTerms
<1>3. UndecidedInv'
  <2> SUFFICES ASSUME NEW b \in ballots, \A l \in leaders : l[1] # b[1]
               PROVE  /\ b[1] = currentTerm[b[2]] => votedFor'[b[2]] = b[3]
                      /\ \A d \in ballots : d[1] = b[1] /\ d[2] = b[2] => d[3] = b[3]
    BY DEF UndecidedInv
  <2>1. /\ b[1] = currentTerm[b[2]] => votedFor[b[2]] = b[3]
        /\ \A d \in ballots : d[1] = b[1] /\ d[2] = b[2] => d[3] = b[3]
    BY DEF VoteInv, UndecidedInv
  <2>2. b[2] = n => b[1] # currentTerm[n]
    OBVIOUS
  <2>3. b[2] \in Server
    BY DEF TypeOK
  <2> QED BY <1>1, <2>1, <2>2, <2>3
<1>4. ASSUME NEW l \in leaders, NEW v \in Server, Supports(v, l)
      PROVE  Supports(v, l)'
  <2>1. /\ <<l[1], v, l[2]>> \in ballots
        /\ \A b \in ballots : b[1] = l[1] /\ b[2] = v => b[3] = l[2]
        /\ currentTerm[v] = l[1] => votedFor[v] = l[2]
    BY <1>4 DEF Supports
  <2>2. ElectionSafety
    BY OneLeaderPerTerm DEF VoteInv
  <2>3. l[1] = currentTerm[n] => l[2] = p
    BY <2>2 DEF ElectionSafety
  <2>4. v = n => l[1] # currentTerm[n]
    BY <2>1, <2>3
  <2> QED BY <1>1, <2>1, <2>4 DEF Supports
<1>5. \A l \in leaders : \E Q \in Quorums : \A v \in Q : Supports(v, l)'
  BY <1>4, SupportKept DEF VoteInv
<1>6. LeadersSupported'
  BY <1>5 DEF LeadersSupported
<1> QED BY <1>2, <1>3, <1>6 DEF VoteInv

\* A candidate that counted a majority of votes of its term leads it: either
\* nobody did before, and then the votes are single, or a majority for another
\* leader would share a voter with this one.
LEMMA Win ==
    ASSUME TypeOK, VoteInv, NEW n \in Server, NEW Q \in Quorums,
           \A v \in Q : <<currentTerm[n], v, n>> \in ballots,
           UNCHANGED <<currentTerm, votedFor, ballots>>,
           leaders' = leaders \cup {<<currentTerm[n], n>>}
    PROVE  VoteInv'
<1> DEFINE t == currentTerm[n]
<1>1. BallotTerms' /\ UndecidedInv'
  BY DEF VoteInv, BallotTerms, UndecidedInv
<1>2. \A l, v : Supports(v, l) => Supports(v, l)'
  BY DEF Supports
<1>3. \A l \in leaders : \E R \in Quorums : \A v \in R : Supports(v, l)'
  BY <1>2 DEF VoteInv, LeadersSupported
<1>4. CASE \E l \in leaders : l[1] = t
  <2>1. PICK l \in leaders : l[1] = t
    BY <1>4
  <2>2. PICK R \in Quorums : \A v \in R : Supports(v, l)
    BY DEF VoteInv, LeadersSupported
  <2>3. PICK v : v \in Q /\ v \in R
    BY QuorumsIntersect
  <2>4. <<t, v, n>> \in ballots /\ \A b \in ballots : b[1] = t /\ b[2] = v => b[3] = l[2]
    BY <2>1, <2>2, <2>3 DEF Supports
  <2>5. l[2] = n
    BY <2>4
  <2>6. l = <<t, n>>
    <3>1. l \in Nat \X Server
      BY <2>1 DEF TypeOK
    <3> QED BY <2>1, <2>5, <3>1
  <2>7. leaders' = leaders
    BY <2>1, <2>6
  <2> QED BY <1>1, <1>3, <2>7 DEF VoteInv, LeadersSupported
<1>5. CASE \A l \in leaders : l[1] # t
  <2>1. ASSUME NEW v \in Q PROVE Supports(v, <<t, n>>)
    <3>1. <<t, v, n>> \in ballots
      OBVIOUS
    <3> DEFINE b == <<t, v, n>>
    <3>2. /\ t = currentTerm[v] => votedFor[v] = n
          /\ \A c \in ballots : c[1] = t /\ c[2] = v => c[3] = n
      <4>1. b \in ballots /\ b[1] = t /\ b[2] = v /\ b[3] = n
        BY <3>1
      <4> HIDE DEF b, t
      <4> QED BY <1>5, <4>1 DEF VoteInv, UndecidedInv
    <3> QED BY <3>1, <3>2 DEF Supports
  <2>2. \A v \in Q : Supports(v, <<t, n>>)'
    BY <1>2, <2>1 DEF Supports
  <2> QED BY <1>1, <1>3, <2>2 DEF VoteInv, LeadersSupported
<1> QED BY <1>4, <1>5

\* A cluster of one elects itself in a fresh term.
LEMMA WinAlone ==
    ASSUME TypeOK, VoteInv, NEW n \in Server, Quorum = 1,
           NEW t \in Nat, t > currentTerm[n],
           currentTerm' = [currentTerm EXCEPT ![n] = t],
           votedFor' = [votedFor EXCEPT ![n] = n],
           ballots' = ballots \cup {<<t, n, n>>},
           leaders' = leaders \cup {<<t, n>>}
    PROVE  VoteInv'
<1>1. /\ BallotTerms' /\ UndecidedInv'
      /\ \A l \in leaders, v \in Server : Supports(v, l) => Supports(v, l)'
  BY NewTerm
<1>2. \A l \in leaders : \E Q \in Quorums : \A v \in Q : Supports(v, l)'
  BY <1>1, SupportKept DEF VoteInv
<1>3. {n} \in Quorums
  <2>1. Cardinality({n}) = 1
    BY FS_Singleton
  <2> QED BY <2>1 DEF Quorums
<1>4. Supports(n, <<t, n>>)'
  <2>1. \A b \in ballots : b[2] = n => b[1] # t
    <3> TAKE b \in ballots
    <3>1. b[1] \in Nat /\ b[1] <= currentTerm[b[2]]
      BY DEF VoteInv, BallotTerms, TypeOK
    <3>2. currentTerm[n] \in Nat
      BY DEF TypeOK
    <3> QED BY <3>1, <3>2
  <2>2. \A b \in ballots' : b[1] = t /\ b[2] = n => b[3] = n
    BY <2>1
  <2>3. votedFor'[n] = n /\ <<t, n, n>> \in ballots'
    BY DEF TypeOK
  <2> QED BY <2>2, <2>3 DEF Supports
<1> QED BY <1>1, <1>2, <1>3, <1>4 DEF VoteInv, LeadersSupported

-----------------------------------------------------------------------------
(* One lemma per action *)

\* ElectionInv without the stable store, which is StoreNext's.
CampaignInv == RoleInv /\ VoteInv /\ RecordInv

\* Dropping calls, or marking them abandoned, makes no new call, vote or leader.
NoNewCalls ==
    \A m \in net' : /\ \A n \in Server : IsCallOf(n, m) => m \in net
                    /\ m.type = "Vote" => m \in net
                    /\ m.type = "AppendEntries" =>
                         \E x \in net : /\ x.type = "AppendEntries"
                                        /\ x.term = m.term /\ x.from = m.from
                                        /\ x.to = m.to

\* A step that leaves elections alone.
LEMMA Quiet ==
    ASSUME CampaignInv, NoNewCalls,
           UNCHANGED <<currentTerm, votedFor, state, electionTerm, votes,
                       ballots, leaders>>,
           \A n \in Server : /\ loop'[n] = "candidate" <=> loop[n] = "candidate"
                             /\ state[n] = "Leader" => loop'[n] \in {"starting", "leader"}
    PROVE  CampaignInv'
<1>1. VoteInv'
  BY VotesUnchanged DEF CampaignInv
<1>2. RoleInv'
  <2>1. \A n \in Server : (\A m \in net : ~IsCallOf(n, m))
                            => (\A m \in net' : ~IsCallOf(n, m))
    BY DEF NoNewCalls
  <2>2. \A n \in Server : \A m : IsCallOf(n, m)' <=> IsCallOf(n, m)
    BY DEF IsCallOf
  <2> HIDE DEF IsCallOf
  <2> QED BY <2>1, <2>2 DEF CampaignInv, RoleInv
<1>3. RecordInv'
  BY DEF CampaignInv, RecordInv, NoNewCalls
<1> QED BY <1>1, <1>2, <1>3 DEF CampaignInv

LEMMA ElectionInit == Init => ElectionInv
  BY NoneAssumption, StoreInit
     DEF Init, ElectionInv, RoleInv, VoteInv, BallotTerms, UndecidedInv,
         LeadersSupported, RecordInv

LEMMA ElectionAppendNoOp ==
    ASSUME TypeOK, CampaignInv, NEW n \in Server, AppendNoOp(n)
    PROVE  CampaignInv'
<1>1. NoNewCalls
  BY DEF NoNewCalls, AppendNoOp
<1>2. state[n] # "Candidate" /\ loop[n] # "candidate"
  BY DEF CampaignInv, RoleInv, AppendNoOp
<1>3. \A p \in Server : /\ loop'[p] = "candidate" <=> loop[p] = "candidate"
                        /\ state[p] = "Leader" => loop'[p] \in {"starting", "leader"}
  BY <1>2 DEF AppendNoOp, TypeOK, LoopOf, States, CampaignInv, RoleInv
<1> QED BY <1>1, <1>3, Quiet DEF AppendNoOp, candidateVars

LEMMA ElectionHandleApplyRequest ==
    ASSUME TypeOK, CampaignInv, NEW n \in Server, NEW v \in Value,
           HandleApplyRequest(n, v)
    PROVE  CampaignInv'
<1>1. NoNewCalls
  BY DEF NoNewCalls, HandleApplyRequest
<1>2. UNCHANGED loop
  BY DEF HandleApplyRequest
<1>3. \A p \in Server : state[p] = "Leader" => loop[p] \in {"starting", "leader"}
  BY DEF CampaignInv, RoleInv
<1> QED BY <1>1, <1>2, <1>3, Quiet DEF HandleApplyRequest, candidateVars

LEMMA ElectionRefuseApplyRequest ==
    ASSUME TypeOK, CampaignInv, NEW n \in Server, RefuseApplyRequest(n)
    PROVE  CampaignInv'
<1>1. NoNewCalls
  BY DEF NoNewCalls, RefuseApplyRequest
<1>2. state[n] = "Follower" /\ loop[n] # "candidate"
  BY DEF CampaignInv, RoleInv, RefuseApplyRequest, TypeOK, States
<1>3. \A p \in Server : /\ loop'[p] = "candidate" <=> loop[p] = "candidate"
                        /\ state[p] = "Leader" => loop'[p] \in {"starting", "leader"}
  BY <1>2 DEF RefuseApplyRequest, TypeOK, LoopOf, CampaignInv, RoleInv
<1> QED
  BY <1>1, <1>3, Quiet DEF RefuseApplyRequest, candidateVars, persistentVars

LEMMA ElectionRestart ==
    ASSUME TypeOK, CampaignInv, NEW n \in Server, Restart(n)
    PROVE  CampaignInv'
<1>1. NoNewCalls
  BY DEF NoNewCalls, Restart
<1>2. \A p \in Server : /\ loop'[p] = "candidate" <=> loop[p] = "candidate"
                        /\ state[p] = "Leader" => loop'[p] \in {"starting", "leader"}
  BY DEF Restart, TypeOK, CampaignInv, RoleInv
<1> QED
  BY <1>1, <1>2, Quiet DEF Restart, candidateVars, persistentVars

\* What becomes of a request when its caller gives up or dies.
LEMMA OrphanCalls ==
    ASSUME NEW m \in Message, NEW n \in Server
    PROVE  /\ IsCallOf(n, Orphan(m)) => m = Orphan(m)
           /\ Orphan(m).type = "Vote" => m = Orphan(m)
<1>1. CASE m.type = "AppendEntries"
  <2>1. m \in AppendEntriesReq
    BY <1>1 DEF Message, RequestVoteReq, RequestVoteResp, AppendEntriesResp
  <2>2. /\ Orphan(m).type = "AppendEntries" /\ Orphan(m).live = FALSE
    BY <1>1, <2>1 DEF Orphan, AppendEntriesReq
  <2> QED BY <2>2 DEF IsCallOf
<1>2. CASE m.type # "AppendEntries"
  BY <1>2 DEF Orphan
<1> QED BY <1>1, <1>2

LEMMA ElectionCallFails ==
    ASSUME TypeOK, CampaignInv, NEW m \in net, CallFails(m)
    PROVE  CampaignInv'
<1>1. m \in Message /\ net' \subseteq net \cup {Orphan(m)}
  BY DEF CallFails, TypeOK
<1>2. NoNewCalls
  <2> SUFFICES ASSUME NEW x \in net'
               PROVE  /\ \A n \in Server : IsCallOf(n, x) => x \in net
                      /\ x.type = "Vote" => x \in net
                      /\ x.type = "AppendEntries" =>
                           \E y \in net : /\ y.type = "AppendEntries"
                                          /\ y.term = x.term /\ y.from = x.from
                                          /\ y.to = x.to
    BY DEF NoNewCalls
  <2>1. CASE x \in net
    BY <2>1
  <2>2. CASE x = Orphan(m)
    <3>1. /\ \A n \in Server : IsCallOf(n, x) => x = m
          /\ x.type = "Vote" => x = m
      <4>1. /\ \A n \in Server : IsCallOf(n, Orphan(m)) => m = Orphan(m)
            /\ Orphan(m).type = "Vote" => m = Orphan(m)
        BY <1>1, OrphanCalls, ServerAssumption
      <4> QED BY <2>2, <4>1, Zenon
    <3>2. x.type = m.type /\ x.from = m.from /\ x.to = m.to /\ x.term = m.term
      BY <1>1, <2>2, OrphanType
    <3> QED BY <3>1, <3>2
  <2> QED BY <1>1, <2>1, <2>2
<1>3. \A p \in Server : state[p] = "Leader" => loop[p] \in {"starting", "leader"}
  BY DEF CampaignInv, RoleInv
<1> QED BY <1>2, <1>3, Quiet DEF CallFails, candidateVars, persistentVars

LEMMA ElectionReplicateOnce ==
    ASSUME TypeOK, CampaignInv, NEW n \in Server, NEW p \in Server,
           ReplicateOnce(n, p)
    PROVE  CampaignInv'
<1> DEFINE r == [type |-> "AppendEntries", from |-> n, to |-> p,
                 term |-> currentTerm[n], prevLogIndex |-> nextIndex[n][p] - 1,
                 prevLogTerm |-> TermAt(log[n], nextIndex[n][p] - 1),
                 entries |-> SubSeq(log[n], nextIndex[n][p] - 1 + 1, Len(log[n])),
                 leaderCommit |-> commitIndex[n], live |-> TRUE]
<1>1. /\ net' = net \cup {r} /\ r.type = "AppendEntries"
      /\ r.from = n /\ r.to = p /\ r.term = currentTerm[n]
  BY DEF ReplicateOnce
<1> HIDE DEF r
<1>2. /\ UNCHANGED <<currentTerm, votedFor, state, loop, electionTerm, votes,
                     ballots, leaders>>
      /\ n # p /\ loop[n] # "candidate" /\ state[n] = "Leader"
  BY DEF ReplicateOnce, candidateVars, persistentVars
<1>3. VoteInv'
  BY <1>2, VotesUnchanged DEF CampaignInv
<1>4. RoleInv'
  BY <1>1, <1>2 DEF CampaignInv, RoleInv, IsCallOf
<1>5. RecordInv'
  BY <1>1, <1>2 DEF CampaignInv, RecordInv
<1> QED BY <1>3, <1>4, <1>5 DEF CampaignInv

LEMMA ElectionLeaveElection ==
    ASSUME TypeOK, CampaignInv, NEW n \in Server, LeaveElection(n)
    PROVE  CampaignInv'
  BY DEF CampaignInv, RoleInv, LeaveElection

LEMMA ElectionStartElection ==
    ASSUME TypeOK, CampaignInv, "StaleReply" \notin Races, NEW n \in Server,
           StartElection(n)
    PROVE  CampaignInv'
<1> DEFINE t == currentTerm[n] + 1
<1>1. t \in Nat /\ currentTerm[n] \in Nat /\ t > currentTerm[n]
  BY DEF TypeOK
<1>2. /\ currentTerm' = [currentTerm EXCEPT ![n] = t]
      /\ votedFor' = [votedFor EXCEPT ![n] = n]
      /\ ballots' = ballots \cup {<<t, n, n>>}
  BY DEF StartElection
<1>3. \A m \in net : ~IsCallOf(n, m)
  BY DEF StartElection
<1>4. \A m \in net' : m \in net \/ m.type = "RequestVote"
  BY DEF StartElection, DropVotes
<1>5. \A p \in Server : p # n => /\ currentTerm'[p] = currentTerm[p]
                                 /\ votedFor'[p] = votedFor[p]
  BY <1>2 DEF TypeOK
<1>6. currentTerm'[n] = t /\ votedFor'[n] = n
  BY <1>2 DEF TypeOK
<1>7. \A p \in Server : (\A m \in net : ~IsCallOf(p, m)) => \A m \in net' : ~IsCallOf(p, m)
  BY <1>4 DEF IsCallOf
<1>8. \A p \in Server : \A m : IsCallOf(p, m)' <=> IsCallOf(p, m)
  BY DEF IsCallOf
<1> HIDE DEF t
<1>9. CASE Quorum = 1
  <2>1. /\ leaders' = leaders \cup {<<t, n>>}
        /\ state' = [state EXCEPT ![n] = "Leader"]
        /\ loop' = [loop EXCEPT ![n] = "starting"]
        /\ electionTerm' = [electionTerm EXCEPT ![n] = 0]
        /\ votes' = [votes EXCEPT ![n] = {}]
    BY <1>9 DEF StartElection, BecomeLeader, t
  <2>2. VoteInv'
    BY <1>1, <1>2, <1>9, <2>1, WinAlone DEF CampaignInv
  <2>3. \A p \in Server : p # n => /\ state'[p] = state[p] /\ loop'[p] = loop[p]
                                   /\ electionTerm'[p] = electionTerm[p]
                                   /\ votes'[p] = votes[p]
    BY <2>1 DEF TypeOK
  <2>4. state'[n] = "Leader" /\ loop'[n] = "starting"
    BY <2>1 DEF TypeOK
  <2>5. RoleInv'
    <3> SUFFICES ASSUME NEW p \in Server
          PROVE  /\ state'[p] = "Candidate" <=> loop'[p] = "candidate"
                 /\ state'[p] = "Leader" => loop'[p] \in {"starting", "leader"}
                 /\ state'[p] # "Follower" => votedFor'[p] = p
                 /\ loop'[p] = "candidate" =>
                      /\ electionTerm'[p] = currentTerm'[p]
                      /\ \A m \in net' : ~IsCallOf(p, m)
      BY <1>8 DEF RoleInv
    <3>1. CASE p = n
      BY <3>1, <1>6, <2>4
    <3>2. CASE p # n
      BY <3>2, <1>5, <1>7, <2>3 DEF CampaignInv, RoleInv
    <3> QED BY <3>1, <3>2
  <2>6. RecordInv'
    BY <1>2, <1>4, <1>5, <1>6, <2>1, <2>3, <2>4 DEF CampaignInv, RecordInv
  <2> QED BY <2>2, <2>5, <2>6 DEF CampaignInv
<1>10. CASE Quorum # 1
  <2>1. /\ leaders' = leaders
        /\ state' = [state EXCEPT ![n] = "Candidate"]
        /\ loop' = [loop EXCEPT ![n] = "candidate"]
        /\ electionTerm' = [electionTerm EXCEPT ![n] = t]
        /\ votes' = [votes EXCEPT ![n] = {n}]
    BY <1>10 DEF StartElection, t
  <2>2. VoteInv'
    BY <1>1, <1>2, <2>1, NewTermVotes DEF CampaignInv
  <2>3. \A p \in Server : p # n => /\ state'[p] = state[p] /\ loop'[p] = loop[p]
                                   /\ electionTerm'[p] = electionTerm[p]
                                   /\ votes'[p] = votes[p]
    BY <2>1 DEF TypeOK
  <2>4. /\ state'[n] = "Candidate" /\ loop'[n] = "candidate"
        /\ electionTerm'[n] = t /\ votes'[n] = {n}
    BY <2>1 DEF TypeOK
  <2>5. RoleInv'
    <3> SUFFICES ASSUME NEW p \in Server
          PROVE  /\ state'[p] = "Candidate" <=> loop'[p] = "candidate"
                 /\ state'[p] = "Leader" => loop'[p] \in {"starting", "leader"}
                 /\ state'[p] # "Follower" => votedFor'[p] = p
                 /\ loop'[p] = "candidate" =>
                      /\ electionTerm'[p] = currentTerm'[p]
                      /\ \A m \in net' : ~IsCallOf(p, m)
      BY <1>8 DEF RoleInv
    <3>1. CASE p = n
      BY <3>1, <1>3, <1>6, <1>7, <2>4
    <3>2. CASE p # n
      BY <3>2, <1>5, <1>7, <2>3 DEF CampaignInv, RoleInv
    <3> QED BY <3>1, <3>2
  <2>6. RecordInv'
    BY <1>2, <1>4, <1>5, <1>6, <2>1, <2>3, <2>4 DEF CampaignInv, RecordInv
  <2> QED BY <2>2, <2>5, <2>6 DEF CampaignInv
<1> QED BY <1>9, <1>10

LEMMA ElectionHandleVote ==
    ASSUME TypeOK, CampaignInv, NEW n \in Server, NEW m \in net, HandleVote(n, m)
    PROVE  CampaignInv'
<1>1. /\ m \in RequestVoteResp /\ m.term \in Nat /\ m.from \in Server
      /\ m.type = "Vote" /\ m.to = n /\ m.call = electionTerm[n]
      /\ loop[n] = "candidate" /\ ballots' = ballots
  BY MessageFields DEF HandleVote
<1>2. /\ currentTerm[n] \in Nat /\ state[n] = "Candidate" /\ votedFor[n] = n
      /\ electionTerm[n] = currentTerm[n] /\ \A x \in net : ~IsCallOf(n, x)
  BY <1>1 DEF TypeOK, CampaignInv, RoleInv
<1>3. net' \subseteq net
  BY DEF HandleVote, DropVotes
<1>4. \A p \in Server : \A x : IsCallOf(p, x)' <=> IsCallOf(p, x)
  BY DEF IsCallOf
<1>5. CASE m.term > currentTerm[n]
  <2>1. /\ currentTerm'  = [currentTerm EXCEPT ![n] = m.term]
        /\ votedFor'     = [votedFor EXCEPT ![n] = None]
        /\ state'        = [state EXCEPT ![n] = "Follower"]
        /\ loop'         = [loop EXCEPT ![n] = "follower"]
        /\ electionTerm' = [electionTerm EXCEPT ![n] = 0]
        /\ votes'        = [votes EXCEPT ![n] = {}]
        /\ leaders' = leaders
    <3>1. ~(m.term <= currentTerm[n])
      BY <1>1, <1>2, <1>5
    <3> QED BY <3>1 DEF HandleVote
  <2>2. VoteInv'
    BY <1>1, <1>5, <2>1, NewTermVotes DEF CampaignInv
  <2>3. RoleInv'
    BY <1>3, <1>4, <2>1 DEF TypeOK, CampaignInv, RoleInv
  <2>4. RecordInv'
    BY <1>1, <1>3, <2>1 DEF TypeOK, CampaignInv, RecordInv
  <2> QED BY <2>2, <2>3, <2>4 DEF CampaignInv
<1>6. CASE ~(m.term > currentTerm[n])
  <2> DEFINE counted == votes[n] \cup {m.from}
  <2>1. UNCHANGED <<currentTerm, votedFor>> /\ m.granted
    BY <1>6 DEF HandleVote
  <2>2. \A v \in counted : <<currentTerm[n], v, n>> \in ballots
    BY <1>1, <1>2, <2>1 DEF CampaignInv, RecordInv
  <2>3. CASE Cardinality(counted) >= Quorum
    <3>1. /\ state' = [state EXCEPT ![n] = "Leader"]
          /\ loop' = [loop EXCEPT ![n] = "starting"]
          /\ electionTerm' = [electionTerm EXCEPT ![n] = 0]
          /\ votes' = [votes EXCEPT ![n] = {}]
          /\ leaders' = leaders \cup {<<currentTerm[n], n>>}
      BY <1>6, <2>3 DEF HandleVote, BecomeLeader
    <3>2. counted \in Quorums
      BY <1>1, <2>3 DEF Quorums, TypeOK
    <3>3. VoteInv'
      <4> HIDE DEF counted
      <4> QED BY <1>1, <2>1, <2>2, <3>1, <3>2, Win DEF CampaignInv
    <3>4. RoleInv'
      <4> HIDE DEF counted
      <4>1. SUFFICES ASSUME NEW p \in Server
            PROVE  /\ state'[p] = "Candidate" <=> loop'[p] = "candidate"
                   /\ state'[p] = "Leader" => loop'[p] \in {"starting", "leader"}
                   /\ state'[p] # "Follower" => votedFor'[p] = p
                   /\ loop'[p] = "candidate" =>
                        /\ electionTerm'[p] = currentTerm'[p]
                        /\ \A x \in net' : ~IsCallOf(p, x)
        BY <1>4 DEF RoleInv
      <4>2. CASE p = n
        BY <4>2, <1>2, <2>1, <3>1 DEF TypeOK
      <4>3. CASE p # n
        <5>1. /\ state'[p] = state[p] /\ loop'[p] = loop[p]
              /\ electionTerm'[p] = electionTerm[p] /\ votedFor'[p] = votedFor[p]
              /\ currentTerm'[p] = currentTerm[p]
          BY <4>3, <2>1, <3>1 DEF TypeOK
        <5> QED BY <5>1, <1>3 DEF CampaignInv, RoleInv
      <4> QED BY <4>2, <4>3
    <3>5. RecordInv'
      BY <1>1, <1>3, <2>1, <3>1 DEF TypeOK, CampaignInv, RecordInv
    <3> QED BY <3>3, <3>4, <3>5 DEF CampaignInv
  <2>4. CASE ~(Cardinality(counted) >= Quorum)
    <3>1. /\ loop' = [loop EXCEPT ![n] = "candidate"]
          /\ votes' = [votes EXCEPT ![n] = counted]
          /\ electionTerm' = [electionTerm EXCEPT ![n] = @]
          /\ UNCHANGED <<state, leaders>>
      BY <1>2, <1>6, <2>4 DEF HandleVote, LoopOf
    <3>2. VoteInv'
      BY <1>1, <2>1, <3>1, VotesUnchanged DEF CampaignInv
    <3>3. RoleInv'
      BY <1>1, <1>2, <1>3, <1>4, <2>1, <3>1 DEF TypeOK, CampaignInv, RoleInv
    <3>4. RecordInv'
      <4> HIDE DEF counted
      <4> QED BY <1>1, <1>3, <2>1, <2>2, <3>1 DEF TypeOK, CampaignInv, RecordInv
    <3> QED BY <3>2, <3>3, <3>4 DEF CampaignInv
  <2> QED BY <2>3, <2>4
<1> QED BY <1>5, <1>6

LEMMA ElectionHandleAppendEntriesResponse ==
    ASSUME TypeOK, CampaignInv, NEW n \in Server, NEW m \in net,
           HandleAppendEntriesResponse(n, m)
    PROVE  CampaignInv'
<1>1. /\ m \in AppendEntriesResp /\ m.term \in Nat /\ m.type = "Appended"
      /\ m.to = n /\ net' \subseteq net
      /\ UNCHANGED <<loop, electionTerm, votes, ballots, leaders>>
  BY MessageFields DEF HandleAppendEntriesResponse, candidateVars
<1>2. loop[n] # "candidate" /\ state[n] # "Candidate"
  BY <1>1 DEF CampaignInv, RoleInv, IsCallOf
<1>3. \A p \in Server : \A x : IsCallOf(p, x)' <=> IsCallOf(p, x)
  BY DEF IsCallOf
<1>4. CASE m.term > currentTerm[n]
  <2>1. /\ currentTerm' = [currentTerm EXCEPT ![n] = m.term]
        /\ votedFor'    = [votedFor EXCEPT ![n] = None]
        /\ state'       = [state EXCEPT ![n] = "Follower"]
    <3>1. ~(m.term <= currentTerm[n])
      BY <1>1, <1>4 DEF TypeOK
    <3> QED BY <3>1 DEF HandleAppendEntriesResponse
  <2>2. VoteInv'
    BY <1>1, <1>4, <2>1, NewTermVotes DEF CampaignInv
  <2>3. RoleInv'
    BY <1>1, <1>2, <1>3, <2>1 DEF TypeOK, CampaignInv, RoleInv
  <2>4. RecordInv'
    BY <1>1, <1>2, <2>1 DEF TypeOK, CampaignInv, RecordInv
  <2> QED BY <2>2, <2>3, <2>4 DEF CampaignInv
<1>5. CASE ~(m.term > currentTerm[n])
  <2>1. UNCHANGED <<currentTerm, votedFor, state>>
    BY <1>5 DEF HandleAppendEntriesResponse
  <2>2. NoNewCalls
    BY <1>1 DEF NoNewCalls
  <2>3. \A p \in Server : state[p] = "Leader" => loop[p] \in {"starting", "leader"}
    BY DEF CampaignInv, RoleInv
  <2> QED BY <1>1, <2>1, <2>2, <2>3, Quiet
<1> QED BY <1>4, <1>5

LEMMA ElectionHandleRequestVote ==
    ASSUME TypeOK, CampaignInv, NEW n \in Server, NEW m \in net,
           HandleRequestVote(n, m)
    PROVE  CampaignInv'
<1> DEFINE newer == m.term > currentTerm[n]
           vote  == IF newer THEN None ELSE votedFor[n]
           term  == IF newer THEN m.term ELSE currentTerm[n]
           role  == IF newer THEN "Follower" ELSE state[n]
           grant == m.term = term /\ Grants(n, m, vote)
           resp  == [type |-> "Vote", from |-> n, to |-> m.from, call |-> m.term,
                     term |-> term, granted |-> grant]
           left  == LoopOf(role) # "candidate"
<1>1. m \in RequestVoteReq /\ m.from \in Server /\ m.term \in Nat
  BY MessageFields DEF HandleRequestVote
<1>2. currentTerm[n] \in Nat /\ state[n] \in States
  BY DEF TypeOK
<1>3. /\ currentTerm'  = [currentTerm EXCEPT ![n] = term]
      /\ votedFor'     = [votedFor EXCEPT ![n] = IF grant THEN m.from ELSE vote]
      /\ state'        = [state EXCEPT ![n] = role]
      /\ loop'         = [loop EXCEPT ![n] = LoopOf(role)]
      /\ electionTerm' = [electionTerm EXCEPT ![n] = IF left THEN 0 ELSE @]
      /\ votes'        = [votes EXCEPT ![n] = IF left THEN {} ELSE @]
      /\ ballots' = IF grant THEN ballots \cup {<<m.term, n, m.from>>} ELSE ballots
      /\ leaders' = leaders
      /\ loop[n] \in Selecting
  BY DEF HandleRequestVote
<1>4. \A x \in net' : x \in net \/ x = resp
  BY DEF HandleRequestVote, DropVotes
<1>5. /\ resp.type = "Vote" /\ resp.granted = grant
      /\ resp.call = m.term /\ resp.from = n /\ resp.to = m.from
  OBVIOUS
<1>6. grant => VoteFree(vote, m.from) /\ m.term = term
  BY DEF Grants
<1>7. \A p \in Server : \A x : IsCallOf(p, x)' <=> IsCallOf(p, x)
  BY DEF IsCallOf
<1>8. \A p \in Server : (\A x \in net : ~IsCallOf(p, x)) => \A x \in net' : ~IsCallOf(p, x)
  BY <1>4, <1>5 DEF IsCallOf
<1> HIDE DEF grant, resp
<1>9. \A p \in Server : p # n => /\ state'[p] = state[p] /\ loop'[p] = loop[p]
                                 /\ electionTerm'[p] = electionTerm[p]
                                 /\ votes'[p] = votes[p]
                                 /\ currentTerm'[p] = currentTerm[p]
                                 /\ votedFor'[p] = votedFor[p]
  BY <1>3 DEF TypeOK
<1>10. CASE newer
  <2>1. /\ currentTerm'[n] = m.term /\ state'[n] = "Follower"
        /\ loop'[n] = "follower"
    BY <1>3, <1>10 DEF TypeOK, LoopOf
  <2>2. VoteInv'
    <3>1. CASE grant
      BY <1>1, <1>3, <1>10, <3>1, NewTermVotes DEF CampaignInv
    <3>2. CASE ~grant
      BY <1>1, <1>3, <1>10, <3>2, NewTermVotes DEF CampaignInv
    <3> QED BY <3>1, <3>2
  <2>3. RoleInv'
    <3> SUFFICES ASSUME NEW p \in Server
          PROVE  /\ state'[p] = "Candidate" <=> loop'[p] = "candidate"
                 /\ state'[p] = "Leader" => loop'[p] \in {"starting", "leader"}
                 /\ state'[p] # "Follower" => votedFor'[p] = p
                 /\ loop'[p] = "candidate" =>
                      /\ electionTerm'[p] = currentTerm'[p]
                      /\ \A x \in net' : ~IsCallOf(p, x)
      BY <1>7 DEF RoleInv
    <3>1. CASE p = n
      BY <2>1, <3>1
    <3>2. CASE p # n
      BY <1>8, <1>9, <3>2 DEF CampaignInv, RoleInv
    <3> QED BY <3>1, <3>2
  <2>4. RecordInv'
    BY <1>3, <1>4, <1>5, <1>9, <2>1 DEF CampaignInv, RecordInv
  <2> QED BY <2>2, <2>3, <2>4 DEF CampaignInv
<1>11. CASE ~newer
  <2>1. term = currentTerm[n] /\ role = state[n] /\ vote = votedFor[n]
    BY <1>11
  <2>2. /\ currentTerm' = currentTerm /\ state'[n] = state[n]
        /\ loop'[n] = LoopOf(state[n])
        /\ votedFor'[n] = IF grant THEN m.from ELSE votedFor[n]
        /\ electionTerm'[n] = IF LoopOf(state[n]) = "candidate" THEN electionTerm[n] ELSE 0
        /\ votes'[n] = IF LoopOf(state[n]) = "candidate" THEN votes[n] ELSE {}
    BY <1>3, <2>1 DEF TypeOK
  <2>3. grant => votedFor[n] \in {None, m.from} /\ m.term = currentTerm[n]
    BY <1>6, <2>1 DEF VoteFree
  <2>4. VoteInv'
    <3>1. CASE grant
      BY <1>1, <1>3, <2>1, <2>2, <2>3, <3>1, CastVote DEF CampaignInv
    <3>2. CASE ~grant
      <4>1. votedFor' = votedFor /\ ballots' = ballots
        BY <1>3, <2>1, <3>2 DEF TypeOK
      <4> QED BY <1>3, <2>2, <4>1, VotesUnchanged DEF CampaignInv
    <3> QED BY <3>1, <3>2
  <2>5. RoleInv'
    <3> SUFFICES ASSUME NEW p \in Server
          PROVE  /\ state'[p] = "Candidate" <=> loop'[p] = "candidate"
                 /\ state'[p] = "Leader" => loop'[p] \in {"starting", "leader"}
                 /\ state'[p] # "Follower" => votedFor'[p] = p
                 /\ loop'[p] = "candidate" =>
                      /\ electionTerm'[p] = currentTerm'[p]
                      /\ \A x \in net' : ~IsCallOf(p, x)
      BY <1>7 DEF RoleInv
    <3>1. CASE p = n
      <4>1. /\ state[n] = "Candidate" => loop[n] = "candidate"
            /\ state[n] # "Follower" => votedFor[n] = n
            /\ loop[n] = "candidate" => /\ electionTerm[n] = currentTerm[n]
                                        /\ \A x \in net : ~IsCallOf(n, x)
        BY DEF CampaignInv, RoleInv
      <4>2. state[n] # "Follower" => votedFor'[n] = n
        BY <2>2, <2>3, <4>1, NoneAssumption
      <4>3. /\ LoopOf(state[n]) = "candidate" <=> state[n] = "Candidate"
            /\ state[n] = "Leader" => LoopOf(state[n]) = "leader"
        BY <1>2 DEF LoopOf, States
      <4> QED BY <1>8, <2>2, <3>1, <4>1, <4>2, <4>3
    <3>2. CASE p # n
      BY <1>8, <1>9, <3>2 DEF CampaignInv, RoleInv
    <3> QED BY <3>1, <3>2
  <2>6. RecordInv'
    <3>1. LoopOf(state[n]) = "candidate" => loop[n] = "candidate"
      BY <1>2 DEF LoopOf, States, CampaignInv, RoleInv
    <3>2. \A p \in Server : loop'[p] = "candidate" =>
             \A v \in votes'[p] : <<currentTerm'[p], v, p>> \in ballots'
      BY <1>3, <1>9, <2>2, <3>1 DEF CampaignInv, RecordInv
    <3>3. \A x \in net' : x.type = "Vote" /\ x.granted =>
             <<x.call, x.from, x.to>> \in ballots'
      BY <1>3, <1>4, <1>5 DEF CampaignInv, RecordInv
    <3>4. \A p \in Server : state'[p] = "Leader" => <<currentTerm'[p], p>> \in leaders'
      BY <1>3, <1>9, <2>2 DEF CampaignInv, RecordInv
    <3>5. \A x \in net' : x.type = "AppendEntries" =>
             <<x.term, x.from>> \in leaders' /\ x.from # x.to
      BY <1>3, <1>4, <1>5 DEF CampaignInv, RecordInv
    <3> QED BY <3>2, <3>3, <3>4, <3>5 DEF RecordInv
  <2> QED BY <2>4, <2>5, <2>6 DEF CampaignInv
<1> QED BY <1>10, <1>11

LEMMA ElectionHandleAppendEntries ==
    ASSUME TypeOK, CampaignInv, NEW n \in Server, NEW m \in net,
           HandleAppendEntries(n, m)
    PROVE  CampaignInv'
<1>1. /\ m \in AppendEntriesReq /\ m.from \in Server /\ m.term \in Nat
      /\ m.type = "AppendEntries" /\ m.to = n
      /\ ballots' = ballots /\ leaders' = leaders
  BY MessageFields DEF HandleAppendEntries
<1>2. currentTerm[n] \in Nat /\ state[n] \in States /\ loop[n] \in Selecting
  BY DEF TypeOK, HandleAppendEntries
<1>3. <<m.term, m.from>> \in leaders /\ m.from # n
  BY <1>1 DEF CampaignInv, RecordInv
<1>4. m.live => loop[m.from] # "candidate"
  BY <1>1 DEF CampaignInv, RoleInv, IsCallOf
\* only the answer is new, and it goes to a node that is no candidate
<1>5. \A x \in net' : x \in net \/ (x.type = "Appended" /\ x.to = m.from /\ m.live)
  <2>1. \A t, ok, ct, ci : /\ AppendResponse(n, m, t, ok, ct, ci).type = "Appended"
                           /\ AppendResponse(n, m, t, ok, ct, ci).to = m.from
    BY DEF AppendResponse
  <2>2. \A r : Reply(n, m, r) => \A x \in net' : x \in net \/ (x = r /\ m.live)
    BY DEF Reply, DropVotes
  <2>3. CASE RejectStaleLeader(n, m)
    <3>1. \A x \in net' : x \in net \/
             (x = AppendResponse(n, m, currentTerm[n], FALSE, 0, 0) /\ m.live)
      BY <2>3 DEF RejectStaleLeader, DropVotes
    <3>2. /\ AppendResponse(n, m, currentTerm[n], FALSE, 0, 0).type = "Appended"
          /\ AppendResponse(n, m, currentTerm[n], FALSE, 0, 0).to = m.from
      BY DEF AppendResponse
    <3> QED BY <3>1, <3>2
  <2>4. CASE \E t, ok, ct, ci : Reply(n, m, AppendResponse(n, m, t, ok, ct, ci))
    BY <2>1, <2>2, <2>4
  <2> QED
    BY <2>3, <2>4 DEF HandleAppendEntries, RejectShortLog, RejectConflict,
                      StoreEntries, StoreFails
<1>6. \A p \in Server : \A x : IsCallOf(p, x)' <=> IsCallOf(p, x)
  BY DEF IsCallOf
<1>7. \A p \in Server : loop[p] = "candidate" => \A x \in net' : ~IsCallOf(p, x)
  BY <1>4, <1>5 DEF CampaignInv, RoleInv, IsCallOf
<1>8. /\ \A x \in net' : x.type = "Vote" => x \in net
      /\ \A x \in net' : x.type = "AppendEntries" => x \in net
  BY <1>5
<1>9. CASE RejectStaleLeader(n, m)
  <2>1. /\ loop' = [loop EXCEPT ![n] = LoopOf(state[n])]
        /\ electionTerm' = [electionTerm EXCEPT ![n] =
                              IF state[n] = "Candidate" THEN @ ELSE 0]
        /\ votes' = [votes EXCEPT ![n] = IF state[n] = "Candidate" THEN @ ELSE {}]
        /\ UNCHANGED <<currentTerm, votedFor, state>>
    BY <1>9 DEF RejectStaleLeader, persistentVars
  <2>2. VoteInv'
    BY <1>1, <2>1, VotesUnchanged DEF CampaignInv
  <2>3. /\ LoopOf(state[n]) = "candidate" <=> loop[n] = "candidate"
        /\ state[n] = "Leader" => LoopOf(state[n]) = "leader"
    BY <1>2 DEF LoopOf, States, CampaignInv, RoleInv
  <2>4. \A p \in Server : /\ loop'[p] = "candidate" <=> loop[p] = "candidate"
                          /\ state[p] = "Leader" => loop'[p] \in {"starting", "leader"}
    BY <2>1, <2>3 DEF TypeOK, CampaignInv, RoleInv
  <2>5. \A p \in Server : loop[p] = "candidate" => /\ electionTerm'[p] = electionTerm[p]
                                                   /\ votes'[p] = votes[p]
    BY <2>1 DEF TypeOK, CampaignInv, RoleInv
  <2>6. RoleInv'
    BY <1>6, <1>7, <2>1, <2>4, <2>5 DEF CampaignInv, RoleInv
  <2>7. RecordInv'
    BY <1>1, <1>8, <2>1, <2>4, <2>5 DEF CampaignInv, RecordInv
  <2> QED BY <2>2, <2>6, <2>7 DEF CampaignInv
<1>10. CASE FollowLeader(n, m)
  <2>1. /\ currentTerm' = [currentTerm EXCEPT ![n] = m.term]
        /\ votedFor' = [votedFor EXCEPT ![n] =
              IF m.term > currentTerm[n] \/ state[n] # "Follower" THEN None ELSE @]
        /\ state'    = [state EXCEPT ![n] = "Follower"]
        /\ loop'     = [loop EXCEPT ![n] = "follower"]
        /\ electionTerm' = [electionTerm EXCEPT ![n] = 0]
        /\ votes'        = [votes EXCEPT ![n] = {}]
        /\ m.term >= currentTerm[n]
    <3>1. CASE m.term > currentTerm[n] \/ state[n] # "Follower"
      BY <1>10, <3>1 DEF FollowLeader
    <3>2. CASE ~(m.term > currentTerm[n] \/ state[n] # "Follower")
      <4>1. votedFor' = votedFor
        BY <1>10, <3>2 DEF FollowLeader
      <4>2. votedFor = [votedFor EXCEPT ![n] = @]
        BY DEF TypeOK
      <4> QED BY <1>10, <3>2, <4>1, <4>2 DEF FollowLeader
    <3> QED BY <3>1, <3>2
  <2>2. VoteInv'
    <3>1. CASE m.term > currentTerm[n]
      BY <1>1, <2>1, <3>1, NewTermVotes DEF CampaignInv
    <3>2. CASE ~(m.term > currentTerm[n])
      <4>1. m.term = currentTerm[n]
        BY <1>1, <1>2, <2>1, <3>2
      <4>2. currentTerm' = currentTerm
        BY <2>1, <4>1 DEF TypeOK
      <4>3. CASE state[n] = "Follower"
        <5>1. votedFor' = votedFor
          BY <2>1, <3>2, <4>3 DEF TypeOK
        <5> QED BY <1>1, <4>2, <5>1, VotesUnchanged DEF CampaignInv
      <4>4. CASE state[n] # "Follower"
        <5>1. votedFor[n] = n
          BY <4>4 DEF CampaignInv, RoleInv
        <5>2. votedFor' = [votedFor EXCEPT ![n] = None]
          BY <2>1, <4>4
        <5> QED BY <1>1, <1>3, <4>1, <4>2, <5>1, <5>2, ForgetVote DEF CampaignInv
      <4> QED BY <4>3, <4>4
    <3> QED BY <3>1, <3>2
  <2>3. \A p \in Server : p # n => /\ state'[p] = state[p] /\ loop'[p] = loop[p]
                                   /\ electionTerm'[p] = electionTerm[p]
                                   /\ votes'[p] = votes[p]
                                   /\ currentTerm'[p] = currentTerm[p]
                                   /\ votedFor'[p] = votedFor[p]
    BY <2>1 DEF TypeOK
  <2>4. state'[n] = "Follower" /\ loop'[n] = "follower"
    BY <2>1 DEF TypeOK
  <2>5. RoleInv'
    BY <1>6, <1>7, <2>3, <2>4 DEF CampaignInv, RoleInv
  <2>6. RecordInv'
    BY <1>1, <1>8, <2>3, <2>4 DEF CampaignInv, RecordInv
  <2> QED BY <2>2, <2>5, <2>6 DEF CampaignInv
<1> QED BY <1>9, <1>10 DEF HandleAppendEntries

LEMMA ElectionCrash ==
    ASSUME ~StateFaults, StoreInv, TypeOK, CampaignInv,
           NEW n \in Server, NEW disk \in OnDisk(n), Crash(n, disk)
    PROVE  CampaignInv'
<1>1. disk[1] \in Nat /\ disk[2] \in Server \cup {None}
  BY OnDiskType
<1>2. /\ currentTerm' = [currentTerm EXCEPT ![n] = disk[1]]
      /\ votedFor' = [votedFor EXCEPT ![n] = disk[2]]
      /\ state' = [state EXCEPT ![n] = "Follower"]
      /\ loop' = [loop EXCEPT ![n] = "down"]
      /\ electionTerm' = [electionTerm EXCEPT ![n] = 0]
      /\ votes' = [votes EXCEPT ![n] = {}]
      /\ UNCHANGED <<ballots, leaders>>
  BY DEF Crash
<1>3. currentTerm[n] \in Nat
  BY DEF TypeOK
<1>4. VoteInv'
  <2>1. CASE disk[1] > currentTerm[n]
    BY <1>1, <1>2, <2>1, NewTermVotes DEF CampaignInv
  <2>2. CASE disk = <<currentTerm[n], votedFor[n]>>
    <3>1. currentTerm' = currentTerm /\ votedFor' = votedFor
      BY <1>2, <2>2 DEF TypeOK
    <3> QED BY <1>2, <3>1, VotesUnchanged DEF CampaignInv
  <2>3. CASE \E m \in net : /\ m.to = n /\ m.type = "AppendEntries"
                            /\ m.term = currentTerm[n] /\ state[n] # "Follower"
                            /\ disk = <<m.term, None>>
    <3>1. PICK m \in net : /\ m.to = n /\ m.type = "AppendEntries"
                           /\ m.term = currentTerm[n] /\ state[n] # "Follower"
                           /\ disk = <<m.term, None>>
      BY <2>3
    <3>2. <<currentTerm[n], m.from>> \in leaders /\ m.from # n /\ m.from \in Server
      BY <3>1, MessageFields DEF CampaignInv, RecordInv
    <3>3. votedFor[n] = n
      BY <3>1 DEF CampaignInv, RoleInv
    <3>4. currentTerm' = currentTerm /\ votedFor' = [votedFor EXCEPT ![n] = None]
      BY <1>2, <3>1 DEF TypeOK
    <3> QED BY <1>2, <3>2, <3>3, <3>4, ForgetVote DEF CampaignInv
  <2>4. \/ disk[1] > currentTerm[n]
        \/ disk = <<currentTerm[n], votedFor[n]>>
        \/ \E m \in net : /\ m.to = n /\ m.type = "AppendEntries"
                          /\ m.term = currentTerm[n] /\ state[n] # "Follower"
                          /\ disk = <<m.term, None>>
    <3>1. stored[n] = <<currentTerm[n], votedFor[n]>>
      BY DEF StoreInv
    <3>2. /\ stored[n] = <<currentTerm[n], votedFor[n]>>
          /\ stored[n][2] = votedFor[n]
      BY <3>1
    <3>3. \A m \in net : m.term \in Nat
      BY MessageFields
    <3> QED BY <1>3, <3>2, <3>3 DEF OnDisk
  <2> QED BY <2>1, <2>2, <2>3, <2>4
<1>5. NoNewCalls
  <2> SUFFICES ASSUME NEW x \in net'
               PROVE  /\ \A p \in Server : IsCallOf(p, x) => x \in net
                      /\ x.type = "Vote" => x \in net
                      /\ x.type = "AppendEntries" =>
                           \E y \in net : /\ y.type = "AppendEntries"
                                          /\ y.term = x.term /\ y.from = x.from
                                          /\ y.to = x.to
    BY DEF NoNewCalls
  <2>1. PICK m \in net : x = m \/ x = Orphan(m)
    BY DEF Crash
  <2>2. m \in Message
    BY DEF TypeOK
  <2>3. CASE x = m
    BY <2>3
  <2>4. CASE x = Orphan(m)
    <3>1. /\ \A p \in Server : IsCallOf(p, Orphan(m)) => m = Orphan(m)
          /\ Orphan(m).type = "Vote" => m = Orphan(m)
      BY <2>2, OrphanCalls, ServerAssumption
    <3>2. /\ \A p \in Server : IsCallOf(p, x) => x = m
          /\ x.type = "Vote" => x = m
      BY <2>4, <3>1, Zenon
    <3>3. x.type = m.type /\ x.from = m.from /\ x.to = m.to /\ x.term = m.term
      BY <2>2, <2>4, OrphanType
    <3> QED BY <3>2, <3>3
  <2> QED BY <2>1, <2>3, <2>4
<1>6. \A p \in Server : p # n => /\ state'[p] = state[p] /\ loop'[p] = loop[p]
                                 /\ electionTerm'[p] = electionTerm[p]
                                 /\ votes'[p] = votes[p]
                                 /\ currentTerm'[p] = currentTerm[p]
                                 /\ votedFor'[p] = votedFor[p]
  BY <1>2 DEF TypeOK
<1>7. state'[n] = "Follower" /\ loop'[n] = "down"
  BY <1>2 DEF TypeOK
<1>8. RoleInv'
  <2>1. \A p \in Server : (\A x \in net : ~IsCallOf(p, x))
                            => (\A x \in net' : ~IsCallOf(p, x))
    BY <1>5 DEF NoNewCalls
  <2>2. \A p \in Server : \A x : IsCallOf(p, x)' <=> IsCallOf(p, x)
    BY DEF IsCallOf
  <2> QED BY <1>6, <1>7, <2>1, <2>2 DEF CampaignInv, RoleInv
<1>9. RecordInv'
  BY <1>2, <1>5, <1>6, <1>7 DEF NoNewCalls, CampaignInv, RecordInv
<1> QED BY <1>4, <1>8, <1>9 DEF CampaignInv

-----------------------------------------------------------------------------
LEMMA ElectionNext ==
    ASSUME "StaleReply" \notin Races, ~StateFaults, TypeOK, ElectionInv, [Next]_vars
    PROVE  ElectionInv'
<1> SUFFICES CampaignInv'
  BY StoreNext DEF ElectionInv, CampaignInv
<1>0. CampaignInv /\ StoreInv
  BY DEF ElectionInv, CampaignInv
<1>1. CASE UNCHANGED vars
  <2>1. UNCHANGED <<currentTerm, votedFor, state, loop, electionTerm, votes,
                    ballots, leaders, net>>
    BY <1>1 DEF vars
  <2>2. NoNewCalls
    BY <2>1 DEF NoNewCalls
  <2>3. \A p \in Server : state[p] = "Leader" => loop[p] \in {"starting", "leader"}
    BY <1>0 DEF CampaignInv, RoleInv
  <2> QED BY <1>0, <2>1, <2>2, <2>3, Quiet
<1>2. ASSUME NEW n \in Server, StartElection(n) PROVE CampaignInv'
  BY <1>0, <1>2, ElectionStartElection
<1>3. ASSUME NEW n \in Server, LeaveElection(n) PROVE CampaignInv'
  BY <1>0, <1>3, ElectionLeaveElection
<1>4. ASSUME NEW n \in Server, AppendNoOp(n) PROVE CampaignInv'
  BY <1>0, <1>4, ElectionAppendNoOp
<1>5. ASSUME NEW n \in Server, NEW v \in Value, HandleApplyRequest(n, v)
      PROVE  CampaignInv'
  BY <1>0, <1>5, ElectionHandleApplyRequest
<1>6. ASSUME NEW n \in Server, RefuseApplyRequest(n) PROVE CampaignInv'
  BY <1>0, <1>6, ElectionRefuseApplyRequest
<1>7. ASSUME NEW n \in Server, NEW p \in Server, ReplicateOnce(n, p)
      PROVE  CampaignInv'
  BY <1>0, <1>7, ElectionReplicateOnce
<1>8. ASSUME NEW n \in Server, NEW disk \in OnDisk(n), Crash(n, disk)
      PROVE  CampaignInv'
  BY <1>0, <1>8, ElectionCrash
<1>9. ASSUME NEW n \in Server, Restart(n) PROVE CampaignInv'
  BY <1>0, <1>9, ElectionRestart
<1>10. ASSUME NEW m \in net, \/ HandleRequestVote(m.to, m) \/ HandleVote(m.to, m)
                             \/ HandleAppendEntries(m.to, m)
                             \/ HandleAppendEntriesResponse(m.to, m)
       PROVE  CampaignInv'
  <2>1. m.to \in Server
    BY MessageFields
  <2> QED
    BY <1>0, <1>10, <2>1, ElectionHandleRequestVote, ElectionHandleVote,
       ElectionHandleAppendEntries, ElectionHandleAppendEntriesResponse
<1>11. ASSUME NEW m \in net, CallFails(m) PROVE CampaignInv'
  BY <1>0, <1>11, ElectionCallFails
<1> QED
  BY <1>1, <1>2, <1>3, <1>4, <1>5, <1>6, <1>7, <1>8, <1>9, <1>10, <1>11 DEF Next

\* Leaders keep a majority that never votes for another node in their term, in
\* every cluster whose replicators end with their leadership and whose stable
\* stores fail no write.
THEOREM ElectionInvariant ==
    ASSUME "StaleReply" \notin Races, ~StateFaults
    PROVE  Spec => []ElectionInv
<1>1. TypeOK /\ ElectionInv /\ [Next]_vars => ElectionInv'
  BY ElectionNext
<1> QED BY <1>1, ElectionInit, TypeCorrect, PTL DEF Spec

\* At most one node ever becomes leader of a term, in every cluster whose
\* replicators end with their leadership and whose stable stores fail no write
\* (the errors that raft.go:650-655 ignores do not happen): although stepDown
\* forgets the vote of a candidate in the middle of its term, and although a
\* crash may tear the term from the vote on disk.
THEOREM ElectionSafe ==
    ASSUME "StaleReply" \notin Races, ~StateFaults
    PROVE  Spec => []ElectionSafety
<1>1. ElectionInv => ElectionSafety
  BY OneLeaderPerTerm DEF ElectionInv, VoteInv
<1> QED BY <1>1, ElectionInvariant, PTL

=============================================================================
