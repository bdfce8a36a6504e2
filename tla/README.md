# A verification project for the collaborative editor

The repository is a collaborative text editor in Go. Browsers send *changesets*
over WebSockets to the leader of a Raft cluster; the leader appends them to the
replicated log; every node applies committed entries to a document, after
rebasing them with operational transformation (OT); and the leader tells the
browsers what was committed, so that they rebase what their users have typed in
the meantime.

This directory holds TLA+ models of the program, TLC configurations that check
them on small instances and proofs that TLAPS checks. `PROJECT.json` lists, for
every definition that models code, the lines it stands for.

* [The system](#the-system)
* [Modules](#modules)
* [How Raft.tla corresponds to the code](#how-rafttla-corresponds-to-the-code)
* [How ApplyPipeline.tla corresponds to the code](#how-applypipelinetla-corresponds-to-the-code)
* [How OT.tla corresponds to the code](#how-ottla-corresponds-to-the-code)
* [How Document.tla and Session.tla correspond to the code](#how-documenttla-and-sessiontla-correspond-to-the-code)
* [Runs](#runs)
* [Fairness](#fairness)
* [Proofs](#proofs)
* [What the models say about the code](#what-the-models-say-about-the-code)
* [What is not modelled](#what-is-not-modelled)
* [Plan](#plan)

## The system

| Part | Code | State | Operations | What makes it correct |
|---|---|---|---|---|
| Elections | `internal/raft/election.go`, `raft.go` | currentTerm, votedFor (on disk), state, leaderID, votes counted | startElection, handleRequestVote, runCandidate, stepDown | one leader per term, through crashes in the middle of `persistState` and writes of it that fail; a leader has all committed entries |
| Log replication | `internal/raft/replication.go` | log (on disk), commitIndex, per peer nextIndex and matchIndex, calls in flight | replicateOnce, handleAppendEntries, advanceCommitIndex, back-up after a conflict | Log Matching; nothing committed is lost; followers catch up |
| Main loop, start | `raft.go` | which of runFollower, runCandidate, runLeader the main goroutine is in | timers, role changes, NewRaftNode | role and loop agree when it matters; a running majority can elect |
| Proposals and apply loop | `raft.go`, `future.go` | applyCh, pending futures by index, lastApplied | Apply, handleApplyRequest, applyCommitted | a future reports the entry it was created for, or fails; entries are applied once and in order |
| Transport | `transport.go`, `inmem.go` | one call per peer and replicator | SendRequestVote, SendAppendEntries | may lose, delay and abandon calls |
| Stores | `internal/store/boltstore.go`, `inmem.go` | term and vote, log entries | SetUint64/Set, StoreLogs, DeleteRange, GetLog | a write survives a crash, or fails; the term and the vote, like DeleteRange and StoreLogs, are two transactions |
| OT | `internal/ot/*.go`, same functions in `web/client.js` | none: pure functions | ApplyChangeset, Compose, Follow, DiffToChangeset, Validate | Follow converges; Compose is sequential application; results are canonical and valid |
| Document state machine | `internal/fsm/fsm.go` | text, revisions, last submission of every client | Apply, RevisionsSince, onCommit callback | deterministic on all nodes; a resent submission has no second effect |
| WebSocket server | `internal/server/websocket.go` | connected clients and their send queues | handleConnect, handleSubmit, onCommit, removeClient | an ACK or BROADCAST for every revision, in order, to every client |
| Browser client | `web/client.js` | A, X, Y (acknowledged, sent, typed), revision, connection | submitTick, handleAck, handleBroadcast, reconnect and catch-up | the screen shows A·X·Y; all clients converge |
| Cluster set-up, binary | `server/cluster.go`, `cmd/server/main.go` | peers, addresses | flags, HTTP handlers, wiring | — |

How they interact. A node has one *main goroutine*, which serves RPCs from the
transport and client proposals while it is in one of three loops; as leader, one
*replicator* goroutine per peer; and an *apply loop*, which hands committed
entries to the state machine. They share the `RaftNode` fields under one mutex.
The state machine calls the WebSocket server back, in a new goroutine per entry.
Browsers and server exchange messages over connections that come and go.

What is hard, in this order:

1. the main goroutine reads its role only at the head of its loop, and
   replicators change it in between; replicators outlive their leadership for
   as long as their last call takes;
2. calls are abandoned on a timeout and may still arrive, after later ones;
3. crashes between two writes, and writes that fail: the term and the vote, and the
   deletion of a conflicting suffix and the entries that replace it;
4. ties and splits in the OT functions, which run on the server and in browsers and
   must give the same text everywhere;
5. commit callbacks in goroutines of their own, a registration of clients that is
   not atomic with what they are told, full send queues;
6. a page that reconnects, resends and catches up while its submission may be
   anywhere between the browser and the log.

`PROJECT.json` lists these under `hazards`, each at its line.

## Modules

| Module | Contents |
|---|---|
| `Raft` | elections, replication, main loop, crashes and network, and their properties |
| `ReplicatedLog` | what Raft promises: a sequence that only grows, of which every node learns prefixes |
| `MCRaft` | two or three nodes, symmetry and views for TLC |
| `MCRaftRecovery` | the same from a leader elected after a history of conflicting logs |
| `RaftProofs` | type correctness, proved |
| `ElectionProofs` | the election invariant and Election Safety, proved |
| `LogProofs` | terms, roles, hints and the order of terms in logs, proved with both races open; the logs of all leaders and Log Matching, proved |
| `CommitProofs` | durability, Leader Completeness, State Machine Safety, `matchIndex` and the refinement of `ReplicatedLog`, proved |
| `ApplyPipeline` | from `Apply()` to the state machine on one node: request channel, futures, leader's loop, apply loop |
| `MCApply` | the same with interchangeable callers |
| `ApplyProofs` | the invariant of the pipeline and three safety properties, proved |
| `Document` | the document state machines of all nodes over the committed entries: deduplication, revisions, callbacks, unreadable entries, restarts |
| `DocumentProofs` | replicas agree, submissions are applied once and base revisions exist, proved |
| `Session` | WebSocket servers and browser pages over `Document`: connecting, submitting, answers, redirects, reconnections |
| `SessionProofs` | types, the registry of connections and the refinement of `Document`, proved |
| `PageProofs` | pages have the server's text, agree when nothing is under way and lose nothing, proved |
| `MCSession` | two pages and two nodes, and the bound on what is followed |
| `OT` | changesets and all functions on them, of the server and of the browser |
| `MCOT` | all concurrent edits of small documents, and all texts a user may have typed between two ticks of the submission timer |

## How Raft.tla corresponds to the code

**Granularity.** `r.mu` is held for the whole of every handler, so a handler is
one step. Where the program releases the mutex the model has two steps: the
request and the answer of a call; the win of an election and `appendNoOp`
(loop value `"starting"`). The pieces that are merged are the ones between which
only the node's own main goroutine could act: the election timer with
`startElection`, the handler of an RPC with the loop-head check after it, and
the win with the start of `runLeader` up to the replicators. An RPC that comes
between the timer and `startElection` is queued in the transport's channel,
which is the same as one that arrives later.

**Two views of the role.** `state[n]` is `r.state`; `loop[n]` is the loop in
which the main goroutine is. Handlers of RPCs, votes and proposals run in the
main goroutine, which passes the loop head afterwards, so they leave the two in
agreement (`LoopOf`). `HandleAppendEntriesResponse` is a replicator's step and
changes `state` alone. What follows from the disagreement — a candidate that
counts votes of an earlier term, a leader that has been deposed and waits in a
select without an election timer — is in the model because it is in the program.

| Action | Code |
|---|---|
| `StartElection` | timer branches of runFollower and runCandidate, startElection, the head of runCandidate with its check for a cluster of one |
| `LeaveElection` | runCandidate's timer when a replicator has already changed the role |
| `HandleRequestVote` | handleRequestVote, processRPC, stepDown |
| `HandleVote` | the vote branch of runCandidate |
| `AppendNoOp` | runLeader after the replicators were started |
| `HandleApplyRequest`, `RefuseApplyRequest` | the applyCh branch of runLeader, as far as it concerns the log |
| `ReplicateOnce` | replicateOnce up to the call |
| `HandleAppendEntries` = `RejectStaleLeader`, or `FollowLeader` and one of `RejectShortLog`, `RejectConflict`, `StoreEntries`, `StoreFails` | handleAppendEntries |
| `HandleAppendEntriesResponse` | replicateOnce after the call, advanceCommitIndex |
| `CallFails` | a call that is lost or abandoned |
| `Crash`, `Restart` | the end of the process; NewRaftNode and Start |

**Messages** are elements of the set `net`, so any order is possible. A failed
call of `RequestVote` is a message that never arrives. A replicator waits for
its call, so it has at most one *live* request; after a timeout the request may
stay under way with `live = FALSE`, and nobody hears the answer. Messages are
not duplicated, since nothing in the transports sends one twice.

**The stable store.** `stored[n]` is the term and the vote on the disk, `currentTerm`
and `votedFor` what the node acts on. `Persist` is persistState, with which every
handler that changes them ends: two writes, each of which may fail if `StateFaults` is
TRUE, in which case that field keeps what it held. The error is logged and the handler
goes on (`raft.go:650-655`), so the node votes or stands for election all the same. Without
`StateFaults` the store always holds the current term and vote (`StoreInv`). Election
Safety, and with it the whole argument for the log, needs that: with failing
writes it is violated ([see below](#what-the-models-say-about-the-code)). So `ElectionSafety`, `ElectionInv`,
`LogTermsOrdered`, `LogMatching` and what rests on them are checked and proved
*for stable stores that fail no write*. Failing writes of the log store are included
everywhere (`DiskFaults`).

**Crashes.** `OnDisk(n)` is what the disk may hold when the process dies: `stored[n]`,
or, in the middle of a handler that calls persistState, what its writes so far have made
of it: a new term with the old vote (startElection, stepDown or a vote, between the two
writes), or a new term without a vote (after stepDown, before the handler grants a vote
or goes on). Crashes in the middle of the log's writes are failures of `StoreFails`
followed by a crash. `commitIndex` restarts at 0, as in NewRaftNode.

**Reads** of the log store do not fail in `Raft`. In the code an error of `GetLog` makes
replicateOnce send a shorter list or a `prevLogTerm` of 0 (`replication.go:88,104`),
handleAppendEntries answer without conflict information or take an entry for missing
(`280,289,304`), and lastLogInfo take the log for an empty one (`raft.go:706-713`). None
of this is modelled; where the state machine depends on a failing read, it is
(`SkipEntry` of `ApplyPipeline` and `Document`).

**Races.** Two windows of the program are parameters, so that properties can be
checked, and proved, with and without them. `"EarlyReply"`: a replicator
processes an answer before `appendNoOp` ran. `"StaleReply"`: a replicator of an
ended leadership still waits for its answer when the node starts its next
election; in the code this takes an RPC that is slower than an election timeout,
which the transport's own timeouts allow. Both are in the program, and what it
does with them open is the subject of `RaftRaces`, `RaftStaleReply` and
`RaftEarlyReply`.

**History variables.** `ballots` (votes cast), `leaders` (elections won) and
`committed` (the longest log any node has taken for committed) are read by
properties only.

**Abstracted.** Log entries are a term and a value. Time is absent: a timer may
fire whenever its branch of the select is taken. The apply loop, futures and
`lastApplied` do not influence the log; they are in `ApplyPipeline`.

## How ApplyPipeline.tla corresponds to the code

The module follows one node, because futures and the apply loop are local to a
process. Four kinds of goroutines take turns: callers of `Apply` and their
timeouts, the main goroutine in or outside `runLeader` (`loop`), the replicators,
and the apply loop.

| Action | Code |
|---|---|
| `Apply`, `Send`, `TimeoutCall` | Apply: the look at the role, the send on `applyCh`, the two timers and the shutdown branch |
| `BecomeLeader` | the win and the head of runLeader with appendNoOp |
| `HandleApplyRequest` = `AppendCommand`, `AppendFails` or `RefuseCommand` | the applyCh branch of runLeader, handleApplyRequest |
| `LeaveLoop`, `FailPendingFutures` | the ways out of runLeader; the futures are failed in a step of its own, since r.mu is free in between |
| `Commit`, `Depose` | replicators: advanceCommitIndex, stepDown |
| `HandleRequestVote`, `HandleAppendEntries` | the handlers, as far as this node's term, role, log and commitIndex are concerned |
| `Wake`, `ApplyEntry`, `SkipEntry`, `RecordEntry` | applyLoop and applyCommitted |
| `Shutdown`, `CrashAndRestart` | Shutdown; the end of the process and NewRaftNode, with a fresh state machine |
| `WinAfterShutdown` | runCandidate, whose select may take the winning vote although shutdownCh is closed: the role is Leader again, but run() ends (loop value `"ended"`) and nobody enters runLeader |

`ApplyEntry` and `RecordEntry` are two steps because `GetLog` and `fsm.Apply` run
without `r.mu`: a handler may rewrite the log, the leader may be deposed and
futures may be failed in between. `GetLog` and `fsm.Apply` are one step: entries
up to the commit index that the loop has read do not change (`CommitInv`), so it
does not matter when exactly they are read. `Wake` joins the receipt of the token
with the read of `commitIndex`; a commit between the two would leave another
token, as one after them does. `SkipEntry` is the `continue` after a failed
`GetLog`; the next entry moves `lastApplied` past it, so it is never tried again in
this life, unless it was the last of its round (history variable `failed`).

The rest of the cluster is an environment: a leadership may begin or end at any
time, another leader may replace every entry that is not committed and may commit
whatever the log then holds, and a replicator, which does not look at the role,
commits an index of the current term or takes over a later term.
These are the steps that `Raft` allows on one node: committed entries stay
(`ImplementsReplicatedLog`), and nobody else leads a term that this node has led
(`ElectionSafety`, history variable `led`). The two races of `Raft` break
these two assumptions, so the results here are for their absence; the win and the
no-op are one step for the same reason.

What is proved is therefore about the pipeline and not about Raft: that futures,
channel and apply loop are right *given* a log that behaves.

## How OT.tla corresponds to the code

A text is a sequence of numbers, an op a record of type, length and text, a
changeset the record `oldLen`, `newLen`, `ops`. `AddOp` merges neighbours of one type
as addOp does, and drops nothing: that no op of length 0 gets that far is for
`ResultsValid` to show. `Follow`, `Compose` and `ApplyChangeset` are the loops of
the code as recursive operators on the two lists of ops, with the same branches
in the same order; `LexLeq` is the tie-break on inserted texts. The diff follows
the table and the walk back of `DiffToChangeset`. `RebasedX`, `RebasedY` and
`ScreenDelta` are the three formulas of the browser's `handleBroadcast`. A
changeset that does not fit its text yields no result (`{}`), which stands for
the error return. Every character has width 1: that the server counts bytes and
the browser UTF-16 units is a matter of `Session` (`TypeWide`).

The reference for Follow is independent of it: `MCOT` describes an edit by which
characters stay and what is inserted in each gap, and `MergeFrom` merges two
edits gap by gap. The reference for the diff is the longest common subsequence,
computed from all subsequences.

## How Document.tla and Session.tla correspond to the code

**What a text is.** Rebasing is checked in `OT`; here a changeset is known by its
author and submission number, and a text by the changesets folded into it, in their
order. Two texts that are equal as strings but different as sequences count as
different, so agreement here is the stronger statement. Whether a changeset can be
rebased and applied depends on texts only, so an entry carries the answer (`fits`):
it fits when its page had the server's text of its base revision (what `FollowMerges`
of `OT` shows); when the page's text had gone wrong, both answers are possible, and on
a node that has missed an entry as well.

| Action of `Document` | Code |
|---|---|
| `Commit` | Raft, as the other half of the project models it |
| `ApplyEntry` | applyCommitted's call of fsm.Apply: the guard, Follow and ApplyChangeset with their error returns, the revision log, the goroutine that will call onCommit |
| `SkipEntry` | `continue` after a failed GetLog |
| `RunCallback` | the scheduler picks one of the goroutines |
| `NewSubmission` | submitTick numbers a submission |
| `RestartDocument` | a new process: NewDocumentStateMachine, and the log from the start |

`documents` is a history variable: the document that each prefix of the log amounts
to; `reached` is the greatest revision that any node has reached, in this or an earlier life, and
`unread` says that some node has failed to read an entry. `submitted` counts the submissions
that each client has made (`NewSubmission`). `DocSpec` leaves open what is committed when,
but not that a changeset is one its client has made, for a revision that some
node has reached. `Len(log)` would be too weak a bound for the latter, since duplicates and entries that do
not fit make no revision. What fsm.Apply relies on is narrower still: that the base is
not beyond the document *it* has (`fsm.go:118`). That is `BasesExist`, and holds although the
node that reached the revision may have started again, as long as no node skips an entry.
The log holds submissions only; no-ops are not given to fsm.Apply. The initial
text that a bootstrapping node proposes (`main.go:163`) is a client with one
submission and no page.

| Action of `Session` | Code |
|---|---|
| `Connect`, `Reconnect`, `OnWsClose`, `Reload` | connectToServer with onWsOpen, by hand or from handleRedirect's timer; onWsClose; a new page with the submission number from localStorage |
| `TypeAscii`, `TypeWide`, `Submit`, `Resubmit` | the user; submitTick and sendSubmit |
| `Receive` = `HandleConnectAck`, `HandleAck`, `HandleBroadcast` or `HandleRedirect` | onWsMessage |
| `Register`, `RedirectConnect`, `ReadRevisions`, `ReadText`, `ReadRev`, `SendConnectAck` | handleConnect; each lock is a step |
| `HandleSubmit` = `RedirectSubmit`, `RefuseSubmit` or `Propose` | handleSubmit |
| `RemoveClient`, `CloseChannel` | the deferred function of readPump, in its two steps |
| `OnCommit` | onCommit in its goroutine |
| `Drop` | the network, or disconnectFromServer |
| `CommitProposal`, `LoseProposal`, `ChangeLeader` | Raft: what `Raft` and `ApplyPipeline` allow. A second leader that does not know it is deposed is possible |
| `ApplyCommitted`, `Restart` | the steps of `Document`, and the end of a process with its connections |

`connectToServer` and `onWsOpen` are one step (`OpenConnection`): the new socket is open, and
CONNECT under way, at once. In the code the close event of an older socket may come
in between and clear `ws`, and CONNECT is then never sent. That takes an older socket
whose end the page has not seen, which is the situation `TwoConnections` below, in which
nothing is claimed of the page.

`outbox` joins `sendCh`, writePump and the wire, with the capacity of `sendCh` (256 in
the code, 2 in the run). An ERROR message changes nothing on the page, which only logs
it, and is left out, although it takes a place in `sendCh` until it is written. handleSubmit waits for its future, which the model does not: the
steps of other goroutines are the same, and the next message of the same page is only
read earlier than it could be. A resend within the two seconds that a first attempt
takes costs a fault, so that the model does not spend its states on impatience. Node
names stand for addresses: `grpcToWsAddr` subtracts 3920 from a port, which gives the
right address in the clusters of the repository's scripts (12000 and 8080) and is taken
as given.

**What a page does when its text has gone wrong** depends on lengths and characters, so
the model lets any subset of the edits fit (`Folded`), lets X and Y be kept or reset
(`HandleConnectAck`), and lets a submission fit or not (`SendSubmit`). That makes the
model larger than the program after the first mistake: an identity that is resent
under the old number, for instance, still counts as that edit. Statements about pages
are therefore about clients that have met none of the situations below.

**Situations that the program does not handle.** `AtRisk(c)` names them; `exposed`
collects the clients that have met one. `PagesInStep`, `QuietPagesAgree` and
`NothingLost` are about the others, which makes the list the result: *these are the
ways in which a page can lose the server's text, and there are no others*, for every value
of the bounds ([proved](#proofs) in `PageProofs`). None can be left out: with any one clause removed, TLC finds one of
the three invariants violated.

| Clause | What happens |
|---|---|
| `CommitWhileConnecting` | A page reconnects; handleConnect has registered it, and an entry that was applied before is reported now. The page is sent the revision in CONNECT_ACK and once more as BROADCAST or ACK, in either order |
| `UnconfirmedWork` | A page with a submission under way reconnects after that submission, or another, was committed: X and Y are rebased with `client.js:402`, over themselves perhaps, or reset. Or text that was typed since the last tick is in the editor only, which CONNECT_ACK overwrites (`client.js:417`) |
| `NodeBehind` | A node restarts and has not replayed its log, or a redirect leads to a node that has not applied the last entries: the page keeps its text and takes the lower revision number, and is then sent what it has |
| `TwoConnections` | The page has reconnected before the server noticed the end of the old connection: removeClient of the old one deletes the registration of the new one, and the page hears nothing more. Or the old socket's onclose comes after the new socket was made and clears it |
| `OldAnswer` | A submission was sent twice; the page is answered, submits the next one, and takes the second answer for it: an ACK names no submission |
| `missed` | A message was dropped by a full queue or overtaken by a later callback: the page folds revision r + 1 into the text of r - 1. Or the page was reloaded while it waited for an answer |
| `skipped` | The page is served by a node that has missed an entry and counts its revisions differently |

That a situation is excepted means that the three invariants say nothing of it: they do not
check what the program does there. For `UnconfirmedWork` the property `ShownOnce`, which
excepts nobody, has a run that ends in a counterexample (`SessionRebase`).

`TypeOK`, `RegisteredIsOpen`, `ReplicasAgree`, `AppliedOnce`, `BasesExist`, `ImplementsDocument` and
(up to its stated exceptions) `SubmissionsAnswered` are about all clients, exposed or
not: whatever goes wrong on a page, the replicas stay equal.

## Runs

All runs of `MCRaft` bound the elections, crashes, log length and AppendEntries
calls in flight with the constants `Max...`. `CHECK_DEADLOCK FALSE` is needed
since the bounds let a behaviour end: when the elections are used up and all
messages are consumed, nobody may do anything. In `MCOT` the scenario ends once
the last changeset is chosen, in `MCApply` a node that has been shut down has nothing left to do
once its callers are answered, and in `MCSession` users stop typing. `SYMMETRY` permutes the nodes that may start
elections. `View` and `FullView` drop what has no influence on the future: dead
vote requests and the `peers` table of a node that will rebuild it before it
reads it; `View` also drops `leaderID` and `ballots`, which no guard reads, and
is used only with properties that do not mention them.

| Run | Instance | Shows |
|---|---|---|
| `RaftElection` | 3 nodes, 2 elections, 1 crash, failing stores | `ElectionSafety`, the proofs' `ElectionInv`, `HintIsLeaderOfTerm`, `TypeOK`, `StateMachineSafety`, `LogTermsOrdered` (on which the comparison of last entries in `isLogUpToDate` rests), `TermsNeverRegress`. Two elections are what two leaders of a term need; the crash may tear the term from the vote; failing log stores may lose a suffix between DeleteRange and StoreLogs. Writes of persistState do not fail |
| `RaftCommands` | 3 nodes, 3 elections in which 2 of them stand, a client command, logs of 2 and their no-ops | `LogMatching`, `CommittedOnQuorum`, `LeaderCompleteness`, `LeaderAppendOnly` and the refinement `ImplementsReplicatedLog`. Three elections give a leader, a second with a conflicting entry, and a third that repairs the conflict, with an old entry that may sit on a majority by then. The overwriting of such an entry takes a fourth election: that the check at `replication.go:376` prevents it is shown by the theorems only (`LeadersAreComplete`, `RaftImplementsLog`). With all three nodes standing, the same properties were checked once (1.9 million states, 4 minutes) |
| `RaftRaces` | 2 nodes, both races, failing stable stores, 1 crash, 4 elections | what survives the races and lost writes of the term and the vote: `TermsNeverRegress` — a term goes back at a crash only, and only to what is stored — and `LoopServesRole`: no node holds a role outside the loop that serves it. Four elections are the fewest in which a replicator changes the term of a candidate in a cluster of two. Writes fail in the first two elections; from the third on, what is stored is what the nodes act on (`WritesCatchUp`), so that terms that went back have two more elections to do harm |
| `RaftRecovery` | 3 nodes, from every pair of old logs of up to 2 entries in 2 terms, 2 calls in flight | `ReplicationConverges`: backing up ends, logs and commit indexes become the leader's. `MatchIndexSound`: an abandoned request that arrives after a later one was stored does not take back what its follower has confirmed. Such a call is followed when it goes to the same node and the old log has at most one entry (`LateCalls`) |
| `Apply` | 2 callers, a channel of 1, 3 terms, logs of 3, 1 crash, 1 shutdown | `PendingMatchesLog`, `AppliedInOrder`, `NoLostWakeup`, `TypeOK` (which holds `applyCh` to its capacity) and the proofs' `PipelineInv`. Three terms are enough for this node to lead, be deposed, have entries replaced, and lead again with futures and requests of the first leadership around; two callers fill the channel of one |
| `OT` | all edits X and B of 3 documents of up to 2 characters, all single edits Y after X; all pairs of texts of up to 4 characters over 2 letters | `FollowMerges`, `ComposeAgrees`, `ResultsValid`, `ScreenFollowsModel`; `DiffReproduces`, `DiffMinimal`. Two characters give three gaps: ties, a tie inside a deletion, runs that are split; of the two inserted texts one is longer and smaller |
| `Session` | 2 pages, 2 nodes, a submission each, logs of 3, a queue of 2, 3 connections, 1 fault | the three invariants of pages and the five about everybody above, the refinement `ImplementsDocument` and `SubmissionsAnswered`. A fault is a lost connection, a lost proposal, a resend of what is still under way, an unreadable entry, a restart, a reload, a node that gives up its leader or leads beside another, or text beyond ASCII. Three entries are both submissions and one that is committed twice; two messages fill a queue |

The pages of `Session` start connected to the leader, as a first connection leaves them.
`Small` bounds what is followed after something went wrong: after a change of
leadership one user types, and behaviours in which a page has been exposed end with
the second commit or the change of leadership. Behaviours without an exposed client are what the three page
invariants speak of, and are cut only in the first respect. Larger instances of
the invariants that were checked once and are not runs: both users typing also after a change of leadership
and an exposure (2.3 million states), and two faults for clients that are not exposed, with
one user typing after a change of leadership (2.7 million). A
constraint also cuts the behaviours in which liveness is looked for:
`SubmissionsAnswered` is checked for the submissions that are answered within it, and its
mutant, a page that never resends, is found there.

`Apply` has 2.1 million states, `RaftElection` 0.8, `RaftCommands` and `RaftRaces` 0.6 each,
`Session` 171 thousand, `RaftRecovery` 9 thousand.

The other runs end in a counterexample, which is their point; see
[below](#what-the-models-say-about-the-code).

Each property has a mutant: an operator next to the definition it replaces
(comments start with "Mutant"), which changes it the way a plausible mistake
would, and with which TLC finds the property violated.

## Fairness

`Fairness` is what the program does again and again. A replicator sends on every
heartbeat and retries after every failure, and its calls fail by loss or
timeout, not for ever: strong fairness on `ReplicateOnce` and on the delivery of
a request or an answer (`Deliver`), because either may be disabled and enabled
many times by failing calls. The main goroutine runs: weak fairness on
`AppendNoOp`. A process that is down is started again: weak fairness on
`Restart`. An abandoned request does not stay in the network for ever: weak
fairness on `Expire`. There is no fairness on elections: that some election
succeeds depends on timing (`raft.go` draws random timeouts), which the model
does not have. Liveness is therefore stated from an elected leader on.

In `Session`, weak fairness on `Serve(c)` and on `Run(n)`. `Serve` is a page's interval
timer, its event loop and the readPumps of its connections: as long as one of them has
something to do, one of them does something. `Run` is Raft's replication of what a
leader was given, the apply loop, and the goroutines of onCommit. Nothing is assumed of
users, of the network (`Drop`), of the buttons and of elections. The fairness is per page
and per node and not per step, which is weaker. `LoseProposal` is bounded by the
faults, so a resend gets through in the end; that is the assumption that leadership does not
change for ever.

## Proofs

The theorems about `Raft` hold for every finite, non-empty set of nodes, every set
of values, and every value of the bounds. The assumptions on constants are the
four named ones in `Raft.tla`.

* `RaftProofs!TypeCorrect`: `Spec => []TypeOK`. The interesting conjunct is
  `nextIndex >= 1`: the code computes `nextIndex - 1` on an unsigned integer, a
  refusal after a failed store carries no conflict information, and the clamp in
  `replicateOnce` is what keeps the index positive. The messages need it too:
  `prevLogIndex` is a natural number because `nextIndex` is positive.
* `ElectionProofs!ElectionInvariant`: `Spec => []ElectionInv`, and
  `ElectionProofs!ElectionSafe`: `Spec => []ElectionSafety`, both under the
  assumptions that `"StaleReply"` is not in `Races` and that no write to the stable store
  fails (`~StateFaults`). Without either the statement is false (run `RaftStaleReply`,
  and `RaftElection` with `StateFaults = TRUE`).

Why Election Safety needs a proof here. Textbook Raft argues that a server votes
once per term and that two majorities meet. In this program a server *may* vote
twice in a term: a candidate that receives AppendEntries in its own term clears
`votedFor` (`stepDown`, called at `replication.go:252`) and may grant another vote.
Safety is saved by a
finer argument: this happens only once the term has a leader, and it happens
only to nodes that did not vote for that leader. So the inductive invariant
distinguishes terms that have a leader from terms that have none:

* `UndecidedInv` — in a term without a leader, every node's ballots are single
  and `votedFor` records them;
* `LeadersSupported` — every leader of a term has a majority whose members voted
  for it and nobody else and, while in that term, still have it in `votedFor`
  (`Supports`);
* `BallotTerms` — nobody has voted in a term later than its own;
* `RoleInv` — the role and the loop agree, non-followers voted for themselves,
  and a candidate's term is that of its election. It is this part that fails with
  `"StaleReply"`;
* `RecordInv` — counted votes and votes under way were cast, nodes that lead have won,
  and requests come from leaders;
* `StoreInv` — the stable store holds the current term and vote. A crash then restores
  these, or a later term, and never a vote that may be given again. This part fails with
  `StateFaults`; `StoreInvariant` of `LogProofs` states it alone.

Votes change in five ways only, and the proof has a lemma for each: not at all
(`VotesUnchanged`), a later term without a vote (`NewTerm`), a vote in a term that
was free (`CastVote`), a vote that is erased in a term with a leader
(`ForgetVote`) and a majority that makes a leader (`Win`, `WinAlone`). Every
action is one of these or, for a crash, what the disk holds is. That two
majorities meet is the lemma on cardinalities of `ElectionProofs`.

The theorems in the first part of `LogProofs` hold with both races open and, but for the
last, with failing writes of either store.

* `TermsMonotonic` (`TermsNeverRegress`), `LoopsServeRoles` (`LoopServesRole`) and
  `HintsNameLeaders` (`HintIsLeaderOfTerm`), the last two from `RolesInvariant`. What they
  share is the lemma `StepRoles`: to each node, every step is one of five things — it keeps
  its role and term, runs for a later term, wins, steps down, or follows a leader.
* `LeadersAppendOnly` (`LeaderAppendOnly`), from the lemma `StepLogs`: a log changes because
  its node appends as a leader or takes what a request brings.
* `LogTermsInOrder` (`LogTermsOrdered`), under `~StateFaults`: with a lost write of the term a
  restarted node has entries of terms above its own. It is not inductive alone: entries travel, so
  `OrderInv` says the same of the entries of each request, and that they follow what its
  `prevLogTerm` says.

Its second part proves `LogsMatch`, `Spec => []LogMatching`, under `Races = {}` and
`~StateFaults`. With `"EarlyReply"` it is false (run `RaftEarlyReply`), and with two leaders
of a term, which a lost vote makes possible, as well. The inductive invariant speaks of the
*log of the leader of every term*, `led`, which no variable of the model holds: once a
leader steps down, its log is overwritten, while requests cut from it are still under way.
So `LogInv` says that *there is* a function from terms to logs with which the following
hold: the log of a node that leads is `led` of its term; each log is,
up to each of its entries, equal to `led` of the entry's term; each request is cut from a prefix
of `led` of its term.
A step shows it for the next state by giving the next function: the leader that appends
changes its own value, the one that wins sets it. Two logs with an entry of one term are
then both equal to `led` of that term up to that entry.

`CommitProofs` proves `CommittedIsDurable` (`CommittedOnQuorum`), `LeadersAreComplete`
(`LeaderCompleteness`), `CommittedIsAgreed` (`StateMachineSafety`), `MatchIndexesSound`
(`MatchIndexSound`) and `RaftImplementsLog` (`ImplementsReplicatedLog`), each under

    Races = {},  ~StateFaults,  Cardinality(Server) <= 3 \/ ~DiskFaults

that is: for clusters of every size whose stores never refuse a write, and for clusters of up to
three nodes with log stores that do; crashes, torn writes of `persistState`, lost, late and
reordered calls are always included. All hypotheses are the program's. With a race open, or
a vote that is not stored, the statements fail. The third hypothesis is about
`advanceCommitIndex`, which does not look at the role: a node that has been deposed and has
entries of its successor may commit one of them on the strength of a `matchIndex` of its own
leadership. It and the successor hold that entry, which is a majority of three. In a larger
cluster this has to be excluded: if no store fails, then what a peer confirmed to the old
leader ends in an entry of the old leader's own term (its no-op at the least, `SentInv`), a
majority of such entries is chosen, the successor's log has it, and what stands there is not of
the successor's term, so nothing is committed (`DeposedCommitsNothing`). Only when the store
refused the no-op can a peer have confirmed a log that ends earlier.

The inductive invariant, `DurableInv`, says that there are leaders' logs `led` and a set
`acks` of *acknowledgements*, such that `DurableBy(led, acks)`. An acknowledgement
`<<t, v, i>>` says that node v held, while in term t, the entry that the leader of t put at i;
it is never taken back, so it records what a disk may have lost since. An entry is `Chosen`
if a majority acknowledged it, and `Blocked` if a majority is in later terms and did not: no
majority will acknowledge it any more. The parts are

* `AckInv` — acknowledged entries were the leader's; a node that has deleted one is in a
  later term and the entry is blocked;
* `VoteSafe` — what a candidate's voters acknowledged in earlier terms is in the
  candidate's log or blocked: this is what `isLogUpToDate` is for;
* `SafeInv` — the log of each leader has every entry of earlier terms that is not blocked.
  From `VoteSafe` at the win: if a voter of the majority acknowledged it, the leader has it,
  and if none did, the majority blocks it;
* `PeerInv`, `SentInv` — what `matchIndex`, answers and requests under way mean, for the
  term in which the node led last (`peersTerm`), since answers are processed after that;
* `CommInv` — what any node takes for committed is chosen, or follows from something
  chosen later in the same log.

That the ghosts are quantified inside the invariant, rather than being history variables of
`Raft`, keeps the model as it is. The invariant was checked with TLC, with the ghosts as
variables of a copy of the model, before it was proved.

The theorems about `ApplyPipeline` hold for every set of callers, every capacity of
the channel and every bound (`CommandAssumption`, `CapAssumption`).

* `ApplyProofs!PipelineInvariant`: `Spec => [](TypeOK /\ PipelineInv)`. Types and
  invariant need each other: the command that the apply loop reads is a command
  only because its index lies within the log.
* `FuturesMatchLog` (`PendingMatchesLog`), `ApplyOrder` (`AppliedInOrder`) and
  `WakeupKept` (`NoLostWakeup`) follow.

None of the three is inductive alone. `RoleInv` says that futures exist only
between a win and `failPendingFutures`, so a win finds an empty map; it also says
that a node that leads is in `runLeader`, which only the main goroutine may leave, unless
it won after a shutdown: then nobody runs a loop, and there are no futures.
`CommitInv` says that what is committed is a prefix of the log and that the apply
loop's bound lies within, so its reads without the lock see committed entries.
`ApplyInv` relates `lastApplied`, the loop's index, the entry in its hands and the
greatest index given to the state machine. `WakeInv` says that a round covers all
that is committed unless a token is there, and has passed over nothing but what
it could not read. One lemma per part shows which steps can disturb it.

The theorems about `Document` hold for every set of nodes and clients and every value
of the bounds (`BoundAssumption`).

* `DocumentProofs!ReplicasAlwaysAgree`: `DocSpec => []ReplicasAgree`, and
  `SubmissionsAppliedOnce`: `DocSpec => []AppliedOnce`, and `BasesAlwaysExist`:
  `DocSpec => []BasesExist`, with `DocumentTypes` for the
  types, all from `DocumentInvariant`: `DocSpec => []DocInv`.

None is inductive alone. For the last, `ReachedOK` says that while no node has skipped an
entry, no revision that was ever reached is beyond the document that the whole log
amounts to, whichever nodes have started again: a new entry's base is then within the document
it will be applied to. That no document holds a submission twice rests on what the
map of last submissions says of the revisions: `GuardedDocument` — every revision of a
client has a number up to the one in the map, and no two revisions are equal. A new
revision has a number above the map's entry, so it is none of the old ones; nothing is
assumed of the order in which a client's numbers are committed. It is stated of the
nodes' documents, including those that have missed entries, and of the history's.
`HistoryOK` says that each document of the history is the one before it after the
entry between them, `PassedInLog` that a node has passed a prefix of the log. With these, a
node that has missed nothing goes from one document of the history to the next
(`fits` is the entry's), and a restart takes it back to the first. The mutant of
`ReplicasAgree` — a map that survives the restart — breaks exactly the last step.

The theorems about `Session` hold for every set of nodes and clients and every value of the
bounds (`SessionAssumption`, `BoundAssumption`).

* `SessionProofs!SessionTypes` (`TypeOK`), `RegisteredAlwaysOpen` (`RegisteredIsOpen`) and
  `SessionImplementsDocument` (`ImplementsDocument`), from `SessionInvariant`. With the last,
  `SessionReplicasAgree` and `SessionBasesExist` carry the theorems about `Document` over to
  the whole system.

Types, registry and refinement are shown by one induction. A page's revision number reaches
the log as the base of a submission and comes from messages, whose numbers come from
documents and their reports; so `OkEntry`, `OkMessage`, `OkConnection`, `OkPage` and
`OkResult` restrict the types of all of these to revisions that some node has reached
(`reached`, which never falls, so what was once within it stays so: `Wider`), and
`ReportInv` says that no document is beyond it. A page's number of submissions is
`submitted` of its client, also after a reload, and every submission under way has a number
up to that. `OkPage` also has that a page whose timer is
set has an address. `RegistryInv` says that a registered connection belongs to the client and
node it is registered for and is in handleConnect or being served: removeClient, which goes by
name, therefore removes at the same time whatever it may be about to close.

`PageProofs` proves `PagesAlwaysInStep` (`PagesInStep`), `QuietPagesAlwaysAgree`
(`QuietPagesAgree`) and `NothingEverLost` (`NothingLost`), from `PagesInvariant`:
`Spec => [](PagesInv /\ CalmInv)`. They hold for every number of nodes, clients and
connections and every bound, through restarts, dropped connections, redirects, reloads, lost
proposals and resends. Like the properties, they are about clients that have met no situation
of `AtRisk`; the proof therefore shows for every instance, and not only for that of
`Session.cfg`, that the table of situations is complete.

None of the three is inductive: a page is right because of what is on its way to it. The
invariant describes that as a *line* from the page to the head of its node's document. All
documents of the history are beginnings of one text (`Text`).

* `HistoryInv` — that text has no submission twice, and what a document lacks of it comes from
  the entries that its node has still to pass. `MadeInv` — no submission under way or in the
  log has a number that its page has not reached. `SocketInv` — a page's socket is a
  connection of that page, and what the server has ended is down. These hold for all clients.
* `PageOf` — the page has the text up to its revision, and every submission but the one it
  waits for is in it. A page that was reloaded has no text and no revision yet; its
  submissions are in the text as a whole.
* `Queue` — each message in the connection's queue takes the page from the revision that the
  one before it left off to the next (`Link`): a BROADCAST and an ACK by one edit, a
  CONNECT_ACK by a run of edits, the ACK of a resent submission by none. Messages after a
  REDIRECT do not count, since the page closes the connection there.
* `Due` — the results that onCommit has still to report continue where the queue ends
  (`Report`), and the last of them ends at the head of the node's document.
* `Reading` — while handleConnect runs, what it has read is of a document that has not moved
  on. `Greeted` — a page without text gets a CONNECT_ACK first.
* `Calm` — a client is at no risk now, its page is as in `PageOf`, the connection that is
  open is its page's, and the line is unbroken (`LineInv`).

Every step takes something off one end of the line (`Receive`), adds to the other
(`ApplyCommitted`), moves an element within it (`OnCommit`), starts a new line
(`SendConnectAck`) or gives it up (`Drop`, `Reload`). The steps that would break a line are
those that make `AtRisk` true: goroutines of onCommit that overtake each other, a full queue, a
commit between two steps of handleConnect, a node that is behind the page, an answer to an
earlier attempt. TLC found no violation of the invariant in the instance of `Session.cfg`
before it was proved.

Only model-checked: liveness (`ReplicationConverges`, `SubmissionsAnswered`), which is out of
reach of the prover; and everything about OT, whose operators are recursive and whose theorems
need induction over data. Every other property of the passing runs is stated by a theorem.

## What the models say about the code

Most properties hold. Five times a statement that the repository makes of itself does
not, and each has a run in which TLC exhibits the behaviour:

* `RaftStaleReply` — "at most one leader per term" (`types.go:35`,
  `election.go:6`). A replicator of an ended leadership raises the term of a node
  that is a candidate by now; the votes of the old term still come in and make it
  leader of a term in which it has no votes. (With four elections and a command
  the same window also breaks `StateMachineSafety`, even in a cluster of two.)
* `RaftEarlyReply` — Log Matching (`replication.go:6`). An answer with a higher
  term is processed between the start of the replicators and `appendNoOp`, which
  then appends an entry of a term that somebody else leads.
* `RaftWedge` — "as long as majority alive, progress is made"
  (`fault_test.go:24`). Deposed leaders stay in `runLeader`'s select, which has
  no election timer. If every running node is there and no RPC is under way,
  nothing happens any more.
* `ApplyAnswer` — "blocks on future.Error() until the entry is either committed
  (returns nil) or fails" (`future.go:5`). `applyCommitted` answers whatever future
  is filed under an index. Another leader's AppendEntries may replace the entry and
  commit the replacement before `runLeader` reaches `failPendingFutures`; if the
  apply loop runs in between, the caller hears success, and the response, of a
  command that is not its own. `PendingMatchesLog` shows that this cannot happen
  while the node leads.
* `SessionRebase` — "A = latest server-acknowledged state", "X = submitted to server,
  awaiting ACK" (`client.js:8-9`). A submission is committed while its page is away.
  After the reconnection handleConnectAck folds it into A with the other missed
  revisions and rebases X over it as if it were somebody else's. When the result fits the
  text (an insertion with enough text behind the cursor does), the page shows its edit
  twice; the resend is recognised as a duplicate, and its ACK folds X into A, which is then
  no text of the server. "Reconnect → Verify committed once" (`crash_test.go:14`) is
  true of the servers (`AppliedOnce`) and not of the page.

More have no run.

* "This ensures that if we crash and restart, we don't accidentally vote for two different
  candidates in the same term" (`election.go:36-38`). persistState logs a write that fails and
  returns nothing, so the vote is sent although the disk does not have it; after a crash the
  node votes again, and the term has two leaders. No race is needed: with `StateFaults = TRUE`
  in `RaftElection.cfg` and `ElectionSafety` as the only property, TLC finds it in 20 seconds.
* "Each server votes for at most one candidate per term" (`election.go:136`) does not hold and
  is harmless, as the proof of Election Safety shows, which does not use it.
* "Critical for single-node clusters" (`raft.go:322`): a cluster of one elects its leader and
  never commits, because `advanceCommitIndex` is called only for a peer's answer
  (`replication.go:162`); with one node `ReplicationConverges` fails in three states.
* Text beyond ASCII: the server validates lengths in bytes (`changeset.go:150`) that the
  browser counts in UTF-16 units, so such a submission is refused each time it is resent, and
  its page submits nothing else; `SubmissionsAnswered` excepts it by name.
* Of the [situations](#how-documenttla-and-sessiontla-correspond-to-the-code) in which pages
  lose step with the server, three contradict what the repository says. "messages arrive in
  order" (`easysync-algorithm-description.md:496`): nothing orders the goroutines in which
  onCommit runs (`fsm.go:167`), and a page whose submission became revision 2 may be sent its
  ACK before the BROADCAST of revision 1 (`missed`). handleConnect "sends back the current
  document state" (`websocket.go:293`): it reads revisions, text and revision number under
  three locks, and an entry that is applied in between gives the text of one revision and the
  number of another (`CommitWhileConnecting`). onCommit "broadcasts C' to all other connected
  clients" (`websocket.go:411-412`): removeClient goes by the client's id, so a page that is
  reloaded and registers before the server has noticed the end of its old connection is
  removed with that, and hears nothing more (`TwoConnections`). For each, TLC finds
  `PagesInStep` or `QuietPagesAgree` violated once the clause is taken out of `AtRisk`.
