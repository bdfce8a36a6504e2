------------------------------ MODULE Document ------------------------------
(***************************************************************************)
(* The document state machine of internal/fsm on every node: the committed *)
(* entries, the revisions each node has made of them, and the goroutines   *)
(* in which the nodes report them to their WebSocket servers.              *)
(*                                                                         *)
(* A changeset is known by the client that made it and its submission      *)
(* number, and a text by the changesets that were folded into it, in their *)
(* order; rebasing is the subject of module OT.  Whether a changeset can   *)
(* be rebased and applied depends on the two texts only, so an entry       *)
(* carries the answer (fits).                                              *)
(***************************************************************************)
EXTENDS Integers, Sequences

CONSTANTS
    Node, Client,
    MaxLog,       \* bound: committed entries
    MaxSub,       \* bound: submissions of every client
    MaxFaults     \* bound: restarts, and entries that a node fails to read

ASSUME BoundAssumption ==
    MaxLog \in Nat /\ MaxSub \in [Client -> Nat] /\ MaxFaults \in Nat

VARIABLES
    log,          \* the committed entries that carry a submission
    lastApplied,  \* node -> how many of them applyCommitted has passed
    doc,          \* node -> revisionLog and clientLastSubmission
    callbacks,    \* node -> onCommit goroutines that have not run, oldest first
    faults,
    submitted,    \* client -> submissions that it has made
    \* history: documents[i + 1] is what the first i entries amount to; the
    \* nodes that have missed an entry in this life; whether any ever has; the
    \* greatest revision that a node has reached
    documents, skipped, unread, reached

committedVars ==
    <<log, lastApplied, doc, callbacks, submitted, documents, skipped, unread, reached>>
docVars ==
    <<log, lastApplied, doc, callbacks, faults, submitted, documents, skipped, unread, reached>>

-----------------------------------------------------------------------------
Revision == [client : Client, sub : Nat]
RaftLogEntry == [client : Client, sub : Nat, base : Nat, fits : BOOLEAN]
ApplyResult == [client : Client, rev : Nat, edit : Revision, dup : BOOLEAN]
DocumentState == [revisions : Seq(Revision), lastSubmission : [Client -> Nat]]

\* headRev, which is also the length of the text in revisions.
HeadRev(d) == Len(d.revisions)

EmptyDocument == [revisions |-> <<>>, lastSubmission |-> [c \in Client |-> 0]]

EditOf(e) == [client |-> e.client, sub |-> e.sub]

\* The idempotency guard.
\* Mutant: the latest submission is not recognised.
BeforeLast(d, e) == e.sub < d.lastSubmission[e.client]

IsDuplicate(d, e) == e.sub <= d.lastSubmission[e.client]

\* Apply: what becomes of a document; an entry that does not fit is dropped.
AfterEntry(d, e, fits) ==
    IF IsDuplicate(d, e) \/ ~fits THEN d
    ELSE [revisions      |-> Append(d.revisions, EditOf(e)),
          lastSubmission |-> [d.lastSubmission EXCEPT ![e.client] = e.sub]]

\* Apply: what onCommit is called with, if it is.  A duplicate is reported with
\* the revision that the document has by now.
ResultOf(d, e, fits) ==
    IF IsDuplicate(d, e)
      THEN <<[client |-> e.client, rev |-> HeadRev(d), edit |-> EditOf(e), dup |-> TRUE]>>
    ELSE IF fits
      THEN <<[client |-> e.client, rev |-> HeadRev(d) + 1, edit |-> EditOf(e), dup |-> FALSE]>>
    ELSE <<>>

\* What a node's document would be, had it applied all committed entries.
Final == documents[Len(log) + 1]

DocInit ==
    /\ log = <<>>
    /\ lastApplied = [n \in Node |-> 0]
    /\ doc = [n \in Node |-> EmptyDocument]
    /\ callbacks = [n \in Node |-> <<>>]
    /\ faults = 0
    /\ submitted = [c \in Client |-> 0]
    /\ documents = <<EmptyDocument>>
    /\ skipped = [n \in Node |-> FALSE]
    /\ unread = FALSE
    /\ reached = 0

-----------------------------------------------------------------------------
(* Steps *)

Fault == faults < MaxFaults /\ faults' = faults + 1

\* A client numbers a new submission.
NewSubmission(c) ==
    /\ submitted[c] < MaxSub[c]
    /\ submitted' = [submitted EXCEPT ![c] = @ + 1]
    /\ UNCHANGED <<log, lastApplied, doc, callbacks, faults, documents, skipped, unread, reached>>

\* Raft commits an entry (module Raft).
Commit(e) ==
    /\ Len(log) < MaxLog
    /\ log' = Append(log, e)
    /\ documents' = Append(documents, AfterEntry(Final, e, e.fits))
    /\ UNCHANGED <<lastApplied, doc, callbacks, faults, submitted, skipped, unread, reached>>

\* applyCommitted gives the next entry to fsm.Apply.  On a node that has missed
\* one, the texts are not those that e.fits is about.
ApplyEntry(n) ==
    LET e == log[lastApplied[n] + 1]
    IN  /\ lastApplied[n] < Len(log)
        /\ lastApplied' = [lastApplied EXCEPT ![n] = @ + 1]
        /\ \E fits \in IF skipped[n] THEN BOOLEAN ELSE {e.fits} :
              /\ doc' = [doc EXCEPT ![n] = AfterEntry(@, e, fits)]
              /\ callbacks' = [callbacks EXCEPT ![n] = @ \o ResultOf(doc[n], e, fits)]
        /\ reached' = IF HeadRev(doc'[n]) > reached THEN HeadRev(doc'[n]) ELSE reached
        /\ UNCHANGED <<log, faults, submitted, documents, skipped, unread>>

\* GetLog fails, and the next entry moves lastApplied past this one.
SkipEntry(n) ==
    /\ Fault
    /\ lastApplied[n] < Len(log)
    /\ lastApplied' = [lastApplied EXCEPT ![n] = @ + 1]
    /\ skipped' = [skipped EXCEPT ![n] = TRUE]
    /\ unread' = TRUE
    /\ UNCHANGED <<log, doc, callbacks, submitted, documents, reached>>

\* The document of a process that starts.
\* Mutant: the map of submissions survives.
KeptSubmissions(n) == [EmptyDocument EXCEPT !.lastSubmission = doc[n].lastSubmission]

FreshDocument(n) == EmptyDocument

\* The process ends and starts again: a new state machine, to which everything
\* is applied, and reported, from the start.
RestartDocument(n) ==
    /\ Fault
    /\ lastApplied' = [lastApplied EXCEPT ![n] = 0]
    /\ doc' = [doc EXCEPT ![n] = FreshDocument(n)]
    /\ callbacks' = [callbacks EXCEPT ![n] = <<>>]
    /\ skipped' = [skipped EXCEPT ![n] = FALSE]
    /\ UNCHANGED <<log, submitted, documents, unread, reached>>

\* The i-th goroutine gets to run.
RunCallback(n, i) ==
    /\ i \in DOMAIN callbacks[n]
    /\ callbacks' = [callbacks EXCEPT ![n] = SubSeq(@, 1, i - 1) \o SubSeq(@, i + 1, Len(@))]
    /\ UNCHANGED <<log, lastApplied, doc, faults, submitted, documents, skipped, unread, reached>>

\* A client submits something new, or any of what it has submitted, as often as it
\* likes, is committed, as a changeset of any revision that some node has reached.
\* The faults of a larger system are counted here too.
DocNext ==
    \/ \E c \in Client : NewSubmission(c)
    \/ \E c \in Client, b \in 0..reached, f \in BOOLEAN : \E s \in 1..submitted[c] :
          Commit([client |-> c, sub |-> s, base |-> b, fits |-> f])
    \/ \E n \in Node : ApplyEntry(n) \/ SkipEntry(n) \/ RestartDocument(n)
    \/ \E n \in Node : \E i \in DOMAIN callbacks[n] : RunCallback(n, i)
    \/ Fault /\ UNCHANGED committedVars

DocSpec == DocInit /\ [][DocNext]_docVars

-----------------------------------------------------------------------------
(* Properties *)

DocTypeOK ==
    /\ log \in Seq(RaftLogEntry)
    /\ lastApplied \in [Node -> Nat]
    /\ doc \in [Node -> DocumentState]
    /\ callbacks \in [Node -> Seq(ApplyResult)]
    /\ faults \in Nat
    /\ submitted \in [Client -> Nat]
    /\ documents \in Seq(DocumentState)
    /\ skipped \in [Node -> BOOLEAN]
    /\ unread \in BOOLEAN
    /\ reached \in Nat

\* "given the same sequence of committed log entries, every server reaches the
\* same document state" (fsm.go:7-9), through restarts that replay the log: a
\* node that has missed no entry has the document of the prefix it has passed.
ReplicasAgree ==
    \A n \in Node : ~skipped[n] => doc[n] = documents[lastApplied[n] + 1]

\* "client_last_submission prevents duplicate application of re-submitted
\* entries" (fsm.go:14): however often a submission is committed, no node makes
\* two revisions of it, also after a restart or a missed entry.
AppliedOnce ==
    \A n \in Node : \A i, j \in DOMAIN doc[n].revisions :
        doc[n].revisions[i] = doc[n].revisions[j] => i = j

\* Apply rebases over what came after the base revision, and takes an entry whose
\* base is beyond the head for one that needs no rebasing (fsm.go:118).  While no
\* node has failed to read an entry there is none: a base revision that some node
\* had reached is one that every node has when it comes to the entry, although the
\* node that reached it may have started again since.
BasesExist ==
    ~unread => \A i \in DOMAIN log : log[i].base <= HeadRev(documents[i])
=============================================================================
