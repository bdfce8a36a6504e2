--------------------------- MODULE DocumentProofs ---------------------------
(***************************************************************************)
(* Module Document for every set of nodes and clients and every bound:      *)
(* nodes that have missed no entry agree, and no node makes two revisions   *)
(* of one submission.                                                       *)
(***************************************************************************)
EXTENDS Document, TLAPS

(* What a document owes to the idempotency guard: no submission above the    *)
(* last one of its client, and none twice.                                   *)
GuardedDocument(d) ==
    /\ \A i \in DOMAIN d.revisions :
          d.revisions[i].sub <= d.lastSubmission[d.revisions[i].client]
    /\ \A i, j \in DOMAIN d.revisions : d.revisions[i] = d.revisions[j] => i = j

(* documents is what AfterEntry makes of the log, entry by entry.            *)
HistoryOK ==
    /\ Len(documents) = Len(log) + 1
    /\ documents[1] = EmptyDocument
    /\ \A i \in 1..Len(log) :
          documents[i + 1] = AfterEntry(documents[i], log[i], log[i].fits)

PassedInLog == \A n \in Node : lastApplied[n] <= Len(log)

Guarded == \A n \in Node : GuardedDocument(doc[n])

(* A document only grows with the log, and no node is beyond the last one if *)
(* none has missed an entry.                                                 *)
ReachedOK ==
    /\ \A i \in DOMAIN documents : HeadRev(documents[i]) <= HeadRev(Final)
    /\ ~unread => reached <= HeadRev(Final) /\ \A n \in Node : ~skipped[n]

DocInv == /\ DocTypeOK /\ HistoryOK /\ PassedInLog /\ ReplicasAgree /\ Guarded
          /\ ReachedOK /\ BasesExist

-----------------------------------------------------------------------------
(* What becomes of one document *)

(* The document of a process that starts has the type of a document.         *)
LEMMA EmptyDocumentType == EmptyDocument \in DocumentState /\ GuardedDocument(EmptyDocument)
  <1>1. [c \in Client |-> 0] \in [Client -> Nat]
    OBVIOUS
  <1>2. EmptyDocument \in DocumentState
    BY <1>1 DEF EmptyDocument, DocumentState
  <1>3. GuardedDocument(EmptyDocument)
    BY DEF EmptyDocument, GuardedDocument
  <1> QED BY <1>2, <1>3

(* fsm.Apply gives a document.                                               *)
LEMMA AfterEntryType ==
  ASSUME NEW d \in DocumentState, NEW e \in RaftLogEntry, NEW fits \in BOOLEAN
  PROVE  AfterEntry(d, e, fits) \in DocumentState
  <1> DEFINE r == [client |-> e.client, sub |-> e.sub]
  <1>1. r \in Revision
    BY DEF RaftLogEntry, Revision
  <1>2. d.revisions \in Seq(Revision) /\ d.lastSubmission \in [Client -> Nat]
    BY DEF DocumentState
  <1>3. Append(d.revisions, r) \in Seq(Revision)
    BY <1>1, <1>2
  <1>4. [d.lastSubmission EXCEPT ![e.client] = e.sub] \in [Client -> Nat]
    BY <1>2 DEF RaftLogEntry
  <1>5. [revisions |-> Append(d.revisions, r),
         lastSubmission |-> [d.lastSubmission EXCEPT ![e.client] = e.sub]] \in DocumentState
    BY <1>3, <1>4 DEF DocumentState
  <1> QED BY <1>5 DEF AfterEntry, EditOf

(* fsm.Apply never takes a revision back.                                    *)
LEMMA AfterEntryGrows ==
  ASSUME NEW d \in DocumentState, NEW e \in RaftLogEntry, NEW fits \in BOOLEAN
  PROVE  /\ HeadRev(d) \in Nat /\ HeadRev(AfterEntry(d, e, fits)) \in Nat
         /\ HeadRev(d) <= HeadRev(AfterEntry(d, e, fits))
  <1> DEFINE r == EditOf(e)
  <1>1. d.revisions \in Seq(Revision) /\ r \in Revision
    BY DEF DocumentState, RaftLogEntry, Revision, EditOf
  <1>2. HeadRev(d) \in Nat
    BY <1>1 DEF HeadRev
  <1>3. \/ AfterEntry(d, e, fits) = d
        \/ AfterEntry(d, e, fits).revisions = Append(d.revisions, r)
    BY DEF AfterEntry
  <1>4. Len(Append(d.revisions, r)) = Len(d.revisions) + 1
    BY <1>1
  <1> QED BY <1>2, <1>3, <1>4 DEF HeadRev

(* fsm.Apply reports at most one result, which has its type.                 *)
LEMMA ResultOfType ==
  ASSUME NEW d \in DocumentState, NEW e \in RaftLogEntry, NEW fits \in BOOLEAN
  PROVE  ResultOf(d, e, fits) \in Seq(ApplyResult)
  <1> DEFINE r == [client |-> e.client, sub |-> e.sub]
             res(k, b) == [client |-> e.client, rev |-> k, edit |-> r, dup |-> b]
  <1>1. r \in Revision /\ e.client \in Client
    BY DEF RaftLogEntry, Revision
  <1>2. HeadRev(d) \in Nat /\ HeadRev(d) + 1 \in Nat
    BY DEF HeadRev, DocumentState
  <1>3. \A k \in Nat, b \in BOOLEAN : res(k, b) \in ApplyResult
    BY <1>1 DEF ApplyResult
  <1>4. \A k \in Nat, b \in BOOLEAN : <<res(k, b)>> \in Seq(ApplyResult)
    BY <1>3
  <1>5. <<>> \in Seq(ApplyResult)
    OBVIOUS
  <1>6. <<res(HeadRev(d), TRUE)>> \in Seq(ApplyResult)
    <2> HIDE DEF res
    <2> QED BY <1>2, <1>4
  <1>7. <<res(HeadRev(d) + 1, FALSE)>> \in Seq(ApplyResult)
    <2> HIDE DEF res
    <2> QED BY <1>2, <1>4
  <1> QED BY <1>5, <1>6, <1>7 DEF ResultOf, EditOf

(* The idempotency guard: fsm.Apply keeps a document free of repetitions.     *)
LEMMA AfterEntryGuarded ==
  ASSUME NEW d \in DocumentState, NEW e \in RaftLogEntry, NEW fits \in BOOLEAN,
         GuardedDocument(d)
  PROVE  GuardedDocument(AfterEntry(d, e, fits))
  <1>1. CASE IsDuplicate(d, e) \/ ~fits
    BY <1>1 DEF AfterEntry
  <1>2. CASE ~IsDuplicate(d, e) /\ fits
    <2> DEFINE r == [client |-> e.client, sub |-> e.sub]
               new == [revisions |-> Append(d.revisions, r),
                       lastSubmission |-> [d.lastSubmission EXCEPT ![e.client] = e.sub]]
               old == d.revisions
               last == d.lastSubmission
    <2>1. AfterEntry(d, e, fits) = new
      BY <1>2 DEF AfterEntry, EditOf
    <2>2. /\ old \in Seq(Revision) /\ last \in [Client -> Nat]
          /\ e.client \in Client /\ e.sub \in Nat /\ r \in Revision
      BY DEF DocumentState, RaftLogEntry, Revision
    <2>3. e.sub > last[e.client]
      BY <1>2, <2>2 DEF IsDuplicate
    <2>4. /\ new.revisions = Append(old, r)
          /\ new.lastSubmission = [last EXCEPT ![e.client] = e.sub]
          /\ DOMAIN new.revisions = 1..(Len(old) + 1)
          /\ new.revisions[Len(old) + 1] = r
          /\ \A i \in 1..Len(old) : new.revisions[i] = old[i]
      BY <2>2
    <2>5. \A i \in 1..Len(old) : /\ old[i] \in Revision
                                 /\ old[i].client \in Client /\ old[i].sub \in Nat
                                 /\ old[i].sub <= last[old[i].client]
      <3> SUFFICES ASSUME NEW i \in 1..Len(old)
                   PROVE  /\ old[i] \in Revision
                          /\ old[i].client \in Client /\ old[i].sub \in Nat
                          /\ old[i].sub <= last[old[i].client]
        OBVIOUS
      <3>1. old[i] \in Revision
        BY <2>2
      <3>2. old[i].sub <= last[old[i].client]
        BY <2>2 DEF GuardedDocument
      <3> QED BY <3>1, <3>2 DEF Revision
    <2>6. \A i \in 1..Len(old) : old[i] # r
      <3> SUFFICES ASSUME NEW i \in 1..Len(old), old[i] = r PROVE FALSE
        OBVIOUS
      <3>1. old[i].client = e.client /\ old[i].sub = e.sub
        OBVIOUS
      <3> QED BY <2>2, <2>3, <2>5, <3>1
    <2>7. \A i \in DOMAIN new.revisions :
             new.revisions[i].sub <= new.lastSubmission[new.revisions[i].client]
      <3> SUFFICES ASSUME NEW i \in 1..(Len(old) + 1)
                   PROVE  new.revisions[i].sub <= new.lastSubmission[new.revisions[i].client]
        BY <2>4
      <3>1. CASE i = Len(old) + 1
        BY <2>2, <2>4, <3>1
      <3>2. CASE i \in 1..Len(old) /\ old[i].client = e.client
        <4>1. new.lastSubmission[e.client] = e.sub
          BY <2>2, <2>4
        <4> QED BY <2>2, <2>3, <2>4, <2>5, <3>2, <4>1
      <3>3. CASE i \in 1..Len(old) /\ old[i].client # e.client
        <4>1. new.lastSubmission[old[i].client] = last[old[i].client]
          BY <2>2, <2>4, <2>5, <3>3
        <4> QED BY <2>4, <2>5, <3>3, <4>1
      <3> QED BY <2>2, <3>1, <3>2, <3>3
    <2>8. \A i, j \in 1..Len(old) : old[i] = old[j] => i = j
      BY <2>2 DEF GuardedDocument
    <2>9. \A i, j \in DOMAIN new.revisions : new.revisions[i] = new.revisions[j] => i = j
      <3> HIDE DEF new, r, old
      <3> SUFFICES ASSUME NEW i \in 1..(Len(old) + 1), NEW j \in 1..(Len(old) + 1),
                          new.revisions[i] = new.revisions[j]
                   PROVE  i = j
        BY <2>4
      <3>1. Len(old) \in Nat
        BY <2>2
      <3>2. CASE i \in 1..Len(old) /\ j \in 1..Len(old)
        BY <2>4, <2>8, <3>2
      <3>3. CASE i \in 1..Len(old) /\ j = Len(old) + 1
        BY <2>4, <2>6, <3>3
      <3>4. CASE i = Len(old) + 1 /\ j \in 1..Len(old)
        BY <2>4, <2>6, <3>4
      <3>5. CASE i = Len(old) + 1 /\ j = Len(old) + 1
        BY <3>5
      <3> QED BY <3>1, <3>2, <3>3, <3>4, <3>5
    <2> QED BY <2>1, <2>7, <2>9 DEF GuardedDocument
  <1> QED BY <1>1, <1>2
-----------------------------------------------------------------------------
(* The invariant *)

(* It holds when all processes start.                                        *)
LEMMA InitDocInv == DocInit => DocInv
  <1> SUFFICES ASSUME DocInit PROVE DocInv
    OBVIOUS
  <1> USE EmptyDocumentType DEF DocInit
  <1>1. documents = <<EmptyDocument>> /\ log = <<>>
    OBVIOUS
  <1>2. Len(documents) = 1 /\ documents[1] = EmptyDocument /\ Len(log) = 0
    BY <1>1
  <1>3. DocTypeOK
    <2>1. documents \in Seq(DocumentState)
      BY <1>1
    <2>2. log \in Seq(RaftLogEntry)
      BY <1>1
    <2>3. callbacks \in [Node -> Seq(ApplyResult)] /\ submitted \in [Client -> Nat]
      OBVIOUS
    <2>4. lastApplied \in [Node -> Nat] /\ doc \in [Node -> DocumentState]
      OBVIOUS
    <2>5. skipped \in [Node -> BOOLEAN] /\ unread \in BOOLEAN
      OBVIOUS
    <2>6. faults \in Nat /\ reached \in Nat
      OBVIOUS
    <2> HIDE DEF DocInit
    <2> QED BY <2>1, <2>2, <2>3, <2>4, <2>5, <2>6 DEF DocTypeOK
  <1>4. HistoryOK /\ PassedInLog
    BY <1>2 DEF HistoryOK, PassedInLog
  <1>5. ReplicasAgree
    BY <1>2 DEF ReplicasAgree
  <1>6. Guarded
    BY DEF Guarded
  <1>7. ReachedOK /\ BasesExist
    <2>1. HeadRev(EmptyDocument) = 0
      BY DEF HeadRev, EmptyDocument
    <2>2. DOMAIN documents = {1} /\ Final = EmptyDocument
      BY <1>1, <1>2 DEF Final
    <2>3. \A i \in DOMAIN documents : HeadRev(documents[i]) = 0
      BY <1>2, <2>1, <2>2
    <2>4. HeadRev(Final) = 0 /\ DOMAIN log = {}
      BY <1>1, <2>1, <2>2
    <2> QED BY <2>3, <2>4 DEF ReachedOK, BasesExist
  <1> QED BY <1>3, <1>4, <1>5, <1>6, <1>7 DEF DocInv

(* An entry is committed: the history gains the document it makes.           *)
LEMMA CommitDocInv ==
  ASSUME DocInv, NEW e \in RaftLogEntry, e.base <= reached, Commit(e)
  PROVE  DocInv'
  <1> DEFINE next == AfterEntry(Final, e, e.fits)
  <1>1. /\ log \in Seq(RaftLogEntry) /\ documents \in Seq(DocumentState)
        /\ Len(documents) = Len(log) + 1 /\ Len(log) \in Nat
    BY DEF DocInv, DocTypeOK, HistoryOK
  <1>2. /\ log' = Append(log, e)
        /\ documents' = Append(documents, next)
        /\ UNCHANGED <<lastApplied, doc, callbacks, faults, submitted, skipped, unread, reached>>
    BY DEF Commit
  <1>3. Final \in DocumentState
    BY <1>1 DEF Final
  <1>4. next \in DocumentState
    BY <1>3, AfterEntryType DEF RaftLogEntry
  <1> HIDE DEF next
  <1>5. /\ Len(log') = Len(log) + 1
        /\ \A i \in 1..Len(log) : log'[i] = log[i]
        /\ log'[Len(log) + 1] = e
    BY <1>1, <1>2
  <1>6. /\ Len(documents') = Len(log) + 2
        /\ \A i \in 1..(Len(log) + 1) : documents'[i] = documents[i]
        /\ documents'[Len(log) + 2] = next
    BY <1>1, <1>2, <1>4
  <1>7. DocTypeOK'
    <2>1. log' \in Seq(RaftLogEntry) /\ documents' \in Seq(DocumentState)
      BY <1>1, <1>2, <1>4
    <2> QED BY <1>2, <2>1 DEF DocInv, DocTypeOK
  <1>8. HistoryOK'
    <2>1. documents'[1] = EmptyDocument
      BY <1>1, <1>6 DEF DocInv, HistoryOK
    <2>2. ASSUME NEW i \in 1..Len(log')
          PROVE  documents'[i + 1] = AfterEntry(documents'[i], log'[i], log'[i].fits)
      <3>1. CASE i \in 1..Len(log)
        <4>1. documents'[i + 1] = documents[i + 1] /\ documents'[i] = documents[i]
          BY <1>1, <1>6, <3>1
        <4>2. documents[i + 1] = AfterEntry(documents[i], log[i], log[i].fits)
          BY <3>1 DEF DocInv, HistoryOK
        <4> QED BY <1>5, <3>1, <4>1, <4>2
      <3>2. CASE i = Len(log) + 1
        <4>1. documents'[i + 1] = next /\ documents'[i] = Final /\ log'[i] = e
          BY <1>1, <1>5, <1>6, <3>2 DEF Final
        <4> QED BY <4>1 DEF next
      <3> QED BY <1>1, <1>5, <3>1, <3>2
    <2> QED BY <1>1, <1>5, <1>6, <2>1, <2>2 DEF HistoryOK
  <1>9. PassedInLog'
    BY <1>1, <1>2, <1>5 DEF DocInv, DocTypeOK, PassedInLog
  <1>10. ReplicasAgree'
    <2> SUFFICES ASSUME NEW n \in Node, ~skipped[n]
                 PROVE  doc[n] = documents'[lastApplied[n] + 1]
      BY <1>2 DEF ReplicasAgree
    <2>1. lastApplied[n] \in Nat /\ lastApplied[n] <= Len(log)
      BY DEF DocInv, DocTypeOK, PassedInLog
    <2> QED BY <1>1, <1>6, <2>1 DEF DocInv, ReplicasAgree
  <1>11. Guarded'
    BY <1>2 DEF DocInv, Guarded
  <1>12. /\ HeadRev(Final) \in Nat /\ HeadRev(next) \in Nat
         /\ HeadRev(Final) <= HeadRev(next) /\ Final' = next
    <2>1. Final' = next
      BY <1>1, <1>5, <1>6 DEF Final
    <2>2. /\ HeadRev(Final) \in Nat /\ HeadRev(next) \in Nat
          /\ HeadRev(Final) <= HeadRev(next)
      BY <1>3, AfterEntryGrows DEF RaftLogEntry, next
    <2> QED BY <2>1, <2>2
  <1>13. ReachedOK'
    <2>1. ASSUME NEW i \in DOMAIN documents' PROVE HeadRev(documents'[i]) <= HeadRev(next)
      <3>1. CASE i \in 1..(Len(log) + 1)
        <4>1. documents'[i] = documents[i] /\ i \in DOMAIN documents
          BY <1>1, <1>6, <3>1
        <4>2. HeadRev(documents[i]) <= HeadRev(Final)
          BY <4>1 DEF DocInv, ReachedOK
        <4>3. documents[i] \in DocumentState
          BY <1>1, <4>1
        <4>4. HeadRev(documents[i]) \in Nat
          BY <4>3 DEF HeadRev, DocumentState
        <4> QED BY <1>12, <4>1, <4>2, <4>4
      <3>2. CASE i = Len(log) + 2
        BY <1>6, <1>12, <3>2
      <3> QED BY <1>1, <1>2, <1>6, <3>1, <3>2
    <2>2. ~unread => reached <= HeadRev(next) /\ \A n \in Node : ~skipped[n]
      BY <1>12 DEF DocInv, DocTypeOK, ReachedOK
    <2>3. \A i \in DOMAIN documents' : HeadRev(documents'[i]) <= HeadRev(Final')
      BY <1>12, <2>1
    <2>4. ReachedOK' <=>
            /\ \A i \in DOMAIN documents' : HeadRev(documents'[i]) <= HeadRev(Final')
            /\ ~unread' => reached' <= HeadRev(Final') /\ \A n \in Node : ~skipped'[n]
      BY DEF ReachedOK, HeadRev
    <2> QED BY <1>2, <1>12, <2>2, <2>3, <2>4
  <1>14. BasesExist'
    <2> SUFFICES ASSUME ~unread, NEW i \in DOMAIN log'
                 PROVE  log'[i].base <= HeadRev(documents'[i])
      BY <1>2 DEF BasesExist, HeadRev
    <2>1. CASE i \in 1..Len(log)
      <3>1. log'[i] = log[i] /\ documents'[i] = documents[i] /\ i \in DOMAIN log
        BY <1>1, <1>5, <1>6, <2>1
      <3> QED BY <3>1 DEF DocInv, BasesExist
    <2>2. CASE i = Len(log) + 1
      <3>1. log'[i] = e /\ documents'[i] = Final
        BY <1>1, <1>5, <1>6, <2>2 DEF Final
      <3>2. reached <= HeadRev(Final) /\ reached \in Nat /\ e.base \in Nat
        BY DEF DocInv, DocTypeOK, ReachedOK, RaftLogEntry
      <3> QED BY <1>12, <3>1, <3>2
    <2> QED BY <1>1, <1>2, <1>5, <2>1, <2>2
  <1> QED BY <1>7, <1>8, <1>9, <1>10, <1>11, <1>13, <1>14 DEF DocInv

(* A node applies the next entry: it makes what the history has made of it.  *)
LEMMA ApplyEntryDocInv ==
  ASSUME DocInv, NEW n \in Node, ApplyEntry(n)
  PROVE  DocInv'
  <1> DEFINE e == log[lastApplied[n] + 1]
  <1>1. /\ log \in Seq(RaftLogEntry) /\ doc \in [Node -> DocumentState]
        /\ lastApplied \in [Node -> Nat] /\ lastApplied[n] < Len(log)
        /\ callbacks \in [Node -> Seq(ApplyResult)] /\ skipped \in [Node -> BOOLEAN]
        /\ Len(log) \in Nat
    BY DEF DocInv, DocTypeOK, ApplyEntry
  <1>2. e \in RaftLogEntry /\ e.fits \in BOOLEAN
    <2>1. lastApplied[n] + 1 \in 1..Len(log)
      BY <1>1
    <2>2. e \in RaftLogEntry
      BY <1>1, <2>1
    <2> QED BY <2>2 DEF RaftLogEntry
  <1>3. PICK fits \in IF skipped[n] THEN BOOLEAN ELSE {e.fits} :
          /\ doc' = [doc EXCEPT ![n] = AfterEntry(@, e, fits)]
          /\ callbacks' = [callbacks EXCEPT ![n] = @ \o ResultOf(doc[n], e, fits)]
    BY DEF ApplyEntry
  <1>4. /\ fits \in BOOLEAN
        /\ ~skipped[n] => fits = e.fits
    BY <1>1, <1>2, <1>3
  <1>5. /\ lastApplied' = [lastApplied EXCEPT ![n] = @ + 1]
        /\ reached' = IF HeadRev(doc'[n]) > reached THEN HeadRev(doc'[n]) ELSE reached
        /\ UNCHANGED <<log, faults, submitted, documents, skipped, unread>>
    BY DEF ApplyEntry
  <1> HIDE DEF e
  <1>6. /\ AfterEntry(doc[n], e, fits) \in DocumentState
        /\ ResultOf(doc[n], e, fits) \in Seq(ApplyResult)
    BY <1>1, <1>2, <1>4, AfterEntryType, ResultOfType
  <1>7. DocTypeOK'
    <2>1. doc' \in [Node -> DocumentState] /\ callbacks' \in [Node -> Seq(ApplyResult)]
      BY <1>1, <1>3, <1>6
    <2>2. lastApplied' \in [Node -> Nat]
      BY <1>1, <1>5
    <2>3. reached' \in Nat
      <3>1. doc'[n] \in DocumentState /\ reached \in Nat
        BY <2>1 DEF DocInv, DocTypeOK
      <3>2. HeadRev(doc'[n]) \in Nat
        BY <3>1 DEF HeadRev, DocumentState
      <3> QED BY <1>5, <3>1, <3>2
    <2> QED BY <1>5, <2>1, <2>2, <2>3 DEF DocInv, DocTypeOK
  <1>8. HistoryOK'
    BY <1>5 DEF DocInv, HistoryOK
  <1>9. PassedInLog'
    BY <1>1, <1>5 DEF DocInv, PassedInLog
  <1>10. ReplicasAgree'
    <2> SUFFICES ASSUME NEW m \in Node, ~skipped[m]
                 PROVE  doc'[m] = documents[lastApplied'[m] + 1]
      BY <1>5 DEF ReplicasAgree
    <2>1. CASE m # n
      BY <1>1, <1>3, <1>5, <2>1 DEF DocInv, ReplicasAgree
    <2>2. CASE m = n
      <3>1. doc'[n] = AfterEntry(doc[n], e, e.fits) /\ lastApplied'[n] = lastApplied[n] + 1
        BY <1>1, <1>3, <1>4, <1>5, <2>2
      <3>2. doc[n] = documents[lastApplied[n] + 1]
        BY <2>2 DEF DocInv, ReplicasAgree
      <3>3. documents[lastApplied[n] + 2] = AfterEntry(documents[lastApplied[n] + 1], e, e.fits)
        <4>1. lastApplied[n] + 1 \in 1..Len(log) /\ (lastApplied[n] + 1) + 1 = lastApplied[n] + 2
          BY <1>1
        <4> QED BY <4>1 DEF DocInv, HistoryOK, e
      <3>4. lastApplied'[n] + 1 = lastApplied[n] + 2
        BY <1>1, <3>1
      <3> QED BY <2>2, <3>1, <3>2, <3>3, <3>4
    <2> QED BY <2>1, <2>2
  <1>11. Guarded'
    <2>1. GuardedDocument(AfterEntry(doc[n], e, fits))
      BY <1>1, <1>2, <1>4, AfterEntryGuarded DEF DocInv, Guarded
    <2> QED BY <1>1, <1>3, <2>1 DEF DocInv, Guarded
  <1>12. ReachedOK'
    <2>1. \A i \in DOMAIN documents : HeadRev(documents[i]) <= HeadRev(Final)
      BY DEF DocInv, ReachedOK
    <2>2. Final' = Final
      BY <1>5 DEF Final
    <2>3. ASSUME ~unread PROVE reached' <= HeadRev(Final) /\ \A m \in Node : ~skipped[m]
      <3>1. reached <= HeadRev(Final) /\ \A m \in Node : ~skipped[m]
        BY <2>3 DEF DocInv, ReachedOK
      <3>2. doc'[n] = documents[lastApplied'[n] + 1]
        BY <1>5, <1>10, <3>1 DEF ReplicasAgree
      <3>3. lastApplied'[n] + 1 \in DOMAIN documents
        <4>1. Len(documents) = Len(log) + 1 /\ documents \in Seq(DocumentState)
          BY DEF DocInv, DocTypeOK, HistoryOK
        <4>2. lastApplied'[n] = lastApplied[n] + 1
          BY <1>1, <1>5
        <4> QED BY <1>1, <4>1, <4>2
      <3>4. HeadRev(doc'[n]) <= HeadRev(Final)
        BY <2>1, <3>2, <3>3
      <3> QED BY <1>5, <3>1, <3>4
    <2> QED BY <1>5, <2>1, <2>2, <2>3 DEF ReachedOK, HeadRev
  <1>13. BasesExist'
    BY <1>5 DEF DocInv, BasesExist, HeadRev
  <1> QED BY <1>7, <1>8, <1>9, <1>10, <1>11, <1>12, <1>13 DEF DocInv

(* A node fails to read an entry: it is no longer compared with the others.  *)
LEMMA SkipEntryDocInv ==
  ASSUME DocInv, NEW n \in Node, SkipEntry(n)
  PROVE  DocInv'
  <1>1. /\ lastApplied \in [Node -> Nat] /\ skipped \in [Node -> BOOLEAN]
        /\ faults \in Nat /\ lastApplied[n] < Len(log) /\ Len(log) \in Nat
    BY DEF DocInv, DocTypeOK, SkipEntry
  <1>2. /\ faults' = faults + 1
        /\ lastApplied' = [lastApplied EXCEPT ![n] = @ + 1]
        /\ skipped' = [skipped EXCEPT ![n] = TRUE]
        /\ unread' = TRUE
        /\ UNCHANGED <<log, doc, callbacks, submitted, documents, reached>>
    BY DEF SkipEntry, Fault
  <1>3. DocTypeOK'
    BY <1>1, <1>2 DEF DocInv, DocTypeOK
  <1>4. HistoryOK' /\ Guarded'
    BY <1>2 DEF DocInv, HistoryOK, Guarded
  <1>5. PassedInLog'
    BY <1>1, <1>2 DEF DocInv, PassedInLog
  <1>6. ReplicasAgree'
    BY <1>1, <1>2 DEF DocInv, ReplicasAgree
  <1>7. ReachedOK' /\ BasesExist'
    BY <1>2 DEF DocInv, ReachedOK, BasesExist, Final, HeadRev
  <1> QED BY <1>3, <1>4, <1>5, <1>6, <1>7 DEF DocInv

(* A process starts again with nothing and is to be given everything.        *)
LEMMA RestartDocInv ==
  ASSUME DocInv, NEW n \in Node, RestartDocument(n)
  PROVE  DocInv'
  <1>1. /\ lastApplied \in [Node -> Nat] /\ doc \in [Node -> DocumentState]
        /\ callbacks \in [Node -> Seq(ApplyResult)] /\ skipped \in [Node -> BOOLEAN]
        /\ faults \in Nat /\ Len(log) \in Nat
    BY DEF DocInv, DocTypeOK
  <1>2. /\ faults' = faults + 1
        /\ lastApplied' = [lastApplied EXCEPT ![n] = 0]
        /\ doc' = [doc EXCEPT ![n] = EmptyDocument]
        /\ callbacks' = [callbacks EXCEPT ![n] = <<>>]
        /\ skipped' = [skipped EXCEPT ![n] = FALSE]
        /\ UNCHANGED <<log, submitted, documents, unread, reached>>
    BY DEF RestartDocument, Fault, FreshDocument
  <1>3. DocTypeOK'
    <2>1. callbacks' \in [Node -> Seq(ApplyResult)]
      BY <1>1, <1>2
    <2>2. doc' \in [Node -> DocumentState]
      BY <1>1, <1>2, EmptyDocumentType
    <2> QED BY <1>1, <1>2, <2>1, <2>2 DEF DocInv, DocTypeOK
  <1>4. HistoryOK'
    BY <1>2 DEF DocInv, HistoryOK
  <1>5. PassedInLog'
    BY <1>1, <1>2 DEF DocInv, PassedInLog
  <1>6. ReplicasAgree'
    <2> SUFFICES ASSUME NEW m \in Node, ~skipped'[m]
                 PROVE  doc'[m] = documents[lastApplied'[m] + 1]
      BY <1>2 DEF ReplicasAgree
    <2>1. CASE m # n
      BY <1>1, <1>2, <2>1 DEF DocInv, ReplicasAgree
    <2>2. CASE m = n
      BY <1>1, <1>2, <2>2 DEF DocInv, HistoryOK
    <2> QED BY <2>1, <2>2
  <1>7. Guarded'
    BY <1>1, <1>2, EmptyDocumentType DEF DocInv, Guarded
  <1>8. \A m \in Node : skipped'[m] => skipped[m]
    BY <1>1, <1>2
  <1>9. ReachedOK' /\ BasesExist'
    BY <1>2, <1>8 DEF DocInv, ReachedOK, BasesExist, Final, HeadRev
  <1> QED BY <1>3, <1>4, <1>5, <1>6, <1>7, <1>9 DEF DocInv

(* A goroutine of onCommit runs.                                             *)
LEMMA RunCallbackDocInv ==
  ASSUME DocInv, NEW n \in Node, NEW i \in DOMAIN callbacks[n], RunCallback(n, i)
  PROVE  DocInv'
  <1>1. callbacks \in [Node -> Seq(ApplyResult)] /\ callbacks[n] \in Seq(ApplyResult)
    BY DEF DocInv, DocTypeOK
  <1>2. i \in 1..Len(callbacks[n])
    BY <1>1
  <1> DEFINE rest == SubSeq(callbacks[n], 1, i - 1)
                       \o SubSeq(callbacks[n], i + 1, Len(callbacks[n]))
  <1>3. rest \in Seq(ApplyResult)
    <2>1. SubSeq(callbacks[n], 1, i - 1) \in Seq(ApplyResult)
      BY <1>1, <1>2
    <2>2. SubSeq(callbacks[n], i + 1, Len(callbacks[n])) \in Seq(ApplyResult)
      BY <1>1, <1>2
    <2> QED BY <2>1, <2>2
  <1>4. /\ callbacks' = [callbacks EXCEPT ![n] = rest]
        /\ UNCHANGED <<log, lastApplied, doc, faults, submitted, documents, skipped, unread,
                       reached>>
    BY DEF RunCallback
  <1> HIDE DEF rest
  <1>5. callbacks' \in [Node -> Seq(ApplyResult)]
    BY <1>1, <1>3, <1>4
  <1> QED BY <1>4, <1>5
          DEF DocInv, DocTypeOK, HistoryOK, PassedInLog, ReplicasAgree, Guarded, ReachedOK,
              BasesExist, Final, HeadRev

(* A client numbers a submission.                                            *)
LEMMA NewSubmissionDocInv ==
  ASSUME DocInv, NEW c \in Client, NewSubmission(c)
  PROVE  DocInv'
  <1>1. /\ submitted' = [submitted EXCEPT ![c] = @ + 1]
        /\ UNCHANGED <<log, lastApplied, doc, callbacks, faults, documents, skipped, unread,
                       reached>>
    BY DEF NewSubmission
  <1>2. submitted' \in [Client -> Nat]
    BY <1>1 DEF DocInv, DocTypeOK
  <1> QED BY <1>1, <1>2
          DEF DocInv, DocTypeOK, HistoryOK, PassedInLog, ReplicasAgree, Guarded, ReachedOK,
              BasesExist, Final, HeadRev

(* No step breaks the invariant.                                             *)
LEMMA NextDocInv == DocInv /\ [DocNext]_docVars => DocInv'
  <1> SUFFICES ASSUME DocInv, [DocNext]_docVars PROVE DocInv'
    OBVIOUS
  <1>1. ASSUME NEW c \in Client, NEW b \in 0..reached, NEW f \in BOOLEAN,
               NEW s \in 1..submitted[c],
               Commit([client |-> c, sub |-> s, base |-> b, fits |-> f])
        PROVE  DocInv'
    <2>1. reached \in Nat /\ submitted[c] \in Nat
      BY DEF DocInv, DocTypeOK
    <2>2. /\ [client |-> c, sub |-> s, base |-> b, fits |-> f] \in RaftLogEntry
          /\ b <= reached
      BY <2>1 DEF RaftLogEntry
    <2> QED BY <1>1, <2>2, CommitDocInv
  <1>2. ASSUME NEW n \in Node, ApplyEntry(n) PROVE DocInv'
    BY <1>2, ApplyEntryDocInv
  <1>3. ASSUME NEW n \in Node, SkipEntry(n) PROVE DocInv'
    BY <1>3, SkipEntryDocInv
  <1>4. ASSUME NEW n \in Node, RestartDocument(n) PROVE DocInv'
    BY <1>4, RestartDocInv
  <1>5. ASSUME NEW n \in Node, NEW i \in DOMAIN callbacks[n], RunCallback(n, i)
        PROVE  DocInv'
    BY <1>5, RunCallbackDocInv
  <1>6. CASE Fault /\ UNCHANGED committedVars
    BY <1>6 DEF Fault, committedVars, DocInv, DocTypeOK, HistoryOK, PassedInLog,
                ReplicasAgree, Guarded, ReachedOK, BasesExist, Final, HeadRev
  <1>7. CASE UNCHANGED docVars
    BY <1>7 DEF docVars, DocInv, DocTypeOK, HistoryOK, PassedInLog, ReplicasAgree, Guarded,
                ReachedOK, BasesExist, Final, HeadRev
  <1>8. ASSUME NEW c \in Client, NewSubmission(c) PROVE DocInv'
    BY <1>8, NewSubmissionDocInv
  <1> QED BY <1>1, <1>2, <1>3, <1>4, <1>5, <1>6, <1>7, <1>8 DEF DocNext

(* The state machines of fsm.go through any commits, missed entries and      *)
(* restarts: the history and the nodes fit together.                         *)
THEOREM DocumentInvariant == DocSpec => []DocInv
  BY InitDocInv, NextDocInv, PTL DEF DocSpec

-----------------------------------------------------------------------------
(* The results *)

(* Every variable of the state machines has its type.                        *)
THEOREM DocumentTypes == DocSpec => []DocTypeOK
  <1>1. DocInv => DocTypeOK
    BY DEF DocInv
  <1> QED BY DocumentInvariant, <1>1, PTL

(* Nodes that have missed no entry have the same document at the same place  *)
(* of the log, whatever restarts and replays lie behind them (fsm.go:7-9).   *)
THEOREM ReplicasAlwaysAgree == DocSpec => []ReplicasAgree
  <1>1. DocInv => ReplicasAgree
    BY DEF DocInv
  <1> QED BY DocumentInvariant, <1>1, PTL

(* No node makes two revisions of one submission, however often and in       *)
(* whatever order submissions are committed (fsm.go:14).                     *)
THEOREM SubmissionsAppliedOnce == DocSpec => []AppliedOnce
  <1>1. DocInv => AppliedOnce
    BY DEF DocInv, Guarded, GuardedDocument, AppliedOnce
  <1> QED BY DocumentInvariant, <1>1, PTL

(* Entries whose base revision some node had reached when they were committed *)
(* never have a base beyond the document they are applied to (fsm.go:118):    *)
(* not after the restart of that node either, unless a node has failed to     *)
(* read an entry.                                                             *)
THEOREM BasesAlwaysExist == DocSpec => []BasesExist
  <1>1. DocInv => BasesExist
    BY DEF DocInv
  <1> QED BY DocumentInvariant, <1>1, PTL
=============================================================================
