-------------------------------- MODULE MCOT --------------------------------
(***************************************************************************)
(* Two scenarios.  A user types: doc is the text the last tick of the       *)
(* submission timer left and typed the text in the editor, which the next  *)
(* tick turns into a changeset with DiffToChangeset.  And users meet: a    *)
(* document, a submitted changeset X, a concurrent changeset B of somebody *)
(* else and a local edit Y on top of X.                                    *)
(***************************************************************************)
EXTENDS OT, FiniteSetsExt, SequencesExt

CONSTANTS
    Docs,    \* the documents
    Texts,   \* what may be inserted at one place
    Char,    \* the characters a user types
    MaxText  \* bound: the length of a text before and after typing

VARIABLES stage, doc, typed, x, b, y

vars == <<stage, doc, typed, x, b, y>>

\* An edit of a document of length n, as a user would describe it: which
\* characters stay, and what goes before the first, between any two and after
\* the last one.
Edits(n) == [keep : [1..n -> BOOLEAN], ins : [0..n -> Texts \cup {<<>>}]]

\* The changeset of an edit: what DiffToChangeset and Follow make of it.
RECURSIVE BuildOps(_, _, _, _)
BuildOps(e, i, n, ops) ==
    LET withIns == IF e.ins[i] = <<>> THEN ops ELSE AddOp(ops, Insert(e.ins[i]))
    IN  IF i = n THEN withIns
        ELSE BuildOps(e, i + 1, n,
                 AddOp(withIns, IF e.keep[i + 1] THEN Retain(1) ELSE Delete(1)))

Build(e, n) ==
    LET ops == BuildOps(e, 0, n, <<>>)
    IN  Changeset(n, Total(ops, {"retain", "insert"}), ops)

\* One insertion or one deletion somewhere.
SimpleEdits(n) ==
    {Identity(n)}
      \cup {MakeInsert(n, pos, t) : pos \in 0..n, t \in Texts}
      \cup {MakeDelete(n, pc[1], pc[2]) :
              pc \in {q \in (0..n) \X (1..n) : q[1] + q[2] <= n}}

\* X and B are remembered as edits together with their changesets.
Unpicked == [edit |-> <<>>, cs |-> Identity(0)]

Init ==
    /\ \/ stage = "doc" /\ doc \in Docs
       \/ stage = "base" /\ doc \in SeqOf(Char, MaxText)
    /\ typed = <<>>
    /\ x = Unpicked /\ b = Unpicked /\ y = Identity(0)

TypeText ==
    /\ stage = "base" /\ stage' = "typed"
    /\ typed' \in SeqOf(Char, MaxText)
    /\ UNCHANGED <<doc, x, b, y>>

PickX ==
    /\ stage = "doc" /\ stage' = "x"
    /\ \E e \in Edits(Len(doc)) : x' = [edit |-> e, cs |-> Build(e, Len(doc))]
    /\ UNCHANGED <<doc, typed, b, y>>

PickB ==
    /\ stage = "x" /\ stage' = "b"
    /\ \E e \in Edits(Len(doc)) : b' = [edit |-> e, cs |-> Build(e, Len(doc))]
    /\ UNCHANGED <<doc, typed, x, y>>

PickY ==
    /\ stage = "b" /\ stage' = "y"
    /\ y' \in SimpleEdits(x.cs.newLen)
    /\ UNCHANGED <<doc, typed, x, b>>

Next == TypeText \/ PickX \/ PickB \/ PickY

Spec == Init /\ [][Next]_vars

\* Documents of up to two characters, and texts of which the longer one is
\* the smaller.
MCDocs == {<<>>, <<2>>, <<1, 3>>}
MCTexts == {<<2>>, <<1, 2>>}

-----------------------------------------------------------------------------
(* Properties *)

\* Two changesets in a row; an error of the first is an error of both.
Apply2(text, c, d) == UNION {ApplyChangeset(t, d) : t \in ApplyChangeset(text, c)}

\* What two users' concurrent edits should add up to: a character stays if both
\* keep it, and of two insertions at one place the smaller text comes first.
RECURSIVE MergeFrom(_, _, _)
MergeFrom(e, f, i) ==
    LET here == IF LexLeq(e.ins[i], f.ins[i]) THEN e.ins[i] \o f.ins[i]
                                             ELSE f.ins[i] \o e.ins[i]
    IN  IF i = Len(doc) THEN here
        ELSE here \o (IF e.keep[i + 1] /\ f.keep[i + 1] THEN <<doc[i + 1]>> ELSE <<>>)
                  \o MergeFrom(e, f, i + 1)

\* Follow yields the merge of both edits whichever of the two was first, so that
\* the server and every client agree and nobody's text is lost or doubled
\* (follow.go:8, "Apply(Apply(doc, A), B') == Apply(Apply(doc, B), A')").
FollowMerges ==
    stage = "b" =>
        LET merged == {MergeFrom(x.edit, b.edit, 0)}
        IN  /\ Apply2(doc, x.cs, Follow(x.cs, b.cs)) = merged
            /\ Apply2(doc, b.cs, Follow(b.cs, x.cs)) = merged

\* Compose is one changeset for two in a row (compose.go:10), also when the
\* second one was rebased.
ComposeAgrees ==
    /\ stage = "y" =>
          ApplyChangeset(doc, Compose(x.cs, y)) = Apply2(doc, x.cs, y)
    /\ stage = "b" =>
          LET c == Follow(b.cs, x.cs)
          IN  ApplyChangeset(doc, Compose(b.cs, c)) = Apply2(doc, b.cs, c)

Canonical(c) == \A i \in 1..(Len(c.ops) - 1) : c.ops[i].type # c.ops[i + 1].type

\* Whatever Follow and Compose return passes Validate and is canonical, as the
\* next Follow needs it: an op of length 0 would make its loop run for ever, and
\* split inserts would break the tie differently on the two sides.
ResultsValid ==
    stage = "y" =>
        \A c \in {Follow(b.cs, x.cs), Follow(x.cs, b.cs), Compose(x.cs, y),
                  RebasedY(x.cs, y, b.cs), ScreenDelta(x.cs, y, b.cs)} :
            Validate(c) /\ Canonical(c)

\* handleBroadcast keeps the screen and the client's model together: the text
\* shown after applying D is A'X'Y' (client.js:492-498).
ScreenFollowsModel ==
    stage = "y" =>
        UNION {ApplyChangeset(t, ScreenDelta(x.cs, y, b.cs)) : t \in Apply2(doc, x.cs, y)}
          = UNION {ApplyChangeset(t, RebasedY(x.cs, y, b.cs)) :
                     t \in Apply2(doc, b.cs, RebasedX(x.cs, b.cs))}

\* The subsequences of s and the length of the longest one that t has too.
Subsequences(s) ==
    {[i \in 1..Cardinality(I) |-> s[SetToSortSeq(I, <)[i]]] : I \in SUBSET (DOMAIN s)}

LongestCommon(s, t) ==
    Max({Len(u) : u \in Subsequences(s) \cap Subsequences(t)})

\* DiffToChangeset reproduces the new text with a changeset that Validate
\* accepts, and submitTick is skipped only when nothing has changed.
DiffReproduces ==
    stage = "typed" =>
        LET c == DiffToChangeset(doc, typed)
        IN  /\ ApplyChangeset(doc, c) = {typed}
            /\ Validate(c)
            /\ IsIdentity(c) <=> doc = typed

\* It is "the minimal changeset" (diff.go:11): it keeps as many characters as any
\* changeset between the two texts could.
DiffMinimal ==
    stage = "typed" =>
        Total(DiffToChangeset(doc, typed).ops, {"retain"})
          = LongestCommon(doc, typed)

=============================================================================
