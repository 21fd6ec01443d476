----------------------------- MODULE UnifiedDiff -----------------------------
(***************************************************************************)
(* unified_diff: what changed between two texts, as hunks of lines with    *)
(* context.  FileWrite spans have it for an output.  A text is a sequence  *)
(* of lines, so that two texts which differ in the newline at their end    *)
(* are the same.  How a hunk is printed is left out.                       *)
(***************************************************************************)
EXTENDS Integers, Sequences, FiniteSets, FiniteSetsExt, SequencesExt

CONSTANTS
    Context,    \* lines kept around a change, 3 in the code
    MaxCells    \* size of the table above which no common lines are looked for

Tags == {"keep", "remove", "add"}

Tagged(tag, lines) == [k \in DOMAIN lines |-> [tag |-> tag, line |-> lines[k]]]

From(lines, k) == SubSeq(lines, k, Len(lines))

\* lcs[i, j]: the length of a longest common subsequence of a from i and b from j.
CommonTable(a, b) ==
    LET lcs[i \in 1 .. Len(a) + 1, j \in 1 .. Len(b) + 1] ==
            IF i > Len(a) \/ j > Len(b) THEN 0
            ELSE IF a[i] = b[j] THEN lcs[i + 1, j + 1] + 1
            ELSE Max({lcs[i + 1, j], lcs[i, j + 1]})
    IN  lcs

\* The lines of both, each with what becomes of it: the walk down the table
\* prefers to remove.
Operations(a, b) ==
    LET lcs == CommonTable(a, b)
        walk[i \in 1 .. Len(a) + 1, j \in 1 .. Len(b) + 1] ==
            IF i > Len(a) \/ j > Len(b)
            THEN Tagged("remove", From(a, i)) \o Tagged("add", From(b, j))
            ELSE IF a[i] = b[j] THEN Tagged("keep", <<a[i]>>) \o walk[i + 1, j + 1]
            ELSE IF lcs[i + 1, j] >= lcs[i, j + 1]
            THEN Tagged("remove", <<a[i]>>) \o walk[i + 1, j]
            ELSE Tagged("add", <<b[j]>>) \o walk[i, j + 1]
    IN  IF Len(a) * Len(b) > MaxCells
        THEN Tagged("remove", a) \o Tagged("add", b)
        ELSE walk[1, 1]

\* The stretches of operations near a change; those that touch are one.
HunkBounds(ops) ==
    LET near == {k \in DOMAIN ops :
                    \E c \in DOMAIN ops : ops[c].tag # "keep" /\ c - Context <= k /\ k <= c + Context}
    IN  {h \in near \X near :
            h[1] .. h[2] \subseteq near /\ h[1] - 1 \notin near /\ h[2] + 1 \notin near}

CountNot(ops, tag) == Cardinality({k \in DOMAIN ops : ops[k].tag # tag})

\* A hunk and its header: where it is in the old and in the new text, counted
\* from 1, or from 0 when it has no line of it.
Hunk(ops, s, e) ==
    LET before == SubSeq(ops, 1, s - 1)
        body   == SubSeq(ops, s, e)
        place(tag) == CountNot(before, tag) + (IF CountNot(body, tag) > 0 THEN 1 ELSE 0)
    IN  [oldStart |-> place("add"),    oldLen |-> CountNot(body, "add"),
         newStart |-> place("remove"), newLen |-> CountNot(body, "remove"),
         body |-> body]

Diff(a, b) ==
    LET ops  == Operations(a, b)
        ends == SetToSortSeq(HunkBounds(ops), LAMBDA p, q : p[1] < q[1])
    IN  IF a = b THEN <<>> ELSE [k \in DOMAIN ends |-> Hunk(ops, ends[k][1], ends[k][2])]

----------------------------------------------------------------------------
(* Reference: what patch(1) makes of a diff                                *)

Lines(body, tags) ==
    LET kept == SelectSeq(body, LAMBDA op : op.tag \in tags)
    IN  [k \in DOMAIN kept |-> kept[k].line]

\* The first line after, and the last line before a hunk, in a text in which it
\* starts at "start" and has "len" lines.
Before(start, len) == IF len = 0 THEN start ELSE start - 1
After(start, len)  == Before(start, len) + len + 1

\* A hunk fits at its place in the old text, and the text between two hunks is
\* the same in both.
Applies(hunks, a, b) ==
    LET fits(h) ==
            /\ SubSeq(a, Before(h.oldStart, h.oldLen) + 1, After(h.oldStart, h.oldLen) - 1)
                  = Lines(h.body, {"keep", "remove"})
            /\ SubSeq(b, Before(h.newStart, h.newLen) + 1, After(h.newStart, h.newLen) - 1)
                  = Lines(h.body, {"keep", "add"})
        oldFrom(k) == IF k = 0 THEN 1 ELSE After(hunks[k].oldStart, hunks[k].oldLen)
        newFrom(k) == IF k = 0 THEN 1 ELSE After(hunks[k].newStart, hunks[k].newLen)
        oldTo(k) == IF k = Len(hunks) THEN Len(a)
                    ELSE Before(hunks[k + 1].oldStart, hunks[k + 1].oldLen)
        newTo(k) == IF k = Len(hunks) THEN Len(b)
                    ELSE Before(hunks[k + 1].newStart, hunks[k + 1].newLen)
    IN  /\ \A k \in DOMAIN hunks : fits(hunks[k])
        /\ \A k \in 0 .. Len(hunks) :
              SubSeq(a, oldFrom(k), oldTo(k)) = SubSeq(b, newFrom(k), newTo(k))

\* The length of a longest common subsequence, from all of them.
Longest(a, b) ==
    LET chosen(text, S) == LET s == SetToSortSeq(S, <) IN [k \in DOMAIN s |-> text[s[k]]]
    IN  Max({Cardinality(S) : S \in
            {T \in SUBSET DOMAIN a :
                \E U \in SUBSET DOMAIN b : chosen(a, T) = chosen(b, U)}})

\* The diff of two texts applies to the one and gives the other, and keeps as
\* many lines as it can while the table is small enough.
DiffIsRight(a, b) ==
    /\ Applies(Diff(a, b), a, b)
    /\ Len(a) * Len(b) <= MaxCells =>
          Cardinality({k \in DOMAIN Operations(a, b) : Operations(a, b)[k].tag = "keep"})
              = Longest(a, b)
=============================================================================
