-------------------------- MODULE WorkspaceArchive --------------------------
(***************************************************************************)
(* The archive of a workspace: what a capture holds of a directory, and how *)
(* an archive is restored and the changes between two archives are applied *)
(* to a directory that others have written to meanwhile.                   *)
(*                                                                         *)
(* A tree is a function from the paths below its root to entries; a path   *)
(* is a sequence of names.  Only first names may be links, and no link     *)
(* leads to a link.  An operation that may fail returns the set of the     *)
(* trees it can leave behind: one, or none if it fails, which ends the     *)
(* replay.                                                                 *)
(***************************************************************************)
EXTENDS Naturals, Sequences, SequencesExt, FiniteSets

CONSTANTS
    PathOrder,   \* all paths, sorted: parents before what is below them
    Privileged   \* the process may write to what is read-only

Paths == ToSet(PathOrder)
Root  == <<>>

Dir(mode)           == [kind |-> "dir",  mode |-> mode]
File(mode, content) == [kind |-> "file", mode |-> mode, content |-> content]
Link(path)          == [kind |-> "link", target |-> path]

Below(p, q) == IsStrictPrefix(p, q)

IsDir(t, p)    == p = Root \/ (p \in DOMAIN t /\ t[p].kind = "dir")
Has(t, p)      == p \in DOMAIN t
Writable(t, p) == Privileged \/ p = Root \/ t[p].mode = "rw"

Put(t, p, entry) == [q \in DOMAIN t \cup {p} |-> IF q = p THEN entry ELSE t[q]]
Without(t, p) ==
    [q \in {q \in DOMAIN t : q # p /\ ~Below(p, q)} |-> t[q]]

\* Where the system finds p: through the link that its first name may be.
At(t, p) ==
    IF Len(p) > 1 /\ Has(t, <<p[1]>>) /\ t[<<p[1]>>].kind = "link"
    THEN t[<<p[1]>>].target \o Tail(p) ELSE p

----------------------------------------------------------------------------
(* Capture                                                                 *)

\* capture_with: directories, files and links below the root; what is excluded is
\* not looked into, and sockets and devices are no part of it.
Capture(t, exclude) ==
    [p \in {p \in DOMAIN t : /\ t[p].kind \in {"dir", "file", "link"}
                             /\ \A x \in exclude : p # x /\ ~Below(x, p)} |-> t[p]]

----------------------------------------------------------------------------
(* Writing                                                                 *)

\* remove_path: a directory with all that is below it.
RemovePath(t, p) ==
    IF /\ Writable(t, Front(p))
       /\ \A q \in DOMAIN t : Below(p, q) => Writable(t, Front(q))
    THEN {Without(t, p)} ELSE {}

\* create_dir_all: p and the directories above it, as far as they are missing.
CreateDirAll(t, p) ==
    LET make(trees, n) ==
            LET q == SubSeq(p, 1, n)
            IN  UNION {IF IsDir(u, q) THEN {u}
                       ELSE IF Has(u, q) \/ ~Writable(u, Front(q)) THEN {}
                       ELSE {Put(u, q, Dir("rw"))} : u \in trees}
    IN  FoldLeft(make, {t}, [n \in 1 .. Len(p) |-> n])

\* fs::write and set_mode: to write to a file that exists it must not be read-only.
WriteFile(t, p, entry) ==
    LET cleared == UNION {IF Has(u, p) /\ u[p].kind # "file" THEN RemovePath(u, p) ELSE {u} :
                             u \in CreateDirAll(t, Front(p))}
    IN  {Put(u, p, entry) :
            u \in {w \in cleared : Writable(w, IF Has(w, p) THEN p ELSE Front(p))}}

WriteLink(t, p, entry) ==
    LET cleared == UNION {IF Has(u, p) THEN RemovePath(u, p) ELSE {u} :
                             u \in CreateDirAll(t, Front(p))}
    IN  {Put(u, p, entry) : u \in {w \in cleared : Writable(w, Front(p))}}

WriteDir(t, p) ==
    UNION {CreateDirAll(u, p) :
              u \in IF Has(t, p) /\ t[p].kind # "dir" THEN RemovePath(t, p) ELSE {t}}

\* A link on the way must lead to a directory.
WriteEntry(t, path, entry) ==
    LET p == At(t, path)
    IN  IF p # path /\ ~IsDir(t, Front(p)) THEN {}
        ELSE CASE entry.kind = "dir"  -> WriteDir(t, p)
               [] entry.kind = "file" -> WriteFile(t, p, entry)
               [] entry.kind = "link" -> WriteLink(t, p, entry)

SetMode(t, path, mode) == Put(t, At(t, path), Dir(mode))

----------------------------------------------------------------------------
(* Restore                                                                 *)

\* Into an empty directory; the modes of the directories come last, so that
\* read-only ones can be filled.
Restore(archive) ==
    LET entries == SelectSeq(PathOrder, LAMBDA p : Has(archive, p))
        write(trees, p) == UNION {WriteEntry(t, p, archive[p]) : t \in trees}
        finish(trees, p) ==
            IF archive[p].kind # "dir" THEN trees
            ELSE {SetMode(t, p, archive[p].mode) : t \in trees}
    IN  FoldLeft(finish, FoldLeft(write, {<<>>}, entries), Reverse(entries))

----------------------------------------------------------------------------
(* Transitions                                                             *)

Removed(before, after) == DOMAIN before \ DOMAIN after
Written(before, after) ==
    {p \in DOMAIN after : Has(before, p) => before[p] # after[p]}

\* changes_to, without the kind of the change.
Changes(before, after) == Removed(before, after) \cup Written(before, after)

\* apply_transition: removals from below, then writes from above, with the mode
\* of a directory set before it is filled.
ApplyTransition(before, after, tree) ==
    LET removals == SelectSeq(Reverse(PathOrder), LAMBDA p : p \in Removed(before, after))
        writes   == SelectSeq(PathOrder, LAMBDA p : p \in Written(before, after))
        remove(trees, p) ==
            UNION {IF Has(t, At(t, p)) THEN RemovePath(t, At(t, p)) ELSE {t} : t \in trees}
        write(trees, p) ==
            UNION {{IF after[p].kind = "dir" THEN SetMode(u, p, after[p].mode) ELSE u :
                       u \in WriteEntry(t, p, after[p])} : t \in trees}
    IN  FoldLeft(write, FoldLeft(remove, {tree}, removals), writes)

\* diff_workspaces: the files that changed, outside the skipped directories.
DiffWorkspaces(before, after, skip) ==
    {p \in Changes(before, after) :
        /\ (IF Has(after, p) THEN after[p] ELSE before[p]).kind = "file"
        /\ \A x \in skip : p # x /\ ~Below(x, p)}

----------------------------------------------------------------------------
(* What they are for.  "Trees" are the trees considered.                   *)

\* What a capture holds is what a restore brings back.
RestoreIsExact(Trees) == \A t \in Trees : Restore(Capture(t, {})) = {t}

\* A transition takes the tree it was recorded from to the one it was recorded to.
TransitionIsExact(Trees) ==
    \A before, after \in Trees : ApplyTransition(before, after, before) = {after}

\* The paths a transition may touch in a tree: those that changed, what is below
\* them, and, if a link leads them elsewhere, where it leads.
Reach(before, after, tree) ==
    LET changed == Changes(before, after)
        there   == changed \cup {At(tree, p) : p \in changed}
    IN  there \cup {q \in Paths : \E p \in there : Below(p, q)}

\* Applied to the tree as re-executed spans have left it, a transition leaves
\* every path alone that it has not changed and that is not below one it has,
\* adds no others than directories that lead to one it has written, and if it
\* succeeds has done all it was to do, except where a link makes two paths one.
TransitionIsLocal(Trees) ==
    \A before, after, tree \in Trees :
        \A left \in ApplyTransition(before, after, tree) :
            /\ \A p \in Paths \ Reach(before, after, tree) :
                  IF Has(tree, p) THEN Has(left, p) /\ left[p] = tree[p]
                  ELSE Has(left, p) =>
                           \E q \in Written(before, after) : Below(p, q) /\ IsDir(left, p)
            /\ \A p \in Changes(before, after) :
                  (\A q \in Changes(before, after) : At(left, q) = At(left, p) => q = p) =>
                      IF p \in Removed(before, after) THEN ~Has(left, p)
                      ELSE Has(left, At(left, p)) /\ left[At(left, p)] = after[p]

\* The diff of two workspaces shows the files that one has and the other has not
\* or has otherwise.
DiffShowsFiles(before, after) ==
    DiffWorkspaces(before, after, {}) =
        {p \in Changes(before, after) :
            \E t \in {before, after} : Has(t, p) /\ t[p].kind = "file"}

\* Nothing is of two kinds in them.
SameKinds(before, after) ==
    \A p \in DOMAIN before \cap DOMAIN after : before[p].kind = after[p].kind
=============================================================================
