------------------------ MODULE MCWorkspaceTimeline ------------------------
(***************************************************************************)
(* WorkspaceTimeline on trees: what its points and its sandbox hold, and   *)
(* what a step of the walk does to it.                                     *)
(***************************************************************************)
EXTENDS WorkspaceTimeline, TLC
LOCAL INSTANCE SequencesExt

\* A file of the timeline is a path that may hold anything.
PathsOf(f) == <<<<f>>, <<f, "b">>>>
OnDisk == INSTANCE WorkspaceArchive WITH
              PathOrder <- FlattenSeq([i \in 1 .. Cardinality(Files) |-> PathsOf(SetToSeq(Files)[i])]),
              Privileged <- FALSE

\* Recorded contents are nothing, a file, a directory with a file in it, a link and
\* another file; re-executed spans leave files and a directory.
Holds(f, content) ==
    LET filled(c) == (<<f>> :> OnDisk!Dir("rw")) @@ (<<f, "b">> :> OnDisk!File("rw", c))
    IN  CASE content = Initial -> <<>>
          [] content = 2       -> filled(content)
          [] content = -2      -> filled(content)
          [] content = 3       -> (<<f>> :> OnDisk!Link(<<"elsewhere">>))
          [] OTHER             -> (<<f>> :> OnDisk!File("rw", content))
Tree(ws) ==
    LET held == [f \in Files |-> Holds(f, ws[f])]
    IN  [p \in UNION {DOMAIN held[f] : f \in Files} |-> held[p[1]][p]]

\* What the walk does to the sandbox is what apply_transition does to a directory,
\* whatever the re-executed spans have made of it: what stands at a changed path,
\* of whichever kind, gives way to what was recorded.
StepsAreTransitions ==
    [][cursor' # cursor /\ phase' = phase /\ Applies(cursor) =>
          OnDisk!ApplyTransition(Tree(points[cursor].files), Tree(points[cursor + 1].files),
                                 Tree(sandbox)) = {Tree(sandbox')}]_vars

----------------------------------------------------------------------------
(* Small trees: at "a" anything, at "c" what a link may lead to.           *)

A == <<"a">>
AB == <<"a", "b">>
C == <<"c">>
CB == <<"c", "b">>

Archive(privileged) ==
    INSTANCE WorkspaceArchive WITH PathOrder <- <<A, AB, C, CB>>, Privileged <- privileged

NoTree == [p \in {} |-> {}]
Single(p, entry) == [q \in {p} |-> entry]
Join(t, u) == [p \in DOMAIN t \cup DOMAIN u |-> IF p \in DOMAIN t THEN t[p] ELSE u[p]]

FilesOf(modes) == {Archive(TRUE)!File(m, c) : m \in modes, c \in {"1", "2"}}
DirsAt(p, q, modes, held) ==
    {Join(Single(p, Archive(TRUE)!Dir(m)), u) :
        m \in modes, u \in {NoTree} \cup {Single(q, f) : f \in held}}

AtA(modes) ==
    {NoTree, Single(A, Archive(TRUE)!Link(C))}
      \cup {Single(A, f) : f \in FilesOf(modes)}
      \cup DirsAt(A, AB, modes, FilesOf(modes))
AtC == {NoTree} \cup DirsAt(C, CB, {"rw"}, FilesOf({"rw"}))

Trees(modes) == {Join(t, u) : t \in AtA(modes), u \in AtC}
AllModes == {"rw", "ro"}

\* Restoring a capture brings back the workspace, read-only directories included,
\* also for a process without privileges; a recorded transition, applied to the
\* workspace it was recorded from, makes the one it was recorded to; and applied to
\* what re-executed spans have left it touches only what was recorded.  The diff of
\* two workspaces shows all files that differ.
ArchivesAreExact ==
    /\ Archive(FALSE)!RestoreIsExact(Trees(AllModes))
    /\ Archive(TRUE)!TransitionIsExact(Trees(AllModes))
    /\ Archive(FALSE)!TransitionIsExact(Trees({"rw"}))
    /\ Archive(TRUE)!TransitionIsLocal(Trees({"rw"}))
    /\ \A before, after \in Trees(AllModes) :
          Archive(TRUE)!SameKinds(before, after) => Archive(TRUE)!DiffShowsFiles(before, after)
ASSUME ArchivesAreExact

\* "Directory modes last so read-only directories can be filled" (comment in
\* restore) does not hold of apply_transition: it sets the mode of a directory
\* before it fills it, and it cannot write to a read-only file nor remove one from
\* a read-only directory.  Without privileges the replay fails there.
ReadOnlyIsReplayed == Archive(FALSE)!TransitionIsExact(Trees(AllModes))

\* A file that has become a directory or a link is not shown: what counts is what
\* the path is later.
DiffShowsAll ==
    \A before, after \in Trees(AllModes) : Archive(TRUE)!DiffShowsFiles(before, after)
=============================================================================
