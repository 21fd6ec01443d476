------------------------------ MODULE AppState ------------------------------
(***************************************************************************)
(* The state of the web app: one reducer, the effects that request what is *)
(* to be shown, and the answers, which arrive in any order or not at all.  *)
(*                                                                         *)
(* A click and the effects that it triggers are one step, as is an answer  *)
(* with all that it dispatches.  An effect runs when what it depends on    *)
(* has changed, and never cancels what an earlier one requested.           *)
(*                                                                         *)
(* A view is the run it shows.  Runs have the same span ids: a replay      *)
(* copies spans under their own.  Tabs, the run's record and the text of a *)
(* draft are left out.                                                     *)
(***************************************************************************)
EXTENDS Naturals

CONSTANTS Runs, SpanIds,
          None,       \* null
          MaxClicks   \* bound on selections, submissions and differences

ASSUME AppAssumption ==
    /\ MaxClicks \in Nat
    /\ None \notin Runs \cup SpanIds \cup [run : Runs, id : SpanIds]

Spans    == [run : Runs, id : SpanIds]
Retries  == 2
Drafts   == [run : Runs, fork : Spans]
Branches == [id : 1 .. MaxClicks, run : Runs, fork : Spans]

NotNull(f) == f # None
Nullable(S) == S \cup {None}

VARIABLES
    selectedRun, selectedSpan,
    runTree, timeline, forensics, spanEdges,
    spanDetail, branches, draft, diff, error,
    loading,    \* which views show that they load
    attempt,    \* at listing the runs
    listed,     \* whether the runs are listed
    requests,   \* those that have not been answered
    created,    \* the server's branches
    clicks

selection == <<selectedRun, selectedSpan>>
views     == <<runTree, timeline, forensics, spanEdges, spanDetail>>
branching == <<branches, draft, diff>>
runList   == <<attempt, listed>>
vars      == <<selection, views, branching, error, loading, runList,
               requests, created, clicks>>

Errors   == {"none", "runs", "tree", "detail", "branch"}
Loadings == {"runs", "tree", "detail", "timeline"}

\* A request is known by the click that caused it.  What the server read or
\* made is part of the answer.
Click  == 1 .. MaxClicks
Unread == {None}
Requests ==
    [kind : {"tree"}, nr : Click, run : Runs, list : {Unread} \cup SUBSET Branches]
        \cup [kind : {"timeline", "forensics"}, nr : Click, run : Runs]
        \cup [kind : {"detail"}, nr : Click, span : Spans]
        \cup [kind : {"create"}, nr : Click, draft : Drafts, made : BOOLEAN]
        \cup [kind : {"diff"}, nr : Click, branch : Branches]

TypeOK ==
    /\ selectedRun \in Nullable(Runs) /\ selectedSpan \in Nullable(SpanIds)
    /\ {runTree, timeline, forensics, spanEdges} \subseteq Nullable(Runs)
    /\ spanDetail \in Nullable(Spans)
    /\ branches \subseteq Branches /\ created \subseteq Branches
    /\ draft \in Nullable(Drafts) /\ diff \in Nullable(Branches)
    /\ error \in Errors /\ loading \subseteq Loadings
    /\ attempt \in 0 .. Retries /\ listed \in BOOLEAN
    /\ requests \subseteq Requests
    /\ clicks \in 0 .. MaxClicks

Init ==
    /\ selectedRun = None /\ selectedSpan = None
    /\ runTree = None /\ timeline = None /\ forensics = None /\ spanEdges = None
    /\ spanDetail = None /\ branches = {} /\ draft = None /\ diff = None
    /\ error = "none" /\ loading = {"runs"}
    /\ attempt = 0 /\ listed = FALSE
    /\ requests = {} /\ created = {} /\ clicks = 0

----------------------------------------------------------------------------
(* The list of runs, requested once, when the page opens                   *)

RunsLoaded ==
    /\ "runs" \in loading
    /\ listed' = TRUE
    /\ error' = "none" /\ loading' = loading \ {"runs"}
    /\ UNCHANGED <<selection, views, branching, attempt, requests, created, clicks>>

RunsRetry ==
    /\ "runs" \in loading /\ attempt < Retries
    /\ attempt' = attempt + 1
    /\ UNCHANGED <<selection, views, branching, error, loading, listed,
                   requests, created, clicks>>

RunsFail ==
    /\ "runs" \in loading /\ attempt = Retries
    /\ error' = "runs" /\ loading' = loading \ {"runs"}
    /\ UNCHANGED <<selection, views, branching, runList, requests, created, clicks>>

----------------------------------------------------------------------------
(* Clicks                                                                  *)

Clicks == clicks < MaxClicks /\ clicks' = clicks + 1

\* The effects of a new selection.  A selection made again changes nothing
\* they depend on.
RunRequests(r) ==
    IF r = selectedRun THEN {}
    ELSE {[kind |-> "tree", nr |-> clicks', run |-> r, list |-> Unread],
          [kind |-> "timeline", nr |-> clicks', run |-> r],
          [kind |-> "forensics", nr |-> clicks', run |-> r]}

DetailRequests(s) ==
    IF s = selectedSpan THEN {}
    ELSE {[kind |-> "detail", nr |-> clicks', span |-> [run |-> selectedRun, id |-> s]]}

\* Faulty variant: the timeline stays until the new one arrives.
SelectRunKeepsTimeline(r) ==
    /\ listed /\ Clicks
    /\ selectedRun' = r /\ selectedSpan' = None
    /\ runTree' = None /\ forensics' = None /\ spanDetail' = None
    /\ draft' = None /\ diff' = None
    /\ error' = "none" /\ loading' = loading \cup {"tree", "timeline"}
    /\ requests' = requests \cup RunRequests(r)
    /\ UNCHANGED <<timeline, spanEdges, branches, runList, created>>

SelectRun(r) ==
    /\ listed /\ Clicks
    /\ selectedRun' = r /\ selectedSpan' = None
    /\ runTree' = None /\ timeline' = None /\ forensics' = None /\ spanDetail' = None
    /\ draft' = None /\ diff' = None
    /\ error' = "none" /\ loading' = loading \cup {"tree", "timeline"}
    /\ requests' = requests \cup RunRequests(r)
    /\ UNCHANGED <<spanEdges, branches, runList, created>>

\* From the tree, the timeline, the failures or the difference shown.
SelectSpan(s) ==
    /\ \E shown \in {runTree, timeline, forensics, diff} : NotNull(shown)
    /\ Clicks
    /\ selectedSpan' = s
    /\ loading' = loading \cup {"detail"}
    /\ requests' = requests \cup DetailRequests(s)
    /\ UNCHANGED <<selectedRun, views, branching, error, runList, created>>

\* The tree and the inspector offer to branch from what they show.
Offered == {x \in Spans : x.run = runTree}
               \cup (IF "detail" \in loading THEN {} ELSE {spanDetail} \ {None})

StartDraft(x) ==
    /\ draft' = [run |-> selectedRun, fork |-> x]
    /\ UNCHANGED <<selection, views, branches, diff, error, loading, runList,
                   requests, created, clicks>>

CancelDraft ==
    /\ NotNull(draft)
    /\ draft' = None
    /\ UNCHANGED <<selection, views, branches, diff, error, loading, runList,
                   requests, created, clicks>>

\* The draft stays, and with it the button.
SubmitBranch ==
    /\ NotNull(draft) /\ Clicks
    /\ requests' = requests \cup
          {[kind |-> "create", nr |-> clicks', draft |-> draft, made |-> FALSE]}
    /\ UNCHANGED <<selection, views, branching, error, loading, runList, created>>

LoadDiff(b) ==
    /\ Clicks
    /\ requests' = requests \cup {[kind |-> "diff", nr |-> clicks', branch |-> b]}
    /\ UNCHANGED <<selection, views, branching, error, loading, runList, created>>

ClearError ==
    /\ error # "none"
    /\ error' = "none"
    /\ UNCHANGED <<selection, views, branching, loading, runList, requests, created,
                   clicks>>

----------------------------------------------------------------------------
(* The server                                                              *)

\* getBranches reads the list before the other three answers are there.
ReadBranches(q) ==
    /\ q.kind = "tree" /\ q.list = Unread
    /\ requests' = (requests \ {q}) \cup
          {[q EXCEPT !.list = {b \in created : b.run = q.run}]}
    /\ UNCHANGED <<selection, views, branching, error, loading, runList,
                   created, clicks>>

BranchOf(q) == [id |-> q.nr, run |-> q.draft.run, fork |-> q.draft.fork]

CreateBranch(q) ==
    /\ q.kind = "create" /\ ~q.made
    /\ created' = created \cup {BranchOf(q)}
    /\ requests' = (requests \ {q}) \cup {[q EXCEPT !.made = TRUE]}
    /\ UNCHANGED <<selection, views, branching, error, loading, runList, clicks>>

----------------------------------------------------------------------------
(* Answers                                                                 *)

\* Faulty variant: whatever is selected.
TreeLoadedLate(q, shown) ==
    /\ q.kind = "tree" /\ q.list # Unread
    /\ requests' = requests \ {q}
    /\ runTree' = shown /\ spanEdges' = q.run
    /\ branches' = q.list
    /\ loading' = loading \ {"tree"}
    /\ UNCHANGED <<selection, timeline, forensics, spanDetail, draft, diff, error,
                   runList, created, clicks>>

\* shown is null when the run has no spans.
TreeLoaded(q, shown) ==
    /\ q.kind = "tree" /\ q.list # Unread
    /\ requests' = requests \ {q}
    /\ \/ /\ q.run = selectedRun
          /\ runTree' = shown /\ spanEdges' = q.run
          /\ branches' = q.list
          /\ loading' = loading \ {"tree"}
       \/ q.run # selectedRun /\ UNCHANGED <<runTree, spanEdges, branches, loading>>
    /\ UNCHANGED <<selection, timeline, forensics, spanDetail, draft, diff, error,
                   runList, created, clicks>>

\* Faulty variant: only the error is set.
TreeFailedLoads(q) ==
    /\ q.kind = "tree"
    /\ requests' = requests \ {q}
    /\ error' = "tree"
    /\ UNCHANGED <<selection, views, branching, loading, runList, created, clicks>>

\* The error is shown even if another run has been selected.
TreeFailed(q) ==
    /\ q.kind = "tree"
    /\ requests' = requests \ {q}
    /\ error' = "tree"
    /\ \/ /\ q.run = selectedRun
          /\ runTree' = None /\ spanEdges' = None
          /\ branches' = {}
          /\ loading' = loading \ {"tree"}
       \/ q.run # selectedRun /\ UNCHANGED <<runTree, spanEdges, branches, loading>>
    /\ UNCHANGED <<selection, timeline, forensics, spanDetail, draft, diff,
                   runList, created, clicks>>

\* For these two the provider answers a failure with null.
TimelineLoaded(q, shown) ==
    /\ q.kind = "timeline"
    /\ requests' = requests \ {q}
    /\ \/ /\ q.run = selectedRun
          /\ timeline' = shown
          /\ loading' = loading \ {"timeline"}
       \/ q.run # selectedRun /\ UNCHANGED <<timeline, loading>>
    /\ UNCHANGED <<selection, runTree, forensics, spanEdges, spanDetail, branching,
                   error, runList, created, clicks>>

ForensicsLoaded(q, shown) ==
    /\ q.kind = "forensics"
    /\ requests' = requests \ {q}
    /\ forensics' = IF q.run = selectedRun THEN shown ELSE forensics
    /\ UNCHANGED <<selection, runTree, timeline, spanEdges, spanDetail, branching,
                   error, loading, runList, created, clicks>>

\* Faulty variant: any span of the run.
IsSelectedRun(x) == x.run = selectedRun

\* The answer is for what is selected now.
IsSelected(x) == x.run = selectedRun /\ x.id = selectedSpan

SpanLoaded(q) ==
    /\ q.kind = "detail"
    /\ requests' = requests \ {q}
    /\ \/ /\ IsSelected(q.span)
          /\ spanDetail' = q.span /\ spanEdges' = q.span.run
          /\ loading' = loading \ {"detail"}
       \/ ~IsSelected(q.span) /\ UNCHANGED <<spanDetail, spanEdges, loading>>
    /\ UNCHANGED <<selection, runTree, timeline, forensics, branching, error,
                   runList, created, clicks>>

SpanFailed(q) ==
    /\ q.kind = "detail"
    /\ requests' = requests \ {q}
    /\ error' = "detail"
    /\ \/ /\ IsSelected(q.span)
          /\ spanDetail' = None /\ spanEdges' = None
          /\ loading' = loading \ {"detail"}
       \/ ~IsSelected(q.span) /\ UNCHANGED <<spanDetail, spanEdges, loading>>
    /\ UNCHANGED <<selection, runTree, timeline, forensics, branching,
                   runList, created, clicks>>

\* Whatever is selected or drafted by now.
BranchCreated(q) ==
    /\ q.kind = "create" /\ q.made
    /\ requests' = requests \ {q}
    /\ draft' = None
    /\ branches' = branches \cup {BranchOf(q)}
    /\ error' = "none"
    /\ UNCHANGED <<selection, views, diff, loading, runList, created, clicks>>

BranchFailed(q) ==
    /\ q.kind = "create"
    /\ requests' = requests \ {q}
    /\ error' = "branch"
    /\ UNCHANGED <<selection, views, branching, loading, runList, created, clicks>>

DiffLoaded(q) ==
    /\ q.kind = "diff"
    /\ requests' = requests \ {q}
    /\ diff' = q.branch
    /\ UNCHANGED <<selection, views, branches, draft, error, loading, runList,
                   created, clicks>>

\* Nobody catches this failure.
DiffFailed(q) ==
    /\ q.kind = "diff"
    /\ requests' = requests \ {q}
    /\ UNCHANGED <<selection, views, branching, error, loading, runList,
                   created, clicks>>

----------------------------------------------------------------------------
Load == RunsLoaded \/ RunsRetry \/ RunsFail

Answer(q) ==
    \/ ReadBranches(q) \/ CreateBranch(q)
    \/ \E shown \in Nullable(Runs) :
          /\ q.kind \in {"tree", "timeline", "forensics"}
          /\ NotNull(shown) => shown = q.run
          /\ TreeLoaded(q, shown) \/ TimelineLoaded(q, shown) \/ ForensicsLoaded(q, shown)
    \/ TreeFailed(q)
    \/ SpanLoaded(q) \/ SpanFailed(q)
    \/ BranchCreated(q) \/ BranchFailed(q)
    \/ DiffLoaded(q) \/ DiffFailed(q)

User ==
    \/ \E r \in Runs : SelectRun(r)
    \/ \E s \in SpanIds : SelectSpan(s)
    \/ \E x \in Offered : StartDraft(x)
    \/ CancelDraft \/ SubmitBranch
    \/ \E b \in branches : LoadDiff(b)
    \/ ClearError

Next == Load \/ User \/ \E q \in requests : Answer(q)

Spec == Init /\ [][Next]_vars

\* Every request is answered or fails in the end; the user may stop any time.
FairSpec ==
    /\ Spec
    /\ WF_vars(Load)
    /\ WF_vars(\E q \in requests : Answer(q))

----------------------------------------------------------------------------
(* Properties                                                              *)

\* All that the centre and the failure list show is of the selected run: an
\* answer that arrives after another selection is not shown (reducer,
\* TREE_LOADED, TIMELINE_LOADED, FORENSICS_LOADED), and the edges are of the
\* run of the tree, although two kinds of answers bring them.
ShownTogether ==
    /\ {runTree, timeline, forensics} \subseteq {selectedRun, None}
    /\ NotNull(runTree) => spanEdges \in {runTree, None}

\* Once the inspector no longer says that it loads, the span it shows is the
\* selected span of the selected run, however many were selected on the way.
\* (The artifact tab does not wait: it shows the artifacts of the span before.)
InspectorShowsSelection ==
    NotNull(spanDetail) /\ "detail" \notin loading =>
        spanDetail = [run |-> selectedRun, id |-> selectedSpan]

\* A branch is drafted, requested and created from a span of its own source
\* run.  The draft takes the run from the selection and the span from a view
\* (START_BRANCH_DRAFT), and the answers of several runs are on their way.
ForksItsRun(d) == d.fork.run = d.run

BranchesForkTheirRun ==
    /\ NotNull(draft) => draft.run = selectedRun /\ ForksItsRun(draft)
    /\ \A b \in created : ForksItsRun(b)

\* A user who stops to click does not wait for ever: the list of runs appears
\* or its error does, after the retries, and the tree that is under way stops
\* to load, answered or failed (the catch branches of useAppState).
Waiting ==
    \/ "runs" \in loading
    \/ /\ "tree" \in loading
       /\ \E q \in requests : q.kind = "tree" /\ q.run = selectedRun

LoadsSettle == Waiting ~> loading \cap {"runs", "tree"} = {}

----------------------------------------------------------------------------
(* What one would expect and the code does not ensure                      *)

\* A view that loads has been requested.  Selecting the selected run again
\* clears its views, and no effect runs.
LoadingIsRequested ==
    "tree" \in loading => Waiting

\* The branches listed are those of the selected run's tree.  A created
\* branch is added to whatever list there is.
ListedBranchesOfRun ==
    NotNull(runTree) => \A b \in branches : b.run = runTree

\* The difference shown is one of the selected run's branches.
DiffOfSelectedRun == NotNull(diff) => diff.run = selectedRun

\* Creating one branch does not discard the draft of another.
DraftsOutliveOthers ==
    [][ \A q \in requests :
          BranchCreated(q) /\ NotNull(draft) => draft.fork = q.draft.fork ]_vars

=============================================================================
