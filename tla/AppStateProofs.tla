--------------------------- MODULE AppStateProofs ---------------------------
(***************************************************************************)
(* Proofs about AppState, for any runs, spans and number of clicks.        *)
(***************************************************************************)
EXTENDS AppState, TLAPS

\* Before the first selection there is nothing to show and nothing requested.
NothingUnselected ==
    selectedRun = None =>
        /\ requests = {} /\ branches = {}
        /\ diff = None /\ draft = None

\* A submitted draft forks its run, as the one it was submitted from.
SubmittedForkTheirRun ==
    \A q \in requests : q.kind = "create" => ForksItsRun(q.draft)

IInv ==
    /\ TypeOK
    /\ ShownTogether
    /\ InspectorShowsSelection
    /\ BranchesForkTheirRun
    /\ NothingUnselected
    /\ SubmittedForkTheirRun

----------------------------------------------------------------------------
LEMMA InitIInv == Init => IInv
<1> SUFFICES ASSUME Init PROVE IInv
  OBVIOUS
<1>1. TypeOK
  <2>1. error \in Errors /\ loading \subseteq Loadings
    BY DEF Init, Errors, Loadings
  <2>2. attempt \in 0 .. Retries /\ clicks \in 0 .. MaxClicks
    BY AppAssumption DEF Init, Retries
  <2>3. listed \in BOOLEAN
    BY DEF Init
  <2> QED BY <2>1, <2>2, <2>3 DEF Init, TypeOK, Nullable
<1>2. ShownTogether
  BY DEF Init, ShownTogether, NotNull
<1>3. InspectorShowsSelection
  BY DEF Init, InspectorShowsSelection, NotNull
<1>4. BranchesForkTheirRun
  BY DEF Init, BranchesForkTheirRun, NotNull
<1>5. NothingUnselected /\ SubmittedForkTheirRun
  BY DEF Init, NothingUnselected, SubmittedForkTheirRun
<1> QED BY <1>1, <1>2, <1>3, <1>4, <1>5 DEF IInv

\* The list of runs and its error are read by nothing else.
LEMMA LoadIInv == IInv /\ Load => IInv'
<1> SUFFICES ASSUME IInv, Load PROVE IInv'
  OBVIOUS
<1> USE DEF selection, views, branching, runList, IInv, TypeOK
<1>1. TypeOK'
  <2>1. CASE RunsLoaded
    BY <2>1 DEF RunsLoaded, Errors, Loadings
  <2>2. CASE RunsRetry
    BY <2>2 DEF RunsRetry, Retries
  <2>3. CASE RunsFail
    BY <2>3 DEF RunsFail, Errors, Loadings
  <2> QED BY <2>1, <2>2, <2>3 DEF Load
<1>2. /\ UNCHANGED <<selection, views, branching, requests, created>>
      /\ "detail" \in loading' <=> "detail" \in loading
  BY DEF Load, RunsLoaded, RunsRetry, RunsFail, selection, views, branching, runList
<1> QED
  BY <1>1, <1>2
  DEF selection, views, branching, IInv, ShownTogether, InspectorShowsSelection,
      BranchesForkTheirRun, NothingUnselected, SubmittedForkTheirRun, NotNull, ForksItsRun

\* What a click requests has the type of a request.
LEMMA ClickType ==
    ASSUME TypeOK, Clicks
    PROVE  clicks' \in Click /\ clicks' \in 0 .. MaxClicks
BY AppAssumption DEF TypeOK, Clicks, Click

LEMMA RunRequestsType ==
    ASSUME TypeOK, Clicks, NEW r \in Runs
    PROVE  RunRequests(r) \subseteq Requests
<1>1. clicks' \in Click
  BY ClickType
<1>2. [kind |-> "tree", nr |-> clicks', run |-> r, list |-> Unread] \in Requests
  BY <1>1 DEF Requests
<1>3. /\ [kind |-> "timeline", nr |-> clicks', run |-> r] \in Requests
      /\ [kind |-> "forensics", nr |-> clicks', run |-> r] \in Requests
  BY <1>1 DEF Requests
<1> QED BY <1>2, <1>3 DEF RunRequests

LEMMA DetailRequestsType ==
    ASSUME TypeOK, Clicks, selectedRun \in Runs, NEW s \in SpanIds
    PROVE  DetailRequests(s) \subseteq Requests
BY AppAssumption DEF TypeOK, Clicks, DetailRequests, Requests, Click, Spans

\* Whoever can click on a span has selected a run.
LEMMA ShownSelected ==
    ASSUME IInv, NEW s, SelectSpan(s)
    PROVE  selectedRun \in Runs
BY DEF IInv, TypeOK, ShownTogether, NothingUnselected, SelectSpan, NotNull, Nullable

\* What is offered for a branch is a span of the selected run.
LEMMA OfferedSelected ==
    ASSUME IInv, NEW x \in Offered
    PROVE  x \in Spans /\ x.run = selectedRun /\ selectedRun \in Runs
<1>1. CASE x \in Spans /\ x.run = runTree
  BY <1>1, AppAssumption DEF IInv, TypeOK, ShownTogether, Spans, Nullable
<1>2. CASE "detail" \notin loading /\ x = spanDetail /\ x # None
  <2>1. x = [run |-> selectedRun, id |-> selectedSpan]
    BY <1>2 DEF IInv, InspectorShowsSelection, NotNull
  <2>2. x \in Spans
    BY <1>2 DEF IInv, TypeOK, Nullable
  <2> QED BY <2>1, <2>2 DEF Spans
<1> QED BY <1>1, <1>2 DEF Offered

LEMMA UserIInv == IInv /\ User => IInv'
<1> SUFFICES ASSUME IInv, User PROVE IInv'
  OBVIOUS
<1> USE DEF IInv, selection, views, branching, runList
<1>1. ASSUME NEW r \in Runs, SelectRun(r) PROVE IInv'
  <2>1. TypeOK'
    BY <1>1, RunRequestsType, AppAssumption
    DEF SelectRun, TypeOK, Nullable, Clicks, Loadings, Errors
  <2>2. SubmittedForkTheirRun'
    BY <1>1 DEF SelectRun, SubmittedForkTheirRun, RunRequests, ForksItsRun
  <2>3. (ShownTogether /\ InspectorShowsSelection /\ BranchesForkTheirRun)'
    BY <1>1 DEF SelectRun, ShownTogether, InspectorShowsSelection, BranchesForkTheirRun,
                NotNull, ForksItsRun
  <2>4. NothingUnselected'
    BY <1>1, AppAssumption DEF SelectRun, NothingUnselected
  <2> QED BY <2>1, <2>2, <2>3, <2>4
<1>2. ASSUME NEW s \in SpanIds, SelectSpan(s) PROVE IInv'
  <2>1. selectedRun \in Runs
    BY <1>2, ShownSelected
  <2>2. TypeOK'
    BY <1>2, <2>1, DetailRequestsType, AppAssumption
    DEF SelectSpan, TypeOK, Nullable, Clicks, Loadings
  <2>3. SubmittedForkTheirRun'
    BY <1>2 DEF SelectSpan, SubmittedForkTheirRun, DetailRequests, ForksItsRun
  <2>4. (ShownTogether /\ InspectorShowsSelection /\ BranchesForkTheirRun)'
    BY <1>2 DEF SelectSpan, ShownTogether, InspectorShowsSelection, BranchesForkTheirRun,
                NotNull, ForksItsRun
  <2>5. NothingUnselected'
    BY <1>2, <2>1, AppAssumption DEF SelectSpan, NothingUnselected
  <2> QED BY <2>2, <2>3, <2>4, <2>5
<1>3. ASSUME NEW x \in Offered, StartDraft(x) PROVE IInv'
  <2>1. x \in Spans /\ x.run = selectedRun /\ selectedRun \in Runs
    BY OfferedSelected
  <2>2. TypeOK'
    BY <1>3, <2>1 DEF StartDraft, TypeOK, Nullable, Drafts
  <2>3. (BranchesForkTheirRun /\ NothingUnselected /\ SubmittedForkTheirRun)'
    BY <1>3, <2>1, AppAssumption
    DEF StartDraft, BranchesForkTheirRun, NothingUnselected, SubmittedForkTheirRun,
        ForksItsRun
  <2>4. (ShownTogether /\ InspectorShowsSelection)'
    BY <1>3 DEF StartDraft, ShownTogether, InspectorShowsSelection, NotNull
  <2> QED BY <2>2, <2>3, <2>4
<1>4. ASSUME CancelDraft PROVE IInv'
  BY <1>4 DEF CancelDraft, TypeOK, Nullable, ShownTogether, InspectorShowsSelection,
              BranchesForkTheirRun, NothingUnselected, SubmittedForkTheirRun, NotNull,
              ForksItsRun
<1>5. ASSUME SubmitBranch PROVE IInv'
  <2>1. TypeOK'
    <3>1. [kind |-> "create", nr |-> clicks', draft |-> draft, made |-> FALSE]
              \in Requests
      BY <1>5, ClickType DEF SubmitBranch, TypeOK, Nullable, NotNull, Requests
    <3> QED BY <1>5, <3>1, ClickType DEF SubmitBranch, TypeOK
  <2>2. SubmittedForkTheirRun'
    BY <1>5 DEF SubmitBranch, SubmittedForkTheirRun, BranchesForkTheirRun, ForksItsRun
  <2>3. (ShownTogether /\ InspectorShowsSelection /\ BranchesForkTheirRun)'
    BY <1>5 DEF SubmitBranch, ShownTogether, InspectorShowsSelection,
                BranchesForkTheirRun, NotNull, ForksItsRun
  <2>4. NothingUnselected'
    BY <1>5 DEF SubmitBranch, NothingUnselected, NotNull
  <2> QED BY <2>1, <2>2, <2>3, <2>4
<1>6. ASSUME NEW b \in branches, LoadDiff(b) PROVE IInv'
  <2>1. TypeOK'
    BY <1>6, AppAssumption DEF LoadDiff, TypeOK, Clicks, Requests, Click
  <2>2. SubmittedForkTheirRun'
    BY <1>6 DEF LoadDiff, SubmittedForkTheirRun, ForksItsRun
  <2>3. (ShownTogether /\ InspectorShowsSelection /\ BranchesForkTheirRun)'
    BY <1>6 DEF LoadDiff, ShownTogether, InspectorShowsSelection,
                BranchesForkTheirRun, NotNull, ForksItsRun
  <2>4. NothingUnselected'
    BY <1>6 DEF LoadDiff, NothingUnselected
  <2> QED BY <2>1, <2>2, <2>3, <2>4
<1>7. ASSUME ClearError PROVE IInv'
  BY <1>7 DEF ClearError, TypeOK, Nullable, ShownTogether, InspectorShowsSelection,
              BranchesForkTheirRun, NothingUnselected, SubmittedForkTheirRun, NotNull,
              ForksItsRun, Errors
<1> QED BY <1>1, <1>2, <1>3, <1>4, <1>5, <1>6, <1>7 DEF User

\* What identifies a request of each kind.
LEMMA RequestTypes ==
    ASSUME NEW q \in Requests
    PROVE  /\ q.nr \in Click
           /\ q.kind = "tree" => /\ q.run \in Runs
                                 /\ q.list \in {Unread} \cup SUBSET Branches
           /\ q.kind \in {"timeline", "forensics"} => q.run \in Runs
           /\ q.kind = "detail" => q.span \in Spans
           /\ q.kind = "create" => q.draft \in Drafts
           /\ q.kind = "diff" => q.branch \in Branches
BY DEF Requests

LEMMA BranchOfType ==
    ASSUME NEW q \in Requests, q.kind = "create"
    PROVE  /\ BranchOf(q) \in Branches
           /\ ForksItsRun(q.draft) => ForksItsRun(BranchOf(q))
BY RequestTypes DEF BranchOf, Branches, Drafts, Click, ForksItsRun

\* A request answered changes none of the facts about the others.
LEMMA AnswerKeeps ==
    ASSUME IInv, NEW q \in requests, requests' = requests \ {q}
    PROVE  SubmittedForkTheirRun'
BY DEF IInv, SubmittedForkTheirRun, ForksItsRun

LEMMA AnswerIInv == IInv /\ (\E q \in requests : Answer(q)) => IInv'
<1> SUFFICES ASSUME IInv, NEW q \in requests, Answer(q) PROVE IInv'
  OBVIOUS
<1> USE DEF selection, views, branching, runList
<1>q. q \in Requests /\ selectedRun \in Runs
  BY DEF IInv, TypeOK, NothingUnselected, Nullable
<1>n. selectedRun # None
  BY <1>q, AppAssumption
<1>1. ASSUME ReadBranches(q) PROVE IInv'
  <2>1. DEFINE p == [q EXCEPT !.list = {b \in created : b.run = q.run}]
  <2>2. p \in Requests /\ p.kind = "tree"
    BY <1>1, <1>q DEF ReadBranches, IInv, TypeOK, Requests
  <2>3. TypeOK'
    BY <1>1, <2>2 DEF ReadBranches, IInv, TypeOK
  <2>4. SubmittedForkTheirRun'
    BY <1>1, <2>2 DEF ReadBranches, IInv, SubmittedForkTheirRun, ForksItsRun
  <2>5. (ShownTogether /\ InspectorShowsSelection /\ BranchesForkTheirRun
           /\ NothingUnselected)'
    BY <1>1, <1>n DEF ReadBranches, IInv, ShownTogether, InspectorShowsSelection,
                      BranchesForkTheirRun, NothingUnselected, NotNull, ForksItsRun
  <2> QED BY <2>3, <2>4, <2>5 DEF IInv
<1>2. ASSUME CreateBranch(q) PROVE IInv'
  <2>1. DEFINE p == [q EXCEPT !.made = TRUE]
  <2>2. p \in Requests /\ p.kind = "create" /\ p.draft = q.draft
    BY <1>2, <1>q DEF CreateBranch, Requests
  <2>3. TypeOK'
    BY <1>2, <1>q, <2>2, BranchOfType DEF CreateBranch, IInv, TypeOK
  <2>4. SubmittedForkTheirRun'
    BY <1>2, <2>2 DEF CreateBranch, IInv, SubmittedForkTheirRun, ForksItsRun
  <2>5. BranchesForkTheirRun'
    BY <1>2, <1>q, BranchOfType
    DEF CreateBranch, IInv, BranchesForkTheirRun, SubmittedForkTheirRun, NotNull,
        ForksItsRun
  <2>6. (ShownTogether /\ InspectorShowsSelection /\ NothingUnselected)'
    BY <1>2, <1>n DEF CreateBranch, IInv, ShownTogether, InspectorShowsSelection,
                      NothingUnselected, NotNull
  <2> QED BY <2>3, <2>4, <2>5, <2>6 DEF IInv
<1>a. ASSUME requests' = requests \ {q}
      PROVE  requests' \subseteq Requests /\ SubmittedForkTheirRun'
  BY <1>a, AnswerKeeps DEF IInv, TypeOK
<1>3. ASSUME NEW shown \in Nullable(Runs), q.kind \in {"tree", "timeline", "forensics"},
             NotNull(shown) => shown = q.run, TreeLoaded(q, shown)
      PROVE  IInv'
  <2>1. TypeOK'
    BY <1>3, <1>q, <1>a, RequestTypes DEF TreeLoaded, IInv, TypeOK, Nullable
  <2>2. (ShownTogether /\ InspectorShowsSelection /\ BranchesForkTheirRun
           /\ NothingUnselected)'
    BY <1>3, <1>n DEF TreeLoaded, IInv, ShownTogether, InspectorShowsSelection,
                      BranchesForkTheirRun, NothingUnselected, NotNull, ForksItsRun
  <2> QED BY <1>3, <1>a, <2>1, <2>2 DEF IInv, TreeLoaded
<1>4. ASSUME NEW shown \in Nullable(Runs), NotNull(shown) => shown = q.run,
             TimelineLoaded(q, shown) \/ ForensicsLoaded(q, shown)
      PROVE  IInv'
  <2>1. TypeOK'
    BY <1>4, <1>q, <1>a, RequestTypes
    DEF TimelineLoaded, ForensicsLoaded, IInv, TypeOK, Nullable
  <2>2. (ShownTogether /\ InspectorShowsSelection /\ BranchesForkTheirRun
           /\ NothingUnselected)'
    BY <1>4, <1>n DEF TimelineLoaded, ForensicsLoaded, IInv, ShownTogether,
                      InspectorShowsSelection, BranchesForkTheirRun, NothingUnselected,
                      NotNull, ForksItsRun
  <2> QED BY <1>4, <1>a, <2>1, <2>2 DEF IInv, TimelineLoaded, ForensicsLoaded
<1>5. ASSUME TreeFailed(q) PROVE IInv'
  <2>1. TypeOK'
    BY <1>5, <1>q, <1>a, RequestTypes DEF TreeFailed, IInv, TypeOK, Nullable, Errors
  <2>2. (ShownTogether /\ InspectorShowsSelection /\ BranchesForkTheirRun
           /\ NothingUnselected)'
    BY <1>5, <1>n DEF TreeFailed, IInv, ShownTogether, InspectorShowsSelection,
                      BranchesForkTheirRun, NothingUnselected, NotNull, ForksItsRun
  <2> QED BY <1>5, <1>a, <2>1, <2>2 DEF IInv, TreeFailed
<1>6. ASSUME SpanLoaded(q) \/ SpanFailed(q) PROVE IInv'
  <2>1. TypeOK'
    <3>1. CASE SpanLoaded(q)
      <4>1. q.span \in Spans /\ q.span.run \in Runs
        BY <3>1, <1>q, RequestTypes DEF SpanLoaded, Spans
      <4> QED BY <3>1, <4>1, <1>a DEF SpanLoaded, IInv, TypeOK, Nullable
    <3>2. CASE SpanFailed(q)
      BY <3>2, <1>a DEF SpanFailed, IInv, TypeOK, Nullable, Errors
    <3> QED BY <1>6, <3>1, <3>2
  <2>2. InspectorShowsSelection'
    BY <1>6, <1>q, RequestTypes
    DEF SpanLoaded, SpanFailed, IsSelected, IInv, InspectorShowsSelection, NotNull, Spans
  <2>3. ShownTogether'
    BY <1>6, <1>q DEF SpanLoaded, SpanFailed, IsSelected, IInv, ShownTogether, NotNull
  <2>4. (BranchesForkTheirRun /\ NothingUnselected)'
    BY <1>6, <1>n DEF SpanLoaded, SpanFailed, IInv, BranchesForkTheirRun,
                      NothingUnselected, NotNull, ForksItsRun
  <2> QED BY <1>6, <1>a, <2>1, <2>2, <2>3, <2>4 DEF IInv, SpanLoaded, SpanFailed
<1>7. ASSUME BranchCreated(q) \/ BranchFailed(q) PROVE IInv'
  <2>1. TypeOK'
    <3>1. CASE BranchCreated(q)
      BY <3>1, <1>q, <1>a, BranchOfType
      DEF BranchCreated, IInv, TypeOK, Nullable, Errors
    <3>2. CASE BranchFailed(q)
      BY <3>2, <1>a DEF BranchFailed, IInv, TypeOK, Errors
    <3> QED BY <1>7, <3>1, <3>2
  <2>2. (ShownTogether /\ InspectorShowsSelection /\ BranchesForkTheirRun
           /\ NothingUnselected)'
    BY <1>7, <1>n DEF BranchCreated, BranchFailed, IInv, ShownTogether,
                      InspectorShowsSelection, BranchesForkTheirRun, NothingUnselected,
                      NotNull, ForksItsRun
  <2> QED BY <1>7, <1>a, <2>1, <2>2 DEF IInv, BranchCreated, BranchFailed
<1>8. ASSUME DiffLoaded(q) \/ DiffFailed(q) PROVE IInv'
  <2>1. TypeOK'
    BY <1>8, <1>q, <1>a, RequestTypes DEF DiffLoaded, DiffFailed, IInv, TypeOK, Nullable
  <2>2. (ShownTogether /\ InspectorShowsSelection /\ BranchesForkTheirRun
           /\ NothingUnselected)'
    BY <1>8, <1>n DEF DiffLoaded, DiffFailed, IInv, ShownTogether,
                      InspectorShowsSelection, BranchesForkTheirRun, NothingUnselected,
                      NotNull, ForksItsRun
  <2> QED BY <1>8, <1>a, <2>1, <2>2 DEF IInv, DiffLoaded, DiffFailed
<1> QED BY <1>1, <1>2, <1>3, <1>4, <1>5, <1>6, <1>7, <1>8 DEF Answer

LEMMA StutterIInv == IInv /\ UNCHANGED vars => IInv'
BY DEF vars, selection, views, branching, runList, IInv, TypeOK, ShownTogether,
       InspectorShowsSelection, BranchesForkTheirRun, NothingUnselected,
       SubmittedForkTheirRun, NotNull, ForksItsRun

LEMMA IInvHolds == Spec => []IInv
<1>1. IInv /\ [Next]_vars => IInv'
  BY LoadIInv, UserIInv, AnswerIInv, StutterIInv DEF Next
<1> QED BY <1>1, InitIInv, PTL DEF Spec

----------------------------------------------------------------------------
\* Every variable keeps its type.
THEOREM TypeCorrect == Spec => []TypeOK
<1>1. IInv => TypeOK
  BY DEF IInv
<1> QED BY <1>1, IInvHolds, PTL

\* Whatever was selected in between and in whatever order the answers arrive,
\* the centre of the page and the failure list show the selected run.
THEOREM PageShowsOneRun == Spec => []ShownTogether
<1>1. IInv => ShownTogether
  BY DEF IInv
<1> QED BY <1>1, IInvHolds, PTL

\* An inspector that does not say that it loads shows the selected span of the
\* selected run, although spans of several runs have the same ids.
THEOREM InspectorInStep == Spec => []InspectorShowsSelection
<1>1. IInv => InspectorShowsSelection
  BY DEF IInv
<1> QED BY <1>1, IInvHolds, PTL

\* No branch is created from a span of another run than its source.
THEOREM BranchesForked == Spec => []BranchesForkTheirRun
<1>1. IInv => BranchesForkTheirRun
  BY DEF IInv
<1> QED BY <1>1, IInvHolds, PTL

=============================================================================
